----------------------------- MODULE MCSearchRun -----------------------------
(* The ladder "base", "top", where "top" needs "base"; the second version   *)
(* of the configuration has "top" removed.  Candidate "a" proves the whole  *)
(* ladder in the first project and "base" in the second, "b" proves "top"   *)
(* without its prerequisite's axioms being allowed.                         *)
EXTENDS SearchRun, TLC

MCLadder == 0 :> <<"base", "top">> @@ 1 :> <<"base">>
MCDeclaration == "base" :> "B" @@ "top" :> "T"
MCSharedDeclaration == "base" :> "B" @@ "top" :> "B"
MCDependsOn == "base" :> {} @@ "top" :> {"base"}
MCElaborates == "a" :> {0, 1} @@ "b" :> {0}
MCInhabits == "a" :> (0 :> {"base", "top"} @@ 1 :> {"base"})
           @@ "b" :> (0 :> {"base", "top"} @@ 1 :> {})
MCClean == "a" :> {"B", "T"} @@ "b" :> {"T"}
MCInhabitsBase == "a" :> (0 :> {"base"} @@ 1 :> {"base"})
               @@ "b" :> (0 :> {"base"} @@ 1 :> {})
MCCleanShared == "a" :> {"B"} @@ "b" :> {}
==============================================================================
