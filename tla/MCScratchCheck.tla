---------------------------- MODULE MCScratchCheck ----------------------------
(* A delta campaign: the seed imports the checkpoint, and the proposals are *)
(* good and bad appends, a diff that is right for one parent only, and      *)
(* whole candidates.  The frozen modules form a diamond, a cycle, or lack   *)
(* one that is imported.                                                    *)
EXTENDS ScratchCheck, TLC

Thm(n) == <<"theorem", n>>
Source(imports, block) ==
    [i \in DOMAIN imports |-> Import(imports[i])]
        \o <<<<Namespace>>, <<StartMark>>>> \o block \o <<<<Sentinel>>, <<EndMark>>>>

MCNames == {"Demo", "Demo.A", "Demo.B", "Demo.Ghost", "Mathlib", "Demo.Generated.Checkpoint"}
MCInLibrary == MCNames \ {"Mathlib"}
MCCheckpointName == "Demo.Generated.Checkpoint"
MCForbidden == {Thm("sorry")}
MCWrong == {Thm("wrong")}
MCLines == Markers \cup {<<Namespace>>} \cup {Import(n) : n \in MCNames}
              \cup {Thm(n) : n \in {"c", "x", "y", "z", "sorry", "wrong"}}

MCCheckpoint == Source(<<"Demo">>, <<Thm("c")>>)
MCSeed == Source(<<MCCheckpointName>>, <<>>)

Diamond == "Demo" :> <<"Demo.A", "Demo.B">> @@ "Demo.A" :> <<"Mathlib", "Demo.B">>
        @@ "Demo.B" :> <<"Mathlib">>
Cycle == "Demo" :> <<"Demo.A">> @@ "Demo.A" :> <<"Demo.B">> @@ "Demo.B" :> <<"Demo.A">>
Lacking == "Demo" :> <<"Demo.A">> @@ "Demo.A" :> <<"Demo.Ghost">>
MCGraphs == {Diamond, Cycle, Lacking}

\* "@@ -3 +3,2 @@": one line is added after the third, the start marker.
Insert(line) == <<[old |-> 3, oldCount |-> 1, new |-> 3, newCount |-> 2,
                   body |-> <<<<" ", <<StartMark>>>>, <<"+", line>>>>]>>

MCProposals ==
    { [mode |-> "append", text |-> <<Thm("x")>>],
      [mode |-> "append", text |-> <<Thm("x"), Import("Demo.B")>>],
      [mode |-> "append", text |-> <<Thm("sorry")>>],
      [mode |-> "append", text |-> <<Thm("wrong")>>],
      [mode |-> "diff", text |-> Insert(Thm("y"))],
      [mode |-> "candidate", text |-> Source(<<MCCheckpointName, "Demo.B">>, <<Thm("z")>>)],
      [mode |-> "candidate", text |-> Source(<<"Demo">>, <<Thm("z")>>)] }
===============================================================================
