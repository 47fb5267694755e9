----------------------------- MODULE MCCheckClaims -----------------------------
(* Three checks: "c" and "d" share claim "k" but advance different goals;   *)
(* "k" depends on "l", which only "c" and "e" produce.                      *)
EXTENDS CheckClaims, TLC

MCProduces == "c" :> {"k", "l"} @@ "d" :> {"k"} @@ "e" :> {"l", "g"}
MCNeeds == "c" :> {<<"k", "l">>} @@ "d" :> {} @@ "e" :> {<<"l", "g">>}
MCFocus == "c" :> {"g"} @@ "d" :> {"h"} @@ "e" :> {"g"}
===============================================================================
