---------------------------- MODULE MCArtifactStore ----------------------------
(* One artifact, which shares nothing with others but the session, two     *)
(* locations, a type that has to be replicated and one that has not.       *)
EXTENDS ArtifactStore

CONSTANTS d1, local, replica

Order == <<local, replica>>
===============================================================================
