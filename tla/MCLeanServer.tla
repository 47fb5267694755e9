----------------------------- MODULE MCLeanServer ------------------------------
(* A backend that checks two documents.                                     *)
EXTENDS LeanServer
===============================================================================
