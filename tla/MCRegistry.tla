----------------------------- MODULE MCRegistry -----------------------------
(* A registry with more nodes than addresses. *)
EXTENDS Registry
=============================================================================
