--------------------------- MODULE MCReplayFilter ---------------------------
(* A window of 4 nonces and enough nonces for every slot to be reused: the  *)
(* window can slide by less than, exactly and more than its own width.      *)
EXTENDS ReplayFilter

CONSTANT MaxNonce

MCNonces == 0 .. MaxNonce
=============================================================================
