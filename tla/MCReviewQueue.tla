--------------------------- MODULE MCReviewQueue ---------------------------
(* Instances of ReviewQueue for TLC. *)
EXTENDS ReviewQueue, TLC

CONSTANTS p1, p2, p3, x, y

MCMenu == [duplicate |-> {"version", "skip"}, below_value |-> {"rewrite", "skip"}]
MCTypes == DOMAIN MCMenu
=============================================================================
