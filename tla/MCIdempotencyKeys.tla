------------------------- MODULE MCIdempotencyKeys -------------------------
(***************************************************************************)
(* IdempotencyKeys for TLC.  Three attempts: two that overlap or follow    *)
(* each other and a retry.  Attempts are interchangeable, and so are       *)
(* processes, bodies and tenants.                                          *)
(***************************************************************************)
EXTENDS IdempotencyKeys, TLC

Symmetric ==
    Permutations(Attempts) \cup Permutations(Processes)
        \cup Permutations(Bodies) \cup Permutations(Tenants)
=============================================================================
