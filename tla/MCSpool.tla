------------------------------ MODULE MCSpool ------------------------------
(***************************************************************************)
(* Values for the constants of Spool: two payloads, the second so large    *)
(* that two of them exceed the byte limit.                                 *)
(***************************************************************************)
EXTENDS Spool, TLC

CONSTANTS small, large

MCPayloads == {small, large}
MCEstimateBytes == small :> 1 @@ large :> 2
MCEnvelopeBytes == small :> 1 @@ large :> 2
MCTimes == {0, 1}
MCDelays == {1}

Symmetry == Permutations(EventIds) \union Permutations(Callers)
              \union Permutations(ReceiptIds)
=============================================================================
