---------------------------- MODULE MCSyncLedger ----------------------------
(***************************************************************************)
(* SyncLedger for TLC: the payloads of a sample are interchangeable.         *)
(***************************************************************************)
EXTENDS SyncLedger, TLC

PayloadSymmetry == Permutations(Payloads)

=============================================================================
