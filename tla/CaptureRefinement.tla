------------------------- MODULE CaptureRefinement -------------------------
(***************************************************************************)
(* Local capture implements the ledger of runs that CaptureLedger promises. *)
(***************************************************************************)
EXTENDS LocalCapture

ReceivedBy(r) == {x \in admitted : x.run = r}

AccountedFor(x) ==
    Evident(x) \/ \E n \in admitted : Replaces(n, x) /\ Evident(n)

Ledger == INSTANCE CaptureLedger WITH
    state     <- runStatus,
    received  <- [r \in Runs |-> ReceivedBy(r)],
    accounted <- [r \in Runs |-> {x \in ReceivedBy(r) : AccountedFor(x)}]

(* Every step of the pipeline, its crashes and recoveries included, is a step *)
(* of the ledger or invisible to it: runs open one at a time and end once     *)
(* ("Close stale local capture runs", async_recover_interrupted_local_         *)
(* captures), a run ends clean only without silent loss, and evidence, once   *)
(* durable, is never taken back or added to a run that ended.                  *)
ImplementsLedger == Ledger!Spec

=============================================================================
