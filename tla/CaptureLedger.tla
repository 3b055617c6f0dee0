---------------------------- MODULE CaptureLedger ----------------------------
(***************************************************************************)
(* What the local archive promises about capture runs, without the queue,   *)
(* the timers, the writer and the restarts that keep the promise.           *)
(*                                                                          *)
(* A run is opened once, one at a time.  While it is open, observations of   *)
(* it are received and become accounted for: archived, covered by a recorded *)
(* gap, or replaced by an accounted newer point.  It ends clean only when    *)
(* nothing received is unaccounted, or interrupted; either is final, and     *)
(* what was accounted for stays so for ever.                                 *)
(***************************************************************************)
CONSTANT Runs

VARIABLES
    state,      \* of each run: "none", "running", "clean" or "interrupted"
    received,   \* observations each run received
    accounted   \* those of them the archive accounts for

ledgerVars == <<state, received, accounted>>

Init ==
    /\ state = [r \in Runs |-> "none"]
    /\ received = [r \in Runs |-> {}]
    /\ accounted = [r \in Runs |-> {}]

Begin(r) ==
    /\ state[r] = "none"
    /\ \A t \in Runs : state[t] # "running"
    /\ state' = [state EXCEPT ![r] = "running"]
    /\ UNCHANGED <<received, accounted>>

\* the evidence of the open run grows, that of the others does not change
Work(r) ==
    /\ state[r] = "running"
    /\ received[r] \subseteq received'[r]
    /\ accounted[r] \subseteq accounted'[r]
    /\ accounted'[r] \subseteq received'[r]
    /\ \A t \in Runs \ {r} : /\ received'[t] = received[t]
                             /\ accounted'[t] = accounted[t]
    /\ UNCHANGED state

Close(r) ==
    /\ state[r] = "running"
    /\ received[r] = accounted[r]
    /\ state' = [state EXCEPT ![r] = "clean"]
    /\ UNCHANGED <<received, accounted>>

Interrupt(r) ==
    /\ state[r] = "running"
    /\ state' = [state EXCEPT ![r] = "interrupted"]
    /\ UNCHANGED <<received, accounted>>

Next == \E r \in Runs : Begin(r) \/ Work(r) \/ Close(r) \/ Interrupt(r)

Spec == Init /\ [][Next]_ledgerVars

=============================================================================
