--------------------------- MODULE LiveConnection ---------------------------
(***************************************************************************)
(* One probe as connection_manager.py and prediction_manager.py serve it: the *)
(* maintain task that keeps a GATT link, the notifications that arrive over   *)
(* it, the freshness timer, commands of control entities, and the unload.     *)
(*                                                                           *)
(* Other probes act on this one only through the shared connection listeners. *)
(* A callback, or the code of a task between two awaits, is one action.       *)
(* The adapter is external: a link may drop, an attempt may fail, and calls   *)
(* without a timeout may hang.  A connection listener, or a callback for a new *)
(* probe, may raise: nothing guards them.                                     *)
(***************************************************************************)
EXTENDS Integers

CONSTANTS
    Stale,        \* PREDICTION_STALE_SECONDS, in clock ticks
    MaxBackoff,   \* doublings from RECONNECT_MIN_SECONDS to RECONNECT_MAX_SECONDS
    MaxPolls,     \* polls of one command (WRITE_TIMEOUT * 10)
    Commands      \* commands sent, once each

ASSUME LiveConnectionAssumption ==
    /\ Stale \in Nat \ {0}
    /\ MaxBackoff \in Nat \ {0}
    /\ MaxPolls \in Nat \ {0}

VARIABLES
    entry,        \* config entry: loaded, unloading or unloaded
    task,         \* where the maintain task is suspended ("none": no address yet)
    cancelled,    \* a CancelledError waits for the task
    backoff,      \* doublings of the retry delay so far
    delay,        \* doublings of the delay before the next attempt, or NoDelay
    link,         \* the GATT slot: down, up, stuck when the adapter kept it, or left
                  \* open by a task that a listener's exception ended
    tx,           \* the subscriptions were requested on this link
    client,       \* the serial is in _clients
    command,      \* per command: where async_send_command is suspended
    polls,        \* per command: polls left
    status,       \* the serial is in _status_serials
    mode,         \* link whose mode probe_manager._status_mode_seen holds
    received,     \* link on which the prediction of _last_received arrived
    age,          \* ticks since then
    timer,        \* ticks to the expiry handle, or Off
    shown         \* the entities show a prediction

taskVars    == <<task, cancelled, backoff, delay>>
linkVars    == <<link, tx>>
commandVars == <<command, polls>>
viewVars    == <<status, mode, received, age, timer, shown>>
vars == <<entry, taskVars, linkVars, client, commandVars, viewVars>>

-----------------------------------------------------------------------------
Off == -1
NoDelay == -1
Origins == {"none", "this", "old", "late"}   \* late: over a link already given up
Suspended == {"look", "establish", "enable", "canary", "wait", "close", "unwind", "sleep"}
Over == {"none", "done", "raised"}           \* raised: by a listener's exception

Init ==
    /\ entry = "loaded"
    /\ task = "none"
    /\ cancelled = FALSE
    /\ backoff = 0
    /\ delay = NoDelay
    /\ link = "down"
    /\ tx = FALSE
    /\ client = FALSE
    /\ command = [c \in Commands |-> "new"]
    /\ polls = [c \in Commands |-> MaxPolls]
    /\ status = FALSE
    /\ mode = "none"
    /\ received = "none"
    /\ age = 0
    /\ timer = Off
    /\ shown = FALSE

\* faulty variant: the doubling has no maximum
DoubledUncapped == backoff + 1

Doubled == IF backoff < MaxBackoff THEN backoff + 1 ELSE backoff

\* prediction() is not None.
Current == client /\ received # "none" /\ age < Stale

\* The entities read prediction() again; after the unload there are none.
Notify == shown' = (entry = "loaded" /\ Current')

-----------------------------------------------------------------------------
(* PredictionManager._on_connection_change, which every connection listener   *)
(* notification runs once the client table has changed.                       *)

\* faulty variant: a disconnection leaves the evidence in place
RefreshOnly ==
    /\ UNCHANGED <<status, mode, received, age, timer>>
    /\ Notify

OnConnectionChange ==
    /\ IF entry = "loaded" /\ status /\ ~client'
       THEN /\ mode' = "none"
            /\ received' = "none"
            /\ age' = 0
            /\ timer' = Off
       ELSE UNCHANGED <<mode, received, age, timer>>
    /\ UNCHANGED status
    /\ Notify

\* Another probe connected or disconnected.
OtherProbeChanges ==
    /\ entry = "loaded"
    /\ UNCHANGED client
    /\ OnConnectionChange
    /\ UNCHANGED <<entry, taskVars, linkVars, commandVars>>

\* _on_disconnected: the listeners hear of it only if a client was recorded.
OnDisconnected ==
    /\ client' = FALSE
    /\ IF client THEN OnConnectionChange ELSE UNCHANGED viewVars

-----------------------------------------------------------------------------
(* ConnectionManager._maintain_connection.                                    *)
Started ==
    /\ task' = "look"
    /\ backoff' = 0
    /\ delay' = NoDelay

Advertisement ==
    /\ entry = "loaded"
    /\ task \in Over
    /\ Started
    /\ UNCHANGED <<entry, cancelled, linkVars, client, commandVars, viewVars>>

Resumes(at) == task = at /\ ~cancelled

BackOff ==
    /\ delay' = backoff
    /\ backoff' = Doubled

LookFound ==
    /\ Resumes("look")
    /\ task' = "establish"
    /\ UNCHANGED <<entry, cancelled, backoff, delay, linkVars, client, commandVars, viewVars>>

LookFoundNothing ==
    /\ Resumes("look")
    /\ task' = "sleep"
    /\ BackOff
    /\ UNCHANGED <<entry, cancelled, linkVars, client, commandVars, viewVars>>

\* What was received before belongs to an older link from now on.
Older(origin) == IF origin = "this" THEN "old" ELSE origin

\* A probe has a single GATT slot: no link is made beside one left open.
Established ==
    /\ Resumes("establish")
    /\ link # "left"
    /\ task' = "enable"
    /\ link' = "up"
    /\ tx' = FALSE
    /\ mode' = Older(mode)
    /\ received' = Older(received)
    /\ UNCHANGED <<entry, cancelled, backoff, delay, client, commandVars,
                   status, age, timer, shown>>

\* faulty variant: the exception ends the loop
EstablishFatal ==
    /\ Resumes("establish")
    /\ task' = "done"
    /\ OnDisconnected
    /\ UNCHANGED <<entry, cancelled, backoff, delay, linkVars, commandVars>>

EstablishFails ==
    /\ Resumes("establish")
    /\ task' = "sleep"
    /\ BackOff
    /\ OnDisconnected
    /\ UNCHANGED <<entry, cancelled, linkVars, commandVars>>

\* faulty variant: the client is recorded before the subscriptions are made
RecordedFirst ==
    /\ Resumes("enable")
    /\ client' = TRUE
    /\ task' = "canary"
    /\ tx' = FALSE
    /\ UNCHANGED <<entry, cancelled, backoff, delay, link, commandVars, viewVars>>

\* Every start_notify returned or failed; only then is the client recorded.
Enabled ==
    /\ Resumes("enable")
    /\ client' = TRUE
    /\ task' = "canary"
    /\ tx' = TRUE
    /\ UNCHANGED <<entry, cancelled, backoff, delay, link, commandVars, viewVars>>

\* The canary write returned or failed; the listeners hear of the link.
Announced ==
    /\ Resumes("canary")
    /\ task' = "wait"
    /\ UNCHANGED client
    /\ OnConnectionChange
    /\ UNCHANGED <<entry, cancelled, backoff, delay, linkVars, commandVars>>

\* A listener or a new-probe callback raised over it: the handler backs off, and
\* the finally block notifies again before it asks for the disconnection.  When
\* the listener raises there too, the task ends and the link stays as it is.
AnnounceFails ==
    /\ Resumes("canary")
    /\ entry = "loaded"
    /\ BackOff
    /\ OnDisconnected
    /\ \/ task' = "close" /\ UNCHANGED link
       \/ task' = "raised" /\ link' = IF link = "up" THEN "left" ELSE link
    /\ UNCHANGED <<entry, cancelled, tx, commandVars>>

\* A stable link starts the retry cycle afresh, any other counts as a failure.
WaitEnds ==
    /\ Resumes("wait")
    /\ link # "up"
    /\ task' = "close"
    /\ \/ backoff' = 0 /\ delay' = NoDelay
       \/ BackOff
    /\ OnDisconnected
    /\ UNCHANGED <<entry, cancelled, linkVars, commandVars>>

\* A listener raises in the finally block of a link that ended; the unload has
\* removed them all.
DisconnectRaises ==
    /\ Resumes("wait")
    /\ entry = "loaded"
    /\ link # "up"
    /\ task' = "raised"
    /\ OnDisconnected
    /\ UNCHANGED <<entry, cancelled, backoff, delay, linkVars, commandVars>>

\* What client.disconnect() leaves of a link: its errors are suppressed.
Released == IF link = "up" THEN {"down", "stuck"} ELSE {link}

Closed ==
    /\ Resumes("close")
    /\ task' = IF delay = NoDelay THEN "look" ELSE "sleep"
    /\ link' \in Released
    /\ UNCHANGED <<entry, cancelled, backoff, delay, tx, client, commandVars, viewVars>>

Slept ==
    /\ Resumes("sleep")
    /\ task' = "look"
    /\ delay' = NoDelay
    /\ UNCHANGED <<entry, cancelled, backoff, linkVars, client, commandVars, viewVars>>

\* A cancellation before a client exists, or in the sleep, ends the task.
CancelledEarly ==
    /\ cancelled
    /\ task \in {"look", "establish", "sleep"}
    /\ task' = "done"
    /\ cancelled' = FALSE
    /\ UNCHANGED <<entry, backoff, delay, linkVars, client, commandVars, viewVars>>

\* A cancellation with a client unwinds through the finally block.
CancelledConnected ==
    /\ cancelled
    /\ task \in {"enable", "canary", "wait"}
    /\ task' = "unwind"
    /\ cancelled' = FALSE
    /\ OnDisconnected
    /\ UNCHANGED <<entry, backoff, delay, linkVars, commandVars>>

\* A cancellation inside client.disconnect() abandons it.
CancelledClosing ==
    /\ cancelled
    /\ task \in {"close", "unwind"}
    /\ task' = "done"
    /\ cancelled' = FALSE
    /\ link' = IF link = "up" THEN "stuck" ELSE link
    /\ UNCHANGED <<entry, backoff, delay, tx, client, commandVars, viewVars>>

Unwound ==
    /\ Resumes("unwind")
    /\ task' = "done"
    /\ link' \in Released
    /\ UNCHANGED <<entry, cancelled, backoff, delay, tx, client, commandVars, viewVars>>

Maintain ==
    \/ LookFound \/ LookFoundNothing \/ Established \/ EstablishFails \/ Enabled
    \/ Announced \/ AnnounceFails \/ WaitEnds \/ DisconnectRaises \/ Closed \/ Slept
    \/ CancelledEarly \/ CancelledConnected \/ CancelledClosing

\* disconnected_callback sets the event that WaitEnds waits for.
LinkDrops ==
    /\ link \in {"up", "left"}
    /\ link' = "down"
    /\ UNCHANGED <<entry, taskVars, tx, client, commandVars, viewVars>>

-----------------------------------------------------------------------------
(* PredictionManager: notifications and the expiry timer.                     *)

\* Each arrives over the link that is open, also before the client is recorded
\* and after it was taken back.
Arrives == IF task \in {"enable", "canary", "wait"} THEN "this" ELSE "late"

NormalStatus ==
    /\ link \in {"up", "left"}
    /\ status' = TRUE
    /\ mode' = Arrives
    /\ received' = Arrives
    /\ age' = 0
    /\ timer' = Stale
    /\ UNCHANGED <<entry, taskVars, linkVars, client, commandVars>>
    /\ Notify

\* Any other mode, or a prediction that does not parse, leaves the rest alone.
OtherStatus ==
    /\ link \in {"up", "left"}
    /\ status' = TRUE
    /\ mode' = Arrives
    /\ UNCHANGED <<entry, taskVars, linkVars, client, commandVars, received, age, timer, shown>>

\* faulty variant: an early timer is taken for the expiry
ExpireOnce ==
    /\ timer \in 0..1
    /\ timer' = Off
    /\ UNCHANGED <<entry, taskVars, linkVars, client, commandVars, status, mode, received, age>>
    /\ Notify

\* The event loop fires the handle late, or up to a tick early.
ExpirePrediction ==
    /\ timer \in 0..1
    /\ UNCHANGED <<entry, taskVars, linkVars, client, commandVars, status, mode, received, age>>
    /\ IF received # "none" /\ age < Stale
       THEN /\ timer' = Stale - age
            /\ UNCHANGED shown
       ELSE /\ timer' = Off
            /\ IF received # "none" THEN Notify ELSE UNCHANGED shown

Tick ==
    /\ age' = IF received # "none" /\ age < Stale THEN age + 1 ELSE age
    /\ timer' = IF timer > 0 THEN timer - 1 ELSE timer
    /\ UNCHANGED <<entry, taskVars, linkVars, client, commandVars, status, mode, received, shown>>

-----------------------------------------------------------------------------
(* ConnectionManager.async_send_command.                                      *)
CommandOnly == UNCHANGED <<entry, taskVars, linkVars, client, viewVars>>

\* The kick starts a task that is over; one that backs off is not woken.
Send(c) ==
    /\ entry = "loaded"
    /\ command[c] = "new"
    /\ command' = [command EXCEPT ![c] = IF client THEN "write"
                                         ELSE IF task = "none" THEN "error" ELSE "poll"]
    /\ IF ~client /\ task \in {"done", "raised"}
       THEN Started
       ELSE UNCHANGED <<task, backoff, delay>>
    /\ UNCHANGED <<entry, cancelled, linkVars, client, viewVars, polls>>

Poll(c) ==
    /\ command[c] = "poll"
    /\ polls' = [polls EXCEPT ![c] = @ - 1]
    /\ command' = [command EXCEPT ![c] = IF client THEN "write"
                                         ELSE IF polls[c] = 1 THEN "error" ELSE "poll"]
    /\ CommandOnly

\* Without a response, the write fails only when the link is known to be gone.
Written(c) ==
    /\ command[c] = "write"
    /\ \E result \in {"ok", "error"} : command' = [command EXCEPT ![c] = result]
    /\ UNCHANGED polls
    /\ CommandOnly

-----------------------------------------------------------------------------
(* Unload: the on_unload callbacks in one pass, then _async_shutdown waits.   *)
Unload ==
    /\ entry = "loaded"
    /\ entry' = "unloading"
    /\ cancelled' = (task \in Suspended)
    /\ timer' = Off
    /\ status' = FALSE
    /\ shown' = FALSE
    /\ UNCHANGED <<task, backoff, delay, linkVars, client, commandVars, mode, received, age>>

\* faulty variant: the wait for the tasks has no timeout
ShutdownWaitsOn ==
    /\ entry = "unloading"
    /\ task = "unwind"
    /\ UNCHANGED vars

\* SHUTDOWN_TIMEOUT_SECONDS passed: gather cancels what has not unwound.
ShutdownTimesOut ==
    /\ entry = "unloading"
    /\ task = "unwind"
    /\ cancelled' = TRUE
    /\ UNCHANGED <<entry, task, backoff, delay, linkVars, client, commandVars, viewVars>>

TaskOver == task \in Over

\* faulty variant: the unload does not wait for the task
ShutdownAtOnce ==
    /\ entry = "unloading"
    /\ entry' = "unloaded"
    /\ client' = FALSE
    /\ link' \in IF client THEN Released ELSE {link}
    /\ UNCHANGED <<taskVars, tx, commandVars, viewVars>>

\* Clients without a task are disconnected as a fallback.
ShutdownEnds ==
    /\ entry = "unloading"
    /\ TaskOver
    /\ entry' = "unloaded"
    /\ client' = FALSE
    /\ link' \in IF client THEN Released ELSE {link}
    /\ UNCHANGED <<taskVars, tx, commandVars, viewVars>>

-----------------------------------------------------------------------------
Next ==
    \/ Advertisement \/ Maintain \/ Unwound \/ LinkDrops \/ OtherProbeChanges
    \/ NormalStatus \/ OtherStatus \/ ExpirePrediction \/ Tick
    \/ \E c \in Commands : Send(c) \/ Poll(c) \/ Written(c)
    \/ Unload \/ ShutdownTimesOut \/ ShutdownEnds

\* start_notify, the canary write and the disconnect() of an open link have no
\* timeout and may hang.
InAdapterCall == task \in {"enable", "canary"} \/ (task = "close" /\ link = "up")

\* The event loop resumes what is ready; a call that may hang need not return.
Fairness ==
    /\ WF_vars(~InAdapterCall /\ Maintain)
    /\ WF_vars(CancelledConnected \/ CancelledClosing)
    /\ WF_vars(ShutdownTimesOut)
    /\ WF_vars(ShutdownEnds)
    /\ \A c \in Commands : WF_vars(Poll(c) \/ Written(c))

Spec == Init /\ [][Next]_vars /\ Fairness

-----------------------------------------------------------------------------
TypeOK ==
    /\ entry \in {"loaded", "unloading", "unloaded"}
    /\ task \in Suspended \cup Over
    /\ cancelled \in BOOLEAN
    /\ backoff \in 0..MaxBackoff
    /\ delay \in {NoDelay} \cup 0..MaxBackoff
    /\ link \in {"down", "up", "stuck", "left"}
    /\ tx \in BOOLEAN
    /\ client \in BOOLEAN
    /\ command \in [Commands -> {"new", "poll", "write", "ok", "error"}]
    /\ polls \in [Commands -> 0..MaxPolls]
    /\ status \in BOOLEAN
    /\ mode \in Origins
    /\ received \in Origins
    /\ age \in 0..Stale
    /\ timer \in {Off} \cup 0..Stale
    /\ shown \in BOOLEAN

\* While the entry is loaded, nothing received over an earlier link is left as
\* evidence of the present one, neither a prediction nor a probe mode, although
\* notifications begin before the client is recorded and disconnections of other
\* probes run the same listener (_on_connection_change, _on_disconnected).  Only
\* what arrives late, over a link the manager gave up because a listener raised,
\* outlives it: no disconnection is announced for that link any more.
EvidenceIsOfThisLink ==
    entry = "loaded" => received # "old" /\ mode # "old"

\* What the entities show is what prediction() returns, but for a prediction that
\* went stale and whose timer is still to fire and a link whose announcement waits
\* for the canary write (_schedule_expiry, _expire_prediction, _on_connected).
ProjectionInStep ==
    \/ entry # "loaded"
    \/ shown = Current
    \/ task = "canary"
    \/ shown /\ age = Stale /\ timer # Off

\* The slot of the probe is free while the task backs off and after an unload,
\* unless the adapter itself failed to give it back, or an exception of a listener
\* in the finally block left the link open for good (_maintain_connection,
\* _async_shutdown).
NoSlotLeaks == task \in {"look", "sleep"} \cup Over \/ entry = "unloaded" => link # "up"

\* A command is written only to a client whose subscriptions, the response's
\* among them, were requested before (_on_connected).
WritesFollowSubscription ==
    [][\A c \in Commands : command[c] # "write" /\ command'[c] = "write" => tx]_vars

\* While the entry stays loaded, a probe that advertised once is always being
\* looked for or connected again, whatever the outcome of an attempt, unless a call
\* without a timeout hangs or the exception of a listener in the finally block ends
\* the task, until the next advertisement or command (_maintain_connection).
KeepsTrying ==
    \/ <>[]InAdapterCall
    \/ []<>(task \in {"none", "look", "wait", "raised"} \/ entry # "loaded")

\* An unload always comes to an end, also when the adapter hangs in disconnect()
\* (SHUTDOWN_TIMEOUT_SECONDS).
UnloadEnds == entry = "unloading" ~> entry = "unloaded"
=============================================================================
