------------------------ MODULE LiveConnectionProofs ------------------------
(***************************************************************************)
(* Safety of LiveConnection for every freshness window, back-off, number of  *)
(* polls and set of commands.  LiveInv ties the client table, the link and   *)
(* the evidence to the await at which the maintain task is suspended.        *)
(***************************************************************************)
EXTENDS LiveConnection, TLAPS

-----------------------------------------------------------------------------
\* Where a link, a client and a cancellation can exist.
TaskInv ==
    /\ link = "up" => task \in {"enable", "canary", "wait", "close", "unwind"}
    /\ client <=> task \in {"canary", "wait"}
    /\ client => tx
    /\ entry = "loaded" => ~cancelled /\ task \notin {"unwind", "done"}
    /\ entry = "unloaded" => task \in Over

\* Evidence exists only between Established and the end of that link, but for what
\* arrives over a link given up before it ended.
EvidenceInv ==
    entry = "loaded" =>
        /\ received # "none" \/ mode # "none" => status
        /\ task \notin {"enable", "canary", "wait"} =>
               received \in {"none", "late"} /\ mode \in {"none", "late"}

\* A prediction that is still fresh has a timer; only one received is shown.
ProjectionInv ==
    entry = "loaded" =>
        /\ received # "none" /\ age < Stale => timer # Off
        /\ shown => client /\ received # "none"

\* A command that may still poll has a poll left.
PollsInv == \A c \in Commands : command[c] \in {"new", "poll"} => polls[c] # 0

LiveInv ==
    /\ TypeOK
    /\ PollsInv
    /\ TaskInv
    /\ EvidenceInv
    /\ EvidenceIsOfThisLink
    /\ ProjectionInv
    /\ ProjectionInStep

-----------------------------------------------------------------------------
LEMMA InitLive == Init => LiveInv
<1> SUFFICES ASSUME Init PROVE LiveInv
  OBVIOUS
<1> USE LiveConnectionAssumption DEF Init
<1>1. TypeOK
  <2>1. command \in [Commands -> {"new", "poll", "write", "ok", "error"}]
    OBVIOUS
  <2>2. polls \in [Commands -> 0..MaxPolls]
    OBVIOUS
  <2>3. backoff \in 0..MaxBackoff /\ age \in 0..Stale
    OBVIOUS
  <2> QED BY <2>1, <2>2, <2>3 DEF TypeOK, Suspended, Over, Origins, Off, NoDelay
<1>2. PollsInv
  BY DEF PollsInv
<1>3. TaskInv
  BY DEF TaskInv
<1>4. EvidenceInv /\ EvidenceIsOfThisLink
  BY DEF EvidenceInv, EvidenceIsOfThisLink
<1>5. ProjectionInv /\ ProjectionInStep
  BY DEF ProjectionInv, ProjectionInStep, Current
<1> QED BY <1>1, <1>2, <1>3, <1>4, <1>5 DEF LiveInv

\* A notification leaves a Boolean, whatever it reads.
LEMMA NotifyTyped == Notify => shown' \in BOOLEAN
BY Zenon DEF Notify

\* So does the unload that cancels the task.
LEMMA UnloadTyped == Unload => cancelled' \in BOOLEAN
<1> SUFFICES ASSUME Unload PROVE cancelled' \in BOOLEAN
  OBVIOUS
<1>1. cancelled' = (task \in Suspended)
  BY DEF Unload
<1>2. CASE task \in Suspended
  BY <1>1, <1>2
<1>3. CASE task \notin Suspended
  BY <1>1, <1>3
<1> QED BY <1>2, <1>3

\* What the end of the unload leaves alone.
LEMMA ShutdownFrame ==
    ShutdownEnds => /\ entry' = "unloaded" /\ client' = FALSE
                    /\ UNCHANGED <<taskVars, tx, commandVars, viewVars>>
BY Zenon DEF ShutdownEnds

\* The listener of connection changes keeps the types of the evidence.
LEMMA ConnectionChangeTyped ==
    ASSUME TypeOK, OnConnectionChange
    PROVE  /\ status' \in BOOLEAN /\ shown' \in BOOLEAN
           /\ mode' \in Origins /\ received' \in Origins
           /\ age' \in 0..Stale /\ timer' \in {Off} \cup 0..Stale
<1>1. Notify
  BY DEF OnConnectionChange
<1>2. shown' \in BOOLEAN
  BY <1>1, NotifyTyped
<1>3. /\ status' \in BOOLEAN
      /\ mode' \in Origins /\ received' \in Origins
      /\ age' \in 0..Stale /\ timer' \in {Off} \cup 0..Stale
  BY LiveConnectionAssumption DEF TypeOK, OnConnectionChange, Origins
<1> QED BY <1>2, <1>3

\* So does a disconnection.
LEMMA DisconnectedTyped ==
    ASSUME TypeOK, OnDisconnected
    PROVE  /\ client' \in BOOLEAN
           /\ status' \in BOOLEAN /\ shown' \in BOOLEAN
           /\ mode' \in Origins /\ received' \in Origins
           /\ age' \in 0..Stale /\ timer' \in {Off} \cup 0..Stale
<1>1. CASE client
  BY <1>1, ConnectionChangeTyped DEF OnDisconnected
<1>2. CASE ~client
  BY <1>2 DEF OnDisconnected, TypeOK, viewVars
<1> QED BY <1>1, <1>2

\* What every action keeps: types.
LEMMA TypeStep == TypeOK /\ PollsInv /\ [Next]_vars => TypeOK' /\ PollsInv'
<1> USE LiveConnectionAssumption
        DEF TypeOK, PollsInv, Suspended, Over, Origins, Off, NoDelay, commandVars, linkVars,
            taskVars, viewVars
<1> SUFFICES ASSUME TypeOK, PollsInv, [Next]_vars PROVE TypeOK' /\ PollsInv'
  OBVIOUS
<1>1. CASE Advertisement
  BY <1>1 DEF Advertisement, Started
<1>2. CASE LookFound \/ LookFoundNothing
  BY <1>2 DEF LookFound, LookFoundNothing, Resumes, BackOff, Doubled
<1>3. CASE Established
  BY <1>3 DEF Established, Resumes, Older
<1>4. CASE EstablishFails
  BY <1>4, DisconnectedTyped DEF EstablishFails, Resumes, BackOff, Doubled
<1>5. CASE Enabled
  BY <1>5 DEF Enabled, Resumes
<1>6. CASE Announced
  BY <1>6, ConnectionChangeTyped DEF Announced, Resumes
<1>19. CASE AnnounceFails
  BY <1>19, DisconnectedTyped DEF AnnounceFails, Resumes, BackOff, Doubled
<1>20. CASE DisconnectRaises
  BY <1>20, DisconnectedTyped DEF DisconnectRaises, Resumes
<1>7. CASE WaitEnds
  BY <1>7, DisconnectedTyped DEF WaitEnds, Resumes, BackOff, Doubled
<1>8. CASE Closed \/ Slept \/ Unwound
  BY <1>8 DEF Closed, Slept, Unwound, Resumes, Released
<1>9. CASE CancelledEarly \/ CancelledConnected \/ CancelledClosing
  <2>1. CASE CancelledEarly
    <3>1. cancelled' \in BOOLEAN
      BY <2>1, Zenon DEF CancelledEarly
    <3>2. task' \in Suspended \cup Over
      BY <2>1 DEF CancelledEarly
    <3> QED BY <2>1, <3>1, <3>2 DEF CancelledEarly
  <2>2. CASE CancelledConnected
    BY <2>2, DisconnectedTyped DEF CancelledConnected
  <2>3. CASE CancelledClosing
    <3>1. cancelled' \in BOOLEAN
      BY <2>3, Zenon DEF CancelledClosing
    <3>2. task' \in Suspended \cup Over /\ link' \in {"down", "up", "stuck", "left"}
      BY <2>3 DEF CancelledClosing
    <3>3. UNCHANGED <<entry, backoff, delay, tx, client, commandVars, viewVars>>
      BY <2>3, Zenon DEF CancelledClosing
    <3> QED BY <3>1, <3>2, <3>3
  <2> QED BY <1>9, <2>1, <2>2, <2>3
<1>10. CASE LinkDrops
  BY <1>10 DEF LinkDrops
<1>11. CASE OtherProbeChanges
  BY <1>11, ConnectionChangeTyped DEF OtherProbeChanges
<1>12. CASE NormalStatus \/ OtherStatus
  <2>1. CASE NormalStatus
    BY <2>1, NotifyTyped DEF NormalStatus, Arrives
  <2>2. CASE OtherStatus
    BY <2>2 DEF OtherStatus, Arrives
  <2> QED BY <1>12, <2>1, <2>2
<1>13. CASE ExpirePrediction
  BY <1>13, NotifyTyped DEF ExpirePrediction
<1>14. CASE Tick
  BY <1>14 DEF Tick
<1>15. CASE \E c \in Commands : Send(c) \/ Poll(c) \/ Written(c)
  <2> PICK c \in Commands : Send(c) \/ Poll(c) \/ Written(c)
    BY <1>15
  <2>1. CASE Send(c)
    BY <2>1 DEF Send, Started
  <2>2. CASE Poll(c)
    BY <2>2 DEF Poll, CommandOnly
  <2>3. CASE Written(c)
    BY <2>3 DEF Written, CommandOnly
  <2> QED BY <2>1, <2>2, <2>3
<1>16. CASE Unload
  <2>1. cancelled' \in BOOLEAN
    BY <1>16, UnloadTyped
  <2>2. entry' \in {"loaded", "unloading", "unloaded"}
    BY <1>16 DEF Unload
  <2>3. status' \in BOOLEAN /\ shown' \in BOOLEAN /\ timer' \in {Off} \cup 0..Stale
    BY <1>16 DEF Unload
  <2>4. /\ task' = task /\ backoff' = backoff /\ delay' = delay /\ link' = link /\ tx' = tx
        /\ client' = client /\ command' = command /\ polls' = polls
        /\ mode' = mode /\ received' = received /\ age' = age
    BY <1>16 DEF Unload
  <2> QED BY <2>1, <2>2, <2>3, <2>4
<1>17. CASE ShutdownTimesOut \/ ShutdownEnds
  <2>1. CASE ShutdownTimesOut
    <3>1. cancelled' \in BOOLEAN
      BY <2>1, Zenon DEF ShutdownTimesOut
    <3> QED BY <2>1, <3>1 DEF ShutdownTimesOut
  <2>2. CASE ShutdownEnds
    <3>1. link' \in {"down", "up", "stuck", "left"}
      <4>1. CASE client /\ link = "up"
        BY <2>2, <4>1 DEF ShutdownEnds, Released
      <4>2. CASE ~(client /\ link = "up")
        <5>1. link' = link
          BY <2>2, <4>2 DEF ShutdownEnds, Released
        <5> QED BY <5>1
      <4> QED BY <4>1, <4>2
    <3>2. client' \in BOOLEAN /\ entry' = "unloaded"
      BY <2>2, ShutdownFrame, Zenon
    <3>3. UNCHANGED <<taskVars, tx, commandVars, viewVars>>
      BY <2>2, ShutdownFrame, Zenon
    <3> QED BY <3>1, <3>2, <3>3
  <2> QED BY <1>17, <2>1, <2>2
<1>18. CASE UNCHANGED vars
  BY <1>18 DEF vars
<1> QED
  BY <1>1, <1>2, <1>3, <1>4, <1>5, <1>6, <1>7, <1>8, <1>9, <1>10, <1>11, <1>12,
     <1>13, <1>14, <1>15, <1>16, <1>17, <1>18, <1>19, <1>20 DEF Next, Maintain

-----------------------------------------------------------------------------
\* Which await the task is suspended at decides about link and client.
LEMMA TaskStep == TypeOK /\ TaskInv /\ [Next]_vars => TaskInv'
<1> SUFFICES ASSUME TypeOK, TaskInv, [Next]_vars PROVE TaskInv'
  OBVIOUS
<1> USE DEF TaskInv, TypeOK, Over, taskVars, linkVars
<1>1. CASE Advertisement
  BY <1>1 DEF Advertisement, Started
<1>2. CASE LookFound \/ LookFoundNothing
  BY <1>2 DEF LookFound, LookFoundNothing, Resumes
<1>3. CASE Established
  BY <1>3 DEF Established, Resumes
<1>4. CASE EstablishFails
  BY <1>4 DEF EstablishFails, Resumes, OnDisconnected
<1>5. CASE Enabled
  BY <1>5 DEF Enabled, Resumes
<1>6. CASE Announced
  BY <1>6 DEF Announced, Resumes
<1>20. CASE AnnounceFails
  BY <1>20 DEF AnnounceFails, Resumes, OnDisconnected
<1>21. CASE DisconnectRaises
  BY <1>21 DEF DisconnectRaises, Resumes, OnDisconnected
<1>7. CASE WaitEnds
  BY <1>7 DEF WaitEnds, Resumes, OnDisconnected
<1>8. CASE Closed \/ Slept \/ Unwound
  BY <1>8 DEF Closed, Slept, Unwound, Resumes, Released, Suspended
<1>9. CASE CancelledEarly \/ CancelledConnected \/ CancelledClosing
  BY <1>9 DEF CancelledEarly, CancelledConnected, CancelledClosing, OnDisconnected
<1>10. CASE LinkDrops
  BY <1>10 DEF LinkDrops
<1>11. CASE OtherProbeChanges
  BY <1>11 DEF OtherProbeChanges
<1>12. CASE NormalStatus \/ OtherStatus
  BY <1>12 DEF NormalStatus, OtherStatus, Arrives
<1>13. CASE ExpirePrediction
  BY <1>13 DEF ExpirePrediction
<1>14. CASE Tick
  BY <1>14 DEF Tick
<1>15. CASE \E c \in Commands : Send(c) \/ Poll(c) \/ Written(c)
  BY <1>15 DEF Send, Started, Poll, Written, CommandOnly
<1>16. CASE Unload
  BY <1>16 DEF Unload
<1>17. CASE ShutdownTimesOut
  BY <1>17 DEF ShutdownTimesOut
<1>18. CASE ShutdownEnds
  <2>1. ~client /\ task \in Over
    BY <1>18 DEF ShutdownEnds, TaskOver
  <2>2. link' = link
    BY <1>18, <2>1 DEF ShutdownEnds
  <2> QED BY <1>18, <2>1, <2>2, ShutdownFrame
<1>19. CASE UNCHANGED vars
  BY <1>19 DEF vars
<1> QED
  BY <1>1, <1>2, <1>3, <1>4, <1>5, <1>6, <1>7, <1>8, <1>9, <1>10, <1>11, <1>12,
     <1>13, <1>14, <1>15, <1>16, <1>17, <1>18, <1>19, <1>20, <1>21 DEF Next, Maintain

-----------------------------------------------------------------------------
\* Evidence of a link ends with it, before the next link exists.
LEMMA EvidenceStep ==
    TypeOK /\ TaskInv /\ EvidenceInv /\ EvidenceIsOfThisLink /\ [Next]_vars
        => EvidenceInv' /\ EvidenceIsOfThisLink'
<1> SUFFICES ASSUME TypeOK, TaskInv, EvidenceInv, EvidenceIsOfThisLink, [Next]_vars
             PROVE  EvidenceInv' /\ EvidenceIsOfThisLink'
  OBVIOUS
<1> USE DEF TaskInv, TypeOK, Over, Origins, EvidenceInv, EvidenceIsOfThisLink,
            taskVars, linkVars, viewVars
<1>1. CASE Advertisement
  BY <1>1 DEF Advertisement, Started
<1>2. CASE LookFound \/ LookFoundNothing
  BY <1>2 DEF LookFound, LookFoundNothing, Resumes
<1>3. CASE Established
  BY <1>3 DEF Established, Resumes, Older
<1>4. CASE EstablishFails
  BY <1>4 DEF EstablishFails, Resumes, OnDisconnected
<1>5. CASE Enabled
  BY <1>5 DEF Enabled, Resumes
<1>6. CASE Announced
  BY <1>6 DEF Announced, Resumes, OnConnectionChange
<1>20. CASE AnnounceFails
  BY <1>20 DEF AnnounceFails, Resumes, OnDisconnected, OnConnectionChange
<1>21. CASE DisconnectRaises
  BY <1>21 DEF DisconnectRaises, Resumes, OnDisconnected, OnConnectionChange
<1>7. CASE WaitEnds
  BY <1>7 DEF WaitEnds, Resumes, OnDisconnected, OnConnectionChange
<1>8. CASE Closed \/ Slept \/ Unwound
  BY <1>8 DEF Closed, Slept, Unwound, Resumes
<1>9. CASE CancelledEarly \/ CancelledConnected \/ CancelledClosing
  BY <1>9 DEF CancelledEarly, CancelledConnected, CancelledClosing
<1>10. CASE LinkDrops
  BY <1>10 DEF LinkDrops
<1>11. CASE OtherProbeChanges
  BY <1>11 DEF OtherProbeChanges, OnConnectionChange
<1>12. CASE NormalStatus \/ OtherStatus
  BY <1>12 DEF NormalStatus, OtherStatus, Arrives
<1>13. CASE ExpirePrediction
  BY <1>13 DEF ExpirePrediction
<1>14. CASE Tick
  BY <1>14 DEF Tick
<1>15. CASE \E c \in Commands : Send(c) \/ Poll(c) \/ Written(c)
  BY <1>15 DEF Send, Started, Poll, Written, CommandOnly
<1>16. CASE Unload
  BY <1>16 DEF Unload
<1>17. CASE ShutdownTimesOut
  BY <1>17 DEF ShutdownTimesOut
<1>18. CASE ShutdownEnds
  BY <1>18, ShutdownFrame
<1>19. CASE UNCHANGED vars
  BY <1>19 DEF vars
<1> QED
  BY <1>1, <1>2, <1>3, <1>4, <1>5, <1>6, <1>7, <1>8, <1>9, <1>10, <1>11, <1>12,
     <1>13, <1>14, <1>15, <1>16, <1>17, <1>18, <1>19, <1>20, <1>21 DEF Next, Maintain

-----------------------------------------------------------------------------
\* The entities and prediction() part only where a refresh is still to come.
LEMMA ProjectionStep ==
    LiveInv /\ [Next]_vars => ProjectionInv' /\ ProjectionInStep'
<1> SUFFICES ASSUME LiveInv, [Next]_vars PROVE ProjectionInv' /\ ProjectionInStep'
  OBVIOUS
<1> USE LiveConnectionAssumption
        DEF LiveInv, TaskInv, TypeOK, EvidenceInv, ProjectionInv, ProjectionInStep,
            Current, Off, Over, Origins, taskVars, linkVars, viewVars
<1>1. CASE Advertisement
  BY <1>1 DEF Advertisement, Started
<1>2. CASE LookFound \/ LookFoundNothing
  BY <1>2 DEF LookFound, LookFoundNothing, Resumes
<1>3. CASE Established
  BY <1>3 DEF Established, Resumes, Older
<1>4. CASE EstablishFails
  BY <1>4 DEF EstablishFails, Resumes, OnDisconnected
<1>5. CASE Enabled
  BY <1>5 DEF Enabled, Resumes
<1>6. CASE Announced
  BY <1>6 DEF Announced, Resumes, OnConnectionChange, Notify
<1>20. CASE AnnounceFails
  BY <1>20 DEF AnnounceFails, Resumes, OnDisconnected, OnConnectionChange, Notify
<1>21. CASE DisconnectRaises
  BY <1>21 DEF DisconnectRaises, Resumes, OnDisconnected, OnConnectionChange, Notify
<1>7. CASE WaitEnds
  BY <1>7 DEF WaitEnds, Resumes, OnDisconnected, OnConnectionChange, Notify
<1>8. CASE Closed \/ Slept \/ Unwound
  BY <1>8 DEF Closed, Slept, Unwound, Resumes
<1>9. CASE CancelledEarly \/ CancelledConnected \/ CancelledClosing
  BY <1>9 DEF CancelledEarly, CancelledConnected, CancelledClosing
<1>10. CASE LinkDrops
  BY <1>10 DEF LinkDrops
<1>11. CASE OtherProbeChanges
  BY <1>11 DEF OtherProbeChanges, OnConnectionChange, Notify
<1>12. CASE NormalStatus \/ OtherStatus
  BY <1>12 DEF NormalStatus, OtherStatus, Arrives, Notify
<1>13. CASE ExpirePrediction
  <2>1. CASE received # "none" /\ age < Stale
    BY <1>13, <2>1 DEF ExpirePrediction
  <2>2. CASE received # "none" /\ ~(age < Stale)
    BY <1>13, <2>2 DEF ExpirePrediction, Notify
  <2>3. CASE received = "none"
    BY <1>13, <2>3 DEF ExpirePrediction
  <2> QED BY <2>1, <2>2, <2>3
<1>14. CASE Tick
  BY <1>14 DEF Tick
<1>15. CASE \E c \in Commands : Send(c) \/ Poll(c) \/ Written(c)
  BY <1>15 DEF Send, Started, Poll, Written, CommandOnly
<1>16. CASE Unload
  BY <1>16 DEF Unload
<1>17. CASE ShutdownTimesOut
  BY <1>17 DEF ShutdownTimesOut
<1>18. CASE ShutdownEnds
  BY <1>18, ShutdownFrame
<1>19. CASE UNCHANGED vars
  BY <1>19 DEF vars
<1> QED
  BY <1>1, <1>2, <1>3, <1>4, <1>5, <1>6, <1>7, <1>8, <1>9, <1>10, <1>11, <1>12,
     <1>13, <1>14, <1>15, <1>16, <1>17, <1>18, <1>19, <1>20, <1>21 DEF Next, Maintain

-----------------------------------------------------------------------------
\* The inductive invariant.
LEMMA LiveInvariance == Spec => []LiveInv
<1>1. LiveInv /\ [Next]_vars => LiveInv'
  BY TypeStep, TaskStep, EvidenceStep, ProjectionStep DEF LiveInv
<1> QED BY InitLive, <1>1, PTL DEF Spec

\* Every back-off, delay, poll and age stays in its range (_maintain_connection,
\* async_send_command, _schedule_expiry).
THEOREM LiveTypeCorrect == Spec => []TypeOK
<1>1. LiveInv => TypeOK
  BY DEF LiveInv
<1> QED BY LiveInvariance, <1>1, PTL

\* At every moment, and whatever other probes do, the evidence shown for a probe
\* comes from the link that is open, or arrived over one that was given up because a
\* listener raised (_on_connection_change, _on_disconnected).
THEOREM EvidenceOfThisLink == Spec => []EvidenceIsOfThisLink
<1>1. LiveInv => EvidenceIsOfThisLink
  BY DEF LiveInv
<1> QED BY LiveInvariance, <1>1, PTL

\* Entities never keep a prediction that nothing will take away again
\* (_schedule_expiry, _expire_prediction, _on_connection_change).
THEOREM ProjectionStaysInStep == Spec => []ProjectionInStep
<1>1. LiveInv => ProjectionInStep
  BY DEF LiveInv
<1> QED BY LiveInvariance, <1>1, PTL

\* No back-off and no unload holds the slot of the probe, unless the adapter or the
\* exception of a listener in the finally block left it taken (_maintain_connection,
\* _async_shutdown).
THEOREM SlotsAreReleased == Spec => []NoSlotLeaks
<1>1. LiveInv => NoSlotLeaks
  BY DEF LiveInv, TaskInv, NoSlotLeaks, Over
<1> QED BY LiveInvariance, <1>1, PTL

\* No command is written before the subscriptions of its link were requested
\* (_on_connected, async_send_command).
THEOREM WritesFollow == Spec => WritesFollowSubscription
<1>1. LiveInv /\ [Next]_vars =>
        [\A c \in Commands : command[c] # "write" /\ command'[c] = "write" => tx]_vars
  <2> SUFFICES ASSUME LiveInv, [Next]_vars, NEW c \in Commands,
                      command[c] # "write", command'[c] = "write"
               PROVE  tx
    BY Zenon
  <2>1. client => tx
    BY DEF LiveInv, TaskInv
  <2>2. CASE \E d \in Commands : Send(d) \/ Poll(d) \/ Written(d)
    BY <2>1, <2>2 DEF Send, Poll, Written, LiveInv, TypeOK
  <2>3. CASE UNCHANGED vars
    BY <2>3 DEF vars, commandVars
  <2>4. CASE UNCHANGED commandVars
    BY <2>4 DEF commandVars
  <2>5. Next => UNCHANGED commandVars \/ \E d \in Commands : Send(d) \/ Poll(d) \/ Written(d)
    BY ShutdownFrame
       DEF Next, Maintain, Advertisement, LookFound, LookFoundNothing, Established,
           EstablishFails, Enabled, Announced, AnnounceFails, WaitEnds, DisconnectRaises, Closed, Slept, Unwound,
           CancelledEarly, CancelledConnected, CancelledClosing, LinkDrops,
           OtherProbeChanges, NormalStatus, OtherStatus, ExpirePrediction, Tick,
           Unload, ShutdownTimesOut, commandVars
  <2> QED BY <2>2, <2>3, <2>4, <2>5
<1> QED BY LiveInvariance, <1>1, PTL DEF Spec, WritesFollowSubscription
=============================================================================
