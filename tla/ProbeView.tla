------------------------------ MODULE ProbeView ------------------------------
(***************************************************************************)
(* What Home Assistant shows of one probe: probe_manager.py, which selects    *)
(* among the direct and the repeated copies of its advertisements, keeps the  *)
(* normal and the instant-read values apart, derives the mode from evidence   *)
(* that ages, and throttles what it tells the entities; the entities, which   *)
(* read the manager only when they are notified; the availability tick.       *)
(*                                                                           *)
(* One reception runs to its end without an await and is one action.  A time  *)
(* stamp is the age it has; ages stop where nothing distinguishes them.       *)
(***************************************************************************)
EXTENDS Integers

CONSTANTS
    DirectWindow,  \* DIRECT_DATA_PREFERENCE_SECONDS, in clock ticks
    ModeFresh,     \* MODE_ADVERTISEMENT_FRESH_SECONDS
    StatusFresh,   \* STATUS_MODE_FRESH_SECONDS
    InstantStale,  \* INSTANT_READ_STALE_SECONDS
    Timeout,       \* availability_timeout_seconds
    Period,        \* availability_check_interval
    MinNotify,     \* min_notify_interval_seconds
    Lag            \* how old a measurement is at most when a repeater repeats it

\* A repeated copy is "slightly stale": not older than the preference window.
ASSUME ProbeViewAssumption ==
    /\ {DirectWindow, ModeFresh, StatusFresh, InstantStale, Timeout, Period, MinNotify, Lag}
          \subseteq Nat
    /\ Lag <= DirectWindow

VARIABLES
    seen,       \* age of _last_seen
    direct,     \* age of _last_direct_seen
    advert,     \* per mode: age of _mode_seen
    reported,   \* per mode: age of _status_mode_seen
    projected,  \* _projected_mode_name
    instant,    \* age of _instant_read
    measured,   \* age of the measurement in data
    isDirect,   \* data came from the probe itself
    device,     \* new, known (_known_devices) or failed (_failed_devices)
    notified,   \* age of _last_notify
    due,        \* ticks to the next availability tick
    entities,   \* none, adding or added
    shown,      \* what the entities last wrote: availability, mode, instant read
    current     \* the normal reading they wrote is the one in data

receptionVars == <<seen, direct>>
modeVars  == <<advert, reported, projected>>
cacheVars == <<instant, measured, isDirect>>
deviceVars == <<device, notified>>
viewVars  == <<shown, current>>
vars == <<receptionVars, modeVars, cacheVars, deviceVars, due, entities, viewVars>>

-----------------------------------------------------------------------------
Modes == {"normal", "instant"}
NoMode == "none"
ModeNames == Modes \cup {"unknown", NoMode}
Paths == {"direct", "repeated"}

\* Ages beyond these are not told apart.
SeenCap == Timeout + Period
InstantCap == InstantStale + Period + 1
MeasuredCap == Lag + Period + 1
AdvertCap == ModeFresh + Period
ReportedCap == StatusFresh + Period

FreshModes == {m \in Modes : advert[m] < ModeFresh \/ reported[m] < StatusFresh}

\* current_mode_name: one mode, or none, or streams that contradict each other.
Mode == IF \E m \in Modes : FreshModes = {m}
        THEN CHOOSE m \in Modes : FreshModes = {m}
        ELSE IF FreshModes = {} THEN NoMode ELSE "unknown"

Available == seen < Timeout
InstantShown == instant <= InstantStale

Init ==
    /\ seen = SeenCap
    /\ direct = DirectWindow
    /\ advert = [m \in Modes |-> AdvertCap]
    /\ reported = [m \in Modes |-> ReportedCap]
    /\ projected = NoMode
    /\ instant = InstantCap
    /\ measured = MeasuredCap
    /\ isDirect = FALSE
    /\ device = "new"
    /\ notified = MinNotify
    /\ due = Period
    /\ entities = "none"
    /\ shown = [available |-> FALSE, mode |-> NoMode, instant |-> FALSE]
    /\ current = FALSE

-----------------------------------------------------------------------------
(* Notifications.  An entity that is added to hass reads the manager.         *)
Written == [available |-> Available, mode |-> Mode, instant |-> InstantShown]

Notify ==
    IF entities = "added" THEN shown' = Written' /\ current' = TRUE
                          ELSE UNCHANGED viewVars

\* _notify_mode_if_changed
NotifyModeIfChanged ==
    /\ projected' = Mode'
    /\ IF Mode' # projected THEN Notify ELSE UNCHANGED viewVars

-----------------------------------------------------------------------------
(* update(): one reception that the Bluetooth listener could parse.           *)

\* faulty variant: the probe is preferred only at the moment it is heard
SuppressedAtOnce(path) == path = "repeated" /\ direct = 0 /\ DirectWindow > 0

Suppressed(path) == path = "repeated" /\ direct < DirectWindow

Seen(path) ==
    /\ seen' = 0
    /\ direct' = IF path = "direct" THEN 0 ELSE direct

\* The mode is notified before the values are stored, so what a throttled
\* reception brings is not in what its mode change made the entities write.
NotifyModeOnly(mode) ==
    IF Mode' # projected /\ entities = "added"
    THEN /\ shown' = [Written' EXCEPT !.instant = InstantShown]
         /\ current' = (mode = "instant")
    ELSE /\ UNCHANGED shown
         /\ current' = (current /\ mode = "instant")

Cache(path, mode, age) ==
    IF mode = "instant"
    THEN instant' = 0 /\ UNCHANGED <<measured, isDirect>>
    ELSE measured' = age /\ isDirect' = (path = "direct") /\ UNCHANGED instant

\* A repeated copy measured age ticks ago; the probe's own is measured now.
Selected(path, mode, age) ==
    /\ ~Suppressed(path)
    /\ age = 0 \/ path = "repeated"
    /\ Seen(path)
    /\ advert' = [advert EXCEPT ![mode] = 0]
    /\ UNCHANGED <<reported, due>>
    /\ projected' = Mode'

ReceiveRepeated ==
    /\ Suppressed("repeated")
    /\ Seen("repeated")
    /\ UNCHANGED <<modeVars, cacheVars, deviceVars, due, entities, viewVars>>

\* No live projection for a device whose entities could not be created.
ReceiveFailed(path, mode, age) ==
    /\ device = "failed"
    /\ Selected(path, mode, age)
    /\ UNCHANGED <<cacheVars, deviceVars, entities>>
    /\ IF Mode' # projected THEN Notify ELSE UNCHANGED viewVars

ReceiveKnown(path, mode, age) ==
    /\ device = "known"
    /\ Selected(path, mode, age)
    /\ Cache(path, mode, age)
    /\ IF notified < MinNotify
       THEN NotifyModeOnly(mode) /\ UNCHANGED notified
       ELSE Notify /\ notified' = 0
    /\ UNCHANGED <<device, entities>>

\* The first reception creates the sensors, then the binary sensors.
ReceiveNew(path, mode, age) ==
    /\ device = "new"
    /\ Selected(path, mode, age)
    /\ Cache(path, mode, age)
    /\ \/ device' = "known" /\ entities' = "adding" /\ notified' = 0
       \/ device' = "failed" /\ entities' \in {"none", "adding"} /\ UNCHANGED notified
    /\ UNCHANGED viewVars

Receive == \E path \in Paths, mode \in Modes, age \in 0..Lag :
    \/ ReceiveFailed(path, mode, age)
    \/ ReceiveKnown(path, mode, age)
    \/ ReceiveNew(path, mode, age)

-----------------------------------------------------------------------------
(* The GATT connection's evidence, the entity platform, the clock.            *)
StatusOnly == UNCHANGED <<receptionVars, advert, cacheVars, deviceVars, due, entities>>

UpdateStatusMode ==
    /\ \E m \in Modes : reported' = [reported EXCEPT ![m] = 0]
    /\ StatusOnly
    /\ NotifyModeIfChanged

ClearStatusMode ==
    /\ reported' = [m \in Modes |-> ReportedCap]
    /\ StatusOnly
    /\ NotifyModeIfChanged

\* async_added_to_hass registers the listener, and the first state is written.
AddedToHass ==
    /\ entities = "adding"
    /\ entities' = "added"
    /\ shown' = Written
    /\ current' = TRUE
    /\ UNCHANGED <<receptionVars, modeVars, cacheVars, deviceVars, due>>

\* notify_listeners reaches the entities of every probe.
OtherProbeNotifies ==
    /\ UNCHANGED <<receptionVars, modeVars, cacheVars, deviceVars, due, entities>>
    /\ Notify

\* faulty variant: a probe that is silent has nothing to tell
TickOfAvailable ==
    /\ due = 0
    /\ due' = Period
    /\ UNCHANGED <<receptionVars, modeVars, cacheVars, deviceVars, entities>>
    /\ IF Available THEN Notify ELSE UNCHANGED viewVars

AvailabilityTick ==
    /\ due = 0
    /\ due' = Period
    /\ UNCHANGED <<receptionVars, modeVars, cacheVars, deviceVars, entities>>
    /\ Notify

\* Ages beyond a cap are not told apart: every comparison has been decided.
Older(age, cap) == IF age < cap THEN age + 1 ELSE cap

Tick ==
    /\ due > 0
    /\ due' = due - 1
    /\ seen' = Older(seen, SeenCap)
    /\ direct' = Older(direct, DirectWindow)
    /\ advert' = [m \in Modes |-> Older(advert[m], AdvertCap)]
    /\ reported' = [m \in Modes |-> Older(reported[m], ReportedCap)]
    /\ instant' = Older(instant, InstantCap)
    /\ measured' = Older(measured, MeasuredCap)
    /\ notified' = Older(notified, MinNotify)
    /\ UNCHANGED <<projected, isDirect, device, entities, viewVars>>

-----------------------------------------------------------------------------
Next ==
    \/ ReceiveRepeated \/ Receive
    \/ UpdateStatusMode \/ ClearStatusMode
    \/ AddedToHass \/ OtherProbeNotifies \/ AvailabilityTick \/ Tick

Spec == Init /\ [][Next]_vars

-----------------------------------------------------------------------------
\* The shape of the state, which the proofs rest on.
TypeOK ==
    /\ seen \in 0..SeenCap
    /\ direct \in 0..DirectWindow
    /\ advert \in [Modes -> 0..AdvertCap]
    /\ reported \in [Modes -> 0..ReportedCap]
    /\ projected \in ModeNames
    /\ instant \in 0..InstantCap
    /\ measured \in 0..MeasuredCap
    /\ isDirect \in BOOLEAN
    /\ device \in {"new", "known", "failed"}
    /\ notified \in 0..MinNotify
    /\ due \in 0..Period
    /\ entities \in {"none", "adding", "added"}
    /\ shown \in [available : BOOLEAN, mode : ModeNames, instant : BOOLEAN]
    /\ current \in BOOLEAN

\* Silence, an instant read that ended, a reading that the throttle held back and
\* a mode whose evidence lapsed reach the entities within one availability tick,
\* although none of them is an event that notifies (device_available,
\* instant_read_temperature, current_mode_name, _async_availability_tick), and
\* although _projected_mode_name is not what the entities show.
ShownIsRecent ==
    entities = "added" =>
        /\ shown.available => seen < Timeout + Period
        /\ shown.instant => instant <= InstantStale + Period
        /\ ~current => measured <= Lag + Period
        /\ shown.mode \in Modes =>
              \/ advert[shown.mode] < ModeFresh + Period
              \/ reported[shown.mode] < StatusFresh + Period

\* No reception replaces a reading of the probe itself by an older measurement
\* that a repeater still repeats (DIRECT_DATA_PREFERENCE_SECONDS).
DirectNeverUndone == [][isDirect /\ seen' = 0 => measured' <= measured]_vars
=============================================================================
