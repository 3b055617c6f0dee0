--------------------------- MODULE ProbeViewProofs ---------------------------
(***************************************************************************)
(* What the entities show is bounded by one availability tick, for every      *)
(* choice of the windows, the timeout, the tick and the throttle.  ProbeInv   *)
(* counts the bounds down with the tick that is due (RecentInv), and says     *)
(* that _projected_mode_name still names all evidence that is fresh.          *)
(***************************************************************************)
EXTENDS ProbeView, TLAPS

-----------------------------------------------------------------------------
\* Evidence only lapses after the event that projected it.
EvidenceInv == FreshModes = {} \/ projected = "unknown" \/ FreshModes = {projected}

Supported(m) ==
    \/ advert[m] < ModeFresh + Period - due
    \/ reported[m] < StatusFresh + Period - due

RecentInv ==
    entities = "added" =>
        /\ shown.available => seen < Timeout + Period - due
        /\ shown.instant => instant <= InstantStale + Period - due
        /\ ~current => measured <= Lag + Period - due
        /\ shown.mode \in Modes => Supported(shown.mode)
        /\ shown.mode \in Modes => projected \in {shown.mode, "unknown"}

\* A reading of the probe itself is no younger than its last advertisement, as
\* far as the lag of a repeater can tell.
DirectInv == isDirect => measured >= direct \/ measured >= Lag

ProbeInv == TypeOK /\ EvidenceInv /\ RecentInv /\ DirectInv

-----------------------------------------------------------------------------
LEMMA ConstantsAreNat ==
    /\ DirectWindow \in Nat /\ ModeFresh \in Nat /\ StatusFresh \in Nat
    /\ InstantStale \in Nat /\ Timeout \in Nat /\ Period \in Nat
    /\ MinNotify \in Nat /\ Lag \in Nat /\ Lag <= DirectWindow
BY ProbeViewAssumption

\* An age within its window is within the window and the ticks that are left.
LEMMA WindowAndTick ==
    ASSUME NEW age \in Nat, NEW window \in Nat, NEW period \in Nat, NEW d \in 0..period
    PROVE  /\ age < window => age < window + period - d
           /\ age <= window => age <= window + period - d
BY SMT

\* What current_mode_name makes of a set of fresh modes.
LEMMA PickMode ==
    ASSUME NEW F \in SUBSET Modes, NEW M,
           M = IF \E m \in Modes : F = {m} THEN CHOOSE m \in Modes : F = {m}
               ELSE IF F = {} THEN NoMode ELSE "unknown"
    PROVE  /\ M \in ModeNames
           /\ M \in Modes => F = {M}
           /\ F = {} \/ M = "unknown" \/ F = {M}
           /\ M = "unknown" => F = Modes
<1>1. CASE \E m \in Modes : F = {m}
  <2>1. M \in Modes /\ F = {M}
    BY <1>1
  <2> QED BY <2>1 DEF Modes, ModeNames
<1>2. CASE ~(\E m \in Modes : F = {m}) /\ F = {}
  BY <1>2 DEF Modes, ModeNames, NoMode
<1>3. CASE ~(\E m \in Modes : F = {m}) /\ F # {}
  <2>1. F = Modes
    BY <1>3 DEF Modes
  <2> QED BY <1>3, <2>1 DEF Modes, ModeNames, NoMode
<1> QED BY <1>1, <1>2, <1>3

LEMMA ModeIsPicked ==
    /\ Mode \in ModeNames
    /\ Mode \in Modes => FreshModes = {Mode}
    /\ FreshModes = {} \/ Mode = "unknown" \/ FreshModes = {Mode}
    /\ Mode = "unknown" => FreshModes = Modes
<1>1. FreshModes \in SUBSET Modes
  BY DEF FreshModes
<1> HIDE DEF FreshModes
<1> QED BY <1>1, PickMode DEF Mode

LEMMA ModeIsPickedNext ==
    /\ Mode' \in ModeNames
    /\ Mode' \in Modes => FreshModes' = {Mode'}
    /\ FreshModes' = {} \/ Mode' = "unknown" \/ FreshModes' = {Mode'}
    /\ Mode' = "unknown" => FreshModes' = Modes
<1>1. FreshModes' \in SUBSET Modes
  BY DEF FreshModes
<1>2. Mode' = IF \E m \in Modes : FreshModes' = {m} THEN CHOOSE m \in Modes : FreshModes' = {m}
              ELSE IF FreshModes' = {} THEN NoMode ELSE "unknown"
  BY DEF Mode
<1> HIDE DEF FreshModes
<1> QED BY <1>1, <1>2, PickMode

\* Whatever changed the evidence recomputed what is projected.
LEMMA ProjectedKeepsEvidence == projected' = Mode' => EvidenceInv'
BY ModeIsPickedNext DEF EvidenceInv

-----------------------------------------------------------------------------
\* Entities that read the manager show nothing that is not there.
LEMMA WrittenIsRecent ==
    ASSUME TypeOK', EvidenceInv', shown' = Written', current' = TRUE
    PROVE  RecentInv'
<1> USE ConstantsAreNat
<1>1. due' \in 0..Period /\ seen' \in 0..SeenCap /\ instant' \in 0..InstantCap
  BY DEF TypeOK
<1>2. due' \in Nat /\ due' <= Period /\ seen' \in Nat /\ instant' \in Nat
  BY <1>1 DEF SeenCap, InstantCap
<1>3. /\ shown'.available => seen' < Timeout
      /\ shown'.instant => instant' <= InstantStale
      /\ shown'.mode = Mode'
  BY Zenon DEF Written, Available, InstantShown
<1>4. /\ seen' < Timeout => seen' < Timeout + Period - due'
      /\ instant' <= InstantStale => instant' <= InstantStale + Period - due'
  BY <1>1, <1>2, WindowAndTick
<1>5. ASSUME Mode' \in Modes PROVE Supported(Mode)' /\ projected' \in {Mode', "unknown"}
  <2>1. FreshModes' = {Mode'}
    BY <1>5, ModeIsPickedNext
  <2>2. advert'[Mode'] < ModeFresh \/ reported'[Mode'] < StatusFresh
    BY <2>1 DEF FreshModes
  <2>3. advert'[Mode'] \in 0..AdvertCap /\ reported'[Mode'] \in 0..ReportedCap
    BY <1>5 DEF TypeOK
  <2>4. Supported(Mode)'
    BY <1>1, <2>2, <2>3 DEF Supported, AdvertCap, ReportedCap
  <2>5. projected' \in {Mode', "unknown"}
    BY <2>1 DEF EvidenceInv
  <2> QED BY <2>4, <2>5
<1> QED BY <1>3, <1>4, <1>5 DEF RecentInv, Supported

LEMMA InitProbe == Init => ProbeInv
<1> SUFFICES ASSUME Init PROVE ProbeInv
  OBVIOUS
<1> USE ConstantsAreNat DEF Init
<1>1. TypeOK
  <2>1. advert \in [Modes -> 0..AdvertCap] /\ reported \in [Modes -> 0..ReportedCap]
    BY DEF AdvertCap, ReportedCap
  <2>2. /\ seen \in 0..SeenCap /\ direct \in 0..DirectWindow /\ instant \in 0..InstantCap
        /\ measured \in 0..MeasuredCap /\ notified \in 0..MinNotify /\ due \in 0..Period
    BY DEF SeenCap, InstantCap, MeasuredCap
  <2> QED BY <2>1, <2>2 DEF TypeOK, ModeNames, NoMode
<1>2. EvidenceInv
  <2>1. FreshModes = {}
    BY DEF FreshModes, AdvertCap, ReportedCap
  <2> QED BY <2>1 DEF EvidenceInv
<1>3. RecentInv /\ DirectInv
  BY DEF RecentInv, DirectInv
<1> QED BY <1>1, <1>2, <1>3 DEF ProbeInv

-----------------------------------------------------------------------------
LEMMA NotifyTyped ==
    ASSUME TypeOK, Notify
    PROVE  /\ shown' \in [available : BOOLEAN, mode : ModeNames, instant : BOOLEAN]
           /\ current' \in BOOLEAN
<1>1. Written' \in [available : BOOLEAN, mode : ModeNames, instant : BOOLEAN]
  <2>1. (seen' < Timeout) \in BOOLEAN /\ (instant' <= InstantStale) \in BOOLEAN
    BY ConstantsAreNat
  <2> QED BY <2>1, ModeIsPickedNext, Zenon DEF Written, Available, InstantShown
<1> QED BY <1>1, Zenon DEF Notify, TypeOK, viewVars

LEMMA CacheTyped ==
    ASSUME TypeOK, NEW path \in Paths, NEW mode \in Modes, NEW age \in 0..Lag,
           Cache(path, mode, age)
    PROVE  instant' \in 0..InstantCap /\ measured' \in 0..MeasuredCap /\ isDirect' \in BOOLEAN
<1>1. (path = "direct") \in BOOLEAN
  BY Zenon
<1>2. CASE mode = "instant"
  BY <1>2, ConstantsAreNat DEF TypeOK, Cache, InstantCap
<1>3. CASE mode # "instant"
  <2>1. measured' \in 0..MeasuredCap /\ instant' \in 0..InstantCap
    BY <1>3, ConstantsAreNat DEF TypeOK, Cache, MeasuredCap
  <2>2. isDirect' = (path = "direct")
    BY <1>3, Zenon DEF Cache
  <2> QED BY <1>1, <2>1, <2>2
<1> QED BY <1>2, <1>3

LEMMA SelectedTyped ==
    ASSUME TypeOK, NEW path \in Paths, NEW mode \in Modes, NEW age \in 0..Lag,
           Selected(path, mode, age)
    PROVE  /\ seen' \in 0..SeenCap /\ direct' \in 0..DirectWindow
           /\ advert' \in [Modes -> 0..AdvertCap] /\ reported' \in [Modes -> 0..ReportedCap]
           /\ projected' \in ModeNames /\ due' \in 0..Period
BY ConstantsAreNat, ModeIsPickedNext
   DEF TypeOK, Selected, Seen, SeenCap, AdvertCap, ReportedCap

\* A copy that is selected is no older than the reading of the probe it replaces.
LEMMA SelectedKeepsDirect ==
    ASSUME TypeOK, DirectInv, NEW path \in Paths, NEW mode \in Modes, NEW age \in 0..Lag,
           Selected(path, mode, age), Cache(path, mode, age)
    PROVE  DirectInv' /\ (isDirect => measured' <= measured)
<1> USE ConstantsAreNat
<1>1. /\ measured \in 0..MeasuredCap /\ direct \in 0..DirectWindow
      /\ age = 0 \/ direct >= DirectWindow
      /\ direct' = IF path = "direct" THEN 0 ELSE direct
      /\ path = "direct" \/ path = "repeated"
      /\ path = "direct" => age = 0
  BY DEF TypeOK, Selected, Suppressed, Seen, Paths
<1>2. CASE mode = "instant"
  BY <1>1, <1>2 DEF Cache, DirectInv, MeasuredCap
<1>3. CASE mode # "instant"
  <2>1. measured' = age
    BY <1>3 DEF Cache
  <2>2. isDirect' => path = "direct"
    BY <1>3, Zenon DEF Cache
  <2>3. CASE path = "direct"
    BY <1>1, <2>1, <2>3 DEF DirectInv, MeasuredCap
  <2>4. CASE path = "repeated"
    BY <1>1, <2>1, <2>2, <2>4 DEF DirectInv, MeasuredCap
  <2> QED BY <1>1, <2>3, <2>4
<1> QED BY <1>2, <1>3

\* A reception takes nothing away from what the entities showed before.
LEMMA SelectedKeepsShown ==
    ASSUME TypeOK, RecentInv, entities = "added",
           NEW path \in Paths, NEW mode \in Modes, NEW age \in 0..Lag,
           Selected(path, mode, age)
    PROVE  /\ shown.available => seen' < Timeout + Period - due'
           /\ shown.mode \in Modes =>
                 \/ advert'[shown.mode] < ModeFresh + Period - due'
                 \/ reported'[shown.mode] < StatusFresh + Period - due'
<1> USE ConstantsAreNat
<1>1. /\ seen' = 0 /\ due' = due /\ due \in 0..Period /\ seen \in 0..SeenCap
      /\ reported' = reported /\ advert' = [advert EXCEPT ![mode] = 0]
  BY DEF Selected, Seen, TypeOK
<1>2. shown.available => seen' < Timeout + Period - due'
  BY <1>1 DEF RecentInv, SeenCap
<1>3. ASSUME shown.mode \in Modes
      PROVE \/ advert'[shown.mode] < ModeFresh + Period - due'
            \/ reported'[shown.mode] < StatusFresh + Period - due'
  <2>1. advert[shown.mode] \in 0..AdvertCap /\ reported[shown.mode] \in 0..ReportedCap
    BY <1>3 DEF TypeOK
  <2>2. advert'[shown.mode] = (IF shown.mode = mode THEN 0 ELSE advert[shown.mode])
    BY <1>1, <1>3 DEF TypeOK
  <2> QED BY <1>1, <1>3, <2>1, <2>2 DEF RecentInv, Supported, AdvertCap, ReportedCap
<1> QED BY <1>2, <1>3

-----------------------------------------------------------------------------
\* A notification of changed evidence, or none, after an event without reception.
LEMMA NotifyKeepsRecent ==
    ASSUME TypeOK', EvidenceInv', Notify, entities' = entities,
           entities = "added"
    PROVE  RecentInv'
<1>1. shown' = Written' /\ current' = TRUE
  BY Zenon DEF Notify
<1> QED BY <1>1, WrittenIsRecent

LEMMA ReceiveRepeatedKeeps == ProbeInv /\ ReceiveRepeated => ProbeInv'
<1> SUFFICES ASSUME ProbeInv, ReceiveRepeated PROVE ProbeInv'
  OBVIOUS
<1> USE ConstantsAreNat
<1>1. /\ seen' = 0 /\ direct' = direct
      /\ UNCHANGED <<modeVars, cacheVars, deviceVars, due, entities, viewVars>>
  BY DEF ReceiveRepeated, Seen
<1> USE DEF modeVars, cacheVars, deviceVars, viewVars
<1>2. TypeOK'
  BY <1>1 DEF ProbeInv, TypeOK, SeenCap
<1>3. EvidenceInv'
  <2>1. FreshModes' = FreshModes
    BY <1>1 DEF FreshModes
  <2> QED BY <1>1, <2>1 DEF ProbeInv, EvidenceInv
<1>4. RecentInv'
  <2>1. seen \in 0..SeenCap /\ seen' = 0
    BY <1>1 DEF ProbeInv, TypeOK
  <2>2. ASSUME entities = "added", shown.available
        PROVE  seen' < Timeout + Period - due
    <3>1. seen < Timeout + Period - due /\ due \in 0..Period
      BY <2>2 DEF ProbeInv, RecentInv, TypeOK
    <3> QED BY <2>1, <3>1 DEF SeenCap
  <2> QED BY <1>1, <2>2 DEF ProbeInv, RecentInv, Supported
<1>5. DirectInv'
  BY <1>1 DEF ProbeInv, DirectInv
<1> QED BY <1>2, <1>3, <1>4, <1>5 DEF ProbeInv

LEMMA ReceiveFailedKeeps ==
    ASSUME ProbeInv, NEW path \in Paths, NEW mode \in Modes, NEW age \in 0..Lag,
           ReceiveFailed(path, mode, age)
    PROVE  ProbeInv'
<1> USE ConstantsAreNat
<1>1. /\ Selected(path, mode, age) /\ TypeOK
      /\ UNCHANGED <<cacheVars, deviceVars, entities>>
      /\ projected' = Mode' /\ due' = due
  BY DEF ProbeInv, ReceiveFailed, Selected
<1>2. IF Mode' # projected THEN Notify ELSE UNCHANGED viewVars
  BY DEF ReceiveFailed
<1>3. TypeOK'
  <2>1. /\ shown' \in [available : BOOLEAN, mode : ModeNames, instant : BOOLEAN]
        /\ current' \in BOOLEAN
    <3>1. CASE Mode' # projected
      BY <1>1, <1>2, <3>1, NotifyTyped
    <3>2. CASE Mode' = projected
      BY <1>1, <1>2, <3>2 DEF TypeOK, viewVars
    <3> QED BY <3>1, <3>2
  <2> QED BY <1>1, <2>1, SelectedTyped DEF TypeOK, cacheVars, deviceVars
<1>4. EvidenceInv'
  BY <1>1, ProjectedKeepsEvidence
<1>5. RecentInv'
  <2>1. CASE entities = "added" /\ Mode' # projected
    BY <1>1, <1>2, <1>3, <1>4, <2>1, NotifyKeepsRecent
  <2>2. CASE entities = "added" /\ Mode' = projected
    <3>1. RecentInv
      BY DEF ProbeInv
    <3>2. UNCHANGED <<shown, current, instant, measured, projected, due, entities>>
      BY <1>1, <1>2, <2>2 DEF viewVars, cacheVars
    <3>3. /\ shown.available => seen' < Timeout + Period - due'
          /\ shown.mode \in Modes =>
                \/ advert'[shown.mode] < ModeFresh + Period - due'
                \/ reported'[shown.mode] < StatusFresh + Period - due'
      BY <1>1, <2>2, <3>1, SelectedKeepsShown
    <3> QED BY <2>2, <3>1, <3>2, <3>3 DEF RecentInv, Supported
  <2>3. CASE entities # "added"
    BY <1>1, <2>3 DEF RecentInv
  <2> QED BY <2>1, <2>2, <2>3
<1>6. DirectInv'
  BY <1>1 DEF ProbeInv, DirectInv, cacheVars, Selected, Seen, TypeOK
<1> QED BY <1>3, <1>4, <1>5, <1>6 DEF ProbeInv

LEMMA ReceiveKnownTyped ==
    ASSUME TypeOK, NEW path \in Paths, NEW mode \in Modes, NEW age \in 0..Lag,
           ReceiveKnown(path, mode, age)
    PROVE  TypeOK'
<1> USE ConstantsAreNat
<1>1. /\ Selected(path, mode, age) /\ Cache(path, mode, age)
      /\ UNCHANGED <<device, entities>>
  BY DEF ReceiveKnown
<1>2. CASE notified < MinNotify
  <2>1. NotifyModeOnly(mode) /\ notified' = notified
    BY <1>2 DEF ReceiveKnown
  <2>2. /\ shown' \in [available : BOOLEAN, mode : ModeNames, instant : BOOLEAN]
        /\ current' \in BOOLEAN
    <3>1. CASE Mode' # projected /\ entities = "added"
      <4>1. Written' \in [available : BOOLEAN, mode : ModeNames, instant : BOOLEAN]
        <5>1. (seen' < Timeout) \in BOOLEAN /\ (instant' <= InstantStale) \in BOOLEAN
          OBVIOUS
        <5> QED BY <5>1, ModeIsPickedNext, Zenon DEF Written, Available, InstantShown
      <4>2. InstantShown \in BOOLEAN /\ (mode = "instant") \in BOOLEAN
        BY DEF InstantShown
      <4>3. shown' = [Written' EXCEPT !.instant = InstantShown] /\ current' = (mode = "instant")
        BY <2>1, <3>1, Zenon DEF NotifyModeOnly
      <4> HIDE DEF Written, InstantShown
      <4> QED BY <4>1, <4>2, <4>3, Zenon
    <3>2. CASE ~(Mode' # projected /\ entities = "added")
      <4>1. shown' = shown /\ current' = (current /\ mode = "instant")
        BY <2>1, <3>2, Zenon DEF NotifyModeOnly
      <4> QED BY <4>1, Zenon DEF TypeOK
    <3> QED BY <3>1, <3>2
  <2> QED BY <1>1, <2>1, <2>2, SelectedTyped, CacheTyped DEF TypeOK
<1>3. CASE ~(notified < MinNotify)
  <2>1. Notify /\ notified' = 0
    BY <1>3 DEF ReceiveKnown
  <2> QED BY <1>1, <2>1, SelectedTyped, CacheTyped, NotifyTyped DEF TypeOK
<1> QED BY <1>2, <1>3

\* The throttle: only a changed mode reaches the entities, before the values do.
LEMMA ThrottledKeepsRecent ==
    ASSUME TypeOK, TypeOK', EvidenceInv', RecentInv, entities = "added", entities' = entities,
           NEW path \in Paths, NEW mode \in Modes, NEW age \in 0..Lag,
           Selected(path, mode, age), Cache(path, mode, age), NotifyModeOnly(mode)
    PROVE  RecentInv'
<1> USE ConstantsAreNat
<1>1. /\ due' = due /\ due \in 0..Period /\ projected' = Mode' /\ seen' = 0
      /\ instant \in 0..InstantCap /\ measured \in 0..MeasuredCap /\ current \in BOOLEAN
  BY DEF Selected, Seen, TypeOK
<1>2. /\ instant' = 0 \/ instant' = instant
      /\ mode = "instant" => measured' = measured
      /\ mode # "instant" => measured' = age
  BY DEF Cache
<1>3. ~current' => measured' <= Lag + Period - due'
  <2>1. CASE mode = "instant"
    <3>1. ~current' => ~current
      BY <2>1, Zenon DEF NotifyModeOnly
    <3> QED BY <1>1, <1>2, <2>1, <3>1 DEF RecentInv
  <2>2. CASE mode # "instant"
    BY <1>1, <1>2, <2>2
  <2> QED BY <2>1, <2>2
<1>4. CASE Mode' # projected
  <2>1. shown' = [Written' EXCEPT !.instant = InstantShown]
    BY <1>4, Zenon DEF NotifyModeOnly
  <2>2. /\ shown'.available => seen' < Timeout
        /\ shown'.instant => instant <= InstantStale
        /\ shown'.mode = Mode'
    BY <2>1, Zenon DEF Written, Available, InstantShown
  <2>3. shown'.available => seen' < Timeout + Period - due'
    BY <1>1, <2>2
  <2>4. shown'.instant => instant' <= InstantStale + Period - due'
    BY <1>1, <1>2, <2>2 DEF InstantCap
  <2>5. ASSUME Mode' \in Modes
        PROVE  /\ \/ advert'[Mode'] < ModeFresh + Period - due'
                  \/ reported'[Mode'] < StatusFresh + Period - due'
               /\ projected' \in {Mode', "unknown"}
    <3>1. FreshModes' = {Mode'}
      BY <2>5, ModeIsPickedNext
    <3>2. advert'[Mode'] < ModeFresh \/ reported'[Mode'] < StatusFresh
      BY <3>1 DEF FreshModes
    <3>3. advert'[Mode'] \in 0..AdvertCap /\ reported'[Mode'] \in 0..ReportedCap
      BY <2>5 DEF TypeOK
    <3> QED BY <1>1, <3>2, <3>3 DEF AdvertCap, ReportedCap
  <2> QED BY <1>3, <2>2, <2>3, <2>4, <2>5 DEF RecentInv, Supported
<1>5. CASE Mode' = projected
  <2>1. shown' = shown /\ projected' = projected
    BY <1>1, <1>5, Zenon DEF NotifyModeOnly
  <2>2. /\ shown.available => seen' < Timeout + Period - due'
        /\ shown.mode \in Modes =>
              \/ advert'[shown.mode] < ModeFresh + Period - due'
              \/ reported'[shown.mode] < StatusFresh + Period - due'
    BY SelectedKeepsShown
  <2>3. shown.instant => instant' <= InstantStale + Period - due'
    <3>1. shown.instant => instant <= InstantStale + Period - due
      BY DEF RecentInv
    <3> QED BY <1>1, <1>2, <3>1 DEF InstantCap
  <2> QED BY <1>3, <2>1, <2>2, <2>3 DEF RecentInv, Supported
<1> QED BY <1>4, <1>5

LEMMA ReceiveKnownKeeps ==
    ASSUME ProbeInv, NEW path \in Paths, NEW mode \in Modes, NEW age \in 0..Lag,
           ReceiveKnown(path, mode, age)
    PROVE  ProbeInv'
<1>1. /\ Selected(path, mode, age) /\ Cache(path, mode, age)
      /\ entities' = entities /\ projected' = Mode'
      /\ TypeOK /\ RecentInv /\ DirectInv
  BY DEF ProbeInv, ReceiveKnown, Selected
<1>2. TypeOK'
  BY <1>1, ReceiveKnownTyped
<1>3. EvidenceInv'
  BY <1>1, ProjectedKeepsEvidence
<1>4. DirectInv'
  BY <1>1, SelectedKeepsDirect
<1>5. RecentInv'
  <2>1. CASE entities = "added" /\ notified < MinNotify
    <3>1. NotifyModeOnly(mode)
      BY <2>1 DEF ReceiveKnown
    <3> QED BY <1>1, <1>2, <1>3, <2>1, <3>1, ThrottledKeepsRecent
  <2>2. CASE entities = "added" /\ ~(notified < MinNotify)
    <3>1. Notify
      BY <2>2 DEF ReceiveKnown
    <3> QED BY <1>1, <1>2, <1>3, <2>2, <3>1, NotifyKeepsRecent
  <2>3. CASE entities # "added"
    BY <1>1, <2>3 DEF RecentInv
  <2> QED BY <2>1, <2>2, <2>3
<1> QED BY <1>2, <1>3, <1>4, <1>5 DEF ProbeInv

LEMMA ReceiveNewKeeps ==
    ASSUME ProbeInv, NEW path \in Paths, NEW mode \in Modes, NEW age \in 0..Lag,
           ReceiveNew(path, mode, age)
    PROVE  ProbeInv'
<1>1. /\ Selected(path, mode, age) /\ Cache(path, mode, age)
      /\ projected' = Mode' /\ TypeOK /\ DirectInv
      /\ shown' = shown /\ current' = current
  BY DEF ProbeInv, ReceiveNew, Selected, viewVars
<1>2. /\ device' \in {"known", "failed"}
      /\ entities' \in {"none", "adding"}
      /\ notified' = 0 \/ notified' = notified
  BY DEF ReceiveNew
<1>3. TypeOK'
  BY <1>1, <1>2, SelectedTyped, CacheTyped, ConstantsAreNat DEF TypeOK
<1>4. EvidenceInv'
  BY <1>1, ProjectedKeepsEvidence
<1>5. RecentInv'
  BY <1>2 DEF RecentInv
<1>6. DirectInv'
  BY <1>1, SelectedKeepsDirect
<1> QED BY <1>3, <1>4, <1>5, <1>6 DEF ProbeInv

LEMMA UpdateStatusModeKeeps == ProbeInv /\ UpdateStatusMode => ProbeInv'
<1> SUFFICES ASSUME ProbeInv, UpdateStatusMode PROVE ProbeInv'
  OBVIOUS
<1> USE ConstantsAreNat
<1>1. PICK m \in Modes : reported' = [reported EXCEPT ![m] = 0]
  BY DEF UpdateStatusMode
<1>2. /\ StatusOnly /\ projected' = Mode' /\ TypeOK
      /\ IF Mode' # projected THEN Notify ELSE UNCHANGED viewVars
  BY DEF ProbeInv, UpdateStatusMode, NotifyModeIfChanged
<1> USE DEF StatusOnly, receptionVars, cacheVars, deviceVars, viewVars
<1>3. TypeOK'
  <2>1. reported' \in [Modes -> 0..ReportedCap]
    BY <1>1, <1>2 DEF TypeOK, ReportedCap
  <2>2. /\ shown' \in [available : BOOLEAN, mode : ModeNames, instant : BOOLEAN]
        /\ current' \in BOOLEAN
    <3>1. CASE Mode' # projected
      BY <1>2, <3>1, NotifyTyped
    <3>2. CASE Mode' = projected
      BY <1>2, <3>2 DEF TypeOK
    <3> QED BY <3>1, <3>2
  <2> QED BY <1>2, <2>1, <2>2, ModeIsPickedNext DEF TypeOK
<1>4. EvidenceInv'
  BY <1>2, ProjectedKeepsEvidence
<1>5. RecentInv'
  <2>1. CASE entities = "added" /\ Mode' # projected
    BY <1>2, <1>3, <1>4, <2>1, NotifyKeepsRecent
  <2>2. CASE entities = "added" /\ Mode' = projected
    <3>1. RecentInv /\ due \in 0..Period
      BY DEF ProbeInv, TypeOK
    <3>2. UNCHANGED <<seen, shown, current, instant, measured, projected, due, entities, advert>>
      BY <1>2, <2>2
    <3>3. ASSUME shown.mode \in Modes
          PROVE \/ advert'[shown.mode] < ModeFresh + Period - due'
                \/ reported'[shown.mode] < StatusFresh + Period - due'
      <4>1. reported'[shown.mode] = (IF shown.mode = m THEN 0 ELSE reported[shown.mode])
        BY <1>1, <3>3, <1>2 DEF TypeOK
      <4>2. reported[shown.mode] \in 0..ReportedCap
        BY <1>2, <3>3 DEF TypeOK
      <4> QED BY <2>2, <3>1, <3>2, <3>3, <4>1, <4>2 DEF RecentInv, Supported, ReportedCap
    <3> QED BY <2>2, <3>1, <3>2, <3>3 DEF RecentInv, Supported
  <2>3. CASE entities # "added"
    BY <1>2, <2>3 DEF RecentInv
  <2> QED BY <2>1, <2>2, <2>3
<1>6. DirectInv'
  BY <1>2 DEF ProbeInv, DirectInv
<1> QED BY <1>3, <1>4, <1>5, <1>6 DEF ProbeInv

\* When the clearing notifies nobody, all evidence projected is from adverts.
LEMMA ClearStatusModeKeeps == ProbeInv /\ ClearStatusMode => ProbeInv'
<1> SUFFICES ASSUME ProbeInv, ClearStatusMode PROVE ProbeInv'
  OBVIOUS
<1> USE ConstantsAreNat
<1>1. reported' = [m \in Modes |-> ReportedCap]
  BY DEF ClearStatusMode
<1>2. /\ StatusOnly /\ projected' = Mode' /\ TypeOK
      /\ IF Mode' # projected THEN Notify ELSE UNCHANGED viewVars
  BY DEF ProbeInv, ClearStatusMode, NotifyModeIfChanged
<1> USE DEF StatusOnly, receptionVars, cacheVars, deviceVars, viewVars
<1>3. TypeOK'
  <2>1. reported' \in [Modes -> 0..ReportedCap]
    BY <1>1 DEF ReportedCap
  <2>2. /\ shown' \in [available : BOOLEAN, mode : ModeNames, instant : BOOLEAN]
        /\ current' \in BOOLEAN
    <3>1. CASE Mode' # projected
      BY <1>2, <3>1, NotifyTyped
    <3>2. CASE Mode' = projected
      BY <1>2, <3>2 DEF TypeOK
    <3> QED BY <3>1, <3>2
  <2> QED BY <1>2, <2>1, <2>2, ModeIsPickedNext DEF TypeOK
<1>4. EvidenceInv'
  BY <1>2, ProjectedKeepsEvidence
<1>5. RecentInv'
  <2>1. CASE entities = "added" /\ Mode' # projected
    BY <1>2, <1>3, <1>4, <2>1, NotifyKeepsRecent
  <2>2. CASE entities = "added" /\ Mode' = projected
    <3>1. RecentInv /\ due \in 0..Period
      BY DEF ProbeInv, TypeOK
    <3>2. UNCHANGED <<seen, shown, current, instant, measured, projected, due, entities, advert>>
      BY <1>2, <2>2
    <3>3. ASSUME shown.mode \in Modes
          PROVE advert'[shown.mode] < ModeFresh + Period - due'
      <4>1. Mode' \in {shown.mode, "unknown"}
        BY <2>2, <3>1, <3>3 DEF RecentInv
      <4>2. shown.mode \in FreshModes'
        BY <3>3, <4>1, ModeIsPickedNext
      <4>3. ~(reported'[shown.mode] < StatusFresh)
        BY <1>1, <3>3 DEF ReportedCap
      <4>4. advert'[shown.mode] < ModeFresh
        BY <4>2, <4>3 DEF FreshModes
      <4>5. advert'[shown.mode] \in 0..AdvertCap
        BY <1>3, <3>3 DEF TypeOK
      <4> QED BY <3>1, <3>2, <4>4, <4>5 DEF AdvertCap
    <3> QED BY <2>2, <3>1, <3>2, <3>3 DEF RecentInv, Supported
  <2>3. CASE entities # "added"
    BY <1>2, <2>3 DEF RecentInv
  <2> QED BY <2>1, <2>2, <2>3
<1>6. DirectInv'
  BY <1>2 DEF ProbeInv, DirectInv
<1> QED BY <1>3, <1>4, <1>5, <1>6 DEF ProbeInv

-----------------------------------------------------------------------------
LEMMA AddedToHassKeeps == ProbeInv /\ AddedToHass => ProbeInv'
<1> SUFFICES ASSUME ProbeInv, AddedToHass PROVE ProbeInv'
  OBVIOUS
<1> USE DEF receptionVars, modeVars, cacheVars, deviceVars
<1>1. /\ UNCHANGED <<receptionVars, modeVars, cacheVars, deviceVars, due>>
      /\ entities' = "added" /\ shown' = Written /\ current' = TRUE /\ TypeOK
  BY DEF ProbeInv, AddedToHass
<1>2. FreshModes' = FreshModes
  BY <1>1 DEF FreshModes
<1>3. Written' = Written
  <2>1. Mode' = Mode
    BY <1>2 DEF Mode
  <2> QED BY <1>1, <2>1 DEF Written, Available, InstantShown
<1>4. TypeOK'
  <2>1. (seen < Timeout) \in BOOLEAN /\ (instant <= InstantStale) \in BOOLEAN
    BY <1>1, ConstantsAreNat DEF TypeOK
  <2>2. Written \in [available : BOOLEAN, mode : ModeNames, instant : BOOLEAN]
    BY <2>1, ModeIsPicked, Zenon DEF Written, Available, InstantShown
  <2> QED BY <1>1, <2>2 DEF TypeOK
<1>5. EvidenceInv' /\ DirectInv'
  BY <1>1, <1>2 DEF ProbeInv, EvidenceInv, DirectInv
<1>6. RecentInv'
  BY <1>1, <1>3, <1>4, <1>5, WrittenIsRecent
<1> QED BY <1>4, <1>5, <1>6 DEF ProbeInv

\* A notification that changes nothing but the tick that is due.
LEMMA RefreshKeeps ==
    ASSUME ProbeInv, Notify, due' \in 0..Period, due' = due \/ due = 0,
           UNCHANGED <<receptionVars, modeVars, cacheVars, deviceVars, entities>>
    PROVE  ProbeInv'
<1> USE DEF receptionVars, modeVars, cacheVars, deviceVars
<1>1. TypeOK'
  BY NotifyTyped DEF ProbeInv, TypeOK
<1>2. FreshModes' = FreshModes
  BY DEF FreshModes
<1>3. EvidenceInv' /\ DirectInv'
  BY <1>2 DEF ProbeInv, EvidenceInv, DirectInv
<1>4. RecentInv'
  <2>1. CASE entities = "added"
    BY <1>1, <1>3, <2>1, NotifyKeepsRecent
  <2>2. CASE entities # "added"
    BY <2>2 DEF RecentInv
  <2> QED BY <2>1, <2>2
<1> QED BY <1>1, <1>3, <1>4 DEF ProbeInv

LEMMA OtherProbeNotifiesKeeps == ProbeInv /\ OtherProbeNotifies => ProbeInv'
<1> SUFFICES ASSUME ProbeInv, OtherProbeNotifies PROVE ProbeInv'
  OBVIOUS
<1>1. due' \in 0..Period /\ due' = due /\ Notify
  BY DEF ProbeInv, TypeOK, OtherProbeNotifies
<1> QED BY <1>1, RefreshKeeps DEF OtherProbeNotifies

LEMMA AvailabilityTickKeeps == ProbeInv /\ AvailabilityTick => ProbeInv'
<1> SUFFICES ASSUME ProbeInv, AvailabilityTick PROVE ProbeInv'
  OBVIOUS
<1>1. due' \in 0..Period /\ due = 0 /\ Notify
  BY ConstantsAreNat DEF AvailabilityTick
<1> QED BY <1>1, RefreshKeeps DEF AvailabilityTick

\* An age grows by at most one tick, and by one until its cap.
LEMMA OlderAge ==
    ASSUME NEW cap \in Nat, NEW age \in 0..cap
    PROVE  /\ Older(age, cap) \in 0..cap
           /\ Older(age, cap) >= age /\ Older(age, cap) <= age + 1
           /\ age < cap => Older(age, cap) = age + 1
BY DEF Older

LEMMA TickKeeps == ProbeInv /\ Tick => ProbeInv'
<1> SUFFICES ASSUME ProbeInv, Tick PROVE ProbeInv'
  OBVIOUS
<1> USE ConstantsAreNat
<1>1. /\ TypeOK /\ due > 0 /\ due' = due - 1 /\ due \in 0..Period
      /\ UNCHANGED <<projected, isDirect, device, entities, shown, current>>
  BY DEF ProbeInv, TypeOK, Tick, viewVars
<1>2. /\ SeenCap \in Nat /\ InstantCap \in Nat /\ MeasuredCap \in Nat
      /\ AdvertCap \in Nat /\ ReportedCap \in Nat
  BY DEF SeenCap, InstantCap, MeasuredCap, AdvertCap, ReportedCap
<1>3. /\ seen' \in 0..SeenCap /\ seen' <= seen + 1
      /\ instant' \in 0..InstantCap /\ instant' <= instant + 1
      /\ measured' \in 0..MeasuredCap /\ measured <= measured' /\ measured' <= measured + 1
      /\ measured < MeasuredCap => measured' = measured + 1
      /\ direct' \in 0..DirectWindow /\ direct' <= direct + 1
      /\ notified' \in 0..MinNotify
  BY <1>1, <1>2, OlderAge DEF TypeOK, Tick
<1>4. ASSUME NEW m \in Modes
      PROVE  /\ advert'[m] \in 0..AdvertCap /\ advert[m] <= advert'[m]
             /\ advert'[m] <= advert[m] + 1 /\ advert[m] \in 0..AdvertCap
             /\ reported'[m] \in 0..ReportedCap /\ reported[m] <= reported'[m]
             /\ reported'[m] <= reported[m] + 1 /\ reported[m] \in 0..ReportedCap
  <2>1. /\ advert'[m] = Older(advert[m], AdvertCap)
        /\ reported'[m] = Older(reported[m], ReportedCap)
    BY DEF Tick
  <2>2. advert[m] \in 0..AdvertCap /\ reported[m] \in 0..ReportedCap
    BY <1>1 DEF TypeOK
  <2>3. /\ advert'[m] \in 0..AdvertCap /\ advert[m] <= advert'[m]
        /\ advert'[m] <= advert[m] + 1
    BY <1>2, <2>1, <2>2 DEF Older
  <2>4. /\ reported'[m] \in 0..ReportedCap /\ reported[m] <= reported'[m]
        /\ reported'[m] <= reported[m] + 1
    BY <1>2, <2>1, <2>2 DEF Older
  <2> QED BY <2>2, <2>3, <2>4
<1>5. TypeOK'
  <2>1. advert' \in [Modes -> 0..AdvertCap] /\ reported' \in [Modes -> 0..ReportedCap]
    <3>1. /\ advert' = [m \in Modes |-> Older(advert[m], AdvertCap)]
          /\ reported' = [m \in Modes |-> Older(reported[m], ReportedCap)]
      BY DEF Tick
    <3> QED BY <1>4, <3>1
  <2> QED BY <1>1, <1>3, <2>1 DEF TypeOK
<1>6. EvidenceInv'
  <2>1. FreshModes' \subseteq FreshModes
    BY <1>4 DEF FreshModes
  <2> QED BY <1>1, <2>1 DEF ProbeInv, EvidenceInv
<1>7. RecentInv'
  <2>1. CASE entities = "added"
    <3>1. /\ shown.available => seen < Timeout + Period - due
          /\ shown.instant => instant <= InstantStale + Period - due
          /\ ~current => measured <= Lag + Period - due
          /\ shown.mode \in Modes => Supported(shown.mode)
          /\ shown.mode \in Modes => projected \in {shown.mode, "unknown"}
      BY <2>1 DEF ProbeInv, RecentInv
    <3>2. /\ seen \in Nat /\ instant \in Nat /\ measured \in Nat
          /\ seen' \in Nat /\ instant' \in Nat /\ measured' \in Nat
      BY <1>1, <1>2, <1>3 DEF TypeOK
    <3>3. shown.available => seen' < Timeout + Period - due'
      BY <1>1, <1>3, <3>1, <3>2
    <3>4. shown.instant => instant' <= InstantStale + Period - due'
      BY <1>1, <1>3, <3>1, <3>2
    <3>5. ~current => measured' <= Lag + Period - due'
      BY <1>1, <1>3, <3>1, <3>2
    <3>6. ASSUME shown.mode \in Modes
          PROVE \/ advert'[shown.mode] < ModeFresh + Period - due'
                \/ reported'[shown.mode] < StatusFresh + Period - due'
      <4>1. /\ advert'[shown.mode] <= advert[shown.mode] + 1
            /\ advert[shown.mode] \in Nat /\ advert'[shown.mode] \in Nat
            /\ reported'[shown.mode] <= reported[shown.mode] + 1
            /\ reported[shown.mode] \in Nat /\ reported'[shown.mode] \in Nat
        BY <1>2, <1>4, <3>6
      <4> QED BY <1>1, <3>1, <3>6, <4>1 DEF Supported
    <3> QED BY <1>1, <3>1, <3>3, <3>4, <3>5, <3>6 DEF RecentInv, Supported
  <2>2. CASE entities # "added"
    BY <1>1, <2>2 DEF RecentInv
  <2> QED BY <2>1, <2>2
<1>8. DirectInv'
  <2>1. direct \in 0..DirectWindow /\ measured \in 0..MeasuredCap
    BY <1>1 DEF TypeOK
  <2>2. CASE measured >= Lag
    BY <1>1, <1>2, <1>3, <2>1, <2>2 DEF DirectInv
  <2>3. CASE measured < Lag /\ measured >= direct
    <3>1. measured' = measured + 1
      BY <1>3, <2>1, <2>3 DEF MeasuredCap
    <3> QED BY <1>1, <1>3, <2>1, <2>3, <3>1 DEF DirectInv
  <2>4. CASE ~isDirect
    BY <1>1, <2>4 DEF DirectInv
  <2> QED BY <2>1, <2>2, <2>3, <2>4 DEF ProbeInv, DirectInv, MeasuredCap
<1> QED BY <1>5, <1>6, <1>7, <1>8 DEF ProbeInv

-----------------------------------------------------------------------------
LEMMA StepProbe == ProbeInv /\ [Next]_vars => ProbeInv'
<1> SUFFICES ASSUME ProbeInv, [Next]_vars PROVE ProbeInv'
  OBVIOUS
<1>1. CASE ReceiveRepeated
  BY <1>1, ReceiveRepeatedKeeps
<1>2. CASE Receive
  BY <1>2, ReceiveFailedKeeps, ReceiveKnownKeeps, ReceiveNewKeeps DEF Receive
<1>3. CASE UpdateStatusMode
  BY <1>3, UpdateStatusModeKeeps
<1>4. CASE ClearStatusMode
  BY <1>4, ClearStatusModeKeeps
<1>5. CASE AddedToHass
  BY <1>5, AddedToHassKeeps
<1>6. CASE OtherProbeNotifies
  BY <1>6, OtherProbeNotifiesKeeps
<1>7. CASE AvailabilityTick
  BY <1>7, AvailabilityTickKeeps
<1>8. CASE Tick
  BY <1>8, TickKeeps
<1>9. CASE UNCHANGED vars
  <2> USE <1>9 DEF vars, receptionVars, modeVars, cacheVars, deviceVars, viewVars
  <2>1. FreshModes' = FreshModes
    BY DEF FreshModes
  <2>2. TypeOK'
    BY DEF ProbeInv, TypeOK
  <2>3. EvidenceInv'
    BY <2>1 DEF ProbeInv, EvidenceInv
  <2>4. RecentInv' /\ DirectInv'
    BY DEF ProbeInv, RecentInv, DirectInv, Supported
  <2> QED BY <2>2, <2>3, <2>4 DEF ProbeInv
<1> QED BY <1>1, <1>2, <1>3, <1>4, <1>5, <1>6, <1>7, <1>8, <1>9 DEF Next

LEMMA ProbeInvGivesRecent == ProbeInv => ShownIsRecent
<1> SUFFICES ASSUME ProbeInv, entities = "added"
             PROVE  /\ shown.available => seen < Timeout + Period
                    /\ shown.instant => instant <= InstantStale + Period
                    /\ ~current => measured <= Lag + Period
                    /\ shown.mode \in Modes =>
                          \/ advert[shown.mode] < ModeFresh + Period
                          \/ reported[shown.mode] < StatusFresh + Period
  BY DEF ShownIsRecent
<1> USE ConstantsAreNat
<1>1. /\ shown.available => seen < Timeout + Period - due
      /\ shown.instant => instant <= InstantStale + Period - due
      /\ ~current => measured <= Lag + Period - due
      /\ shown.mode \in Modes => Supported(shown.mode)
  BY DEF ProbeInv, RecentInv
<1>2. /\ due \in 0..Period /\ seen \in Nat /\ instant \in Nat /\ measured \in Nat
  BY DEF ProbeInv, TypeOK, SeenCap, InstantCap, MeasuredCap
<1>3. shown.available => seen < Timeout + Period
  BY <1>1, <1>2
<1>4. shown.instant => instant <= InstantStale + Period
  BY <1>1, <1>2
<1>5. ~current => measured <= Lag + Period
  BY <1>1, <1>2
<1>6. ASSUME shown.mode \in Modes
      PROVE \/ advert[shown.mode] < ModeFresh + Period
            \/ reported[shown.mode] < StatusFresh + Period
  <2>1. advert[shown.mode] \in 0..AdvertCap /\ reported[shown.mode] \in 0..ReportedCap
    BY <1>6 DEF ProbeInv, TypeOK
  <2> QED BY <1>1, <1>2, <1>6, <2>1 DEF Supported, AdvertCap, ReportedCap
<1> QED BY <1>3, <1>4, <1>5, <1>6

LEMMA StepKeepsDirect ==
    ProbeInv /\ [Next]_vars => [isDirect /\ seen' = 0 => measured' <= measured]_vars
<1> SUFFICES ASSUME ProbeInv, Next, isDirect, seen' = 0 PROVE measured' <= measured
  BY Zenon
<1> USE ConstantsAreNat DEF cacheVars, receptionVars, StatusOnly
<1>1. measured \in 0..MeasuredCap /\ TypeOK /\ DirectInv
  BY DEF ProbeInv, TypeOK
<1>2. CASE Receive
  <2>1. PICK path \in Paths, mode \in Modes, age \in 0..Lag :
           \/ ReceiveFailed(path, mode, age)
           \/ ReceiveKnown(path, mode, age)
           \/ ReceiveNew(path, mode, age)
    BY <1>2 DEF Receive
  <2>2. CASE ReceiveFailed(path, mode, age)
    BY <1>1, <2>2 DEF ReceiveFailed, MeasuredCap
  <2>3. CASE ReceiveKnown(path, mode, age) \/ ReceiveNew(path, mode, age)
    <3>1. Selected(path, mode, age) /\ Cache(path, mode, age)
      BY <2>3 DEF ReceiveKnown, ReceiveNew
    <3> QED BY <1>1, <3>1, SelectedKeepsDirect
  <2> QED BY <2>1, <2>2, <2>3
<1>3. CASE Tick
  <2>1. seen \in 0..SeenCap /\ SeenCap \in Nat /\ seen' = Older(seen, SeenCap)
    BY <1>1, <1>3 DEF TypeOK, Tick, SeenCap
  <2>2. SeenCap = 0
    BY <2>1 DEF Older
  <2>3. Period = 0 /\ due \in 0..Period /\ due > 0
    BY <1>1, <1>3, <2>2 DEF TypeOK, Tick, SeenCap
  <2> QED BY <2>3
<1>4. CASE ~Receive /\ ~Tick
  <2>1. measured' = measured
    BY <1>4 DEF Next, ReceiveRepeated, UpdateStatusMode, ClearStatusMode, AddedToHass,
                OtherProbeNotifies, AvailabilityTick
  <2> QED BY <1>1, <2>1 DEF MeasuredCap
<1> QED BY <1>2, <1>3, <1>4

-----------------------------------------------------------------------------
LEMMA ProbeInvHolds == Spec => []ProbeInv
BY InitProbe, StepProbe, PTL DEF Spec

(* Silence, an ended instant read, a throttled reading and a lapsed mode reach *)
(* the entities within one availability tick, whatever the windows, the        *)
(* timeout, the tick and the throttle are set to (probe_manager.py, the tick   *)
(* of __init__.py).                                                            *)
THEOREM ShownStaysRecent == Spec => []ShownIsRecent
BY ProbeInvHolds, ProbeInvGivesRecent, PTL

(* A repeated copy that lags by no more than DIRECT_DATA_PREFERENCE_SECONDS    *)
(* never replaces a newer reading of the probe itself (update()).              *)
THEOREM DirectStays == Spec => DirectNeverUndone
BY ProbeInvHolds, StepKeepsDirect, PTL DEF Spec, DirectNeverUndone
=============================================================================
