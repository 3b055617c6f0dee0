------------------------- MODULE AccountLinkProofs -------------------------
(***************************************************************************)
(* Safety of AccountLink for every set of subjects and every number of       *)
(* generations: the fences of the work in progress and of the context either *)
(* stand or a reload is on its way, and the account of the context is the    *)
(* one of its fence.                                                         *)
(***************************************************************************)
EXTENDS AccountLink, TLAPS

-----------------------------------------------------------------------------
\* Who works: a request is under way only while one is named, an orphan is a
\* sync_now, and the one-shot check runs in its own mode.
Actors ==
    /\ \A x \in Slots : acts[x] # NoAct =>
           /\ acts[x].fence.subject # None
           /\ acts[x].pc \in {"refreshing", "calling"} => acts[x].call # "none"
    /\ acts["orphan"] # NoAct => acts["orphan"].who = "sync_now"
    /\ acts["current"] # NoAct /\ acts["current"].who = "check" => mode = "check"

Stages == {"running", "settling", "changed", "over"}

\* A fence stands, or the runtime that holds it is about to be replaced.
Stands(fence) == Matches(fence) \/ reloading

Fences ==
    /\ acts["current"] # NoAct => Stands(acts["current"].fence)
    /\ context # Unlinked =>
           Stands(context) /\ context.subject # None /\ account = context.subject

\* The work that is past the registration of its account.
Registration(act) == act.pc \in {"claiming", "storing"} \/ act.call \in {"sessions", "samples"}

Namespace ==
    acts["current"] # NoAct /\ Registration(acts["current"])
        => account = acts["current"].fence.subject

LinkInv ==
    /\ TypeOK
    /\ TokenIsOfLinkedAccount
    /\ Actors
    /\ Fences
    /\ Namespace
    /\ StoppedLoopIsReplaced

-----------------------------------------------------------------------------
LEMMA LinkInvInit == Init => LinkInv
<1> SUFFICES ASSUME Init PROVE LinkInv
  OBVIOUS
<1> USE LinkAssumption DEF Init
<1>1. TypeOK
  <2>1. 0 \in Generations
    BY DEF Generations
  <2>2. context \in Fence /\ verified \in Generations
    BY <2>1 DEF Fence, Unlinked
  <2>3. /\ flows \in [Flows -> Flow \cup {NoFlow}]
        /\ acts \in [Slots -> Act \cup {NoAct}]
    OBVIOUS
  <2> QED BY <2>1, <2>2, <2>3 DEF TypeOK
<1>2. TokenIsOfLinkedAccount /\ StoppedLoopIsReplaced
  BY DEF TokenIsOfLinkedAccount, StoppedLoopIsReplaced
<1>3. \A x \in Slots : acts[x] = NoAct
  BY DEF Slots
<1>4. Actors /\ Fences /\ Namespace
  BY <1>3 DEF Actors, Fences, Namespace, Slots
<1> QED BY <1>1, <1>2, <1>4 DEF LinkInv

\* A slot in which somebody works holds an act.
LEMMA ActTyped ==
    ASSUME TypeOK, NEW x \in Slots, acts[x].pc # "free"
    PROVE  acts[x] # NoAct /\ acts[x] \in Act
BY DEF TypeOK, NoAct

\* An offer to reauthenticate opens a flow that waits for its form.
LEMMA OfferTyped ==
    ASSUME TypeOK, OfferReauth
    PROVE  flows' \in [Flows -> Flow \cup {NoFlow}]
<1>1. [NoFlow EXCEPT !.step = "offered", !.kind = "reauth"] \in Flow
  BY DEF NoFlow, Flow, FlowKinds
<1> QED BY <1>1 DEF TypeOK, OfferReauth

LEMMA PublishTyped ==
    ASSUME TypeOK, NEW who, NEW failure, Publish(who, failure)
    PROVE  /\ flows' \in [Flows -> Flow \cup {NoFlow}]
           /\ loop' \in Stages
<1>1. flows' \in [Flows -> Flow \cup {NoFlow}]
  BY OfferTyped DEF Publish, TypeOK
<1>2. loop' \in Stages
  BY DEF Publish, TypeOK, Stages
<1> QED BY <1>1, <1>2

\* A failure ends the work of its slot.  It ends the loop as one whose link changed
\* only when a reload is on its way.
LEMMA FailKeeps ==
    ASSUME LinkInv, NEW x \in Slots, acts[x].pc # "free", NEW failure,
           Fail(x, failure), UNCHANGED <<link, reloading>>,
           failure = "link_changed" => ~Matches(acts[x].fence)
    PROVE  LinkInv'
<1> USE DEF LinkInv
<1>1. acts[x] # NoAct /\ acts[x] \in Act
  BY ActTyped
<1>2. TypeOK'
  <2>1. flows' \in [Flows -> Flow \cup {NoFlow}] /\ loop' \in Stages
    BY PublishTyped DEF Fail
  <2>2. acts' \in [Slots -> Act \cup {NoAct}]
    BY DEF Fail, TypeOK
  <2> QED BY <2>1, <2>2 DEF Fail, TypeOK, Stages
<1>3. TokenIsOfLinkedAccount'
  BY DEF TokenIsOfLinkedAccount
<1>4. \A y \in Slots : acts'[y] \in {acts[y], NoAct}
  BY DEF Fail, TypeOK
<1>5. Actors' /\ Fences' /\ Namespace'
  BY <1>4 DEF Fail, Actors, Fences, Stands, Matches, Namespace, Slots
<1>6. StoppedLoopIsReplaced'
  <2> SUFFICES ASSUME mode = "sync", loop' = "changed", ~reloading PROVE FALSE
    BY DEF StoppedLoopIsReplaced, Fail
  <2>1. loop # "changed"
    BY DEF StoppedLoopIsReplaced
  <2>2. acts[x].who = "loop" /\ Recorded(x, failure) = "link_changed"
    BY <2>1 DEF Fail, Publish
  <2>3. x = "current"
    BY <1>1, <2>2 DEF Actors, Slots
  <2>4. ~Matches(acts["current"].fence)
    BY <2>2, <2>3 DEF Recorded
  <2> QED BY <1>1, <2>3, <2>4 DEF Fences, Stands
<1> QED BY <1>2, <1>3, <1>5, <1>6

\* Work that goes on under its fence disturbs nothing else.
LEMMA ProgressKeeps ==
    ASSUME LinkInv, NEW x \in Slots, acts[x].pc # "free", NEW act \in Act,
           acts' = [acts EXCEPT ![x] = act],
           act.fence = acts[x].fence, act.who = acts[x].who,
           act.pc \in {"refreshing", "calling"} => act.call # "none",
           Registration(act) => Registration(acts[x]),
           due' \in BOOLEAN,
           UNCHANGED <<linkVars, mode, loop, accepting, context, account, verified>>
    PROVE  LinkInv'
<1> USE DEF LinkInv, linkVars
<1>1. acts[x] # NoAct /\ acts[x] \in Act
  BY ActTyped
<1>2. TypeOK'
  BY DEF TypeOK
<1>3. TokenIsOfLinkedAccount' /\ StoppedLoopIsReplaced'
  BY DEF TokenIsOfLinkedAccount, StoppedLoopIsReplaced
<1>4. \A y \in Slots : acts'[y] = IF y = x THEN act ELSE acts[y]
  BY DEF TypeOK
<1>5. Actors'
  BY <1>1, <1>4 DEF Actors, Slots
<1>6. Fences'
  BY <1>1, <1>4 DEF Fences, Stands, Matches, Slots
<1>7. Namespace'
  BY <1>1, <1>4 DEF Namespace, Slots
<1> QED BY <1>2, <1>3, <1>5, <1>6, <1>7

\* A further request of a client that is registered or past its registration.
LEMMA RequestKeeps ==
    ASSUME LinkInv, NEW x \in Slots, acts[x].pc = "claiming", Request(x, "samples"),
           UNCHANGED <<linkVars, runtimeVars>>
    PROVE  LinkInv'
<1>1. acts[x] \in Act
  BY ActTyped DEF LinkInv
<1>2. PICK pc \in {"calling", "refreshing"} :
          acts' = [acts EXCEPT ![x].pc = pc, ![x].call = "samples", ![x].again = FALSE]
  BY DEF Request
<1> DEFINE act == [acts[x] EXCEPT !.pc = pc, !.call = "samples", !.again = FALSE]
<1>3. act \in Act
  BY <1>1 DEF Act
<1>4. acts' = [acts EXCEPT ![x] = act]
  BY <1>2 DEF LinkInv, TypeOK
<1>5. /\ act.fence = acts[x].fence /\ act.who = acts[x].who
      /\ act.call # "none" /\ Registration(acts[x])
  BY <1>1 DEF Act, Registration
<1>6. due' \in BOOLEAN
  BY DEF LinkInv, TypeOK, runtimeVars
<1> HIDE DEF act
<1> QED BY <1>3, <1>4, <1>5, <1>6, ProgressKeeps DEF runtimeVars

-----------------------------------------------------------------------------
(* Beginning *)

LEMMA BeginWithClientKeeps ==
    ASSUME LinkInv, NEW who \in {"check", "loop", "sync_now"}, BeginWithClient(who)
    PROVE  LinkInv'
<1> USE DEF LinkInv
<1> DEFINE act == [who |-> who, pc |-> "refreshing", fence |-> Current, key |-> link.token,
                   call |-> "probes", again |-> FALSE]
<1>1. acts' = [acts EXCEPT !["current"] = act]
  BY DEF BeginWithClient, Begin
<1>2. Current \in Fence /\ Current.subject # None /\ Matches(Current)
  BY DEF Current, Fence, TypeOK, BeginWithClient, Linked, Matches
<1>3. act \in Act
  BY <1>2 DEF Act, TypeOK, BeginWithClient, Linked, TokenIsOfLinkedAccount
<1>4. /\ act.who = who /\ act.pc = "refreshing" /\ act.call = "probes" /\ act.fence = Current
      /\ ~Registration(act)
  BY DEF Registration
<1> HIDE DEF act
<1>5. acts'["current"] = act /\ acts'["orphan"] = acts["orphan"]
  BY <1>1 DEF TypeOK, Slots
<1>6. UNCHANGED <<linkVars, mode, loop, accepting, due, context, account>>
  BY DEF BeginWithClient
<1>7. TypeOK'
  <2>1. verified' \in Generations
    BY LinkAssumption DEF BeginWithClient, TypeOK, Generations
  <2>2. acts' \in [Slots -> Act \cup {NoAct}]
    BY <1>1, <1>3 DEF TypeOK
  <2> QED BY <1>6, <2>1, <2>2 DEF TypeOK, linkVars
<1>8. TokenIsOfLinkedAccount' /\ StoppedLoopIsReplaced'
  BY <1>6 DEF TokenIsOfLinkedAccount, StoppedLoopIsReplaced, linkVars
<1>9. Actors'
  BY <1>2, <1>4, <1>5, <1>6 DEF Actors, Slots, BeginWithClient, MayBegin
<1>10. Fences'
  BY <1>2, <1>4, <1>5, <1>6 DEF Fences, Stands, Matches, linkVars
<1>11. Namespace'
  BY <1>4, <1>5, <1>6 DEF Namespace
<1> QED BY <1>7, <1>8, <1>9, <1>10, <1>11

LEMMA BeginWithContextKeeps == ASSUME LinkInv, BeginWithContext PROVE LinkInv'
<1> USE DEF LinkInv
<1> DEFINE act == [who |-> "loop", pc |-> "claiming", fence |-> context,
                   key |-> context.subject, call |-> "none", again |-> FALSE]
<1>1. acts' = [acts EXCEPT !["current"] = act]
  BY DEF BeginWithContext, Begin
<1>2. /\ context \in Fence /\ context.subject # None
      /\ Stands(context) /\ account = context.subject
  BY DEF TypeOK, BeginWithContext, Fences
<1>3. act \in Act
  BY <1>2 DEF Act, Fence
<1>4. act.who = "loop" /\ act.pc = "claiming" /\ act.fence = context
  OBVIOUS
<1> HIDE DEF act
<1>5. acts'["current"] = act /\ acts'["orphan"] = acts["orphan"]
  BY <1>1 DEF TypeOK, Slots
<1>6. UNCHANGED <<linkVars, runtimeVars>>
  BY DEF BeginWithContext
<1>7. TypeOK'
  BY <1>1, <1>3, <1>6 DEF TypeOK, linkVars, runtimeVars
<1>8. TokenIsOfLinkedAccount' /\ StoppedLoopIsReplaced'
  BY <1>6 DEF TokenIsOfLinkedAccount, StoppedLoopIsReplaced, linkVars, runtimeVars
<1>9. Actors'
  BY <1>2, <1>4, <1>5, <1>6 DEF Actors, Slots, runtimeVars
<1>10. Fences'
  BY <1>2, <1>4, <1>5, <1>6 DEF Fences, Stands, Matches, linkVars, runtimeVars
<1>11. Namespace'
  BY <1>2, <1>4, <1>5, <1>6 DEF Namespace, runtimeVars
<1> QED BY <1>7, <1>8, <1>9, <1>10, <1>11

LEMMA BeginRefusedKeeps ==
    ASSUME LinkInv, NEW who \in {"check", "loop", "sync_now"}, BeginRefused(who)
    PROVE  LinkInv'
<1> USE DEF LinkInv
<1>1. UNCHANGED <<link, reloading, mode, accepting, due, context, account, acts>>
  BY DEF BeginRefused
<1>2. /\ flows' \in [Flows -> Flow \cup {NoFlow}] /\ loop' \in Stages
      /\ verified' \in Generations
  BY LinkAssumption, PublishTyped DEF BeginRefused, TypeOK, Generations, Stages
<1>3. TypeOK'
  BY <1>1, <1>2 DEF TypeOK, Stages
<1>4. StoppedLoopIsReplaced'
  <2>1. loop' = "changed" => loop = "changed"
    BY DEF BeginRefused, Publish
  <2> QED BY <1>1, <2>1 DEF StoppedLoopIsReplaced
<1>5. TokenIsOfLinkedAccount' /\ Actors' /\ Fences' /\ Namespace'
  BY <1>1 DEF TokenIsOfLinkedAccount, Actors, Fences, Stands, Matches, Namespace
<1> QED BY <1>3, <1>4, <1>5

-----------------------------------------------------------------------------
(* Answers *)

\* The next suspension of the same request.
LEMMA ContinueKeeps ==
    ASSUME LinkInv, NEW x \in Slots, NEW pc, acts[x].pc # "free", Continue(x, pc),
           pc \in {"calling", "registering", "storing"},
           pc = "calling" => acts[x].call # "none",
           pc = "storing" => Registration(acts[x]),
           UNCHANGED <<linkVars, runtimeVars>>
    PROVE  LinkInv'
<1> DEFINE act == [acts[x] EXCEPT !.pc = pc]
<1>1. acts[x] \in Act
  BY ActTyped DEF LinkInv
<1>2. act \in Act
  BY <1>1 DEF Act
<1>3. acts' = [acts EXCEPT ![x] = act]
  BY DEF Continue
<1>4. act.fence = acts[x].fence /\ act.who = acts[x].who /\ act.call = acts[x].call /\ act.pc = pc
  BY <1>1 DEF Act
<1>5. Registration(act) => Registration(acts[x])
  BY <1>4 DEF Registration
<1>6. due' \in BOOLEAN
  BY DEF LinkInv, TypeOK, runtimeVars
<1> HIDE DEF act
<1> QED BY <1>2, <1>3, <1>4, <1>5, <1>6, ProgressKeeps DEF runtimeVars

LEMMA AnswersKeep == ASSUME LinkInv, NEW x \in Slots, Answers(x) PROVE LinkInv'
<1>1. acts[x].pc \in {"refreshing", "calling"}
  BY DEF Answers, TokenIssued, TokenRefused, Unauthorized, CallFails, CallAnswered
<1>2. acts[x] # NoAct /\ acts[x] \in Act /\ acts[x].call # "none"
  BY <1>1, ActTyped DEF LinkInv, Actors
<1>3. CASE TokenIssued(x)
  <2>1. CASE Continue(x, "calling") /\ UNCHANGED <<linkVars, runtimeVars>>
    BY <1>1, <1>2, <2>1, ContinueKeeps
  <2>2. CASE /\ Rotate(acts[x].fence, acts[x].key) /\ UNCHANGED reloading
             /\ Matches(acts[x].fence)
             /\ Continue(x, "calling") /\ UNCHANGED <<flows, runtimeVars>>
    <3>1. acts[x].key = link.token
      BY <1>3, <2>2 DEF TokenIssued, Matches, LinkInv, TokenIsOfLinkedAccount
    <3>2. link' = link
      BY <2>2, <3>1 DEF Rotate, LinkInv, TypeOK
    <3> QED BY <1>1, <1>2, <2>2, <3>2, ContinueKeeps DEF linkVars
  <2>3. CASE /\ Rotate(acts[x].fence, acts[x].key) /\ UNCHANGED reloading
             /\ ~Matches(acts[x].fence) /\ Fail(x, "auth")
    BY <1>1, <2>3, FailKeeps DEF Rotate
  <2> QED BY <1>3, <2>1, <2>2, <2>3 DEF TokenIssued
<1>4. CASE TokenRefused(x)
  BY <1>1, <1>4, FailKeeps DEF TokenRefused
<1>5. CASE Unauthorized(x)
  <2>1. CASE acts[x].again
    BY <1>1, <1>5, <2>1, FailKeeps DEF Unauthorized
  <2>2. CASE ~acts[x].again
    <3> DEFINE act == [acts[x] EXCEPT !.pc = "refreshing", !.again = TRUE]
    <3>1. act \in Act
      BY <1>2 DEF Act
    <3>2. acts' = [acts EXCEPT ![x] = act]
      BY <1>5, <2>2 DEF Unauthorized, LinkInv, TypeOK
    <3>3. act.fence = acts[x].fence /\ act.who = acts[x].who /\ act.call = acts[x].call
          /\ act.pc = "refreshing"
      BY <1>2 DEF Act
    <3>4. Registration(act) => Registration(acts[x])
      BY <3>3 DEF Registration
    <3>5. due' \in BOOLEAN /\ UNCHANGED <<linkVars, runtimeVars>>
      BY <1>5, <2>2 DEF Unauthorized, LinkInv, TypeOK, linkVars, runtimeVars
    <3> HIDE DEF act
    <3> QED BY <1>1, <1>2, <3>1, <3>2, <3>3, <3>4, <3>5, ProgressKeeps DEF runtimeVars
  <2> QED BY <2>1, <2>2
<1>6. CASE CallFails(x)
  BY <1>1, <1>6, FailKeeps DEF CallFails
<1>7. CASE CallAnswered(x)
  <2>1. CASE Matches(acts[x].fence)
    <3>1. UNCHANGED <<linkVars, runtimeVars>>
      BY <1>7, <2>1 DEF CallAnswered, linkVars
    <3>2. CASE acts[x].call = "probes"
      <4>1. Continue(x, "registering")
        BY <1>7, <2>1, <3>2 DEF CallAnswered
      <4> QED BY <1>1, <3>1, <4>1, ContinueKeeps
    <3>3. CASE acts[x].call # "probes"
      <4>1. Continue(x, "storing")
        BY <1>7, <2>1, <3>3 DEF CallAnswered
      <4>2. Registration(acts[x])
        BY <1>2, <3>3 DEF Act, Registration
      <4> QED BY <1>1, <3>1, <4>1, <4>2, ContinueKeeps
    <3> QED BY <3>2, <3>3
  <2>2. CASE ~Matches(acts[x].fence)
    BY <1>1, <1>7, <2>2, FailKeeps DEF CallAnswered
  <2> QED BY <2>1, <2>2
<1> QED BY <1>3, <1>4, <1>5, <1>6, <1>7 DEF Answers

LEMMA RegisteredKeeps == ASSUME LinkInv, NEW x \in Slots, Registered(x) PROVE LinkInv'
<1> USE DEF LinkInv
<1>1. x = "current" /\ acts[x] # NoAct /\ acts[x] \in Act /\ acts[x].pc = "registering"
  BY ActTyped DEF Registered, Open
<1>2. PICK pc \in {"calling", "refreshing"} :
          acts' = [acts EXCEPT ![x].pc = pc, ![x].call = "sessions", ![x].again = FALSE]
  BY DEF Registered, Request
<1> DEFINE act == [acts[x] EXCEPT !.pc = pc, !.call = "sessions", !.again = FALSE]
<1>3. act \in Act
  BY <1>1 DEF Act
<1>4. acts' = [acts EXCEPT ![x] = act]
  BY <1>2 DEF TypeOK
<1>5. act.fence = acts[x].fence /\ act.who = acts[x].who /\ act.call = "sessions"
  BY <1>1 DEF Act
<1> HIDE DEF act
<1>6. acts'["current"] = act /\ acts'["orphan"] = acts["orphan"]
  BY <1>1, <1>4 DEF TypeOK, Slots
<1>7. /\ context' = acts[x].fence /\ account' = acts[x].fence.subject
      /\ verified' = acts[x].fence.generation
      /\ UNCHANGED <<linkVars, mode, loop, accepting, due>>
  BY DEF Registered
<1>8. acts[x].fence \in Fence /\ acts[x].fence.subject # None /\ Stands(acts[x].fence)
  BY <1>1 DEF Act, Actors, Fences
<1>9. TypeOK'
  BY <1>3, <1>4, <1>7, <1>8 DEF TypeOK, Fence, linkVars
<1>10. TokenIsOfLinkedAccount' /\ StoppedLoopIsReplaced'
  BY <1>7 DEF TokenIsOfLinkedAccount, StoppedLoopIsReplaced, linkVars
<1>11. Actors'
  BY <1>1, <1>5, <1>6, <1>7, <1>8 DEF Actors, Slots
<1>12. Fences'
  BY <1>5, <1>6, <1>7, <1>8 DEF Fences, Stands, Matches, linkVars
<1>13. Namespace'
  BY <1>5, <1>6, <1>7 DEF Namespace
<1> QED BY <1>9, <1>10, <1>11, <1>12, <1>13

LEMMA ArchiveKeeps == ASSUME LinkInv, NEW x \in Slots, Archive(x) PROVE LinkInv'
<1>1. acts[x].pc \in {"registering", "claiming", "storing"}
  BY DEF Archive, ArchiveRefuses, Registered, Stored, Claimed, CycleEnds
<1>2. acts[x] # NoAct /\ acts[x] \in Act
  BY <1>1, ActTyped DEF LinkInv
<1>3. CASE ArchiveRefuses(x)
  BY <1>1, <1>3, FailKeeps DEF ArchiveRefuses
<1>4. CASE Registered(x)
  BY <1>4, RegisteredKeeps
<1>5. CASE Stored(x)
  <2> DEFINE act == [acts[x] EXCEPT !.pc = "claiming", !.call = "none"]
  <2>1. act \in Act
    BY <1>2 DEF Act
  <2>2. acts' = [acts EXCEPT ![x] = act]
    BY <1>5 DEF Stored, LinkInv, TypeOK
  <2>3. act.fence = acts[x].fence /\ act.who = acts[x].who /\ act.pc = "claiming"
    BY <1>2 DEF Act
  <2>4. Registration(acts[x])
    BY <1>5 DEF Stored, Registration
  <2>5. /\ due' \in BOOLEAN
        /\ UNCHANGED <<linkVars, mode, loop, accepting, context, account, verified>>
    BY <1>5 DEF Stored, LinkInv, TypeOK
  <2> HIDE DEF act
  <2> QED BY <1>1, <2>1, <2>2, <2>3, <2>4, <2>5, ProgressKeeps
<1>6. CASE Claimed(x)
  <2>1. CASE Matches(acts[x].fence)
    BY <1>6, <2>1, RequestKeeps DEF Claimed, linkVars
  <2>2. CASE ~Matches(acts[x].fence)
    BY <1>1, <1>6, <2>2, FailKeeps DEF Claimed
  <2> QED BY <2>1, <2>2
<1>7. CASE CycleEnds(x)
  <2>1. /\ UNCHANGED <<linkVars, mode, accepting, due, context, account, verified>>
        /\ loop' \in {loop, "settling"}
        /\ acts' = [acts EXCEPT ![x] = NoAct]
    BY <1>7 DEF CycleEnds
  <2>2. \A y \in Slots : acts'[y] \in {acts[y], NoAct}
    BY <2>1 DEF LinkInv, TypeOK
  <2>3. TypeOK'
    BY <2>1 DEF LinkInv, TypeOK, linkVars, runtimeVars
  <2>4. Actors' /\ Fences' /\ Namespace'
    BY <2>1, <2>2 DEF LinkInv, Actors, Fences, Stands, Matches, Namespace, Slots,
                      linkVars, runtimeVars
  <2>5. TokenIsOfLinkedAccount' /\ StoppedLoopIsReplaced'
    BY <2>1 DEF LinkInv, TokenIsOfLinkedAccount, StoppedLoopIsReplaced, linkVars, runtimeVars
  <2> QED BY <2>3, <2>4, <2>5 DEF LinkInv
<1> QED BY <1>3, <1>4, <1>5, <1>6, <1>7 DEF Archive

\* The one-shot check ends; only check mode knows it.
LEMMA CheckAnsweredKeeps == ASSUME LinkInv, CheckAnswered PROVE LinkInv'
<1> USE DEF LinkInv
<1>1. acts["current"].who = "check" /\ acts["current"].pc = "calling"
  BY DEF CheckAnswered
<1>2. acts["current"] # NoAct /\ acts["current"] \in Act
  BY <1>1, ActTyped DEF Slots
<1>3. /\ mode = "check" /\ loop' = "over" /\ acts' = [acts EXCEPT !["current"] = NoAct]
      /\ UNCHANGED <<linkVars, mode, accepting, due, context, account>>
  BY <1>1, <1>2 DEF CheckAnswered, Actors
<1>4. verified' \in Generations
  BY <1>2 DEF CheckAnswered, TypeOK, Act, Fence
<1>5. \A y \in Slots : acts'[y] \in {acts[y], NoAct}
  BY <1>3 DEF TypeOK
<1>6. TypeOK'
  BY <1>3, <1>4 DEF TypeOK, linkVars
<1>7. Actors' /\ Fences' /\ Namespace'
  BY <1>3, <1>5 DEF Actors, Fences, Stands, Matches, Namespace, Slots, linkVars
<1>8. TokenIsOfLinkedAccount' /\ StoppedLoopIsReplaced'
  BY <1>3 DEF TokenIsOfLinkedAccount, StoppedLoopIsReplaced, linkVars
<1> QED BY <1>6, <1>7, <1>8

-----------------------------------------------------------------------------
(* Flows, the reload and what happens by itself *)

\* A flow keeps the link, or replaces it as a whole and schedules a reload.
LEMMA FlowKeeps ==
    ASSUME LinkInv, UNCHANGED <<runtimeVars, acts>>,
           flows' \in [Flows -> Flow \cup {NoFlow}], reloading' \in BOOLEAN,
           \/ UNCHANGED link /\ (reloading => reloading')
           \/ /\ reloading' = TRUE /\ link'.token = link'.subject
              /\ link' \in [generation : Generations, subject : Subjects \cup {None},
                            token : Subjects \cup {None}]
    PROVE  LinkInv'
<1> USE DEF LinkInv, runtimeVars
<1>1. TypeOK'
  BY DEF TypeOK
<1>2. TokenIsOfLinkedAccount' /\ StoppedLoopIsReplaced'
  BY DEF TokenIsOfLinkedAccount, StoppedLoopIsReplaced, TypeOK
<1>3. Actors' /\ Namespace'
  BY DEF Actors, Namespace
<1>4. Fences'
  BY DEF Fences, Stands, Matches
<1> QED BY <1>1, <1>2, <1>3, <1>4

LEMMA RelinkKeeps ==
    ASSUME LinkInv, NEW f \in Flows, NEW generation \in Nat,
           NEW subject \in Subjects \cup {None}, Relink(f, generation, subject)
    PROVE  LinkInv'
<1>1. generation \in Generations
  BY LinkAssumption DEF Relink, Generations
<1>2. /\ link' = [generation |-> generation, subject |-> subject, token |-> subject]
      /\ reloading' = TRUE /\ UNCHANGED <<runtimeVars, acts>>
  BY DEF Relink
<1>3. flows' \in [Flows -> Flow \cup {NoFlow}]
  BY DEF Relink, LinkInv, TypeOK
<1>4. /\ link'.token = link'.subject
      /\ link' \in [generation : Generations, subject : Subjects \cup {None},
                    token : Subjects \cup {None}]
  BY <1>1, <1>2
<1> QED BY <1>2, <1>3, <1>4, FlowKeeps

LEMMA UserKeeps == ASSUME LinkInv, User PROVE LinkInv'
<1> USE DEF LinkInv
<1>1. link.generation \in Nat /\ link.subject \in Subjects \cup {None} /\ reloading \in BOOLEAN
  BY LinkAssumption DEF TypeOK, Generations
<1>2. \A f \in Flows : flows[f].step # "none" => flows[f] \in Flow
  BY DEF TypeOK, NoFlow
<1>3. ASSUME NEW kind \in FlowKinds, FlowOpened(kind) PROVE LinkInv'
  <2> DEFINE new == [NoFlow EXCEPT !.step = "offered", !.kind = kind]
  <2>1. new \in Flow
    BY DEF NoFlow, Flow
  <2>2. flows' = [flows EXCEPT !["reconfigure"] = new]
    BY <1>3 DEF FlowOpened
  <2> HIDE DEF new
  <2>3. flows' \in [Flows -> Flow \cup {NoFlow}]
    BY <2>1, <2>2 DEF TypeOK
  <2> QED BY <1>1, <1>3, <2>3, FlowKeeps DEF FlowOpened
<1>4. ASSUME NEW f \in Flows, FlowClosed(f) PROVE LinkInv'
  <2>1. flows' \in [Flows -> Flow \cup {NoFlow}]
    BY <1>4 DEF FlowClosed, TypeOK
  <2> QED BY <1>1, <1>4, <2>1, FlowKeeps DEF FlowClosed
<1>5. ASSUME NEW f \in Flows, CredentialsRefused(f) PROVE LinkInv'
  <2>1. flows[f] \in Flow
    BY <1>2, <1>5 DEF CredentialsRefused
  <2> DEFINE new == [flows[f] EXCEPT !.step = "offered", !.expected = None, !.given = None]
  <2>2. new \in Flow
    BY <2>1 DEF Flow
  <2>3. flows' = [flows EXCEPT ![f] = new]
    BY <1>5 DEF CredentialsRefused, TypeOK
  <2> HIDE DEF new
  <2>4. flows' \in [Flows -> Flow \cup {NoFlow}]
    BY <2>2, <2>3 DEF TypeOK
  <2> QED BY <1>1, <1>5, <2>4, FlowKeeps DEF CredentialsRefused
<1>6. ASSUME NEW f \in Flows, NEW s \in Subjects, CredentialsEntered(f, s) PROVE LinkInv'
  <2>1. flows[f] \in Flow
    BY <1>2, <1>6 DEF CredentialsEntered
  <2> DEFINE new == [flows[f] EXCEPT !.step = "validating", !.given = s,
                                     !.expected = IF flows[f].kind = "reauth"
                                                  THEN link.subject ELSE None]
  <2>2. new \in Flow
    BY <1>1, <2>1 DEF Flow
  <2>3. flows' \in {[flows EXCEPT ![f] = NoFlow], [flows EXCEPT ![f] = new]}
    BY <1>6 DEF CredentialsEntered, TypeOK
  <2> HIDE DEF new
  <2>4. flows' \in [Flows -> Flow \cup {NoFlow}]
    BY <2>2, <2>3 DEF TypeOK
  <2> QED BY <1>1, <1>6, <2>4, FlowKeeps DEF CredentialsEntered
<1>7. ASSUME NEW f \in Flows, CredentialsAccepted(f) PROVE LinkInv'
  <2>1. flows[f].given \in Subjects \cup {None}
    BY <1>2, <1>7 DEF CredentialsAccepted, Flow
  <2> QED BY <1>1, <1>7, <2>1, RelinkKeeps DEF CredentialsAccepted, Max1, NextLinkGeneration
<1>8. ASSUME NEW f \in Flows, Unlink(f) PROVE LinkInv'
  BY <1>1, <1>8, RelinkKeeps DEF Unlink, NextLinkGeneration
<1>9. CASE OptionsChanged
  <2>1. flows' \in [Flows -> Flow \cup {NoFlow}]
    BY <1>9 DEF OptionsChanged, TypeOK
  <2> QED BY <1>1, <1>9, <2>1, FlowKeeps DEF OptionsChanged
<1> QED BY <1>3, <1>4, <1>5, <1>6, <1>7, <1>8, <1>9 DEF User

\* A loop that settles holds no fence that it did not hold before.
LEMMA LoopSettlesKeeps == ASSUME LinkInv, LoopSettles PROVE LinkInv'
<1> USE DEF LinkInv, linkVars
<1>1. /\ loop' \in {"running", "over"}
      /\ UNCHANGED <<linkVars, mode, accepting, due, context, account, verified, acts>>
  BY DEF LoopSettles
<1>2. TypeOK'
  BY <1>1 DEF TypeOK
<1>3. TokenIsOfLinkedAccount' /\ StoppedLoopIsReplaced'
  BY <1>1 DEF TokenIsOfLinkedAccount, StoppedLoopIsReplaced
<1>4. Actors' /\ Fences' /\ Namespace'
  BY <1>1 DEF Actors, Fences, Stands, Matches, Namespace
<1> QED BY <1>2, <1>3, <1>4

\* The new runtime holds no fence, context or account of the one before; a sync_now
\* of the old runtime goes on under its own fence.
LEMMA ReloadKeeps == ASSUME LinkInv, Reload PROVE LinkInv'
<1> USE DEF LinkInv
<1>1. /\ acts'["current"] = NoAct
      /\ acts'["orphan"] \in {acts["current"], acts["orphan"]}
      /\ acts'["orphan"] # NoAct => acts'["orphan"].who = "sync_now"
      /\ acts' \in [Slots -> Act \cup {NoAct}]
  <2>1. acts' = [current |-> NoAct,
                 orphan |-> IF acts["current"].who = "sync_now" THEN acts["current"]
                            ELSE acts["orphan"]]
    BY DEF Reload
  <2>2. acts["orphan"] # NoAct => acts["orphan"].who = "sync_now"
    BY DEF Actors
  <2>3. DOMAIN acts' = Slots
    BY <2>1 DEF Slots
  <2> QED BY <2>1, <2>2, <2>3 DEF TypeOK, Slots
<1>2. /\ reloading' = FALSE /\ loop' \in {"running", "settling"} /\ accepting' = TRUE /\ due' = TRUE
      /\ context' = Unlinked /\ account' = None /\ verified' = 0 /\ UNCHANGED <<link, flows>>
      /\ mode' \in {"none", "check", "sync"}
  BY DEF Reload
<1>3. TypeOK'
  <2>1. 0 \in Generations
    BY LinkAssumption DEF Generations
  <2>2. context' \in Fence
    BY <1>2, <2>1 DEF Fence, Unlinked
  <2> QED BY <1>1, <1>2, <2>1, <2>2 DEF TypeOK
<1>4. TokenIsOfLinkedAccount' /\ StoppedLoopIsReplaced'
  BY <1>2 DEF TokenIsOfLinkedAccount, StoppedLoopIsReplaced
<1>5. Actors'
  BY <1>1 DEF Actors, Slots
<1>6. Fences' /\ Namespace'
  BY <1>1, <1>2 DEF Fences, Namespace
<1> QED BY <1>3, <1>4, <1>5, <1>6

LEMMA RuntimeKeeps == ASSUME LinkInv, ContextAges \/ ArchiveDegrades PROVE LinkInv'
<1> USE DEF LinkInv, linkVars
<1>1. /\ due' \in BOOLEAN /\ accepting' \in BOOLEAN /\ (accepting' => accepting)
      /\ UNCHANGED <<linkVars, mode, loop, context, account, verified, acts>>
  <2>1. due \in BOOLEAN /\ accepting \in BOOLEAN
    BY DEF TypeOK
  <2>2. CASE ContextAges
    <3>1. due' = TRUE /\ accepting' = accepting
      BY <2>2 DEF ContextAges
    <3> QED BY <2>1, <2>2, <3>1 DEF ContextAges
  <2>3. CASE ArchiveDegrades
    <3>1. due' = due /\ accepting' = FALSE
      BY <2>3 DEF ArchiveDegrades
    <3> QED BY <2>1, <2>3, <3>1 DEF ArchiveDegrades
  <2> QED BY <2>2, <2>3
<1>2. TypeOK'
  BY <1>1 DEF TypeOK
<1>3. TokenIsOfLinkedAccount' /\ StoppedLoopIsReplaced'
  BY <1>1 DEF TokenIsOfLinkedAccount, StoppedLoopIsReplaced
<1>4. Actors' /\ Fences' /\ Namespace'
  BY <1>1 DEF Actors, Fences, Stands, Matches, Namespace
<1> QED BY <1>2, <1>3, <1>4

-----------------------------------------------------------------------------
LEMMA LinkInvNext == LinkInv /\ [Next]_vars => LinkInv'
<1> SUFFICES ASSUME LinkInv, [Next]_vars PROVE LinkInv'
  OBVIOUS
<1>1. CASE Starts
  BY <1>1, BeginWithClientKeeps, BeginRefusedKeeps DEF Starts
<1>2. CASE BeginWithContext
  BY <1>2, BeginWithContextKeeps
<1>3. CASE \E x \in Slots : Answers(x) \/ Archive(x)
  BY <1>3, AnswersKeep, ArchiveKeeps
<1>4. CASE CheckAnswered \/ LoopSettles
  BY <1>4, CheckAnsweredKeeps, LoopSettlesKeeps
<1>5. CASE ContextAges \/ ArchiveDegrades
  BY <1>5, RuntimeKeeps
<1>6. CASE User
  BY <1>6, UserKeeps
<1>7. CASE Reload
  BY <1>7, ReloadKeeps
<1>8. CASE UNCHANGED vars
  BY <1>8 DEF vars, linkVars, runtimeVars, LinkInv, TypeOK, TokenIsOfLinkedAccount, Actors,
              Fences, Stands, Matches, Namespace, StoppedLoopIsReplaced
<1> QED BY <1>1, <1>2, <1>3, <1>4, <1>5, <1>6, <1>7, <1>8 DEF Next

\* While somebody stores an answer, the account is the one of its fence.
LEMMA LinkInvGives ==
    LinkInv => TypeOK /\ TokenIsOfLinkedAccount /\ DataStaysInItsAccount /\ StoppedLoopIsReplaced
<1>1. ASSUME LinkInv, acts["current"].pc = "storing"
      PROVE  account = acts["current"].fence.subject
  <2>1. acts["current"] # NoAct
    BY <1>1, ActTyped DEF LinkInv, Slots
  <2> QED BY <1>1, <2>1 DEF LinkInv, Namespace, Registration
<1> QED BY <1>1 DEF LinkInv, DataStaysInItsAccount

LEMMA LinkInvHolds == Spec => []LinkInv
BY LinkInvInit, LinkInvNext, PTL DEF Spec

(* Every state of the link is of its type: in particular a client is made only *)
(* for a linked subject (cloud/ha.py create_linked_cloud_client).              *)
THEOREM LinkTypeCorrect == Spec => []TypeOK
BY LinkInvHolds, LinkInvGives, PTL

(* A rotation that arrives after a replacement never stores a token of the     *)
(* account before (cloud/ha.py _persist_rotation).                             *)
THEOREM TokenStaysWithAccount == Spec => []TokenIsOfLinkedAccount
BY LinkInvHolds, LinkInvGives, PTL

(* What a cycle commits was fetched as the account it is stored under          *)
(* (reconciliation/sync.py _refresh_context, _process_work).                   *)
THEOREM AccountsNeverMix == Spec => []DataStaysInItsAccount
BY LinkInvHolds, LinkInvGives, PTL

(* A loop that ended because the link changed has a reload on its way          *)
(* (reconciliation/sync.py async_run).                                         *)
THEOREM StoppedLoopsAreReplaced == Spec => []StoppedLoopIsReplaced
BY LinkInvHolds, LinkInvGives, PTL

=============================================================================
