---------------------------- MODULE AccountLink ----------------------------
(***************************************************************************)
(* The optional cloud account link: the credentials in the config entry, the *)
(* flows that change them (config_flow.py), and the awaited cloud work that   *)
(* runs under the link it started with (cloud/ha.py, cloud/auth.py,           *)
(* cloud/client.py, reconciliation/sync.py).                                  *)
(*                                                                           *)
(* A link is fenced by its generation and subject.  Every await is a step of  *)
(* its own, so flows, the reload they schedule, the supervisor's loop and     *)
(* sync_now interleave there.  A credential is the subject it belongs to; the *)
(* cloud answers any request with success or any kind of failure.             *)
(***************************************************************************)
EXTENDS Integers, FiniteSets

CONSTANTS
    Subjects,       \* Firebase subjects
    None,           \* no subject
    MaxGeneration   \* bound: last generation of the link

ASSUME LinkAssumption ==
    /\ None \notin Subjects
    /\ MaxGeneration \in Nat

VARIABLES
    link,        \* cloud part of the config entry's data
    reloading,   \* a reload of the entry is scheduled
    flows,       \* config flows in progress
    mode,        \* what this runtime does with the link
    loop,        \* where async_run, or the one-shot check, stands
    accepting,   \* the archive takes work
    due,         \* the supervisor's context has to be refreshed
    context,     \* _client with its _generation and _subject
    account,     \* _account_id: the subject whose namespace it is
    verified,    \* CloudLinkHealth.verified_generation of this runtime, or 0
    acts         \* awaited cloud work: of this runtime, of a stopped one

linkVars    == <<link, reloading, flows>>
runtimeVars == <<mode, loop, accepting, due, context, account, verified>>
vars == <<linkVars, runtimeVars, acts>>

-----------------------------------------------------------------------------
Generations == 0..MaxGeneration
Fence == [generation : Generations, subject : Subjects \cup {None}]
Unlinked == [generation |-> 0, subject |-> None]

Slots == {"current", "orphan"}
Flows == {"reauth", "reconfigure"}

NoFlow == [step |-> "none", kind |-> "none", expected |-> None, given |-> None]
NoAct  == [who |-> "nobody", pc |-> "free", fence |-> Unlinked, key |-> None,
           call |-> "none", again |-> FALSE]

FlowKinds == {"link", "reauth", "replace", "unlink"}
Flow == [step : {"offered", "validating"}, kind : FlowKinds,
         expected : Subjects \cup {None}, given : Subjects \cup {None}]
Act == [who : {"check", "loop", "sync_now"},
        pc : {"refreshing", "calling", "registering", "claiming", "storing"},
        fence : Fence, key : Subjects, call : {"none", "probes", "sessions", "samples"},
        again : BOOLEAN]

Init ==
    /\ link = [generation |-> 0, subject |-> None, token |-> None]
    /\ reloading = FALSE
    /\ flows = [f \in Flows |-> NoFlow]
    /\ mode = "none"
    /\ loop = "running"
    /\ accepting = TRUE /\ due = TRUE
    /\ context = Unlinked /\ account = None
    /\ verified = 0
    /\ acts = [x \in Slots |-> NoAct]

-----------------------------------------------------------------------------
Linked == link.subject # None

Matches(fence) == link.generation = fence.generation /\ link.subject = fence.subject

\* the archive takes the work of the current runtime only
Open(x) == x = "current" /\ accepting

\* async_start_reauth: nothing happens while a flow of the entry is in progress
OfferReauth ==
    flows' = IF \E f \in Flows : flows[f] # NoFlow THEN flows
             ELSE [flows EXCEPT !["reauth"] = [NoFlow EXCEPT !.step = "offered",
                                                             !.kind = "reauth"]]

\* what a failure does to the loop and the entry
Publish(who, failure) ==
    /\ IF who # "sync_now" /\ failure = "auth" THEN OfferReauth ELSE UNCHANGED flows
    /\ loop' = CASE who = "sync_now" -> loop
                 [] who = "check" -> "over"
                 [] who = "loop" /\ failure = "link_changed" -> "changed"
                 [] who = "loop" /\ failure = "storage" -> "over"
                 [] OTHER -> "settling"

\* a failure is recorded with the unit or the run first
Recorded(x, failure) ==
    IF /\ ~Open(x)
       /\ \/ acts[x].call = "sessions"
          \/ acts[x].call = "samples" /\ failure # "link_changed"
    THEN "storage" ELSE failure

Fail(x, failure) ==
    /\ Publish(acts[x].who, Recorded(x, failure))
    /\ acts' = [acts EXCEPT ![x] = NoAct]
    /\ UNCHANGED <<mode, accepting, due, context, account, verified>>

Continue(x, pc) == acts' = [acts EXCEPT ![x].pc = pc]

\* a further request of the same client, which may need a new access token first
Request(x, call) ==
    \E pc \in {"calling", "refreshing"} :
        acts' = [acts EXCEPT ![x].pc = pc, ![x].call = call, ![x].again = FALSE]

-----------------------------------------------------------------------------
(* Beginning: one cycle at a time (the cycle lock), or the one-shot check *)

Begin(who, call, fence) ==
    acts' = [acts EXCEPT !["current"] =
                [who |-> who, pc |-> IF call = "none" THEN "claiming" ELSE "refreshing",
                 fence |-> fence, key |-> IF call = "none" THEN fence.subject ELSE link.token,
                 call |-> call, again |-> FALSE]]

MayBegin(who) ==
    /\ acts["current"] = NoAct
    /\ \/ who = "check" /\ mode = "check" /\ loop = "running"
       \/ who = "loop" /\ mode = "sync" /\ loop = "running"
       \/ who = "sync_now" /\ mode = "sync"

Current == [generation |-> link.generation, subject |-> link.subject]

\* faulty variant: a client is made of whatever the entry holds
BeginUnlinked(who) ==
    /\ MayBegin(who)
    /\ who = "check" \/ (accepting /\ (who = "sync_now" \/ due \/ context = Unlinked))
    /\ Begin(who, "probes", Current)
    /\ verified' = IF who = "check" THEN 0 ELSE verified
    /\ UNCHANGED <<linkVars, mode, loop, accepting, due, context, account>>

\* create_linked_cloud_client, then the association request
BeginWithClient(who) ==
    /\ MayBegin(who)
    /\ Linked
    /\ who = "check" \/ (accepting /\ (who = "sync_now" \/ due \/ context = Unlinked))
    /\ Begin(who, "probes", Current)
    /\ verified' = IF who = "check" THEN 0 ELSE verified
    /\ UNCHANGED <<linkVars, mode, loop, accepting, due, context, account>>

\* the loop goes on with its client
BeginWithContext ==
    /\ MayBegin("loop")
    /\ accepting /\ ~due /\ context # Unlinked
    /\ Begin("loop", "none", context)
    /\ UNCHANGED <<linkVars, runtimeVars>>

\* no client can be made, or the archive takes no work
BeginRefused(who) ==
    /\ MayBegin(who)
    /\ \/ /\ who = "check" /\ ~Linked
          /\ verified' = 0 /\ loop' = "over"
          /\ UNCHANGED flows
       \/ /\ who # "check" /\ ~accepting
          /\ Publish(who, "storage") /\ UNCHANGED verified
       \/ /\ who # "check" /\ accepting /\ ~Linked
          /\ who = "sync_now" \/ due \/ context = Unlinked
          /\ Publish(who, "auth") /\ UNCHANGED verified
    /\ UNCHANGED <<link, reloading, mode, accepting, due, context, account, acts>>

-----------------------------------------------------------------------------
(* Answers of the token endpoint *)

\* faulty variant: the rotation hook trusts the client
RotateAlways(fence, new) == link' = [link EXCEPT !.token = new]

\* _persist_rotation
Rotate(fence, new) ==
    IF Matches(fence) THEN link' = [link EXCEPT !.token = new] ELSE UNCHANGED link

\* an access token, and a new refresh token or the one used; the hook's refusal
\* surfaces as an authentication failure (auth.py:123)
TokenIssued(x) ==
    /\ acts[x].pc = "refreshing"
    /\ acts[x].key = acts[x].fence.subject
    /\ \/ /\ Continue(x, "calling")
          /\ UNCHANGED <<linkVars, runtimeVars>>
       \/ /\ Rotate(acts[x].fence, acts[x].key)
          /\ IF Matches(acts[x].fence)
             THEN Continue(x, "calling") /\ UNCHANGED <<flows, runtimeVars>>
             ELSE Fail(x, "auth")
          /\ UNCHANGED reloading

\* refused, or issued for another subject than the linked one
TokenRefused(x) ==
    /\ acts[x].pc = "refreshing"
    /\ Fail(x, "auth")
    /\ UNCHANGED <<link, reloading>>

-----------------------------------------------------------------------------
(* Answers of the data endpoints *)

\* 401: refresh once, then give up
Unauthorized(x) ==
    /\ acts[x].pc = "calling"
    /\ IF acts[x].again
       THEN Fail(x, "auth")
       ELSE /\ acts' = [acts EXCEPT ![x].pc = "refreshing", ![x].again = TRUE]
            /\ UNCHANGED <<flows, runtimeVars>>
    /\ UNCHANGED <<link, reloading>>

\* permission, transport or schema failure
CallFails(x) ==
    /\ acts[x].pc \in {"refreshing", "calling"}
    /\ Fail(x, "cloud")
    /\ UNCHANGED <<link, reloading>>

\* the check publishes what it found, unless the link was replaced
CheckAnswered ==
    LET act == acts["current"]
    IN  /\ act.who = "check" /\ act.pc = "calling"
        /\ verified' = IF Matches(act.fence) THEN act.fence.generation ELSE verified
        /\ loop' = "over"
        /\ acts' = [acts EXCEPT !["current"] = NoAct]
        /\ UNCHANGED <<linkVars, mode, accepting, due, context, account>>

\* a cycle goes on only under the link it started with (_require_link); what it
\* was answered is handed to the archive
CallAnswered(x) ==
    /\ acts[x].pc = "calling" /\ acts[x].who # "check"
    /\ IF Matches(acts[x].fence)
       THEN /\ Continue(x, IF acts[x].call = "probes" THEN "registering" ELSE "storing")
            /\ UNCHANGED <<flows, runtimeVars>>
       ELSE Fail(x, "link_changed")
    /\ UNCHANGED <<link, reloading>>

-----------------------------------------------------------------------------
(* Answers of the archive, which refuses the work of a stopped runtime *)

ArchiveRefuses(x) ==
    /\ acts[x].pc \in {"registering", "claiming", "storing"}
    /\ ~Open(x)
    /\ Fail(x, "storage")
    /\ UNCHANGED <<link, reloading>>

\* faulty variant: the account is the one of the context before
KeepAccount(x) ==
    /\ acts[x].pc = "registering" /\ Open(x)
    /\ context' = acts[x].fence
    /\ account' = IF account = None THEN acts[x].fence.subject ELSE account
    /\ verified' = acts[x].fence.generation
    /\ Request(x, "sessions")
    /\ UNCHANGED <<linkVars, mode, loop, accepting, due>>

\* async_register_account returned: client, fence and account become the context
Registered(x) ==
    /\ acts[x].pc = "registering" /\ Open(x)
    /\ context' = acts[x].fence
    /\ account' = acts[x].fence.subject
    /\ verified' = acts[x].fence.generation
    /\ Request(x, "sessions")
    /\ UNCHANGED <<linkVars, mode, loop, accepting, due>>

\* a page of the index or the answer to a unit of work is committed
Stored(x) ==
    /\ acts[x].pc = "storing" /\ Open(x)
    /\ due' = (due /\ acts[x].call # "sessions")
    /\ acts' = [acts EXCEPT ![x].pc = "claiming", ![x].call = "none"]
    /\ UNCHANGED <<linkVars, mode, loop, accepting, context, account, verified>>

\* a unit of the account is claimed and requested
Claimed(x) ==
    /\ acts[x].pc = "claiming" /\ Open(x)
    /\ IF Matches(acts[x].fence)
       THEN /\ Request(x, "samples")
            /\ UNCHANGED <<flows, runtimeVars>>
       ELSE Fail(x, "link_changed")
    /\ UNCHANGED <<link, reloading>>

\* nothing is due, or the cycle's budget is used up
CycleEnds(x) ==
    /\ acts[x].pc = "claiming" /\ Open(x)
    /\ loop' = IF acts[x].who = "loop" THEN "settling" ELSE loop
    /\ acts' = [acts EXCEPT ![x] = NoAct]
    /\ UNCHANGED <<linkVars, mode, accepting, due, context, account, verified>>

\* The recovery before the first cycle, or the count of the queue after each one
\* (_refresh_queue_health), returns; if it raises, async_run is over for good.
LoopSettles ==
    /\ loop = "settling"
    /\ loop' \in {"running", "over"}
    /\ UNCHANGED <<linkVars, mode, accepting, due, context, account, verified, acts>>

ContextAges ==
    /\ mode = "sync" /\ ~due
    /\ due' = TRUE
    /\ UNCHANGED <<linkVars, mode, loop, accepting, context, account, verified, acts>>

ArchiveDegrades ==
    /\ accepting
    /\ accepting' = FALSE
    /\ UNCHANGED <<linkVars, mode, loop, due, context, account, verified, acts>>

-----------------------------------------------------------------------------
(* Flows *)

FlowOpened(kind) ==
    /\ flows["reconfigure"] = NoFlow
    /\ kind \in IF Linked THEN {"reauth", "replace", "unlink"} ELSE {"link"}
    /\ flows' = [flows EXCEPT !["reconfigure"] = [NoFlow EXCEPT !.step = "offered",
                                                                !.kind = kind]]
    /\ UNCHANGED <<link, reloading, runtimeVars, acts>>

FlowClosed(f) ==
    /\ flows[f].step = "offered"
    /\ flows' = [flows EXCEPT ![f] = NoFlow]
    /\ UNCHANGED <<link, reloading, runtimeVars, acts>>

\* credentials are entered; a reauth remembers the subject they have to prove
CredentialsEntered(f, s) ==
    /\ flows[f].step = "offered" /\ flows[f].kind # "unlink"
    /\ flows' = [flows EXCEPT ![f] =
                    IF @.kind = "reauth" /\ ~Linked THEN NoFlow
                    ELSE [@ EXCEPT !.step = "validating", !.given = s,
                                   !.expected = IF flows[f].kind = "reauth"
                                                THEN link.subject ELSE None]]
    /\ UNCHANGED <<link, reloading, runtimeVars, acts>>

\* the credentials are refused, or prove the wrong subject: the form again
CredentialsRefused(f) ==
    /\ flows[f].step = "validating"
    /\ flows' = [flows EXCEPT ![f].step = "offered", ![f].expected = None, ![f].given = None]
    /\ UNCHANGED <<link, reloading, runtimeVars, acts>>

\* faulty variant: the entry is updated without a reload
RelinkQuietly(f, generation, subject) ==
    /\ generation <= MaxGeneration
    /\ link' = [generation |-> generation, subject |-> subject, token |-> subject]
    /\ flows' = [flows EXCEPT ![f] = NoFlow]
    /\ UNCHANGED <<reloading, runtimeVars, acts>>

\* _linked_data and async_update_reload_and_abort
Relink(f, generation, subject) ==
    /\ generation <= MaxGeneration
    /\ link' = [generation |-> generation, subject |-> subject, token |-> subject]
    /\ reloading' = TRUE
    /\ flows' = [flows EXCEPT ![f] = NoFlow]
    /\ UNCHANGED <<runtimeVars, acts>>

NextLinkGeneration == link.generation + 1

Max1(n) == IF n > 1 THEN n ELSE 1

\* the validated credentials become the link, and a reload is scheduled
CredentialsAccepted(f) ==
    /\ flows[f].step = "validating"
    /\ \/ /\ flows[f].kind = "reauth" /\ flows[f].given = flows[f].expected
          /\ Relink(f, Max1(link.generation), flows[f].given)
       \/ /\ flows[f].kind = "link" \/ (flows[f].kind = "replace" /\ flows[f].given # link.subject)
          /\ Relink(f, NextLinkGeneration, flows[f].given)

Unlink(f) ==
    /\ flows[f].step = "offered" /\ flows[f].kind = "unlink"
    /\ Relink(f, NextLinkGeneration, None)

\* the entry is reloaded for another reason, such as changed options
OptionsChanged ==
    /\ ~reloading
    /\ reloading' = TRUE
    /\ UNCHANGED <<link, flows, runtimeVars, acts>>

\* the owned task is cancelled, a sync_now of the old runtime is not
Reload ==
    /\ reloading
    /\ reloading' = FALSE
    /\ acts' = [current |-> NoAct,
                orphan |-> IF acts["current"].who = "sync_now" THEN acts["current"]
                           ELSE acts["orphan"]]
    /\ mode' \in IF Linked THEN {"check", "sync"} ELSE {"none"}
    /\ loop' = IF mode' = "sync" THEN "settling" ELSE "running"
    /\ accepting' = TRUE /\ due' = TRUE
    /\ context' = Unlinked /\ account' = None
    /\ verified' = 0
    /\ UNCHANGED <<link, flows>>

-----------------------------------------------------------------------------
Starts == \E who \in {"check", "loop", "sync_now"} :
             BeginWithClient(who) \/ BeginRefused(who)
Answers(x) == \/ TokenIssued(x) \/ TokenRefused(x)
              \/ Unauthorized(x) \/ CallFails(x) \/ CallAnswered(x)
Archive(x) == \/ ArchiveRefuses(x) \/ Registered(x) \/ Stored(x)
              \/ Claimed(x) \/ CycleEnds(x)
User == \/ \E kind \in FlowKinds : FlowOpened(kind)
        \/ \E f \in Flows : \/ FlowClosed(f) \/ CredentialsRefused(f)
                            \/ CredentialsAccepted(f) \/ Unlink(f)
                            \/ \E s \in Subjects : CredentialsEntered(f, s)
        \/ OptionsChanged

Next == \/ Starts \/ BeginWithContext
        \/ \E x \in Slots : Answers(x) \/ Archive(x)
        \/ CheckAnswered \/ LoopSettles
        \/ ContextAges \/ ArchiveDegrades
        \/ User \/ Reload

Spec == Init /\ [][Next]_vars

-----------------------------------------------------------------------------
(* Properties *)

TypeOK ==
    /\ link \in [generation : Generations, subject : Subjects \cup {None},
                 token : Subjects \cup {None}]
    /\ reloading \in BOOLEAN
    /\ flows \in [Flows -> Flow \cup {NoFlow}]
    /\ mode \in {"none", "check", "sync"}
    /\ loop \in {"running", "settling", "changed", "over"}
    /\ accepting \in BOOLEAN /\ due \in BOOLEAN
    /\ context \in Fence /\ account \in Subjects \cup {None}
    /\ verified \in Generations
    /\ acts \in [Slots -> Act \cup {NoAct}]

(* The refresh token in the entry is one of the linked account, whatever      *)
(* rotation of an older client arrives while the account is replaced.         *)
TokenIsOfLinkedAccount == link.token = link.subject

(* What is committed to an account's namespace was fetched as that account,   *)
(* over replacements, refused registrations and contexts kept from before.    *)
DataStaysInItsAccount ==
    acts["current"].pc = "storing" => account = acts["current"].fence.subject

(* A supervisor that stopped because its link changed is about to be          *)
(* replaced; it is not left stopped under the new link.                       *)
StoppedLoopIsReplaced == mode = "sync" /\ loop = "changed" => reloading

(* "A delayed old-generation token update is discarded and does not start     *)
(* reauth for a replacement account" (S2B_ACCOUNT_LINK.md:58): a rotation     *)
(* issued to a client of a replaced link leaves the flows as they are.        *)
StaleRotationIsQuiet ==
    [][\A x \in Slots :
          TokenIssued(x) /\ ~Matches(acts[x].fence) /\ Linked => flows' = flows]_vars

(* Entering credentials again never changes the account                       *)
(* (test_cloud_link_flow.py:160).                                             *)
ReauthKeepsAccount ==
    [][(\E f \in Flows : flows[f].kind = "reauth" /\ CredentialsAccepted(f))
         => link'.subject = link.subject]_vars
=============================================================================
