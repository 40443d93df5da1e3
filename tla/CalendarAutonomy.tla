--------------------------- MODULE CalendarAutonomy ---------------------------
(***************************************************************************)
(* Appointments asked for by mail: the cycle after each Gmail sync that     *)
(* enters them by itself in Autonomous mode (main_v173.py), the concierge    *)
(* that turns a mail into a proposal (calendar_concierge_v171.py), and the   *)
(* confirmation reply prepared after every such entry                       *)
(* (calendar_followup_v172.py, main_v172.py).                               *)
(*                                                                          *)
(* Two syncs of one mailbox may overlap, and the owner works on the same     *)
(* approvals.  `doing' holds each coroutine at the request it awaits; what   *)
(* it does between two awaits is one step.  The execution of an approval is  *)
(* the one of CalendarExecution, reduced to its conflict check, its write    *)
(* and its outcome; all proposals here are creates, and two times of `Times' *)
(* stand for intervals that do not overlap.                                  *)
(***************************************************************************)
EXTENDS Naturals, FiniteSets

CONSTANTS
  Mails,        \* mails that ask for an appointment, with date, time and reply expected
  Proposals,    \* ids of rows of calendar_approvals
  Drafts,       \* ids of rows of drafts
  Times,        \* when an appointment can be
  Coroutines,   \* syncs and HTTP requests under way
  Nothing       \* an absent value

ASSUME AutonomyAssumption == Nothing \notin Mails \cup Proposals \cup Times

VARIABLES
  appointment,  \* the one date and time a mail names, if it names one
  autonomous,   \* _autonomous_live: Autonomous, enabled and live
  proposals,    \* calendar_approvals
  noted,        \* calendar_autonomy_mail
  replies,      \* drafts
  doing,        \* the coroutines
  booked,       \* proposals whose event is in the calendar
  wire,         \* proposals whose event Google may still be about to make
  overlapped,   \* history: times two events of which were on their way at once
  contested,    \* history: mails two cycles had in hand at once or the owner instructed about
  raced         \* history: proposals with two replies in preparation at once

autonomyVars ==
  <<appointment, autonomous, proposals, noted, replies, doing, booked, wire, overlapped, contested,
    raced>>

-----------------------------------------------------------------------------
\* What is noted about a mail: nothing, that it is booked, or needs_attention with what
\* stood in the way (its category, a conflict, a failure, the owner's word) or with no
\* more than an answer.
Notes == {"no", "completed", "obstructed", "answered"}

\* A proposal is safe if it invites and notifies nobody.
Proposal ==
  [status: {"absent", "pending", "approved", "rejected"},
   execution: {"none", "executing", "failed", "completed"},
   mail: Mails \cup {Nothing}, time: Times \cup {Nothing}, safe: BOOLEAN]

\* A draft, closed when it was sent or discarded; `confirms' is the
\* calendar_source_approval_id of its metadata.
Reply ==
  [status: {"absent", "draft", "waiting", "closed"},
   mail: Mails \cup {Nothing}, confirms: Proposals \cup {Nothing}]

Resting == [step |-> "idle"]

Scanning == [step |-> "scan"]

\* `for' is what awaits the execution or the reply: the first or the second
\* half of a cycle, a request of the owner, or the retry of an execution; what an
\* instruction asks for is in `asked' and `named'.
Coroutine ==
  {Resting, Scanning}
  \cup [step: {"recheck"}, proposal: Proposals]
  \cup [step: {"assist"}, mail: Mails, for: {"mail", "owner"}, asked: BOOLEAN,
        named: Times \cup {Nothing}]
  \cup [step: {"verify", "write", "compose"}, proposal: Proposals,
        for: {"pending", "mail", "owner", "retry"}]

AutonomyTypeOK ==
  /\ appointment \in [Mails -> Times \cup {Nothing}]
  /\ autonomous \in BOOLEAN
  /\ proposals \in [Proposals -> Proposal]
  /\ noted \in [Mails -> Notes]
  /\ replies \in [Drafts -> Reply]
  /\ doing \in [Coroutines -> Coroutine]
  /\ booked \subseteq Proposals
  /\ wire \subseteq Proposals
  /\ overlapped \subseteq Times
  /\ contested \subseteq Mails
  /\ raced \subseteq Proposals

AutonomyInit ==
  /\ appointment \in [Mails -> Times \cup {Nothing}]
  /\ autonomous = FALSE
  /\ proposals = [a \in Proposals |->
                    [status |-> "absent", execution |-> "none", mail |-> Nothing, time |-> Nothing,
                     safe |-> FALSE]]
  /\ noted = [m \in Mails |-> "no"]
  /\ replies = [d \in Drafts |-> [status |-> "absent", mail |-> Nothing, confirms |-> Nothing]]
  /\ doing = [c \in Coroutines |-> Resting]
  /\ booked = {}
  /\ wire = {}
  /\ overlapped = {}
  /\ contested = {}
  /\ raced = {}
  
-----------------------------------------------------------------------------
ProposalsOf(m) == {a \in Proposals : proposals[a].mail = m}

\* conflicts_for_event: the time is taken, were it by the proposal's own event.
Occupied(t) == \E a \in booked : proposals[a].time = t

Goes(c, next) == doing' = [doing EXCEPT ![c] = next]

\* Where a coroutine goes on when what it waited for is done ...
Continues(for) == IF for \in {"pending", "mail"} THEN Scanning ELSE Resting

\* ... or raised: an exception in the first half ends the whole cycle.
Escapes(for) == IF for = "mail" THEN Scanning ELSE Resting

Note(m, status) == noted' = [noted EXCEPT ![m] = status]

\* approve: decided, claimed and under way in one step.
Claimed(a) == [proposals EXCEPT ![a].status = "approved", ![a].execution = "executing"]

-----------------------------------------------------------------------------
(* The cycle of _process_autonomous_calendar_mail.                          *)

CycleBegin(c) ==
  /\ doing[c] = Resting
  /\ autonomous
  /\ Goes(c, Scanning)
  /\ UNCHANGED <<appointment, autonomous, proposals, noted, replies,
                 booked, wire, overlapped, contested, raced>>

\* It is through, or a call to Google raised.
CycleEnd(c) ==
  /\ doing[c].step \in {"scan", "recheck"}
  /\ Goes(c, Resting)
  /\ UNCHANGED <<appointment, autonomous, proposals, noted, replies,
                 booked, wire, overlapped, contested, raced>>

\* _finish_pending_autonomous_creates: a safe pending proposal, whoever made
\* it, is checked for conflicts ...
PickPending(c, a) ==
  /\ doing[c] = Scanning
  /\ autonomous
  /\ proposals[a].status = "pending" /\ proposals[a].safe
  /\ Goes(c, [step |-> "recheck", proposal |-> a])
  /\ UNCHANGED <<appointment, autonomous, proposals, noted, replies,
                 booked, wire, overlapped, contested, raced>>

RecheckFinds(c) ==
  /\ doing[c].step = "recheck"
  /\ Occupied(proposals[doing[c].proposal].time)
  /\ Goes(c, Scanning)
  /\ UNCHANGED <<appointment, autonomous, proposals, noted, replies,
                 booked, wire, overlapped, contested, raced>>

\* ... and approved unless it was decided meanwhile.  The mode is not asked for
\* again.
FinishPending(c) ==
  LET a == doing[c].proposal IN
  /\ doing[c].step = "recheck"
  /\ ~Occupied(proposals[a].time)
  /\ proposals[a].status = "pending"
  /\ proposals' = Claimed(a)
  /\ Goes(c, [step |-> "verify", proposal |-> a, for |-> "pending"])
  /\ UNCHANGED <<appointment, autonomous, noted, replies,
                 booked, wire, overlapped, contested, raced>>

Unserved(m) == noted[m] = "no" /\ ProposalsOf(m) = {}

\* A cycle has the mail in hand.
Serves(c, m) == doing[c].step = "assist" /\ doing[c].for = "mail" /\ doing[c].mail = m

\* A mail that nothing was noted about and nobody proposed anything for.
PickMail(c, m) ==
  /\ doing[c] = Scanning
  /\ Unserved(m)
  /\ Goes(c, [step |-> "assist", mail |-> m, for |-> "mail", asked |-> FALSE, named |-> Nothing])
  /\ contested' = IF \E e \in Coroutines : Serves(e, m) THEN contested \cup {m} ELSE contested
  /\ UNCHANGED <<appointment, autonomous, proposals, noted, replies,
                 booked, wire, overlapped, raced>>

\* A mail of a category that is never served by itself; a new analysis may
\* change the category.
RefuseMail(c, m) ==
  /\ doing[c] = Scanning
  /\ Unserved(m)
  /\ Note(m, "obstructed")
  /\ UNCHANGED <<appointment, autonomous, proposals, replies, doing,
                 booked, wire, overlapped, contested, raced>>

-----------------------------------------------------------------------------
(* TargetedCalendarConcierge.assist.                                        *)

\* The owner asks about a mail; `asked' says whether the instruction has one of
\* the words of _CREATE_INTENT, `named' the date and time it names, if any.  That of
\* the cycle ("Trage ... ein") has neither.
OwnerAsks(c, m, asked, named) ==
  /\ doing[c] = Resting
  /\ Goes(c, [step |-> "assist", mail |-> m, for |-> "owner", asked |-> asked, named |-> named])
  /\ contested' = contested \cup {m}
  /\ UNCHANGED <<appointment, autonomous, proposals, noted, replies, booked, wire, overlapped, raced>>

\* _target_check: the owner's time goes before that of the mail.
TimeOf(q) == IF q.named # Nothing THEN q.named ELSE appointment[q.mail]

\* An exact time is only proposed if the instruction asks for it; otherwise
\* the model decides.
MayPropose(q) == TimeOf(q) # Nothing => q.asked

\* What is noted of a mail the cycle did not book.
Unbooked(c, why) ==
  LET q == doing[c] IN
  /\ IF q.for = "mail" THEN Note(q.mail, why) ELSE UNCHANGED noted
  /\ Goes(c, Continues(q.for))

\* An exact time is looked up and reported: kind "answer".
AssistAnswers(c) ==
  /\ doing[c].step = "assist"
  /\ ~MayPropose(doing[c])
  /\ Unbooked(c, "answered")
  /\ UNCHANGED <<appointment, autonomous, proposals, replies,
                 booked, wire, overlapped, contested, raced>>

\* The time is taken, the model sees no clear request, or a call raises.
AssistDeclines(c) ==
  /\ doing[c].step = "assist"
  /\ Unbooked(c, "obstructed")
  /\ UNCHANGED <<appointment, autonomous, proposals, replies,
                 booked, wire, overlapped, contested, raced>>

\* propose_checked found no conflict at the exact time, or at the one the model
\* chose, another one than before if it likes; a safe proposal is executed at once in
\* Autonomous mode (_propose_checked_v173), any other waits for the owner.
AssistProposes(c, a, t, safe) ==
  LET q == doing[c] IN
  /\ q.step = "assist"
  /\ MayPropose(q)
  /\ TimeOf(q) # Nothing => t = TimeOf(q)
  /\ ~Occupied(t)
  /\ proposals[a].status = "absent"
  /\ \/ /\ safe /\ autonomous
        /\ proposals' = [proposals EXCEPT ![a] =
             [status |-> "approved", execution |-> "executing", mail |-> q.mail, time |-> t,
              safe |-> TRUE]]
        /\ Goes(c, [step |-> "verify", proposal |-> a, for |-> q.for])
        /\ UNCHANGED noted
     \/ /\ ~(safe /\ autonomous)
        /\ proposals' = [proposals EXCEPT ![a] =
             [status |-> "pending", execution |-> "none", mail |-> q.mail, time |-> t,
              safe |-> safe]]
        /\ Unbooked(c, "obstructed")
  /\ UNCHANGED <<appointment, autonomous, replies,
                 booked, wire, overlapped, contested, raced>>

-----------------------------------------------------------------------------
(* The execution and the confirmation reply.                                *)

OwnerApproves(c, a) ==
  /\ doing[c] = Resting
  /\ proposals[a].status = "pending"
  /\ proposals' = Claimed(a)
  /\ Goes(c, [step |-> "verify", proposal |-> a, for |-> "owner"])
  /\ UNCHANGED <<appointment, autonomous, noted, replies,
                 booked, wire, overlapped, contested, raced>>

OwnerRejects(a) ==
  /\ proposals[a].status = "pending"
  /\ proposals' = [proposals EXCEPT ![a].status = "rejected"]
  /\ UNCHANGED <<appointment, autonomous, noted, replies, doing,
                 booked, wire, overlapped, contested, raced>>

\* POST /v1/calendar/approvals/{id}/execute: no reply is prepared after it.
OwnerRetries(c, a) ==
  /\ doing[c] = Resting
  /\ proposals[a].execution = "failed"
  /\ proposals' = [proposals EXCEPT ![a].execution = "executing"]
  /\ Goes(c, [step |-> "verify", proposal |-> a, for |-> "retry"])
  /\ UNCHANGED <<appointment, autonomous, noted, replies,
                 booked, wire, overlapped, contested, raced>>

NeverOccupied(t) == FALSE

\* The execution looks for conflicts again.
Taken(t) == Occupied(t)

Fails(c) ==
  LET q == doing[c]
      m == proposals[q.proposal].mail IN
  /\ proposals' = [proposals EXCEPT ![q.proposal].execution = "failed"]
  /\ IF q.for = "mail" THEN Note(m, "obstructed") ELSE UNCHANGED noted
  /\ Goes(c, Escapes(q.for))

VerifyFinds(c) ==
  /\ doing[c].step = "verify"
  /\ Taken(proposals[doing[c].proposal].time)
  /\ Fails(c)
  /\ UNCHANGED <<appointment, autonomous, replies,
                 booked, wire, overlapped, contested, raced>>

\* The request to make the event leaves for Google.
VerifyPasses(c) ==
  LET a == doing[c].proposal
      t == proposals[a].time IN
  /\ doing[c].step = "verify"
  /\ ~Taken(t)
  /\ Goes(c, [doing[c] EXCEPT !.step = "write"])
  /\ wire' = wire \cup {a}
  /\ overlapped' = IF \E b \in wire \ {a} : proposals[b].time = t
                   THEN overlapped \cup {t} ELSE overlapped
  /\ UNCHANGED <<appointment, autonomous, proposals, noted, replies, booked, contested,
                 raced>>

\* Google makes the event, also after its request was given up ...
Arrives(a) ==
  /\ a \in wire
  /\ wire' = wire \ {a}
  /\ booked' = booked \cup {a}
  /\ UNCHANGED <<appointment, autonomous, proposals, noted, replies, doing, overlapped, contested, raced>>

\* ... or never gets the request, or refuses it.
Lost(a) ==
  /\ a \in wire
  /\ wire' = wire \ {a}
  /\ UNCHANGED <<appointment, autonomous, proposals, noted, replies, doing, booked, overlapped,
                 contested, raced>>

\* A request fails, whatever becomes of it at Google.
WriteFails(c) ==
  /\ doing[c].step \in {"verify", "write"}
  /\ Fails(c)
  /\ UNCHANGED <<appointment, autonomous, replies, booked, wire, overlapped, contested,
                 raced>>

Confirmations(a) == {d \in Drafts : replies[d].confirms = a}

NoneExisting(a) == {}

\* _existing_followup_draft, discarded ones included.
Existing(a) == Confirmations(a)

\* _discard_superseded_source_drafts: the other open drafts about the mail.
WithoutSuperseded(m) ==
  [d \in Drafts |->
     IF replies[d].mail = m /\ replies[d].confirms = Nothing
        /\ replies[d].status \in {"draft", "waiting"}
     THEN [replies[d] EXCEPT !.status = "closed"] ELSE replies[d]]

\* A draft that a death left without its approval is submitted now.
Resubmitted(a) ==
  [d \in Drafts |->
     IF d \in Existing(a) /\ replies[d].status = "draft"
     THEN [replies[d] EXCEPT !.status = "waiting"] ELSE replies[d]]

\* prepare_calendar_confirmation_followup up to the request to the model.
Prepare(c, a, for) ==
  \/ /\ Existing(a) # {}
     /\ replies' = Resubmitted(a)
     /\ Goes(c, Continues(for))
     /\ UNCHANGED raced
  \/ /\ Existing(a) = {}
     /\ replies' = WithoutSuperseded(proposals[a].mail)
     /\ Goes(c, [step |-> "compose", proposal |-> a, for |-> for])
     /\ raced' = IF \E e \in Coroutines : doing[e].step = "compose" /\ doing[e].proposal = a
                 THEN raced \cup {a} ELSE raced

\* Google's answer says that the event is made; it is recorded and approve
\* (main_v172) goes on to the reply.
WriteSucceeds(c) ==
  LET q == doing[c]
      a == q.proposal IN
  /\ q.step = "write"
  /\ a \in booked
  /\ proposals' = [proposals EXCEPT ![a].execution = "completed"]
  /\ IF q.for \in {"pending", "mail"} THEN Note(proposals[a].mail, "completed") ELSE UNCHANGED noted
  /\ \/ q.for # "retry" /\ Prepare(c, a, q.for)
     \/ q.for = "retry" /\ Goes(c, Resting) /\ UNCHANGED <<replies, raced>>
  /\ UNCHANGED <<appointment, autonomous, booked, wire, overlapped, contested>>

\* POST /v1/calendar/approvals/{id}/prepare-mail-reply.
PrepareReply(c, a) ==
  /\ doing[c] = Resting
  /\ proposals[a].execution = "completed"
  /\ Prepare(c, a, "owner")
  /\ UNCHANGED <<appointment, autonomous, proposals, noted,
                 booked, wire, overlapped, contested>>

\* The text has come, or the fallback is used: draft, then approval.
ComposeEnd(c, d) ==
  LET q == doing[c] IN
  /\ q.step = "compose"
  /\ replies[d].status = "absent"
  /\ replies' = [replies EXCEPT ![d] = [status |-> "waiting", mail |-> proposals[q.proposal].mail,
                                        confirms |-> q.proposal]]
  /\ Goes(c, Continues(q.for))
  /\ UNCHANGED <<appointment, autonomous, proposals, noted,
                 booked, wire, overlapped, contested, raced>>

\* The policy refuses the reply or the draft cannot be stored; the entry stands.
ComposeFails(c) ==
  /\ doing[c].step = "compose"
  /\ Goes(c, Continues(doing[c].for))
  /\ UNCHANGED <<appointment, autonomous, proposals, noted, replies,
                 booked, wire, overlapped, contested, raced>>

-----------------------------------------------------------------------------
(* The owner, the mail agent and the process.                               *)

SwitchMode ==
  /\ autonomous' = ~autonomous
  /\ UNCHANGED <<appointment, proposals, noted, replies, doing,
                 booked, wire, overlapped, contested, raced>>

\* The ordinary analysis prepares a preliminary reply.
AgentDrafts(d, m) ==
  /\ replies[d].status = "absent"
  /\ replies' = [replies EXCEPT ![d] = [status |-> "draft", mail |-> m, confirms |-> Nothing]]
  /\ UNCHANGED <<appointment, autonomous, proposals, noted, doing,
                 booked, wire, overlapped, contested, raced>>

\* The owner submits, sends or discards a draft.
OwnerHandles(d) ==
  /\ \/ /\ replies[d].status = "draft"
        /\ replies' = [replies EXCEPT ![d].status = "waiting"]
     \/ /\ replies[d].status \in {"draft", "waiting"}
        /\ replies' = [replies EXCEPT ![d].status = "closed"]
  /\ UNCHANGED <<appointment, autonomous, proposals, noted, doing,
                 booked, wire, overlapped, contested, raced>>

\* The process dies; the next start makes interrupted executions retryable.
Recover ==
  /\ proposals' = [a \in Proposals |->
       IF proposals[a].execution = "executing" THEN [proposals[a] EXCEPT !.execution = "failed"]
       ELSE proposals[a]]
  /\ doing' = [c \in Coroutines |-> Resting]

DieAtRest ==
  /\ Recover
  /\ UNCHANGED <<appointment, autonomous, noted, replies,
                 booked, wire, overlapped, contested, raced>>

\* The draft was stored and not yet submitted.
DieInReply(c, d) ==
  LET a == doing[c].proposal IN
  /\ doing[c].step = "compose"
  /\ replies[d].status = "absent"
  /\ replies' = [replies EXCEPT ![d] =
                   [status |-> "draft", mail |-> proposals[a].mail, confirms |-> a]]
  /\ Recover
  /\ UNCHANGED <<appointment, autonomous, noted,
                 booked, wire, overlapped, contested, raced>>

-----------------------------------------------------------------------------
CycleStep(c) ==
  \/ CycleBegin(c) \/ CycleEnd(c) \/ RecheckFinds(c) \/ FinishPending(c)
  \/ \E a \in Proposals : PickPending(c, a)
  \/ \E m \in Mails : PickMail(c, m) \/ RefuseMail(c, m)

AssistStep(c) ==
  \/ AssistAnswers(c) \/ AssistDeclines(c)
  \/ \E a \in Proposals, t \in Times, safe \in BOOLEAN : AssistProposes(c, a, t, safe)

ExecutionStep(c) ==
  \/ VerifyFinds(c) \/ VerifyPasses(c) \/ WriteFails(c) \/ WriteSucceeds(c)
  \/ ComposeFails(c)
  \/ \E d \in Drafts : ComposeEnd(c, d)

OwnerStep(c) ==
  \/ \E m \in Mails, asked \in BOOLEAN, named \in Times \cup {Nothing} :
       OwnerAsks(c, m, asked, named)
  \/ \E a \in Proposals : OwnerApproves(c, a) \/ OwnerRetries(c, a) \/ PrepareReply(c, a)

AutonomyNext ==
  \/ \E c \in Coroutines : CycleStep(c) \/ AssistStep(c) \/ ExecutionStep(c) \/ OwnerStep(c)
  \/ \E a \in Proposals : OwnerRejects(a) \/ Arrives(a) \/ Lost(a)
  \/ SwitchMode
  \/ \E d \in Drafts, m \in Mails : AgentDrafts(d, m)
  \/ \E d \in Drafts : OwnerHandles(d)
  \/ DieAtRest
  \/ \E c \in Coroutines, d \in Drafts : DieInReply(c, d)

AutonomySpec == AutonomyInit /\ [][AutonomyNext]_autonomyVars

-----------------------------------------------------------------------------
\* However many syncs, requests and retries are at work and whatever they give up
\* on, a time is booked once, unless two requests to Google for it were on their way
\* together (calendar_reliable.py execute); and a mail is booked once, at whatever
\* times it was analysed to mean, unless the owner gave instructions about it or two
\* cycles had it in hand together (main_v173.py _process_autonomous_calendar_mail).
BookedOnce ==
  /\ \A a, b \in booked :
       a # b /\ proposals[a].time = proposals[b].time => proposals[a].time \in overlapped
  /\ \A a, b \in booked :
       a # b /\ proposals[a].mail = proposals[b].mail => proposals[a].mail \in contested

\* An entry is confirmed to the sender by one reply, after any retry or death,
\* unless two preparations were waiting for the model at the same time.
ConfirmedOnceUnlessRaced ==
  \A a \in Proposals : Cardinality(Confirmations(a)) > 1 => a \in raced

\* "a retry or interrupted HTTP response never creates duplicate confirmation
\* drafts" (calendar_followup_v172.py _existing_followup_draft).
ConfirmedOnce == \A a \in Proposals : Cardinality(Confirmations(a)) <= 1

\* "Trage den konkret angefragten Termin aus dieser Mail ein, wenn Datum und
\* Uhrzeit eindeutig sind und der Zeitraum frei ist": a mail with one clear date
\* and time is left to the owner only if something stood in the way
\* (main_v173.py _process_autonomous_calendar_mail).
ClearMailIsBooked ==
  \A m \in Mails :
    appointment[m] # Nothing => noted[m] # "answered"
=============================================================================
