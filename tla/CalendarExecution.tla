-------------------------- MODULE CalendarExecution --------------------------
(***************************************************************************)
(* Calendar changes behind the owner's approval: the rows of calendar.db    *)
(* (calendar_service.py), their execution against Google Calendar           *)
(* (calendar_reliable.py) and the owner's other clients, which change the   *)
(* same events meanwhile.                                                   *)
(*                                                                          *)
(* An execution is a coroutine that suspends at every request to Google, so *)
(* the state it read may be old when it writes, and a request it gave up on *)
(* may still be carried out.  `run' holds each coroutine at the request it  *)
(* awaits; reads are answered in one step, writes travel on `wire'.         *)
(***************************************************************************)
EXTENDS Naturals

CONSTANTS
  Approvals,    \* approval ids; an approved create uses its own as event id
  Events,       \* ids of the events made by the owner's other clients
  Bodies,       \* what the payload of an event says, its interval included
  Overlap,      \* the pairs of bodies whose intervals overlap
  Calls,        \* HTTP requests that may be executing an approval
  None,         \* no event, no body, no coroutine
  MaxAttempts,  \* bound on the executions of one approval
  MaxEtag       \* bound on the versions other clients bring an event to

ASSUME CalendarAssumption ==
  /\ Approvals \cap Events = {}
  /\ None \notin Approvals \cup Events \cup Bodies
  /\ Overlap \subseteq Bodies \X Bodies
  /\ \A b \in Bodies : <<b, b>> \in Overlap
  /\ MaxAttempts \in Nat \ {0}
  /\ MaxEtag \in Nat \ {0}

VARIABLES
  up,           \* the gateway process is alive
  approvals,    \* table calendar_approvals
  run,          \* the coroutine of each execution, at the request it awaits
  wire,         \* writes Google has not yet answered
  applied,      \* history: writes Google carried out
  refused,      \* writes Google answered with 409 or 412
  calendar      \* the events at Google

google == <<applied, refused, calendar>>
vars == <<up, approvals, run, wire, applied, refused, calendar>>

-----------------------------------------------------------------------------
Ids == Approvals \cup Events

\* A proposal as the owner sees it.  event is the id of an update or delete,
\* etag the version it was prepared on.
Proposal ==
  [action: {"create", "update", "delete"}, event: Events \cup {None},
   body: Bodies \cup {None}, etag: Nat, allowConflict: BOOLEAN]

Approval ==
  [status: {"absent", "pending", "approved", "rejected"},
   proposal: Proposal \cup {None},
   execution: {"not_applicable", "ready", "executing", "failed", "completed"},
   error: {"none", "conflict", "changed", "other"},
   attempt: 0..MaxAttempts]

\* match is the version its If-Match header names, the one read just before.
Write == [approval: Approvals, content: Proposal, match: Nat, attempt: 1..MaxAttempts]

Run == [approval: Approvals, step: {"list", "get", "write", "collision"}]

ASSUME NoneIsNoRun == None \notin Run

Event == [state: {"absent", "confirmed", "cancelled"}, body: Bodies \cup {None}, etag: Nat]

NoApproval ==
  [status |-> "absent", proposal |-> None, execution |-> "not_applicable",
   error |-> "none", attempt |-> 0]

NoEvent == [state |-> "absent", body |-> None, etag |-> 0]

TypeOK ==
  /\ up \in BOOLEAN
  /\ approvals \in [Approvals -> Approval]
  /\ run \in [Calls -> Run \cup {None}]
  /\ wire \subseteq Write
  /\ applied \subseteq Write
  /\ refused \subseteq Write
  /\ calendar \in [Ids -> Event]

Init ==
  /\ up = TRUE
  /\ approvals = [a \in Approvals |-> NoApproval]
  /\ run = [r \in Calls |-> None]
  /\ wire = {}
  /\ applied = {}
  /\ refused = {}
  /\ calendar = [i \in Ids |-> NoEvent]

-----------------------------------------------------------------------------
Present(i) == calendar[i].state = "confirmed"

\* What get_event can return: Google keeps a deleted event, as cancelled.  A read
\* of a cancelled event may also be answered with 404, so ~Present(i) is where a
\* reader may be told `not found'.
Shown(i) == calendar[i].state # "absent"

\* conflicts_for_event: the other events list_events returns for the interval,
\* the only reader that looks at an event's status.
Conflicts(body, excluded) ==
  {i \in Ids \ {excluded} : Present(i) /\ <<calendar[i].body, body>> \in Overlap}

\* The event an approval is about; _remote_create_id for a create.
Target(a) ==
  IF approvals[a].proposal.action = "create" THEN a ELSE approvals[a].proposal.event

\* _event_matches_draft, which a cancelled event can pass as well; what stands at
\* the id of a create was made for it.
Matches(a) == Shown(Target(a)) /\ calendar[Target(a)].body = approvals[a].proposal.body

ProposedRow(p) ==
  [status |-> "pending", proposal |-> p, execution |-> "not_applicable",
   error |-> "none", attempt |-> 0]

RejectedRow(row) == [row EXCEPT !.status = "rejected"]

ApprovedRow(row) == [row EXCEPT !.status = "approved", !.execution = "ready"]

Settled(row, execution, error) ==
  [row EXCEPT !.execution = execution, !.error = error]

Begun(row) == [Settled(row, "executing", "none") EXCEPT !.attempt = row.attempt + 1]

\* propose_checked: validated against the calendar, then enqueued.  Every field
\* but the etag comes from the request; _current_event may return a cancelled event.
Propose(a, p) ==
  /\ up
  /\ approvals[a].status = "absent"
  /\ p.action # "create" => Shown(p.event) /\ p.etag = calendar[p.event].etag
  /\ p.action # "delete" => p.allowConflict \/ Conflicts(p.body, p.event) = {}
  /\ approvals' = [approvals EXCEPT ![a] = ProposedRow(p)]
  /\ UNCHANGED <<up, run, wire, google>>

Reject(a) ==
  /\ up
  /\ approvals[a].status = "pending"
  /\ approvals' = [approvals EXCEPT ![a] = RejectedRow(@)]
  /\ UNCHANGED <<up, run, wire, google>>

ClaimableUndecided(row) ==
  row.status # "absent" /\ row.execution \in {"not_applicable", "ready", "failed"}

ClaimableTwice(row) ==
  row.status = "approved" /\ row.execution \in {"ready", "failed", "executing"}

\* claim, for an approval that is not already completed.
Claimable(row) == row.status = "approved" /\ row.execution \in {"ready", "failed"}

\* execute, up to its first request to Google.
Begin(r, a, row) ==
  /\ run[r] = None
  /\ Claimable(row)
  /\ row.attempt < MaxAttempts
  /\ approvals' = [approvals EXCEPT ![a] = Begun(row)]
  /\ run' = [run EXCEPT ![r] =
               [approval |-> a,
                step |-> IF row.proposal.action = "delete" THEN "get" ELSE "list"]]
  /\ UNCHANGED <<up, wire, google>>

\* decide("approved"); execute follows in the same turn of the event loop,
\* unless the process dies between the two transactions.
Approve(a) ==
  /\ up
  /\ approvals[a].status = "pending"
  /\ \/ \E r \in Calls : Begin(r, a, ApprovedRow(approvals[a]))
     \/ /\ approvals' = [approvals EXCEPT ![a] = ApprovedRow(@)]
        /\ up' = FALSE
        /\ run' = [r \in Calls |-> None]
        /\ UNCHANGED <<wire, google>>

\* POST .../execute: the owner tries again.
Execute(r, a) == up /\ Begin(r, a, approvals[a])

-----------------------------------------------------------------------------
(* The coroutine of one execution.                                          *)

At(r, step) == up /\ run[r] # None /\ run[r].step = step

Goto(r, step) ==
  /\ run' = [run EXCEPT ![r].step = step]
  /\ UNCHANGED <<up, approvals, wire, google>>

\* store.complete or store.fail, and the coroutine is over.
Finish(r, execution, error) ==
  LET a == run[r].approval IN
  /\ approvals[a].execution = "executing"
  /\ approvals' = [approvals EXCEPT ![a] = Settled(@, execution, error)]
  /\ run' = [run EXCEPT ![r] = None]
  /\ UNCHANGED <<up, wire, google>>

\* The conflict check of a create or an update is repeated.
Listed(r) ==
  LET p == approvals[run[r].approval].proposal IN
  /\ At(r, "list")
  /\ \/ /\ p.allowConflict \/ Conflicts(p.body, p.event) = {}
        /\ Goto(r, "get")
     \/ /\ ~p.allowConflict
        /\ Conflicts(p.body, p.event) # {}
        /\ Finish(r, "failed", "conflict")

\* With no comparison of the event read with the version that was approved.
UnchangedUnchecked(a) == TRUE

\* The event is still the version the proposal was prepared on.
Unchanged(a) == calendar[Target(a)].etag = approvals[a].proposal.etag

\* The write of this attempt leaves for Google, with If-Match the version just
\* read for an update or a delete.
Send(r) ==
  LET a == run[r].approval IN
  /\ wire' = wire \cup {[approval |-> a, content |-> approvals[a].proposal,
                         match |-> calendar[Target(a)].etag,
                         attempt |-> approvals[a].attempt]}
  /\ run' = [run EXCEPT ![r].step = "write"]
  /\ UNCHANGED <<up, approvals, google>>

\* get_event before a create: an event made by an earlier attempt is taken over,
\* also one that was deleted since, unless Google says it is not found.
GotForCreate(r) ==
  LET a == run[r].approval IN
  /\ At(r, "get")
  /\ approvals[a].proposal.action = "create"
  /\ \/ ~Present(a) /\ Send(r)
     \/ Matches(a) /\ Finish(r, "completed", "none")
     \/ Shown(a) /\ ~Matches(a) /\ Finish(r, "failed", "other")

\* get_event before an update.
GotForUpdate(r) ==
  LET a == run[r].approval IN
  /\ At(r, "get")
  /\ approvals[a].proposal.action = "update"
  /\ \/ ~Present(Target(a)) /\ Finish(r, "failed", "other")
     \/ Shown(Target(a)) /\ Unchanged(a) /\ Send(r)
     \/ ~Unchanged(a) /\ Matches(a) /\ Finish(r, "completed", "none")
     \/ Shown(Target(a)) /\ ~Unchanged(a) /\ ~Matches(a) /\ Finish(r, "failed", "changed")

\* get_event before a delete.  A cancelled event that is returned has a version
\* of its own, so a delete that was carried out already is refused as changed.
GotForDelete(r) ==
  LET a == run[r].approval IN
  /\ At(r, "get")
  /\ approvals[a].proposal.action = "delete"
  /\ \/ ~Present(Target(a)) /\ Finish(r, "completed", "none")
     \/ Shown(Target(a)) /\ Unchanged(a) /\ Send(r)
     \/ Shown(Target(a)) /\ ~Unchanged(a) /\ Finish(r, "failed", "changed")

\* The write a coroutine is waiting for.
Sent(r, w) ==
  LET a == run[r].approval IN w.approval = a /\ w.attempt = approvals[a].attempt

WriteAnswered(r) ==
  /\ At(r, "write")
  /\ \/ /\ \E w \in applied : Sent(r, w)
        /\ Finish(r, "completed", "none")
     \/ \E w \in refused :
          /\ Sent(r, w)
          /\ \/ w.content.action = "create" /\ Goto(r, "collision")
             \/ w.content.action # "create" /\ Finish(r, "failed", "other")

\* get_event after a create was answered with 409.
Collided(r) ==
  LET a == run[r].approval IN
  /\ At(r, "collision")
  /\ \/ Matches(a) /\ Finish(r, "completed", "none")
     \/ ~(Present(a) /\ Matches(a)) /\ Finish(r, "failed", "other")

\* Any exception at any request: no token, an error response, a timeout or a
\* broken connection, also after Google has carried the write out.
CallFails(r) == up /\ run[r] # None /\ Finish(r, "failed", "other")

-----------------------------------------------------------------------------
(* Google Calendar and the owner's other clients.                           *)

Creates(w) == w.content.action = "create"

EventOf(w) == IF Creates(w) THEN w.approval ELSE w.content.event

\* With a new event id for every attempt.
AdmittedUnderAnyId(w) ==
  \/ Creates(w)
  \/ ~Creates(w) /\ Present(EventOf(w)) /\ calendar[EventOf(w)].etag = w.match

\* An insert is admitted under an id never used before, a change of an event
\* only at the version its If-Match header names; what is deleted cannot be
\* deleted again.
Admitted(w) ==
  \/ Creates(w) /\ calendar[EventOf(w)].state = "absent"
  \/ /\ ~Creates(w)
     /\ Shown(EventOf(w))
     /\ calendar[EventOf(w)].etag = w.match
     /\ w.content.action = "delete" => Present(EventOf(w))

\* An update of a deleted event may be carried out, which leaves it deleted, or refused.
Refusable(w) == ~Admitted(w) \/ (~Creates(w) /\ ~Present(EventOf(w)))

After(w) ==
  [calendar EXCEPT ![EventOf(w)] =
     [state |-> IF w.content.action = "delete" THEN "cancelled"
                ELSE IF Creates(w) THEN "confirmed" ELSE @.state,
      body |-> IF w.content.action = "delete" THEN @.body ELSE w.content.body,
      etag |-> @.etag + 1]]

GoogleApplies(w) ==
  /\ w \in wire
  /\ Admitted(w)
  /\ wire' = wire \ {w}
  /\ applied' = applied \cup {w}
  /\ calendar' = After(w)
  /\ UNCHANGED <<up, approvals, run, refused>>

GoogleRefuses(w) ==
  /\ w \in wire
  /\ Refusable(w)
  /\ wire' = wire \ {w}
  /\ refused' = refused \cup {w}
  /\ UNCHANGED <<up, approvals, run, applied, calendar>>

\* The request never arrives.
Lost(w) ==
  /\ w \in wire
  /\ wire' = wire \ {w}
  /\ UNCHANGED <<up, approvals, run, google>>

\* Another client makes, changes, restores or deletes an event, also one of ours.
OwnerEdits(i, b) ==
  /\ i \in Events \/ Shown(i)
  /\ calendar[i].etag < MaxEtag
  /\ calendar' = [calendar EXCEPT ![i] =
                    [state |-> "confirmed", body |-> b, etag |-> @.etag + 1]]
  /\ UNCHANGED <<up, approvals, run, wire, applied, refused>>

OwnerDeletes(i) ==
  /\ Present(i)
  /\ calendar[i].etag < MaxEtag
  /\ calendar' = [calendar EXCEPT ![i].state = "cancelled", ![i].etag = @ + 1]
  /\ UNCHANGED <<up, approvals, run, wire, applied, refused>>

-----------------------------------------------------------------------------
Crash ==
  /\ up
  /\ up' = FALSE
  /\ run' = [r \in Calls |-> None]
  /\ UNCHANGED <<approvals, wire, google>>

RecoveredAsUncertain(row) ==
  IF row.execution = "executing" THEN Settled(row, "uncertain", "other") ELSE row

RecoveredAsCompleted(row) ==
  IF row.execution = "executing" THEN Settled(row, "completed", "none") ELSE row

NotRecovered(row) == row

\* recover_stale_executions, run when the module is loaded.
AfterRecovery(row) ==
  IF row.execution = "executing" THEN Settled(row, "failed", "other") ELSE row

Restart ==
  /\ ~up
  /\ up' = TRUE
  /\ approvals' = [a \in Approvals |-> AfterRecovery(approvals[a])]
  /\ UNCHANGED <<run, wire, google>>

-----------------------------------------------------------------------------
\* The proposals a request can make; nothing reads allowConflict of a delete.
Proposals ==
  {p \in [action: {"create", "update", "delete"}, event: Events \cup {None},
          body: Bodies \cup {None}, etag: 0..(MaxEtag + 1), allowConflict: BOOLEAN] :
     /\ p.action = "create" <=> p.event = None
     /\ p.action = "create" => p.etag = 0
     /\ p.action = "delete" <=> p.body = None
     /\ p.action = "delete" => ~p.allowConflict}

OwnerStep ==
  \/ \E a \in Approvals, p \in Proposals : Propose(a, p)
  \/ \E a \in Approvals : Approve(a) \/ Reject(a)
  \/ \E r \in Calls, a \in Approvals : Execute(r, a)

RunStep(r) ==
  \/ Listed(r)
  \/ GotForCreate(r)
  \/ GotForUpdate(r)
  \/ GotForDelete(r)
  \/ WriteAnswered(r)
  \/ Collided(r)
  \/ CallFails(r)

GoogleStep ==
  \/ \E w \in wire : GoogleApplies(w) \/ GoogleRefuses(w) \/ Lost(w)
  \/ \E i \in Ids, b \in Bodies : OwnerEdits(i, b)
  \/ \E i \in Ids : OwnerDeletes(i)

Next ==
  \/ OwnerStep
  \/ \E r \in Calls : RunStep(r)
  \/ GoogleStep
  \/ Crash
  \/ Restart

Spec == Init /\ [][Next]_vars

\* Every request to Google ends, by an answer or by the client's timeout of 25
\* seconds, and a gateway that died is started again.
Fairness ==
  /\ \A r \in Calls : WF_vars(RunStep(r))
  /\ WF_vars(Restart)

FairSpec == Spec /\ Fairness

-----------------------------------------------------------------------------
(* Safety.                                                                  *)

\* However often an approved change is retried, after lost answers, timeouts,
\* crashes and late requests, Google carries it out at most once
\* (calendar_reliable.py: a retry cannot silently duplicate a mutation).
AppliedOnce ==
  \A v, w \in applied : v.approval = w.approval => v = w

\* Nothing reached the calendar but a proposal the owner approved, unchanged.
OnlyApprovedApplied ==
  \A w \in wire \cup applied :
    /\ approvals[w.approval].status = "approved"
    /\ approvals[w.approval].proposal = w.content

\* A live gateway has one coroutine for each executing approval and no other.
ExecutingHasOneRun ==
  up => \A a \in Approvals :
    LET running == {r \in Calls : run[r] # None /\ run[r].approval = a}
    IN /\ approvals[a].execution = "executing" <=> running # {}
       /\ \A r, s \in running : r = s

\* A write changes the version of an event the proposal was prepared on, never
\* a newer one (docs/ARCHITECTURE.md, update/delete reliability): the version is
\* compared with the one read, and the one read with the one Google has.
NoLostUpdate ==
  [][\A w \in applied' \ applied :
       w.content.action # "create" => calendar[w.content.event].etag = w.content.etag]_vars

\* What `completed' means: an own write was carried out, or Google has the event
\* with the content of the update, or did not find the event to delete.  It does
\* not mean that a created or updated event is still in the calendar.
WasDone(a) ==
  LET action == approvals[a].proposal.action IN
  \/ \E w \in applied : w.approval = a
  \/ action = "update" /\ Matches(a)
  \/ action = "delete" /\ ~Present(Target(a))

\* No answer, no failure and no recovery records as completed what was not done:
\* what is found at the id of a create is there because of its own write.
CompletedIsTrue ==
  [][\A a \in Approvals :
       approvals'[a].execution = "completed" /\ approvals[a].execution # "completed" =>
         WasDone(a)]_vars

\* A delete that was carried out is not refused because of its own effect
\* (docs/ARCHITECTURE.md, update/delete reliability: a retry that finds the event
\* missing reconciles success).  It does not hold: the retry looks for a 404, and
\* a deleted event may be returned, cancelled and with a new version.
DeleteIsReconciled ==
  [][\A a \in Approvals :
       /\ approvals[a].proposal # None
       /\ approvals[a].proposal.action = "delete"
       /\ approvals'[a].error = "changed"
       /\ approvals[a].error # "changed"
         => \A w \in applied : w.approval # a]_vars

\* An approval refused for a conflict conflicts with some other event.
ConflictIsForeign ==
  [][\A a \in Approvals :
       approvals'[a].error = "conflict" /\ approvals[a].error # "conflict" =>
         Conflicts(approvals[a].proposal.body, Target(a)) # {}]_vars

\* No execution stays in progress for ever.
ExecutionSettles ==
  \A a \in Approvals :
    approvals[a].execution = "executing" ~> approvals[a].execution # "executing"

EffectOf(w) == [approval |-> w.approval, content |-> w.content, attempt |-> w.attempt]

\* The approval boundary, with the calendar's writes as effects.
Gate == INSTANCE ApprovalGate WITH
          Contents <- Proposals,
          decision <- [a \in Approvals |-> approvals[a].status],
          text <- [a \in Approvals |-> approvals[a].proposal],
          effects <- {EffectOf(w) : w \in applied}

ImplementsGate == Gate!Spec
=============================================================================
