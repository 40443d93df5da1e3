--------------------------- MODULE CalendarProofs ---------------------------
(***************************************************************************)
(* Theorems about CalendarExecution, for every set of approvals, events,    *)
(* payloads and concurrent calls and every number of attempts.              *)
(***************************************************************************)
EXTENDS CalendarExecution, TLAPS

\* A proposal that was enqueued: a change of an event names one.
WellFormed(p) == p \in Proposal /\ (p.action # "create" => p.event \in Events)

RowsOK ==
  \A a \in Approvals : approvals[a].status # "absent" => WellFormed(approvals[a].proposal)

\* A coroutine runs for an approval that was granted and whose attempts it counts.
RunsOK ==
  \A r \in Calls : run[r] # None =>
    /\ approvals[run[r].approval].status = "approved"
    /\ approvals[run[r].approval].attempt \in 1..MaxAttempts

Typed == TypeOK /\ RowsOK /\ RunsOK

-----------------------------------------------------------------------------
(* Rows: what each update of a row leaves and changes.                      *)

LEMMA RowTypes ==
  ASSUME NEW row \in Approval
  PROVE  /\ row.status \in {"absent", "pending", "approved", "rejected"}
         /\ row.execution \in {"not_applicable", "ready", "executing", "failed", "completed"}
         /\ row.attempt \in 0..MaxAttempts
         /\ row.proposal \in Proposal \cup {None}
  BY DEF Approval

LEMMA ProposedRowType ==
  ASSUME NEW p \in Proposal
  PROVE  /\ ProposedRow(p) \in Approval
         /\ ProposedRow(p).status = "pending"
         /\ ProposedRow(p).proposal = p
  BY CalendarAssumption DEF ProposedRow, Approval

LEMMA DecidedRowType ==
  ASSUME NEW row \in Approval
  PROVE  /\ RejectedRow(row) \in Approval
         /\ RejectedRow(row).status = "rejected"
         /\ RejectedRow(row).proposal = row.proposal
         /\ ApprovedRow(row) \in Approval
         /\ ApprovedRow(row).status = "approved"
         /\ ApprovedRow(row).proposal = row.proposal
         /\ ApprovedRow(row).attempt = row.attempt
  BY DEF RejectedRow, ApprovedRow, Approval

LEMMA SettledRowType ==
  ASSUME NEW row \in Approval,
         NEW execution \in {"executing", "failed", "completed"},
         NEW error \in {"none", "conflict", "changed", "other"}
  PROVE  /\ Settled(row, execution, error) \in Approval
         /\ Settled(row, execution, error).status = row.status
         /\ Settled(row, execution, error).proposal = row.proposal
         /\ Settled(row, execution, error).attempt = row.attempt
  BY DEF Settled, Approval

LEMMA BegunRowType ==
  ASSUME NEW row \in Approval, row.attempt < MaxAttempts
  PROVE  /\ Begun(row) \in Approval
         /\ Begun(row).status = row.status
         /\ Begun(row).proposal = row.proposal
         /\ Begun(row).attempt \in 1..MaxAttempts
  <1>1. row.attempt + 1 \in 0..MaxAttempts /\ row.attempt + 1 \in 1..MaxAttempts
    BY RowTypes, CalendarAssumption
  <1>2. Settled(row, "executing", "none") \in Approval
    BY SettledRowType
  <1>3. QED
    BY <1>1, <1>2, SettledRowType DEF Begun, Approval

LEMMA RecoveredRowType ==
  ASSUME NEW row \in Approval
  PROVE  /\ AfterRecovery(row) \in Approval
         /\ AfterRecovery(row).status = row.status
         /\ AfterRecovery(row).proposal = row.proposal
         /\ AfterRecovery(row).attempt = row.attempt
  BY SettledRowType DEF AfterRecovery

-----------------------------------------------------------------------------
(* What one step does to the decisions and proposals, to the runs and to the *)
(* writes under way.                                                         *)

SameRow(a) ==
  approvals'[a].status = approvals[a].status /\ approvals'[a].proposal = approvals[a].proposal

SameDecisions == \A a \in Approvals : SameRow(a)

OnlyRow(a) == \A b \in Approvals \ {a} : SameRow(b)

Proposed(a) ==
  /\ approvals[a].status = "absent"
  /\ approvals'[a].status = "pending"
  /\ approvals'[a].proposal \in Proposals
  /\ WellFormed(approvals'[a].proposal)

DecidedOn(a) ==
  /\ approvals[a].status = "pending"
  /\ approvals'[a].status \in {"approved", "rejected"}
  /\ approvals'[a].proposal = approvals[a].proposal

DecisionStep ==
  SameDecisions \/ \E a \in Approvals : OnlyRow(a) /\ (Proposed(a) \/ DecidedOn(a))

\* A granted approval counts its attempts and a coroutine begins with one.
RunsKept ==
  /\ \A a \in Approvals : approvals[a].status = "approved" =>
       approvals'[a].attempt = approvals[a].attempt \/ approvals'[a].attempt \in 1..MaxAttempts
  /\ \A r \in Calls : run'[r] # None =>
       \/ run[r] # None /\ run'[r].approval = run[r].approval
       \/ /\ approvals'[run'[r].approval].status = "approved"
          /\ approvals'[run'[r].approval].attempt \in 1..MaxAttempts

\* A write as `Send' makes it: a granted proposal and, unless it is a create, the
\* version the proposal was prepared on.
Granted(w) ==
  /\ approvals[w.approval].status = "approved"
  /\ approvals[w.approval].proposal = w.content
  /\ ~Creates(w) => w.match = w.content.etag

Dispatched == \A w \in wire' \ wire : Granted(w)

LocalStep == TypeOK' /\ DecisionStep /\ RunsKept /\ Dispatched /\ applied' = applied /\ calendar' = calendar

LEMMA KeptIsTyped ==
  ASSUME Typed, TypeOK', DecisionStep, RunsKept
  PROVE  Typed'
  <1>1. \A a \in Approvals : approvals[a].status = "approved" => approvals'[a].status = "approved"
    BY DEF DecisionStep, SameDecisions, OnlyRow, SameRow, Proposed, DecidedOn
  <1>2. RowsOK'
    BY DEF Typed, RowsOK, DecisionStep, SameDecisions, OnlyRow, SameRow, Proposed, DecidedOn
  <1>3. RunsOK'
    <2> SUFFICES ASSUME NEW r \in Calls, run'[r] # None
                 PROVE  /\ approvals'[run'[r].approval].status = "approved"
                        /\ approvals'[run'[r].approval].attempt \in 1..MaxAttempts
        BY DEF RunsOK
    <2>1. run'[r].approval \in Approvals
      BY DEF TypeOK, Run
    <2>2. QED
      BY <1>1, <2>1 DEF RunsKept, Typed, RunsOK
  <1>4. QED
    BY <1>2, <1>3 DEF Typed

LEMMA BeginIsLocal ==
  ASSUME Typed, NEW r \in Calls, NEW a \in Approvals, NEW row \in Approval,
         row.proposal = approvals[a].proposal, Begin(r, a, row),
         approvals[a].status \in {"pending", "approved"}
  PROVE  LocalStep
  <1>1. /\ approvals' = [approvals EXCEPT ![a] = Begun(row)]
        /\ Begun(row) \in Approval
        /\ Begun(row).status = "approved"
        /\ Begun(row).proposal = approvals[a].proposal
        /\ Begun(row).attempt \in 1..MaxAttempts
    BY BegunRowType DEF Begin, Claimable
  <1>2. approvals' \in [Approvals -> Approval]
    BY <1>1 DEF Typed, TypeOK
  <1>3. run' \in [Calls -> Run \cup {None}]
    BY DEF Begin, Typed, TypeOK, Run
  <1>4. TypeOK'
    BY <1>2, <1>3 DEF Begin, google, Typed, TypeOK
  <1>5. OnlyRow(a) /\ (SameRow(a) \/ DecidedOn(a))
    BY <1>1 DEF OnlyRow, SameRow, DecidedOn, Typed, TypeOK
  <1>6. RunsKept
    <2>1. \A b \in Approvals : approvals[b].status = "approved" =>
            \/ approvals'[b].attempt = approvals[b].attempt
            \/ approvals'[b].attempt \in 1..MaxAttempts
      BY <1>1 DEF Typed, TypeOK
    <2>2. \A s \in Calls \ {r} : run'[s] = run[s]
      BY DEF Begin, Typed, TypeOK
    <2>3. run'[r].approval = a
      BY DEF Begin, Typed, TypeOK
    <2>4. QED
      BY <1>1, <2>1, <2>2, <2>3 DEF RunsKept, Typed, TypeOK
  <1>7. QED
    BY <1>4, <1>5, <1>6 DEF LocalStep, DecisionStep, SameDecisions, OnlyRow, Dispatched, Begin, google

LEMMA FinishIsLocal ==
  ASSUME Typed, NEW r \in Calls, run[r] # None, NEW x \in {"failed", "completed"},
         NEW err \in {"none", "conflict", "changed", "other"}, Finish(r, x, err)
  PROVE  LocalStep
  <1>1. PICK a \in Approvals : a = run[r].approval
    BY DEF Typed, TypeOK, Run
  <1>2. approvals' = [approvals EXCEPT ![a] = Settled(@, x, err)]
    BY <1>1 DEF Finish
  <1>3. /\ approvals' \in [Approvals -> Approval]
        /\ \A b \in Approvals : SameRow(b) /\ approvals'[b].attempt = approvals[b].attempt
    BY <1>2, SettledRowType DEF Typed, TypeOK, SameRow
  <1>4. TypeOK'
    BY <1>3 DEF Finish, google, Typed, TypeOK
  <1>5. RunsKept
    BY <1>3 DEF RunsKept, Finish, Typed, TypeOK
  <1>6. QED
    BY <1>3, <1>4, <1>5 DEF LocalStep, DecisionStep, SameDecisions, Dispatched, Finish, google

LEMMA GotoIsLocal ==
  ASSUME Typed, NEW r \in Calls, run[r] # None, NEW step \in {"get", "collision"}, Goto(r, step)
  PROVE  LocalStep
  <1>1. /\ run' \in [Calls -> Run \cup {None}]
        /\ run'[r].approval = run[r].approval
        /\ \A s \in Calls \ {r} : run'[s] = run[s]
    BY DEF Goto, Typed, TypeOK, Run
  <1>2. TypeOK'
    BY <1>1 DEF Goto, google, Typed, TypeOK
  <1>3. QED
    BY <1>1, <1>2 DEF LocalStep, DecisionStep, SameDecisions, SameRow, RunsKept, Dispatched, Goto, google

LEMMA SendIsLocal ==
  ASSUME Typed, NEW r \in Calls, run[r] # None, Send(r),
         \/ approvals[run[r].approval].proposal.action = "create"
         \/ Unchanged(run[r].approval)
  PROVE  LocalStep
  <1>1. PICK a \in Approvals : a = run[r].approval
    BY DEF Typed, TypeOK, Run
  <1> DEFINE w == [approval |-> a, content |-> approvals[a].proposal,
                   match |-> calendar[Target(a)].etag, attempt |-> approvals[a].attempt]
  <1>a. approvals[a].status = "approved" /\ WellFormed(approvals[a].proposal)
    BY <1>1 DEF Typed, RunsOK, RowsOK
  <1>b. Target(a) \in Ids
    BY <1>a DEF Target, WellFormed, Ids
  <1>c. calendar[Target(a)].etag \in Nat
    BY <1>b DEF Typed, TypeOK, Event
  <1>2. w \in Write
    BY <1>1, <1>a, <1>c DEF Typed, RunsOK, WellFormed, Write
  <1>d. Granted(w)
    BY <1>1, <1>a DEF Granted, Creates, Unchanged
  <1>3. wire' = wire \cup {w}
    BY <1>1 DEF Send
  <1>4. /\ run' \in [Calls -> Run \cup {None}]
        /\ run'[r].approval = run[r].approval
        /\ \A s \in Calls \ {r} : run'[s] = run[s]
    BY DEF Send, Typed, TypeOK, Run
  <1>5. TypeOK'
    BY <1>2, <1>3, <1>4 DEF Send, google, Typed, TypeOK
  <1>6. QED
    BY <1>d, <1>3, <1>4, <1>5
       DEF LocalStep, DecisionStep, SameDecisions, SameRow, RunsKept, Dispatched, Send, google

LEMMA RunStepIsLocal ==
  ASSUME Typed, NEW r \in Calls, RunStep(r)
  PROVE  LocalStep
  <1>1. /\ run[r] # None
        /\ \/ \E step \in {"get", "collision"} : Goto(r, step)
           \/ /\ Send(r)
              /\ \/ approvals[run[r].approval].proposal.action = "create"
                 \/ Unchanged(run[r].approval)
           \/ \E x \in {"failed", "completed"}, err \in {"none", "conflict", "changed", "other"} :
                Finish(r, x, err)
    BY DEF RunStep, Listed, GotForCreate, GotForUpdate, GotForDelete, WriteAnswered, Collided,
           CallFails, At
  <1>2. QED
    BY <1>1, GotoIsLocal, SendIsLocal, FinishIsLocal

LEMMA OwnerStepIsLocal ==
  ASSUME Typed, OwnerStep
  PROVE  LocalStep
  <1>1. ASSUME NEW a \in Approvals, NEW p \in Proposals, Propose(a, p)
        PROVE  LocalStep
    <2>1. p \in Proposal /\ WellFormed(p)
      BY CalendarAssumption DEF Proposals, Proposal, WellFormed
    <2>2. TypeOK' /\ OnlyRow(a) /\ Proposed(a)
      BY <1>1, <2>1, ProposedRowType
         DEF Propose, google, Typed, TypeOK, OnlyRow, SameRow, Proposed
    <2>3. RunsKept
      BY <1>1 DEF Propose, RunsKept, Typed, TypeOK
    <2>4. QED
      BY <1>1, <2>2, <2>3 DEF LocalStep, DecisionStep, Dispatched, Propose, google
  <1>2. ASSUME NEW a \in Approvals, Reject(a)
        PROVE  LocalStep
    <2>1. TypeOK' /\ OnlyRow(a) /\ DecidedOn(a)
      BY <1>2, DecidedRowType
         DEF Reject, google, Typed, TypeOK, OnlyRow, SameRow, DecidedOn
    <2>2. RunsKept
      BY <1>2 DEF Reject, RunsKept, Typed, TypeOK
    <2>3. QED
      BY <1>2, <2>1, <2>2 DEF LocalStep, DecisionStep, Dispatched, Reject, google
  <1>3. ASSUME NEW a \in Approvals, Approve(a)
        PROVE  LocalStep
    <2> DEFINE row == ApprovedRow(approvals[a])
    <2>1. row \in Approval /\ row.status = "approved" /\ row.proposal = approvals[a].proposal
      BY DecidedRowType DEF Typed, TypeOK
    <2>2. CASE \E r \in Calls : Begin(r, a, row)
      BY <1>3, <2>1, <2>2, BeginIsLocal DEF Approve
    <2>3. CASE /\ approvals' = [approvals EXCEPT ![a] = ApprovedRow(@)]
               /\ up' = FALSE
               /\ run' = [r \in Calls |-> None]
               /\ UNCHANGED <<wire, google>>
      <3>1. TypeOK' /\ OnlyRow(a) /\ DecidedOn(a)
        BY <1>3, <2>1, <2>3 DEF Approve, google, Typed, TypeOK, OnlyRow, SameRow, DecidedOn
      <3>2. RunsKept
        BY <1>3, <2>1, <2>3 DEF Approve, RunsKept, Typed, TypeOK
      <3>3. QED
        BY <2>3, <3>1, <3>2 DEF LocalStep, DecisionStep, Dispatched, google
    <2>4. QED
      BY <1>3, <2>2, <2>3 DEF Approve
  <1>4. ASSUME NEW r \in Calls, NEW a \in Approvals, Execute(r, a)
        PROVE  LocalStep
    BY <1>4, BeginIsLocal DEF Execute, Begin, Claimable, Typed, TypeOK
  <1>5. QED
    BY <1>1, <1>2, <1>3, <1>4 DEF OwnerStep

LEMMA ProcessStepIsLocal ==
  ASSUME Typed, Crash \/ Restart
  PROVE  LocalStep
  <1>1. CASE Crash
    BY <1>1 DEF Crash, google, LocalStep, DecisionStep, SameDecisions, SameRow, RunsKept,
                Dispatched, Typed, TypeOK
  <1>2. CASE Restart
    <2>1. /\ approvals' \in [Approvals -> Approval]
          /\ \A a \in Approvals : SameRow(a) /\ approvals'[a].attempt = approvals[a].attempt
      BY <1>2, RecoveredRowType DEF Restart, SameRow, Typed, TypeOK
    <2>2. QED
      BY <1>2, <2>1 DEF Restart, google, LocalStep, DecisionStep, SameDecisions, RunsKept,
                        Dispatched, Typed, TypeOK
  <1>3. QED
    BY <1>1, <1>2

-----------------------------------------------------------------------------
(* The steps of Google and of the owner's other clients.                    *)

\* Versions grow and an id once used stays used.
CalendarGrows ==
  \A i \in Ids : /\ calendar'[i].etag >= calendar[i].etag
                 /\ calendar[i].state # "absent" => calendar'[i].state # "absent"

\* What appears at the id of a create was put there by a write of its approval.
OwnIdsGrow ==
  \A a \in Approvals :
    calendar[a].state = "absent" /\ calendar'[a].state # "absent" =>
      \E w \in applied' : w.approval = a

\* Google carries out one write that it admits.
Applies(w) ==
  /\ w \in wire
  /\ Admitted(w)
  /\ applied' = applied \cup {w}
  /\ calendar'[EventOf(w)].state # "absent"
  /\ calendar'[EventOf(w)].etag = calendar[EventOf(w)].etag + 1

RemoteStep ==
  /\ TypeOK' /\ RowsOK' /\ RunsOK'
  /\ approvals' = approvals
  /\ wire' \subseteq wire
  /\ CalendarGrows
  /\ OwnIdsGrow
  /\ applied' = applied \/ \E w \in wire : Applies(w)

\* A write under way, or done, is the granted proposal of its approval.
WritesOK == \A w \in wire \cup applied : Granted(w)

LEMMA WriteFacts ==
  ASSUME Typed, WritesOK, NEW w \in wire \cup applied
  PROVE  /\ w.approval \in Approvals
         /\ w.attempt \in 1..MaxAttempts
         /\ Granted(w)
         /\ WellFormed(w.content)
         /\ EventOf(w) \in Ids
  <1>1. w \in Write
    BY DEF Typed, TypeOK
  <1>2. w.approval \in Approvals /\ w.attempt \in 1..MaxAttempts
    BY <1>1 DEF Write
  <1>3. Granted(w)
    BY DEF WritesOK
  <1>4. WellFormed(w.content)
    BY <1>2, <1>3 DEF Granted, Typed, RowsOK
  <1>5. QED
    BY <1>2, <1>3, <1>4 DEF WellFormed, EventOf, Creates, Ids

LEMMA EventTypes ==
  ASSUME Typed, NEW i \in Ids
  PROVE  calendar[i].etag \in Nat
  BY DEF Typed, TypeOK, Event

LEMMA GoogleStepIsRemote ==
  ASSUME Typed, WritesOK, GoogleStep
  PROVE  RemoteStep
  <1>1. ASSUME NEW w \in wire, GoogleApplies(w)
        PROVE  RemoteStep
    <2>1. PICK i \in Ids : i = EventOf(w)
      BY WriteFacts
    <2>2. calendar[i].etag \in Nat /\ w.content.body \in Bodies \cup {None}
      BY <2>1, EventTypes, WriteFacts DEF WellFormed, Proposal
    <2>3. PICK e : /\ calendar' = [calendar EXCEPT ![i] = e]
                   /\ e.etag = calendar[i].etag + 1
                   /\ e.state # "absent"
                   /\ e \in Event
      <3>1. PICK e : /\ calendar' = [calendar EXCEPT ![i] = e]
                     /\ e = [state |-> IF w.content.action = "delete" THEN "cancelled"
                                       ELSE IF Creates(w) THEN "confirmed" ELSE calendar[i].state,
                             body |-> IF w.content.action = "delete" THEN calendar[i].body
                                      ELSE w.content.body,
                             etag |-> calendar[i].etag + 1]
        BY <1>1, <2>1 DEF GoogleApplies, After
      <3>2. calendar[i] \in Event
        BY <2>1 DEF Typed, TypeOK
      <3>3. ~Creates(w) => calendar[i].state # "absent"
        BY <1>1, <2>1 DEF GoogleApplies, Admitted, Shown
      <3>4. calendar[i].etag + 1 \in Nat
        BY <2>2
      <3>5. /\ calendar[i].state \in {"absent", "confirmed", "cancelled"}
            /\ calendar[i].body \in Bodies \cup {None}
        BY <3>2 DEF Event
      <3>6. /\ e.state \in {"absent", "confirmed", "cancelled"}
            /\ e.state # "absent"
        BY <3>1, <3>3, <3>5
      <3>7. e.body \in Bodies \cup {None} /\ e.etag = calendar[i].etag + 1
        BY <2>2, <3>1, <3>5
      <3>8. e = [state |-> e.state, body |-> e.body, etag |-> e.etag]
        BY <3>1
      <3>9. e \in Event
        BY <3>4, <3>6, <3>7, <3>8 DEF Event
      <3>a. QED
        BY <3>1, <3>6, <3>7, <3>9
    <2>4. calendar' \in [Ids -> Event]
      BY <2>3 DEF Typed, TypeOK
    <2>5. /\ calendar'[i].etag = calendar[i].etag + 1
          /\ calendar'[i].state # "absent"
          /\ \A j \in Ids \ {i} : calendar'[j] = calendar[j]
      BY <2>3 DEF Typed, TypeOK
    <2>a. OwnIdsGrow
      <3> SUFFICES ASSUME NEW a \in Approvals, calendar[a].state = "absent",
                          calendar'[a].state # "absent"
                   PROVE  \E v \in applied' : v.approval = a
          BY DEF OwnIdsGrow
      <3>1. i = a
        BY <2>5 DEF Ids
      <3>2. Creates(w)
        BY <1>1, <2>1, <3>1 DEF GoogleApplies, Admitted, Shown
      <3>3. QED
        BY <1>1, <2>1, <3>1, <3>2 DEF EventOf, GoogleApplies
    <2>6. CalendarGrows
      BY <2>2, <2>5, EventTypes DEF CalendarGrows
    <2>7. TypeOK'
      BY <1>1, <2>4 DEF GoogleApplies, Typed, TypeOK
    <2>8. Applies(w)
      BY <1>1, <2>1, <2>5 DEF GoogleApplies, Applies
    <2>9. QED
      BY <1>1, <2>a, <2>6, <2>7, <2>8 DEF GoogleApplies, RemoteStep, Typed, RowsOK, RunsOK
  <1>2. ASSUME NEW w \in wire, GoogleRefuses(w) \/ Lost(w)
        PROVE  RemoteStep
    <2>1. TypeOK'
      BY <1>2 DEF GoogleRefuses, Lost, google, Typed, TypeOK
    <2>2. CalendarGrows
      BY <1>2, EventTypes DEF GoogleRefuses, Lost, google, CalendarGrows
    <2>3. QED
      BY <1>2, <2>1, <2>2
         DEF GoogleRefuses, Lost, google, RemoteStep, OwnIdsGrow, Typed, RowsOK, RunsOK
  <1>3. ASSUME NEW i \in Ids, NEW b \in Bodies, OwnerEdits(i, b)
        PROVE  RemoteStep
    <2>1. calendar[i].etag \in Nat
      BY EventTypes
    <2>2. calendar' = [calendar EXCEPT ![i] =
                         [state |-> "confirmed", body |-> b, etag |-> @.etag + 1]]
      BY <1>3 DEF OwnerEdits
    <2>3. calendar' \in [Ids -> Event]
      BY <2>1, <2>2 DEF Typed, TypeOK, Event
    <2>4. CalendarGrows
      BY <2>1, <2>2, EventTypes DEF CalendarGrows, Typed, TypeOK
    <2>5. TypeOK'
      BY <1>3, <2>3 DEF OwnerEdits, Typed, TypeOK
    <2>6. OwnIdsGrow
      BY <1>3, <2>2, CalendarAssumption DEF OwnerEdits, Shown, OwnIdsGrow, Ids, Typed, TypeOK
    <2>7. QED
      BY <1>3, <2>4, <2>5, <2>6 DEF OwnerEdits, RemoteStep, Typed, RowsOK, RunsOK
  <1>4. ASSUME NEW i \in Ids, OwnerDeletes(i)
        PROVE  RemoteStep
    <2>1. calendar[i].etag \in Nat
      BY EventTypes
    <2>2. calendar' = [calendar EXCEPT ![i].state = "cancelled", ![i].etag = @ + 1]
      BY <1>4 DEF OwnerDeletes
    <2>3. calendar' \in [Ids -> Event]
      BY <2>1, <2>2 DEF Typed, TypeOK, Event
    <2>4. CalendarGrows
      BY <2>1, <2>2, EventTypes DEF CalendarGrows, Typed, TypeOK
    <2>5. TypeOK'
      BY <1>4, <2>3 DEF OwnerDeletes, Typed, TypeOK
    <2>6. OwnIdsGrow
      BY <1>4, <2>2 DEF OwnerDeletes, Present, OwnIdsGrow, Ids, Typed, TypeOK
    <2>7. QED
      BY <1>4, <2>4, <2>5, <2>6 DEF OwnerDeletes, RemoteStep, Typed, RowsOK, RunsOK
  <1>5. QED
    BY <1>1, <1>2, <1>3, <1>4 DEF GoogleStep

-----------------------------------------------------------------------------
(* The inductive invariant: every write is a granted proposal, and the event *)
(* of a write that was carried out shows it by its state or its version.     *)

Marked ==
  \A w \in applied :
    /\ Creates(w) => calendar[EventOf(w)].state # "absent"
    /\ ~Creates(w) => calendar[EventOf(w)].etag > w.content.etag

\* An event at the id of a create is there because of a write of its approval.
OwnEvents ==
  \A a \in Approvals : calendar[a].state # "absent" => \E w \in applied : w.approval = a

IInv == Typed /\ WritesOK /\ Marked /\ OwnEvents /\ AppliedOnce

LEMMA InitIInv == Init => IInv
  BY CalendarAssumption
     DEF Init, IInv, Typed, TypeOK, RowsOK, RunsOK, WritesOK, Marked, OwnEvents, AppliedOnce,
         NoApproval, NoEvent, Approval, Event, Ids

LEMMA NextIsLocalOrRemote ==
  ASSUME IInv, [Next]_vars
  PROVE  LocalStep \/ RemoteStep \/ UNCHANGED vars
  BY RunStepIsLocal, OwnerStepIsLocal, ProcessStepIsLocal, GoogleStepIsRemote DEF IInv, Next

LEMMA IInvStep == IInv /\ [Next]_vars => IInv'
  <1> SUFFICES ASSUME IInv, [Next]_vars
               PROVE  IInv'
      OBVIOUS
  <1> USE DEF IInv
  <1>1. CASE LocalStep
    <2>1. Typed'
      BY <1>1, KeptIsTyped DEF LocalStep
    <2>2. WritesOK'
      <3> SUFFICES ASSUME NEW w \in wire' \cup applied'
                   PROVE  /\ approvals'[w.approval].status = "approved"
                          /\ approvals'[w.approval].proposal = w.content
                          /\ ~Creates(w) => w.match = w.content.etag
          BY DEF WritesOK, Granted, Creates
      <3>1. w.approval \in Approvals
        BY <2>1 DEF Typed, TypeOK, Write
      <3>2. /\ approvals[w.approval].status = "approved"
            /\ approvals[w.approval].proposal = w.content
            /\ ~Creates(w) => w.match = w.content.etag
        BY <1>1 DEF LocalStep, Dispatched, WritesOK, Granted
      <3>3. QED
        BY <1>1, <3>1, <3>2
           DEF LocalStep, DecisionStep, SameDecisions, OnlyRow, SameRow, Proposed, DecidedOn
    <2>3. Marked' /\ OwnEvents' /\ AppliedOnce'
      BY <1>1 DEF LocalStep, Marked, OwnEvents, AppliedOnce
    <2>4. QED
      BY <2>1, <2>2, <2>3
  <1>2. CASE RemoteStep
    <2>1. Typed'
      BY <1>2 DEF RemoteStep, Typed
    <2>2. applied' \subseteq applied \cup wire
      BY <1>2 DEF RemoteStep, Applies
    <2>3. WritesOK'
      BY <1>2, <2>2 DEF RemoteStep, WritesOK, Granted, Creates
    <2>4. ASSUME NEW w \in applied
          PROVE  /\ Creates(w) => calendar'[EventOf(w)].state # "absent"
                 /\ ~Creates(w) => calendar'[EventOf(w)].etag > w.content.etag
      <3>1. w.content.etag \in Nat
        BY WriteFacts DEF WellFormed, Proposal
      <3>2. PICK i \in Ids : i = EventOf(w)
        BY WriteFacts
      <3>3. calendar[i].etag \in Nat /\ calendar'[i].etag \in Nat
        BY <2>1, <3>2 DEF Typed, TypeOK, Event
      <3>4. /\ calendar'[i].etag >= calendar[i].etag
            /\ calendar[i].state # "absent" => calendar'[i].state # "absent"
        BY <1>2, <3>2 DEF RemoteStep, CalendarGrows
      <3>5. /\ Creates(w) => calendar[i].state # "absent"
            /\ ~Creates(w) => calendar[i].etag > w.content.etag
        BY <3>2 DEF Marked
      <3>6. QED
        BY <3>1, <3>2, <3>3, <3>4, <3>5
    <2>5. ASSUME NEW w \in wire, Applies(w)
          PROVE  /\ Creates(w) => calendar'[EventOf(w)].state # "absent"
                 /\ ~Creates(w) => calendar'[EventOf(w)].etag > w.content.etag
                 /\ \A v \in applied : v.approval # w.approval
      <3>1. w.content.etag \in Nat
        BY WriteFacts DEF WellFormed, Proposal
      <3>2. ASSUME NEW v \in applied, v.approval = w.approval
            PROVE  FALSE
        <4>1. v.content = w.content
          BY <3>2, WriteFacts DEF Granted
        <4>2. EventOf(v) = EventOf(w) /\ (Creates(v) <=> Creates(w))
          BY <3>2, <4>1 DEF EventOf, Creates
        <4>3. EventOf(w) \in Ids
          BY WriteFacts
        <4>4. calendar[EventOf(w)].etag \in Nat
          BY <4>3, EventTypes
        <4>5. Granted(w)
          BY WriteFacts
        <4>6. QED
          BY <2>5, <3>1, <4>1, <4>2, <4>4, <4>5 DEF Applies, Admitted, Granted, Marked
      <3>3. EventOf(w) \in Ids
        BY WriteFacts
      <3>4. calendar[EventOf(w)].etag \in Nat
        BY <3>3, EventTypes
      <3>5. Granted(w)
        BY WriteFacts
      <3>6. QED
        BY <2>5, <3>1, <3>2, <3>4, <3>5 DEF Applies, Admitted, Granted
    <2>6. Marked'
      <3> SUFFICES ASSUME NEW w \in applied'
                   PROVE  /\ Creates(w) => calendar'[EventOf(w)].state # "absent"
                          /\ ~Creates(w) => calendar'[EventOf(w)].etag > w.content.etag
          BY DEF Marked, Creates, EventOf
      <3>1. QED
        BY <1>2, <2>4, <2>5 DEF RemoteStep, Applies
    <2>7. AppliedOnce'
      BY <1>2, <2>5 DEF RemoteStep, Applies, AppliedOnce
    <2>8. OwnEvents'
      BY <1>2 DEF RemoteStep, OwnIdsGrow, OwnEvents, Applies
    <2>9. QED
      BY <2>1, <2>3, <2>6, <2>7, <2>8
  <1>3. CASE UNCHANGED vars
    BY <1>3 DEF vars, google, Typed, TypeOK, RowsOK, RunsOK, WritesOK, Granted, Creates, Marked,
                OwnEvents, AppliedOnce
  <1>4. QED
    BY <1>1, <1>2, <1>3, NextIsLocalOrRemote

LEMMA AlwaysIInv == Spec => []IInv
  BY InitIInv, IInvStep, PTL DEF Spec

-----------------------------------------------------------------------------
(* Every reachable state of the calendar path is well typed.                *)
THEOREM CalendarTypeCorrect == Spec => []TypeOK
  <1>1. IInv => TypeOK
    BY DEF IInv, Typed
  <1>2. QED
    BY <1>1, AlwaysIInv, PTL

(* However often an approved calendar change is retried, whatever answers are *)
(* lost, however late a request arrives and whenever the process dies, Google *)
(* carries it out at most once.                                               *)
THEOREM ChangesApplyOnce == Spec => []AppliedOnce
  <1>1. IInv => AppliedOnce
    BY DEF IInv
  <1>2. QED
    BY <1>1, AlwaysIInv, PTL

(* Nothing reaches Google but a proposal the owner approved, unchanged since. *)
THEOREM OnlyApprovedReachesGoogle == Spec => []OnlyApprovedApplied
  <1>1. IInv => OnlyApprovedApplied
    BY DEF IInv, WritesOK, Granted, OnlyApprovedApplied
  <1>2. QED
    BY <1>1, AlwaysIInv, PTL

(* A write replaces the version its proposal was prepared on, never a newer   *)
(* one made by the owner's other clients.  It takes both halves: the coroutine *)
(* compares that version with the one it read (Granted) and Google the one read *)
(* with its own (Admitted).                                                     *)
THEOREM NoUpdateIsLost == Spec => NoLostUpdate
  <1>1. IInv /\ [Next]_vars =>
          \A w \in applied' \ applied :
            w.content.action # "create" => calendar[w.content.event].etag = w.content.etag
    <2> SUFFICES ASSUME IInv, [Next]_vars, NEW w \in applied' \ applied,
                        w.content.action # "create"
                 PROVE  calendar[w.content.event].etag = w.content.etag
        OBVIOUS
    <2>1. w \in wire /\ Applies(w)
      BY NextIsLocalOrRemote DEF LocalStep, RemoteStep, Applies, vars, google
    <2>2. QED
      BY <2>1 DEF IInv, WritesOK, Granted, Applies, Admitted, Creates, EventOf
  <1>2. QED
    BY <1>1, AlwaysIInv, PTL DEF Spec, NoLostUpdate

(* The calendar path is a refinement of the approval boundary, with the writes *)
(* Google carried out as its effects: a change is proposed once, decided once  *)
(* and takes effect only as it was approved.                                   *)
THEOREM CalendarImplementsGate == Spec => ImplementsGate
  <1> DEFINE decision == [a \in Approvals |-> approvals[a].status]
             text == [a \in Approvals |-> approvals[a].proposal]
  <1>1. Init => Gate!Init
    BY DEF Init, Gate!Init, NoApproval
  <1>2. IInv /\ [Next]_vars => [Gate!Next]_(Gate!vars)
    <2> SUFFICES ASSUME IInv, [Next]_vars
                 PROVE  Gate!Next \/ UNCHANGED Gate!vars
        OBVIOUS
    <2>1. SameDecisions => UNCHANGED <<decision, text>>
      BY DEF SameDecisions, SameRow
    <2>2. CASE SameDecisions /\ applied' = applied
      BY <2>1, <2>2 DEF Gate!vars
    <2>3. ASSUME NEW w \in wire, Applies(w), approvals' = approvals
          PROVE  Gate!Next
      <3>1. /\ w.approval \in Approvals
            /\ w.attempt \in 1..MaxAttempts
            /\ approvals[w.approval].status = "approved"
            /\ approvals[w.approval].proposal = w.content
        BY WriteFacts DEF IInv, Granted
      <3>2. EffectOf(w) = [approval |-> w.approval, content |-> approvals[w.approval].proposal,
                           attempt |-> w.attempt]
        BY <3>1 DEF EffectOf
      <3>c. {EffectOf(v) : v \in applied'} = {EffectOf(v) : v \in applied} \cup {EffectOf(w)}
        BY <2>3 DEF Applies
      <3>d. {EffectOf(v) : v \in applied}' = {EffectOf(v) : v \in applied'}
        BY DEF EffectOf
      <3>3. Gate!TakeEffect(w.approval, w.attempt)
        BY <2>3, <3>1, <3>2, <3>c, <3>d DEF Gate!TakeEffect
      <3>4. QED
        BY <3>1, <3>3 DEF Gate!Next
    <2>4. ASSUME NEW a \in Approvals, OnlyRow(a), applied' = applied, Proposed(a) \/ DecidedOn(a)
          PROVE  Gate!Next
      <3>p. PICK p : p = approvals'[a].proposal
        OBVIOUS
      <3>s. PICK s : s = approvals'[a].status
        OBVIOUS
      <3>1. text' = [text EXCEPT ![a] = p]
        BY <2>4, <3>p DEF OnlyRow, SameRow
      <3>2. decision' = [decision EXCEPT ![a] = s]
        BY <2>4, <3>s DEF OnlyRow, SameRow
      <3>3. CASE Proposed(a)
        <4>1. Gate!Propose(a, p)
          BY <2>4, <3>s, <3>1, <3>2, <3>3 DEF Proposed, Gate!Propose
        <4>2. p \in Proposals
          BY <3>p, <3>3 DEF Proposed
        <4>3. QED
          BY <4>1, <4>2 DEF Gate!Next
      <3>4. CASE DecidedOn(a)
        <4>1. s \in {"approved", "rejected"} /\ decision[a] = "pending"
          BY <3>s, <3>4 DEF DecidedOn
        <4>2. text' = text
          BY <3>p, <3>1, <3>4 DEF DecidedOn
        <4>3. Gate!Decide(a, s)
          BY <2>4, <3>2, <4>1, <4>2 DEF Gate!Decide
        <4>4. QED
          BY <4>1, <4>3 DEF Gate!Next
      <3>5. QED
        BY <2>4, <3>3, <3>4
    <2>5. CASE LocalStep
      BY <2>2, <2>4, <2>5 DEF LocalStep, DecisionStep
    <2>6. CASE RemoteStep
      BY <2>2, <2>3, <2>6 DEF RemoteStep, SameDecisions, SameRow
    <2>7. CASE UNCHANGED vars
      BY <2>2, <2>7 DEF vars, google, SameDecisions, SameRow
    <2>8. QED
      BY <2>5, <2>6, <2>7, NextIsLocalOrRemote
  <1>3. QED
    BY <1>1, <1>2, AlwaysIInv, PTL DEF Spec, ImplementsGate, Gate!Spec

-----------------------------------------------------------------------------
(***************************************************************************)
(* Executions and their coroutines.  Only an approved change is executing,  *)
(* a dead process has no coroutine, each executing change of a live one has *)
(* one, and a coroutine shares its executing change with no other.          *)
(***************************************************************************)
Executing(a) == approvals[a].execution = "executing"

Runs(r, a) == run[r] # None /\ run[r].approval = a

RunsMatch ==
  /\ \A a \in Approvals : Executing(a) => approvals[a].status = "approved"
  /\ ~up => \A r \in Calls : run[r] = None
  /\ up => \A a \in Approvals : Executing(a) => \E r \in Calls : Runs(r, a)
  /\ \A r \in Calls, a \in Approvals : Runs(r, a) => Executing(a)
  /\ \A r, s \in Calls, a \in Approvals : Runs(r, a) /\ Runs(s, a) => r = s

\* Steps that begin and end no execution, and the four kinds that do.
NoExecutionStep ==
  /\ up' = up
  /\ \A r \in Calls, a \in Approvals : Runs(r, a)' <=> Runs(r, a)
  /\ \A r \in Calls : run'[r] = None <=> run[r] = None
  /\ \A a \in Approvals : Executing(a)' <=> Executing(a)

BeginStep(r, a) ==
  /\ up /\ up'
  /\ run[r] = None
  /\ run'[r] # None /\ run'[r].approval = a
  /\ approvals'[a].status = "approved"
  /\ ~Executing(a) /\ Executing(a)'
  /\ \A s \in Calls \ {r} : run'[s] = run[s]
  /\ \A b \in Approvals \ {a} : Executing(b)' <=> Executing(b)

FinishStep(r, a) ==
  /\ up /\ up'
  /\ Runs(r, a)
  /\ run'[r] = None
  /\ ~Executing(a)'
  /\ \A s \in Calls \ {r} : run'[s] = run[s]
  /\ \A b \in Approvals \ {a} : Executing(b)' <=> Executing(b)

DeathStep ==
  /\ ~up'
  /\ \A r \in Calls : run'[r] = None
  /\ \A a \in Approvals : Executing(a)' => Executing(a)

RestartStep == ~up /\ up' /\ run' = run /\ \A a \in Approvals : ~Executing(a)'

ExecutionStep ==
  \/ NoExecutionStep
  \/ \E r \in Calls, a \in Approvals : BeginStep(r, a) \/ FinishStep(r, a)
  \/ DeathStep
  \/ RestartStep

LEMMA BeginIsBeginStep ==
  ASSUME Typed, NEW r \in Calls, NEW a \in Approvals, NEW row \in Approval, up,
         Begin(r, a, row), ~Executing(a)
  PROVE  ExecutionStep
  <1>1. Begun(row).execution = "executing" /\ Begun(row).status = "approved"
    BY BegunRowType DEF Begin, Claimable, Begun, Settled, Approval
  <1>2. /\ approvals'[a].status = "approved" /\ Executing(a)'
        /\ \A b \in Approvals \ {a} : Executing(b)' <=> Executing(b)
    BY <1>1 DEF Begin, Executing, Typed, TypeOK
  <1>3. run'[r] # None /\ run'[r].approval = a /\ \A s \in Calls \ {r} : run'[s] = run[s]
    BY NoneIsNoRun DEF Begin, Typed, TypeOK, Run
  <1>4. BeginStep(r, a)
    BY <1>2, <1>3 DEF Begin, BeginStep
  <1>5. QED
    BY <1>4 DEF ExecutionStep

LEMMA RunStepIsExecutionStep ==
  ASSUME Typed, NEW r \in Calls, RunStep(r)
  PROVE  ExecutionStep
  <1>1. /\ up /\ run[r] # None
        /\ \/ \E step \in {"get", "collision"} : Goto(r, step)
           \/ Send(r)
           \/ \E x \in {"failed", "completed"}, err \in {"none", "conflict", "changed", "other"} :
                Finish(r, x, err)
    BY DEF RunStep, Listed, GotForCreate, GotForUpdate, GotForDelete, WriteAnswered, Collided,
           CallFails, At
  <1>2. PICK a \in Approvals : a = run[r].approval
    BY <1>1 DEF Typed, TypeOK, Run
  <1>3. ASSUME NEW step \in {"get", "collision", "write"},
               run' = [run EXCEPT ![r].step = step], up' = up, approvals' = approvals
        PROVE  ExecutionStep
    <2>1. run'[r] \in Run /\ run'[r].approval = a /\ \A s \in Calls \ {r} : run'[s] = run[s]
      BY <1>1, <1>2, <1>3 DEF Typed, TypeOK, Run
    <2>2. run'[r] # None
      BY <2>1, NoneIsNoRun
    <2>3. QED
      BY <1>1, <1>2, <1>3, <2>1, <2>2 DEF ExecutionStep, NoExecutionStep, Runs, Executing
  <1>4. ASSUME NEW x \in {"failed", "completed"},
               NEW err \in {"none", "conflict", "changed", "other"}, Finish(r, x, err)
        PROVE  ExecutionStep
    <2>1. approvals' = [approvals EXCEPT ![a] = Settled(@, x, err)]
      BY <1>2, <1>4 DEF Finish
    <2>2. Settled(approvals[a], x, err).execution = x
      BY DEF Settled, Typed, TypeOK, Approval
    <2>3. ~Executing(a)' /\ \A b \in Approvals \ {a} : Executing(b)' <=> Executing(b)
      BY <2>1, <2>2 DEF Executing, Typed, TypeOK
    <2>4. FinishStep(r, a)
      BY <1>1, <1>2, <1>4, <2>3 DEF Finish, FinishStep, Runs, Typed, TypeOK
    <2>5. QED
      BY <2>4 DEF ExecutionStep
  <1>5. QED
    BY <1>1, <1>3, <1>4 DEF Goto, Send

LEMMA OwnerStepIsExecutionStep ==
  ASSUME Typed, RunsMatch, OwnerStep
  PROVE  ExecutionStep
  <1>1. \A a \in Approvals : approvals[a].status \in {"absent", "pending"} => ~Executing(a)
    BY DEF RunsMatch
  <1>2. ASSUME NEW a \in Approvals, NEW row \in Approval, ~Executing(a), row.execution # "executing",
               approvals' = [approvals EXCEPT ![a] = row], up' = up, run' = run
        PROVE  ExecutionStep
    BY <1>2 DEF ExecutionStep, NoExecutionStep, Runs, Executing, Typed, TypeOK
  <1>3. ASSUME NEW a \in Approvals, NEW p \in Proposals, Propose(a, p)
        PROVE  ExecutionStep
    <2>1. ProposedRow(p) \in Approval /\ ProposedRow(p).execution # "executing"
      BY CalendarAssumption, ProposedRowType DEF Proposals, Proposal, ProposedRow
    <2>2. QED
      BY <1>1, <1>2, <1>3, <2>1 DEF Propose
  <1>4. ASSUME NEW a \in Approvals, Reject(a)
        PROVE  ExecutionStep
    <2>1. ~Executing(a) /\ approvals[a] \in Approval
      BY <1>1, <1>4 DEF Reject, Typed, TypeOK
    <2>2. RejectedRow(approvals[a]) \in Approval /\ RejectedRow(approvals[a]).execution # "executing"
      BY <2>1, DecidedRowType DEF RejectedRow, Executing, Approval
    <2>3. approvals' = [approvals EXCEPT ![a] = RejectedRow(approvals[a])]
      BY <1>4 DEF Reject
    <2>4. QED
      BY <1>2, <1>4, <2>1, <2>2, <2>3 DEF Reject
  <1>5. ASSUME NEW a \in Approvals, Approve(a)
        PROVE  ExecutionStep
    <2>1. CASE \E r \in Calls : Begin(r, a, ApprovedRow(approvals[a]))
      <3>1. ApprovedRow(approvals[a]) \in Approval
        BY DecidedRowType DEF Typed, TypeOK
      <3>2. QED
        BY <1>1, <1>5, <2>1, <3>1, BeginIsBeginStep DEF Approve
    <2>2. CASE /\ up' = FALSE
               /\ run' = [r \in Calls |-> None]
               /\ approvals' = [approvals EXCEPT ![a] = ApprovedRow(@)]
      <3>1. ApprovedRow(approvals[a]).execution = "ready"
        BY DEF ApprovedRow, Typed, TypeOK, Approval
      <3>2. QED
        BY <2>2, <3>1 DEF ExecutionStep, DeathStep, Executing, Typed, TypeOK
    <2>3. QED
      BY <1>5, <2>1, <2>2 DEF Approve
  <1>6. ASSUME NEW r \in Calls, NEW a \in Approvals, Execute(r, a)
        PROVE  ExecutionStep
    <2>1. ~Executing(a) /\ approvals[a] \in Approval
      BY <1>6 DEF Execute, Begin, Claimable, Executing, Typed, TypeOK
    <2>2. QED
      BY <1>6, <2>1, BeginIsBeginStep DEF Execute
  <1>7. QED
    BY <1>3, <1>4, <1>5, <1>6 DEF OwnerStep

LEMMA NextIsExecutionStep ==
  ASSUME Typed, RunsMatch, [Next]_vars
  PROVE  ExecutionStep
  <1>1. ASSUME approvals' = approvals, run' = run, up' = up
        PROVE  ExecutionStep
    BY <1>1 DEF ExecutionStep, NoExecutionStep, Runs, Executing
  <1>2. CASE GoogleStep
    BY <1>1, <1>2 DEF GoogleStep, GoogleApplies, GoogleRefuses, Lost, OwnerEdits, OwnerDeletes
  <1>3. CASE Crash
    BY <1>3 DEF Crash, ExecutionStep, DeathStep, Executing
  <1>4. CASE Restart
    <2>1. \A a \in Approvals : AfterRecovery(approvals[a]).execution # "executing"
      BY DEF AfterRecovery, Settled, Typed, TypeOK, Approval
    <2>2. QED
      BY <1>4, <2>1 DEF Restart, ExecutionStep, RestartStep, Executing
  <1>5. CASE UNCHANGED vars
    BY <1>1, <1>5 DEF vars
  <1>6. QED
    BY <1>2, <1>3, <1>4, <1>5, OwnerStepIsExecutionStep, RunStepIsExecutionStep DEF Next

LEMMA RunsMatchStep == IInv /\ RunsMatch /\ [Next]_vars => RunsMatch'
  <1> SUFFICES ASSUME IInv, RunsMatch, [Next]_vars
               PROVE  RunsMatch'
      OBVIOUS
  <1>1. ExecutionStep
    BY NextIsExecutionStep DEF IInv
  <1>2. \A a \in Approvals : approvals[a].status = "approved" => approvals'[a].status = "approved"
    BY NextIsLocalOrRemote
       DEF LocalStep, DecisionStep, SameDecisions, OnlyRow, SameRow, Proposed, DecidedOn, RemoteStep,
           vars
  <1>3. CASE NoExecutionStep
    BY <1>2, <1>3 DEF RunsMatch, NoExecutionStep
  <1>4. ASSUME NEW r \in Calls, NEW a \in Approvals, BeginStep(r, a)
        PROVE  RunsMatch'
    BY <1>2, <1>4 DEF RunsMatch, BeginStep, Runs
  <1>5. ASSUME NEW r \in Calls, NEW a \in Approvals, FinishStep(r, a)
        PROVE  RunsMatch'
    BY <1>2, <1>5 DEF RunsMatch, FinishStep, Runs
  <1>6. CASE DeathStep
    BY <1>2, <1>6 DEF RunsMatch, DeathStep, Runs
  <1>7. CASE RestartStep
    BY <1>2, <1>7 DEF RunsMatch, RestartStep, Runs
  <1>8. QED
    BY <1>1, <1>3, <1>4, <1>5, <1>6, <1>7 DEF ExecutionStep

(* While the gateway runs, a calendar change is executing exactly when one     *)
(* coroutine, and only one, works on it: the claim admits no second executor,  *)
(* and neither a failure nor a restart leaves a change executing for nobody.   *)
THEOREM OneRunPerExecution == Spec => []ExecutingHasOneRun
  <1>1. Init => RunsMatch
    BY DEF Init, RunsMatch, NoApproval, Executing, Runs
  <1>2. RunsMatch => ExecutingHasOneRun
    <2> SUFFICES ASSUME RunsMatch, up, NEW a \in Approvals
                 PROVE  LET running == {r \in Calls : Runs(r, a)}
                        IN /\ Executing(a) <=> running # {}
                           /\ \A r, s \in running : r = s
        BY DEF ExecutingHasOneRun, Executing, Runs
    <2>1. QED
      BY DEF RunsMatch
  <1>3. QED
    BY <1>1, <1>2, RunsMatchStep, AlwaysIInv, PTL DEF Spec

-----------------------------------------------------------------------------
(***************************************************************************)
(* A refused write, too, is a granted proposal, so the coroutine that looks *)
(* for the event after a refusal works on a create.                         *)
(***************************************************************************)
RefusedOK ==
  \A w \in refused :
    approvals[w.approval].status = "approved" /\ approvals[w.approval].proposal = w.content

CollisionOK ==
  \A r \in Calls :
    run[r] # None /\ run[r].step = "collision" =>
      approvals[run[r].approval].proposal.action = "create"

AnswersInv == IInv /\ RefusedOK /\ CollisionOK

LEMMA GrantedStays ==
  ASSUME IInv, [Next]_vars, NEW a \in Approvals, approvals[a].status = "approved"
  PROVE  approvals'[a].status = "approved" /\ approvals'[a].proposal = approvals[a].proposal
  BY NextIsLocalOrRemote
     DEF LocalStep, DecisionStep, SameDecisions, OnlyRow, SameRow, Proposed, DecidedOn, RemoteStep,
         vars

LEMMA RefusedStep ==
  ASSUME AnswersInv, [Next]_vars
  PROVE  RefusedOK'
  <1>1. refused' \subseteq refused \cup wire
    BY DEF Next, OwnerStep, RunStep, GoogleStep, Propose, Reject, Approve, Execute, Begin, Listed,
           GotForCreate, GotForUpdate, GotForDelete, WriteAnswered, Collided, CallFails, Goto,
           Finish, Send, GoogleApplies, GoogleRefuses, Lost, OwnerEdits, OwnerDeletes, Crash,
           Restart, vars, google
  <1>2. \A w \in refused \cup wire : w.approval \in Approvals
    BY DEF AnswersInv, IInv, Typed, TypeOK, Write
  <1>3. \A w \in refused \cup wire :
          approvals[w.approval].status = "approved" /\ approvals[w.approval].proposal = w.content
    BY DEF AnswersInv, IInv, WritesOK, Granted, RefusedOK
  <1>4. QED
    BY <1>1, <1>2, <1>3, GrantedStays DEF RefusedOK, AnswersInv

\* Where a coroutine is after a step: where it was, elsewhere, or, after the
\* refusal of a create, at the collision.
LEMMA WhereRunsGo ==
  ASSUME AnswersInv, [Next]_vars, NEW r \in Calls, run'[r] # None, run'[r].step = "collision"
  PROVE  /\ run[r] # None /\ run'[r].approval = run[r].approval
         /\ \/ run[r].step = "collision"
            \/ approvals[run[r].approval].proposal.action = "create"
  <1> USE DEF AnswersInv, IInv, Typed, TypeOK
  <1>1. ASSUME NEW s \in Calls, NEW a, NEW row, Begin(s, a, row)
        PROVE  run'[r] = run[r]
    BY <1>1 DEF Begin
  <1>2. ASSUME NEW s \in Calls, RunStep(s)
        PROVE  \/ run'[r] = run[r]
               \/ s = r /\ WriteAnswered(r) /\ Goto(r, "collision")
    <2>1. run[s] # None
      BY <1>2 DEF RunStep, Listed, GotForCreate, GotForUpdate, GotForDelete, WriteAnswered,
                  Collided, CallFails, At
    <2>2. run[s] \in Run
      BY <2>1
    <2>3. \A step : Goto(s, step) => /\ s = r => run'[r].step = step
                                     /\ s # r => run'[r] = run[r]
      BY <2>2 DEF Goto, Run
    <2>4. Send(s) => s # r /\ run'[r] = run[r]
      BY <2>2 DEF Send, Run
    <2>5. \A x, err : Finish(s, x, err) => s # r /\ run'[r] = run[r]
      BY DEF Finish
    <2>6. \/ \E step \in {"get", "collision"} : Goto(s, step)
          \/ Send(s)
          \/ \E x \in {"failed", "completed"}, err \in {"none", "conflict", "changed", "other"} :
               Finish(s, x, err)
      BY <1>2 DEF RunStep, Listed, GotForCreate, GotForUpdate, GotForDelete, WriteAnswered, Collided,
                  CallFails
    <2>7. ASSUME s = r, Goto(r, "collision")
          PROVE  WriteAnswered(r)
      <3>1. /\ ~Send(r)
            /\ \A x, err : ~Finish(r, x, err)
        BY <2>4, <2>5, <2>7
      <3>2. ~Goto(r, "get")
        BY <2>2, <2>3, <2>7
      <3>3. QED
        BY <1>2, <2>7, <3>1, <3>2
           DEF RunStep, Listed, GotForCreate, GotForUpdate, GotForDelete, Collided, CallFails
    <2>8. QED
      BY <2>3, <2>4, <2>5, <2>6, <2>7
  <1>3. ASSUME WriteAnswered(r), Goto(r, "collision")
        PROVE  /\ run[r] # None /\ run'[r].approval = run[r].approval
               /\ approvals[run[r].approval].proposal.action = "create"
    <2>1. run[r] \in Run
      BY <1>3 DEF WriteAnswered, At
    <2>2. run'[r].approval = run[r].approval /\ run'[r] # None
      BY <1>3, <2>1 DEF Goto, Run
    <2>3. PICK w \in refused : Sent(r, w) /\ w.content.action = "create"
      <3>1. \A x, err : ~Finish(r, x, err)
        BY <2>2 DEF Finish
      <3>2. QED
        BY <1>3, <3>1 DEF WriteAnswered
    <2>4. QED
      BY <1>3, <2>2, <2>3 DEF RefusedOK, Sent, WriteAnswered, At
  <1>4. OwnerStep => run'[r] = run[r]
    BY <1>1 DEF OwnerStep, Propose, Approve, Reject, Execute
  <1>5. GoogleStep \/ Crash \/ Restart \/ UNCHANGED vars => run'[r] = run[r]
    BY DEF GoogleStep, GoogleApplies, GoogleRefuses, Lost, OwnerEdits, OwnerDeletes, Crash,
           Restart, vars
  <1>6. QED
    BY <1>2, <1>3, <1>4, <1>5 DEF Next

LEMMA AlwaysAnswersInv == Spec => []AnswersInv
  <1>1. Init => RefusedOK /\ CollisionOK
    BY DEF Init, RefusedOK, CollisionOK
  <1>2. AnswersInv /\ [Next]_vars => RefusedOK' /\ CollisionOK'
    <2> SUFFICES ASSUME AnswersInv, [Next]_vars
                 PROVE  RefusedOK' /\ CollisionOK'
        OBVIOUS
    <2>1. ASSUME NEW r \in Calls, run'[r] # None, run'[r].step = "collision"
          PROVE  approvals'[run'[r].approval].proposal.action = "create"
      <3>1. /\ run[r] # None /\ run'[r].approval = run[r].approval
            /\ approvals[run[r].approval].proposal.action = "create"
        BY <2>1, WhereRunsGo DEF AnswersInv, CollisionOK
      <3>2. run[r].approval \in Approvals /\ approvals[run[r].approval].status = "approved"
        BY <3>1 DEF AnswersInv, IInv, Typed, TypeOK, RunsOK, Run
      <3>3. QED
        BY <3>1, <3>2, GrantedStays DEF AnswersInv
    <2>2. QED
      BY <2>1, RefusedStep DEF CollisionOK
  <1>3. QED
    BY <1>1, <1>2, AlwaysIInv, PTL DEF Spec, AnswersInv

(* No answer, no failure and no recovery records a change as completed that    *)
(* was not carried out, but for an update whose content Google has and a delete *)
(* of an event it did not find; a create completes by its own write only.      *)
THEOREM CompletedWasDone == Spec => CompletedIsTrue
  <1>1. ASSUME AnswersInv, [Next]_vars, NEW a \in Approvals,
               approvals'[a].execution = "completed", approvals[a].execution # "completed"
        PROVE  WasDone(a)
    <2> USE <1>1 DEF AnswersInv, IInv, Typed, TypeOK
    <2>1. ASSUME NEW b \in Approvals, NEW row, approvals' = [approvals EXCEPT ![b] = row],
                 row.execution # "completed"
          PROVE  FALSE
      BY <2>1
    <2>2. ASSUME NEW r \in Calls, NEW b \in Approvals, NEW row \in Approval, Begin(r, b, row)
          PROVE  FALSE
      <3>1. Begun(row).execution = "executing"
        BY DEF Begun, Settled, Approval
      <3>2. QED
        BY <2>1, <2>2, <3>1 DEF Begin
    <2>3. ~OwnerStep
      <3>1. ASSUME NEW b \in Approvals, NEW p \in Proposals, Propose(b, p)
            PROVE  FALSE
        BY <2>1, <3>1 DEF Propose, ProposedRow
      <3>2. ASSUME NEW b \in Approvals, Reject(b)
            PROVE  FALSE
        BY <3>2 DEF Reject, RejectedRow, Approval
      <3>3. ASSUME NEW b \in Approvals, Approve(b)
            PROVE  FALSE
        <4>1. ApprovedRow(approvals[b]) \in Approval /\ ApprovedRow(approvals[b]).execution = "ready"
          <5>1. ApprovedRow(approvals[b]).execution = "ready"
            BY DEF ApprovedRow, Approval
          <5>2. QED
            BY <5>1, DecidedRowType
        <4>2. QED
          BY <2>1, <2>2, <3>3, <4>1 DEF Approve
      <3>4. ASSUME NEW r \in Calls, NEW b \in Approvals, Execute(r, b)
            PROVE  FALSE
        BY <2>2, <3>4 DEF Execute
      <3>5. QED
        BY <3>1, <3>2, <3>3, <3>4 DEF OwnerStep
    <2>4. ASSUME NEW r \in Calls, NEW x \in {"failed", "completed"},
                 NEW err \in {"none", "conflict", "changed", "other"}, Finish(r, x, err),
                 run[r] # None
          PROVE  run[r].approval = a /\ x = "completed"
      <3>1. PICK b \in Approvals : b = run[r].approval
        BY <2>4 DEF Run
      <3>2. approvals' = [approvals EXCEPT ![b] = Settled(@, x, err)]
        BY <2>4, <3>1 DEF Finish
      <3>3. Settled(approvals[b], x, err).execution = x
        BY DEF Settled, Approval
      <3>4. QED
        BY <3>1, <3>2, <3>3
    <2>5. ASSUME NEW r \in Calls, RunStep(r)
          PROVE  WasDone(a)
      <3>0. approvals[a].proposal.action = "create" /\ Matches(a) =>
              \E w \in applied : w.approval = a
        BY DEF Matches, Shown, Target, OwnEvents
      <3>1. run[r] # None
        BY <2>5 DEF RunStep, Listed, GotForCreate, GotForUpdate, GotForDelete, WriteAnswered,
                    Collided, CallFails, At
      <3>2. \A step : ~Goto(r, step)
        BY DEF Goto
      <3>3. ~Send(r)
        BY DEF Send
      <3>4. \A err \in {"none", "conflict", "changed", "other"} : ~Finish(r, "failed", err)
        BY <2>4, <3>1
      <3>5. Finish(r, "completed", "none") => run[r].approval = a
        BY <2>4, <3>1
      <3>6. CASE GotForCreate(r) \/ GotForUpdate(r) \/ GotForDelete(r)
        BY <3>0, <3>3, <3>4, <3>5, <3>6 DEF GotForCreate, GotForUpdate, GotForDelete, WasDone
      <3>7. CASE WriteAnswered(r)
        BY <3>2, <3>4, <3>5, <3>7 DEF WriteAnswered, Sent, WasDone
      <3>8. CASE Collided(r)
        BY <3>0, <3>1, <3>4, <3>5, <3>8 DEF Collided, At, CollisionOK, WasDone
      <3>9. QED
        BY <2>5, <3>2, <3>4, <3>6, <3>7, <3>8 DEF RunStep, Listed, CallFails
    <2>6. ~GoogleStep /\ ~Crash /\ ~UNCHANGED vars
      BY DEF GoogleStep, GoogleApplies, GoogleRefuses, Lost, OwnerEdits, OwnerDeletes, Crash, vars
    <2>7. ~Restart
      <3>1. AfterRecovery(approvals[a]).execution # "completed"
        BY DEF AfterRecovery, Settled, Approval
      <3>2. QED
        BY <3>1 DEF Restart
    <2>8. QED
      BY <2>3, <2>5, <2>6, <2>7 DEF Next
  <1>2. AnswersInv /\ [Next]_vars =>
          \A a \in Approvals :
            approvals'[a].execution = "completed" /\ approvals[a].execution # "completed" =>
              WasDone(a)
    BY <1>1
  <1>3. QED
    BY <1>2, AlwaysAnswersInv, PTL DEF Spec, CompletedIsTrue
=============================================================================
