-------------------------- MODULE MailApprovalProofs --------------------------
(***************************************************************************)
(* Theorems about MailApproval, for every set of approvals, drafts, texts   *)
(* and concurrent calls and every number of attempts.                       *)
(***************************************************************************)
EXTENDS MailApproval, TLAPS

(***************************************************************************)
(* What a handler has established before the transaction it stands at, and  *)
(* that a row that exists has a text.                                       *)
(***************************************************************************)
HandlerOK ==
  /\ handler.step \in {"enqueue", "link", "create_draft"} =>
       handler.draft \in Drafts /\ handler.approval \in Approvals
  /\ handler.step \in {"enqueue", "link"} => drafts[handler.draft].status # "absent"
  /\ handler.step = "enqueue" => approvals[handler.approval].status = "absent"
  /\ handler.step = "create_draft" => approvals[handler.approval].status # "absent"
  /\ handler.step = "claim" => handler.approval \in Approvals

RowsOK ==
  /\ \A a \in Approvals : approvals[a].status # "absent" => approvals[a].content \in Contents
  /\ \A d \in Drafts : drafts[d].status # "absent" => drafts[d].content \in Contents
  /\ \A d \in Drafts : drafts[d].approval # None => drafts[d].status # "absent"

Typed == TypeOK /\ HandlerOK /\ RowsOK

(***************************************************************************)
(* Rows: what each update of an approval or a draft row leaves and changes. *)
(***************************************************************************)
LEMMA DecidedRow ==
  ASSUME NEW row \in Approval, NEW verdict \in {"approved", "rejected"}
  PROVE  /\ Decided(row, verdict) \in Approval
         /\ Decided(row, verdict).status = verdict
         /\ Decided(row, verdict).execution =
              IF verdict = "approved" THEN "ready" ELSE "not_applicable"
         /\ Decided(row, verdict).content = row.content
         /\ Decided(row, verdict).kind = row.kind
         /\ Decided(row, verdict).attempt = row.attempt
  BY DEF Decided, Approval, ApprovalStatus, ExecutionStatus

LEMMA ExecutedRow ==
  ASSUME NEW row \in Approval, NEW execution \in ExecutionStatus
  PROVE  /\ Executed(row, execution) \in Approval
         /\ Executed(row, execution).execution = execution
         /\ Executed(row, execution).status = row.status
         /\ Executed(row, execution).content = row.content
         /\ Executed(row, execution).kind = row.kind
         /\ Executed(row, execution).attempt = row.attempt
  BY DEF Executed, Approval

LEMMA BegunRow ==
  ASSUME NEW row \in Approval, row.attempt + 1 <= MaxAttempts
  PROVE  /\ Begun(row) \in Approval
         /\ Begun(row).execution = "executing"
         /\ Begun(row).attempt = row.attempt + 1
         /\ Begun(row).status = row.status
         /\ Begun(row).content = row.content
         /\ Begun(row).kind = row.kind
  <1>1. row.attempt + 1 \in 0..MaxAttempts
    BY MailApprovalAssumption DEF Approval
  <1>2. Executed(row, "executing") \in Approval
    BY ExecutedRow DEF ExecutionStatus
  <1>3. QED
    BY <1>1, <1>2, ExecutedRow DEF Begun, Approval, ExecutionStatus

LEMMA ApprovalWithText ==
  ASSUME NEW row \in Approval, NEW c \in Contents
  PROVE  /\ WithText(row, c) \in Approval
         /\ WithText(row, c).content = c
         /\ WithText(row, c).status = row.status
         /\ WithText(row, c).execution = row.execution
         /\ WithText(row, c).kind = row.kind
         /\ WithText(row, c).attempt = row.attempt
  BY DEF WithText, Approval

LEMMA DraftWithText ==
  ASSUME NEW row \in Draft, NEW c \in Contents
  PROVE  /\ WithText(row, c) \in Draft
         /\ WithText(row, c).content = c
         /\ WithText(row, c).status = row.status
         /\ WithText(row, c).approval = row.approval
  BY DEF WithText, Draft

LEMMA PendingRowType ==
  ASSUME NEW kind \in Kinds, NEW content \in Contents, NEW origin \in Drafts \cup {None}
  PROVE  /\ PendingRow(kind, content, origin) \in Approval
         /\ PendingRow(kind, content, origin).status = "pending"
         /\ PendingRow(kind, content, origin).execution = "not_applicable"
         /\ PendingRow(kind, content, origin).content = content
         /\ PendingRow(kind, content, origin).kind = kind
  BY MailApprovalAssumption DEF PendingRow, Approval, ApprovalStatus, ExecutionStatus

LEMMA RecoveredRow ==
  ASSUME NEW row \in Approval
  PROVE  /\ AfterRecovery(row) \in Approval
         /\ AfterRecovery(row).status = row.status
         /\ AfterRecovery(row).content = row.content
         /\ AfterRecovery(row).kind = row.kind
         /\ AfterRecovery(row).attempt = row.attempt
  BY ExecutedRow DEF AfterRecovery, ExecutionStatus

LEMMA ApprovalRow ==
  ASSUME NEW row \in Approval
  PROVE  /\ row.attempt \in 0..MaxAttempts
         /\ row.kind \in Kinds
         /\ row.status \in ApprovalStatus
         /\ row.execution \in ExecutionStatus
         /\ row.content \in Contents \cup {None}
         /\ row.origin \in Drafts \cup {None}
  BY DEF Approval

LEMMA DraftRow ==
  ASSUME NEW row \in Draft
  PROVE  /\ row.status \in DraftStatus
         /\ row.content \in Contents \cup {None}
         /\ row.approval \in Approvals \cup {None}
  BY DEF Draft

LEMMA NewDraftRow ==
  ASSUME NEW status \in {"draft", "approval_pending"}, NEW content \in Contents \cup {None},
         NEW approval \in Approvals \cup {None}
  PROVE  [status |-> status, content |-> content, approval |-> approval] \in Draft
  BY DEF Draft, DraftStatus

LEMMA DraftWithStatus ==
  ASSUME NEW row \in Draft, NEW status \in DraftStatus
  PROVE  /\ [row EXCEPT !.status = status] \in Draft
         /\ [row EXCEPT !.status = status].content = row.content
         /\ [row EXCEPT !.status = status].approval = row.approval
         /\ [row EXCEPT !.status = status].status = status
  BY DEF Draft

LEMMA SentDrafts ==
  ASSUME TypeOK, NEW a \in Approvals
  PROVE  /\ Sent(a) \in [Drafts -> Draft]
         /\ \A d \in Drafts :
              /\ Sent(a)[d].content = drafts[d].content
              /\ Sent(a)[d].approval = drafts[d].approval
              /\ Sent(a)[d].status =
                   IF drafts[d].approval = a THEN "sent" ELSE drafts[d].status
  <1>1. \A d \in Drafts : drafts[d] \in Draft
    BY DEF TypeOK
  <1>2. \A d \in Drafts :
          /\ [drafts[d] EXCEPT !.status = "sent"] \in Draft
          /\ [drafts[d] EXCEPT !.status = "sent"].content = drafts[d].content
          /\ [drafts[d] EXCEPT !.status = "sent"].approval = drafts[d].approval
          /\ [drafts[d] EXCEPT !.status = "sent"].status = "sent"
    BY <1>1, DraftWithStatus DEF DraftStatus
  <1>3. QED
    BY <1>1, <1>2 DEF Sent

LEMMA BeginTyped ==
  ASSUME Typed, NEW r \in Calls, NEW a \in Approvals, BeginExecution(r, a)
  PROVE  /\ approvals' \in [Approvals -> Approval]
         /\ calls' \in [Calls -> Effect \cup {None}]
         /\ wire' \subseteq Effect
         /\ \A b \in Approvals : /\ approvals'[b].status = approvals[b].status
                                 /\ approvals'[b].content = approvals[b].content
                                 /\ approvals'[b].kind = approvals[b].kind
  <1> DEFINE n == approvals[a].attempt + 1
             e == [approval |-> a, content |-> approvals[a].content, attempt |-> n]
  <1>1. approvals[a] \in Approval /\ n \in 1..MaxAttempts
    BY MailApprovalAssumption, ApprovalRow DEF Typed, TypeOK, BeginExecution
  <1>2. e \in Effect
    BY <1>1 DEF Typed, RowsOK, BeginExecution, Claimable, Effect
  <1>3. QED
    BY <1>1, <1>2, BegunRow DEF Typed, TypeOK, BeginExecution

LEMMA InitTyped == Init => Typed
  BY MailApprovalAssumption
     DEF Init, Typed, TypeOK, HandlerOK, RowsOK, Approval, Draft, Handler, NoApproval,
         NoDraft, Idle, Kinds, ApprovalStatus, DraftStatus, ExecutionStatus

LEMMA RowsKept ==
  ASSUME RowsOK,
         \A a \in Approvals : /\ approvals'[a].status = approvals[a].status
                              /\ \/ approvals'[a].content = approvals[a].content
                                 \/ approvals'[a].content \in Contents,
         \A d \in Drafts : /\ drafts'[d].approval = drafts[d].approval
                           /\ \/ drafts'[d].content = drafts[d].content
                              \/ drafts'[d].content \in Contents
                           /\ \/ drafts'[d].status = drafts[d].status
                              \/ /\ drafts[d].status # "absent" \/ drafts[d].approval # None
                                 /\ drafts'[d].status # "absent"
  PROVE  RowsOK'
  BY DEF RowsOK

LEMMA TypedStep == Typed /\ [Next]_vars => Typed'
  <1> SUFFICES ASSUME Typed, [Next]_vars
               PROVE  Typed'
      OBVIOUS
  <1> USE MailApprovalAssumption
      DEF Typed, TypeOK, HandlerOK, RowsOK, Handler, Idle, LoopFree, InStep, store,
          network, history
  <1>1. ASSUME NEW d \in Drafts, NEW c \in Contents, CreateDraft(d, c)
        PROVE  Typed'
    BY <1>1, NewDraftRow DEF CreateDraft
  <1>2. ASSUME NEW d \in Drafts, NEW c \in Contents, Edit(d, c)
        PROVE  Typed'
    <2>1. drafts[d].approval # None => drafts[d].approval \in Approvals
      BY DraftRow
    <2>2. /\ approvals' \in [Approvals -> Approval]
          /\ \A b \in Approvals : /\ approvals'[b].status = approvals[b].status
                                  /\ \/ approvals'[b].content = approvals[b].content
                                     \/ approvals'[b].content \in Contents
      <3>1. CASE drafts[d].approval = None
        <4>1. approvals' = approvals
          BY <1>2, <3>1 DEF Edit
        <4>2. QED
          BY <4>1
      <3>2. CASE drafts[d].approval # None
        <4> DEFINE a == drafts[d].approval
                   row == WithText(approvals[a], c)
        <4>1. a \in Approvals
          BY <2>1, <3>2
        <4>2. approvals' = [approvals EXCEPT ![a] = row]
          BY <1>2, <3>2 DEF Edit
        <4>3. row \in Approval /\ row.content = c /\ row.status = approvals[a].status
          BY <4>1, ApprovalWithText
        <4> HIDE DEF a, row
        <4>4. QED
          BY <4>1, <4>2, <4>3
      <3>3. QED
        BY <3>1, <3>2
    <2>3. /\ drafts' \in [Drafts -> Draft]
          /\ \A x \in Drafts : /\ drafts'[x].status = drafts[x].status
                               /\ drafts'[x].approval = drafts[x].approval
                               /\ \/ drafts'[x].content = drafts[x].content
                                  \/ drafts'[x].content \in Contents
      BY <1>2, DraftWithText DEF Edit
    <2>4. RowsOK'
      BY <2>2, <2>3, RowsKept
    <2>5. QED
      BY <1>2, <2>2, <2>3, <2>4 DEF Edit
  <1>3. ASSUME NEW d \in Drafts, NEW a \in Approvals, Submit(d, a)
        PROVE  Typed'
    BY <1>3 DEF Submit, Submittable
  <1>4. ASSUME NEW d \in Drafts, Discard(d)
        PROVE  Typed'
    <2>1. TypeOK'
      <3>1. [drafts[d] EXCEPT !.status = "discarded"] \in Draft
        BY DraftWithStatus DEF DraftStatus
      <3>2. QED
        BY <1>4, <3>1, DecidedRow, DraftRow DEF Discard, Discardable
    <2>2. HandlerOK'
      BY <1>4, DecidedRow, DraftRow, DraftWithStatus DEF Discard, Discardable
    <2>3. RowsOK'
      BY <1>4, DecidedRow, DraftRow, DraftWithStatus DEF Discard, Discardable
    <2>4. QED
      BY <2>1, <2>2, <2>3
  <1>5. CASE AgentCreateDraft
    BY <1>5, NewDraftRow DEF AgentCreateDraft
  <1>6. CASE SubmitEnqueue
    BY <1>6, PendingRowType DEF SubmitEnqueue, Kinds
  <1>7. CASE SubmitLink
    <2>1. TypeOK'
      BY <1>7, NewDraftRow DEF SubmitLink
    <2>2. HandlerOK'
      BY <1>7, NewDraftRow DEF SubmitLink
    <2>3. RowsOK'
      BY <1>7, NewDraftRow DEF SubmitLink
    <2>4. QED
      BY <2>1, <2>2, <2>3
  <1>8. ASSUME NEW r \in Calls, ExecuteApproved(r)
        PROVE  Typed'
    <2>1. TypeOK'
      BY <1>8, BeginTyped DEF ExecuteApproved
    <2>2. HandlerOK'
      BY <1>8, BeginTyped DEF ExecuteApproved
    <2>3. RowsOK'
      BY <1>8, BeginTyped DEF ExecuteApproved
    <2>4. QED
      BY <2>1, <2>2, <2>3
  <1>9. ASSUME NEW a \in Approvals, NEW c \in Contents, AgentEnqueue(a, c)
        PROVE  Typed'
    BY <1>9, PendingRowType DEF AgentEnqueue, Kinds
  <1>10. ASSUME NEW a \in Approvals, Approve(a)
         PROVE  Typed'
    <2>1. TypeOK'
      BY <1>10, DecidedRow DEF Approve
    <2>2. HandlerOK'
      BY <1>10, DecidedRow DEF Approve
    <2>3. RowsOK'
      BY <1>10, DecidedRow DEF Approve
    <2>4. QED
      BY <2>1, <2>2, <2>3
  <1>11. ASSUME NEW a \in Approvals, Reject(a)
         PROVE  Typed'
    <2>1. TypeOK'
      BY <1>11, DecidedRow, NewDraftRow DEF Reject, Released
    <2>2. HandlerOK'
      BY <1>11, DecidedRow, NewDraftRow DEF Reject, Released
    <2>3. RowsOK'
      BY <1>11, DecidedRow, NewDraftRow DEF Reject, Released
    <2>4. QED
      BY <2>1, <2>2, <2>3
  <1>12. ASSUME NEW a \in Approvals, NEW outcome \in {"already_sent", "retry"},
                Reconcile(a, outcome)
         PROVE  Typed'
    <2>1. /\ approvals' \in [Approvals -> Approval]
          /\ \A b \in Approvals : /\ approvals'[b].status = approvals[b].status
                                  /\ approvals'[b].content = approvals[b].content
      BY <1>12, ExecutedRow DEF Reconcile, ExecutionStatus
    <2>2. /\ drafts' \in [Drafts -> Draft]
          /\ \A d \in Drafts : /\ drafts'[d].content = drafts[d].content
                               /\ drafts'[d].approval = drafts[d].approval
                               /\ \/ drafts'[d].status = drafts[d].status
                                  \/ drafts[d].approval # None /\ drafts'[d].status = "sent"
      BY <1>12, SentDrafts DEF Reconcile
    <2>3. reconciled' \subseteq Answer
      BY <1>12, ApprovalRow DEF Reconcile, Answer
    <2>4. HandlerOK'
      BY <1>12, <2>1, <2>2 DEF Reconcile
    <2>5. RowsOK'
      BY <2>1, <2>2, RowsKept
    <2>6. QED
      BY <1>12, <2>1, <2>2, <2>3, <2>4, <2>5 DEF Reconcile
  <1>13. ASSUME NEW r \in Calls, NEW a \in Approvals, Execute(r, a)
         PROVE  Typed'
    <2>1. TypeOK'
      BY <1>13, BeginTyped DEF Execute
    <2>2. HandlerOK'
      BY <1>13, BeginTyped DEF Execute
    <2>3. RowsOK'
      BY <1>13, BeginTyped DEF Execute
    <2>4. QED
      BY <2>1, <2>2, <2>3
  <1>14. ASSUME NEW e \in wire, ProviderAccepts(e) \/ ProviderDrops(e)
         PROVE  Typed'
    BY <1>14 DEF ProviderAccepts, ProviderDrops
  <1>15. ASSUME NEW r \in Calls, CallReturns(r)
         PROVE  Typed'
    <2>1. calls[r].approval \in Approvals
      BY <1>15 DEF CallReturns, CallSucceeds, CallFails, Effect
    <2>2. /\ approvals' \in [Approvals -> Approval]
          /\ \A b \in Approvals : /\ approvals'[b].status = approvals[b].status
                                  /\ approvals'[b].content = approvals[b].content
      BY <1>15, <2>1, ExecutedRow DEF CallReturns, CallSucceeds, CallFails, ExecutionStatus
    <2>3. /\ drafts' \in [Drafts -> Draft]
          /\ \A d \in Drafts : /\ drafts'[d].content = drafts[d].content
                               /\ drafts'[d].approval = drafts[d].approval
                               /\ \/ drafts'[d].status = drafts[d].status
                                  \/ drafts[d].approval # None /\ drafts'[d].status = "sent"
      BY <1>15, <2>1, SentDrafts DEF CallReturns, CallSucceeds, CallFails
    <2>4. TypeOK'
      BY <1>15, <2>2, <2>3 DEF CallReturns, CallSucceeds, CallFails
    <2>5. HandlerOK'
      BY <1>15, <2>2, <2>3 DEF CallReturns, CallSucceeds, CallFails
    <2>6. RowsOK'
      BY <2>2, <2>3, RowsKept
    <2>7. QED
      BY <2>4, <2>5, <2>6
  <1>16. CASE Crash
    BY <1>16 DEF Crash
  <1>17. CASE Restart
    BY <1>17, RecoveredRow DEF Restart
  <1>18. CASE UNCHANGED vars
    BY <1>18 DEF vars
  <1> HIDE DEF Typed, TypeOK, HandlerOK, RowsOK, Handler, Idle, LoopFree, InStep, store,
               network, history
  <1>19. DraftStep \/ HandlerStep => Typed'
    BY <1>1, <1>2, <1>3, <1>4, <1>5, <1>6, <1>7, <1>8 DEF DraftStep, HandlerStep
  <1>20. ApprovalStep \/ ProviderStep => Typed'
    BY <1>9, <1>10, <1>11, <1>12, <1>13, <1>14 DEF ApprovalStep, ProviderStep
  <1>21. QED
    BY <1>15, <1>16, <1>17, <1>18, <1>19, <1>20 DEF Next

(* Every reachable state has the types of TypeOK: rows, calls and requests are *)
(* well formed whatever the store, the handlers and the recovery manager do.   *)
THEOREM TypeCorrect == Spec => []TypeOK
  <1>1. Typed => TypeOK
    BY DEF Typed
  <1>2. QED
    BY InitTyped, TypedStep, <1>1, PTL DEF Spec

LEMMA AlwaysTyped == Spec => []Typed
  BY InitTyped, TypedStep, PTL DEF Spec

-----------------------------------------------------------------------------
(***************************************************************************)
(* What one step does to the decisions, the texts and the provider.         *)
(***************************************************************************)
SameRow(a) ==
  approvals'[a].status = approvals[a].status /\ approvals'[a].content = approvals[a].content

SameDecisions == \A a \in Approvals : SameRow(a)

OnlyRow(a) == \A b \in Approvals \ {a} : SameRow(b)

Proposed(a) ==
  /\ approvals[a].status = "absent"
  /\ approvals'[a].status = "pending"
  /\ approvals'[a].content \in Contents

Revised(a) ==
  /\ approvals[a].status = "pending"
  /\ approvals'[a].status = "pending"
  /\ approvals'[a].content \in Contents

DecidedOn(a) ==
  /\ approvals[a].status = "pending"
  /\ approvals'[a].status \in {"approved", "rejected"}
  /\ approvals'[a].content = approvals[a].content

DecisionStep ==
  SameDecisions \/ \E a \in Approvals : OnlyRow(a) /\ (Proposed(a) \/ Revised(a) \/ DecidedOn(a))

\* Requests appear on the wire with the text of an approved record only.
Dispatched ==
  \A e \in wire' \ wire :
    approvals[e.approval].status = "approved" /\ approvals[e.approval].content = e.content

BoundaryStep ==
  \/ SameDecisions /\ accepted' = accepted /\ Dispatched
  \/ SameDecisions /\ (\E e \in wire : accepted' = accepted \cup {e}) /\ wire' \subseteq wire
  \/ DecisionStep /\ accepted' = accepted /\ wire' = wire

LEMMA NextIsBoundaryStep == Typed /\ [Next]_vars => BoundaryStep
  <1> SUFFICES ASSUME Typed, [Next]_vars
               PROVE  BoundaryStep
      OBVIOUS
  <1> USE DEF Typed, TypeOK, BoundaryStep, DecisionStep, Dispatched, SameDecisions, OnlyRow,
              SameRow, store, network, history
  <1>1. ASSUME NEW d \in Drafts, NEW c \in Contents, CreateDraft(d, c)
        PROVE  BoundaryStep
    BY <1>1 DEF CreateDraft
  <1>2. ASSUME NEW d \in Drafts, NEW c \in Contents, Edit(d, c)
        PROVE  BoundaryStep
    <2> DEFINE a == drafts[d].approval
    <2>1. CASE a = None
      BY <1>2, <2>1, MailApprovalAssumption, DraftRow DEF Edit
    <2>2. CASE a # None
      <3>1. a \in Approvals /\ approvals[a].status = "pending"
        BY <1>2, <2>2, DraftRow DEF Edit, Editable
      <3>2. OnlyRow(a) /\ Revised(a)
        BY <1>2, <2>2, <3>1, ApprovalWithText DEF Edit, Revised
      <3>3. QED
        BY <1>2, <3>1, <3>2 DEF Edit
    <2>3. QED
      BY <2>1, <2>2
  <1>3. ASSUME NEW d \in Drafts, NEW a \in Approvals, Submit(d, a)
        PROVE  BoundaryStep
    BY <1>3 DEF Submit
  <1>4. ASSUME NEW d \in Drafts, Discard(d)
        PROVE  BoundaryStep
    <2> DEFINE a == drafts[d].approval
    <2>1. CASE a = None
      BY <1>4, <2>1, MailApprovalAssumption, DraftRow DEF Discard
    <2>2. CASE a # None
      <3>1. a \in Approvals /\ approvals[a].status \in {"pending", "rejected"}
        BY <1>4, <2>2, DraftRow DEF Discard, Discardable
      <3>2. OnlyRow(a) /\ (DecidedOn(a) \/ SameRow(a))
        BY <1>4, <2>2, <3>1, DecidedRow DEF Discard, DecidedOn
      <3>3. QED
        BY <1>4, <3>1, <3>2 DEF Discard
    <2>3. QED
      BY <2>1, <2>2
  <1>5. CASE AgentCreateDraft
    BY <1>5 DEF AgentCreateDraft
  <1>6. CASE SubmitEnqueue
    <2> DEFINE a == handler.approval
    <2>1. a \in Approvals /\ approvals[a].status = "absent"
      BY <1>6 DEF SubmitEnqueue, InStep, HandlerOK
    <2>2. drafts[handler.draft].content \in Contents
      BY <1>6 DEF SubmitEnqueue, InStep, HandlerOK, RowsOK
    <2>3. OnlyRow(a) /\ Proposed(a)
      BY <1>6, <2>1, <2>2 DEF SubmitEnqueue, Proposed, PendingRow
    <2>4. QED
      BY <1>6, <2>1, <2>3 DEF SubmitEnqueue
  <1>7. CASE SubmitLink
    BY <1>7 DEF SubmitLink
  <1>8. ASSUME NEW r \in Calls, NEW a \in Approvals, BeginExecution(r, a), accepted' = accepted
        PROVE  BoundaryStep
    <2>1. SameDecisions
      BY <1>8, BeginTyped
    <2>2. Dispatched
      BY <1>8 DEF BeginExecution, Claimable
    <2>3. QED
      BY <1>8, <2>1, <2>2
  <1>9. ASSUME NEW r \in Calls, ExecuteApproved(r)
        PROVE  BoundaryStep
    BY <1>8, <1>9 DEF ExecuteApproved, InStep, HandlerOK
  <1>10. ASSUME NEW a \in Approvals, NEW c \in Contents, AgentEnqueue(a, c)
         PROVE  BoundaryStep
    <2>1. OnlyRow(a) /\ Proposed(a)
      BY <1>10 DEF AgentEnqueue, Proposed, PendingRow
    <2>2. QED
      BY <1>10, <2>1 DEF AgentEnqueue
  <1>11. ASSUME NEW a \in Approvals, Approve(a) \/ Reject(a)
         PROVE  BoundaryStep
    <2>1. OnlyRow(a) /\ DecidedOn(a)
      BY <1>11, DecidedRow DEF Approve, Reject, DecidedOn
    <2>2. QED
      BY <1>11, <2>1 DEF Approve, Reject
  <1>12. ASSUME NEW a \in Approvals, NEW outcome \in {"already_sent", "retry"},
                Reconcile(a, outcome)
         PROVE  BoundaryStep
    <2>1. SameDecisions
      BY <1>12, ExecutedRow DEF Reconcile, ExecutionStatus
    <2>2. QED
      BY <1>12, <2>1 DEF Reconcile
  <1>13. ASSUME NEW r \in Calls, NEW a \in Approvals, Execute(r, a)
         PROVE  BoundaryStep
    BY <1>8, <1>13 DEF Execute
  <1>14. ASSUME NEW e \in wire, ProviderAccepts(e) \/ ProviderDrops(e)
         PROVE  BoundaryStep
    BY <1>14 DEF ProviderAccepts, ProviderDrops
  <1>15. ASSUME NEW r \in Calls, CallReturns(r)
         PROVE  BoundaryStep
    <2>1. calls[r].approval \in Approvals
      BY <1>15 DEF CallReturns, CallSucceeds, CallFails, Effect
    <2>2. SameDecisions
      BY <1>15, <2>1, ExecutedRow DEF CallReturns, CallSucceeds, CallFails, ExecutionStatus
    <2>3. QED
      BY <1>15, <2>2 DEF CallReturns, CallSucceeds, CallFails
  <1>16. CASE Crash
    BY <1>16 DEF Crash
  <1>17. CASE Restart
    BY <1>17, RecoveredRow DEF Restart
  <1>18. CASE UNCHANGED vars
    BY <1>18 DEF vars
  <1>19. QED
    BY <1>1, <1>2, <1>3, <1>4, <1>5, <1>6, <1>7, <1>9, <1>10, <1>11, <1>12, <1>13, <1>14,
       <1>15, <1>16, <1>17, <1>18
       DEF Next, DraftStep, HandlerStep, ApprovalStep, ProviderStep

-----------------------------------------------------------------------------
(* The owner's decision on a request, and the text it was taken on, survive    *)
(* every edit, discard, execution, crash, restart and reconciliation.          *)
THEOREM DecisionsFinal == Spec => DecisionIsFinal
  <1>1. Typed /\ [Next]_vars =>
          \A a \in Approvals :
            approvals[a].status \in {"approved", "rejected"} =>
              /\ approvals'[a].status = approvals[a].status
              /\ approvals'[a].content = approvals[a].content
    BY NextIsBoundaryStep
       DEF BoundaryStep, DecisionStep, SameDecisions, OnlyRow, SameRow, Proposed, Revised, DecidedOn
  <1>2. QED
    BY <1>1, AlwaysTyped, PTL DEF Spec, DecisionIsFinal

(* Nothing but the approved text of a request, as the record still shows it,   *)
(* is ever on its way to the provider or was carried out by it.                *)
THEOREM OnlyApprovedText == Spec => []OnlyApprovedTakesEffect
  <1>1. Init => OnlyApprovedTakesEffect
    BY DEF Init, OnlyApprovedTakesEffect
  <1>2. Typed /\ OnlyApprovedTakesEffect /\ [Next]_vars => OnlyApprovedTakesEffect'
    <2> SUFFICES ASSUME Typed, OnlyApprovedTakesEffect, [Next]_vars,
                        NEW e \in wire' \cup accepted'
                 PROVE  /\ approvals'[e.approval].status = "approved"
                        /\ approvals'[e.approval].content = e.content
        BY DEF OnlyApprovedTakesEffect
    <2>1. Typed' /\ BoundaryStep
      BY TypedStep, NextIsBoundaryStep
    <2>2. e.approval \in Approvals
      BY <2>1 DEF Typed, TypeOK, Effect
    <2>3. /\ approvals[e.approval].status = "approved"
          /\ approvals[e.approval].content = e.content
      BY <2>1 DEF BoundaryStep, Dispatched, OnlyApprovedTakesEffect
    <2>4. SameRow(e.approval)
      BY <2>1, <2>2, <2>3
         DEF BoundaryStep, DecisionStep, SameDecisions, OnlyRow, Proposed, Revised, DecidedOn
    <2>5. QED
      BY <2>3, <2>4 DEF SameRow
  <1>3. QED
    BY <1>1, <1>2, AlwaysTyped, PTL DEF Spec

LEMMA AlwaysOnlyApproved == Spec => [](Typed /\ OnlyApprovedTakesEffect)
  BY AlwaysTyped, OnlyApprovedText, PTL

(* MailApproval implements ApprovalGate: seen through the decisions, the texts *)
(* and what the provider carried out, every step is a step of the gate.        *)
THEOREM MailApprovalImplementsGate == Spec => ImplementsGate
  <1> DEFINE decision == [a \in Approvals |-> approvals[a].status]
             text == [a \in Approvals |-> approvals[a].content]
  <1>1. Init => Gate!Init
    BY DEF Init, Gate!Init, NoApproval
  <1>2. Typed /\ OnlyApprovedTakesEffect /\ [Next]_vars => [Gate!Next]_(Gate!vars)
    <2> SUFFICES ASSUME Typed, OnlyApprovedTakesEffect, [Next]_vars
                 PROVE  Gate!Next \/ UNCHANGED Gate!vars
        OBVIOUS
    <2>1. BoundaryStep
      BY NextIsBoundaryStep
    <2>2. SameDecisions => UNCHANGED <<decision, text>>
      BY DEF SameDecisions, SameRow
    <2>3. CASE SameDecisions /\ accepted' = accepted
      BY <2>2, <2>3 DEF Gate!vars
    <2>4. CASE SameDecisions /\ \E e \in wire : accepted' = accepted \cup {e}
      <3>1. PICK e \in wire : accepted' = accepted \cup {e}
        BY <2>4
      <3>2. e \in Effect
        BY DEF Typed, TypeOK
      <3>3. /\ e.approval \in Approvals
            /\ e.attempt \in 1..MaxAttempts
            /\ e = [approval |-> e.approval, content |-> e.content, attempt |-> e.attempt]
        BY <3>2 DEF Effect
      <3>4. approvals[e.approval].status = "approved" /\ approvals[e.approval].content = e.content
        BY DEF OnlyApprovedTakesEffect
      <3>5. Gate!TakeEffect(e.approval, e.attempt)
        BY <2>2, <2>4, <3>1, <3>3, <3>4 DEF Gate!TakeEffect
      <3>6. QED
        BY <3>3, <3>5 DEF Gate!Next
    <2>5. ASSUME NEW a \in Approvals, OnlyRow(a), accepted' = accepted,
                 Proposed(a) \/ Revised(a) \/ DecidedOn(a)
          PROVE  Gate!Next
      <3>c. PICK c : c = approvals'[a].content
        OBVIOUS
      <3>s. PICK s : s = approvals'[a].status
        OBVIOUS
      <3>1. text' = [text EXCEPT ![a] = c]
        BY <2>5, <3>c DEF OnlyRow, SameRow
      <3>2. decision' = [decision EXCEPT ![a] = s]
        BY <2>5, <3>s DEF OnlyRow, SameRow
      <3>3. CASE Proposed(a)
        <4>1. Gate!Propose(a, c)
          BY <2>5, <3>s, <3>1, <3>2, <3>3 DEF Proposed, Gate!Propose
        <4>2. c \in Contents
          BY <3>c, <3>3 DEF Proposed
        <4>4. QED
          BY <4>1, <4>2 DEF Gate!Next
      <3>4. CASE Revised(a)
        <4>1. decision' = decision
          BY <3>s, <3>2, <3>4 DEF Revised
        <4>2. Gate!Revise(a, c)
          BY <2>5, <3>1, <3>4, <4>1 DEF Revised, Gate!Revise
        <4>3. c \in Contents
          BY <3>c, <3>4 DEF Revised
        <4>4. QED
          BY <4>2, <4>3 DEF Gate!Next
      <3>5. CASE DecidedOn(a)
        <4>1. text' = text
          BY <3>c, <3>1, <3>5 DEF DecidedOn
        <4>2. Gate!Decide(a, s)
          BY <2>5, <3>s, <3>2, <3>5, <4>1 DEF DecidedOn, Gate!Decide
        <4>3. s \in {"approved", "rejected"}
          BY <3>s, <3>5 DEF DecidedOn
        <4>4. QED
          BY <4>2, <4>3 DEF Gate!Next
      <3>6. QED
        BY <2>5, <3>3, <3>4, <3>5
    <2>6. QED
      BY <2>1, <2>3, <2>4, <2>5 DEF BoundaryStep, DecisionStep
  <1>3. QED
    BY <1>1, <1>2, AlwaysOnlyApproved, PTL DEF Spec, ImplementsGate, Gate!Spec

-----------------------------------------------------------------------------
(***************************************************************************)
(* Executions and the calls that wait for them.  Only an approved request   *)
(* is executing, a dead process waits for nothing, and calls and executing  *)
(* requests name each other.                                                *)
(***************************************************************************)
Executing(a) == approvals[a].execution = "executing"

Waits(r, a) == calls[r] # None /\ calls[r].approval = a

CallsMatch ==
  /\ \A a \in Approvals : Executing(a) => approvals[a].status = "approved"
  /\ ~up => \A r \in Calls : calls[r] = None
  /\ up => \A a \in Approvals : Executing(a) => \E r \in Calls : Waits(r, a)
  /\ \A r \in Calls, a \in Approvals : Waits(r, a) => Executing(a)
  /\ \A r, s \in Calls, a \in Approvals : Waits(r, a) /\ Waits(s, a) => r = s

\* Steps that begin and end no execution, and the four kinds that do.
NoExecutionStep ==
  calls' = calls /\ (up' <=> up) /\ \A a \in Approvals : Executing(a)' <=> Executing(a)

BeginStep ==
  \E r \in Calls, a \in Approvals :
    /\ up /\ up'
    /\ calls[r] = None
    /\ calls'[r] # None /\ calls'[r].approval = a
    /\ approvals[a].status = "approved"
    /\ ~Executing(a) /\ Executing(a)'
    /\ \A s \in Calls \ {r} : calls'[s] = calls[s]
    /\ \A b \in Approvals \ {a} : Executing(b)' <=> Executing(b)

ReturnStep ==
  \E r \in Calls, a \in Approvals :
    /\ up /\ up'
    /\ Waits(r, a)
    /\ calls'[r] = None
    /\ ~Executing(a)'
    /\ \A s \in Calls \ {r} : calls'[s] = calls[s]
    /\ \A b \in Approvals \ {a} : Executing(b)' <=> Executing(b)

CrashStep == ~up' /\ approvals' = approvals /\ \A r \in Calls : calls'[r] = None

RestartStep == ~up /\ up' /\ calls' = calls /\ \A a \in Approvals : ~Executing(a)'

ExecutionStep ==
  NoExecutionStep \/ BeginStep \/ ReturnStep \/ CrashStep \/ RestartStep

LEMMA BeginIsBeginStep ==
  ASSUME Typed, NEW r \in Calls, NEW a \in Approvals, BeginExecution(r, a), up, up'
  PROVE  BeginStep
  <1>1. approvals[a] \in Approval /\ approvals[a].attempt + 1 <= MaxAttempts
    BY DEF BeginExecution, Typed, TypeOK
  <1>2. /\ ~Executing(a) /\ Executing(a)'
        /\ \A b \in Approvals \ {a} : Executing(b)' <=> Executing(b)
    BY <1>1, BegunRow DEF BeginExecution, Claimable, Executing, Typed, TypeOK
  <1>3. calls'[r] # None /\ calls'[r].approval = a
    <2>1. calls'[r] = [approval |-> a, content |-> approvals[a].content,
                       attempt |-> approvals[a].attempt + 1]
      BY DEF BeginExecution, Typed, TypeOK
    <2>2. calls'[r] \in Effect
      BY <2>1, <1>1, MailApprovalAssumption, ApprovalRow
         DEF BeginExecution, Claimable, Typed, RowsOK, Effect
    <2>3. QED
      BY <2>1, <2>2, NoneIsNoEffect
  <1>4. QED
    BY <1>2, <1>3 DEF BeginStep, BeginExecution, Claimable, Typed, TypeOK

LEMMA NextIsExecutionStep == Typed /\ CallsMatch /\ [Next]_vars => ExecutionStep
  <1> SUFFICES ASSUME Typed, CallsMatch, [Next]_vars
               PROVE  ExecutionStep
      OBVIOUS
  <1> USE DEF Typed, TypeOK, ExecutionStep, NoExecutionStep, Executing, store, network, history
  <1>1. ASSUME NEW d \in Drafts, NEW c \in Contents, CreateDraft(d, c)
        PROVE  ExecutionStep
    BY <1>1 DEF CreateDraft
  <1>2. ASSUME NEW d \in Drafts, NEW c \in Contents, Edit(d, c)
        PROVE  ExecutionStep
    <2>1. drafts[d].approval # None => drafts[d].approval \in Approvals
      BY DraftRow
    <2>2. QED
      BY <1>2, <2>1, ApprovalWithText DEF Edit
  <1>3. ASSUME NEW d \in Drafts, NEW a \in Approvals, Submit(d, a)
        PROVE  ExecutionStep
    BY <1>3 DEF Submit
  <1>4. ASSUME NEW d \in Drafts, Discard(d)
        PROVE  ExecutionStep
    <2>1. drafts[d].approval # None =>
            /\ drafts[d].approval \in Approvals
            /\ ~Executing(drafts[d].approval)
      BY <1>4, DraftRow DEF Discard, Discardable, CallsMatch
    <2>2. QED
      BY <1>4, <2>1, DecidedRow DEF Discard
  <1>5. CASE AgentCreateDraft
    BY <1>5 DEF AgentCreateDraft
  <1>6. CASE SubmitEnqueue
    <2>1. handler.approval \in Approvals /\ ~Executing(handler.approval)
      BY <1>6 DEF SubmitEnqueue, InStep, HandlerOK, CallsMatch
    <2>2. QED
      BY <1>6, <2>1 DEF SubmitEnqueue, PendingRow
  <1>7. CASE SubmitLink
    BY <1>7 DEF SubmitLink
  <1>8. ASSUME NEW r \in Calls, ExecuteApproved(r)
        PROVE  ExecutionStep
    BY <1>8, BeginIsBeginStep DEF ExecuteApproved, InStep, HandlerOK
  <1>9. ASSUME NEW a \in Approvals, NEW c \in Contents, AgentEnqueue(a, c)
        PROVE  ExecutionStep
    <2>1. ~Executing(a)
      BY <1>9 DEF AgentEnqueue, CallsMatch
    <2>2. QED
      BY <1>9, <2>1 DEF AgentEnqueue, PendingRow
  <1>10. ASSUME NEW a \in Approvals, Approve(a) \/ Reject(a)
         PROVE  ExecutionStep
    <2>1. ~Executing(a)
      BY <1>10 DEF Approve, Reject, CallsMatch
    <2>2. QED
      BY <1>10, <2>1, DecidedRow DEF Approve, Reject
  <1>11. ASSUME NEW a \in Approvals, NEW outcome \in {"already_sent", "retry"},
                Reconcile(a, outcome)
         PROVE  ExecutionStep
    BY <1>11, ExecutedRow DEF Reconcile, ExecutionStatus
  <1>12. ASSUME NEW r \in Calls, NEW a \in Approvals, Execute(r, a)
         PROVE  ExecutionStep
    BY <1>12, BeginIsBeginStep DEF Execute, LoopFree
  <1>13. ASSUME NEW e \in wire, ProviderAccepts(e) \/ ProviderDrops(e)
         PROVE  ExecutionStep
    BY <1>13 DEF ProviderAccepts, ProviderDrops
  <1>14. ASSUME NEW r \in Calls, CallReturns(r)
         PROVE  ExecutionStep
    <2>1. PICK a \in Approvals : a = calls[r].approval /\ calls[r] # None
      BY <1>14 DEF CallReturns, CallSucceeds, CallFails, Effect
    <2>2. PICK x \in {"sent", "completed", "failed"} :
            approvals' = [approvals EXCEPT ![a] = Executed(@, x)]
      BY <1>14, <2>1 DEF CallReturns, CallSucceeds, CallFails
    <2>3. /\ ~Executing(a)'
          /\ \A b \in Approvals \ {a} : Executing(b)' <=> Executing(b)
      BY <2>2, ExecutedRow DEF ExecutionStatus
    <2>4. /\ up /\ up'
          /\ calls'[r] = None
          /\ \A s \in Calls \ {r} : calls'[s] = calls[s]
      BY <1>14 DEF CallReturns, CallSucceeds, CallFails, LoopFree
    <2>5. QED
      BY <2>1, <2>3, <2>4 DEF ReturnStep, Waits
  <1>15. CASE Crash
    BY <1>15 DEF Crash, CrashStep
  <1>16. CASE Restart
    <2>1. \A a \in Approvals : ~Executing(a)'
      BY <1>16, ExecutedRow DEF Restart, AfterRecovery, CallsMatch, ExecutionStatus
    <2>2. QED
      BY <1>16, <2>1 DEF Restart, RestartStep
  <1>17. CASE UNCHANGED vars
    BY <1>17 DEF vars
  <1>18. QED
    BY <1>1, <1>2, <1>3, <1>4, <1>5, <1>6, <1>7, <1>8, <1>9, <1>10, <1>11, <1>12, <1>13,
       <1>14, <1>15, <1>16, <1>17
       DEF Next, DraftStep, HandlerStep, ApprovalStep, ProviderStep

LEMMA CallsMatchStep == Typed /\ CallsMatch /\ [Next]_vars => CallsMatch'
  <1> SUFFICES ASSUME Typed, CallsMatch, [Next]_vars
               PROVE  CallsMatch'
      OBVIOUS
  <1>1. ExecutionStep /\ BoundaryStep /\ Typed'
    BY NextIsExecutionStep, NextIsBoundaryStep, TypedStep
  <1>2. \A a \in Approvals : approvals[a].status = "approved" => approvals'[a].status = "approved"
    BY <1>1 DEF BoundaryStep, DecisionStep, SameDecisions, OnlyRow, SameRow, Proposed, Revised,
                DecidedOn
  <1>3. \A a \in Approvals : Executing(a)' => approvals'[a].status = "approved"
    BY <1>1, <1>2 DEF CallsMatch, ExecutionStep, NoExecutionStep, BeginStep, ReturnStep, CrashStep,
                      RestartStep, Executing
  <1>4. ~up' => \A r \in Calls : calls'[r] = None
    BY <1>1 DEF CallsMatch, ExecutionStep, NoExecutionStep, BeginStep, ReturnStep, CrashStep,
                RestartStep
  <1>5. up' => \A a \in Approvals : Executing(a)' => \E r \in Calls : Waits(r, a)'
    <2> SUFFICES ASSUME up', NEW a \in Approvals, Executing(a)'
                 PROVE  \E r \in Calls : Waits(r, a)'
        OBVIOUS
    <2>1. CASE NoExecutionStep
      BY <2>1 DEF CallsMatch, NoExecutionStep, Waits
    <2>2. CASE BeginStep
      BY <2>2 DEF CallsMatch, BeginStep, Waits
    <2>3. CASE ReturnStep
      BY <2>3 DEF CallsMatch, ReturnStep, Waits
    <2>4. QED
      BY <1>1, <2>1, <2>2, <2>3 DEF ExecutionStep, CrashStep, RestartStep
  <1>6. \A r \in Calls, a \in Approvals : Waits(r, a)' => Executing(a)'
    BY <1>1 DEF CallsMatch, ExecutionStep, NoExecutionStep, BeginStep, ReturnStep, CrashStep,
                RestartStep, Waits
  <1>7. \A r, s \in Calls, a \in Approvals : Waits(r, a)' /\ Waits(s, a)' => r = s
    BY <1>1 DEF CallsMatch, ExecutionStep, NoExecutionStep, BeginStep, ReturnStep, CrashStep,
                RestartStep, Waits
  <1>8. QED
    BY <1>3, <1>4, <1>5, <1>6, <1>7 DEF CallsMatch

(* While the gateway runs, a request is executing exactly when one call, and   *)
(* only one, waits for its provider: the claim admits no second executor and   *)
(* neither a failure nor a restart leaves a request executing for nobody.      *)
THEOREM OneCallPerExecution == Spec => []ExecutingHasOneCall
  <1>1. Init => CallsMatch
    BY DEF Init, CallsMatch, NoApproval, Executing, Waits
  <1>2. CallsMatch => ExecutingHasOneCall
    <2> SUFFICES ASSUME CallsMatch, up, NEW a \in Approvals
                 PROVE  LET waiting == {r \in Calls : Waits(r, a)}
                        IN /\ Executing(a) <=> waiting # {}
                           /\ \A r, s \in waiting : r = s
        BY DEF ExecutingHasOneCall, Executing, Waits
    <2>1. QED
      BY DEF CallsMatch
  <1>3. QED
    BY <1>1, <1>2, CallsMatchStep, AlwaysTyped, PTL DEF Spec

-----------------------------------------------------------------------------
\* A request becomes done only by an answer of its call or of the owner.
LEMMA WhoFinishes ==
  ASSUME Typed, [Next]_vars, NEW a \in Approvals,
         approvals'[a].execution \in {"sent", "completed"},
         approvals[a].execution \notin {"sent", "completed"}
  PROVE  \/ \E r \in Calls : CallSucceeds(r) /\ calls[r].approval = a
         \/ Reconcile(a, "already_sent")
  <1> USE DEF Typed, TypeOK, store, network, history
  <1>1. \A b \in Approvals : approvals[b] \in Approval
    OBVIOUS
  <1>2. ASSUME NEW b \in Approvals, NEW row, approvals' = [approvals EXCEPT ![b] = row],
               row.execution \notin {"sent", "completed"}
        PROVE  FALSE
    BY <1>2
  <1>3. ~DraftStep
    <2>1. ASSUME NEW d \in Drafts, NEW c \in Contents, Edit(d, c)
          PROVE  FALSE
      BY <1>1, <2>1, ApprovalWithText, DraftRow DEF Edit
    <2>2. ASSUME NEW d \in Drafts, Discard(d)
          PROVE  FALSE
      BY <1>1, <2>2, DecidedRow, DraftRow DEF Discard
    <2>3. QED
      BY <2>1, <2>2 DEF DraftStep, CreateDraft, Submit
  <1>4. ASSUME NEW r \in Calls, NEW b \in Approvals, BeginExecution(r, b)
        PROVE  FALSE
    BY <1>1, <1>4, BeginTyped, BegunRow DEF BeginExecution, Begun
  <1>5. ~HandlerStep
    <2>1. ~SubmitEnqueue
      BY DEF SubmitEnqueue, PendingRow, HandlerOK, InStep
    <2>2. \A r \in Calls : ~ExecuteApproved(r)
      BY <1>4 DEF ExecuteApproved, HandlerOK, InStep
    <2>3. QED
      BY <2>1, <2>2 DEF HandlerStep, AgentCreateDraft, SubmitLink
  <1>6. CASE ApprovalStep
    <2>1. ASSUME NEW b \in Approvals, NEW c \in Contents, AgentEnqueue(b, c)
          PROVE  FALSE
      BY <2>1 DEF AgentEnqueue, PendingRow
    <2>2. ASSUME NEW b \in Approvals, Approve(b) \/ Reject(b)
          PROVE  FALSE
      BY <1>1, <2>2, DecidedRow DEF Approve, Reject
    <2>3. \A r \in Calls, b \in Approvals : ~Execute(r, b)
      BY <1>4 DEF Execute
    <2>4. ASSUME NEW b \in Approvals, Reconcile(b, "retry")
          PROVE  FALSE
      BY <1>1, <2>4, ExecutedRow DEF Reconcile, ExecutionStatus
    <2>5. ASSUME NEW b \in Approvals, Reconcile(b, "already_sent")
          PROVE  b = a
      BY <2>5 DEF Reconcile
    <2>6. QED
      BY <1>6, <2>1, <2>2, <2>3, <2>4, <2>5 DEF ApprovalStep
  <1>7. ASSUME NEW r \in Calls, CallSucceeds(r)
        PROVE  calls[r].approval = a
    BY <1>7 DEF CallSucceeds
  <1>8. ASSUME NEW r \in Calls, CallFails(r)
        PROVE  FALSE
    <2>1. PICK b \in Approvals : b = calls[r].approval
      BY <1>8 DEF CallFails, Effect
    <2>2. QED
      BY <1>1, <1>8, <2>1, ExecutedRow DEF CallFails, ExecutionStatus
  <1>9. ~ProviderStep /\ ~Crash /\ ~UNCHANGED vars
    BY DEF ProviderStep, ProviderAccepts, ProviderDrops, Crash, vars
  <1>10. ~Restart
    BY <1>1, ExecutedRow DEF Restart, AfterRecovery, ExecutionStatus
  <1>11. QED
    BY <1>3, <1>5, <1>6, <1>7, <1>8, <1>9, <1>10 DEF Next, CallReturns

(* What the record calls sent or completed did happen at the provider, or the  *)
(* owner said so of an uncertain send: no failure and no recovery writes a     *)
(* success that nobody saw.                                                    *)
THEOREM DoneWasDone == Spec => []DoneWasAccepted
  <1>1. Init => DoneWasAccepted
    BY DEF Init, DoneWasAccepted, NoApproval
  <1>2. Typed /\ DoneWasAccepted /\ [Next]_vars => DoneWasAccepted'
    <2> SUFFICES ASSUME Typed, DoneWasAccepted, [Next]_vars,
                        NEW a \in Approvals, approvals'[a].execution \in {"sent", "completed"}
                 PROVE  \/ \E e \in accepted' : e.approval = a
                        \/ \E x \in reconciled' : x.approval = a /\ x.outcome = "already_sent"
        BY DEF DoneWasAccepted
    <2>1. accepted \subseteq accepted' /\ reconciled \subseteq reconciled'
      BY DEF Next, DraftStep, HandlerStep, ApprovalStep, ProviderStep, CallReturns, CreateDraft, Edit,
             Submit, Discard, AgentCreateDraft, SubmitEnqueue, SubmitLink, ExecuteApproved,
             AgentEnqueue, Approve, Reject, Reconcile, Execute, BeginExecution, ProviderAccepts,
             ProviderDrops, CallSucceeds, CallFails, Crash, Restart, vars, store, network, history
    <2>2. CASE approvals[a].execution \in {"sent", "completed"}
      BY <2>1, <2>2 DEF DoneWasAccepted
    <2>3. CASE approvals[a].execution \notin {"sent", "completed"}
      <3>1. \/ \E r \in Calls : CallSucceeds(r) /\ calls[r].approval = a
            \/ Reconcile(a, "already_sent")
        BY <2>3, WhoFinishes
      <3>2. ASSUME NEW r \in Calls, CallSucceeds(r), calls[r].approval = a
            PROVE  \E e \in accepted' : e.approval = a
        BY <2>1, <3>2 DEF CallSucceeds
      <3>3. ASSUME Reconcile(a, "already_sent")
            PROVE  \E x \in reconciled' : x.approval = a /\ x.outcome = "already_sent"
        <4> DEFINE x == [approval |-> a, attempt |-> approvals[a].attempt,
                         outcome |-> "already_sent"]
        <4>1. x \in reconciled' /\ x.approval = a /\ x.outcome = "already_sent"
          BY <3>3 DEF Reconcile
        <4>2. QED
          BY <4>1
      <3>4. QED
        BY <3>1, <3>2, <3>3
    <2>4. QED
      BY <2>2, <2>3
  <1>3. QED
    BY <1>1, <1>2, AlwaysTyped, PTL DEF Spec

-----------------------------------------------------------------------------
(***************************************************************************)
(* Drafts and the approvals they name.  Tells is DraftMatchesApproval for   *)
(* one draft; it is inductive with three more facts: no two drafts name one *)
(* approval, only a granted approval leaves "not_applicable", and what a    *)
(* handler found before its first transaction still holds at its last.      *)
(***************************************************************************)
Tells(draft, row) ==
  /\ draft.status \in {"absent", "draft"} => draft.approval = None
  /\ draft.status = "approval_pending" =>
       /\ draft.approval # None
       /\ row.status \in {"pending", "approved"}
       /\ row.execution # "sent"
       /\ row.content = draft.content
  /\ draft.status = "sent" =>
       /\ draft.approval # None
       /\ row.execution = "sent"
       /\ row.content = draft.content
  /\ draft.status = "discarded" /\ draft.approval # None => row.status = "rejected"

Granted(row) == row.execution # "not_applicable" => row.status = "approved"

Unnamed(a) == \A d \in Drafts : drafts[d].approval # a

Apart ==
  \A d, e \in Drafts : drafts[d].approval = drafts[e].approval /\ drafts[d].approval # None => d = e

\* An open request that a draft was submitted for is named by it, or soon will be.
Linked(a) ==
  approvals[a].origin # None /\ approvals[a].status \in {"pending", "approved"} =>
    \/ drafts[approvals[a].origin].approval = a
    \/ handler.step = "link" /\ handler.approval = a /\ handler.draft = approvals[a].origin

HandlerKnows ==
  /\ handler.step \in {"enqueue", "link"} =>
       drafts[handler.draft].status # "sent" /\ drafts[handler.draft].approval = None
  /\ handler.step \in {"link", "create_draft"} =>
       approvals[handler.approval].status = "pending" /\ Unnamed(handler.approval)
  /\ handler.step = "link" =>
       /\ approvals[handler.approval].content = drafts[handler.draft].content
       /\ approvals[handler.approval].execution # "sent"
  /\ handler.step = "create_draft" =>
       /\ drafts[handler.draft].status = "absent"
       /\ approvals[handler.approval].execution # "sent"

Story ==
  /\ \A d \in Drafts : Tells(drafts[d], approvals[drafts[d].approval])
  /\ \A a \in Approvals : Granted(approvals[a])
  /\ Apart
  /\ HandlerKnows
  /\ \A a \in Approvals \ orphans : Linked(a)

LEMMA StoryFacts ==
  ASSUME Typed, Story
  PROVE  /\ \A d \in Drafts : drafts[d].approval \in Approvals \cup {None} /\ drafts[d] \in Draft
         /\ \A a \in Approvals : approvals[a] \in Approval
         /\ \A a \in Approvals : approvals[a].origin # None => approvals[a].origin \in Drafts
         /\ \A a \in Approvals : approvals[a].status = "absent" => Unnamed(a)
         /\ \A a \in Approvals : approvals[a].execution # "not_applicable" =>
                                   approvals[a].status = "approved"
  <1>1. /\ \A d \in Drafts : drafts[d].approval \in Approvals \cup {None} /\ drafts[d] \in Draft
        /\ \A a \in Approvals : approvals[a] \in Approval
        /\ \A a \in Approvals : approvals[a].origin # None => approvals[a].origin \in Drafts
    BY DraftRow, ApprovalRow DEF Typed, TypeOK
  <1>2. \A a \in Approvals : approvals[a].execution # "not_applicable" =>
                               approvals[a].status = "approved"
    BY DEF Story, Granted
  <1>3. ASSUME NEW a \in Approvals, approvals[a].status = "absent", NEW d \in Drafts,
               drafts[d].approval = a
        PROVE  FALSE
    <2>1. Tells(drafts[d], approvals[a]) /\ a # None
      BY <1>3, MailApprovalAssumption DEF Story
    <2>2. drafts[d].status \in DraftStatus
      BY <1>1, DraftRow
    <2>3. QED
      BY <1>2, <1>3, <2>1, <2>2 DEF Tells, DraftStatus
  <1>4. QED
    BY <1>1, <1>2, <1>3 DEF Unnamed

\* A row whose execution moves on, and no more.
Moves(a) ==
  /\ approvals'[a].status = approvals[a].status
  /\ approvals'[a].content = approvals[a].content
  /\ approvals'[a].origin = approvals[a].origin
  /\ approvals'[a].execution = "sent" <=> approvals[a].execution = "sent"
  /\ approvals[a].status = "approved" \/ approvals'[a].execution = approvals[a].execution

LEMMA ExecutionsKeepTheStory ==
  ASSUME Typed, Story, \A a \in Approvals : Moves(a), drafts' = drafts,
         \/ handler' = handler /\ orphans' = orphans
         \/ /\ handler' = Idle
            /\ orphans' = IF handler.step = "link" THEN orphans \cup {handler.approval} ELSE orphans
  PROVE  Story'
  <1>1. \A d \in Drafts : Tells(drafts[d], approvals[drafts[d].approval])'
    BY StoryFacts DEF Story, Tells, Moves
  <1>2. \A a \in Approvals : Granted(approvals[a])'
    BY DEF Story, Granted, Moves
  <1>3. Apart'
    BY DEF Story, Apart
  <1>4. HandlerKnows'
    BY DEF Story, HandlerKnows, Moves, Unnamed, Idle, Typed, HandlerOK
  <1>5. \A a \in Approvals \ orphans' : Linked(a)'
    BY DEF Story, Linked, Moves, Idle
  <1>6. QED
    BY <1>1, <1>2, <1>3, <1>4, <1>5 DEF Story

\* complete_approval_execution and reconcile_uncertain: the drafts of a become sent.
LEMMA SendingKeepsTheStory ==
  ASSUME Typed, Story, NEW a \in Approvals,
         approvals[a].status = "approved", approvals[a].execution # "sent",
         approvals' = [approvals EXCEPT ![a] = Executed(@, "sent")],
         drafts' = Sent(a), handler = Idle, handler' = handler, orphans' = orphans
  PROVE  Story'
  <1>1. /\ approvals'[a].status = "approved"
        /\ approvals'[a].content = approvals[a].content
        /\ approvals'[a].execution = "sent"
        /\ approvals'[a].origin = approvals[a].origin
        /\ \A b \in Approvals \ {a} : approvals'[b] = approvals[b]
    BY StoryFacts DEF Typed, TypeOK, Executed, Approval
  <1>2. \A d \in Drafts :
          /\ drafts'[d].content = drafts[d].content
          /\ drafts'[d].approval = drafts[d].approval
          /\ drafts'[d].status = IF drafts[d].approval = a THEN "sent" ELSE drafts[d].status
    BY SentDrafts DEF Typed
  <1>3. ASSUME NEW d \in Drafts
        PROVE  Tells(drafts[d], approvals[drafts[d].approval])'
    <2>1. Tells(drafts[d], approvals[drafts[d].approval]) /\ drafts[d].status \in DraftStatus
      BY StoryFacts, DraftRow DEF Story
    <2>2. CASE drafts[d].approval = a
      <3>1. drafts[d].status = "approval_pending"
        BY <2>1, <2>2, MailApprovalAssumption DEF Tells, DraftStatus
      <3>2. QED
        BY <1>1, <1>2, <2>1, <2>2, <3>1, MailApprovalAssumption DEF Tells
    <2>3. CASE drafts[d].approval # a
      BY <1>1, <1>2, <2>1, <2>3, StoryFacts DEF Tells
    <2>4. QED
      BY <2>2, <2>3
  <1>4. \A b \in Approvals : Granted(approvals[b])'
    BY <1>1 DEF Story, Granted
  <1>5. Apart'
    BY <1>2 DEF Story, Apart
  <1>6. HandlerKnows'
    BY DEF HandlerKnows, Idle
  <1>7. \A b \in Approvals \ orphans' : Linked(b)'
    BY <1>1, <1>2, StoryFacts DEF Story, Linked, Idle
  <1>8. QED
    BY <1>3, <1>4, <1>5, <1>6, <1>7 DEF Story

LEMMA BeginMoves ==
  ASSUME Typed, Story, NEW r \in Calls, NEW a \in Approvals, BeginExecution(r, a)
  PROVE  \A b \in Approvals : Moves(b)
  <1>1. approvals' = [approvals EXCEPT ![a] = Begun(@)] /\ Claimable(a)
    BY DEF BeginExecution
  <1>2. /\ Begun(approvals[a]).status = approvals[a].status
        /\ Begun(approvals[a]).content = approvals[a].content
        /\ Begun(approvals[a]).origin = approvals[a].origin
        /\ Begun(approvals[a]).execution = "executing"
    BY StoryFacts DEF Begun, Executed, Approval
  <1>3. QED
    BY <1>1, <1>2 DEF Moves, Claimable, Typed, TypeOK

LEMMA MoveMoves ==
  ASSUME Typed, Story, NEW a \in Approvals, NEW x \in ExecutionStatus \ {"sent"},
         approvals' = [approvals EXCEPT ![a] = Executed(@, x)],
         approvals[a].status = "approved", approvals[a].execution # "sent"
  PROVE  \A b \in Approvals : Moves(b)
  <1>1. /\ Executed(approvals[a], x).status = approvals[a].status
        /\ Executed(approvals[a], x).content = approvals[a].content
        /\ Executed(approvals[a], x).origin = approvals[a].origin
        /\ Executed(approvals[a], x).execution = x
    BY StoryFacts DEF Executed, Approval
  <1>2. QED
    BY <1>1 DEF Moves, Typed, TypeOK

LEMMA DraftsKeepTheStory ==
  ASSUME Typed, Story, DraftStep
  PROVE  Story'
  <1> USE StoryFacts
  <1>1. ASSUME NEW d \in Drafts, NEW c \in Contents, CreateDraft(d, c)
        PROVE  Story'
    <2>1. /\ drafts'[d].status = "draft" /\ drafts'[d].approval = None
          /\ drafts[d].approval = None
          /\ \A e \in Drafts \ {d} : drafts'[e] = drafts[e]
          /\ handler = Idle /\ UNCHANGED <<approvals, handler, orphans>>
      BY <1>1 DEF CreateDraft, LoopFree, history, Typed, TypeOK, RowsOK
    <2>2. \A e \in Drafts : Tells(drafts[e], approvals[drafts[e].approval])'
      BY <2>1 DEF Story, Tells
    <2>3. Apart' /\ HandlerKnows'
      BY <2>1 DEF Story, Apart, HandlerKnows, Idle
    <2>4. \A b \in Approvals \ orphans' : Linked(b)'
      BY <2>1, MailApprovalAssumption DEF Story, Linked, Idle
    <2>5. QED
      BY <2>1, <2>2, <2>3, <2>4 DEF Story, Granted
  <1>2. ASSUME NEW d \in Drafts, NEW c \in Contents, Edit(d, c)
        PROVE  Story'
    <2>1. /\ drafts'[d].content = c
          /\ drafts'[d].status = drafts[d].status /\ drafts'[d].approval = drafts[d].approval
          /\ \A e \in Drafts \ {d} : drafts'[e] = drafts[e]
          /\ handler = Idle /\ UNCHANGED <<handler, orphans>>
      BY <1>2, DraftWithText DEF Edit, LoopFree, history, Typed, TypeOK
    <2>2. \A a \in Approvals :
            /\ approvals'[a].status = approvals[a].status
            /\ approvals'[a].execution = approvals[a].execution
            /\ approvals'[a].origin = approvals[a].origin
            /\ approvals'[a].content = IF drafts[d].approval = a THEN c ELSE approvals[a].content
      BY <1>2, MailApprovalAssumption DEF Edit, WithText, Approval, Typed, TypeOK
    <2>3. ASSUME NEW e \in Drafts
          PROVE  Tells(drafts[e], approvals[drafts[e].approval])'
      <3>1. Tells(drafts[e], approvals[drafts[e].approval])
        BY DEF Story
      <3>2. CASE e = d
        <4>1. drafts[d].status # "sent"
          BY <1>2 DEF Edit, Editable
        <4>2. QED
          BY <2>1, <2>2, <3>1, <3>2, <4>1 DEF Tells
      <3>3. CASE e # d
        <4>1. drafts[e].approval = None \/ drafts[e].approval # drafts[d].approval
          BY <3>3 DEF Story, Apart
        <4>2. drafts'[e] = drafts[e]
          BY <2>1, <3>3
        <4>3. QED
          BY <2>2, <3>1, <4>1, <4>2 DEF Tells
      <3>4. QED
        BY <3>2, <3>3
    <2>4. Apart' /\ HandlerKnows'
      BY <2>1 DEF Story, Apart, HandlerKnows, Idle
    <2>5. \A b \in Approvals \ orphans' : Linked(b)'
      BY <2>1, <2>2 DEF Story, Linked, Idle
    <2>6. \A b \in Approvals : Granted(approvals[b])'
      BY <2>2 DEF Story, Granted
    <2>7. QED
      BY <2>3, <2>4, <2>5, <2>6 DEF Story
  <1>3. ASSUME NEW d \in Drafts, NEW a \in Approvals, Submit(d, a)
        PROVE  Story'
    <2>1. /\ handler'.step = "enqueue" /\ handler'.draft = d /\ handler'.approval = a
          /\ drafts[d].status # "sent" /\ drafts[d].approval = None
          /\ handler = Idle /\ UNCHANGED <<approvals, drafts, orphans>>
      BY <1>3 DEF Submit, Submittable, LoopFree, history, store
    <2>2. HandlerKnows'
      BY <2>1 DEF HandlerKnows
    <2>3. \A b \in Approvals \ orphans' : Linked(b)'
      BY <2>1 DEF Story, Linked, Idle
    <2>4. QED
      BY <2>1, <2>2, <2>3 DEF Story, Tells, Granted, Apart
  <1>4. ASSUME NEW d \in Drafts, Discard(d)
        PROVE  Story'
    <2>1. /\ drafts'[d].status = "discarded" /\ drafts'[d].approval = drafts[d].approval
          /\ \A e \in Drafts \ {d} : drafts'[e] = drafts[e]
          /\ handler = Idle /\ UNCHANGED <<handler, orphans>>
      BY <1>4, DraftWithStatus DEF Discard, LoopFree, history, Typed, TypeOK, DraftStatus
    <2>2. \A a \in Approvals :
            /\ drafts[d].approval = a => /\ approvals'[a].status = "rejected"
                                        /\ approvals'[a].execution = "not_applicable"
            /\ drafts[d].approval # a => approvals'[a] = approvals[a]
            /\ approvals'[a].origin = approvals[a].origin
      <3>1. CASE drafts[d].approval = None
        BY <1>4, <3>1, MailApprovalAssumption DEF Discard
      <3>2. CASE drafts[d].approval \in Approvals
        <4>1. PICK a \in Approvals : a = drafts[d].approval
          BY <3>2
        <4>2. approvals' = [approvals EXCEPT ![a] = Decided(@, "rejected")]
          BY <1>4, <4>1, MailApprovalAssumption DEF Discard
        <4>3. Decided(approvals[a], "rejected").origin = approvals[a].origin
          BY DEF Decided, Approval
        <4>4. QED
          BY <4>1, <4>2, <4>3, DecidedRow DEF Typed, TypeOK
      <3>3. QED
        BY <3>1, <3>2
    <2>3. ASSUME NEW e \in Drafts
          PROVE  Tells(drafts[e], approvals[drafts[e].approval])'
      <3>1. Tells(drafts[e], approvals[drafts[e].approval])
        BY DEF Story
      <3>2. CASE e = d
        BY <2>1, <2>2, <3>1, <3>2 DEF Tells
      <3>3. CASE e # d
        <4>1. drafts[e].approval = None \/ drafts[e].approval # drafts[d].approval
          BY <3>3 DEF Story, Apart
        <4>2. drafts'[e] = drafts[e]
          BY <2>1, <3>3
        <4>3. QED
          BY <2>2, <3>1, <4>1, <4>2 DEF Tells
      <3>4. QED
        BY <3>2, <3>3
    <2>4. Apart' /\ HandlerKnows'
      BY <2>1 DEF Story, Apart, HandlerKnows, Idle
    <2>5. \A b \in Approvals \ orphans' : Linked(b)'
      BY <2>1, <2>2 DEF Story, Linked, Idle
    <2>6. \A b \in Approvals : Granted(approvals[b])'
      BY <2>2 DEF Story, Granted
    <2>7. QED
      BY <2>3, <2>4, <2>5, <2>6 DEF Story
  <1>5. QED
    BY <1>1, <1>2, <1>3, <1>4 DEF DraftStep

LEMMA HandlersKeepTheStory ==
  ASSUME Typed, Story, HandlerStep
  PROVE  Story'
  <1> USE StoryFacts
  <1>1. ASSUME AgentCreateDraft
        PROVE  Story'
    <2>1. PICK d \in Drafts, a \in Approvals : d = handler.draft /\ a = handler.approval
      BY <1>1 DEF AgentCreateDraft, InStep, Typed, HandlerOK
    <2>2. /\ drafts'[d].status = "approval_pending" /\ drafts'[d].approval = a
          /\ drafts'[d].content = approvals[a].content
          /\ \A e \in Drafts \ {d} : drafts'[e] = drafts[e]
          /\ handler' = Idle /\ UNCHANGED <<approvals, orphans>>
      BY <1>1, <2>1 DEF AgentCreateDraft, history, Typed, TypeOK
    <2>3. /\ approvals[a].status = "pending" /\ approvals[a].execution # "sent" /\ Unnamed(a)
          /\ drafts[d].approval = None
          /\ handler.step = "create_draft"
      BY <1>1, <2>1 DEF AgentCreateDraft, InStep, Story, HandlerKnows, Typed, RowsOK
    <2>4. \A e \in Drafts : Tells(drafts[e], approvals[drafts[e].approval])'
      BY <2>2, <2>3, MailApprovalAssumption DEF Story, Tells
    <2>5. Apart' /\ HandlerKnows'
      BY <2>2, <2>3 DEF Story, Apart, HandlerKnows, Unnamed, Idle
    <2>6. \A b \in Approvals \ orphans' : Linked(b)'
      BY <2>2, <2>3, MailApprovalAssumption DEF Story, Linked, Idle
    <2>7. QED
      BY <2>2, <2>4, <2>5, <2>6 DEF Story, Granted
  <1>2. ASSUME SubmitEnqueue
        PROVE  Story'
    <2>1. PICK d \in Drafts, a \in Approvals : d = handler.draft /\ a = handler.approval
      BY <1>2 DEF SubmitEnqueue, InStep, Typed, HandlerOK
    <2>2. /\ approvals'[a] = PendingRow("outbound", drafts[d].content, d)
          /\ \A b \in Approvals \ {a} : approvals'[b] = approvals[b]
          /\ handler'.step = "link" /\ handler'.draft = d /\ handler'.approval = a
          /\ UNCHANGED <<drafts, orphans>>
      BY <1>2, <2>1 DEF SubmitEnqueue, history, Typed, TypeOK, Handler
    <2>3. /\ approvals[a].status = "absent" /\ Unnamed(a)
          /\ drafts[d].status # "sent" /\ drafts[d].approval = None
          /\ handler.step = "enqueue"
      BY <1>2, <2>1 DEF SubmitEnqueue, InStep, Story, HandlerKnows, Typed, HandlerOK
    <2>4. \A e \in Drafts : Tells(drafts[e], approvals[drafts[e].approval])'
      <3>1. \A e \in Drafts : drafts[e].approval # a
        BY <2>3 DEF Unnamed
      <3>2. QED
        BY <2>2, <3>1 DEF Story, Tells
    <2>5. Apart' /\ HandlerKnows'
      BY <2>2, <2>3 DEF Story, Apart, HandlerKnows, Unnamed, PendingRow
    <2>6. \A b \in Approvals \ orphans' : Linked(b)'
      BY <2>2, <2>3 DEF Story, Linked, PendingRow
    <2>7. \A b \in Approvals : Granted(approvals[b])'
      BY <2>2 DEF Story, Granted, PendingRow
    <2>8. QED
      BY <2>4, <2>5, <2>6, <2>7 DEF Story
  <1>3. ASSUME SubmitLink
        PROVE  Story'
    <2>1. PICK d \in Drafts, a \in Approvals : d = handler.draft /\ a = handler.approval
      BY <1>3 DEF SubmitLink, InStep, Typed, HandlerOK
    <2>2. /\ drafts'[d].status = "approval_pending" /\ drafts'[d].approval = a
          /\ drafts'[d].content = drafts[d].content
          /\ \A e \in Drafts \ {d} : drafts'[e] = drafts[e]
          /\ handler' = Idle /\ UNCHANGED <<approvals, orphans>>
      BY <1>3, <2>1 DEF SubmitLink, history, Typed, TypeOK
    <2>3. /\ approvals[a].status = "pending" /\ approvals[a].execution # "sent" /\ Unnamed(a)
          /\ approvals[a].content = drafts[d].content
          /\ drafts[d].approval = None
          /\ handler.step = "link"
      BY <1>3, <2>1 DEF SubmitLink, InStep, Story, HandlerKnows
    <2>4. \A e \in Drafts : Tells(drafts[e], approvals[drafts[e].approval])'
      BY <2>2, <2>3, MailApprovalAssumption DEF Story, Tells
    <2>5. Apart' /\ HandlerKnows'
      BY <2>2, <2>3 DEF Story, Apart, HandlerKnows, Unnamed, Idle
    <2>6. \A b \in Approvals \ orphans' : Linked(b)'
      BY <2>1, <2>2, <2>3, MailApprovalAssumption DEF Story, Linked, Idle
    <2>7. QED
      BY <2>2, <2>4, <2>5, <2>6 DEF Story, Granted
  <1>4. ASSUME NEW r \in Calls, ExecuteApproved(r)
        PROVE  Story'
    <2>1. handler.approval \in Approvals /\ handler.step = "claim"
      BY <1>4 DEF ExecuteApproved, InStep, Typed, HandlerOK
    <2>2. \A b \in Approvals : Moves(b)
      BY <1>4, <2>1, BeginMoves DEF ExecuteApproved
    <2>3. QED
      BY <1>4, <2>1, <2>2, ExecutionsKeepTheStory DEF ExecuteApproved, history
  <1>5. QED
    BY <1>1, <1>2, <1>3, <1>4 DEF HandlerStep

LEMMA ApprovalsKeepTheStory ==
  ASSUME Typed, Story, ApprovalStep
  PROVE  Story'
  <1> USE StoryFacts
  <1>1. ASSUME NEW a \in Approvals, NEW c \in Contents, AgentEnqueue(a, c)
        PROVE  Story'
    <2>1. PICK k \in Kinds : /\ approvals'[a] = PendingRow(k, c, None)
                             /\ \A b \in Approvals \ {a} : approvals'[b] = approvals[b]
      BY <1>1 DEF AgentEnqueue, Kinds, Typed, TypeOK
    <2>2. /\ approvals[a].status = "absent" /\ Unnamed(a)
          /\ handler = Idle /\ UNCHANGED <<drafts, orphans>>
      BY <1>1 DEF AgentEnqueue, LoopFree, history
    <2>3. \/ handler' = Idle
          \/ /\ handler'.step = "create_draft" /\ handler'.approval = a
             /\ drafts[handler'.draft].status = "absent"
      BY <1>1, <2>2 DEF AgentEnqueue
    <2>4. \A e \in Drafts : Tells(drafts[e], approvals[drafts[e].approval])'
      <3>1. \A e \in Drafts : drafts[e].approval # a
        BY <2>2 DEF Unnamed
      <3>2. QED
        BY <2>1, <2>2, <3>1 DEF Story, Tells
    <2>5. Apart' /\ HandlerKnows'
      BY <2>1, <2>2, <2>3 DEF Story, Apart, HandlerKnows, Unnamed, PendingRow, Idle
    <2>6. \A b \in Approvals \ orphans' : Linked(b)'
      BY <2>1, <2>2 DEF Story, Linked, PendingRow, Idle
    <2>7. \A b \in Approvals : Granted(approvals[b])'
      BY <2>1 DEF Story, Granted, PendingRow
    <2>8. QED
      BY <2>4, <2>5, <2>6, <2>7 DEF Story
  <1>2. ASSUME NEW a \in Approvals, Approve(a)
        PROVE  Story'
    <2>1. /\ approvals'[a].status = "approved" /\ approvals'[a].execution = "ready"
          /\ approvals'[a].content = approvals[a].content
          /\ approvals'[a].origin = approvals[a].origin
          /\ \A b \in Approvals \ {a} : approvals'[b] = approvals[b]
      BY <1>2 DEF Approve, Decided, Approval, Typed, TypeOK
    <2>2. /\ approvals[a].status = "pending" /\ handler = Idle /\ handler'.step = "claim"
          /\ UNCHANGED <<drafts, orphans>>
      BY <1>2 DEF Approve, LoopFree, history
    <2>3. \A e \in Drafts : Tells(drafts[e], approvals[drafts[e].approval])'
      BY <2>1, <2>2 DEF Story, Tells
    <2>4. Apart' /\ HandlerKnows'
      BY <2>2 DEF Story, Apart, HandlerKnows
    <2>5. \A b \in Approvals \ orphans' : Linked(b)'
      BY <2>1, <2>2 DEF Story, Linked, Idle
    <2>6. \A b \in Approvals : Granted(approvals[b])'
      BY <2>1 DEF Story, Granted
    <2>7. QED
      BY <2>3, <2>4, <2>5, <2>6 DEF Story
  <1>3. ASSUME NEW a \in Approvals, Reject(a)
        PROVE  Story'
    <2>1. /\ approvals'[a].status = "rejected" /\ approvals'[a].execution = "not_applicable"
          /\ approvals'[a].origin = approvals[a].origin
          /\ \A b \in Approvals \ {a} : approvals'[b] = approvals[b]
      BY <1>3 DEF Reject, Decided, Approval, Typed, TypeOK
    <2>2. /\ approvals[a].status = "pending" /\ handler = Idle
          /\ drafts' = Released(a) /\ UNCHANGED <<handler, orphans>>
      BY <1>3 DEF Reject, LoopFree, history
    <2>3. ASSUME NEW d \in Drafts
          PROVE  IF drafts[d].approval = a
                 THEN drafts'[d].status = "draft" /\ drafts'[d].approval = None
                 ELSE drafts'[d] = drafts[d]
      <3>1. CASE drafts[d].approval = a
        <4>1. Tells(drafts[d], approvals[a]) /\ drafts[d].status \in DraftStatus
          BY <3>1, DraftRow DEF Story
        <4>2. drafts[d].status = "approval_pending"
          BY <2>2, <3>1, <4>1, MailApprovalAssumption DEF Tells, DraftStatus
        <4>3. QED
          BY <2>2, <3>1, <4>2 DEF Released
      <3>2. CASE drafts[d].approval # a
        BY <2>2, <3>2 DEF Released
      <3>3. QED
        BY <3>1, <3>2
    <2>4. \A e \in Drafts : Tells(drafts[e], approvals[drafts[e].approval])'
      BY <2>1, <2>3, MailApprovalAssumption DEF Story, Tells
    <2>5. Apart' /\ HandlerKnows'
      BY <2>2, <2>3 DEF Story, Apart, HandlerKnows, Idle
    <2>6. \A b \in Approvals \ orphans' : Linked(b)'
      BY <2>1, <2>2, <2>3 DEF Story, Linked, Idle
    <2>7. \A b \in Approvals : Granted(approvals[b])'
      BY <2>1 DEF Story, Granted
    <2>8. QED
      BY <2>4, <2>5, <2>6, <2>7 DEF Story
  <1>4. ASSUME NEW a \in Approvals, Reconcile(a, "already_sent")
        PROVE  Story'
    BY <1>4, SendingKeepsTheStory DEF Reconcile, LoopFree
  <1>5. ASSUME NEW a \in Approvals, Reconcile(a, "retry")
        PROVE  Story'
    <2>1. \A b \in Approvals : Moves(b)
      BY <1>5, MoveMoves DEF Reconcile, ExecutionStatus
    <2>2. QED
      BY <1>5, <2>1, ExecutionsKeepTheStory DEF Reconcile
  <1>6. ASSUME NEW r \in Calls, NEW a \in Approvals, Execute(r, a)
        PROVE  Story'
    BY <1>6, BeginMoves, ExecutionsKeepTheStory DEF Execute, history
  <1>7. QED
    BY <1>1, <1>2, <1>3, <1>4, <1>5, <1>6 DEF ApprovalStep

LEMMA StoryStep == Typed /\ Story /\ [Next]_vars => Story'
  <1> SUFFICES ASSUME Typed, Story, [Next]_vars
               PROVE  Story'
      OBVIOUS
  <1>1. ASSUME approvals' = approvals
        PROVE  \A b \in Approvals : Moves(b)
    BY <1>1 DEF Moves
  <1>2. CASE ProviderStep
    BY <1>1, <1>2, ExecutionsKeepTheStory
       DEF ProviderStep, ProviderAccepts, ProviderDrops, store, history
  <1>3. ASSUME NEW r \in Calls, CallReturns(r)
        PROVE  Story'
    <2>1. PICK a \in Approvals : a = calls[r].approval
      BY <1>3 DEF CallReturns, CallSucceeds, CallFails, Effect, Typed, TypeOK
    <2>2. approvals[a].status = "approved" /\ approvals[a].execution = "executing"
      BY <1>3, <2>1 DEF CallReturns, CallSucceeds, CallFails, Story, Granted
    <2>3. CASE /\ approvals' = [approvals EXCEPT ![a] = Executed(@, "sent")]
               /\ drafts' = Sent(a) /\ handler = Idle /\ UNCHANGED <<handler, orphans>>
      BY <2>2, <2>3, SendingKeepsTheStory
    <2>4. ASSUME NEW x \in {"completed", "failed"},
                 approvals' = [approvals EXCEPT ![a] = Executed(@, x)],
                 UNCHANGED <<drafts, handler, orphans>>
          PROVE  Story'
      BY <2>2, <2>4, MoveMoves, ExecutionsKeepTheStory DEF ExecutionStatus
    <2>5. QED
      BY <1>3, <2>1, <2>3, <2>4 DEF CallReturns, CallSucceeds, CallFails, LoopFree, history
  <1>4. CASE Crash
    BY <1>1, <1>4, ExecutionsKeepTheStory DEF Crash, store
  <1>5. CASE Restart
    <2>1. \A b \in Approvals : Moves(b)
      <3>1. ASSUME NEW b \in Approvals
            PROVE  /\ AfterRecovery(approvals[b]).origin = approvals[b].origin
                   /\ \/ AfterRecovery(approvals[b]) = approvals[b]
                      \/ /\ approvals[b].status = "approved"
                         /\ approvals[b].execution = "executing"
                         /\ AfterRecovery(approvals[b]).execution \in {"uncertain", "failed"}
        BY StoryFacts DEF AfterRecovery, Executed, Approval
      <3>2. QED
        BY <1>5, <3>1, StoryFacts, RecoveredRow DEF Restart, Moves
    <2>2. QED
      BY <1>5, <2>1, ExecutionsKeepTheStory DEF Restart, history
  <1>6. CASE UNCHANGED vars
    BY <1>1, <1>6, ExecutionsKeepTheStory DEF vars
  <1>7. QED
    BY <1>2, <1>3, <1>4, <1>5, <1>6, DraftsKeepTheStory, HandlersKeepTheStory,
       ApprovalsKeepTheStory
       DEF Next

LEMMA AlwaysStory == Spec => [](Typed /\ Story)
  <1>1. Init => Story
    BY DEF Init, Story, Tells, Granted, Apart, HandlerKnows, Linked, NoApproval, NoDraft, Idle
  <1>2. QED
    BY <1>1, StoryStep, InitTyped, TypedStep, PTL DEF Spec

(* A draft and the approval it names never contradict each other, whatever    *)
(* handlers die between their transactions: what waits can still be decided    *)
(* and carries the text on screen, what was sent was sent, what was discarded  *)
(* is not executed.                                                            *)
THEOREM DraftsMatch == Spec => []DraftMatchesApproval
  <1>1. Story => DraftMatchesApproval
    BY DEF Story, Tells, DraftMatchesApproval
  <1>2. QED
    BY <1>1, AlwaysStory, PTL

(* One draft has one open request at most, however it is edited, rejected and  *)
(* submitted again, but for a death between enqueue and link.                  *)
THEOREM DraftsAreSubmittedOnce == Spec => []SubmittedOnce
  <1>1. Typed /\ Story => SubmittedOnce
    <2> SUFFICES ASSUME Typed, Story,
                        NEW a \in Approvals \ orphans, NEW b \in Approvals \ orphans,
                        approvals[a].origin # None, approvals[a].origin = approvals[b].origin,
                        approvals[a].status \in {"pending", "approved"},
                        approvals[b].status \in {"pending", "approved"}
                 PROVE  a = b
        BY DEF SubmittedOnce
    <2>1. PICK d \in Drafts : d = approvals[a].origin
      BY StoryFacts
    <2>2. /\ \/ drafts[d].approval = a
             \/ handler.step = "link" /\ handler.approval = a /\ handler.draft = d
          /\ \/ drafts[d].approval = b
             \/ handler.step = "link" /\ handler.approval = b /\ handler.draft = d
      BY <2>1 DEF Story, Linked
    <2>3. QED
      BY <2>2, MailApprovalAssumption DEF Story, HandlerKnows
  <1>2. QED
    BY <1>1, AlwaysStory, PTL

-----------------------------------------------------------------------------
(***************************************************************************)
(* Attempts.  What the provider has, or may still get, is the attempt the   *)
(* record is at; or the owner asked for another after it; or it was given   *)
(* up as failed without a refusal.                                          *)
(***************************************************************************)
Current(e) ==
  /\ approvals[e.approval].attempt = e.attempt
  /\ approvals[e.approval].execution \in {"executing", "uncertain", "sent"}

Asked(e) ==
  \E x \in reconciled : x.approval = e.approval /\ x.outcome = "retry" /\ x.attempt = e.attempt

Accounted(e) ==
  /\ e.attempt <= approvals[e.approval].attempt
  /\ approvals[e.approval].kind = "outbound" => Current(e) \/ e \in abandoned \/ Asked(e)

CallIsCurrent(r) ==
  calls[r] # None =>
    LET row == approvals[calls[r].approval]
    IN calls[r].attempt = row.attempt /\ calls[r].content = row.content

AttemptsOK ==
  /\ \A e \in wire \cup accepted : Accounted(e)
  /\ \A r \in Calls : CallIsCurrent(r)

AttemptInv == Typed /\ Story /\ CallsMatch /\ OnlyApprovedTakesEffect /\ AttemptsOK

LEMMA AttemptFacts ==
  ASSUME AttemptInv
  PROVE  /\ \A e \in wire \cup accepted :
              /\ e.approval \in Approvals /\ e.attempt \in 1..MaxAttempts
              /\ e = [approval |-> e.approval, content |-> e.content, attempt |-> e.attempt]
              /\ approvals[e.approval].status = "approved"
              /\ approvals[e.approval].content = e.content
         /\ \A r \in Calls : calls[r] # None =>
              /\ calls[r].approval \in Approvals
              /\ calls[r] = [approval |-> calls[r].approval, content |-> calls[r].content,
                             attempt |-> calls[r].attempt]
              /\ approvals[calls[r].approval].status = "approved"
              /\ approvals[calls[r].approval].execution = "executing"
         /\ \A a \in Approvals : approvals[a] \in Approval /\ approvals[a].attempt \in 0..MaxAttempts
  <1>1. /\ wire \cup accepted \subseteq Effect
        /\ \A r \in Calls : calls[r] # None => calls[r] \in Effect
    BY DEF AttemptInv, Typed, TypeOK
  <1>2. \A e \in Effect :
          /\ e.approval \in Approvals /\ e.attempt \in 1..MaxAttempts
          /\ e = [approval |-> e.approval, content |-> e.content, attempt |-> e.attempt]
    BY DEF Effect
  <1>3. \A r \in Calls : calls[r] # None =>
          /\ approvals[calls[r].approval].status = "approved"
          /\ approvals[calls[r].approval].execution = "executing"
    BY <1>1, <1>2 DEF AttemptInv, CallsMatch, Waits, Executing
  <1>4. \A a \in Approvals : approvals[a] \in Approval /\ approvals[a].attempt \in 0..MaxAttempts
    BY ApprovalRow DEF AttemptInv, Typed, TypeOK
  <1>5. QED
    BY <1>1, <1>2, <1>3, <1>4 DEF AttemptInv, OnlyApprovedTakesEffect

\* Granted rows stay as they are and nothing new goes to the provider.
QuietStep ==
  /\ \A a \in Approvals : approvals[a].status = "approved" => approvals'[a] = approvals[a]
  /\ wire' \cup accepted' \subseteq wire \cup accepted
  /\ \A r \in Calls : calls'[r] = calls[r] \/ calls'[r] = None
  /\ UNCHANGED <<reconciled, abandoned>>
  /\ \A d \in Drafts : drafts[d].status = "sent" => drafts'[d] = drafts[d]

\* The steps that move a granted row on; the fifth kind is Restart.
BeginsStep ==
  \E r \in Calls, a \in Approvals :
    /\ BeginExecution(r, a)
    /\ UNCHANGED <<drafts, accepted, reconciled, abandoned>>

ReturnsStep == \E r \in Calls : CallReturns(r)

ReconcileStep ==
  \E a \in Approvals, outcome \in {"already_sent", "retry"} : Reconcile(a, outcome)

LEMMA NextIsAttemptStep ==
  ASSUME AttemptInv, [Next]_vars
  PROVE  QuietStep \/ BeginsStep \/ ReturnsStep \/ ReconcileStep \/ Restart
  <1> USE DEF QuietStep, network, history, store
  <1>1. ASSUME NEW d \in Drafts, NEW c \in Contents, CreateDraft(d, c)
        PROVE  QuietStep
    BY <1>1 DEF CreateDraft, AttemptInv, Typed, TypeOK
  <1>2. ASSUME NEW d \in Drafts, NEW c \in Contents, Edit(d, c)
        PROVE  QuietStep
    BY <1>2 DEF Edit, Editable, AttemptInv, Typed, TypeOK
  <1>3. ASSUME NEW d \in Drafts, Discard(d)
        PROVE  QuietStep
    BY <1>3 DEF Discard, Discardable, AttemptInv, Typed, TypeOK
  <1>4. ASSUME AgentCreateDraft
        PROVE  QuietStep
    <2>1. drafts[handler.draft].status = "absent"
      BY <1>4 DEF AgentCreateDraft, InStep, AttemptInv, Story, HandlerKnows
    <2>2. QED
      BY <1>4, <2>1 DEF AgentCreateDraft, AttemptInv, Typed, TypeOK
  <1>5. ASSUME SubmitEnqueue
        PROVE  QuietStep
    <2>1. approvals[handler.approval].status = "absent"
      BY <1>5 DEF SubmitEnqueue, InStep, AttemptInv, Typed, HandlerOK
    <2>2. QED
      BY <1>5, <2>1 DEF SubmitEnqueue, AttemptInv, Typed, TypeOK
  <1>6. ASSUME SubmitLink
        PROVE  QuietStep
    BY <1>6 DEF SubmitLink, AttemptInv, Typed, TypeOK
  <1>7. ASSUME NEW a \in Approvals, NEW c \in Contents, AgentEnqueue(a, c)
        PROVE  QuietStep
    BY <1>7 DEF AgentEnqueue, AttemptInv, Typed, TypeOK
  <1>8. ASSUME NEW a \in Approvals, Approve(a)
        PROVE  QuietStep
    BY <1>8 DEF Approve, AttemptInv, Typed, TypeOK
  <1>9. ASSUME NEW a \in Approvals, Reject(a)
        PROVE  QuietStep
    BY <1>9 DEF Reject, Released, AttemptInv, Typed, TypeOK
  <1>10. CASE ProviderStep
    BY <1>10 DEF ProviderStep, ProviderAccepts, ProviderDrops
  <1>11. CASE Crash \/ UNCHANGED vars
    BY <1>11 DEF Crash, vars
  <1>12. ASSUME NEW r \in Calls, ExecuteApproved(r)
         PROVE  BeginsStep
    BY <1>12 DEF ExecuteApproved, BeginsStep, InStep, AttemptInv, Typed, HandlerOK
  <1>13. ASSUME NEW r \in Calls, NEW a \in Approvals, Execute(r, a)
         PROVE  BeginsStep
    BY <1>13 DEF Execute, BeginsStep
  <1>14. ASSUME NEW d \in Drafts, NEW a \in Approvals, Submit(d, a)
         PROVE  QuietStep
    BY <1>14 DEF Submit
  <1> HIDE DEF QuietStep
  <1>15. DraftStep => QuietStep
    BY <1>1, <1>2, <1>3, <1>14 DEF DraftStep
  <1>16. HandlerStep => QuietStep \/ BeginsStep
    BY <1>4, <1>5, <1>6, <1>12 DEF HandlerStep
  <1>17. ApprovalStep => QuietStep \/ BeginsStep \/ ReconcileStep
    BY <1>7, <1>8, <1>9, <1>13 DEF ApprovalStep, ReconcileStep
  <1>18. QED
    BY <1>10, <1>11, <1>15, <1>16, <1>17 DEF Next, ReturnsStep

LEMMA QuietKeepsAttempts ==
  ASSUME AttemptInv, QuietStep
  PROVE  AttemptsOK'
  <1>1. ASSUME NEW e \in wire' \cup accepted'
        PROVE  Accounted(e)'
    <2>1. e \in wire \cup accepted
      BY DEF QuietStep
    <2>2. Accounted(e) /\ e.approval \in Approvals /\ approvals'[e.approval] = approvals[e.approval]
      BY <2>1, AttemptFacts DEF QuietStep, AttemptInv, AttemptsOK
    <2>3. QED
      BY <2>2 DEF QuietStep, Accounted, Current, Asked
  <1>2. ASSUME NEW r \in Calls, calls'[r] # None
        PROVE  CallIsCurrent(r)'
    <2>1. calls'[r] = calls[r] /\ CallIsCurrent(r)
      BY <1>2 DEF QuietStep, AttemptInv, AttemptsOK
    <2>2. approvals'[calls[r].approval] = approvals[calls[r].approval]
      BY <1>2, <2>1, AttemptFacts DEF QuietStep
    <2>3. QED
      BY <1>2, <2>1, <2>2 DEF CallIsCurrent
  <1>3. QED
    BY <1>1, <1>2 DEF AttemptsOK, CallIsCurrent

LEMMA BeginKeepsAttempts ==
  ASSUME AttemptInv, BeginsStep
  PROVE  AttemptsOK'
  <1>1. PICK r \in Calls, a \in Approvals :
          BeginExecution(r, a) /\ UNCHANGED <<drafts, accepted, reconciled, abandoned>>
    BY DEF BeginsStep
  <1>f. PICK f : f = [approval |-> a, content |-> approvals[a].content,
                      attempt |-> approvals[a].attempt + 1]
    OBVIOUS
  <1>2. /\ approvals[a].execution \in {"ready", "failed"}
        /\ wire' = wire \cup {f}
        /\ calls' = [calls EXCEPT ![r] = f]
        /\ calls[r] = None
        /\ f.approval = a /\ f.attempt = approvals[a].attempt + 1
        /\ f.content = approvals[a].content
    BY <1>1, <1>f DEF BeginExecution, Claimable
  <1>3. /\ approvals'[a].attempt = approvals[a].attempt + 1
        /\ approvals'[a].execution = "executing"
        /\ approvals'[a].kind = approvals[a].kind
        /\ approvals'[a].content = approvals[a].content
        /\ \A b \in Approvals \ {a} : approvals'[b] = approvals[b]
    BY <1>1, AttemptFacts, BegunRow DEF BeginExecution, AttemptInv, Typed, TypeOK
  <1>4. approvals[a].attempt \in Nat
    BY AttemptFacts, MailApprovalAssumption
  <1>5. ASSUME NEW e \in wire \cup accepted
        PROVE  Accounted(e)'
    <2>1. Accounted(e) /\ e.attempt \in Nat /\ e.approval \in Approvals
      BY AttemptFacts, MailApprovalAssumption DEF AttemptInv, AttemptsOK
    <2>2. CASE e.approval # a
      BY <1>1, <1>3, <2>1, <2>2 DEF Accounted, Current, Asked
    <2>3. CASE e.approval = a
      BY <1>1, <1>2, <1>3, <1>4, <2>1, <2>3 DEF Accounted, Current, Asked
    <2>4. QED
      BY <2>2, <2>3
  <1>6. Accounted(f)'
    BY <1>2, <1>3, <1>4 DEF Accounted, Current
  <1>7. \A s \in Calls : CallIsCurrent(s)'
    <2>1. CallIsCurrent(r)'
      BY <1>2, <1>3 DEF CallIsCurrent, AttemptInv, Typed, TypeOK
    <2>2. ASSUME NEW s \in Calls \ {r}
          PROVE  CallIsCurrent(s)'
      <3>1. calls'[s] = calls[s] /\ CallIsCurrent(s)
        BY <1>2 DEF AttemptInv, AttemptsOK, Typed, TypeOK
      <3>2. calls[s] # None => calls[s].approval \in Approvals \ {a}
        BY <1>2, AttemptFacts
      <3>3. QED
        BY <1>3, <3>1, <3>2 DEF CallIsCurrent
    <2>3. QED
      BY <2>1, <2>2
  <1>8. QED
    BY <1>1, <1>2, <1>5, <1>6, <1>7 DEF AttemptsOK

LEMMA ReturnKeepsAttempts ==
  ASSUME AttemptInv, ReturnsStep
  PROVE  AttemptsOK'
  <1>1. PICK r \in Calls : CallReturns(r)
    BY DEF ReturnsStep
  <1>2. PICK a \in Approvals : calls[r] # None /\ a = calls[r].approval
    BY <1>1, AttemptFacts DEF CallReturns, CallSucceeds, CallFails
  <1>3. PICK x \in {"sent", "completed", "failed"} :
          /\ approvals' = [approvals EXCEPT ![a] = Executed(@, x)]
          /\ x = "sent" \/ calls[r] \in abandoned' \/ calls[r] \notin wire \cup accepted
                        \/ approvals[a].kind # "outbound"
    BY <1>1, <1>2 DEF CallReturns, CallSucceeds, CallFails
  <1>4. /\ approvals'[a].execution = x
        /\ approvals'[a].attempt = approvals[a].attempt
        /\ approvals'[a].kind = approvals[a].kind
        /\ approvals'[a].content = approvals[a].content
        /\ \A b \in Approvals \ {a} : approvals'[b] = approvals[b]
    BY <1>3, AttemptFacts, ExecutedRow DEF ExecutionStatus, AttemptInv, Typed, TypeOK
  <1>5. /\ UNCHANGED <<wire, accepted, reconciled>> /\ abandoned \subseteq abandoned'
        /\ calls' = [calls EXCEPT ![r] = None]
    BY <1>1 DEF CallReturns, CallSucceeds, CallFails, network, history
  <1>6. ASSUME NEW e \in wire \cup accepted
        PROVE  Accounted(e)'
    <2>1. Accounted(e) /\ e.approval \in Approvals
      BY AttemptFacts DEF AttemptInv, AttemptsOK
    <2>2. CASE e.approval # a
      BY <1>4, <1>5, <2>1, <2>2 DEF Accounted, Current, Asked
    <2>3. CASE e.approval = a /\ e.attempt = approvals[a].attempt
      <3>1. e = calls[r]
        BY <1>2, <2>3, AttemptFacts DEF AttemptInv, AttemptsOK, CallIsCurrent
      <3>2. QED
        BY <1>3, <1>4, <1>5, <2>1, <2>3, <3>1 DEF Accounted, Current, Asked
    <2>4. CASE e.approval = a /\ e.attempt # approvals[a].attempt
      BY <1>4, <1>5, <2>1, <2>4 DEF Accounted, Current, Asked
    <2>5. QED
      BY <2>2, <2>3, <2>4
  <1>7. \A s \in Calls : CallIsCurrent(s)'
    BY <1>4, <1>5, AttemptFacts DEF CallIsCurrent, AttemptInv, AttemptsOK, Typed, TypeOK
  <1>8. QED
    BY <1>5, <1>6, <1>7 DEF AttemptsOK

LEMMA ReconcileKeepsAttempts ==
  ASSUME AttemptInv, ReconcileStep
  PROVE  AttemptsOK'
  <1>1. PICK a \in Approvals, outcome \in {"already_sent", "retry"} : Reconcile(a, outcome)
    BY DEF ReconcileStep
  <1> DEFINE x == [approval |-> a, attempt |-> approvals[a].attempt, outcome |-> outcome]
  <1>2. reconciled' = reconciled \cup {x} /\ UNCHANGED <<wire, accepted, calls, abandoned>>
    BY <1>1 DEF Reconcile, network
  <1>3. PICK s \in {"sent", "ready"} :
          /\ approvals' = [approvals EXCEPT ![a] = Executed(@, s)]
          /\ s = "sent" \/ outcome = "retry"
    BY <1>1 DEF Reconcile
  <1>4. /\ approvals'[a].execution = s
        /\ approvals'[a].attempt = approvals[a].attempt
        /\ approvals'[a].kind = approvals[a].kind
        /\ approvals'[a].content = approvals[a].content
        /\ \A b \in Approvals \ {a} : approvals'[b] = approvals[b]
    BY <1>3, AttemptFacts, ExecutedRow DEF ExecutionStatus, AttemptInv, Typed, TypeOK
  <1>5. ASSUME NEW e \in wire \cup accepted
        PROVE  Accounted(e)'
    <2>1. Accounted(e) /\ e.approval \in Approvals
      BY AttemptFacts DEF AttemptInv, AttemptsOK
    <2>2. Asked(e) => Asked(e)'
      BY <1>2 DEF Asked
    <2>3. CASE e.approval # a
      BY <1>2, <1>4, <2>1, <2>2, <2>3 DEF Accounted, Current
    <2>4. CASE e.approval = a /\ s = "sent"
      BY <1>2, <1>4, <2>1, <2>2, <2>4 DEF Accounted, Current
    <2>5. CASE e.approval = a /\ outcome = "retry"
      <3>1. e.attempt = approvals[a].attempt => Asked(e)'
        <4>1. x.approval = a /\ x.outcome = "retry" /\ x.attempt = approvals[a].attempt
          BY <2>5
        <4>2. QED
          BY <1>2, <2>5, <4>1 DEF Asked
      <3>2. QED
        BY <1>2, <1>4, <2>1, <2>2, <2>5, <3>1 DEF Accounted, Current
    <2>6. QED
      BY <1>3, <2>3, <2>4, <2>5
  <1>6. \A r \in Calls : CallIsCurrent(r)'
    BY <1>2, <1>4, AttemptFacts DEF CallIsCurrent, AttemptInv, AttemptsOK
  <1>7. QED
    BY <1>2, <1>5, <1>6 DEF AttemptsOK

LEMMA RestartKeepsAttempts ==
  ASSUME AttemptInv, Restart
  PROVE  AttemptsOK'
  <1>1. \A a \in Approvals :
          /\ approvals'[a].attempt = approvals[a].attempt
          /\ approvals'[a].kind = approvals[a].kind
          /\ approvals'[a].content = approvals[a].content
          /\ approvals[a].kind = "outbound" /\ approvals[a].status = "approved" =>
               approvals'[a].execution = IF approvals[a].execution = "executing" THEN "uncertain"
                                         ELSE approvals[a].execution
    BY AttemptFacts, RecoveredRow, ExecutedRow DEF Restart, AfterRecovery, ExecutionStatus
  <1>2. UNCHANGED <<wire, accepted, calls, reconciled, abandoned>>
    BY DEF Restart, network, history
  <1>3. ASSUME NEW e \in wire \cup accepted
        PROVE  Accounted(e)'
    <2>1. Accounted(e) /\ e.approval \in Approvals /\ approvals[e.approval].status = "approved"
      BY AttemptFacts DEF AttemptInv, AttemptsOK
    <2>2. Asked(e) => Asked(e)'
      BY <1>2 DEF Asked
    <2>3. approvals[e.approval].kind = "outbound" /\ Current(e) => Current(e)'
      BY <1>1, <2>1 DEF Current
    <2>4. QED
      BY <1>1, <1>2, <2>1, <2>2, <2>3 DEF Accounted
  <1>4. ASSUME NEW r \in Calls
        PROVE  CallIsCurrent(r)'
    <2>1. calls[r] # None => calls[r].approval \in Approvals
      BY AttemptFacts
    <2>2. CallIsCurrent(r)
      BY DEF AttemptInv, AttemptsOK
    <2>3. QED
      BY <1>1, <1>2, <2>1, <2>2 DEF CallIsCurrent
  <1>5. QED
    BY <1>2, <1>3, <1>4 DEF AttemptsOK

LEMMA AlwaysAttemptInv == Spec => []AttemptInv
  <1>1. Init => CallsMatch /\ OnlyApprovedTakesEffect /\ AttemptsOK
    BY DEF Init, CallsMatch, NoApproval, Executing, Waits, OnlyApprovedTakesEffect, AttemptsOK,
           CallIsCurrent
  <1>2. AttemptInv /\ [Next]_vars => AttemptsOK'
    BY NextIsAttemptStep, QuietKeepsAttempts, BeginKeepsAttempts, ReturnKeepsAttempts,
       ReconcileKeepsAttempts, RestartKeepsAttempts
  <1>3. QED
    BY <1>1, <1>2, CallsMatchStep, AlwaysStory, AlwaysOnlyApproved, PTL DEF Spec, AttemptInv

(* The recipient gets a mail twice only if the owner asked for the second      *)
(* attempt after being told that the first was uncertain, or an attempt was    *)
(* recorded as failed although the provider had it: deaths and restarts at any *)
(* point add no third way.                                                     *)
THEOREM NoCrashDuplicates == Spec => []OnlyLostAnswersDuplicate
  <1>1. AttemptInv => OnlyLostAnswersDuplicate
    <2> SUFFICES ASSUME AttemptInv, NEW e \in accepted, NEW f \in accepted, Duplicates(e, f),
                        e \notin abandoned
                 PROVE  Reordered(e, f)
        BY DEF OnlyLostAnswersDuplicate
    <2>1. /\ e.attempt \in Nat /\ f.attempt \in Nat
          /\ approvals[e.approval].attempt \in Nat
      BY AttemptFacts, MailApprovalAssumption
    <2>2. Accounted(e) /\ Accounted(f)
      BY DEF AttemptInv, AttemptsOK
    <2>3. Asked(e)
      BY <2>1, <2>2 DEF Duplicates, Accounted, Current
    <2>4. QED
      BY <2>1, <2>3 DEF Asked, Reordered, Duplicates
  <1>2. QED
    BY <1>1, AlwaysAttemptInv, PTL

(* Nothing that was sent or done is executed, edited, discarded or reopened.   *)
THEOREM WhatIsSentStays == Spec => SentIsFinal
  <1>1. ASSUME AttemptInv, [Next]_vars
        PROVE  /\ \A a \in Approvals : approvals[a].execution \in {"sent", "completed"} =>
                    approvals'[a].execution = approvals[a].execution
               /\ \A d \in Drafts : drafts[d].status = "sent" => drafts'[d] = drafts[d]
    <2>1. \A a \in Approvals : approvals[a].execution \in {"sent", "completed"} =>
            approvals[a].status = "approved"
      BY <1>1 DEF AttemptInv, Story, Granted
    <2>2. CASE QuietStep
      BY <2>1, <2>2 DEF QuietStep
    <2>3. CASE BeginsStep
      BY <1>1, <2>3
         DEF BeginsStep, BeginExecution, Claimable, AttemptInv, Typed, TypeOK
    <2>4. ASSUME NEW a \in Approvals, approvals[a].execution \in {"executing", "uncertain"},
                 NEW x, approvals' = [approvals EXCEPT ![a] = x],
                 drafts' = drafts \/ drafts' = Sent(a)
          PROVE  /\ \A b \in Approvals : approvals[b].execution \in {"sent", "completed"} =>
                      approvals'[b].execution = approvals[b].execution
                 /\ \A d \in Drafts : drafts[d].status = "sent" => drafts'[d] = drafts[d]
      <3>1. ASSUME NEW d \in Drafts, drafts[d].status = "sent"
            PROVE  drafts[d].approval # a
        BY <1>1, <2>4, <3>1 DEF AttemptInv, Story, Tells
      <3>2. QED
        BY <1>1, <2>4, <3>1 DEF Sent, AttemptInv, Typed, TypeOK
    <2>5. CASE ReturnsStep
      <3>1. PICK r \in Calls : CallReturns(r)
        BY <2>5 DEF ReturnsStep
      <3>2. PICK a \in Approvals : calls[r] # None /\ a = calls[r].approval
        BY <1>1, <3>1, AttemptFacts DEF CallReturns, CallSucceeds, CallFails
      <3>3. /\ approvals[a].execution = "executing"
            /\ \E x : approvals' = [approvals EXCEPT ![a] = x]
            /\ drafts' = drafts \/ drafts' = Sent(a)
        BY <3>1, <3>2 DEF CallReturns, CallSucceeds, CallFails
      <3>4. QED
        BY <2>4, <3>3
    <2>6. CASE ReconcileStep
      <3>1. PICK a \in Approvals : \E outcome \in {"already_sent", "retry"} : Reconcile(a, outcome)
        BY <2>6 DEF ReconcileStep
      <3>2. /\ approvals[a].execution = "uncertain"
            /\ \E x : approvals' = [approvals EXCEPT ![a] = x]
            /\ drafts' = drafts \/ drafts' = Sent(a)
        BY <3>1 DEF Reconcile
      <3>3. QED
        BY <2>4, <3>2
    <2>7. CASE Restart
      BY <2>7 DEF Restart, AfterRecovery
    <2>8. QED
      BY <1>1, <2>2, <2>3, <2>5, <2>6, <2>7, NextIsAttemptStep
  <1>2. QED
    BY <1>1, AlwaysAttemptInv, PTL DEF Spec, SentIsFinal
=============================================================================
