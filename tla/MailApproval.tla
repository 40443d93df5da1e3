---------------------------- MODULE MailApproval ----------------------------
(***************************************************************************)
(* The outbound path of the gateway: drafts and approvals in mail.db        *)
(* (mail_store.py), the draft service and the discard endpoint, the action  *)
(* executor, the provider at the other end of the network, process death    *)
(* and the recovery manager.                                                *)
(*                                                                          *)
(* The gateway is one asyncio process.  Every store method is one SQLite    *)
(* transaction; a handler without an await runs to its end before another   *)
(* handler starts, but the process can die between two of its transactions. *)
(* `handler' is the synchronous handler that holds the event loop.  The     *)
(* only await is the provider call of an execution, kept in `calls'.        *)
(***************************************************************************)
EXTENDS Naturals

CONSTANTS
  Approvals,    \* approval ids
  Drafts,       \* draft ids
  Contents,     \* recipient, subject and body of a proposal, taken together
  Calls,        \* HTTP requests that may be executing an approval
  None,         \* SQL NULL
  MaxAttempts   \* bound on the executions of one approval

ASSUME MailApprovalAssumption ==
  /\ None \notin Approvals \cup Drafts \cup Contents
  /\ MaxAttempts \in Nat \ {0}

VARIABLES
  up,           \* the gateway process is alive
  approvals,    \* table approvals
  drafts,       \* table drafts
  handler,      \* the synchronous handler between two of its transactions
  calls,        \* the provider request each execution awaits
  wire,         \* requests the provider has neither accepted nor dropped
  accepted,     \* requests the provider has carried out
  reconciled,   \* history: the owner's answers about uncertain sends
  orphans,      \* history: approvals whose submission died before linking
  abandoned     \* history: requests given up as failed that were not refused

store == <<approvals, drafts>>
network == <<wire, accepted>>
history == <<reconciled, orphans, abandoned>>
vars ==
  <<up, approvals, drafts, handler, calls, wire, accepted, reconciled, orphans, abandoned>>

-----------------------------------------------------------------------------
Kinds == {"outbound", "mailbox"}   \* send_reply, forward | delete, move, archive

ApprovalStatus == {"absent", "pending", "approved", "rejected"}

ExecutionStatus ==
  {"not_applicable", "ready", "executing", "failed", "uncertain", "sent", "completed"}

Approval ==
  [status: ApprovalStatus, kind: Kinds, content: Contents \cup {None},
   execution: ExecutionStatus,
   attempt: 0..MaxAttempts,          \* executions begun (execution_started_at)
   origin: Drafts \cup {None}]       \* the draft it was submitted from (audit log)

DraftStatus == {"absent", "draft", "approval_pending", "sent", "discarded"}

Draft ==
  [status: DraftStatus, content: Contents \cup {None}, approval: Approvals \cup {None}]

\* One provider request: the n-th execution of an approval.
Effect == [approval: Approvals, content: Contents, attempt: 1..MaxAttempts]

ASSUME NoneIsNoEffect == None \notin Effect

Handler ==
  [step: {"idle", "enqueue", "link", "create_draft", "claim"},
   draft: Drafts \cup {None}, approval: Approvals \cup {None}]

Answer ==
  [approval: Approvals, attempt: 0..MaxAttempts, outcome: {"already_sent", "retry"}]

NoApproval ==
  [status |-> "absent", kind |-> "outbound", content |-> None,
   execution |-> "not_applicable", attempt |-> 0, origin |-> None]

NoDraft == [status |-> "absent", content |-> None, approval |-> None]

Idle == [step |-> "idle", draft |-> None, approval |-> None]

TypeOK ==
  /\ up \in BOOLEAN
  /\ approvals \in [Approvals -> Approval]
  /\ drafts \in [Drafts -> Draft]
  /\ handler \in Handler
  /\ calls \in [Calls -> Effect \cup {None}]
  /\ wire \subseteq Effect
  /\ accepted \subseteq Effect
  /\ reconciled \subseteq Answer
  /\ orphans \subseteq Approvals
  /\ abandoned \subseteq Effect

Init ==
  /\ up = TRUE
  /\ approvals = [a \in Approvals |-> NoApproval]
  /\ drafts = [d \in Drafts |-> NoDraft]
  /\ handler = Idle
  /\ calls = [r \in Calls |-> None]
  /\ wire = {}
  /\ accepted = {}
  /\ reconciled = {}
  /\ orphans = {}
  /\ abandoned = {}

-----------------------------------------------------------------------------
(* The event loop.                                                          *)

LoopFree == up /\ handler = Idle

InStep(step) == up /\ handler.step = step

\* The row of a new request.
PendingRow(kind, content, origin) ==
  [status |-> "pending", kind |-> kind, content |-> content,
   execution |-> "not_applicable", attempt |-> 0, origin |-> origin]

\* A row with another text, the owner's verdict, a new state of its execution.
WithText(row, content) == [row EXCEPT !.content = content]

Decided(row, verdict) ==
  [row EXCEPT !.status = verdict,
              !.execution = IF verdict = "approved" THEN "ready" ELSE "not_applicable"]

Executed(row, execution) == [row EXCEPT !.execution = execution]

Begun(row) == [Executed(row, "executing") EXCEPT !.attempt = row.attempt + 1]

-----------------------------------------------------------------------------
(* Drafts and approvals are made.                                           *)

\* MailStore.create_draft without an approval: draft-only results of the
\* agent, follow-ups and calendar replies.
CreateDraft(d, c) ==
  /\ LoopFree
  /\ drafts[d].status = "absent"
  /\ drafts' = [drafts EXCEPT ![d] = [status |-> "draft", content |-> c, approval |-> None]]
  /\ UNCHANGED <<up, approvals, handler, calls, network, history>>

\* analyze_message on an action that requires approval: the approval row is
\* committed first; an outbound action with a body then gets its draft.
AgentEnqueue(a, c) ==
  /\ LoopFree
  /\ approvals[a].status = "absent"
  /\ \/ \E k \in Kinds :
          /\ approvals' = [approvals EXCEPT ![a] = PendingRow(k, c, None)]
          /\ UNCHANGED handler
     \/ \E d \in Drafts :
          /\ drafts[d].status = "absent"
          /\ approvals' = [approvals EXCEPT ![a] = PendingRow("outbound", c, None)]
          /\ handler' = [step |-> "create_draft", draft |-> d, approval |-> a]
  /\ UNCHANGED <<up, drafts, calls, network, history>>

AgentCreateDraft ==
  /\ InStep("create_draft")
  /\ drafts' = [drafts EXCEPT ![handler.draft] =
                  [status |-> "approval_pending",
                   content |-> approvals[handler.approval].content,
                   approval |-> handler.approval]]
  /\ handler' = Idle
  /\ UNCHANGED <<up, approvals, calls, network, history>>

\* submit_for_approval returns or refuses a draft that has an approval.
SubmittableWithApproval(d) == drafts[d].status \notin {"absent", "sent"}

Submittable(d) ==
  /\ drafts[d].status \notin {"absent", "sent"}
  /\ drafts[d].approval = None

\* DraftService.submit_for_approval, up to and including update_draft (the
\* text is signed again, its content stays).  a is the next fresh uuid.
Submit(d, a) ==
  /\ LoopFree
  /\ Submittable(d)
  /\ approvals[a].status = "absent"
  /\ handler' = [step |-> "enqueue", draft |-> d, approval |-> a]
  /\ UNCHANGED <<up, store, calls, network, history>>

SubmitEnqueue ==
  /\ InStep("enqueue")
  /\ approvals' = [approvals EXCEPT ![handler.approval] =
                     PendingRow("outbound", drafts[handler.draft].content, handler.draft)]
  /\ handler' = [handler EXCEPT !.step = "link"]
  /\ UNCHANGED <<up, drafts, calls, network, history>>

\* MailStore.link_draft_approval.
SubmitLink ==
  /\ InStep("link")
  /\ drafts[handler.draft].status # "sent"
  /\ drafts[handler.draft].approval = None
  /\ drafts' = [drafts EXCEPT ![handler.draft] =
                  [status |-> "approval_pending", content |-> @.content,
                   approval |-> handler.approval]]
  /\ handler' = Idle
  /\ UNCHANGED <<up, approvals, calls, network, history>>

EditableOnceDecided(d) == drafts[d].status \notin {"absent", "sent"}

\* update_draft refuses a sent draft and one whose approval was decided.
Editable(d) ==
  /\ drafts[d].status \notin {"absent", "sent"}
  /\ drafts[d].approval # None => approvals[drafts[d].approval].status = "pending"

\* DraftService.edit: the draft and the pending approval it is linked to
\* change in one transaction.
Edit(d, c) ==
  LET a == drafts[d].approval IN
  /\ LoopFree
  /\ Editable(d)
  /\ \/ /\ a = None
        /\ UNCHANGED approvals
     \/ /\ a # None
        /\ approvals' = [approvals EXCEPT ![a] = WithText(@, c)]
  /\ drafts' = [drafts EXCEPT ![d] = WithText(@, c)]
  /\ UNCHANGED <<up, handler, calls, network, history>>

-----------------------------------------------------------------------------
(* The owner decides.                                                       *)

ReleasedAsRejected(a) ==
  [d \in Drafts |->
     IF drafts[d].approval = a /\ drafts[d].status = "approval_pending"
     THEN [status |-> "rejected", content |-> drafts[d].content, approval |-> None]
     ELSE drafts[d]]

ReleasedWithApproval(a) ==
  [d \in Drafts |->
     IF drafts[d].approval = a /\ drafts[d].status = "approval_pending"
     THEN [drafts[d] EXCEPT !.status = "draft"]
     ELSE drafts[d]]

\* The drafts that wait on approval a go back to being editable.
Released(a) ==
  [d \in Drafts |->
     IF drafts[d].approval = a /\ drafts[d].status = "approval_pending"
     THEN [status |-> "draft", content |-> drafts[d].content, approval |-> None]
     ELSE drafts[d]]

\* decide_approval("approved"), the first transaction of POST .../approve; the
\* endpoint goes on to claim the execution without an await in between.
Approve(a) ==
  /\ LoopFree
  /\ approvals[a].status = "pending"
  /\ \E r \in Calls : calls[r] = None
  /\ approvals' = [approvals EXCEPT ![a] = Decided(@, "approved")]
  /\ handler' = [step |-> "claim", draft |-> None, approval |-> a]
  /\ UNCHANGED <<up, drafts, calls, network, history>>

Reject(a) ==
  /\ LoopFree
  /\ approvals[a].status = "pending"
  /\ approvals' = [approvals EXCEPT ![a] = Decided(@, "rejected")]
  /\ drafts' = Released(a)
  /\ UNCHANGED <<up, handler, calls, network, history>>

DiscardableOnceApproved(d) == drafts[d].status \notin {"absent", "sent", "discarded"}

\* discard_draft refuses a sent draft and one whose approval was granted; it
\* does nothing to one already discarded.
Discardable(d) ==
  /\ drafts[d].status \notin {"absent", "sent", "discarded"}
  /\ drafts[d].approval # None =>
       approvals[drafts[d].approval].status \in {"pending", "rejected"}

\* discard_draft: the draft and its pending approval change in one transaction.
Discard(d) ==
  LET a == drafts[d].approval IN
  /\ LoopFree
  /\ Discardable(d)
  /\ \/ /\ a = None
        /\ UNCHANGED approvals
     \/ /\ a # None
        /\ approvals' = [approvals EXCEPT ![a] = Decided(@, "rejected")]
  /\ drafts' = [drafts EXCEPT ![d].status = "discarded"]
  /\ UNCHANGED <<up, handler, calls, network, history>>

-----------------------------------------------------------------------------
(* An approved request is executed.                                         *)

ClaimableTwice(a) ==
  /\ approvals[a].status = "approved"
  /\ approvals[a].execution \in {"ready", "failed", "executing"}

ClaimableOnceSent(a) ==
  /\ approvals[a].status = "approved"
  /\ approvals[a].execution # "executing"

Claimable(a) ==
  /\ approvals[a].status = "approved"
  /\ approvals[a].execution \in {"ready", "failed"}

\* claim_approval_execution, and the provider request that follows it.
BeginExecution(r, a) ==
  LET n == approvals[a].attempt + 1
      e == [approval |-> a, content |-> approvals[a].content, attempt |-> n]
  IN /\ calls[r] = None
     /\ Claimable(a)
     /\ n <= MaxAttempts
     /\ approvals' = [approvals EXCEPT ![a] = Begun(@)]
     /\ calls' = [calls EXCEPT ![r] = e]
     /\ wire' = wire \cup {e}

\* The rest of POST .../approve.
ExecuteApproved(r) ==
  /\ InStep("claim")
  /\ BeginExecution(r, handler.approval)
  /\ handler' = Idle
  /\ UNCHANGED <<up, drafts, accepted, history>>

\* POST .../execute: the owner tries again.
Execute(r, a) ==
  /\ LoopFree
  /\ BeginExecution(r, a)
  /\ UNCHANGED <<up, drafts, handler, accepted, history>>

\* The provider carries a request out, whether or not anyone still waits.
ProviderAccepts(e) ==
  /\ e \in wire
  /\ wire' = wire \ {e}
  /\ accepted' = accepted \cup {e}
  /\ UNCHANGED <<up, store, handler, calls, history>>

\* The provider refuses a request, or the request never reached it.
ProviderDrops(e) ==
  /\ e \in wire
  /\ wire' = wire \ {e}
  /\ UNCHANGED <<up, store, handler, calls, accepted, history>>

\* complete_approval_execution marks the drafts of an outbound approval sent.
Sent(a) ==
  [d \in Drafts |-> IF drafts[d].approval = a THEN [drafts[d] EXCEPT !.status = "sent"]
                                              ELSE drafts[d]]

\* The call returns and the result is stored.
CallSucceeds(r) ==
  LET e == calls[r]
      a == e.approval
  IN /\ LoopFree
     /\ e # None
     /\ e \in accepted
     /\ approvals[a].execution = "executing"
     /\ \/ /\ approvals[a].kind = "outbound"
           /\ approvals' = [approvals EXCEPT ![a] = Executed(@, "sent")]
           /\ drafts' = Sent(a)
        \/ /\ approvals[a].kind = "mailbox"
           /\ approvals' = [approvals EXCEPT ![a] = Executed(@, "completed")]
           /\ UNCHANGED drafts
     /\ calls' = [calls EXCEPT ![r] = None]
     /\ UNCHANGED <<up, handler, network, history>>

\* Any exception: an invalid proposal, an error response, a timeout or a
\* broken connection, also after the provider has accepted the request.
CallFails(r) ==
  LET e == calls[r]
      a == e.approval
  IN /\ LoopFree
     /\ e # None
     /\ approvals[a].execution = "executing"
     /\ approvals' = [approvals EXCEPT ![a] = Executed(@, "failed")]
     /\ calls' = [calls EXCEPT ![r] = None]
     /\ abandoned' = abandoned \cup ({e} \cap (wire \cup accepted))
     /\ UNCHANGED <<up, drafts, handler, network, reconciled, orphans>>

-----------------------------------------------------------------------------
(* Process death and recovery.                                              *)

\* The process dies; what it put on the wire is beyond recall.
Crash ==
  /\ up
  /\ up' = FALSE
  /\ handler' = Idle
  /\ calls' = [r \in Calls |-> None]
  /\ orphans' = IF handler.step = "link" THEN orphans \cup {handler.approval} ELSE orphans
  /\ UNCHANGED <<store, network, reconciled, abandoned>>

RecoveredAsFailed(row) ==
  IF row.status = "approved" /\ row.execution = "executing"
  THEN Executed(row, "failed")
  ELSE row

RecoveredAsSent(row) ==
  IF row.status = "approved" /\ row.execution = "executing"
  THEN Executed(row, IF row.kind = "outbound" THEN "sent" ELSE "completed")
  ELSE row

RecoveredOutboundOnly(row) ==
  IF row.status = "approved" /\ row.execution = "executing" /\ row.kind = "outbound"
  THEN Executed(row, "uncertain")
  ELSE row

\* RecoveryManager.recover_stale_executions, run by the lifespan at startup.
AfterRecovery(row) ==
  IF row.status = "approved" /\ row.execution = "executing"
  THEN Executed(row, IF row.kind = "outbound" THEN "uncertain" ELSE "failed")
  ELSE row

Restart ==
  /\ ~up
  /\ up' = TRUE
  /\ approvals' = [a \in Approvals |-> AfterRecovery(approvals[a])]
  /\ UNCHANGED <<drafts, handler, calls, network, history>>

\* RecoveryManager.reconcile_uncertain: the owner has looked into the Sent folder.
Reconcile(a, outcome) ==
  /\ LoopFree
  /\ approvals[a].status = "approved"
  /\ approvals[a].execution = "uncertain"
  /\ approvals[a].kind = "outbound"
  /\ \/ /\ outcome = "already_sent"
        /\ approvals' = [approvals EXCEPT ![a] = Executed(@, "sent")]
        /\ drafts' = Sent(a)
     \/ /\ outcome = "retry"
        /\ approvals' = [approvals EXCEPT ![a] = Executed(@, "ready")]
        /\ UNCHANGED drafts
  /\ reconciled' = reconciled \cup
       {[approval |-> a, attempt |-> approvals[a].attempt, outcome |-> outcome]}
  /\ UNCHANGED <<up, handler, calls, network, orphans, abandoned>>

-----------------------------------------------------------------------------
DraftStep ==
  \/ \E d \in Drafts, c \in Contents : CreateDraft(d, c) \/ Edit(d, c)
  \/ \E d \in Drafts, a \in Approvals : Submit(d, a)
  \/ \E d \in Drafts : Discard(d)

HandlerStep ==
  \/ AgentCreateDraft
  \/ SubmitEnqueue
  \/ SubmitLink
  \/ \E r \in Calls : ExecuteApproved(r)

ApprovalStep ==
  \/ \E a \in Approvals, c \in Contents : AgentEnqueue(a, c)
  \/ \E a \in Approvals : Approve(a) \/ Reject(a)
  \/ \E a \in Approvals, outcome \in {"already_sent", "retry"} : Reconcile(a, outcome)
  \/ \E r \in Calls, a \in Approvals : Execute(r, a)

ProviderStep == \E e \in wire : ProviderAccepts(e) \/ ProviderDrops(e)

CallReturns(r) == CallSucceeds(r) \/ CallFails(r)

Next ==
  \/ DraftStep
  \/ HandlerStep
  \/ ApprovalStep
  \/ ProviderStep
  \/ \E r \in Calls : CallReturns(r)
  \/ Crash
  \/ Restart

Spec == Init /\ [][Next]_vars

\* asyncio resumes every handler whose await is over (its ready queue is
\* FIFO), a provider call ends by an answer or by the client's timeout, and a
\* gateway that died is started again.  Nothing obliges the owner.
Fairness ==
  /\ WF_vars(HandlerStep)
  /\ \A r \in Calls : SF_vars(CallReturns(r))
  /\ WF_vars(Restart)

FairSpec == Spec /\ Fairness

-----------------------------------------------------------------------------
(* Safety.                                                                  *)

\* A draft and the approval it names tell one story (mail_store.py,
\* draft_lifecycle_v171.py): a plain draft names none, a waiting draft names
\* one still pending or being carried out, a sent draft one that was sent, a
\* discarded draft none or a rejected one; and both carry the same text.
DraftMatchesApproval ==
  \A d \in Drafts :
    LET a == drafts[d].approval
        row == approvals[a]
    IN /\ drafts[d].status \in {"absent", "draft"} => a = None
       /\ drafts[d].status = "approval_pending" =>
            /\ a # None
            /\ row.status \in {"pending", "approved"}
            /\ row.execution # "sent"
            /\ row.content = drafts[d].content
       /\ drafts[d].status = "sent" =>
            /\ a # None
            /\ row.execution = "sent"
            /\ row.content = drafts[d].content
       /\ drafts[d].status = "discarded" /\ a # None => row.status = "rejected"

\* Nothing is under way to the provider, or was carried out by it, but the
\* text of a request the owner approved, as it stands in the record now
\* (docs/SECURITY.md: approval records freeze the proposal).
OnlyApprovedTakesEffect ==
  \A e \in wire \cup accepted :
    /\ approvals[e.approval].status = "approved"
    /\ approvals[e.approval].content = e.content

\* What the record calls sent or completed did happen at the provider, or the
\* owner said so when reconciling an uncertain send (recovery.py).
DoneWasAccepted ==
  \A a \in Approvals :
    approvals[a].execution \in {"sent", "completed"} =>
      \/ \E e \in accepted : e.approval = a
      \/ \E x \in reconciled : x.approval = a /\ x.outcome = "already_sent"

\* While the gateway runs, an execution is in progress exactly for the
\* approvals a call is waiting on, one call each: none is executed by two
\* requests at once and none is stuck with nobody working on it.
ExecutingHasOneCall ==
  up => \A a \in Approvals :
    LET waiting == {r \in Calls : calls[r] # None /\ calls[r].approval = a}
    IN /\ approvals[a].execution = "executing" <=> waiting # {}
       /\ \A r, s \in waiting : r = s

\* However often a draft is edited, submitted, rejected and submitted again, at
\* most one request it was submitted for is open, unless the process died
\* between enqueue_approval and link_draft_approval.
SubmittedOnce ==
  \A a, b \in Approvals \ orphans :
    /\ approvals[a].origin # None
    /\ approvals[a].origin = approvals[b].origin
    /\ approvals[a].status \in {"pending", "approved"}
    /\ approvals[b].status \in {"pending", "approved"}
    => a = b

\* The owner asked for the next attempt after being told one was uncertain.
Reordered(e, f) ==
  \E x \in reconciled :
    /\ x.approval = e.approval
    /\ x.outcome = "retry"
    /\ x.attempt \in e.attempt..(f.attempt - 1)

Duplicates(e, f) ==
  /\ e.approval = f.approval
  /\ e.attempt < f.attempt
  /\ approvals[e.approval].kind = "outbound"

\* Two attempts of one approval both reach the recipient only if the owner
\* asked for the second after being told the first was uncertain (recovery.py:
\* replaying could duplicate mail; docs/SECURITY.md: retry handling prevents
\* silent duplicate sends where delivery state is uncertain).
NoSilentDuplicateSend ==
  \A e, f \in accepted : Duplicates(e, f) => Reordered(e, f)

\* The same, but for a first attempt recorded as failed although the provider
\* had it: the death of the process, at any point, never leads to a second send
\* the owner did not ask for (recovery.py recover_stale_executions).
OnlyLostAnswersDuplicate ==
  \A e, f \in accepted : Duplicates(e, f) => Reordered(e, f) \/ e \in abandoned

-----------------------------------------------------------------------------
(* What a step may never do.                                                *)

\* A decision is never taken back and what was decided on never changes.
DecisionIsFinal ==
  [][\A a \in Approvals :
       approvals[a].status \in {"approved", "rejected"} =>
         /\ approvals'[a].status = approvals[a].status
         /\ approvals'[a].content = approvals[a].content]_vars

\* Nothing that was sent is executed, edited, discarded or reopened again.
SentIsFinal ==
  [][/\ \A a \in Approvals :
          approvals[a].execution \in {"sent", "completed"} =>
            approvals'[a].execution = approvals[a].execution
     /\ \A d \in Drafts : drafts[d].status = "sent" => drafts'[d] = drafts[d]]_vars

-----------------------------------------------------------------------------
(* Progress.                                                                *)

\* No execution stays in progress for ever, whatever the network and the
\* process do: it ends, or the next start of the gateway settles it.
ExecutionSettles ==
  \A a \in Approvals :
    approvals[a].execution = "executing" ~> approvals[a].execution # "executing"

-----------------------------------------------------------------------------
(* The approval boundary this module implements.                            *)

Gate == INSTANCE ApprovalGate WITH
          decision <- [a \in Approvals |-> approvals[a].status],
          text <- [a \in Approvals |-> approvals[a].content],
          effects <- accepted

\* Every step of the outbound path is a step of the approval boundary or none
\* at all: the gate is what an observer of decisions and effects sees.
ImplementsGate == Gate!Spec
=============================================================================
