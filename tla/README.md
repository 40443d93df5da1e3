# Verification of the Mail Agent gateway

This directory holds TLA+ modules that model the Mail Agent gateway, TLC
configurations that check them on small instances, and proofs that TLAPS checks
for every instance. All source paths are relative to the repository root, which
`PROJECT.json` calls `src/`; `gateway/` below stands for
`apps/gateway/mail_agent_gateway/`.

    tlc -workers 2 -config ApprovalText.cfg MCMailApproval.tla
    tlapm MailApprovalProofs.tla

## 1. The system

Mail Agent reads a mailbox, lets a language model propose what to do with each
message, and acts after the owner's approval. The gateway is **one asyncio
process** (FastAPI). Its entry point is `main_v190.py`, which imports the chain
`main_v180 -> v173 -> v172 -> v171 -> v17 -> v16 -> main`, each replacing or
adding endpoints of the one before. Two kinds of activity run on its event loop:
HTTP handlers, any number at once, and `_sync_loop` (`main.py:273-287`), which
synchronises the mailboxes and runs the agent over them one after another.
State is in SQLite files (`mail.db`, `calendar.db`, `conversations.db`), a JSON
file (`state.json`), a vault and an append-only audit log. A store method is one
SQLite transaction; a handler gives way to others only at an `await`, and the
process can die between any two transactions.

| Component | State | Operations | What is hard | What makes it correct |
|---|---|---|---|---|
| Mail approvals and drafts (`mail_store.py`, `draft_service.py`, `draft_lifecycle_v171.py`) | tables `approvals`, `drafts` | enqueue, create draft, edit, submit, link, approve, reject, discard | several transactions per handler; edits racing decisions; any order of calls | draft and approval tell one story; only approved text is sent; decisions are final |
| Action executor (`action_executor.py`) | `execution_status` of an approval | claim, deliver, complete, fail; direct execution of safe actions | lost answers, concurrent executes, process death during a send | one execution at a time, no silent second send |
| Recovery manager (`recovery.py`) | the same rows | recover at start, reconcile uncertain sends | what a dead process left behind | no execution stuck, no replay without the owner |
| Calendar approvals and execution (`calendar_service.py`, `calendar_reliable.py`, `main_v17.py`) | table `calendar_approvals`; Google's events | propose, approve, reject, execute, recover | up to four awaits per execution, other clients changing the events | a change is made at most once, and only on the version it was prepared on |
| Calendar follow-ups and autonomy (`calendar_followup_v172.py`, `calendar_autonomy_v173.py`, `main_v172.py`, `main_v173.py`) | drafts linked to calendar approvals, autonomy settings | prepare the confirmation mail, autonomous create | check-then-act across an await | one follow-up per approval; autonomy never exceeds its settings |
| Calendar concierge (`calendar_concierge*.py`, `calendar_mail_intent.py`) | none of its own | turn a sentence or a mail into a proposal | language model and text parsing | everything it produces passes through a proposal |
| Agent runtime and queue (`agent_runtime.py`, `agent_queue.py`) | tables `agent_processing`, `agent_shadow_processing` | claim, analyse, record, retry, shadow replay, reconcile read mail | manual runs beside the loop, language-model calls longer than the stale limit | each message is analysed once, none is forgotten |
| Synchronisation (`sync.py`, `cloud_sync.py`) | cursors per mailbox, message rows | IMAP by UID, Gmail history, Graph delta | a manual sync beside the loop, failures between rows and cursor, expired cursors | no message is skipped |
| Conversations and follow-ups (`conversation_store.py`, `agent_runtime.py`) | table `conversation_threads` | record an analysis or a sent reply, snooze, prepare due follow-ups | messages analysed out of order; passes that work on rows read before an await | new mail is not hidden; a wait has one follow-up |
| Undo (`undo_service.py`, `conversation_store.py`) | table `undo_actions` | create, list, undo within the window | tokens read before an await and consumed after it | an undo happens once |
| Sender patterns (`conversation_store.py`) | their counters | count, suggest, confirm | - | a confirmed pattern acts like a rule |
| Policy and behaviour (`policy.py`, `behavior.py`) | none | evaluate a proposal, apply the owner's rules | classifier, triage, model, rule and category handling change the action one after another | a risky action is never allowed without approval |
| Owner profile and learning (`brain.py`, `adaptive_intelligence.py`, `main_v16.py`) | `owner-profile.json`, `owner-feedback.jsonl`, `learning-decisions.json`, `MEMORY.md` | consent, preview, activate, withdraw; correct, accept, reject, edit | four files written one by one and over their old text; an editor older than the file, with its sections in any order; analyses that end late | without consent nothing learnt is kept; what was rejected stays out |
| Settings (`state.py`, `main.py`, `main_v16.py`, `main_v180.py`) | `state.json` | read-modify-write of settings; factory reset | saves of a state read before an await | no lost update |
| OAuth and vault (`oauth_*.py`, `vault.py`) | tokens, sign-in attempt | start, callback, refresh | two refreshes at once | the token kept is the newest |
| Language-model routing (`adaptive_intelligence.py`, `release_audit_fixes.py`, `providers.py`) | statistics | choose a route, call, fall back | failures of a route while settings change | a failed expert costs no mail its analysis |
| Connectors (`connectors/`) | none | requests to Gmail, Graph, IMAP, SMTP, Google Calendar | several requests for one effect; IMAP and SMTP without a timeout | seen from the executor as one effect or an error |
| Launcher, updater, registry, web interface, audit log | processes, files, one table, none, a file | start and supervise, download, register, render, append | operating-system I/O | not the core of the system |

How they interact. The runtime calls the policy and writes approvals and drafts;
endpoints decide approvals and call the executor; the executor claims a row,
awaits a connector and records the outcome; the recovery manager rewrites rows at
start, before the loop and the endpoints run. Calendar approvals live in their own
table but obey the same boundary. Every hazard found on the way is listed under
"hazards" in `PROJECT.json` at the line where it bites, with the properties that
guard against it.

## 2. Modules

| Module | Stands for |
|---|---|
| `ApprovalGate` | What the approval boundary promises, for mail and calendar alike: proposed, revised while undecided, decided once, and only the approved content takes effect. |
| `WorkLedger` | What the work queue promises about each message: claimed by one worker at a time, one thing made for it at most, then settled for good or given back. |
| `MailApproval` | Drafts, approvals, execution, the provider, process death, recovery and reconciliation. |
| `CalendarExecution` | Calendar approvals, the coroutine of an execution, Google Calendar and the owner's other clients, process death and recovery. |
| `AgentQueue` | The work queue of the agent: claims, live and Shadow cycles, stale recovery, artifacts, marking read, process death. |
| `MailSync` | One mailbox and its provider: IMAP, Gmail and Graph runs from cursor to cursor, overlapping runs, failures, silent servers and deaths, expired cursors, the agent's own moves. |
| `Accounts` | `state.json`, the vault, sign-in sessions and every endpoint that writes them, with its awaits; token refreshes. |
| `OwnerLearning` | Owner profile, corrections, decisions and learnt memory, four files that must agree with the owner's consent. |
| `CalendarAutonomy` | Appointments by mail: the cycle after a sync, the concierge, executions and confirmation replies. |
| `Conversations` | Who is next in a conversation, since when, snoozed or not; the passes that prepare follow-ups. |
| `Undo` | Undo tokens, their window and the requests that use them. |
| `MailDecision` | One mail, or one follow-up, from classifier to artifacts: triage, routing with fallback, rules, policy. |
| `MCMailApproval`, `MCCalendarExecution`, `MCAgentQueue`, `MCMailSync` | Instances for TLC: symmetry sets, the overlap relation, threads and settings. |
| `MCAssistant` | One instance of the six modules from `Accounts` to `MailDecision`; see below. |
| `MailApprovalProofs`, `CalendarProofs`, `QueueProofs`, `SyncProofs`, `OwnerProofs` (of `Accounts`, `OwnerLearning` and `Undo`), `AutonomyProofs`, `InboxProofs` (of `MailDecision` and `Conversations`), `AssistantProofs` (of `MCAssistant`) | The theorems. |

### MailApproval

`approvals` and `drafts` are the two tables. A row keeps what decisions are made
on: its status, its content (recipient, subject and body taken together, since no
code of this path looks inside them), `execution_status`, the number of executions
begun, and the draft it came from (kept by the code in the audit log). `handler`
is the synchronous handler that holds the event loop *between two of its
transactions*: `submit_for_approval` commits an approval and then links the
draft, `analyze_message` commits an approval and then its draft, `approve`
commits the decision and then claims. No other handler runs meanwhile, but the
process can die there, and that is why these are separate steps. `calls` are the
executions that await the provider, `wire` the requests the provider has not
settled, `accepted` those it carried out. `reconciled` and `orphans` are history
variables that no action reads.

An answer is lost when `CallFails` happens for a request that is still on the
wire or was accepted: every exception, whatever its cause, takes the same branch
of `execute_approval` (`action_executor.py:85`). A crash clears `handler` and
`calls` and keeps the tables and the wire. `Restart` is the lifespan's recovery
(`recovery.py:47`): an interrupted send becomes `uncertain`, an interrupted mailbox
action `failed`.

### CalendarExecution

`execute` of `calendar_reliable.py` suspends at each request to Google; `run` is
the request each coroutine awaits: `list` (the repeated conflict check), `get`
(the event by id), `write`, and `collision` (the read after a 409). A read is
answered in one step: what matters is how old the answer is at the next await.
Writes travel on `wire`, may be carried out after the coroutine has given up, may
be refused (`Admitted`: an insert under a used id with 409, a change of another
version with 412), or lost. An approved create uses an event id derived from its
approval, so the model uses the approval itself. The owner's other clients make,
change and delete events at any time, also the ones the agent made.

Abstractions, each with its reason: `propose_checked` is one step, because its
reads commute with everything but the calendar and its result is checked again by
`execute`; every event carries an etag, as Google's do; `Overlap` is a
constant relation on contents in place of arithmetic on times.

A deleted event stays at Google as `cancelled`, with a version of its own. Of the readers
only the conflict check looks at that status (`calendar_reliable.py:297`); `get_event`
returns whatever it is given and `_is_not_found` (`242-243`) knows 404 alone. So a read of a
deleted event is answered either with the event or with 404 (`Shown` and not `Present`, a
choice at each read), and `execute` takes the event for what it is not: a create or an
update can be recorded as completed though the event was deleted meanwhile, and the retry of
a delete whose answer was lost fails as "changed after approval". `CompletedIsTrue` therefore says
what `completed` does mean: an own write was carried out, or Google has the event with the
content of the update, or did not find the one to delete. `DeleteIsReconciled` states the sentence of
`docs/ARCHITECTURE.md:131-132` and `docs/SECURITY.md:100` and does not hold; no run repeats it.

`NoLostUpdate` compares the version a change is carried out on with the one the owner saw. Google's
`If-Match` alone does not give that: the version it names is the one the execution has
just read (`current_etag`), and it is the comparison with `expected_etag` in `execute` (`Unchanged`)
that ties it to the proposal; the mutant drops that comparison.

### AgentQueue

`rows` are the two processing tables, `inbox` and `seen` what the table of messages
says, `cycles` the coroutines in `run_mailbox`: the one of the sync loop (`Loop`) and
those of requests. A cycle claims its batch in one transaction (`Begin`:
`_recover_stale`, selection, `_claim`), takes item after item, awaits the language model
(`analyse`) or the provider (`mutate`), records one row after the other (`record`) and, in
live mode, marks processed mail read (`mark`). In `next` and `record` it holds the
event loop, which is what `LoopFree` says of everybody else; the process can still die
between the transactions. An item of a thread is analysed as its newest message and
recorded for all of them. The table and the mode are fixed at `Begin`, as in
`run_mailbox`; the settings change under it (`Configure`).

`age` counts ticks of a claim up to one past `StaleAge`, which stands for the fifteen
minutes: only "older than the limit or not" is visible to the code. `expired`,
`broken` and `orphans` are history: the live claims that were found past their limit
while a cycle still held them, the messages whose artifact was made but not on record
when its analysis or its record failed or its cycle was ended, and the claims that a dead process or an
aborted cycle left behind.
The properties are stated up to them, because the code accepts all three: a claim past its limit
is given to the next cycle even if its holder is only slow, a failed item is analysed
again, and an orphaned claim stands until it is stale. A claim that outlived its
cycle is no excuse for anything else: when it is lifted, nobody holds it.

Records fail in two ways. Inside the `try` (`agent_runtime.py:1148-1153`) the handler records the
whole item as failed, the rows already written included (`RecordingFails`). Where nothing
catches it, for an ignored item (`1126-1127`), in the handler's own records or in its audit
(`1155-1168`), the exception ends `run_mailbox` and leaves its rows `running` (`Aborts`).
`ImplementsLedger` maps the live table, the cycles and the artifacts to `WorkLedger`.

Abstractions: an analysis makes nothing, one artifact (an approval with its draft
counts once, in the same transaction-free stretch of code), or begins one mailbox
action, since which of them and why is the matter of `MailDecision`;
conversation records, activity and intelligence columns are not read by any of this;
the hundred messages a reconciliation takes at most are more than any instance has.

### MailSync

One mailbox of one connector. `place` and `rev` are the provider's side: where a
message is and the provider's clock at its last change, which is Gmail's
`historyId` and the order of a Graph delta; under IMAP a message is its UID, its
rank of arrival. `rows` holds the version each row was fetched in, `cursor` the row of
`sync_state`, `sync` the run of each worker between two requests. An IMAP or Gmail run
asks for ids (`search`, `list`, `history`), fetches one message after another and
stores all in one stretch of code without an await (`Commit`: rows, deletions, cursor,
each a transaction of its own, so `DieInCommit` may leave some of them,
`cloud_sync.py:90-94`). An IMAP request may never be answered (`Hang`): the
client sets no timeout (`connectors/imap/mail_agent_imap/client.py:34`) and is awaited under the
mailbox's lock, so the run stays `hung` and no other begins; the loop serves mailbox after mailbox, and
waits likewise (`away`) for a server of another one or one its agent's cycle calls. Only the death of the
process ends it. A Graph run stores page by page and its cursor with the last
one (`Page`, `ApplyPage`). `leaving` is a message the agent moved
away and whose row `_mutate_mailbox` still has to remove. `floor` is the oldest
cursor the provider accepts: a Gmail run then begins from scratch, a Graph run fails,
and will fail again.

`skipped` and `newest` are history. "The cursor never runs ahead of the rows" holds
under IMAP without exception, and under the cloud connectors up to two holes of the
code, both in the hazard list: a run from scratch removes no rows, and under Gmail
takes its cursor from the first message it fetched (`skipped`); and once a request to
sync now was made beside the loop (`Requested`), the late one of two runs may replace a
newer version, with a Graph page or with Gmail rows whose cursor a death kept back
(`Raced`). As long as nobody asks for a sync, the second hole is closed. Liveness is
stated up to these and to what an expired Graph cursor keeps out of reach.

### Accounts

`state.json` is read and written as a whole, so `file` is one record; a handler is a
step from await to await, and `requests` holds the waiting ones with what they took
along, the old `file` in the case of `update_llm_settings` (`main.py:814`). `wanted`
is the file as it would be if every change had touched its own part only: the
property compares the two. The vault, the sign-in sessions and the codes exchanged are the
controller's and the runtime's; a refresh is a request like any other and stores
what it began with. `ResetHolds` states that a reset lasts until the next onboarding;
it does not hold, since a change of the model that waits for the provider's health
writes the whole old file back. No run repeats it.

### OwnerLearning

`profile`, `feedback`, `decisions` and `memory` are the four files. Of `MEMORY.md` a
`Memory` keeps where its learned section stands (missing, last, or with another section after it),
which learnt lines are in it and which are anywhere else. `accept_learning` looks for the line in the
whole text and appends at its end (`Appended`); a withdrawal removes the section up to the next
`## ` (`WithoutSection`). The two agree on the code's own texts. The owner's editor may save any text
(`SaveEditor`), one read before other writes included: after a text with a section behind the learned
one, accepted lines land outside it and survive a withdrawal. `rearranged` remembers such a text,
and `OwnersWordHolds` exempts lines outside the section from then on; `AcceptedIsForgotten`, the
sentence of `docs/OWNER_LEARNING.md:51-52`, makes no exemption and does not hold. No run repeats it.

Each file is written on its own and over its old text, and a death may fall between two writes or
within one: `DieInAccept`, `DieInReject`, `DieInProfile`, `DieInWithdraw`. A file cut short is read as
far as it goes (`Torn`) or, if it is JSON, as empty: a torn `learning-decisions.json` forgets every
decision (`DecisionsTorn`). Corrections are reduced to the two signals the code counts, the window and
the number that must agree are constants (80 and 3 in the code). Exceptions the code cannot avoid are
named by histories: `cut` (a death amid a removal), `restored` (lines the editor put back),
`orphaned` (lines without their decision) and `rearranged`.

### CalendarAutonomy

`doing` holds each coroutine, a sync or a request, at the request it awaits. A cycle
has the two halves of `_process_autonomous_calendar_mail` and
`_finish_pending_autonomous_creates`; `assist` is the concierge, whose answer from the
model is any. The execution is that of `CalendarExecution`, cut down to its conflict
check, its write and its outcome, so that this module can look at what comes before and
after it. `for` says who waits for it, and decides where an exception goes and whether a reply
is prepared. What makes a proposal safe (no guests, no notification) is one Boolean.

Each proposal has its own time: the one the instruction names, else the one the mail names,
else any the model chooses, at each analysis anew (`TimeOf`, `AssistProposes`). A request to make an event
is on the `wire` from `VerifyPasses` on and arrives or is lost whatever its sender gave up
on (`Arrives`, `Lost`), so a retry can meet it in the calendar or beside it. `BookedOnce` says
what the code guarantees nevertheless, and names the ways around it in two histories: a time
is booked once unless two requests for it were on their way together (`overlapped`); a mail is booked
once, at whatever times, unless the owner gave instructions about it or two cycles had it in hand together
(`contested`), since `_approval_for_source` is asked before an await and not after it.
`ConfirmedOnce`, the wording of `calendar_followup_v172.py:17-21`, does not hold when
two preparations wait for the model at once; the property that is checked and
proved says that this is the only way.

### Conversations

A row of `conversation_threads` with its clocks reduced to what the code compares:
`due` and `snoozed`. Messages and waits of a conversation are numbered as they
begin, so that "the draft belongs to this wait" can be said. A pass
reads the due rows once and awaits the model for each. `ReplayKeepsClock` states the comment of
`mark_outbound_sent`: it holds for a replay right after the reply and not once a
later message was recorded. No run repeats it.

### Undo

A request reads the token, awaits the provider and then consumes the token; the
window may end and the owner may work in another client meanwhile. `reverts` counts
what the provider did, `doubtful` names the tokens two requests had in hand and those
whose answer was lost.

### MailDecision

The stages of `analyze_message` and of the agent it calls, with an owner who changes
settings whenever a model is awaited. `held` are the settings `analyze_message` read,
`reread` those the agent read itself, for they may differ. The policy's tables are
operators (`Allowed`, `RequiresApproval`), actions and categories the policy does
not tell apart are one. `ObserverMakesNothing`, the sentence of `policy.py:58`, holds
for mails and not for follow-ups, whose drafts do not ask the policy. No run repeats it.

### MCAssistant

The six modules share no state in the code but the files and tables each owns, so
their product would only multiply. A behaviour of `MCAssistant` is a behaviour of the part
that `part` names while the others rest in one initial state; the reachable states are those of
six instances side by side, and each property speaks of its own. What they do share
is modelled inside each: an approval's execution in `CalendarAutonomy`, settings that change under
a decision in `MailDecision`.

### WorkLedger

The queue without tables, threads, batches and clock. A worker claims open messages, makes
at most one thing for each, and settles the message or gives it back with nothing made;
workers may stop, one by an exception or all with the process, which opens what was claimed. A message *lapses*, and
the ledger is silent about it from then on, when a slow worker loses its claim or a thing made
for it is not put on record. The refinement mapping reads a message's state from the live
table (`settled`), from the cycles (`claimed`) and from the histories (`lapsed`); a row that
says `running` for a dead process or an aborted cycle is an open message.

### ApprovalGate

The two approval components implement it: `Gate` in each is an `INSTANCE` with a refinement
mapping, `ImplementsGate` its specification as a property. The gate forbids an
effect without an approval, an effect with another text than the one approved, a
decision after a decision, and a revision after a decision.

## 3. What the runs check

| Run | Instance | Shows |
|---|---|---|
| `approval_text` | 2 approvals, 1 draft, 2 texts, 2 calls, 2 attempts | Draft and approval stay consistent (`DraftMatchesApproval`); a draft has one open request at most (`SubmittedOnce`), except after a death between the two transactions of a submission; only the approved text reaches the provider (`OnlyApprovedTakesEffect`); what is recorded as done was done or the owner said so (`DoneWasAccepted`); one call per execution and none stuck (`ExecutingHasOneCall`); a death never leads to a second send the owner did not ask for (`OnlyLostAnswersDuplicate`); nothing sent is touched again (`SentIsFinal`); the gate is implemented, so decisions are final (`ImplementsGate`). |
| `approval_live` | 2 approvals, 1 draft, 1 call, 2 attempts | No execution stays in progress for ever (`ExecutionSettles`). |
| `approval_lost_answer` | 1 approval, 2 attempts | Violation, see findings. |
| `calendar_retry` | 1 approval, 3 attempts, 1 foreign event, 3 texts of which 2 overlap, 2 calls | A change is carried out at most once (`AppliedOnce`); `completed` is only recorded for a change whose write was carried out, for an update whose content Google has, or for a delete of what it did not find (`CompletedIsTrue`); every execution ends or is settled by the next start (`ExecutionSettles`). |
| `calendar_pair` | 2 approvals, 2 calls, 2 attempts, 1 foreign event | Only approved proposals reach Google (`OnlyApprovedApplied`); one coroutine per executing row (`ExecutingHasOneRun`); a change is carried out only on the version the proposal was prepared on (`NoLostUpdate`); the gate is implemented. |
| `calendar_own_conflict` | 1 approval, 2 attempts | Violation, see findings. |
| `queue_threads` | 2 messages of one thread, 2 cycles, live and Shadow by turns, 1 ignored sender, stale after 1 tick, 2 artifacts, 1 death | Two cycles never hold one message (`ClaimedByOne`); no path out of a cycle leaves a claim behind, in either table, but a death or an exception that nothing catches (`ClaimIsHeld`); a message gets one artifact but for lapsed claims and lost records (`ArtifactOnce`); what is settled is not taken up again (`SettledIsFinal`); only processed mail is marked read (`ReadWasProcessed`); the live table keeps the promise of the ledger, with two cycles and lapsing claims (`ImplementsLedger`). |
| `queue_live` | 2 messages one by one, 1 cycle, stale after 2 ticks, 2 artifacts, 1 death | Every message in the inbox is settled in the end (`EveryMessageSettles`), after failures, failed records, aborted cycles and a death. |
| `queue_shadow` | 1 message, 1 cycle | Violation, see findings. |
| `mailbox_sync` | 2 messages, each of the 3 connectors, the loop and a request, 1 message per run or page, 2 pages, 4 changes, 1 fault, servers that fall silent | No cursor runs ahead of the rows (`CursorCovers`), under IMAP never, under Gmail and Graph but for the named holes, of which the loop by itself has only the first; a mailbox left alone is mirrored in the end (`Converges`), but for the same holes and unless a run waits for a silent server for ever. |
| `assistant` | the six parts with 2 requests (coroutines, passes, undoers) each | What the owner set stands (`AcceptedStands`) and every mailbox on record has its credential (`MailboxBacked`); what the owner said about learning holds in every file (`OwnersWordHolds`); a time and a mail are booked once and an entry is confirmed once, but for named races (`BookedOnce`, `ConfirmedOnceUnlessRaced`); a wait has one follow-up (`OneFollowUpPerWait`) and new mail is not hidden (`NewMailIsNotHidden`); an action is undone once (`UndoneOnce`); the agent acts within mode, policy and rules (`ActsAsAllowed`); a failed expert costs no mail its analysis (`PrimarySuffices`). |
| `clear_mail` | 1 mail, 1 proposal, 1 draft, 1 coroutine | Violation, see findings. |

**Why these bounds.** An approval is independent of the others but for the drafts
and the event loop they share, so two show every interference between two. Two
texts tell an edited one from an old one. Two calls give two concurrent
executions, the least at which a double claim shows. Two attempts are a send and
its replay; the calendar run has three, so that a late write of the first can meet
both a retry and another one after a recovery. `MaxEtag` only bounds what other
clients do; the agent's own writes are bounded by the attempts. In
`approval_live` a single call is enough, since progress of an
execution does not depend on another one; the second approval is there to compete
for it. In the queue, two messages make a thread that can grow
while one of them is analysed, two cycles are the loop and one request, and a limit of
one thread makes the second wait; a third cycle or message adds no new pair that meets at a row. `MaxArtifacts` is two, since a second artifact is the error. In `queue_threads` the constraint
`SimulatedAlone` keeps the run small: of the two messages only the newest is there in Shadow mode and while it
has a Shadow row, so it is simulated and worked on by turns, and the thread grows in live mode.

In `mailbox_sync` two messages are one that a run has and one that it has not yet;
with one message per run and page, every run needs a second one, and two pages
reach the point where a Graph run gives up (100 pages in the code). Four changes allow a
message to arrive, change, leave and the other to arrive between the requests of one run; one
fault is enough, because after a fault nothing of the run is left but the rows and the cursor.
In `assistant`, two requests are the least that race, and two ids of every
kind the least at which a second booking, reply, draft or sign-in can show. One
mailbox of each kind, one section and one model stand for any, since the parts of
`state.json` differ only in who writes them; `Evidence` of 2 and `Window` of 3 make a single
correction too few and let one leave the window; one phrase stands for every preference, since each is handled
alike (`Lengths` is empty). Two times are the one a mail was read to name and another. The appointments have two proposals or any
drafts, not both (`Few`): a double booking needs two proposals and no reply, a double confirmation one proposal and two replies. Three waits of one conversation are one more than a late
draft can confuse. `SomeBehaviors` and `SomeOwners` list every mode, rule and handling the policy
tells apart; for all combinations there is the theorem. `MaxGrants` of 2 is a sign-in and its renewal.

Symmetry is used only in runs without liveness properties, on sets whose
members are only compared (in the calendar, the two overlapping texts; in `assistant`, requests and
ids). Deadlock is checked in every run but `mailbox_sync` and `assistant`, where the bounds on
changes, ids and sign-ins let everything come to rest.

**Fairness.** The asyncio ready queue is FIFO, so a handler that is between two
transactions goes on (`WF` of `HandlerStep`). A provider call ends: the HTTP clients of Google and
Microsoft have timeouts, so the call returns or raises. In the mail model its end can be disabled
again and again by other handlers that hold the loop for a moment, hence `SF` of
`CallReturns`; in the calendar model no step holds the loop, hence `WF` of `RunStep`.
SMTP (`connectors/imap/mail_agent_imap/smtp.py:12`) and IMAP (`client.py:34`) set no timeout: for
these the code guarantees no end of a call. `ExecutionSettles` and `EveryMessageSettles` hold for mailboxes whose
server answers, an assumption on the environment; `MailSync` does without it, see below. Both hazards are listed. A gateway that
died is started again (`WF` of `Restart`), by the launcher or the owner. In the queue, the event loop resumes whoever can run
(`WF` of `RunsOn`), calls end (`SF` of `Returns`, since others hold the loop now and then), the
sync loop begins a cycle again and again (`SF` of `Begin(Loop, FALSE)`: `_sync_loop` survives every
exception; a mailbox that cannot be synchronised for ever is excluded), and neither the
model nor a mailbox action nor a record fails for ever (`SF` of `AnalysisSucceeds`, `MutationSucceeds` and of
`Record` with an outcome that settles).
The last is an assumption on the environment: without it a message may fail in every
cycle, and under a small limit it starves older threads, a listed hazard.
In `MailSync` the loop begins a run again and again (`SF` of `Begin(Loop)`, for the same
reason), a run under way goes on while it is answered (`WF` of `Progress`), and
the agent's move ends with the removal of its row (`WF` of `AgentRemovesRow`, which matters for the connectors
with timeouts only); faults are bounded, that is, they stop at some time. That an IMAP server answers is *not* assumed:
a run, or the loop elsewhere, may hang at any request, and `Converges` promises convergence only to behaviours in which
it is again and again true that nobody waits for such a server (`SomeoneWaits`). That is all the code gives: with
a server that never answers, the mailbox, and under the loop every mailbox after it, stays as it is until
the next start. Nothing
is assumed of the owner, of other clients, or of the network's willingness to
deliver. The parts of `assistant` are checked for safety only and state no fairness.

Every property has a mutant in `PROJECT.json`: an operator beside the original
(`ClaimableTwice`, `EditableOnceDecided`, `UnchangedUnchecked`, `NeverOccupied`,
`MayKeepOnceAsked`, ...) that a plausible slip in the
code would produce, and that makes the property fail.

### Findings

1. **A send whose answer is lost can be repeated silently**
   (`approval_lost_answer`). `execute_approval` records every exception as `failed`
   and `claim_approval_execution` accepts a failed row. `docs/SECURITY.md:38-39`
   promises that retry handling prevents silent duplicate sends where delivery
   state is uncertain. The code keeps that promise for process death
   (`OnlyLostAnswersDuplicate`), not for a timeout after acceptance.
2. **A create conflicts with itself on retry** (`calendar_own_conflict`).
   `execute` repeats the conflict check before it looks for the event an earlier
   attempt made, and does not exclude it. After a lost answer the retry is refused for a conflict with
   its own event and the reconciliation that `docs/ARCHITECTURE.md:122-125` describes
   is reached only with `allow_conflict`. The test of the reconciliation uses a
   fake whose `list_events` does not return the created event.
3. **Switching to Shadow mode does not stop a cycle under way** (`queue_shadow`).
   `run_mailbox` reads the execution mode once (`agent_runtime.py:1050`) and `analyze_message`
   only its `simulation` argument, so the rest of a live batch still makes approvals, drafts and
   mailbox actions. `main.py:796` returns `shadow_side_effects_forbidden: True` in the answer to
   the switch, and `apps/web/app.js:323` tells the owner that productive mail actions are locked.
4. **The autonomous cycle never books a clear mail** (`clear_mail`). Its instruction begins
   with "Trage ... ein" (`main_v173.py:325-326`); the concierge proposes an exact
   time only for an instruction that `_CREATE_INTENT` recognises
   (`calendar_concierge_v171.py:22-26`), and that pattern knows `trag`, not `trage`. So a
   mail with one date, one time and a free slot is answered with "free" and noted as
   needing the owner, while a mail that leaves something open may be booked.

Six more sentences of the source are stated in the modules and do not hold of the code; no run repeats
them, so they are named as notes in the module sections and in the hazard list: `DiscardedIsTerminal`
(`MailApproval`: a draft discarded before it had an approval can be submitted, `draft_service.py:119`, against
`draft_lifecycle_v171.py:14-15`), `DeleteIsReconciled` (`CalendarExecution`), `AcceptedIsForgotten`
(`OwnerLearning`), `ReplayKeepsClock`, `ConfirmedOnce` and `ObserverMakesNothing`; and `ResetHolds`, which no document promises.

## 4. What is proved

For every set of approvals, drafts, mails, requests and so on and every value of the
bounds; the assumptions are those of the modules (`MailApprovalAssumption`, `QueueAssumption`,
`CalendarAssumption`, `AccountsAssumption`, `LearningAssumption`, `AutonomyAssumption`,
`ConversationsAssumption`, `UndoAssumption`, `DecisionAssumption`, `MailSyncAssumption`: ids and absent values are
distinct, bounds are numbers, overlap is
reflexive; `NoneIsNoEffect`, `NoneIsNoRun`: NULL is no record). TLC evaluates each of them on
the instance of a run.

`MailApprovalProofs`:

- `TypeCorrect`: `Spec => []TypeOK`. The induction needs what a handler established before the
  transaction it stands at (`HandlerOK`) and that rows that exist have a text
  (`RowsOK`), together `Typed`.
- `DecisionsFinal` (`DecisionIsFinal`, which no run repeats, since `ImplementsGate` implies it) and
  `OnlyApprovedText`: a step lemma `BoundaryStep` classifies what any
  step does to the decisions, texts and effects; `OnlyApprovedTakesEffect` is
  inductive over it: a request enters the wire only for an approved row with
  the row's text, and an approved row's text never changes.
- `MailApprovalImplementsGate`: `Spec => Gate!Spec`. The same lemma shows each step to
  be a step of the gate or a stutter; `OnlyApprovedTakesEffect` says that what the provider accepts late is
  still the approved text.
- `OneCallPerExecution`: `Spec => []ExecutingHasOneCall`. The invariant
  says nothing of the moment of death, so it is strengthened to `CallsMatch`:
  a dead process has no calls, a row under execution has been approved.
- `DoneWasDone` (`DoneWasAccepted`): a row becomes done only by an answer of its call or of
  the owner (`WhoFinishes`).
- `DraftsMatch` (`DraftMatchesApproval`) and `DraftsAreSubmittedOnce` (`SubmittedOnce`): the invariant
  `Story` adds that no two drafts name one approval, that only a granted row leaves
  `not_applicable`, and what a handler found before its first transaction that still holds at
  its last (`HandlerKnows`): without it a submission could link a draft that changed
  meanwhile. An open request is named by its draft or is about to be linked (`Linked`).
- `NoCrashDuplicates` (`OnlyLostAnswersDuplicate`): every attempt the provider has, or may still
  get, is the one its row is at, or the owner asked for another after it, or it was given up
  as failed (`Accounted`). A new attempt starts only from `ready` or `failed`, where no
  attempt is the current one any more.
- `WhatIsSentStays` (`SentIsFinal`): from the same classification of steps.

`CalendarProofs`:

- `CalendarTypeCorrect`: the same pattern, with coroutines (`RunsOK`).
- `OnlyApprovedReachesGoogle`: `OnlyApprovedApplied` for every instance.
- `NoUpdateIsLost`: every update or delete carried out met the version it was
  prepared on. The code's half is in `Granted`: a write on its way names in `If-Match` the version its
  proposal was prepared on, because `execute` compared the two before it sent the write. Google's half is
  that it takes no other version. Neither alone is enough.
- `ChangesApplyOnce`: `Spec => []AppliedOnce`, the theorem behind "a retry cannot
  silently duplicate a mutation". The invariant is not inductive: an attempt on the
  wire could meet an event that admits it again. The strengthening says what a
  carried-out write leaves at Google: the event of a create is no longer absent for
  ever, and the version an update or a delete was prepared on is past for ever
  (`Marked`); and every write in the system is one its approval sent (`WritesOK`). Then a second attempt of the
  same approval cannot be admitted, whoever edits the event in between.
- `CalendarImplementsGate`: the same gate, with the writes carried out as effects.
- `OneRunPerExecution` (`ExecutingHasOneRun`): strengthened to `RunsMatch`, as for the calls of
  `MailApproval`.
- `CompletedWasDone` (`CompletedIsTrue`): needs that a coroutine at `collision` works on a
  create (`CollisionOK`), which follows from a refused write being a granted proposal; and that what
  is found at the id of a create, deleted or not, was made by a write of that approval (`OwnEvents`).

`QueueProofs`:

- `QueueTypeCorrect`, from `AlwaysTyped`: the types and what the steps of a cycle rely on
  (`CyclesOK`: only a working cycle has an item, claimed items are disjoint).
- `StepKinds` is the lemma the rest is built on: seen from the claims, every step is
  quiet, one in which cycles stop (all by a death, one by an exception), a batch claimed or one row recorded.
- `ClaimsAreExclusive` (`ClaimedByOne`), `NoClaimIsLeftBehind` (`ClaimIsHeld`) and
  `NothingIsWorkedTwice` (`SettledIsFinal`) follow kind by kind. The first is inductive together with
  what a record that may be repeated as a failure has written so far (`Marked`, `OutcomeWritten`,
  together `Claims`); the third needs it.
- `OnlyProcessedIsMarked` (`ReadWasProcessed`): a cycle's list is old, but what was processed when it was read
  stays processed (`MarksProcessed`).
- `OneArtifactPerMessage` (`ArtifactOnce`): the invariant is strengthened to `Fresh`: a message that is
  neither settled nor held has no artifact, nor has one that a cycle is still to analyse or
  to report as failed. "Not settled" alone would not do: after a death a row still says `running`, and
  what is claimed again must be as new as what never was. The lemma `ArtifactKinds` splits the steps by what they
  do to the artifacts: none, one more (`Spent`), a record that fails (`Spoiled`), cycles that stop (`Stopped`).
- `QueueImplementsLedger` (`ImplementsLedger`): every step is a step of `WorkLedger` or a stutter. The
  proof goes by `StepKinds` and `ArtifactKinds`; it needs `ClaimedByOne` (a message has one holder, whose
  outcome settles it or gives it back) and `Fresh` (what is given back or claimed has no artifact, and
  a second artifact is never made). A batch claimed is one step of the ledger, in which the claims that
  slow cycles held lapse.

`OwnerProofs`:

- `AccountsTypeCorrect`: types, what each waiting request took along, and that a sign-in under way
  names its account (`AccountsInv`).
- `SettingsStand` (`AcceptedStands`): what a request that waits with an old `file` will
  write back differs from the file only in parts that its write will name in `reverted`.
- `MailboxesStayBacked` (`MailboxBacked`): the property must also hold of the old files that
  requests still hold, since `update_llm_settings` may write one back.
- `LearningTypeCorrect`; `OwnersWordStands` (`OwnersWordHolds`), action by action over
  the four files. What each action makes of `MEMORY.md` is one lemma (`TextAfter`); the strengthening says that as
  long as the owner's editor rearranged nothing, the learned section is the last one and holds every learnt
  line (`SectionFound`), so that a withdrawal finds them all, and that a line on file was accepted, restored or
  orphaned (`OnlyAcceptedIsLearned`), since a torn file of decisions forgets rejections too.
- `UndoTypeCorrect`; `NothingIsUndoneTwice` (`UndoneOnce`): a token that is not doubtful was not undone
  as long as it can be, or is being, undone.

`AutonomyProofs`:

- `AutonomyTypeCorrect` (`AutonomyInv`): types, and every proposal in hand, on the wire or in the
  calendar has its row, about a mail and at a time (`ProposalsMade`).
- `NothingIsBookedTwice` (`BookedOnce`), in two halves. `SentApart` looks at requests on their way as well as
  at events: two of them share a time only if two requests for it were on their way at once, because a request leaves
  when no event of its time is there, and what arrives late was on its way all along. `ServedApart` looks
  at proposals and at coroutines at work on a mail: two of these share a mail only if it is `contested`, because
  a cycle takes a mail up when no proposal of it is there and makes one at most.
- `NothingIsConfirmedTwice` (`ConfirmedOnceUnlessRaced`): the same for replies and the requests for
  their text (`RepliesApart`), over deaths that leave a draft without its approval.

`InboxProofs`:

- `ConversationsTypeCorrect` (`ConversationsInv`), with: a conversation that waits has a wait, and
  waits are numbered as they begin.
- `NothingNewIsHidden` (`NewMailIsNotHidden`); `FollowUpsAreNotRepeated` (`OneFollowUpPerWait`):
  two drafts, two passes, or a draft and a pass have one wait only if it is in `shared`,
  and a row knows of the draft of its wait (`FollowUpInv`).
- `DecisionTypeCorrect`; `ActsWithinTheRules` (`ActsAsAllowed`), a lemma over one decision for every
  proposal, setting and owner; `FallbackSuffices` (`PrimarySuffices`): unless the
  routing was switched, the agent knows of an expert whenever it is routed to one.

`SyncProofs`:

- `SyncTypeCorrect`: from the inductive invariant `SyncInv`, since what a run records
  is in range only because of what it gathered.
- `CursorNeverLeads` (`CursorCovers`), in two layers. `SyncInv` relates the store to the
  provider, whatever overlaps: the provider's clock dates every message
  (`MailboxDated`), every version stored or fetched is the present one or an older one
  (`Seen`), every message below an IMAP cursor is stored (`ImapStore`), every version
  below a cloud cursor was stored once or skipped (`CloudStore`). It says so of each run
  in its connector's terms: an IMAP run has fetched, or still has in hand, everything between
  the cursor it began with and the one it will record (`ImapRun`, which needs that it
  fetches in ascending order: with the newest first it would be false); a history names all
  that changed between its two cursors (`PartialRun`); a full sync records the version of the
  first message it fetched (`FullRun`); a Graph run has stored all pages but the one in
  hand, and its last page leaves nothing out (`GraphRun`). From this the cursor's
  promise follows up to `Raced`. `LoneInv` excludes `Raced` as long as no request was
  made: then the loop's run works from the cursor as it stands, and whatever version a
  page brought is still newer than that cursor. It is inductive only together with
  the fact that a request once made stays on record (`RequestsStay`). A run that hangs is at the end of all
  this: it has nothing in hand and promises nothing.

`AssistantProofs`:

- `PartsBehave`: a behaviour of `MCAssistant` is a behaviour of each of its six parts.
- `AssistantTypeCorrect` (`AssistantTypeOK`) and `AssistantIsSafe`, the ten safety properties of run
  `assistant` together: what is proved of the parts holds of the instance that TLC explores.

Only model-checked: the three liveness properties (`ExecutionSettles`, `EveryMessageSettles`,
`Converges`), which are out of the prover's reach. Every other property of a passing run is a
theorem.

## 5. Limits

- Inside `_deliver` and `_mutate_mailbox` a connector may use several requests (a Graph
  reply is created, updated and sent in three, `connectors/microsoft/mail_agent_microsoft/client.py:311`).
  They are one effect here, so a draft left behind at the provider by a failure between them is not seen.
- Two approved creates of one interval can both pass their conflict checks
  before either request arrives, and two cycles can have one mail in hand. Nothing in the code excludes it or
  claims to; `BookedOnce` names these, and the owner's own instructions about a mail, as the only ways to book
  twice.
- That the IMAP part of the queue goes on after a server fell silent is assumed in `EveryMessageSettles`; what happens
  if it does not is modelled in `MailSync` only.
- A cycle that rechecks a pending proposal does not ask for the mode again (`main_v173.py:249`):
  an owner who switches Autonomous mode off in that moment still gets the entry. No sentence of the source says
  otherwise, so no property does.
- A Graph mailbox with more than 100 pages of changes never records a cursor
  (`cloud_sync.py:134`); `Converges` holds in the run because the rows come with the pages.
- An answer `sent` to an uncertain execution (`reconcile_uncertain`) is not recorded as outbound mail of its
  conversation; the model of `Conversations` counts it as a reply sent and not recorded.
- `approve` names an approval, not the text on the owner's screen. The model's
  approved text is the one in the row at that moment.
- UIDVALIDITY is not read by the code, so the model's UIDs never change; the hazard is listed.
- Approval does not follow from a model's answer anywhere; what the language model proposes is any
  content at all.

### Not modelled

- `find_free_slots` and free/busy, which only read; the parsing of dates; prompts and
  formats, encryption, rendering. There is no protocol in them.
- Owner instructions to the agent (`instruct_attention_agent`), Shadow replay, which writes only its own job,
  and the attention lists, which are read-only views of the rows that are modelled.
- The counters behind a suggested sender pattern, usage statistics of the models, the
  in-memory activity ring.
- The factory reset's removal of files and the diagnostic report of the recovery manager.
- Audit log, briefing, provenance, web interface, agent registry: append-only, read-only or sequential.
- Launcher and updater: process start, supervision, ports, downloads; operating-system I/O without
  state that the gateway reads.

## 6. Plan

Done, in this order: `MailApproval` and `CalendarExecution`, both implementing
`ApprovalGate`; `AgentQueue`; `MailSync`; `MailDecision`; `Accounts`; `Undo`;
`Conversations`; `OwnerLearning`; `CalendarAutonomy`; the proofs named above.

What is left, the most useful first:

1. `CalendarAutonomy` over `CalendarExecution`: its reduced execution as a refinement of
   the detailed one, with etags and updates.
2. `find_free_slots` against a reference definition over small days.
3. The launcher's supervision of the gateway process.
