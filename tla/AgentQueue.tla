----------------------------- MODULE AgentQueue -----------------------------
(***************************************************************************)
(* The agent's work on the messages of one mailbox: the two processing      *)
(* tables and their claims (agent_queue.py), the cycles that work a batch   *)
(* off (agent_runtime.py, run_mailbox), started by the sync loop and by     *)
(* HTTP requests at the same time, process death and the recovery of claims *)
(* that have become stale.                                                  *)
(*                                                                          *)
(* A cycle gives the event loop away only while it awaits the language      *)
(* model or the mail provider; from there to the next await it runs         *)
(* undisturbed, through several transactions between which the process can  *)
(* die.                                                                     *)
(***************************************************************************)
EXTENDS Naturals, FiniteSets

CONSTANTS
  Messages,     \* messages by their uid
  Thread,       \* the thread of each message
  Ignored,      \* messages from senders with an IGNORE rule
  AnalyzeOnly,  \* messages from senders with an ANALYZE_ONLY rule
  Coalescing,   \* behavior.thread_coalescing
  Limit,        \* behavior.max_messages_per_cycle
  Configs,      \* settings the owner may choose: execution mode, agent active
  Cycles,       \* coroutines that may be in run_mailbox
  Loop,         \* the one the sync loop starts
  StaleAge,     \* ticks after which a claim is stale (15 minutes)
  MaxArtifacts, \* bound on the artifacts made for one message
  MaxCrashes    \* bound on the deaths of the process

Tables == {"live", "shadow"}

ASSUME QueueAssumption ==
  /\ Messages \subseteq Nat \ {0}
  /\ Ignored \subseteq Messages /\ AnalyzeOnly \subseteq Messages
  /\ Ignored \cap AnalyzeOnly = {}
  /\ Coalescing \in BOOLEAN
  /\ Limit \in Nat \ {0}
  /\ Configs \subseteq [mode: Tables, active: BOOLEAN]
  /\ Configs # {}
  /\ Loop \in Cycles
  /\ StaleAge \in Nat /\ MaxArtifacts \in Nat /\ MaxCrashes \in Nat

VARIABLES
  up,           \* the gateway process is alive
  crashes,      \* how often it has died
  config,       \* the behaviour settings in state.json
  inbox,        \* table messages
  seen,         \* messages marked read in it
  rows,         \* tables agent_processing and agent_shadow_processing
  cycles,       \* the coroutines in run_mailbox
  artifacts,    \* approvals, drafts and direct executions made for a message
  expired,      \* history: live claims found past the limit while they were held
  broken,       \* history: messages whose artifact was made, but not recorded
                \* before the analysis, the store or the process failed
  orphans       \* history: claims of each table that outlived the process or
                \* a cycle ended by an exception

mail == <<inbox, seen>>
history == <<expired, broken, orphans>>
vars == <<up, crashes, config, inbox, seen, rows, cycles, artifacts, expired, broken, orphans>>

-----------------------------------------------------------------------------
Settled == {"processed", "below_confidence", "ignored_rule"}

Row == [status: {"none", "running", "error"} \cup Settled, age: 0..(StaleAge + 1)]

\* What a cycle works on at once: one message, or the open ones of a thread,
\* analysed as the newest of them; retry for one that failed before.
Item == [ids: SUBSET Messages, newest: Messages, retry: BOOLEAN]

NoItem == [ids |-> {}, newest |-> 0, retry |-> FALSE]

Cycle ==
  [step: {"idle", "next", "analyse", "mutate", "record", "mark"},
   table: Tables,
   todo: SUBSET Item,                 \* claimed items not yet begun
   item: Item \cup {NoItem},          \* the item being worked on
   left: SUBSET Messages,             \* rows still to record, or mails to mark read
   outcome: {"error"} \cup Settled]   \* what is to be recorded

Resting ==
  [step |-> "idle", table |-> "live", todo |-> {}, item |-> NoItem, left |-> {},
   outcome |-> "processed"]

TypeOK ==
  /\ up \in BOOLEAN
  /\ crashes \in 0..MaxCrashes
  /\ config \in Configs
  /\ inbox \subseteq Messages
  /\ seen \subseteq Messages
  /\ rows \in [Tables -> [Messages -> Row]]
  /\ cycles \in [Cycles -> Cycle]
  /\ artifacts \in [Messages -> 0..MaxArtifacts]
  /\ expired \subseteq Messages
  /\ broken \subseteq Messages
  /\ orphans \in [Tables -> SUBSET Messages]

Init ==
  /\ up = TRUE
  /\ crashes = 0
  /\ config \in Configs
  /\ inbox = {}
  /\ seen = {}
  /\ rows = [t \in Tables |-> [m \in Messages |-> [status |-> "none", age |-> 0]]]
  /\ cycles = [c \in Cycles |-> Resting]
  /\ artifacts = [m \in Messages |-> 0]
  /\ expired = {}
  /\ broken = {}
  /\ orphans = [t \in Tables |-> {}]

-----------------------------------------------------------------------------
\* A cycle runs until it awaits something; the loop is free when none does.
LoopFree == up /\ \A c \in Cycles : cycles[c].step \notin {"next", "record"}

At(c, step) == up /\ cycles[c].step = step

Awaits(c, step) == LoopFree /\ cycles[c].step = step

\* The order of list_pending: new messages before failed ones, then by uid;
\* list_pending_threads orders by the newest uid alone.
Precedes(i, j) ==
  \/ ~i.retry /\ j.retry
  \/ i.retry = j.retry /\ i.newest > j.newest

-----------------------------------------------------------------------------
(* The queue: one transaction recovers stale claims and claims a batch.     *)

StaleImmediately(row) == row.status = "running"

Stale(row) == row.status = "running" /\ row.age > StaleAge

RecoveredAsStale(row) == IF Stale(row) THEN [row EXCEPT !.status = "stale"] ELSE row

RecoveredAsProcessed(row) == IF Stale(row) THEN [row EXCEPT !.status = "processed"] ELSE row

NeverRecovered(row) == row

Recovered(row) == IF Stale(row) THEN [row EXCEPT !.status = "error"] ELSE row

OpenOnceDone(row) == row.status \notin {"running", "ignored_rule"}

Open(row) == row.status \in {"none", "error"}

OpenIn(t) == {m \in inbox : Open(Recovered(rows[t][m]))}

\* The open messages of the thread of n.
Together(t, n) == {m \in OpenIn(t) : Thread[m] = Thread[n]}

Items(t) ==
  IF Coalescing
  THEN {[ids |-> Together(t, n), newest |-> n, retry |-> FALSE] :
          n \in {n \in OpenIn(t) : \A m \in Together(t, n) : m <= n}}
  ELSE {[ids |-> {m}, newest |-> m, retry |-> Recovered(rows[t][m]).status = "error"] :
          m \in OpenIn(t)}

\* The first items, as many as a cycle takes.
IsBatch(batch, items) ==
  /\ \A i \in batch, j \in items \ batch : Precedes(i, j)
  /\ Cardinality(batch) <= Limit
  /\ batch # items => Cardinality(batch) = Limit

ClaimedIds(batch) == UNION {i.ids : i \in batch}

\* The messages a cycle has claimed and is not yet done with.
Holds(c) == ClaimedIds(cycles[c].todo) \cup cycles[c].item.ids

Held(t, m) == \E c \in Cycles : cycles[c].table = t /\ m \in Holds(c)

\* The rows of these messages still say that someone works on them.
StillRunning(t, S) == {m \in S : rows[t][m].status = "running"}

Claimed(batch, t) ==
  [rows EXCEPT ![t] = [m \in Messages |->
     IF m \in ClaimedIds(batch) THEN [status |-> "running", age |-> 0]
                                ELSE Recovered(rows[t][m])]]

\* run_mailbox up to its first item; only a request may force it past the
\* settings.
Begin(c, force) ==
  /\ Awaits(c, "idle")
  /\ force => c # Loop
  /\ force \/ config.active
  /\ \E batch \in SUBSET Items(config.mode) :
       /\ IsBatch(batch, Items(config.mode))
       /\ rows' = Claimed(batch, config.mode)
       /\ cycles' = [cycles EXCEPT ![c] =
                       [Resting EXCEPT !.step = "next", !.table = config.mode, !.todo = batch]]
  /\ expired' = IF config.mode = "live"
                THEN expired \cup {m \in Messages : Held("live", m)
                                                   /\ rows["live"][m].status = "running"
                                                   /\ rows["live"][m].age > StaleAge}
                ELSE expired
  /\ orphans' = [orphans EXCEPT ![config.mode] =
       {m \in StillRunning(config.mode, @) : ~Stale(rows[config.mode][m])}]
  /\ UNCHANGED <<up, crashes, config, mail, artifacts, broken>>

-----------------------------------------------------------------------------
(* One cycle.                                                               *)

ToRecordNewest(c, outcome) ==
  cycles' = [cycles EXCEPT ![c].step = "record", ![c].left = {cycles[c].item.newest},
                           ![c].outcome = outcome]

\* The outcome of an item is known and is recorded for each of its messages.
ToRecord(c, outcome) ==
  cycles' = [cycles EXCEPT ![c].step = "record", ![c].left = cycles[c].item.ids,
                           ![c].outcome = outcome]

\* The next item; an IGNORE rule for its newest sender spares the model call.
TakeItem(c) ==
  /\ At(c, "next")
  /\ \E i \in cycles[c].todo :
       /\ \A j \in cycles[c].todo \ {i} : Precedes(i, j)
       /\ LET taken == [cycles[c] EXCEPT !.todo = @ \ {i}, !.item = i] IN
          \/ /\ i.newest \notin Ignored
             /\ cycles' = [cycles EXCEPT ![c] = [taken EXCEPT !.step = "analyse"]]
          \/ /\ i.newest \in Ignored
             /\ cycles' = [cycles EXCEPT ![c] =
                  [taken EXCEPT !.step = "record", !.left = i.ids,
                                !.outcome = IF cycles[c].table = "live"
                                            THEN "ignored_rule" ELSE "processed"]]
  /\ UNCHANGED <<up, crashes, config, mail, rows, artifacts, history>>

MadeFor(m) == [artifacts EXCEPT ![m] = @ + 1]

MayMake(m) == m \notin AnalyzeOnly /\ artifacts[m] < MaxArtifacts

\* The language model has answered: an approval or a draft is made, or neither,
\* or an allowed mailbox action on a message still there is begun.  A simulation
\* makes nothing.
AnalysisSucceeds(c) ==
  LET m == cycles[c].item.newest
      live == cycles[c].table = "live"
  IN /\ Awaits(c, "analyse")
     /\ \/ /\ \E outcome \in {"processed", "below_confidence"} :
                /\ live \/ outcome = "processed"
                /\ ToRecord(c, outcome)
           /\ UNCHANGED artifacts
        \/ /\ live
           /\ MayMake(m)
           /\ artifacts' = MadeFor(m)
           /\ ToRecord(c, "processed")
        \/ /\ live
           /\ MayMake(m)
           /\ m \in inbox
           /\ cycles' = [cycles EXCEPT ![c].step = "mutate"]
           /\ UNCHANGED artifacts
     /\ UNCHANGED <<up, crashes, config, mail, rows, history>>

\* The model call fails, or a store does, with or without an artifact made.
AnalysisFails(c) ==
  LET m == cycles[c].item.newest IN
  /\ Awaits(c, "analyse")
  /\ ToRecord(c, "error")
  /\ \/ UNCHANGED <<artifacts, broken>>
     \/ /\ cycles[c].table = "live"
        /\ MayMake(m)
        /\ artifacts' = MadeFor(m)
        /\ broken' = broken \cup {m}
  /\ UNCHANGED <<up, crashes, config, mail, rows, expired, orphans>>

\* execute_direct marked the message read, or moved it out of the mailbox.
MutationSucceeds(c) ==
  LET m == cycles[c].item.newest IN
  /\ Awaits(c, "mutate")
  /\ artifacts[m] < MaxArtifacts
  /\ artifacts' = MadeFor(m)
  /\ \/ seen' = seen \cup ({m} \cap inbox) /\ UNCHANGED inbox
     \/ inbox' = inbox \ {m} /\ seen' = seen \ {m}
  /\ ToRecord(c, "processed")
  /\ UNCHANGED <<up, crashes, config, rows, history>>

\* It failed, or its answer was lost after the provider had acted.
MutationFails(c) ==
  LET m == cycles[c].item.newest IN
  /\ Awaits(c, "mutate")
  /\ \/ UNCHANGED <<artifacts, broken>>
     \/ /\ artifacts[m] < MaxArtifacts
        /\ artifacts' = MadeFor(m)
        /\ broken' = broken \cup {m}
  /\ ToRecord(c, "error")
  /\ UNCHANGED <<up, crashes, config, mail, rows, expired, orphans>>

\* record_agent_processing or record_shadow_processing, one row after the other.
Record(c) ==
  /\ At(c, "record")
  /\ \E m \in cycles[c].left :
       /\ \A n \in cycles[c].left : m <= n
       /\ rows' = [rows EXCEPT ![cycles[c].table][m] =
                     [status |-> cycles[c].outcome, age |-> 0]]
       /\ cycles' = [cycles EXCEPT ![c] =
            IF cycles[c].left = {m}
            THEN [cycles[c] EXCEPT !.step = "next", !.item = NoItem, !.left = {}]
            ELSE [cycles[c] EXCEPT !.left = @ \ {m}]]
  /\ UNCHANGED <<up, crashes, config, mail, artifacts, history>>

\* The store fails while the outcome of an analysis is recorded: the handler
\* records the whole item as failed, rows already written included.
RecordingFails(c) ==
  /\ At(c, "record")
  /\ cycles[c].outcome \in Settled \ {"ignored_rule"}
  /\ ToRecord(c, "error")
  /\ broken' = IF cycles[c].table = "live"
               THEN broken \cup {m \in cycles[c].item.ids : artifacts[m] > 0} ELSE broken
  /\ UNCHANGED <<up, crashes, config, mail, rows, artifacts, expired, orphans>>

\* An exception where nothing catches it, at the record of an ignored or failed
\* item or in the audit log after a failed one, ends the cycle as it stands.
Aborts(c) ==
  LET t == cycles[c].table
      left == StillRunning(t, Holds(c))
  IN /\ \/ At(c, "record") /\ cycles[c].outcome \in {"error", "ignored_rule"}
        \/ At(c, "next") /\ t = "live" /\ cycles[c].outcome = "error"
     /\ cycles' = [cycles EXCEPT ![c] = Resting]
     /\ broken' = IF t = "live" THEN broken \cup {m \in left : artifacts[m] > 0} ELSE broken
     /\ orphans' = [orphans EXCEPT ![t] = @ \cup left]
     /\ UNCHANGED <<up, crashes, config, mail, rows, artifacts, expired>>

ToMarkEachSettled ==
  {m \in inbox \ seen : rows["live"][m].status \in Settled} \ (Ignored \cup AnalyzeOnly)

\* list_processed_unread, without the senders a rule protects.
ToMarkRead ==
  {m \in inbox \ seen : rows["live"][m].status = "processed"} \ (Ignored \cup AnalyzeOnly)

\* The batch is done; a live cycle goes on to mark processed mail read.
EndBatch(c) ==
  /\ At(c, "next")
  /\ cycles[c].todo = {}
  /\ cycles' = [cycles EXCEPT ![c] =
       IF cycles[c].table = "live" /\ ToMarkRead # {}
       THEN [Resting EXCEPT !.step = "mark", !.left = ToMarkRead]
       ELSE Resting]
  /\ UNCHANGED <<up, crashes, config, mail, rows, artifacts, history>>

\* One mark-read of _reconcile_processed_read returns.  A message that has
\* left the inbox is refused before the request.
MarkRead(c) ==
  /\ Awaits(c, "mark")
  /\ \E m \in cycles[c].left :
       /\ \/ UNCHANGED seen
          \/ m \in inbox /\ seen' = seen \cup {m}
       /\ cycles' = [cycles EXCEPT ![c] =
            IF cycles[c].left = {m} THEN Resting ELSE [cycles[c] EXCEPT !.left = @ \ {m}]]
  /\ UNCHANGED <<up, crashes, config, inbox, rows, artifacts, history>>

-----------------------------------------------------------------------------
(* Around the cycles.                                                       *)

\* Synchronisation stores a message and its read flag, again and again, or
\* finds it gone from the mailbox; the flag goes with the row.
Deliver(m) ==
  /\ LoopFree
  /\ inbox' = inbox \cup {m}
  /\ seen' = seen \cup {m} \/ seen' = seen \ {m}
  /\ UNCHANGED <<up, crashes, config, rows, cycles, artifacts, history>>

Vanish(m) ==
  /\ LoopFree
  /\ m \in inbox
  /\ inbox' = inbox \ {m}
  /\ seen' = seen \ {m}
  /\ UNCHANGED <<up, crashes, config, rows, cycles, artifacts, history>>

\* The owner changes the settings.
Configure(new) ==
  /\ LoopFree
  /\ config' = new
  /\ UNCHANGED <<up, crashes, mail, rows, cycles, artifacts, history>>

\* Time passes.
Tick ==
  /\ rows' = [t \in Tables |-> [m \in Messages |->
       IF rows[t][m].status = "running" /\ rows[t][m].age <= StaleAge
       THEN [rows[t][m] EXCEPT !.age = @ + 1]
       ELSE rows[t][m]]]
  /\ UNCHANGED <<up, crashes, config, mail, cycles, artifacts, history>>

Crash ==
  /\ up
  /\ crashes < MaxCrashes
  /\ up' = FALSE
  /\ crashes' = crashes + 1
  /\ cycles' = [c \in Cycles |-> Resting]
  /\ broken' = broken \cup {m \in StillRunning("live", Messages) :
                               Held("live", m) /\ artifacts[m] > 0}
  /\ orphans' = [t \in Tables |-> StillRunning(t, Messages)]
  /\ UNCHANGED <<config, mail, rows, artifacts, expired>>

Restart ==
  /\ ~up
  /\ up' = TRUE
  /\ UNCHANGED <<crashes, config, mail, rows, cycles, artifacts, history>>

-----------------------------------------------------------------------------
\* Between two awaits.
RunsOn(c) == TakeItem(c) \/ EndBatch(c) \/ Record(c)

Returns(c) ==
  \/ AnalysisSucceeds(c) \/ AnalysisFails(c)
  \/ MutationSucceeds(c) \/ MutationFails(c)
  \/ MarkRead(c)

Next ==
  \/ \E c \in Cycles, force \in BOOLEAN : Begin(c, force)
  \/ \E c \in Cycles : RunsOn(c) \/ Returns(c) \/ RecordingFails(c) \/ Aborts(c)
  \/ \E m \in Messages : Deliver(m) \/ Vanish(m)
  \/ \E new \in Configs : Configure(new)
  \/ Tick
  \/ Crash
  \/ Restart

Spec == Init /\ [][Next]_vars

\* The event loop resumes whoever can run, every call ends (an IMAP server, asked
\* without a timeout, answers: MailSync tells what happens if not), time passes, a
\* dead gateway is started again and its sync loop begins cycle after cycle; the
\* model, the provider and the store do not fail for ever.
Fairness ==
  /\ \A c \in Cycles :
       /\ WF_vars(RunsOn(c))
       /\ SF_vars(Returns(c))
       /\ SF_vars(AnalysisSucceeds(c))
       /\ SF_vars(MutationSucceeds(c))
       /\ SF_vars(Record(c) /\ cycles[c].outcome \in Settled)
  /\ SF_vars(Begin(Loop, FALSE))
  /\ WF_vars(Tick)
  /\ WF_vars(Restart)

FairSpec == Spec /\ Fairness

-----------------------------------------------------------------------------
(* Safety.                                                                  *)

\* Overlapping cycles never work on the same message, and its row says that it
\* is being worked on until the cycle records it, unless a claim outlived its
\* limit (agent_queue.py: atomic message or thread-level claim;
\* tests/test_agent_queue_claims.py).
ClaimedByOne ==
  \A c \in Cycles : \A m \in Holds(c) :
    cycles[c].table = "live" /\ m \notin expired =>
      /\ \/ rows["live"][m].status = "running"
         \/ cycles[c].step = "record" /\ m \in cycles[c].item.ids
      /\ \A d \in Cycles : cycles[d].table = "live" /\ m \in Holds(d) => c = d

\* A cycle that ends leaves no claim behind but by an exception that nothing in
\* it catches: a running row of either table is held by a cycle that works on
\* that table, or was left by such an exception or by the death of the process,
\* so the stale limit is only ever needed for the dead, the aborted and the slow.
ClaimIsHeld ==
  \A t \in Tables, m \in Messages :
    rows[t][m].status = "running" => Held(t, m) \/ m \in orphans[t]

\* No message gets two approvals, drafts or executions from the cycles, but for
\* a slow cycle whose claim outlived its limit, or a failure or death between the
\* first and the end of its record.
ArtifactOnce ==
  \A m \in Messages : artifacts[m] > 1 => m \in expired \cup broken

-----------------------------------------------------------------------------
(* What the live table promises about each message.                         *)

\* A slow cycle lost its claim on m, or what was made for m is not on record.
Lapsed(m) == m \in expired \cup broken

LiveHolders(m) == {c \in Cycles : cycles[c].table = "live" /\ m \in Holds(c)}

LedgerState(m) ==
  IF Lapsed(m) THEN "lapsed"
  ELSE IF Held("live", m) THEN "claimed"
  ELSE IF rows["live"][m].status \in Settled THEN "settled" ELSE "open"

LedgerHolders(m) == IF Lapsed(m) THEN {} ELSE LiveHolders(m)

LedgerMade(m) == IF Lapsed(m) THEN 0 ELSE artifacts[m]

Ledger == INSTANCE WorkLedger WITH
  Workers <- Cycles,
  state <- [m \in Messages |-> LedgerState(m)],
  holders <- [m \in Messages |-> LedgerHolders(m)],
  made <- [m \in Messages |-> LedgerMade(m)]

\* The claims, outcomes and artifacts of live cycles are those of a ledger in
\* which a message is worked on by one worker at a time and settled once, with
\* at most one artifact (agent_queue.py: atomic claims and duplicate protection).
ImplementsLedger == Ledger!LedgerSpec

-----------------------------------------------------------------------------
(* What a step may never do.                                                *)

\* A message that was processed, ignored or left aside is never taken up again
\* (mail_store.py, list_processed_unread: without analyzing the mail a second
\* time) once the cycles that hold it are done with it.
SettledIsFinal ==
  [][\A m \in Messages : rows["live"][m].status \in Settled /\ ~Held("live", m) =>
       rows'["live"][m] = rows["live"][m]]_vars

\* The agent marks read only mail whose analysis was completed.
ReadWasProcessed ==
  [][\A c \in Cycles : MarkRead(c) =>
       \A m \in seen' \ seen : rows["live"][m].status = "processed" \/ m \in expired]_vars

\* While Shadow mode is on no approval, draft or execution is made (main.py:
\* shadow_side_effects_forbidden; the web interface announces that productive
\* mail actions are locked).
ShadowForbidsEffects ==
  [][artifacts' # artifacts => config.mode = "live"]_vars

-----------------------------------------------------------------------------
(* Progress.                                                                *)

\* Every message in the inbox is settled in the end, whatever failed on the way,
\* whichever cycle died with it and however many others come first.
EveryMessageSettles ==
  \A m \in Messages :
    m \in inbox ~> m \notin inbox \/ rows["live"][m].status \in Settled
=============================================================================
