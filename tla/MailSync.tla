------------------------------- MODULE MailSync -------------------------------
(***************************************************************************)
(* Synchronisation of one mailbox into the messages table (main.py          *)
(* _sync_mailbox and _sync_loop, sync.py, cloud_sync.py): the IMAP UID       *)
(* cursor, the Gmail history cursor and the Graph delta cursor.              *)
(*                                                                          *)
(* Every worker (the loop or a POST /v1/sync/run) sends one request at a     *)
(* time; between two answers other workers, the agent's own mailbox actions  *)
(* and everybody else who uses the mailbox go on.  An answer shows the       *)
(* mailbox as it was when the provider gave it.  A message in the store is   *)
(* known by the version it was fetched in: the provider's clock when it last *)
(* changed, which is what Gmail calls its historyId.                         *)
(***************************************************************************)
EXTENDS Integers, FiniteSetsExt

CONSTANTS
  Size,         \* number of messages that may arrive; a message is its rank (IMAP UID)
  Connectors,   \* the connectors to consider, of "imap", "gmail", "graph"
  Workers,      \* the sync loop and requests to sync now
  Loop,         \* the worker that is the loop
  Limit,        \* messages per IMAP run and per Gmail full sync
  PageSize,     \* items on a page of a Graph delta
  MaxPages,     \* pages a Graph run follows (100 in the code)
  MaxClock,     \* bound on the changes made to the mailbox
  MaxFaults     \* bound on failed requests and deaths of the process

ASSUME MailSyncAssumption ==
  /\ Size \in Nat /\ MaxClock \in Nat \ {0} /\ MaxFaults \in Nat
  /\ Connectors \subseteq {"imap", "gmail", "graph"}
  /\ Loop \in Workers
  /\ Limit \in Nat \ {0} /\ PageSize \in Nat \ {0} /\ MaxPages \in Nat \ {0}

VARIABLES
  connector,    \* connector of the mailbox
  clock,        \* the provider's count of changes
  place,        \* where the provider has each message
  rev,          \* the clock at each message's last change
  floor,        \* the oldest history or delta cursor the provider still accepts
  rows,         \* version of each row of table messages, 0 if there is none
  cursor,       \* sync_state: last_uid for IMAP, cursor otherwise, 0 if none
  sync,         \* the run of each worker
  leaving,      \* messages moved away by the agent whose row is not yet removed
  faults,       \* faults so far
  skipped,      \* history: messages a recorded cursor passed over
  newest        \* history: the newest version stored (for Gmail, since the last
                \* run that recorded its cursor)

provider == <<connector, clock, place, rev, floor>>
history == <<skipped, newest>>
syncVars ==
  <<connector, clock, place, rev, floor, rows, cursor, sync, leaving, faults, skipped, newest>>

-----------------------------------------------------------------------------
Messages == 1..Size

Version == 0..MaxClock

Places == {"future", "inbox", "archived", "deleted"}

Nothing == [m \in Messages |-> 0]

Run ==
  [step: {"idle", "search", "list", "history", "fetch", "page", "apply",
          "over", "hung", "away"},
   full: BOOLEAN,                     \* a Gmail full sync
   from: Version \cup Messages,       \* the cursor the run began with
   todo: SUBSET Messages,             \* ids still to be fetched
   got: [Messages -> Version],        \* versions fetched and not yet stored
   gone: SUBSET Messages,             \* ids found to be no longer in the inbox
   upto: Version \cup Messages,       \* the cursor to be recorded
   past: [Messages -> Version],       \* Graph: versions on the pages so far
   pages: 0..MaxPages]

IdleRun ==
  [step |-> "idle", full |-> FALSE, from |-> 0, todo |-> {}, got |-> Nothing,
   gone |-> {}, upto |-> 0, past |-> Nothing, pages |-> 0]

\* The loop starts again after each run; a request is one run.
AtEnd(w) == IF w = Loop THEN IdleRun ELSE [IdleRun EXCEPT !.step = "over"]

\* A run whose IMAP server never answers, and the loop while it waits for one
\* elsewhere.
Waiting(step) == [IdleRun EXCEPT !.step = step]

Running(w) == sync[w].step \notin {"idle", "over"}

SyncTypeOK ==
  /\ connector \in Connectors
  /\ clock \in 1..MaxClock
  /\ place \in [Messages -> Places]
  /\ rev \in [Messages -> Version]
  /\ floor \in Version
  /\ rows \in [Messages -> Version]
  /\ cursor \in Version \cup Messages
  /\ sync \in [Workers -> Run]
  /\ leaving \subseteq Messages
  /\ faults \in 0..MaxFaults
  /\ skipped \subseteq Messages
  /\ newest \in [Messages -> Version]

SyncInit ==
  /\ connector \in Connectors
  /\ clock = 1
  /\ place = [m \in Messages |-> "future"]
  /\ rev = Nothing
  /\ floor = 0
  /\ rows = Nothing
  /\ cursor = 0
  /\ sync = [w \in Workers |-> IdleRun]
  /\ leaving = {}
  /\ faults = 0
  /\ skipped = {}
  /\ newest = Nothing

-----------------------------------------------------------------------------
(* The mailbox and those who use it.                                        *)

Inbox == {m \in Messages : place[m] = "inbox"}

Changes(m, p) ==
  /\ clock < MaxClock
  /\ clock' = clock + 1
  /\ place' = [place EXCEPT ![m] = p]
  /\ rev' = [rev EXCEPT ![m] = clock + 1]
  /\ skipped' = skipped \ {m}

Arrive(m) ==
  /\ place[m] = "future"
  /\ \A n \in 1..(m - 1) : place[n] # "future"
  /\ Changes(m, "inbox")
  /\ UNCHANGED <<connector, floor, rows, cursor, sync, leaving, faults, newest>>

\* Read, flagged or labelled.
Touch(m) ==
  /\ place[m] = "inbox"
  /\ Changes(m, "inbox")
  /\ UNCHANGED <<connector, floor, rows, cursor, sync, leaving, faults, newest>>

\* Archived or deleted for good by another client.
Depart(m, p) ==
  /\ place[m] = "inbox"
  /\ Changes(m, p)
  /\ UNCHANGED <<connector, floor, rows, cursor, sync, leaving, faults, newest>>

\* MailActionExecutor._mutate_mailbox on archive, move and delete: the
\* provider moves the message out of the inbox; the row is removed when its
\* answer is back.
AgentMoves(m) ==
  /\ place[m] = "inbox"
  /\ rows[m] # 0
  /\ Changes(m, "archived")
  /\ leaving' = leaving \cup {m}
  /\ UNCHANGED <<connector, floor, rows, cursor, sync, faults, newest>>

AgentRemovesRow(m) ==
  /\ m \in leaving
  /\ leaving' = leaving \ {m}
  /\ rows' = [rows EXCEPT ![m] = 0]
  /\ UNCHANGED <<provider, cursor, sync, faults, history>>

\* The provider forgets history older than now.
Expire ==
  /\ connector # "imap"
  /\ floor = 0
  /\ floor' = clock
  /\ UNCHANGED <<connector, clock, place, rev, rows, cursor, sync, leaving, faults, history>>

-----------------------------------------------------------------------------
(* A run: from the stored cursor to the last answer.                        *)

MaxOf(i, j) == IF i < j THEN j ELSE i

Unlocked == \A v \in Workers : sync[v].step \in {"idle", "over", "away"}

\* MailSyncService.sync holds one lock per mailbox; the cloud connectors none.
Begin(w) ==
  /\ sync[w].step = "idle"
  /\ connector = "imap" => Unlocked
  /\ sync' = [sync EXCEPT ![w] =
       [IdleRun EXCEPT
          !.from = cursor,
          !.full = connector = "gmail" /\ cursor = 0,
          !.step = CASE connector = "imap" -> "search"
                     [] connector = "gmail" -> IF cursor = 0 THEN "list" ELSE "history"
                     [] connector = "graph" -> "page"]]
  /\ UNCHANGED <<provider, rows, cursor, leaving, faults, history>>

\* The last and the first n of a set of ids, in the order of arrival.
LastOf(n, S) == {m \in S : Cardinality({k \in S : k > m}) < n}

FirstOf(n, S) == {m \in S : Cardinality({k \in S : k < m}) < n}

BatchOfNewest(found) == LastOf(Limit, found)

Batch(found) == FirstOf(Limit, found)

\* ImapMailbox.list_uids_after.  "UID n:*" always matches the newest message.
Search(w) ==
  LET run == sync[w]
      found == {m \in Inbox : m > run.from \/ \A k \in Inbox : k <= m}
  IN /\ run.step = "search"
     /\ sync' = [sync EXCEPT ![w] = [run EXCEPT !.step = "fetch",
                                                !.todo = Batch(found),
                                                !.upto = run.from]]
     /\ UNCHANGED <<provider, rows, cursor, leaving, faults, history>>

\* GoogleGmailSyncService._full: the newest ids of the inbox.
List(w) ==
  LET run == sync[w] IN
  /\ run.step = "list"
  /\ sync' = [sync EXCEPT ![w] = [run EXCEPT !.step = "fetch", !.todo = LastOf(Limit, Inbox)]]
  /\ UNCHANGED <<provider, rows, cursor, leaving, faults, history>>

\* GoogleGmailSyncService.sync on the answer to the history request: 404 on an
\* expired cursor leads to a full sync.
AfterExpiryStopped(w, run) == AtEnd(w)

AfterExpiry(w, run) == [run EXCEPT !.step = "list", !.full = TRUE]

\* GoogleGmailSyncService._partial: the ids of what changed since the cursor.
History(w) ==
  LET run == sync[w]
      changed == {m \in Messages : rev[m] > run.from}
  IN /\ run.step = "history"
     /\ \/ /\ run.from < floor
           /\ sync' = [sync EXCEPT ![w] = AfterExpiry(w, run)]
        \/ /\ run.from >= floor
           /\ sync' = [sync EXCEPT ![w] =
                [run EXCEPT !.step = "fetch",
                            !.todo = {m \in changed : place[m] # "deleted"},
                            !.gone = {m \in changed : place[m] = "deleted"},
                            !.upto = clock]]
     /\ UNCHANGED <<provider, rows, cursor, leaving, faults, history>>

\* The order of the fetches: IMAP ascending, a Gmail full sync newest first, a
\* Gmail history in the order of a Python set.
Due(run) ==
  CASE connector = "imap" -> FirstOf(1, run.todo)
    [] run.full -> LastOf(1, run.todo)
    [] OTHER -> run.todo

\* The cursor after message m was fetched: the highest UID, the historyId of
\* the first message of a full sync, that of the history of a partial one.
Reached(run, m) ==
  CASE connector = "imap" -> MaxOf(m, run.upto)
    [] run.full /\ run.upto = 0 -> rev[m]
    [] OTHER -> run.upto

\* fetch_uid_rfc822, get_raw_message.
Fetch(w, m) ==
  LET run == sync[w] IN
  /\ run.step = "fetch"
  /\ m \in Due(run)
  /\ \/ /\ place[m] = "inbox"
        /\ sync' = [sync EXCEPT ![w] = [run EXCEPT !.todo = run.todo \ {m},
                                                   !.got[m] = rev[m],
                                                   !.upto = Reached(run, m)]]
     \/ /\ place[m] # "inbox"
        /\ connector = "gmail"
        /\ ~run.full
        /\ sync' = [sync EXCEPT ![w] = [run EXCEPT !.todo = run.todo \ {m},
                                                   !.gone = run.gone \cup {m}]]
     \/ /\ place[m] = "archived"
        /\ run.full
        /\ sync' = [sync EXCEPT ![w] = [run EXCEPT !.todo = run.todo \ {m}]]
     \/ \* Expunged under IMAP, 404 in a full sync: the whole run fails.
        /\ \/ place[m] # "inbox" /\ connector = "imap"
           \/ place[m] = "deleted" /\ run.full
        /\ sync' = [sync EXCEPT ![w] = AtEnd(w)]
  /\ UNCHANGED <<provider, rows, cursor, leaving, faults, history>>

\* A full sync that stored nothing asks for the mailbox's current historyId.
Profile(w) ==
  LET run == sync[w] IN
  /\ run.step = "fetch"
  /\ run.full /\ run.todo = {} /\ run.upto = 0
  /\ sync' = [sync EXCEPT ![w].upto = clock]
  /\ UNCHANGED <<provider, rows, cursor, leaving, faults, history>>

-----------------------------------------------------------------------------
(* Storing.                                                                 *)

\* MailStore.upsert_messages and delete_remote_message.
Stored(got, gone) ==
  [m \in Messages |-> IF m \in gone THEN 0 ELSE IF got[m] # 0 THEN got[m] ELSE rows[m]]

\* Everything a run asked for has been answered.
Complete(run) == run.step = "fetch" /\ run.todo = {} /\ (run.full => run.upto # 0)

\* What a run passes over when it records its cursor.  A run from scratch
\* removes no rows and stores what it found in the inbox; any other run asks
\* for nothing older than the cursor it began with, which an older run may have
\* set back meanwhile.
PassedOver(run, found) ==
  IF run.full \/ run.from = 0
  THEN {m \in Messages : rev[m] \in 1..run.upto /\ found[m] = 0}
  ELSE {m \in Messages : rev[m] \in (cursor + 1)..run.from}

\* The version of a message that a run stores; a removal counts as the newest
\* version the run knows of.
Brought(run, m) ==
  CASE run.got[m] # 0 -> run.got[m]
    [] m \in run.gone -> MaxOf(run.past[m], run.upto)
    [] OTHER -> 0

StoredNow(run) == {m \in Messages : Brought(run, m) = rev[m]}

\* upsert_messages, the deletions and record_sync, without an await.
Commit(w) ==
  LET run == sync[w] IN
  /\ Complete(run)
  /\ rows' = Stored(run.got, run.gone)
  /\ cursor' = run.upto
  /\ skipped' = IF connector = "imap" THEN skipped
                ELSE (skipped \ StoredNow(run)) \cup PassedOver(run, run.got)
  /\ newest' = [m \in Messages |-> IF Brought(run, m) # 0 THEN Brought(run, m) ELSE newest[m]]
  /\ sync' = [sync EXCEPT ![w] = AtEnd(w)]
  /\ UNCHANGED <<provider, leaving, faults>>

\* What the death of the process leaves of the runs.
AllStopped == [v \in Workers |-> IF Running(v) THEN AtEnd(v) ELSE sync[v]]

\* The process dies between the transactions of Commit.
DieInCommit(w) ==
  LET run == sync[w] IN
  /\ Complete(run)
  /\ faults < MaxFaults
  /\ \E gone \in SUBSET run.gone : rows' = Stored(run.got, gone)
  /\ newest' = [m \in Messages |-> MaxOf(newest[m], Brought(run, m))]
  /\ sync' = AllStopped
  /\ leaving' = {}
  /\ faults' = faults + 1
  /\ UNCHANGED <<provider, cursor, skipped>>

\* What changed since the run's cursor and is not on a page yet.
Outstanding(run) ==
  {m \in Messages :
     /\ rev[m] > run.from
     /\ rev[m] > run.past[m]
     /\ place[m] = "inbox" \/ run.from > 0 \/ run.past[m] # 0}

\* MicrosoftGraphClient.delta: one page.  The last one carries the deltaLink.
Page(w) ==
  LET run == sync[w]
      due == Outstanding(run)
  IN /\ run.step = "page"
     /\ run.from = 0 \/ run.from >= floor
     /\ \E items \in kSubset(IF Cardinality(due) < PageSize THEN Cardinality(due)
                                                            ELSE PageSize, due) :
          sync' = [sync EXCEPT ![w] =
            [run EXCEPT
               !.step = "apply",
               !.got = [m \in Messages |->
                          IF m \in items /\ place[m] = "inbox" THEN rev[m] ELSE 0],
               !.gone = {m \in items : place[m] # "inbox"},
               !.past = [m \in Messages |-> IF m \in items THEN rev[m] ELSE run.past[m]],
               !.upto = IF items = due THEN clock ELSE 0,
               !.pages = run.pages + 1]]
     /\ UNCHANGED <<provider, rows, cursor, leaving, faults, history>>

GivesUpLate(run) == run.pages > MaxPages

\* for _ in range(100).
GivesUp(run) == run.pages = MaxPages

\* MicrosoftGraphSyncService.sync: a page is stored when its answer is back,
\* the cursor with the last page; after MaxPages pages the run gives up.
ApplyPage(w) ==
  LET run == sync[w] IN
  /\ run.step = "apply"
  /\ rows' = Stored(run.got, run.gone)
  /\ \/ /\ run.upto # 0
        /\ cursor' = run.upto
        /\ skipped' = (skipped \ StoredNow(run)) \cup PassedOver(run, run.past)
        /\ sync' = [sync EXCEPT ![w] = AtEnd(w)]
     \/ /\ run.upto = 0
        /\ sync' = [sync EXCEPT ![w] = IF GivesUp(run) THEN AtEnd(w)
                                       ELSE [run EXCEPT !.step = "page"]]
        /\ UNCHANGED <<cursor, skipped>>
  /\ newest' = [m \in Messages |-> MaxOf(newest[m], Brought(run, m))]
  /\ UNCHANGED <<provider, leaving, faults>>

-----------------------------------------------------------------------------
(* Faults.                                                                  *)

\* A request to an IMAP server that is never answered: the client has no timeout
\* and is awaited under the lock of the mailbox.  The loop waits with it, also
\* for one that syncs another mailbox or that the agent's cycle calls.
Hang(w) ==
  /\ \/ /\ connector = "imap"
        /\ \/ sync[w].step = "search"
           \/ sync[w].step = "fetch" /\ sync[w].todo # {}
        /\ sync' = [sync EXCEPT ![w] = Waiting("hung")]
     \/ /\ w = Loop
        /\ sync[w].step = "idle"
        /\ sync' = [sync EXCEPT ![w] = Waiting("away")]
  /\ UNCHANGED <<provider, rows, cursor, leaving, faults, history>>

\* A request that fails, or times out where there is a timeout, ends the run;
\* _sync_mailbox records the error with the cursor as it stands.
Fail(w) ==
  /\ Running(w)
  /\ faults < MaxFaults
  /\ faults' = faults + 1
  /\ sync' = [sync EXCEPT ![w] = AtEnd(w)]
  /\ UNCHANGED <<provider, rows, cursor, leaving, history>>

\* 410 on an expired delta link, which the code does not tell from any other
\* error: the cursor stays, and so does the error.
DeltaExpired(w) ==
  /\ sync[w].step = "page"
  /\ sync[w].from \in 1..(floor - 1)
  /\ sync' = [sync EXCEPT ![w] = AtEnd(w)]
  /\ UNCHANGED <<provider, rows, cursor, leaving, faults, history>>

\* The process dies and is started again.
Die ==
  /\ faults < MaxFaults
  /\ faults' = faults + 1
  /\ sync' = AllStopped
  /\ leaving' = {}
  /\ UNCHANGED <<provider, rows, cursor, history>>

-----------------------------------------------------------------------------
MailboxUsed ==
  \/ \E m \in Messages : Arrive(m) \/ Touch(m) \/ AgentMoves(m) \/ AgentRemovesRow(m)
  \/ \E m \in Messages, p \in {"archived", "deleted"} : Depart(m, p)
  \/ Expire

Progress(w) ==
  \/ Begin(w) \/ Search(w) \/ List(w) \/ History(w) \/ Profile(w) \/ Commit(w)
  \/ \E m \in Messages : Fetch(w, m)
  \/ Page(w) \/ ApplyPage(w) \/ DeltaExpired(w)

SyncNext ==
  \/ MailboxUsed
  \/ \E w \in Workers : Progress(w) \/ Hang(w) \/ Fail(w) \/ DieInCommit(w)
  \/ Die

SyncSpec == SyncInit /\ [][SyncNext]_syncVars

\* The loop starts a run again and again, whatever happened to the last one; a
\* run goes on while it is answered, and none has to be; the executor's answer
\* arrives.  Nobody has to ask for a sync.
SyncFairness ==
  /\ SF_syncVars(Begin(Loop))
  /\ \A w \in Workers : WF_syncVars(Running(w) /\ Progress(w))
  /\ WF_syncVars(\E m \in Messages : AgentRemovesRow(m))

SyncFairSpec == SyncSpec /\ SyncFairness

-----------------------------------------------------------------------------
(* What the cursor promises.                                                *)

\* A newer version of the message was stored, and an older one after it.
Raced(m) == rows[m] # 0 /\ rows[m] < newest[m]

\* The message is not to be reported again from the stored cursor.
Passed(m) ==
  IF connector = "imap" THEN m <= cursor /\ place[m] # "future"
                        ELSE rev[m] \in 1..cursor

\* The store agrees with the mailbox.  An IMAP run never removes rows and
\* never looks at a message again.
Mirrored(m) ==
  IF place[m] = "inbox"
  THEN rows[m] # 0 /\ (connector # "imap" => rows[m] = rev[m])
  ELSE connector # "imap" => rows[m] = 0

\* A request to sync now was made beside the loop (main.py sync_run, _sync_loop).
Requested == \E w \in Workers \ {Loop} : sync[w].step # "idle"

\* The cursor never runs ahead of the rows: what no later run will ask for
\* again is stored as the mailbox has it, however runs overlap, fail or die
\* between the rows and the cursor (docs/ARCHITECTURE.md: SQLite upsert, then
\* advance connector cursor).  Under IMAP without exception.  The cloud
\* connectors have two holes: a run from scratch removes no rows, and under
\* Gmail takes its cursor from its first message; and if a request to sync now
\* overlaps the loop's run, the late one of the two may replace a newer version,
\* with a Graph page or with Gmail rows whose cursor a death kept back.
CursorCovers ==
  \A m \in Messages :
    Passed(m) => \/ Mirrored(m)
                 \/ connector # "imap" /\ m \in skipped
                 \/ connector # "imap" /\ Requested /\ Raced(m)

\* The provider no longer accepts the cursor.  A Graph run then fails; a Gmail
\* run starts from scratch, and may end with a cursor that has expired as well,
\* if the newest message has not changed for as long.
Expired == connector # "imap" /\ cursor \in 1..(floor - 1)

OutOfReach(m) ==
  \/ m \in skipped
  \/ Raced(m)
  \/ Expired /\ ~(connector = "gmail" /\ m \in LastOf(Limit, Inbox))

\* A worker waits for an IMAP server, under this mailbox's lock or elsewhere.
SomeoneWaits == \E w \in Workers : sync[w].step \in {"hung", "away"}

\* Once the mailbox is left alone and faults stop, the store comes to agree
\* with it and stays so, but for the holes of CursorCovers and for what an
\* expired cursor keeps out of reach (main.py _sync_loop: the worker must
\* survive transient failures).  It does not survive a server that never
\* answers: a worker may wait for one for ever, and only then is the rest not
\* promised.
Converges ==
  []<>(~SomeoneWaits) => <>[](\A m \in Messages : Mirrored(m) \/ OutOfReach(m))
=============================================================================
