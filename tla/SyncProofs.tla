------------------------------- MODULE SyncProofs -------------------------------
(***************************************************************************)
(* Proofs about MailSync, for any number of messages, workers, faults and   *)
(* changes, any limits, and each connector: every state is well typed, and  *)
(* the cursor never runs ahead of the rows but for the holes CursorCovers    *)
(* names.                                                                   *)
(***************************************************************************)
EXTENDS MailSync, FiniteSetTheorems, TLAPS

-----------------------------------------------------------------------------
(* The inductive invariant.                                                 *)

Gone(m) == place[m] \in {"archived", "deleted"}

\* The provider's clock dates every message; messages arrive in order.
MailboxDated ==
  /\ \A m \in Messages : rev[m] <= clock /\ (place[m] = "future" <=> rev[m] = 0)
  /\ \A m \in Messages : place[m] = "future" =>
       \A n \in Messages : n > m => place[n] = "future"
  /\ \A m \in leaving : Gone(m)

\* v is no version of m, one m had before, or the one it has in the inbox.
Seen(v, m) == v = 0 \/ v < rev[m] \/ (v = rev[m] /\ place[m] = "inbox")

\* What is stored.  A cloud row that is missing is not missed, and what the
\* cursor passed was stored at some time, or skipped.
RowsSeen == \A m \in Messages : Seen(rows[m], m)

CloudStore ==
  /\ cursor <= clock
  /\ \A m \in Messages :
       /\ newest[m] <= clock
       /\ rows[m] = 0 /\ newest[m] >= rev[m] => place[m] # "inbox"
       /\ rev[m] \in 1..cursor => m \in skipped \/ newest[m] >= rev[m]

\* Below an IMAP cursor nothing arrives and nothing in the inbox is missing.
Held(m) == place[m] # "future" /\ (place[m] = "inbox" => rows[m] # 0)

ImapStore == \A m \in Messages : m <= cursor => Held(m)

\* What a run has gathered.
Gathered(run) ==
  \A m \in Messages :
    /\ Seen(run.got[m], m)
    /\ m \in run.gone => Gone(m) /\ run.got[m] = 0 /\ m \notin run.todo

ImapRun(run) ==
  /\ run.step \in {"idle", "over", "away", "hung", "search", "fetch"}
  /\ ~run.full /\ run.gone = {}
  /\ \A m \in Messages : m <= run.from => Held(m)
  /\ \A m \in Messages : run.from < m /\ m <= run.upto =>
       place[m] # "future" /\ (place[m] = "inbox" => run.got[m] # 0)
  /\ \A k \in run.todo :
       /\ place[k] # "future"
       /\ \A m \in Messages : run.from < m /\ m < k /\ place[m] = "inbox" =>
            m \in run.todo \/ run.got[m] # 0

CloudRun(run) ==
  /\ run.from <= clock /\ run.upto <= clock
  /\ \A m \in Messages : run.past[m] <= clock

\* A full sync takes its cursor from the first message it fetched.
FullRun(run) ==
  /\ run.gone = {}
  /\ run.upto = 0 => run.got = Nothing
  /\ \A m \in Messages : run.got[m] # 0 /\ rev[m] <= run.upto => run.got[m] = rev[m]

\* A history names everything that changed between the two cursors.
PartialRun(run) ==
  /\ run.from # 0
  /\ \A m \in Messages :
       /\ m \in run.todo => run.got[m] = 0
       /\ (m \in run.todo \cup run.gone \/ run.got[m] # 0) => rev[m] > run.from
       /\ rev[m] \in (run.from + 1)..run.upto =>
            m \in run.todo \cup run.gone \/ run.got[m] = rev[m]

GmailRun(run) ==
  /\ run.step \in {"idle", "over", "away", "list", "history", "fetch"}
  /\ run.step = "list" => run.full /\ run.got = Nothing /\ run.gone = {} /\ run.upto = 0
  /\ run.step = "history" =>
       ~run.full /\ run.from # 0 /\ run.got = Nothing /\ run.gone = {} /\ run.upto = 0
  /\ run.step = "fetch" => IF run.full THEN FullRun(run) ELSE PartialRun(run)

\* Pages followed so far are stored, but for the one in hand, and the last one
\* leaves nothing out.
GraphRun(run) ==
  /\ run.step \in {"idle", "over", "away", "page", "apply"}
  /\ ~run.full /\ run.todo = {}
  /\ run.step = "page" =>
       /\ run.pages < MaxPages
       /\ \A m \in Messages : newest[m] >= run.past[m]
  /\ run.step = "apply" =>
       \A m \in Messages :
         /\ newest[m] >= run.past[m] \/ Brought(run, m) >= run.past[m]
         /\ rev[m] \in (run.from + 1)..run.upto =>
              run.past[m] >= rev[m] \/ (run.from = 0 /\ run.past[m] = 0)

RunOK(run) ==
  /\ Gathered(run)
  /\ connector = "imap" => ImapRun(run)
  /\ connector # "imap" => CloudRun(run)
  /\ connector = "gmail" => GmailRun(run)
  /\ connector = "graph" => GraphRun(run)

StoreOK == RowsSeen /\ (IF connector = "imap" THEN ImapStore ELSE CloudStore)

SyncInv == SyncTypeOK /\ MailboxDated /\ StoreOK /\ \A w \in Workers : RunOK(sync[w])
-----------------------------------------------------------------------------
(* Helpers.                                                                 *)

LEMMA MessagesFinite == IsFiniteSet(Messages)
BY MailSyncAssumption, FS_Interval DEF Messages

LEMMA VersionsAreNumbers ==
  /\ Messages \subseteq Nat \ {0} /\ Version \subseteq Nat
  /\ \A m \in Messages : m \in Nat /\ m > 0
  /\ \A m, n \in Messages : m <= n \/ n < m
BY MailSyncAssumption DEF Messages, Version

LEMMA PartOf ==
  ASSUME NEW n, NEW S
  PROVE  FirstOf(n, S) \subseteq S /\ LastOf(n, S) \subseteq S
BY DEF FirstOf, LastOf

\* With a message, the first n of a set hold all of the set that came before it.
LEMMA FirstOfIsInitial ==
  ASSUME NEW n \in Nat, NEW S \in SUBSET Messages,
         NEW k \in FirstOf(n, S), NEW m \in S, m < k
  PROVE  m \in FirstOf(n, S)
<1> DEFINE Before(x) == {j \in S : j < x}
<1>1. IsFiniteSet(Before(k)) /\ Before(m) \subseteq Before(k)
  <2>1. IsFiniteSet(S)
    BY MessagesFinite, FS_Subset
  <2>2. Before(k) \subseteq S
    OBVIOUS
  <2>3. \A j \in S : j < m => j < k
    <3>1. k \in S /\ S \subseteq Nat
      BY PartOf, VersionsAreNumbers
    <3>2. QED
      BY <3>1
  <2>4. Before(m) \subseteq Before(k)
    BY <2>3
  <2>5. QED
    BY <2>1, <2>2, <2>4, FS_Subset
<1>2. Cardinality(Before(m)) \in Nat /\ Cardinality(Before(k)) \in Nat
      /\ Cardinality(Before(m)) <= Cardinality(Before(k))
  BY <1>1, FS_Subset, FS_CardinalityType
<1>3. Cardinality(Before(k)) < n
  BY DEF FirstOf
<1>4. Cardinality(Before(m)) < n
  BY <1>2, <1>3
<1>5. QED
  BY <1>4 DEF FirstOf

LEMMA FirstIsLeast ==
  ASSUME NEW S \in SUBSET Messages, NEW m \in FirstOf(1, S)
  PROVE  m \in S /\ \A k \in S : m <= k
<1> DEFINE Before == {j \in S : j < m}
<1>1. m \in S /\ Cardinality(Before) < 1
  BY DEF FirstOf
<1>2. IsFiniteSet(Before)
  BY MessagesFinite, FS_Subset
<1>3. Cardinality(Before) = 0
  BY <1>1, <1>2, FS_CardinalityType
<1>4. Before = {}
  BY <1>2, <1>3, FS_EmptySet
<1>5. QED
  BY <1>1, <1>4 DEF Messages

LEMMA RunFields ==
  ASSUME NEW run \in Run
  PROVE  /\ run.full \in BOOLEAN
         /\ run.from \in Nat /\ run.from \in Version \cup Messages
         /\ run.todo \subseteq Messages
         /\ run.got \in [Messages -> Version]
         /\ run.gone \subseteq Messages
         /\ run.upto \in Nat /\ run.upto \in Version \cup Messages
         /\ run.past \in [Messages -> Version]
         /\ run.pages \in 0..MaxPages
BY VersionsAreNumbers DEF Run

LEMMA BroughtIsVersion ==
  ASSUME NEW run \in Run, NEW m \in Messages, connector = "imap" => run.gone = {},
         connector # "imap" => run.upto <= clock, clock \in Version
  PROVE  Brought(run, m) \in Version
<1> USE VersionsAreNumbers, RunFields
<1>1. run.upto \in Version \/ run.gone = {}
  BY MailSyncAssumption DEF Version
<1>2. MaxOf(run.past[m], run.upto) \in Version \/ run.gone = {}
  BY <1>1 DEF MaxOf
<1>3. 0 \in Version
  BY MailSyncAssumption DEF Version
<1>4. QED
  BY <1>2, <1>3 DEF Brought

LEMMA StoredType ==
  ASSUME NEW run \in Run, NEW gone, rows \in [Messages -> Version]
  PROVE  Stored(run.got, gone) \in [Messages -> Version]
<1>1. 0 \in Version
  BY MailSyncAssumption DEF Version
<1>2. QED
  BY <1>1, RunFields DEF Stored

LEMMA NewestAreNumbers ==
  ASSUME SyncTypeOK
  PROVE  \A m \in Messages : newest[m] \in Nat /\ newest[m] >= newest[m] /\ newest[m] >= 0
<1> TAKE m \in Messages
<1>1. newest[m] \in Version
  BY DEF SyncTypeOK
<1>2. newest[m] \in Nat
  BY <1>1, VersionsAreNumbers
<1>3. QED
  BY <1>2
-----------------------------------------------------------------------------
(* Runs while others act.                                                   *)

\* A run that has ended, not begun, or is not answered promises nothing.
LEMMA NoRun ==
  ASSUME SyncTypeOK, NEW r, NEW w, NEW step,
         \/ r = AtEnd(w)
         \/ /\ r = Waiting(step)
            /\ step = "away" \/ (step = "hung" /\ connector = "imap")
  PROVE  r \in Run /\ RunOK(r)
<1>1. /\ \/ r.step \in {"idle", "over", "away"}
         \/ r.step = "hung" /\ connector = "imap"
      /\ r.full = FALSE /\ r.from = 0 /\ r.todo = {}
      /\ r.got = Nothing /\ r.gone = {} /\ r.upto = 0 /\ r.past = Nothing /\ r.pages = 0
  BY DEF AtEnd, Waiting, IdleRun
<1>2. Nothing \in [Messages -> Version]
  BY MailSyncAssumption DEF Nothing, Version
<1>3. r \in Run
  <2>1. 0 \in Version /\ 0 \in 0..MaxPages
    BY MailSyncAssumption DEF Version
  <2>2. IdleRun \in Run
    BY <1>2, <2>1 DEF IdleRun, Run
  <2>3. QED
    BY <2>2 DEF AtEnd, Waiting, Run
<1>4. \A m \in Messages : r.got[m] = 0 /\ r.past[m] = 0 /\ m > 0
  BY <1>1, VersionsAreNumbers DEF Nothing
<1>5. Gathered(r) /\ CloudRun(r)
  BY <1>1, <1>4, VersionsAreNumbers DEF Gathered, Seen, CloudRun, SyncTypeOK
<1>6. ImapRun(r)
  BY <1>1, <1>4, VersionsAreNumbers DEF ImapRun
<1>7. connector # "imap" => GmailRun(r) /\ GraphRun(r)
  BY <1>1 DEF GmailRun, GraphRun
<1>8. RunOK(r)
  BY <1>5, <1>6, <1>7 DEF RunOK
<1>9. QED
  BY <1>3, <1>8

\* A step that leaves the mailbox alone, and takes from the store only what a
\* run does not count on.
StoreStep ==
  /\ UNCHANGED <<connector, clock, place, rev>>
  /\ connector = "imap" => \A m \in Messages : Held(m) => Held(m)'
  /\ connector = "graph" => \A m \in Messages : newest'[m] >= newest[m]

LEMMA StoringSpares ==
  ASSUME SyncTypeOK, SyncTypeOK', StoreStep, NEW run \in Run, RunOK(run)
  PROVE  RunOK(run)'
<1> USE RunFields, VersionsAreNumbers
<1>1. Gathered(run)'
  BY DEF RunOK, Gathered, Seen, Gone, StoreStep
<1>2. connector = "imap" => ImapRun(run)'
  <2> SUFFICES ASSUME connector = "imap" PROVE ImapRun(run)'
    OBVIOUS
  <2>1. ImapRun(run)
    BY DEF RunOK
  <2>2. \A m \in Messages : m <= run.from => Held(m)'
    BY <2>1 DEF ImapRun, StoreStep
  <2>3. QED
    BY <2>1, <2>2 DEF ImapRun, StoreStep
<1>3. connector # "imap" => CloudRun(run)'
  BY DEF RunOK, CloudRun, StoreStep
<1>4. connector = "gmail" => GmailRun(run)'
  BY DEF RunOK, GmailRun, FullRun, PartialRun, StoreStep
<1>5. connector = "graph" => GraphRun(run)'
  <2> SUFFICES ASSUME connector = "graph" PROVE GraphRun(run)'
    OBVIOUS
  <2>1. GraphRun(run)
    BY DEF RunOK
  <2>2. \A m \in Messages :
          /\ newest'[m] \in Nat /\ newest[m] \in Nat /\ run.past[m] \in Nat
          /\ newest[m] >= run.past[m] => newest'[m] >= run.past[m]
    <3> TAKE m \in Messages
    <3>1. newest'[m] \in Nat /\ newest[m] \in Nat /\ run.past[m] \in Nat
      BY DEF SyncTypeOK
    <3>2. newest'[m] >= newest[m]
      BY DEF StoreStep
    <3>3. QED
      BY <3>1, <3>2
  <2>3. run.step = "page" => \A m \in Messages : newest'[m] >= run.past[m]
    BY <2>1, <2>2 DEF GraphRun
  <2>4. run.step = "apply" =>
          \A m \in Messages : newest'[m] >= run.past[m] \/ Brought(run, m) >= run.past[m]
    BY <2>1, <2>2 DEF GraphRun
  <2>5. run.step = "apply" =>
          \A m \in Messages : rev'[m] \in (run.from + 1)..run.upto =>
            run.past[m] >= rev'[m] \/ (run.from = 0 /\ run.past[m] = 0)
    BY <2>1 DEF GraphRun, StoreStep
  <2>6. \A m \in Messages : Brought(run, m)' = Brought(run, m)
    BY DEF Brought
  <2>7. QED
    BY <2>1, <2>3, <2>4, <2>5, <2>6 DEF GraphRun
<1>6. connector' = connector
  BY DEF StoreStep
<1>7. QED
  BY <1>1, <1>2, <1>3, <1>4, <1>5, <1>6 DEF RunOK

\* The runs after such a step, if each is one that was sound before it.
LEMMA RunsAfter ==
  ASSUME SyncTypeOK, SyncTypeOK', StoreStep,
         \A v \in Workers : \E run \in Run : sync'[v] = run /\ RunOK(run)
  PROVE  \A v \in Workers : RunOK(sync[v])'
<1> TAKE v \in Workers
<1>1. PICK run \in Run : sync'[v] = run /\ RunOK(run)
  OBVIOUS
<1>2. RunOK(run)'
  BY <1>1, StoringSpares
<1>3. QED
  BY <1>1, <1>2 DEF RunOK, Gathered, Seen, ImapRun, CloudRun, GmailRun, FullRun, PartialRun,
       GraphRun, Brought

LEMMA AllStoppedSound ==
  ASSUME SyncTypeOK, \A v \in Workers : RunOK(sync[v])
  PROVE  /\ AllStopped \in [Workers -> Run]
         /\ \A v \in Workers : \E run \in Run : AllStopped[v] = run /\ RunOK(run)
<1>1. \A v \in Workers : AllStopped[v] \in {AtEnd(v), sync[v]}
  BY DEF AllStopped
<1>2. \A v \in Workers : sync[v] \in Run
  BY DEF SyncTypeOK
<1>3. QED
  BY <1>1, <1>2, NoRun DEF AllStopped

\* One run goes on, nothing else changes but the number of faults.
LEMMA RunStep ==
  ASSUME SyncInv, NEW w \in Workers, NEW run \in Run, RunOK(run),
         sync' = [sync EXCEPT ![w] = run], faults' \in 0..MaxFaults,
         UNCHANGED <<provider, rows, cursor, leaving, history>>
  PROVE  SyncInv'
<1> USE DEF provider, history
<1>1. SyncTypeOK'
  BY DEF SyncInv, SyncTypeOK
<1>2. MailboxDated'
  BY DEF SyncInv, MailboxDated, Gone
<1>3. StoreOK'
  BY DEF SyncInv, StoreOK, RowsSeen, Seen, ImapStore, Held, CloudStore
<1>4. StoreStep
  <2>1. \A m \in Messages : newest'[m] = newest[m] /\ newest[m] \in Nat
    BY VersionsAreNumbers DEF SyncInv, SyncTypeOK
  <2>2. \A m \in Messages : newest'[m] >= newest[m]
    BY <2>1
  <2>3. \A m \in Messages : Held(m) => Held(m)'
    BY DEF Held
  <2>4. QED
    BY <2>2, <2>3 DEF StoreStep
<1>5. \A v \in Workers : \E r \in Run : sync'[v] = r /\ RunOK(r)
  BY DEF SyncInv, SyncTypeOK
<1>6. QED
  BY <1>1, <1>2, <1>3, <1>4, <1>5, RunsAfter DEF SyncInv
-----------------------------------------------------------------------------
(* The mailbox changes under the runs.                                      *)

\* A message arrives next in order, or changes or leaves while in the inbox.
Moved(m, p) ==
  /\ m \in Messages /\ p \in {"inbox", "archived", "deleted"}
  /\ Changes(m, p)
  /\ \/ place[m] = "inbox"
     \/ p = "inbox" /\ place[m] = "future" /\ \A n \in 1..(m - 1) : place[n] # "future"
  /\ leaving' = leaving \/ (p # "inbox" /\ leaving' = leaving \cup {m})
  /\ UNCHANGED <<connector, floor, rows, cursor, sync, faults, newest>>

LEMMA MovedRows ==
  ASSUME SyncTypeOK, MailboxDated, NEW m \in Messages, NEW p, Moved(m, p)
  PROVE  /\ clock' = clock + 1 /\ clock \in Nat /\ clock' \in 1..MaxClock
         /\ rev'[m] = clock + 1 /\ place'[m] = p /\ p \in {"inbox", "archived", "deleted"}
         /\ \A n \in Messages :
              /\ n # m => rev'[n] = rev[n] /\ place'[n] = place[n]
              /\ rev[n] \in Nat /\ rev'[n] \in Nat /\ rev[n] <= clock /\ rev'[n] <= clock'
              /\ rev[n] <= rev'[n]
              /\ rev'[n] = rev[n] \/ rev'[n] = clock + 1
         /\ place' \in [Messages -> Places] /\ rev' \in [Messages -> Version]
<1>1. clock \in 1..MaxClock /\ clock < MaxClock /\ MaxClock \in Nat
  BY MailSyncAssumption DEF SyncTypeOK, Moved, Changes
<1>2. clock' = clock + 1 /\ clock \in Nat /\ clock' \in 1..MaxClock
  BY <1>1 DEF Moved, Changes
<1>3. p \in {"inbox", "archived", "deleted"} /\ p \in Places
  BY DEF Moved, Places
<1>4. clock + 1 \in Version
  BY <1>1 DEF Version
<1>5. place' \in [Messages -> Places] /\ rev' \in [Messages -> Version]
  BY <1>3, <1>4 DEF SyncTypeOK, Moved, Changes
<1>6. rev'[m] = clock + 1 /\ place'[m] = p
  BY DEF SyncTypeOK, Moved, Changes
<1>7. \A n \in Messages : n # m => rev'[n] = rev[n] /\ place'[n] = place[n]
  BY DEF SyncTypeOK, Moved, Changes
<1>8. \A n \in Messages : rev[n] \in Nat /\ rev[n] <= clock
  BY VersionsAreNumbers DEF SyncTypeOK, MailboxDated
<1>9. QED
  BY <1>2, <1>3, <1>5, <1>6, <1>7, <1>8

LEMMA MovedKeeps ==
  ASSUME SyncTypeOK, MailboxDated, NEW m \in Messages, NEW p, Moved(m, p), NEW n \in Messages
  PROVE  /\ place[n] # "future" => place'[n] # "future"
         /\ Gone(n) => Gone(n)' /\ n # m
         /\ Held(n) => Held(n)'
         /\ \A v \in Nat : Seen(v, n) => Seen(v, n)'
         /\ place[n] # "inbox" /\ place'[n] = "inbox" => place[n] = "future" /\ n = m
<1>1. /\ clock' = clock + 1 /\ clock \in Nat
      /\ rev'[m] = clock + 1 /\ place'[m] = p /\ p # "future"
      /\ n # m => rev'[n] = rev[n] /\ place'[n] = place[n]
      /\ rev[n] \in Nat /\ rev'[n] \in Nat /\ rev[n] <= clock
  BY MovedRows
<1>2. \/ place[m] = "inbox"
      \/ p = "inbox" /\ place[m] = "future"
  BY DEF Moved
<1>3. rows' = rows
  BY DEF Moved
<1>4. Gone(n) => Gone(n)' /\ n # m
  BY <1>1, <1>2 DEF Gone
<1>5. Held(n) => Held(n)'
  BY <1>1, <1>2, <1>3 DEF Held
<1>6. \A v \in Nat : Seen(v, n) => Seen(v, n)'
  BY <1>1 DEF Seen
<1>7. QED
  BY <1>1, <1>2, <1>4, <1>5, <1>6

LEMMA MovedSparesRuns ==
  ASSUME SyncTypeOK, MailboxDated, NEW m \in Messages, NEW p, Moved(m, p),
         NEW run \in Run, RunOK(run)
  PROVE  RunOK(run)'
<1> USE RunFields, VersionsAreNumbers
<1>0. UNCHANGED <<connector, rows, cursor, newest>>
  BY DEF Moved
<1>1. Gathered(run)'
  <2>1. \A n \in Messages : run.got[n] \in Nat
    OBVIOUS
  <2>2. QED
    BY <2>1, MovedKeeps DEF RunOK, Gathered
<1>2. connector = "imap" => ImapRun(run)'
  <2> SUFFICES ASSUME connector = "imap" PROVE ImapRun(run)'
    OBVIOUS
  <2>1. ImapRun(run)
    BY DEF RunOK
  <2>2. \A n \in Messages : n <= run.from => Held(n)'
    BY <2>1, MovedKeeps DEF ImapRun
  <2>3. \A n \in Messages : run.from < n /\ n <= run.upto =>
          place'[n] # "future" /\ (place'[n] = "inbox" => run.got[n] # 0)
    BY <2>1, MovedKeeps DEF ImapRun
  <2>4. ASSUME NEW k \in run.todo
        PROVE  /\ place'[k] # "future"
               /\ \A n \in Messages : run.from < n /\ n < k /\ place'[n] = "inbox" =>
                    n \in run.todo \/ run.got[n] # 0
    <3>1. k \in Messages /\ place[k] # "future"
      BY <2>1 DEF ImapRun
    <3>2. \A n \in Messages : n < k => place[n] # "future"
      BY <3>1 DEF MailboxDated
    <3>3. QED
      BY <2>1, <3>1, <3>2, MovedKeeps DEF ImapRun
  <2>5. QED
    BY <2>1, <2>2, <2>3, <2>4 DEF ImapRun
<1>3. connector # "imap" => CloudRun(run)'
  <2> SUFFICES ASSUME connector # "imap" PROVE CloudRun(run)'
    OBVIOUS
  <2>1. clock' = clock + 1 /\ clock \in Nat
    BY MovedRows
  <2>2. \A n \in Messages : run.past[n] \in Nat /\ run.past[n] <= clock
    BY DEF RunOK, CloudRun
  <2>3. run.from <= clock /\ run.upto <= clock /\ run.from \in Nat /\ run.upto \in Nat
    BY DEF RunOK, CloudRun
  <2>4. run.from <= clock' /\ run.upto <= clock'
    BY <2>1, <2>3
  <2>5. \A n \in Messages : run.past[n] <= clock'
    BY <2>1, <2>2
  <2>6. QED
    BY <2>4, <2>5 DEF CloudRun
<1>4. connector = "gmail" => GmailRun(run)'
  <2> SUFFICES ASSUME connector = "gmail" PROVE GmailRun(run)'
    OBVIOUS
  <2>1. GmailRun(run) /\ run.upto <= clock
    BY DEF RunOK, CloudRun
  <2>2. ASSUME FullRun(run) PROVE FullRun(run)'
    <3>1. \A n \in Messages : rev'[n] <= run.upto => rev[n] <= run.upto /\ rev'[n] = rev[n]
      BY <2>1, MovedRows
    <3>2. QED
      BY <2>2, <3>1 DEF FullRun
  <2>3. ASSUME PartialRun(run) PROVE PartialRun(run)'
    <3>1. run.from # 0
      BY <2>3 DEF PartialRun
    <3>2. \A n \in Messages : rev'[n] <= run.upto => rev'[n] = rev[n]
      BY <2>1, MovedRows
    <3>3. \A n \in Messages : rev[n] \in Nat /\ rev'[n] \in Nat /\ rev[n] <= rev'[n]
      BY MovedRows
    <3>4. QED
      BY <2>3, <3>2, <3>3 DEF PartialRun
  <2>4. QED
    BY <2>1, <2>2, <2>3 DEF GmailRun
<1>5. connector = "graph" => GraphRun(run)'
  <2> SUFFICES ASSUME connector = "graph" PROVE GraphRun(run)'
    OBVIOUS
  <2>1. GraphRun(run) /\ run.upto <= clock
    BY DEF RunOK, CloudRun
  <2>2. \A n \in Messages : rev'[n] <= run.upto => rev'[n] = rev[n]
    <3>1. clock \in Nat /\ run.upto \in Nat
      BY MovedRows
    <3>2. ~(clock + 1 <= run.upto)
      BY <2>1, <3>1
    <3>3. \A n \in Messages : rev'[n] = rev[n] \/ rev'[n] = clock + 1
      BY MovedRows
    <3>4. QED
      BY <3>2, <3>3
  <2>3. \A n \in Messages : Brought(run, n)' = Brought(run, n)
    BY DEF Brought
  <2>4. run.step = "apply" =>
          \A n \in Messages : rev'[n] \in (run.from + 1)..run.upto =>
            run.past[n] >= rev'[n] \/ (run.from = 0 /\ run.past[n] = 0)
    <3> SUFFICES ASSUME run.step = "apply", NEW n \in Messages,
                        rev'[n] \in (run.from + 1)..run.upto
                 PROVE  run.past[n] >= rev'[n] \/ (run.from = 0 /\ run.past[n] = 0)
      OBVIOUS
    <3>1. rev'[n] = rev[n]
      BY <2>2, MovedRows
    <3>2. QED
      BY <2>1, <3>1 DEF GraphRun
  <2>5. QED
    BY <1>0, <2>1, <2>3, <2>4 DEF GraphRun
<1>6. QED
  BY <1>0, <1>1, <1>2, <1>3, <1>4, <1>5 DEF RunOK

LEMMA MovedInv ==
  ASSUME SyncInv, NEW m \in Messages, NEW p, Moved(m, p)
  PROVE  SyncInv'
<1> USE VersionsAreNumbers
<1>1. SyncTypeOK /\ MailboxDated
  BY DEF SyncInv
<1>2. UNCHANGED <<connector, floor, rows, cursor, sync, faults, newest>> /\ skipped' = skipped \ {m}
  BY DEF Moved, Changes
<1>3. SyncTypeOK'
  <2>1. clock' \in 1..MaxClock /\ place' \in [Messages -> Places] /\ rev' \in [Messages -> Version]
    BY <1>1, MovedRows
  <2>2. leaving' \subseteq Messages
    BY <1>1 DEF SyncTypeOK, Moved
  <2>3. QED
    BY <1>1, <1>2, <2>1, <2>2 DEF SyncTypeOK
<1>4. MailboxDated'
  <2>1. \A n \in Messages : rev'[n] <= clock' /\ (place'[n] = "future" <=> rev'[n] = 0)
    BY <1>1, MovedRows DEF MailboxDated
  <2>2. ASSUME NEW n \in Messages, place'[n] = "future", NEW k \in Messages, k > n
        PROVE  place'[k] = "future"
    <3>1. n # m /\ place[n] = "future"
      BY <1>1, <2>2, MovedRows
    <3>2. place[k] = "future"
      BY <1>1, <2>2, <3>1 DEF MailboxDated
    <3>3. k # m
      <4>1. k = m => n \in 1..(m - 1)
        BY <2>2
      <4>2. QED
        BY <4>1, <3>1, <3>2 DEF Moved
    <3>4. QED
      BY <1>1, <3>2, <3>3, MovedRows
  <2>3. \A n \in leaving' : Gone(n)'
    <3>1. \A n \in leaving : Gone(n)'
      BY <1>1, MovedKeeps DEF MailboxDated, SyncTypeOK
    <3>2. p # "inbox" => Gone(m)'
      BY <1>1, MovedRows DEF Gone
    <3>3. QED
      BY <3>1, <3>2 DEF Moved
  <2>4. QED
    BY <2>1, <2>2, <2>3 DEF MailboxDated
<1>5. StoreOK'
  <2>1. RowsSeen'
    BY <1>1, <1>2, MovedKeeps DEF SyncInv, StoreOK, RowsSeen, SyncTypeOK
  <2>2. connector = "imap" => ImapStore'
    BY <1>1, <1>2, MovedKeeps DEF SyncInv, StoreOK, ImapStore
  <2>3. ASSUME connector # "imap" PROVE CloudStore'
    <3>1. CloudStore
      BY <2>3 DEF SyncInv, StoreOK
    <3>2. clock' = clock + 1 /\ clock \in Nat /\ cursor \in Nat
      BY <1>1, MovedRows DEF SyncTypeOK
    <3>3. cursor' <= clock'
      BY <1>2, <3>1, <3>2 DEF CloudStore
    <3>4. ASSUME NEW n \in Messages
          PROVE  /\ newest'[n] <= clock'
                 /\ rows'[n] = 0 /\ newest'[n] >= rev'[n] => place'[n] # "inbox"
                 /\ rev'[n] \in 1..cursor' => n \in skipped' \/ newest'[n] >= rev'[n]
      <4>1. newest[n] \in Nat /\ newest[n] <= clock
        BY <1>1, <3>1 DEF SyncTypeOK, CloudStore
      <4>2. CASE n = m
        BY <1>1, <1>2, <3>1, <3>2, <4>1, <4>2, MovedRows DEF CloudStore
      <4>3. CASE n # m
        BY <1>1, <1>2, <3>1, <3>2, <4>1, <4>3, MovedRows DEF CloudStore
      <4>4. QED
        BY <4>2, <4>3
    <3>5. QED
      BY <3>3, <3>4 DEF CloudStore
  <2>4. QED
    BY <1>2, <2>1, <2>2, <2>3 DEF StoreOK
<1>6. ASSUME NEW v \in Workers PROVE RunOK(sync[v])'
  <2>1. PICK run \in Run : run = sync[v]
    BY <1>1 DEF SyncTypeOK
  <2>2. RunOK(run)'
    BY <1>1, <2>1, MovedSparesRuns DEF SyncInv
  <2>3. sync'[v] = run
    BY <1>2, <2>1
  <2>4. QED
    BY <2>2, <2>3 DEF RunOK, Gathered, Seen, ImapRun, CloudRun, GmailRun, FullRun, PartialRun,
         GraphRun, Brought
<1>7. QED
  BY <1>3, <1>4, <1>5, <1>6 DEF SyncInv
\* The connector keeps what it knows when a row is dropped or history expires.
LEMMA MailboxUsedInv ==
  ASSUME SyncInv, MailboxUsed
  PROVE  SyncInv'
<1> USE VersionsAreNumbers
<1>1. SyncTypeOK /\ MailboxDated /\ StoreOK /\ \A v \in Workers : RunOK(sync[v])
  BY DEF SyncInv
<1>2. ASSUME NEW m \in Messages, Arrive(m) PROVE SyncInv'
  BY <1>2, MovedInv DEF Arrive, Moved
<1>3. ASSUME NEW m \in Messages, Touch(m) PROVE SyncInv'
  BY <1>3, MovedInv DEF Touch, Moved
<1>4. ASSUME NEW m \in Messages, AgentMoves(m) PROVE SyncInv'
  BY <1>4, MovedInv DEF AgentMoves, Moved
<1>5. ASSUME NEW m \in Messages, NEW p \in {"archived", "deleted"}, Depart(m, p) PROVE SyncInv'
  BY <1>5, MovedInv DEF Depart, Moved
<1>6. ASSUME NEW m \in Messages, AgentRemovesRow(m) PROVE SyncInv'
  <2>1. UNCHANGED <<connector, clock, place, rev, floor, cursor, sync, faults, skipped, newest>>
    BY <1>6 DEF AgentRemovesRow, provider, history
  <2>2. /\ place[m] # "inbox" /\ leaving' \subseteq leaving
        /\ \A n \in Messages : rows'[n] = IF n = m THEN 0 ELSE rows[n]
    BY <1>1, <1>6 DEF AgentRemovesRow, SyncTypeOK, MailboxDated, Gone
  <2>3. SyncTypeOK'
    <3>1. 0 \in Version
      BY MailSyncAssumption DEF Version
    <3>2. rows' \in [Messages -> Version] /\ leaving' \subseteq Messages
      BY <1>1, <1>6, <3>1 DEF AgentRemovesRow, SyncTypeOK
    <3>3. QED
      BY <1>1, <2>1, <3>2 DEF SyncTypeOK
  <2>4. MailboxDated'
    BY <1>1, <2>1, <2>2 DEF MailboxDated, Gone
  <2>5. StoreOK'
    BY <1>1, <2>1, <2>2 DEF StoreOK, RowsSeen, Seen, ImapStore, Held, CloudStore
  <2>6. StoreStep
    <3>1. \A n \in Messages : Held(n) => Held(n)'
      BY <2>1, <2>2 DEF Held
    <3>2. \A n \in Messages : newest'[n] >= newest[n]
      BY <1>1, <2>1, NewestAreNumbers
    <3>3. QED
      BY <2>1, <3>1, <3>2 DEF StoreStep
  <2>7. \A v \in Workers : \E run \in Run : sync'[v] = run /\ RunOK(run)
    BY <1>1, <2>1 DEF SyncTypeOK
  <2>8. QED
    BY <1>1, <2>3, <2>4, <2>5, <2>6, <2>7, RunsAfter DEF SyncInv
<1>7. ASSUME Expire PROVE SyncInv'
  <2>1. /\ UNCHANGED <<connector, clock, place, rev, rows, cursor, sync, leaving, faults, skipped, newest>>
        /\ floor' = clock
    BY <1>7 DEF Expire, history
  <2>2. SyncTypeOK'
    <3>1. clock \in Version
      BY <1>1 DEF SyncTypeOK, Version
    <3>2. QED
      BY <1>1, <2>1, <3>1 DEF SyncTypeOK
  <2>3. MailboxDated' /\ StoreOK'
    BY <1>1, <2>1 DEF MailboxDated, Gone, StoreOK, RowsSeen, Seen, ImapStore, Held, CloudStore
  <2>4. StoreStep
    <3>1. \A n \in Messages : newest'[n] >= newest[n]
      BY <1>1, <2>1, NewestAreNumbers
    <3>2. QED
      BY <2>1, <3>1 DEF StoreStep, Held
  <2>5. \A v \in Workers : \E run \in Run : sync'[v] = run /\ RunOK(run)
    BY <1>1, <2>1 DEF SyncTypeOK
  <2>6. QED
    BY <1>1, <2>2, <2>3, <2>4, <2>5, RunsAfter DEF SyncInv
<1>8. QED
  BY <1>2, <1>3, <1>4, <1>5, <1>6, <1>7 DEF MailboxUsed

-----------------------------------------------------------------------------
(* A run asks.                                                              *)

LEMMA BeginInv ==
  ASSUME SyncInv, NEW w \in Workers, Begin(w)
  PROVE  SyncInv'
<1> USE VersionsAreNumbers
<1>1. PICK r : r = [IdleRun EXCEPT
          !.from = cursor,
          !.full = connector = "gmail" /\ cursor = 0,
          !.step = CASE connector = "imap" -> "search"
                     [] connector = "gmail" -> IF cursor = 0 THEN "list" ELSE "history"
                     [] connector = "graph" -> "page"]
  OBVIOUS
<1>2. SyncTypeOK /\ StoreOK
  BY DEF SyncInv
<1>3. connector \in {"imap", "gmail", "graph"}
  BY <1>2, MailSyncAssumption DEF SyncTypeOK
<1>4. /\ r.from = cursor /\ r.full = (connector = "gmail" /\ cursor = 0)
      /\ connector = "imap" => r.step = "search"
      /\ connector = "gmail" => r.step = IF cursor = 0 THEN "list" ELSE "history"
      /\ connector = "graph" => r.step = "page"
      /\ r.todo = {} /\ r.got = Nothing /\ r.gone = {} /\ r.upto = 0 /\ r.past = Nothing
      /\ r.pages = 0
  BY <1>1, <1>3 DEF IdleRun
<1>5. r \in Run
  <2>1. IdleRun \in Run
    <3>1. AtEnd(Loop) \in Run
      BY <1>2, NoRun
    <3>2. AtEnd(Loop) = IdleRun
      BY DEF AtEnd
    <3>3. QED
      BY <3>1, <3>2
  <2>2. cursor \in Version \cup Messages
    BY <1>2 DEF SyncTypeOK
  <2>3. (connector = "gmail" /\ cursor = 0) \in BOOLEAN
    OBVIOUS
  <2>4. QED
    BY <1>1, <1>3, <2>1, <2>2, <2>3 DEF Run
<1>6. \A m \in Messages : r.got[m] = 0 /\ r.past[m] = 0
  BY <1>4 DEF Nothing
<1> HIDE <1>1
<1>7. Gathered(r)
  BY <1>4, <1>6 DEF Gathered, Seen
<1>8. connector = "imap" => ImapRun(r)
  <2>1. connector = "imap" => \A m \in Messages : m <= cursor => Held(m)
    BY <1>2 DEF StoreOK, ImapStore
  <2>2. cursor \in Nat
    BY <1>2 DEF SyncTypeOK
  <2>3. connector = "imap" => r.step = "search" /\ r.full = FALSE
    BY <1>4
  <2>4. \A m \in Messages : ~(r.from < m /\ m <= r.upto)
    BY <1>4, <2>2
  <2>5. QED
    BY <1>4, <2>1, <2>3, <2>4 DEF ImapRun
<1>9. connector # "imap" => CloudRun(r)
  <2>1. connector # "imap" => cursor <= clock
    BY <1>2 DEF StoreOK, CloudStore
  <2>2. clock \in Nat
    BY <1>2 DEF SyncTypeOK
  <2>3. QED
    BY <1>4, <1>6, <2>1, <2>2 DEF CloudRun
<1>10. connector = "gmail" => GmailRun(r)
  BY <1>4 DEF GmailRun
<1>11. connector = "graph" => GraphRun(r)
  <2>1. \A m \in Messages : newest[m] >= 0
    BY <1>2, NewestAreNumbers
  <2>2. 0 < MaxPages
    BY MailSyncAssumption
  <2>3. ASSUME connector = "graph" PROVE r.step = "page" /\ r.full = FALSE /\ r.todo = {} /\ r.pages < MaxPages
    BY <1>4, <2>2, <2>3
  <2>4. QED
    BY <1>6, <2>1, <2>3 DEF GraphRun
<1>12. RunOK(r)
  BY <1>7, <1>8, <1>9, <1>10, <1>11 DEF RunOK
<1>13. QED
  BY <1>1, <1>2, <1>5, <1>12, RunStep DEF Begin, SyncTypeOK

LEMMA SearchInv ==
  ASSUME SyncInv, NEW w \in Workers, Search(w)
  PROVE  SyncInv'
<1> USE VersionsAreNumbers
<1>1. PICK run : run = sync[w]
  OBVIOUS
<1>2. PICK found : found = {m \in Inbox : m > run.from \/ \A k \in Inbox : k <= m}
  OBVIOUS
<1>3. PICK r : r = [run EXCEPT !.step = "fetch", !.todo = Batch(found), !.upto = run.from]
  OBVIOUS
<1>4. SyncTypeOK /\ run \in Run /\ RunOK(run) /\ run.step = "search"
  BY <1>1 DEF SyncInv, SyncTypeOK, Search
<1>5. found \subseteq Inbox /\ found \subseteq Messages /\ Batch(found) \subseteq found
  BY <1>2, PartOf DEF Inbox, Batch
<1>6. /\ r.step = "fetch" /\ r.todo = Batch(found) /\ r.upto = run.from /\ r.from = run.from
      /\ r.full = run.full /\ r.got = run.got /\ r.gone = run.gone /\ r.past = run.past
      /\ r.pages = run.pages /\ r \in Run
  BY <1>3, <1>4, <1>5 DEF Run
<1>7. connector = "imap" /\ ImapRun(run)
  BY <1>4, MailSyncAssumption DEF RunOK, GmailRun, GraphRun, SyncTypeOK
<1>8. ASSUME NEW k \in Batch(found), NEW m \in Messages, run.from < m, m < k, place[m] = "inbox"
      PROVE  m \in Batch(found)
  <2>1. m \in found
    BY <1>2, <1>8, <1>4, RunFields DEF Inbox
  <2>2. QED
    BY <1>5, <1>8, <2>1, FirstOfIsInitial, MailSyncAssumption DEF Batch
<1>9. ImapRun(r)
  <2>1. \A k \in r.todo : place[k] # "future"
    BY <1>5, <1>6 DEF Inbox
  <2>2. run.from \in Nat
    BY <1>4, RunFields
  <2>3. \A m \in Messages : ~(r.from < m /\ m <= r.upto)
    BY <1>6, <2>2
  <2>4. \A k \in r.todo, m \in Messages : run.from < m /\ m < k /\ place[m] = "inbox" => m \in r.todo
    BY <1>6, <1>8
  <2>5. QED
    BY <1>6, <1>7, <2>1, <2>3, <2>4 DEF ImapRun
<1>10. Gathered(r)
  BY <1>4, <1>6, <1>7 DEF RunOK, Gathered, ImapRun
<1>11. RunOK(r)
  BY <1>7, <1>9, <1>10 DEF RunOK
<1>12. sync' = [sync EXCEPT ![w] = r]
  BY <1>1, <1>2, <1>3 DEF Search
<1>13. QED
  BY <1>4, <1>6, <1>11, <1>12, RunStep DEF Search, SyncTypeOK
LEMMA AskedMailbox ==
  ASSUME SyncInv
  PROVE  /\ SyncTypeOK /\ MailboxDated /\ StoreOK
         /\ faults \in 0..MaxFaults /\ clock \in Nat
         /\ connector \in {"imap", "gmail", "graph"}
         /\ clock \in Version /\ clock > 0 /\ 0 \in Version
         /\ \A m \in Messages : rev[m] \in Version /\ rev[m] \in Nat /\ rev[m] <= clock
<1>1. SyncTypeOK /\ MailboxDated /\ StoreOK
  BY DEF SyncInv
<1>2. \A m \in Messages : rev[m] \in Version /\ rev[m] \in Nat /\ rev[m] <= clock
  BY <1>1, VersionsAreNumbers DEF SyncTypeOK, MailboxDated
<1>3. QED
  BY <1>1, <1>2, MailSyncAssumption DEF SyncTypeOK, Version

\* A run that has its answer, in the state in which it asked.
LEMMA AskedRun ==
  ASSUME SyncInv, NEW w \in Workers
  PROVE  sync[w] \in Run /\ RunOK(sync[w])
BY DEF SyncInv, SyncTypeOK

LEMMA ListInv ==
  ASSUME SyncInv, NEW w \in Workers, List(w)
  PROVE  SyncInv'
<1> USE VersionsAreNumbers, AskedMailbox, AskedRun
<1>1. PICK run : run = sync[w]
  OBVIOUS
<1>2. PICK r : r = [run EXCEPT !.step = "fetch", !.todo = LastOf(Limit, Inbox)]
  OBVIOUS
<1>3. run \in Run /\ RunOK(run) /\ run.step = "list"
  BY <1>1 DEF List
<1>4. LastOf(Limit, Inbox) \subseteq Messages
  BY PartOf DEF Inbox
<1>5. /\ r.step = "fetch" /\ r.from = run.from /\ r.upto = run.upto
      /\ r.full = run.full /\ r.got = run.got /\ r.gone = run.gone /\ r.past = run.past
      /\ r.pages = run.pages /\ r \in Run
  BY <1>2, <1>3, <1>4 DEF Run
<1>6. connector = "gmail" /\ GmailRun(run)
  BY <1>3 DEF RunOK, ImapRun, GraphRun
<1>7. run.full /\ run.got = Nothing /\ run.gone = {} /\ run.upto = 0
  BY <1>3, <1>6 DEF GmailRun
<1>8. GmailRun(r)
  <2>1. \A m \in Messages : r.got[m] = 0
    BY <1>5, <1>7 DEF Nothing
  <2>2. FullRun(r)
    BY <1>5, <1>7, <2>1 DEF FullRun
  <2>3. QED
    BY <1>5, <1>7, <2>2 DEF GmailRun
<1>9. Gathered(r) /\ CloudRun(r)
  BY <1>3, <1>5, <1>6, <1>7 DEF RunOK, Gathered, CloudRun
<1>10. RunOK(r)
  BY <1>6, <1>8, <1>9 DEF RunOK
<1>11. sync' = [sync EXCEPT ![w] = r]
  BY <1>1, <1>2 DEF List
<1>12. QED
  BY <1>5, <1>10, <1>11, RunStep DEF List

LEMMA HistoryInv ==
  ASSUME SyncInv, NEW w \in Workers, History(w)
  PROVE  SyncInv'
<1> USE VersionsAreNumbers, AskedMailbox, AskedRun
<1>1. PICK run : run = sync[w]
  OBVIOUS
<1>2. run \in Run /\ RunOK(run) /\ run.step = "history" /\ run.from \in Nat
  BY <1>1, RunFields DEF History
<1>3. connector = "gmail" /\ GmailRun(run) /\ CloudRun(run)
  BY <1>2 DEF RunOK, ImapRun, GraphRun
<1>4. ~run.full /\ run.from # 0 /\ run.got = Nothing /\ run.gone = {} /\ run.upto = 0
  BY <1>2, <1>3 DEF GmailRun
<1>5. UNCHANGED <<provider, rows, cursor, leaving, faults, history>>
  BY DEF History
<1>6. ASSUME sync' = [sync EXCEPT ![w] = AfterExpiry(w, run)] PROVE SyncInv'
  <2>1. PICK r : r = AfterExpiry(w, run)
    OBVIOUS
  <2>2. /\ r.step = "list" /\ r.full /\ r.from = run.from /\ r.upto = run.upto
        /\ r.got = run.got /\ r.gone = run.gone /\ r.past = run.past /\ r \in Run
    BY <1>2, <2>1 DEF AfterExpiry, Run
  <2>3. GmailRun(r)
    BY <1>4, <2>2 DEF GmailRun
  <2>4. Gathered(r) /\ CloudRun(r)
    BY <1>2, <1>3, <1>4, <2>2 DEF RunOK, Gathered, CloudRun
  <2>5. RunOK(r)
    BY <1>3, <2>3, <2>4 DEF RunOK
  <2>6. QED
    BY <1>5, <1>6, <2>1, <2>2, <2>5, RunStep
<1>7. PICK changed : changed = {m \in Messages : rev[m] > run.from}
  OBVIOUS
<1>8. PICK r : r = [run EXCEPT !.step = "fetch",
                              !.todo = {m \in changed : place[m] # "deleted"},
                              !.gone = {m \in changed : place[m] = "deleted"},
                              !.upto = clock]
  OBVIOUS
<1>9. /\ r.step = "fetch" /\ r.from = run.from /\ r.upto = clock
      /\ r.todo = {m \in changed : place[m] # "deleted"}
      /\ r.gone = {m \in changed : place[m] = "deleted"}
      /\ r.full = run.full /\ r.got = run.got /\ r.past = run.past
      /\ r.pages = run.pages /\ r \in Run
  BY <1>2, <1>7, <1>8 DEF Run
<1>10. RunOK(r)
  <2>1. \A m \in Messages : r.got[m] = 0
    BY <1>4, <1>9 DEF Nothing
  <2>2. Gathered(r)
    BY <1>9, <2>1 DEF Gathered, Seen, Gone
  <2>3. CloudRun(r)
    BY <1>3, <1>9 DEF CloudRun
  <2>4. \A m \in Messages : rev[m] > run.from <=> m \in r.todo \cup r.gone
    BY <1>7, <1>9
  <2>5. \A m \in Messages : rev[m] \in (run.from + 1)..clock => rev[m] > run.from
    BY <1>2
  <2>6. PartialRun(r)
    BY <1>4, <1>9, <2>1, <2>4, <2>5 DEF PartialRun
  <2>7. GmailRun(r)
    BY <1>4, <1>9, <2>6 DEF GmailRun
  <2>8. QED
    BY <1>3, <2>2, <2>3, <2>7 DEF RunOK
<1>11. \/ sync' = [sync EXCEPT ![w] = AfterExpiry(w, run)]
       \/ sync' = [sync EXCEPT ![w] = r]
  BY <1>1, <1>7, <1>8 DEF History
<1>12. QED
  BY <1>5, <1>6, <1>9, <1>10, <1>11, RunStep

LEMMA ProfileInv ==
  ASSUME SyncInv, NEW w \in Workers, Profile(w)
  PROVE  SyncInv'
<1> USE VersionsAreNumbers, AskedMailbox, AskedRun
<1>1. PICK run : run = sync[w]
  OBVIOUS
<1>2. PICK r : r = [run EXCEPT !.upto = clock]
  OBVIOUS
<1>3. run \in Run /\ RunOK(run) /\ run.step = "fetch" /\ run.full /\ run.upto = 0
  BY <1>1 DEF Profile
<1>4. /\ r.step = "fetch" /\ r.from = run.from /\ r.upto = clock /\ r.todo = run.todo
      /\ r.full = run.full /\ r.got = run.got /\ r.gone = run.gone /\ r.past = run.past
      /\ r.pages = run.pages /\ r \in Run
  BY <1>2, <1>3 DEF Run
<1>5. connector = "gmail" /\ GmailRun(run)
  BY <1>3 DEF RunOK, ImapRun, GraphRun
<1>6. FullRun(run)
  BY <1>3, <1>5 DEF GmailRun
<1>7. \A m \in Messages : run.got[m] = 0
  BY <1>3, <1>6 DEF FullRun, Nothing
<1>8. FullRun(r)
  BY <1>4, <1>6, <1>7 DEF FullRun
<1>9. GmailRun(r)
  BY <1>3, <1>4, <1>8 DEF GmailRun
<1>10. Gathered(r) /\ CloudRun(r)
  BY <1>3, <1>4, <1>5 DEF RunOK, Gathered, CloudRun
<1>11. RunOK(r)
  BY <1>5, <1>9, <1>10 DEF RunOK
<1>12. sync' = [sync EXCEPT ![w] = r]
  BY <1>1, <1>2, <1>3 DEF Profile
<1>13. QED
  BY <1>4, <1>11, <1>12, RunStep DEF Profile

\* A fetched message joins what the run has, under each connector.
LEMMA FetchedRun ==
  ASSUME SyncInv, NEW run \in Run, RunOK(run), run.step = "fetch",
         NEW m \in Due(run), place[m] = "inbox",
         NEW r \in Run,
         r.step = "fetch", r.from = run.from, r.upto = Reached(run, m),
         r.todo = run.todo \ {m}, r.full = run.full, r.gone = run.gone, r.past = run.past,
         r.got = [run.got EXCEPT ![m] = rev[m]]
  PROVE  RunOK(r)
<1> USE VersionsAreNumbers, RunFields
<1>1. /\ SyncTypeOK /\ MailboxDated /\ clock \in Nat /\ connector \in {"imap", "gmail", "graph"}
      /\ \A k \in Messages : rev[k] \in Nat /\ rev[k] <= clock
  BY AskedMailbox
<1>2. m \in run.todo /\ m \in Messages
  BY <1>1, FirstIsLeast, PartOf DEF Due
<1>3. rev[m] # 0 /\ rev[m] > 0
  BY <1>1, <1>2 DEF MailboxDated
<1>4. r.got[m] = rev[m] /\ \A k \in Messages : k # m => r.got[k] = run.got[k]
  BY <1>2
<1>5. Gathered(r)
  <2>1. m \notin run.gone
    BY <1>2 DEF RunOK, Gathered
  <2>2. QED
    BY <1>2, <1>4, <2>1 DEF RunOK, Gathered, Seen
<1>6. ASSUME connector = "imap" PROVE ImapRun(r)
  <2>1. ImapRun(run)
    BY <1>6 DEF RunOK
  <2>2. \A k \in run.todo : m <= k
    <3>1. m \in FirstOf(1, run.todo) /\ run.todo \in SUBSET Messages
      BY <1>6, <2>1 DEF Due, ImapRun
    <3>2. QED
      BY <3>1, FirstIsLeast
  <2>3. r.upto \in {m, run.upto} /\ m <= r.upto /\ run.upto <= r.upto
    <3>1. r.upto = MaxOf(m, run.upto)
      BY <1>6, <2>1 DEF Reached, ImapRun
    <3>2. m \in Nat /\ run.upto \in Nat
      BY <1>2
    <3>3. QED
      BY <3>1, <3>2 DEF MaxOf
  <2>4. ASSUME NEW k \in Messages, r.from < k, k <= r.upto
        PROVE  place[k] # "future" /\ (place[k] = "inbox" => r.got[k] # 0)
    <3>1. CASE k <= run.upto
      BY <1>3, <1>4, <2>1, <2>4, <3>1 DEF ImapRun
    <3>2. CASE k = m
      BY <1>3, <1>4, <3>2
    <3>3. CASE ~(k <= run.upto) /\ k # m
      <4>1. k < m /\ k \notin run.todo
        <5>1. k <= m
          BY <2>3, <2>4, <3>3
        <5>2. k < m
          BY <1>2, <3>3, <5>1
        <5>3. ~(m <= k)
          BY <1>2, <5>2
        <5>4. QED
          BY <2>2, <5>2, <5>3
      <4>2. place[k] = "inbox" => run.got[k] # 0
        BY <1>2, <2>1, <2>4, <4>1 DEF ImapRun
      <4>3. place[k] # "future"
        BY <1>1, <1>2, <4>1 DEF MailboxDated
      <4>4. QED
        BY <1>4, <3>3, <4>2, <4>3
    <3>4. QED
      BY <3>1, <3>2, <3>3
  <2>5. \A k \in r.todo :
          /\ place[k] # "future"
          /\ \A n \in Messages : run.from < n /\ n < k /\ place[n] = "inbox" =>
               n \in r.todo \/ r.got[n] # 0
    BY <1>3, <1>4, <2>1 DEF ImapRun
  <2>6. QED
    BY <2>1, <2>4, <2>5 DEF ImapRun
<1>7. connector # "imap" => CloudRun(r)
  <2>1. connector # "imap" => r.upto <= clock
    BY <1>1, <1>2 DEF RunOK, CloudRun, Reached
  <2>2. QED
    BY <2>1 DEF RunOK, CloudRun
<1>8. ASSUME connector = "gmail" PROVE GmailRun(r)
  <2>1. GmailRun(run)
    BY <1>8 DEF RunOK
  <2>2. CASE run.full
    <3>1. FullRun(run)
      BY <2>1, <2>2 DEF GmailRun
    <3>2. CASE run.upto = 0
      <4>1. r.upto = rev[m]
        BY <1>8, <2>2, <3>2 DEF Reached
      <4>2. \A k \in Messages : k # m => r.got[k] = 0
        BY <1>4, <3>1, <3>2 DEF FullRun, Nothing
      <4>3. FullRun(r)
        BY <1>3, <1>4, <3>1, <4>1, <4>2 DEF FullRun
      <4>4. QED
        BY <2>1, <2>2, <4>3 DEF GmailRun
    <3>3. CASE run.upto # 0
      <4>1. r.upto = run.upto
        BY <1>8, <2>2, <3>3 DEF Reached
      <4>2. FullRun(r)
        BY <1>4, <3>1, <3>3, <4>1 DEF FullRun
      <4>3. QED
        BY <2>1, <2>2, <4>2 DEF GmailRun
    <3>4. QED
      BY <3>2, <3>3
  <2>3. CASE ~run.full
    <3>1. PartialRun(run)
      BY <2>1, <2>3 DEF GmailRun
    <3>2. r.upto = run.upto
      BY <1>8, <2>3 DEF Reached
    <3>3. PartialRun(r)
      BY <1>2, <1>4, <3>1, <3>2 DEF PartialRun
    <3>4. QED
      BY <2>1, <2>3, <3>3 DEF GmailRun
  <2>4. QED
    BY <2>2, <2>3
<1>9. connector # "graph"
  BY DEF RunOK, GraphRun
<1>10. QED
  BY <1>5, <1>6, <1>7, <1>8, <1>9 DEF RunOK

LEMMA FetchInv ==
  ASSUME SyncInv, NEW w \in Workers, NEW m \in Messages, Fetch(w, m)
  PROVE  SyncInv'
<1> USE VersionsAreNumbers, AskedMailbox, AskedRun
<1>1. PICK run : run = sync[w]
  OBVIOUS
<1>2. run \in Run /\ RunOK(run) /\ run.step = "fetch" /\ m \in Due(run)
  BY <1>1 DEF Fetch
<1>3. UNCHANGED <<provider, rows, cursor, leaving, faults, history>>
  BY DEF Fetch
<1>4. m \in run.todo
  BY <1>2, RunFields, FirstIsLeast, PartOf DEF Due
<1>5. ASSUME place[m] = "inbox",
             sync' = [sync EXCEPT ![w] = [run EXCEPT !.todo = run.todo \ {m},
                                                     !.got[m] = rev[m],
                                                     !.upto = Reached(run, m)]]
      PROVE  SyncInv'
  <2>1. PICK r : r = [run EXCEPT !.todo = run.todo \ {m},
                                 !.got[m] = rev[m],
                                 !.upto = Reached(run, m)]
    OBVIOUS
  <2>2. Reached(run, m) \in Version \cup Messages
    BY <1>2, RunFields DEF Reached, MaxOf
  <2>3. /\ r.step = "fetch" /\ r.from = run.from /\ r.upto = Reached(run, m)
        /\ r.todo = run.todo \ {m} /\ r.full = run.full /\ r.gone = run.gone
        /\ r.past = run.past /\ r.got = [run.got EXCEPT ![m] = rev[m]]
        /\ r \in Run
    BY <1>2, <2>1, <2>2 DEF Run
  <2>4. RunOK(r)
    BY <1>2, <1>5, <2>3, FetchedRun
  <2>5. QED
    BY <1>3, <1>5, <2>1, <2>3, <2>4, RunStep
<1>6. ASSUME place[m] # "inbox", connector = "gmail", ~run.full,
             sync' = [sync EXCEPT ![w] = [run EXCEPT !.todo = run.todo \ {m},
                                                     !.gone = run.gone \cup {m}]]
      PROVE  SyncInv'
  <2>1. PICK r : r = [run EXCEPT !.todo = run.todo \ {m}, !.gone = run.gone \cup {m}]
    OBVIOUS
  <2>2. /\ r.step = "fetch" /\ r.from = run.from /\ r.upto = run.upto
        /\ r.todo = run.todo \ {m} /\ r.full = run.full /\ r.gone = run.gone \cup {m}
        /\ r.past = run.past /\ r.got = run.got /\ r \in Run
    BY <1>2, <2>1 DEF Run
  <2>3. PartialRun(run)
    BY <1>2, <1>6 DEF RunOK, GmailRun
  <2>4. run.got[m] = 0 /\ rev[m] > run.from /\ run.from \in Nat
    BY <1>2, <1>4, <2>3, RunFields DEF PartialRun
  <2>5. Gone(m)
    <3>1. place[m] # "future"
      BY <2>4 DEF MailboxDated
    <3>2. QED
      BY <1>6, <3>1 DEF Gone, SyncTypeOK, Places
  <2>6. Gathered(r)
    BY <1>2, <2>2, <2>4, <2>5 DEF RunOK, Gathered
  <2>7. PartialRun(r)
    BY <2>2, <2>3, <2>4 DEF PartialRun
  <2>8. GmailRun(r) /\ CloudRun(r)
    BY <1>2, <1>6, <2>2, <2>7 DEF RunOK, GmailRun, CloudRun
  <2>9. RunOK(r)
    BY <1>6, <2>6, <2>8 DEF RunOK
  <2>10. QED
    BY <1>3, <1>6, <2>1, <2>2, <2>9, RunStep
<1>7. ASSUME run.full,
             sync' = [sync EXCEPT ![w] = [run EXCEPT !.todo = run.todo \ {m}]]
      PROVE  SyncInv'
  <2>1. PICK r : r = [run EXCEPT !.todo = run.todo \ {m}]
    OBVIOUS
  <2>2. /\ r.step = "fetch" /\ r.from = run.from /\ r.upto = run.upto
        /\ r.todo = run.todo \ {m} /\ r.full = run.full /\ r.gone = run.gone
        /\ r.past = run.past /\ r.got = run.got /\ r \in Run
    BY <1>2, <2>1 DEF Run
  <2>3. connector = "gmail"
    BY <1>2, <1>7 DEF RunOK, ImapRun, GraphRun
  <2>4. FullRun(r)
    BY <1>2, <1>7, <2>2, <2>3 DEF RunOK, GmailRun, FullRun
  <2>5. GmailRun(r) /\ CloudRun(r) /\ Gathered(r)
    BY <1>2, <1>7, <2>2, <2>3, <2>4 DEF RunOK, GmailRun, CloudRun, Gathered
  <2>6. RunOK(r)
    BY <2>3, <2>5 DEF RunOK
  <2>7. QED
    BY <1>3, <1>7, <2>1, <2>2, <2>6, RunStep
<1>8. ASSUME sync' = [sync EXCEPT ![w] = AtEnd(w)] PROVE SyncInv'
  BY <1>3, <1>8, NoRun, RunStep
<1>9. QED
  BY <1>1, <1>5, <1>6, <1>7, <1>8 DEF Fetch
LEMMA PageInv ==
  ASSUME SyncInv, NEW w \in Workers, Page(w)
  PROVE  SyncInv'
<1> USE VersionsAreNumbers, AskedMailbox, AskedRun
<1>1. PICK items \in SUBSET Outstanding(sync[w]) :
        sync' = [sync EXCEPT ![w] =
            [sync[w] EXCEPT
               !.step = "apply",
               !.got = [m \in Messages |->
                          IF m \in items /\ place[m] = "inbox" THEN rev[m] ELSE 0],
               !.gone = {m \in items : place[m] # "inbox"},
               !.past = [m \in Messages |-> IF m \in items THEN rev[m] ELSE sync[w].past[m]],
               !.upto = IF items = Outstanding(sync[w]) THEN clock ELSE 0,
               !.pages = sync[w].pages + 1]]
  BY Zenon DEF Page, kSubset
<1>2. PICK run : run = sync[w]
  OBVIOUS
<1>3. PICK due : due = Outstanding(run)
  OBVIOUS
<1>4. PICK r : r =
            [run EXCEPT
               !.step = "apply",
               !.got = [m \in Messages |->
                          IF m \in items /\ place[m] = "inbox" THEN rev[m] ELSE 0],
               !.gone = {m \in items : place[m] # "inbox"},
               !.past = [m \in Messages |-> IF m \in items THEN rev[m] ELSE run.past[m]],
               !.upto = IF items = due THEN clock ELSE 0,
               !.pages = run.pages + 1]
  OBVIOUS
<1>5. run \in Run /\ RunOK(run) /\ run.step = "page" /\ run.from \in Nat
  BY <1>2, RunFields DEF Page
<1>6. /\ connector = "graph" /\ ~run.full /\ run.pages < MaxPages
      /\ \A m \in Messages : newest[m] >= run.past[m]
  BY <1>5 DEF RunOK, ImapRun, GmailRun, GraphRun
<1>7. items \subseteq Messages
  BY <1>2, <1>3 DEF Outstanding
<1>8. /\ r.step = "apply" /\ r.from = run.from /\ r.full = run.full /\ r.todo = run.todo
      /\ r.upto = IF items = due THEN clock ELSE 0
      /\ r.gone = {m \in items : place[m] # "inbox"}
      /\ r.got = [m \in Messages |-> IF m \in items /\ place[m] = "inbox" THEN rev[m] ELSE 0]
      /\ r.past = [m \in Messages |-> IF m \in items THEN rev[m] ELSE run.past[m]]
      /\ r.pages = run.pages + 1
  BY <1>4, <1>5 DEF Run
<1>9. r \in Run
  <2>1. run.pages + 1 \in 0..MaxPages
    BY <1>5, <1>6, RunFields, MailSyncAssumption
  <2>2. r.got \in [Messages -> Version] /\ r.past \in [Messages -> Version]
    BY <1>5, <1>8, RunFields
  <2>3. r.upto \in Version /\ r.gone \subseteq Messages
    BY <1>7, <1>8
  <2>4. QED
    BY <1>4, <1>5, <1>8, <2>1, <2>2, <2>3 DEF Run
<1>10. Gathered(r)
  <2>1. run.todo = {}
    BY <1>5, <1>6 DEF RunOK, GraphRun
  <2>2. \A m \in r.gone : Gone(m)
    <3> SUFFICES ASSUME NEW m \in items, place[m] # "inbox" PROVE Gone(m)
      BY <1>8
    <3>1. rev[m] > run.from
      BY <1>2, <1>3 DEF Outstanding
    <3>2. place[m] # "future"
      BY <1>5, <1>7, <3>1 DEF MailboxDated
    <3>3. QED
      BY <1>7, <3>2 DEF Gone, SyncTypeOK, Places
  <2>3. QED
    BY <1>7, <1>8, <2>1, <2>2 DEF Gathered, Seen
<1>11. CloudRun(r)
  BY <1>5, <1>6, <1>8 DEF RunOK, CloudRun
<1>12. GraphRun(r)
  <2>1. \A m \in Messages : newest[m] >= r.past[m] \/ Brought(r, m) >= r.past[m]
    <3> TAKE m \in Messages
    <3>1. CASE m \notin items
      BY <1>6, <1>8, <3>1
    <3>2. CASE m \in items /\ place[m] = "inbox"
      BY <1>8, <3>2 DEF Brought, MailboxDated
    <3>3. CASE m \in items /\ place[m] # "inbox"
      BY <1>8, <3>3 DEF Brought, MaxOf
    <3>4. QED
      BY <3>1, <3>2, <3>3
  <2>2. ASSUME NEW m \in Messages, rev[m] \in (r.from + 1)..r.upto
        PROVE  r.past[m] >= rev[m] \/ (r.from = 0 /\ r.past[m] = 0)
    <3>1. items = due
      BY <1>5, <1>8, <2>2
    <3>2. CASE m \in items
      BY <1>8, <3>2
    <3>3. CASE m \notin items
      <4>1. r.past[m] = run.past[m] /\ run.past[m] \in Nat /\ rev[m] > run.from
        <5>1. r.past[m] = run.past[m]
          BY <1>8, <3>3
        <5>2. run.past[m] \in Nat
          BY <1>5, RunFields
        <5>3. rev[m] > run.from
          BY <1>5, <1>8, <2>2
        <5>4. QED
          BY <5>1, <5>2, <5>3
      <4>2. m \notin Outstanding(run)
        BY <1>3, <3>1, <3>3
      <4>3. ~(rev[m] > run.past[m]) \/ (run.from = 0 /\ run.past[m] = 0)
        BY <1>5, <4>1, <4>2 DEF Outstanding
      <4>4. QED
        BY <1>8, <4>1, <4>3
    <3>4. QED
      BY <3>2, <3>3
  <2>3. r.step = "apply" /\ r.full = FALSE /\ r.todo = {}
    BY <1>5, <1>6, <1>8 DEF RunOK, GraphRun
  <2>4. QED
    BY <2>1, <2>2, <2>3 DEF GraphRun
<1>13. RunOK(r)
  BY <1>6, <1>10, <1>11, <1>12 DEF RunOK
<1>14. QED
  <2>1. sync' = [sync EXCEPT ![w] = r]
    BY <1>1, <1>2, <1>3, <1>4
  <2>2. QED
    BY <1>9, <1>13, <2>1, RunStep DEF Page
-----------------------------------------------------------------------------
(* A run stores.                                                            *)

LEMMA StoredRows ==
  ASSUME SyncInv, NEW run \in Run, RunOK(run), NEW gone \in SUBSET run.gone,
         rows' = Stored(run.got, gone), UNCHANGED provider
  PROVE  /\ rows' \in [Messages -> Version]
         /\ RowsSeen'
         /\ \A m \in Messages :
              /\ rows'[m] = 0 => Gone(m) \/ (rows[m] = 0 /\ run.got[m] = 0)
              /\ Held(m) => Held(m)'
<1> USE VersionsAreNumbers, AskedMailbox, RunFields DEF provider
<1>1. rows' \in [Messages -> Version]
  BY StoredType DEF SyncTypeOK
<1>2. ASSUME NEW m \in Messages
      PROVE  /\ m \in gone => rows'[m] = 0 /\ Gone(m)
             /\ m \notin gone /\ run.got[m] # 0 => rows'[m] = run.got[m]
             /\ m \notin gone /\ run.got[m] = 0 => rows'[m] = rows[m]
             /\ Seen(run.got[m], m) /\ Seen(rows[m], m)
  BY DEF Stored, RunOK, Gathered, StoreOK, RowsSeen
<1>3. RowsSeen'
  <2> SUFFICES ASSUME NEW m \in Messages PROVE Seen(rows[m], m)'
    BY DEF RowsSeen
  <2>1. rows'[m] \in {0, rows[m], run.got[m]}
    BY <1>2
  <2>2. QED
    BY <1>2, <2>1 DEF Seen
<1>4. ASSUME NEW m \in Messages
      PROVE  rows'[m] = 0 => Gone(m) \/ (rows[m] = 0 /\ run.got[m] = 0)
  BY <1>2
<1>5. ASSUME NEW m \in Messages, Held(m) PROVE Held(m)'
  BY <1>4, <1>5 DEF Held, Gone
<1>6. QED
  BY <1>1, <1>3, <1>4, <1>5

LEMMA BroughtRows ==
  ASSUME SyncInv, NEW run \in Run, RunOK(run), NEW m \in Messages
  PROVE  /\ Brought(run, m) \in Version /\ Brought(run, m) \in Nat
         /\ run.got[m] # 0 => Brought(run, m) = run.got[m]
         /\ m \in run.gone => Gone(m) /\ run.got[m] = 0 /\ Brought(run, m) >= run.upto
         /\ run.got[m] = 0 /\ m \notin run.gone => Brought(run, m) = 0
         /\ connector # "imap" => Brought(run, m) <= clock
<1> USE VersionsAreNumbers, AskedMailbox, RunFields
<1>1. connector = "imap" => run.gone = {}
  BY DEF RunOK, ImapRun
<1>2. connector # "imap" => run.upto <= clock /\ run.past[m] <= clock
  BY DEF RunOK, CloudRun
<1>3. Brought(run, m) \in Version
  BY <1>1, <1>2, BroughtIsVersion
<1>4. run.got[m] # 0 => Brought(run, m) = run.got[m] /\ m \notin run.gone
  BY DEF Brought, RunOK, Gathered
<1>5. m \in run.gone => Gone(m) /\ run.got[m] = 0 /\ Brought(run, m) = MaxOf(run.past[m], run.upto)
  BY DEF Brought, RunOK, Gathered
<1>6. run.upto \in Nat /\ run.past[m] \in Nat /\ run.got[m] \in Nat /\ rev[m] \in Nat
  OBVIOUS
<1>7. m \in run.gone => Brought(run, m) >= run.upto
  BY <1>5, <1>6 DEF MaxOf
<1>8. run.got[m] = 0 /\ m \notin run.gone => Brought(run, m) = 0
  BY DEF Brought
<1>9. connector # "imap" => Brought(run, m) <= clock
  <2> SUFFICES ASSUME connector # "imap" PROVE Brought(run, m) <= clock
    OBVIOUS
  <2>1. CASE run.got[m] # 0
    <3>1. Seen(run.got[m], m) /\ rev[m] <= clock
      BY DEF RunOK, Gathered
    <3>2. QED
      BY <1>4, <1>6, <2>1, <3>1 DEF Seen
  <2>2. CASE m \in run.gone
    BY <1>2, <1>5, <1>6, <2>2 DEF MaxOf
  <2>3. CASE run.got[m] = 0 /\ m \notin run.gone
    BY <1>8, <2>3
  <2>4. QED
    BY <2>1, <2>2, <2>3
<1>10. QED
  BY <1>3, <1>4, <1>5, <1>7, <1>8, <1>9

\* The newest version known of a message grows with what a run brings.
LEMMA NewestGrows ==
  ASSUME SyncInv, NEW run \in Run, RunOK(run),
         newest' = [m \in Messages |-> MaxOf(newest[m], Brought(run, m))]
  PROVE  /\ newest' \in [Messages -> Version]
         /\ \A m \in Messages :
              /\ newest'[m] \in Nat
              /\ newest'[m] >= newest[m] /\ newest'[m] >= Brought(run, m)
              /\ newest'[m] \in {newest[m], Brought(run, m)}
              /\ Brought(run, m) = 0 => newest'[m] = newest[m]
<1> USE VersionsAreNumbers, AskedMailbox
<1>1. ASSUME NEW m \in Messages
      PROVE  newest[m] \in Version /\ Brought(run, m) \in Version
             /\ newest[m] \in Nat /\ Brought(run, m) \in Nat
  BY BroughtRows DEF SyncTypeOK
<1>2. ASSUME NEW m \in Messages
      PROVE  newest'[m] = MaxOf(newest[m], Brought(run, m))
  OBVIOUS
<1>3. ASSUME NEW m \in Messages
      PROVE  /\ newest'[m] \in Nat
             /\ newest'[m] >= newest[m] /\ newest'[m] >= Brought(run, m)
             /\ newest'[m] \in {newest[m], Brought(run, m)}
             /\ Brought(run, m) = 0 => newest'[m] = newest[m]
  BY <1>1, <1>2 DEF MaxOf
<1>4. \A m \in Messages : MaxOf(newest[m], Brought(run, m)) \in Version
  BY <1>1 DEF MaxOf
<1>5. QED
  BY <1>3, <1>4

\* A row that is missing is not missed, whatever becomes of newest.
LEMMA MissingRows ==
  ASSUME SyncInv, connector # "imap", NEW run \in Run, RunOK(run), NEW gone \in SUBSET run.gone,
         rows' = Stored(run.got, gone), UNCHANGED provider,
         \A m \in Messages : Brought(run, m) = 0 => newest'[m] = newest[m]
  PROVE  \A m \in Messages : rows'[m] = 0 /\ newest'[m] >= rev'[m] => place'[m] # "inbox"
<1> SUFFICES ASSUME NEW m \in Messages, rows'[m] = 0, newest'[m] >= rev[m]
             PROVE  place[m] # "inbox"
  BY DEF provider
<1>1. CASE Gone(m)
  BY <1>1 DEF Gone
<1>2. CASE ~Gone(m)
  <2>1. rows[m] = 0 /\ run.got[m] = 0
    BY <1>2, StoredRows
  <2>2. Brought(run, m) = 0
    BY <1>2, <2>1, BroughtRows
  <2>3. CloudStore
    BY DEF SyncInv, StoreOK
  <2>4. QED
    BY <2>1, <2>2, <2>3 DEF CloudStore
<1>3. QED
  BY <1>1, <1>2

LEMMA DieInCommitInv ==
  ASSUME SyncInv, NEW w \in Workers, DieInCommit(w)
  PROVE  SyncInv'
<1> USE VersionsAreNumbers, AskedMailbox, AskedRun
<1>1. PICK run : run = sync[w]
  OBVIOUS
<1>2. run \in Run /\ RunOK(run)
  BY <1>1
<1>3. PICK gone \in SUBSET run.gone : rows' = Stored(run.got, gone)
  BY <1>1 DEF DieInCommit
<1>4. /\ UNCHANGED provider /\ UNCHANGED <<cursor, skipped>> /\ leaving' = {}
      /\ sync' = AllStopped /\ faults' \in 0..MaxFaults
      /\ newest' = [m \in Messages |-> MaxOf(newest[m], Brought(run, m))]
  BY <1>1, MailSyncAssumption DEF DieInCommit
<1>5. SyncTypeOK'
  <2>1. rows' \in [Messages -> Version]
    BY <1>2, <1>3, <1>4, StoredRows
  <2>2. newest' \in [Messages -> Version]
    BY <1>2, <1>4, NewestGrows
  <2>3. sync' \in [Workers -> Run]
    BY <1>4, AllStoppedSound DEF SyncInv
  <2>4. QED
    BY <1>4, <2>1, <2>2, <2>3 DEF SyncTypeOK, provider
<1>6. MailboxDated'
  BY <1>4 DEF MailboxDated, Gone, provider
<1>7. StoreOK'
  <2>1. RowsSeen' /\ \A m \in Messages : Held(m) => Held(m)'
    BY <1>2, <1>3, <1>4, StoredRows
  <2>2. connector = "imap" => ImapStore'
    BY <1>4, <2>1 DEF StoreOK, ImapStore
  <2>3. ASSUME connector # "imap" PROVE CloudStore'
    <3>1. CloudStore
      BY <2>3 DEF StoreOK
    <3>2. \A m \in Messages : rows'[m] = 0 /\ newest'[m] >= rev'[m] => place'[m] # "inbox"
      <4>1. \A m \in Messages : Brought(run, m) = 0 => newest'[m] = newest[m]
        BY <1>2, <1>4, NewestGrows
      <4>2. QED
        BY <1>2, <1>3, <1>4, <2>3, <4>1, MissingRows
    <3>3. ASSUME NEW m \in Messages
          PROVE  /\ newest'[m] <= clock
                 /\ rev[m] \in 1..cursor => m \in skipped \/ newest'[m] >= rev[m]
      <4>1. newest'[m] \in {newest[m], Brought(run, m)} /\ newest'[m] >= newest[m] /\ newest'[m] \in Nat
        BY <1>2, <1>4, NewestGrows
      <4>2. Brought(run, m) <= clock
        BY <1>2, <2>3, BroughtRows
      <4>3. newest[m] \in Nat /\ rev[m] \in Nat
        BY NewestAreNumbers
      <4>4. newest[m] <= clock /\ (rev[m] \in 1..cursor => m \in skipped \/ newest[m] >= rev[m])
        BY <3>1 DEF CloudStore
      <4>5. newest'[m] <= clock
        BY <4>1, <4>2, <4>4
      <4>6. newest[m] >= rev[m] => newest'[m] >= rev[m]
        BY <4>1, <4>3
      <4>7. QED
        BY <4>4, <4>5, <4>6
    <3>4. QED
      BY <1>4, <3>1, <3>2, <3>3 DEF CloudStore, provider
  <2>4. QED
    BY <1>4, <2>1, <2>2, <2>3 DEF StoreOK, provider
<1>8. StoreStep
  <2>1. \A m \in Messages : Held(m) => Held(m)'
    BY <1>2, <1>3, <1>4, StoredRows
  <2>2. \A m \in Messages : newest'[m] >= newest[m]
    BY <1>2, <1>4, NewestGrows
  <2>3. QED
    BY <1>4, <2>1, <2>2 DEF StoreStep, provider
<1>9. \A v \in Workers : \E r \in Run : sync'[v] = r /\ RunOK(r)
  BY <1>4, AllStoppedSound DEF SyncInv
<1>10. QED
  BY <1>5, <1>6, <1>7, <1>8, <1>9, RunsAfter DEF SyncInv
\* What the cursor of a finished Gmail run passes has been stored in its last
\* version, or is passed over.
LEMMA GmailCursorRow ==
  ASSUME SyncInv, connector = "gmail", NEW w \in Workers, Complete(sync[w]), Commit(w),
         NEW m \in Messages, rev[m] \in 1..sync[w].upto
  PROVE  m \in skipped' \/ newest'[m] >= rev[m]
<1> USE VersionsAreNumbers, AskedMailbox, AskedRun, RunFields
<1>1. PICK run : run = sync[w]
  OBVIOUS
<1>2. run \in Run /\ RunOK(run) /\ run.step = "fetch" /\ run.todo = {} /\ GmailRun(run)
  BY <1>1 DEF Complete, RunOK
<1>3. /\ skipped' = (skipped \ StoredNow(run)) \cup PassedOver(run, run.got)
      /\ newest' = [n \in Messages |-> IF Brought(run, n) # 0 THEN Brought(run, n) ELSE newest[n]]
  BY <1>1 DEF Commit
<1>4. Brought(run, m) \in Nat /\ newest[m] \in Nat /\ rev[m] \in Nat /\ rev[m] > 0 /\ rev[m] <= run.upto
  BY <1>1, <1>2, BroughtRows, NewestAreNumbers
<1>5. Brought(run, m) # 0 => newest'[m] = Brought(run, m)
  BY <1>3
<1>6. CASE run.full
  <2>1. FullRun(run)
    BY <1>2, <1>6 DEF GmailRun
  <2>2. CASE run.got[m] = 0
    BY <1>3, <1>1, <1>6, <2>2 DEF PassedOver
  <2>3. CASE run.got[m] # 0
    <3>1. run.got[m] = rev[m]
      BY <1>4, <2>1, <2>3 DEF FullRun
    <3>2. Brought(run, m) = rev[m]
      BY <1>2, <2>3, <3>1, BroughtRows
    <3>3. QED
      BY <1>4, <1>5, <3>2
  <2>4. QED
    BY <2>2, <2>3
<1>7. CASE ~run.full
  <2>1. PartialRun(run) /\ run.from \in Nat
    BY <1>2, <1>7 DEF GmailRun
  <2>2. CASE rev[m] <= run.from
    <3>1. m \notin run.gone /\ run.got[m] = 0
      BY <1>4, <2>1, <2>2 DEF PartialRun
    <3>2. newest'[m] = newest[m] /\ Brought(run, m) = 0
      BY <1>2, <1>3, <3>1, BroughtRows
    <3>3. CASE rev[m] <= cursor
      <4>1. m \in skipped \/ newest[m] >= rev[m]
        BY <1>4, <3>3 DEF StoreOK, CloudStore, SyncTypeOK
      <4>2. m \notin StoredNow(run)
        BY <1>4, <3>2 DEF StoredNow
      <4>3. QED
        BY <1>3, <3>2, <4>1, <4>2
    <3>4. CASE ~(rev[m] <= cursor)
      <4>1. rev[m] \in (cursor + 1)..run.from
        <5>1. cursor \in Nat
          BY DEF SyncTypeOK
        <5>2. rev[m] > cursor
          BY <1>4, <3>4, <5>1
        <5>3. QED
          BY <1>4, <2>1, <2>2, <5>1, <5>2
      <4>2. m \in PassedOver(run, run.got)
        BY <1>7, <2>1, <4>1 DEF PassedOver, PartialRun
      <4>3. QED
        BY <1>3, <4>2
    <3>5. QED
      BY <3>3, <3>4
  <2>3. CASE ~(rev[m] <= run.from)
    <3>1. m \in run.gone \/ run.got[m] = rev[m]
      BY <1>2, <1>4, <2>1, <2>3 DEF PartialRun
    <3>2. m \in run.gone => Brought(run, m) >= run.upto
      BY <1>2, BroughtRows
    <3>3. run.got[m] = rev[m] => Brought(run, m) = rev[m]
      BY <1>2, <1>4, BroughtRows
    <3>4. Brought(run, m) >= rev[m]
      BY <1>2, <1>4, <3>1, <3>2, <3>3
    <3>5. QED
      BY <1>4, <1>5, <3>4
  <2>4. QED
    BY <2>2, <2>3
<1>8. QED
  BY <1>6, <1>7

LEMMA CommitInv ==
  ASSUME SyncInv, NEW w \in Workers, Commit(w)
  PROVE  SyncInv'
<1> USE VersionsAreNumbers, AskedMailbox, AskedRun, RunFields
<1>1. PICK run : run = sync[w]
  OBVIOUS
<1>2. run \in Run /\ RunOK(run) /\ run.step = "fetch" /\ run.todo = {}
  BY <1>1 DEF Commit, Complete
<1>3. /\ UNCHANGED provider /\ UNCHANGED <<leaving, faults>>
      /\ rows' = Stored(run.got, run.gone)
      /\ cursor' = run.upto
      /\ sync' = [sync EXCEPT ![w] = AtEnd(w)]
      /\ newest' = [m \in Messages |-> IF Brought(run, m) # 0 THEN Brought(run, m) ELSE newest[m]]
      /\ skipped' = IF connector = "imap" THEN skipped
                    ELSE (skipped \ StoredNow(run)) \cup PassedOver(run, run.got)
  BY <1>1 DEF Commit
<1>4. connector \in {"imap", "gmail"}
  BY <1>2 DEF RunOK, GraphRun
<1>5. \A m \in Messages : newest'[m] \in {newest[m], Brought(run, m)}
                           /\ (Brought(run, m) = 0 => newest'[m] = newest[m])
  BY <1>3
<1>6. SyncTypeOK'
  <2>1. rows' \in [Messages -> Version]
    BY <1>2, <1>3, StoredRows
  <2>2. newest' \in [Messages -> Version]
    <3>1. \A m \in Messages : (IF Brought(run, m) # 0 THEN Brought(run, m) ELSE newest[m]) \in Version
      BY <1>2, BroughtRows DEF SyncTypeOK
    <3>2. QED
      BY <1>3, <3>1
  <2>3. sync' \in [Workers -> Run]
    BY <1>3, NoRun DEF SyncTypeOK
  <2>4. skipped' \subseteq Messages
    BY <1>3 DEF SyncTypeOK, PassedOver
  <2>5. cursor' \in Version \cup Messages
    BY <1>2, <1>3
  <2>6. QED
    BY <1>3, <2>1, <2>2, <2>3, <2>4, <2>5 DEF SyncTypeOK, provider
<1>7. MailboxDated'
  BY <1>3 DEF MailboxDated, Gone, provider
<1>8. \A m \in Messages : Held(m) => Held(m)'
  BY <1>2, <1>3, StoredRows
<1>9. StoreOK'
  <2>1. RowsSeen'
    BY <1>2, <1>3, StoredRows
  <2>2. ASSUME connector = "imap" PROVE ImapStore'
    <3>1. ImapRun(run)
      BY <1>2, <2>2 DEF RunOK
    <3>2. ASSUME NEW m \in Messages, m <= run.upto PROVE Held(m)'
      <4>1. CASE m <= run.from
        BY <1>8, <3>1, <4>1 DEF ImapRun
      <4>2. CASE ~(m <= run.from)
        <5>1. run.from < m
          <6>1. run.from \in Nat /\ m \in Nat
            BY <1>2
          <6>2. QED
            BY <4>2, <6>1
        <5>2. place[m] # "future" /\ (place[m] = "inbox" => run.got[m] # 0)
          BY <3>1, <3>2, <5>1 DEF ImapRun
        <5>3. rows'[m] = 0 => Gone(m) \/ run.got[m] = 0
          BY <1>2, <1>3, StoredRows
        <5>4. QED
          BY <1>3, <5>2, <5>3 DEF Held, Gone, provider
      <4>3. QED
        BY <4>1, <4>2
    <3>3. QED
      BY <1>3, <3>2 DEF ImapStore
  <2>3. ASSUME connector # "imap" PROVE CloudStore'
    <3>1. connector = "gmail" /\ CloudStore
      BY <1>4, <2>3 DEF StoreOK
    <3>2. \A m \in Messages : rows'[m] = 0 /\ newest'[m] >= rev'[m] => place'[m] # "inbox"
      BY <1>2, <1>3, <1>5, <2>3, MissingRows
    <3>3. \A m \in Messages : newest'[m] <= clock
      BY <1>2, <1>5, <2>3, <3>1, BroughtRows DEF CloudStore
    <3>4. \A m \in Messages : rev[m] \in 1..run.upto => m \in skipped' \/ newest'[m] >= rev[m]
      BY <1>1, <3>1, GmailCursorRow DEF Commit
    <3>5. run.upto <= clock
      BY <1>2, <2>3 DEF RunOK, CloudRun
    <3>6. QED
      BY <1>3, <3>2, <3>3, <3>4, <3>5 DEF CloudStore, provider
  <2>4. QED
    BY <1>3, <2>1, <2>2, <2>3 DEF StoreOK, provider
<1>10. StoreStep
  BY <1>3, <1>4, <1>8 DEF StoreStep, provider
<1>11. \A v \in Workers : \E r \in Run : sync'[v] = r /\ RunOK(r)
  <2>1. \A v \in Workers : sync'[v] \in {sync[v], AtEnd(v)}
    BY <1>3 DEF SyncTypeOK
  <2>2. QED
    BY <2>1, NoRun
<1>12. QED
  BY <1>6, <1>7, <1>9, <1>10, <1>11, RunsAfter DEF SyncInv
\* The same for the last page of a Graph run.
LEMMA GraphCursorRow ==
  ASSUME SyncInv, connector = "graph", NEW w \in Workers, ApplyPage(w), sync[w].upto # 0,
         NEW m \in Messages, rev[m] \in 1..sync[w].upto
  PROVE  m \in skipped' \/ newest'[m] >= rev[m]
<1> USE VersionsAreNumbers, AskedMailbox, AskedRun, RunFields
<1>1. PICK run : run = sync[w]
  OBVIOUS
<1>2. run \in Run /\ RunOK(run) /\ run.step = "apply" /\ GraphRun(run)
  BY <1>1 DEF ApplyPage, RunOK
<1>3. /\ skipped' = (skipped \ StoredNow(run)) \cup PassedOver(run, run.past)
      /\ newest' = [n \in Messages |-> MaxOf(newest[n], Brought(run, n))]
  BY <1>1 DEF ApplyPage
<1>4. /\ Brought(run, m) \in Nat /\ newest[m] \in Nat /\ run.past[m] \in Nat /\ run.from \in Nat
      /\ rev[m] \in Nat /\ rev[m] > 0 /\ rev[m] <= run.upto
  <2>1. Brought(run, m) \in Nat /\ newest[m] \in Nat
    BY <1>2, BroughtRows, NewestAreNumbers
  <2>2. run.past[m] \in Nat /\ run.from \in Nat /\ run.upto \in Nat
    BY <1>2
  <2>3. rev[m] \in Nat /\ rev[m] > 0 /\ rev[m] <= run.upto
    BY <1>1, <2>2
  <2>4. QED
    BY <2>1, <2>2, <2>3
<1>5. newest'[m] \in Nat /\ newest'[m] >= newest[m] /\ newest'[m] >= Brought(run, m)
  BY <1>2, <1>3, NewestGrows
<1>6. ~run.full
  BY <1>2 DEF GraphRun
<1>7. CASE rev[m] <= run.from
  <2>1. run.from # 0
    BY <1>4, <1>7
  <2>2. CASE rev[m] <= cursor
    <3>1. m \in skipped \/ newest[m] >= rev[m]
      BY <1>4, <2>2 DEF StoreOK, CloudStore, SyncTypeOK
    <3>2. m \in StoredNow(run) => newest'[m] >= rev[m]
      BY <1>5 DEF StoredNow
    <3>3. QED
      BY <1>3, <1>4, <1>5, <3>1, <3>2
  <2>3. CASE ~(rev[m] <= cursor)
    <3>1. cursor \in Nat
      BY DEF SyncTypeOK
    <3>2. rev[m] > cursor
      BY <1>4, <2>3, <3>1
    <3>3. rev[m] \in (cursor + 1)..run.from
      BY <1>4, <1>7, <3>1, <3>2
    <3>4. m \in PassedOver(run, run.past)
      BY <1>6, <2>1, <3>3 DEF PassedOver
    <3>5. QED
      BY <1>3, <3>4
  <2>4. QED
    BY <2>2, <2>3
<1>8. CASE ~(rev[m] <= run.from)
  <2>1. rev[m] \in (run.from + 1)..run.upto
    BY <1>2, <1>4, <1>8
  <2>2. run.past[m] >= rev[m] \/ (run.from = 0 /\ run.past[m] = 0)
    BY <1>2, <2>1 DEF GraphRun
  <2>3. CASE run.past[m] >= rev[m]
    <3>1. newest[m] >= run.past[m] \/ Brought(run, m) >= run.past[m]
      BY <1>2 DEF GraphRun
    <3>2. newest'[m] >= run.past[m]
      BY <1>4, <1>5, <3>1
    <3>3. QED
      BY <1>4, <1>5, <2>3, <3>2
  <2>4. CASE run.from = 0 /\ run.past[m] = 0
    <3>1. m \in PassedOver(run, run.past)
      BY <1>1, <2>4 DEF PassedOver
    <3>2. QED
      BY <1>3, <3>1
  <2>5. QED
    BY <2>2, <2>3, <2>4
<1>9. QED
  BY <1>7, <1>8

LEMMA ApplyPageInv ==
  ASSUME SyncInv, NEW w \in Workers, ApplyPage(w)
  PROVE  SyncInv'
<1> USE VersionsAreNumbers, AskedMailbox, AskedRun, RunFields
<1>1. PICK run : run = sync[w]
  OBVIOUS
<1>2. run \in Run /\ RunOK(run) /\ run.step = "apply"
  BY <1>1 DEF ApplyPage
<1>3. connector = "graph" /\ GraphRun(run) /\ CloudRun(run)
  BY <1>2 DEF RunOK, ImapRun, GmailRun
<1>4. /\ UNCHANGED provider /\ UNCHANGED <<leaving, faults>>
      /\ rows' = Stored(run.got, run.gone)
      /\ newest' = [m \in Messages |-> MaxOf(newest[m], Brought(run, m))]
  BY <1>1 DEF ApplyPage
<1>5. \/ /\ run.upto # 0 /\ cursor' = run.upto
         /\ skipped' = (skipped \ StoredNow(run)) \cup PassedOver(run, run.past)
         /\ sync' = [sync EXCEPT ![w] = AtEnd(w)]
      \/ /\ run.upto = 0
         /\ sync' = [sync EXCEPT ![w] = IF GivesUp(run) THEN AtEnd(w) ELSE [run EXCEPT !.step = "page"]]
         /\ UNCHANGED <<cursor, skipped>>
  BY <1>1 DEF ApplyPage
<1>6. PICK next : next = [run EXCEPT !.step = "page"]
  OBVIOUS
<1>7. /\ next.step = "page" /\ next.from = run.from /\ next.full = run.full /\ next.todo = run.todo
      /\ next.upto = run.upto /\ next.got = run.got /\ next.gone = run.gone /\ next.past = run.past
      /\ next.pages = run.pages /\ next \in Run
  BY <1>2, <1>6 DEF Run
<1>8. \E r \in Run : /\ sync' = [sync EXCEPT ![w] = r]
                     /\ r = AtEnd(w) \/ (r = next /\ ~GivesUp(run))
  BY <1>5, <1>6, <1>7, NoRun
<1>9. PICK r \in Run : /\ sync' = [sync EXCEPT ![w] = r]
                       /\ r = AtEnd(w) \/ (r = next /\ ~GivesUp(run))
  BY <1>8
<1>10. SyncTypeOK'
  <2>1. rows' \in [Messages -> Version]
    BY <1>2, <1>4, StoredRows
  <2>2. newest' \in [Messages -> Version]
    BY <1>2, <1>4, NewestGrows
  <2>3. sync' \in [Workers -> Run]
    BY <1>9 DEF SyncTypeOK
  <2>4. skipped' \subseteq Messages
    BY <1>5 DEF SyncTypeOK, PassedOver
  <2>5. cursor' \in Version \cup Messages
    BY <1>2, <1>5 DEF SyncTypeOK
  <2>6. QED
    BY <1>4, <2>1, <2>2, <2>3, <2>4, <2>5 DEF SyncTypeOK, provider
<1>11. MailboxDated'
  BY <1>4 DEF MailboxDated, Gone, provider
<1>12. StoreOK'
  <2>1. RowsSeen'
    BY <1>2, <1>4, StoredRows
  <2>2. CloudStore
    BY <1>3 DEF StoreOK
  <2>3. \A m \in Messages : rows'[m] = 0 /\ newest'[m] >= rev'[m] => place'[m] # "inbox"
    <3>1. \A m \in Messages : Brought(run, m) = 0 => newest'[m] = newest[m]
      BY <1>2, <1>4, NewestGrows
    <3>2. QED
      BY <1>2, <1>3, <1>4, <3>1, MissingRows
  <2>4. \A m \in Messages : newest'[m] <= clock
    <3> TAKE m \in Messages
    <3>1. newest'[m] \in {newest[m], Brought(run, m)}
      BY <1>2, <1>4, NewestGrows
    <3>2. Brought(run, m) <= clock
      BY <1>2, <1>3, BroughtRows
    <3>3. QED
      BY <2>2, <3>1, <3>2 DEF CloudStore
  <2>5. cursor' <= clock
    BY <1>3, <1>5, <2>2 DEF CloudRun, CloudStore
  <2>6. ASSUME NEW m \in Messages, rev[m] \in 1..cursor'
        PROVE  m \in skipped' \/ newest'[m] >= rev[m]
    <3>1. CASE run.upto # 0
      BY <1>1, <1>3, <1>5, <2>6, <3>1, GraphCursorRow
    <3>2. CASE run.upto = 0
      <4>1. newest'[m] >= newest[m] /\ newest'[m] \in Nat /\ newest[m] \in Nat
        BY <1>2, <1>4, NewestGrows, NewestAreNumbers
      <4>2. m \in skipped \/ newest[m] >= rev[m]
        BY <1>5, <2>2, <2>6, <3>2 DEF CloudStore
      <4>3. QED
        BY <1>5, <3>2, <4>1, <4>2
    <3>3. QED
      BY <3>1, <3>2
  <2>7. CloudStore'
    BY <1>4, <2>3, <2>4, <2>5, <2>6 DEF CloudStore, provider
  <2>8. QED
    BY <1>3, <1>4, <2>1, <2>7 DEF StoreOK, provider
<1>13. StoreStep
  <2>1. \A m \in Messages : newest'[m] >= newest[m]
    BY <1>2, <1>4, NewestGrows
  <2>2. QED
    BY <1>3, <1>4, <2>1 DEF StoreStep, provider
<1>14. \A m \in Messages : newest'[m] >= run.past[m]
  <2> TAKE m \in Messages
  <2>1. newest'[m] \in Nat /\ newest'[m] >= newest[m] /\ newest'[m] >= Brought(run, m)
    BY <1>2, <1>4, NewestGrows
  <2>2. newest[m] \in Nat /\ Brought(run, m) \in Nat /\ run.past[m] \in Nat
    <3>1. newest[m] \in Nat /\ Brought(run, m) \in Nat
      BY <1>2, NewestAreNumbers, BroughtRows
    <3>2. run.past[m] \in Nat
      BY <1>2
    <3>3. QED
      BY <3>1, <3>2
  <2>3. newest[m] >= run.past[m] \/ Brought(run, m) >= run.past[m]
    BY <1>2, <1>3 DEF GraphRun
  <2>4. QED
    BY <2>1, <2>2, <2>3
<1>15. \A v \in Workers : RunOK(sync[v])'
  <2> TAKE v \in Workers
  <2>1. CASE v # w \/ r = AtEnd(w)
    <3>1. PICK q \in Run : sync'[v] = q /\ RunOK(q)
      BY <1>9, <2>1, NoRun DEF SyncInv, SyncTypeOK
    <3>2. RunOK(q)'
      BY <1>10, <1>13, <3>1, StoringSpares
    <3>3. QED
      BY <3>1, <3>2 DEF RunOK, Gathered, Seen, ImapRun, CloudRun, GmailRun, FullRun, PartialRun,
           GraphRun, Brought
  <2>2. CASE v = w /\ r = next /\ ~GivesUp(run)
    <3>1. PICK q : q = next
      OBVIOUS
    <3>2. sync'[v] = q
      BY <1>9, <2>2, <3>1 DEF SyncTypeOK
    <3>3. q.pages < MaxPages
      BY <1>2, <1>7, <2>2, <3>1, MailSyncAssumption DEF GivesUp
    <3>4. connector' = "graph" /\ rev' = rev /\ place' = place /\ clock' = clock
      BY <1>3, <1>4 DEF provider
    <3>5. Gathered(q)'
      BY <1>2, <1>7, <3>1, <3>4 DEF RunOK, Gathered, Seen, Gone
    <3>6. CloudRun(q)'
      BY <1>3, <1>7, <3>1, <3>4 DEF CloudRun
    <3>7. GraphRun(q)'
      BY <1>3, <1>7, <1>14, <3>1, <3>3 DEF GraphRun
    <3>8. RunOK(q)'
      BY <3>4, <3>5, <3>6, <3>7 DEF RunOK
    <3>9. QED
      BY <3>2, <3>8 DEF RunOK, Gathered, Seen, ImapRun, CloudRun, GmailRun, FullRun, PartialRun,
           GraphRun, Brought
  <2>3. QED
    BY <1>9, <2>1, <2>2
<1>16. QED
  BY <1>10, <1>11, <1>12, <1>15 DEF SyncInv
-----------------------------------------------------------------------------
(* Faults, and every step.                                                  *)

LEMMA FaultInv ==
  ASSUME SyncInv, NEW w \in Workers, Fail(w) \/ DeltaExpired(w)
  PROVE  SyncInv'
<1> USE AskedMailbox
<1>1. /\ sync' = [sync EXCEPT ![w] = AtEnd(w)]
      /\ UNCHANGED <<provider, rows, cursor, leaving, history>>
      /\ faults' \in 0..MaxFaults
  BY MailSyncAssumption DEF Fail, DeltaExpired
<1>2. QED
  BY <1>1, NoRun, RunStep

LEMMA HangInv ==
  ASSUME SyncInv, NEW w \in Workers, Hang(w)
  PROVE  SyncInv'
<1> USE AskedMailbox
<1>1. /\ \/ sync' = [sync EXCEPT ![w] = Waiting("away")]
         \/ sync' = [sync EXCEPT ![w] = Waiting("hung")] /\ connector = "imap"
      /\ UNCHANGED <<provider, rows, cursor, leaving, history>>
      /\ faults' \in 0..MaxFaults
  BY DEF Hang, SyncInv, SyncTypeOK
<1>2. QED
  BY <1>1, NoRun, RunStep DEF SyncInv

LEMMA DieInv ==
  ASSUME SyncInv, Die
  PROVE  SyncInv'
<1> USE AskedMailbox
<1>1. /\ sync' = AllStopped /\ leaving' = {} /\ faults' \in 0..MaxFaults
      /\ UNCHANGED <<provider, rows, cursor, history>>
  BY MailSyncAssumption DEF Die
<1>2. /\ AllStopped \in [Workers -> Run]
      /\ \A v \in Workers : \E run \in Run : AllStopped[v] = run /\ RunOK(run)
  BY AllStoppedSound DEF SyncInv
<1>3. SyncTypeOK'
  BY <1>1, <1>2 DEF SyncTypeOK, provider, history
<1>4. MailboxDated' /\ StoreOK'
  BY <1>1 DEF MailboxDated, Gone, StoreOK, RowsSeen, Seen, ImapStore, Held, CloudStore,
       provider, history
<1>5. StoreStep
  BY <1>1, NewestAreNumbers DEF StoreStep, Held, provider, history
<1>6. \A v \in Workers : \E run \in Run : sync'[v] = run /\ RunOK(run)
  BY <1>1, <1>2
<1>7. QED
  BY <1>3, <1>4, <1>5, <1>6, RunsAfter DEF SyncInv

LEMMA SyncInvInit == SyncInit => SyncInv
<1> SUFFICES ASSUME SyncInit PROVE SyncInv
  OBVIOUS
<1> USE VersionsAreNumbers
<1>1. /\ connector \in Connectors /\ clock = 1 /\ cursor = 0 /\ leaving = {} /\ skipped = {}
      /\ \A m \in Messages : place[m] = "future" /\ rev[m] = 0 /\ rows[m] = 0 /\ newest[m] = 0
  BY DEF SyncInit, Nothing
<1>2. SyncTypeOK
  <2>1. 0 \in Version /\ 0 \in 0..MaxFaults /\ 1 \in 1..MaxClock
    BY MailSyncAssumption DEF Version
  <2>2. Nothing \in [Messages -> Version]
    BY <2>1 DEF Nothing
  <2>3. IdleRun \in Run
    BY <2>1, <2>2, MailSyncAssumption DEF IdleRun, Run
  <2>4. QED
    BY <2>1, <2>2, <2>3 DEF SyncInit, SyncTypeOK, Places
<1>3. MailboxDated
  BY <1>1 DEF MailboxDated
<1>4. StoreOK
  BY <1>1 DEF StoreOK, RowsSeen, Seen, ImapStore, Held, CloudStore
<1>5. \A w \in Workers : RunOK(sync[w])
  <2>1. IdleRun = AtEnd(Loop)
    BY DEF AtEnd
  <2>2. \A w \in Workers : sync[w] = AtEnd(Loop)
    BY <2>1 DEF SyncInit
  <2>3. QED
    BY <1>2, <2>2, NoRun
<1>6. QED
  BY <1>2, <1>3, <1>4, <1>5 DEF SyncInv

LEMMA SyncInvNext == SyncInv /\ [SyncNext]_syncVars => SyncInv'
<1> SUFFICES ASSUME SyncInv, [SyncNext]_syncVars PROVE SyncInv'
  OBVIOUS
<1>1. CASE MailboxUsed
  BY <1>1, MailboxUsedInv
<1>2. ASSUME NEW w \in Workers, Progress(w) PROVE SyncInv'
  BY <1>2, BeginInv, SearchInv, ListInv, HistoryInv, ProfileInv, CommitInv, FetchInv, PageInv,
     ApplyPageInv, FaultInv DEF Progress
<1>3. ASSUME NEW w \in Workers, Hang(w) \/ Fail(w) \/ DieInCommit(w) PROVE SyncInv'
  BY <1>3, HangInv, FaultInv, DieInCommitInv
<1>4. CASE Die
  BY <1>4, DieInv
<1>5. CASE UNCHANGED syncVars
  BY <1>5 DEF syncVars, SyncInv, SyncTypeOK, MailboxDated, Gone, StoreOK, RowsSeen, Seen,
     ImapStore, Held, CloudStore, RunOK, Gathered, ImapRun, CloudRun, GmailRun, FullRun,
     PartialRun, GraphRun, Brought
<1>6. QED
  BY <1>1, <1>2, <1>3, <1>4, <1>5 DEF SyncNext

LEMMA SyncInvariant == SyncSpec => []SyncInv
BY SyncInvInit, SyncInvNext, PTL DEF SyncSpec

\* Every reachable state is well typed: cursors stay within what the provider
\* or the mailbox can name, a run never keeps more pages than it may follow
\* (main.py _sync_mailbox, sync.py, cloud_sync.py).
THEOREM SyncTypeCorrect == SyncSpec => []SyncTypeOK
<1>1. SyncInv => SyncTypeOK
  BY DEF SyncInv
<1>2. QED
  BY <1>1, SyncInvariant, PTL

\* Any run, overlapped or not, stores what its cursor passes, in its version or,
\* as a late one, in an older one.
LEMMA CursorIsCovered ==
  ASSUME SyncInv, NEW m \in Messages, Passed(m)
  PROVE  Mirrored(m) \/ (connector # "imap" /\ (m \in skipped \/ Raced(m)))
<1> USE VersionsAreNumbers, AskedMailbox, NewestAreNumbers
<1>1. CASE connector = "imap"
  BY <1>1 DEF Passed, Mirrored, StoreOK, ImapStore, Held
<1>2. CASE connector # "imap"
  <2>1. CloudStore /\ Seen(rows[m], m)
    BY <1>2 DEF StoreOK, RowsSeen
  <2>2. m \in skipped \/ newest[m] >= rev[m]
    BY <1>2, <2>1 DEF CloudStore, Passed
  <2>3. rows[m] \in Nat /\ newest[m] \in Nat /\ rev[m] \in Nat
    BY DEF SyncTypeOK
  <2>4. CASE rows[m] = 0
    BY <1>2, <2>1, <2>2, <2>4 DEF CloudStore, Mirrored
  <2>5. CASE rows[m] # 0 /\ rows[m] < rev[m]
    BY <1>2, <2>2, <2>3, <2>5 DEF Raced
  <2>6. CASE rows[m] = rev[m] /\ place[m] = "inbox" /\ rows[m] # 0
    BY <2>6 DEF Mirrored
  <2>7. QED
    BY <2>1, <2>4, <2>5, <2>6 DEF Seen
<1>3. QED
  BY <1>1, <1>2

-----------------------------------------------------------------------------
(* As long as no request to sync now was made.                              *)

\* Then a run works from the cursor as it stands, and a row that a page
\* brought up to date stays so.
LoneRun(run) ==
  run.step \notin {"idle", "over", "away"} =>
    /\ run.from = cursor
    /\ \A m \in Messages : run.got[m] # 0 => run.got[m] = rev[m] \/ rev[m] > cursor
    /\ connector = "graph" => \A m \in Messages :
         /\ run.past[m] # 0 =>
              /\ rev[m] > cursor /\ rev[m] >= run.past[m]
              /\ run.past[m] = rev[m] /\ ~Mirrored(m) =>
                   run.step = "apply" /\ (run.got[m] # 0 \/ m \in run.gone)
         /\ run.step = "apply" /\ run.got[m] # 0 => run.got[m] = run.past[m]
         /\ run.step = "apply" /\ m \in run.gone => run.past[m] # 0

LoneStore == \A m \in Messages : rev[m] \in 1..cursor => Mirrored(m) \/ m \in skipped

LoneInv == connector # "imap" => LoneStore /\ LoneRun(sync[Loop])

LEMMA LoopRun ==
  ASSUME SyncInv
  PROVE  Loop \in Workers /\ sync[Loop] \in Run /\ RunOK(sync[Loop])
BY MailSyncAssumption DEF SyncInv, SyncTypeOK

\* A step that only moves the loop's run.
LEMMA LoneRunStep ==
  ASSUME SyncInv, LoneStore, NEW run, LoneRun(run),
         sync' = [sync EXCEPT ![Loop] = run],
         UNCHANGED <<provider, rows, cursor, leaving, history>>
  PROVE  LoneStore' /\ LoneRun(sync[Loop])'
<1>1. sync'[Loop] = run
  BY LoopRun DEF SyncInv, SyncTypeOK
<1>2. LoneStore'
  BY DEF LoneStore, Mirrored, provider, history
<1>3. LoneRun(run)'
  BY DEF LoneRun, Mirrored, provider
<1>4. QED
  BY <1>1, <1>2, <1>3 DEF LoneRun, Mirrored

LEMMA LoneEnd ==
  ASSUME NEW w
  PROVE  LoneRun(AtEnd(w))
BY DEF LoneRun, AtEnd, IdleRun

LEMMA LoneMoved ==
  ASSUME SyncInv, connector # "imap", LoneStore, LoneRun(sync[Loop]),
         NEW m \in Messages, NEW p, Moved(m, p)
  PROVE  LoneStore' /\ LoneRun(sync[Loop])'
<1> USE VersionsAreNumbers, AskedMailbox
<1>1. PICK run : run = sync[Loop]
  OBVIOUS
<1>2. run \in Run /\ LoneRun(run) /\ CloudRun(run)
  BY <1>1, LoopRun DEF RunOK
<1>3. UNCHANGED <<connector, rows, cursor, sync>> /\ skipped' = skipped \ {m}
  BY DEF Moved, Changes
<1>4. cursor \in Nat /\ cursor <= clock /\ clock \in Nat
  BY DEF StoreOK, CloudStore, SyncTypeOK
<1>5. rev'[m] = clock + 1 /\ \A n \in Messages : n # m => rev'[n] = rev[n] /\ place'[n] = place[n]
  BY MovedRows
<1>6. rev'[m] \in Nat /\ rev'[m] > cursor
  BY <1>4, <1>5
<1>7. \A n \in Messages : n # m => (Mirrored(n)' <=> Mirrored(n))
  BY <1>3, <1>5 DEF Mirrored
<1>8. LoneStore'
  <2> SUFFICES ASSUME NEW n \in Messages, rev'[n] \in 1..cursor
               PROVE  Mirrored(n)' \/ n \in skipped'
    BY <1>3 DEF LoneStore
  <2>1. n # m
    BY <1>4, <1>6
  <2>2. QED
    BY <1>3, <1>5, <1>7, <2>1 DEF LoneStore
<1>9. LoneRun(run)'
  <2> SUFFICES ASSUME run.step \notin {"idle", "over", "away"} PROVE LoneRun(run)'
    BY DEF LoneRun
  <2>1. run.from = cursor'
    BY <1>2, <1>3 DEF LoneRun
  <2>2. \A n \in Messages : run.got[n] # 0 => run.got[n] = rev'[n] \/ rev'[n] > cursor'
    BY <1>2, <1>3, <1>5, <1>6 DEF LoneRun
  <2>3. ASSUME connector = "graph", NEW n \in Messages
        PROVE  /\ run.past[n] # 0 =>
                    /\ rev'[n] > cursor' /\ rev'[n] >= run.past[n]
                    /\ run.past[n] = rev'[n] /\ ~Mirrored(n)' =>
                         run.step = "apply" /\ (run.got[n] # 0 \/ n \in run.gone)
               /\ run.step = "apply" /\ run.got[n] # 0 => run.got[n] = run.past[n]
               /\ run.step = "apply" /\ n \in run.gone => run.past[n] # 0
    <3>1. CASE n = m
      <4>1. run.past[m] \in Nat /\ run.past[m] <= clock
        BY <1>2, RunFields DEF CloudRun
      <4>2. rev'[m] >= run.past[m] /\ run.past[m] # rev'[m]
        BY <1>4, <1>5, <4>1
      <4>3. QED
        BY <1>2, <1>3, <1>6, <2>3, <3>1, <4>2 DEF LoneRun
    <3>2. CASE n # m
      BY <1>2, <1>3, <1>5, <1>7, <2>3, <3>2 DEF LoneRun
    <3>3. QED
      BY <3>1, <3>2
  <2>4. QED
    BY <1>3, <2>1, <2>2, <2>3 DEF LoneRun
<1>10. sync'[Loop] = run
  BY <1>1, <1>3
<1>11. QED
  BY <1>8, <1>9, <1>10 DEF LoneRun, Mirrored

LEMMA LoneMailbox ==
  ASSUME SyncInv, connector # "imap", LoneStore, LoneRun(sync[Loop]), MailboxUsed
  PROVE  LoneStore' /\ LoneRun(sync[Loop])'
<1> USE AskedMailbox
<1>1. ASSUME NEW m \in Messages, NEW p, Moved(m, p) PROVE LoneStore' /\ LoneRun(sync[Loop])'
  BY <1>1, LoneMoved
<1>2. ASSUME NEW m \in Messages, Arrive(m) \/ Touch(m) \/ AgentMoves(m)
      PROVE  \E p : Moved(m, p)
  BY <1>2 DEF Arrive, Touch, AgentMoves, Moved
<1>3. ASSUME NEW m \in Messages, NEW p \in {"archived", "deleted"}, Depart(m, p) PROVE Moved(m, p)
  BY <1>3 DEF Depart, Moved
<1>4. ASSUME NEW m \in Messages, AgentRemovesRow(m) PROVE LoneStore' /\ LoneRun(sync[Loop])'
  <2>1. UNCHANGED <<connector, clock, place, rev, cursor, sync, skipped>>
    BY <1>4 DEF AgentRemovesRow, provider, history
  <2>2. place[m] # "inbox" /\ \A n \in Messages : rows'[n] = IF n = m THEN 0 ELSE rows[n]
    BY <1>4 DEF AgentRemovesRow, SyncTypeOK, MailboxDated, Gone
  <2>3. \A n \in Messages : Mirrored(n) => Mirrored(n)'
    BY <2>1, <2>2 DEF Mirrored
  <2>4. PICK run : run = sync[Loop]
    OBVIOUS
  <2>5. LoneRun(run)'
    BY <2>1, <2>3, <2>4 DEF LoneRun
  <2>6. QED
    BY <2>1, <2>3, <2>4, <2>5 DEF LoneStore, LoneRun, Mirrored
<1>5. ASSUME Expire PROVE LoneStore' /\ LoneRun(sync[Loop])'
  BY <1>5 DEF Expire, history, LoneStore, LoneRun, Mirrored
<1>6. QED
  BY <1>1, <1>2, <1>3, <1>4, <1>5 DEF MailboxUsed

\* The requests of the loop's run.
LEMMA LoneRequest ==
  ASSUME SyncInv, connector # "imap", LoneStore, LoneRun(sync[Loop]),
         NEW w \in Workers, w = Loop,
         Begin(w) \/ Search(w) \/ List(w) \/ History(w) \/ Profile(w) \/ DeltaExpired(w) \/ Fail(w)
  PROVE  LoneStore' /\ LoneRun(sync[Loop])'
<1> USE VersionsAreNumbers, AskedMailbox, LoneRunStep
<1>1. w = Loop
  OBVIOUS
<1>2. PICK run : run = sync[Loop]
  OBVIOUS
<1>3. run \in Run /\ LoneRun(run) /\ RunOK(run)
  BY <1>2, LoopRun
<1>4. ASSUME Begin(w) PROVE LoneStore' /\ LoneRun(sync[Loop])'
  <2>1. PICK r : r = [IdleRun EXCEPT
            !.from = cursor,
            !.full = connector = "gmail" /\ cursor = 0,
            !.step = CASE connector = "imap" -> "search"
                       [] connector = "gmail" -> IF cursor = 0 THEN "list" ELSE "history"
                       [] connector = "graph" -> "page"]
    OBVIOUS
  <2>2. r.from = cursor /\ r.got = Nothing /\ r.past = Nothing /\ r.gone = {}
    BY <2>1 DEF IdleRun
  <2>3. LoneRun(r)
    BY <2>2 DEF LoneRun, Nothing
  <2>4. QED
    BY <1>1, <1>4, <2>1, <2>3 DEF Begin
<1>5. ASSUME Search(w) PROVE LoneStore' /\ LoneRun(sync[Loop])'
  <2>1. run.step = "search"
    BY <1>1, <1>2, <1>5 DEF Search
  <2>2. FALSE
    BY <1>3, <2>1 DEF RunOK, GmailRun, GraphRun
  <2>3. QED
    BY <2>2
<1>6. ASSUME List(w) PROVE LoneStore' /\ LoneRun(sync[Loop])'
  <2>1. PICK r : r = [run EXCEPT !.step = "fetch", !.todo = LastOf(Limit, Inbox)]
    OBVIOUS
  <2>2. /\ run.step = "list" /\ r.from = run.from /\ r.got = run.got
        /\ sync' = [sync EXCEPT ![Loop] = r]
    BY <1>1, <1>2, <1>3, <1>6, <2>1 DEF List, Run
  <2>3. connector # "graph"
    BY <1>3, <2>2 DEF RunOK, GraphRun
  <2>4. LoneRun(r)
    BY <1>3, <2>2, <2>3 DEF LoneRun
  <2>5. QED
    BY <1>6, <2>2, <2>4 DEF List
<1>7. ASSUME History(w) PROVE LoneStore' /\ LoneRun(sync[Loop])'
  <2>1. run.step = "history" /\ UNCHANGED <<provider, rows, cursor, leaving, history>>
    BY <1>1, <1>2, <1>7 DEF History
  <2>2. connector # "graph"
    BY <1>3, <2>1 DEF RunOK, GraphRun
  <2>3. ASSUME NEW q, q.from = run.from, q.got = run.got, sync' = [sync EXCEPT ![Loop] = q]
        PROVE  LoneStore' /\ LoneRun(sync[Loop])'
    <3>1. LoneRun(q)
      BY <1>3, <2>1, <2>2, <2>3 DEF LoneRun
    <3>2. QED
      BY <2>1, <2>3, <3>1
  <2>4. ASSUME sync' = [sync EXCEPT ![Loop] = AfterExpiry(w, run)]
        PROVE  LoneStore' /\ LoneRun(sync[Loop])'
    <3>1. AfterExpiry(w, run).from = run.from /\ AfterExpiry(w, run).got = run.got
      BY <1>3 DEF AfterExpiry, Run
    <3>2. QED
      BY <2>3, <2>4, <3>1
  <2>5. ASSUME NEW todo, NEW gone,
               sync' = [sync EXCEPT ![Loop] =
                          [run EXCEPT !.step = "fetch", !.todo = todo, !.gone = gone, !.upto = clock]]
        PROVE  LoneStore' /\ LoneRun(sync[Loop])'
    <3>1. PICK q : q = [run EXCEPT !.step = "fetch", !.todo = todo, !.gone = gone, !.upto = clock]
      OBVIOUS
    <3>2. q.from = run.from /\ q.got = run.got
      BY <1>3, <3>1 DEF Run
    <3>3. QED
      BY <2>3, <2>5, <3>1, <3>2
  <2>6. \/ sync' = [sync EXCEPT ![Loop] = AfterExpiry(w, run)]
        \/ \E todo, gone : sync' = [sync EXCEPT ![Loop] =
             [run EXCEPT !.step = "fetch", !.todo = todo, !.gone = gone, !.upto = clock]]
    BY <1>1, <1>2, <1>7 DEF History
  <2>7. QED
    BY <2>4, <2>5, <2>6
<1>8. ASSUME Profile(w) PROVE LoneStore' /\ LoneRun(sync[Loop])'
  <2>1. PICK r : r = [run EXCEPT !.upto = clock]
    OBVIOUS
  <2>2. /\ run.step = "fetch" /\ r.from = run.from /\ r.got = run.got
        /\ sync' = [sync EXCEPT ![Loop] = r]
    BY <1>1, <1>2, <1>3, <1>8, <2>1 DEF Profile, Run
  <2>3. connector # "graph"
    BY <1>3, <2>2 DEF RunOK, GraphRun
  <2>4. LoneRun(r)
    BY <1>3, <2>2, <2>3 DEF LoneRun
  <2>5. QED
    BY <1>8, <2>2, <2>4 DEF Profile
<1>9. ASSUME DeltaExpired(w) \/ Fail(w) PROVE LoneStore' /\ LoneRun(sync[Loop])'
  <2>1. sync' = [sync EXCEPT ![Loop] = AtEnd(w)] /\ UNCHANGED <<provider, rows, cursor, leaving, history>>
    BY <1>1, <1>9 DEF DeltaExpired, Fail
  <2>2. QED
    BY <2>1, LoneEnd
<1>10. QED
  BY <1>4, <1>5, <1>6, <1>7, <1>8, <1>9

LEMMA LoneHang ==
  ASSUME SyncInv, connector # "imap", LoneStore, LoneRun(sync[Loop]), Hang(Loop)
  PROVE  LoneStore' /\ LoneRun(sync[Loop])'
<1>1. LoneRun(Waiting("away"))
  BY DEF LoneRun, Waiting, IdleRun
<1>2. QED
  BY <1>1, LoneRunStep DEF Hang

LEMMA LoneFetch ==
  ASSUME SyncInv, connector # "imap", LoneStore, LoneRun(sync[Loop]),
         NEW m \in Messages, Fetch(Loop, m)
  PROVE  LoneStore' /\ LoneRun(sync[Loop])'
<1> USE VersionsAreNumbers, AskedMailbox, LoneRunStep
<1>1. PICK run : run = sync[Loop]
  OBVIOUS
<1>2. /\ run \in Run /\ LoneRun(run) /\ RunOK(run) /\ run.step = "fetch"
      /\ UNCHANGED <<provider, rows, cursor, leaving, history>>
  BY <1>1, LoopRun DEF Fetch
<1>3. connector # "graph"
  BY <1>2 DEF RunOK, GraphRun
<1>4. ASSUME NEW r, r.from = run.from, r.got = run.got \/ r.got = [run.got EXCEPT ![m] = rev[m]],
             sync' = [sync EXCEPT ![Loop] = r]
      PROVE  LoneStore' /\ LoneRun(sync[Loop])'
  <2>1. \A n \in Messages : r.got[n] = run.got[n] \/ r.got[n] = rev[n]
    BY <1>2, <1>4, RunFields
  <2>2. LoneRun(r)
    BY <1>2, <1>3, <1>4, <2>1 DEF LoneRun
  <2>3. QED
    BY <1>2, <1>4, <2>2
<1>5. ASSUME sync' = [sync EXCEPT ![Loop] = [run EXCEPT !.todo = run.todo \ {m},
                                                        !.got[m] = rev[m],
                                                        !.upto = Reached(run, m)]]
      PROVE  LoneStore' /\ LoneRun(sync[Loop])'
  <2>1. PICK r : r = [run EXCEPT !.todo = run.todo \ {m}, !.got[m] = rev[m], !.upto = Reached(run, m)]
    OBVIOUS
  <2>2. r.from = run.from /\ r.got = [run.got EXCEPT ![m] = rev[m]]
    BY <1>2, <2>1 DEF Run
  <2>3. QED
    BY <1>4, <1>5, <2>1, <2>2
<1>6. ASSUME sync' = [sync EXCEPT ![Loop] = [run EXCEPT !.todo = run.todo \ {m},
                                                        !.gone = run.gone \cup {m}]]
      PROVE  LoneStore' /\ LoneRun(sync[Loop])'
  <2>1. PICK r : r = [run EXCEPT !.todo = run.todo \ {m}, !.gone = run.gone \cup {m}]
    OBVIOUS
  <2>2. r.from = run.from /\ r.got = run.got
    BY <1>2, <2>1 DEF Run
  <2>3. QED
    BY <1>4, <1>6, <2>1, <2>2
<1>7. ASSUME sync' = [sync EXCEPT ![Loop] = [run EXCEPT !.todo = run.todo \ {m}]]
      PROVE  LoneStore' /\ LoneRun(sync[Loop])'
  <2>1. PICK r : r = [run EXCEPT !.todo = run.todo \ {m}]
    OBVIOUS
  <2>2. r.from = run.from /\ r.got = run.got
    BY <1>2, <2>1 DEF Run
  <2>3. QED
    BY <1>4, <1>7, <2>1, <2>2
<1>8. ASSUME sync' = [sync EXCEPT ![Loop] = AtEnd(Loop)] PROVE LoneStore' /\ LoneRun(sync[Loop])'
  BY <1>2, <1>8, LoneEnd
<1>9. QED
  BY <1>1, <1>5, <1>6, <1>7, <1>8 DEF Fetch

LEMMA LonePage ==
  ASSUME SyncInv, connector # "imap", LoneStore, LoneRun(sync[Loop]), Page(Loop)
  PROVE  LoneStore' /\ LoneRun(sync[Loop])'
<1> USE VersionsAreNumbers, AskedMailbox
<1>1. PICK items \in SUBSET Outstanding(sync[Loop]) :
        sync' = [sync EXCEPT ![Loop] =
            [sync[Loop] EXCEPT
               !.step = "apply",
               !.got = [m \in Messages |->
                          IF m \in items /\ place[m] = "inbox" THEN rev[m] ELSE 0],
               !.gone = {m \in items : place[m] # "inbox"},
               !.past = [m \in Messages |-> IF m \in items THEN rev[m] ELSE sync[Loop].past[m]],
               !.upto = IF items = Outstanding(sync[Loop]) THEN clock ELSE 0,
               !.pages = sync[Loop].pages + 1]]
  BY Zenon DEF Page, kSubset
<1>2. PICK run : run = sync[Loop]
  OBVIOUS
<1>3. PICK r : r =
            [run EXCEPT
               !.step = "apply",
               !.got = [m \in Messages |->
                          IF m \in items /\ place[m] = "inbox" THEN rev[m] ELSE 0],
               !.gone = {m \in items : place[m] # "inbox"},
               !.past = [m \in Messages |-> IF m \in items THEN rev[m] ELSE run.past[m]],
               !.upto = IF items = Outstanding(run) THEN clock ELSE 0,
               !.pages = run.pages + 1]
  OBVIOUS
<1>4. /\ run \in Run /\ LoneRun(run) /\ RunOK(run) /\ run.step = "page" /\ run.from \in Nat
      /\ UNCHANGED <<provider, rows, cursor, leaving, history>>
  BY <1>2, LoopRun, RunFields DEF Page
<1>5. connector = "graph" /\ run.from = cursor
  BY <1>4 DEF RunOK, GmailRun, LoneRun
<1>6. /\ r.step = "apply" /\ r.from = run.from
      /\ r.gone = {m \in items : place[m] # "inbox"}
      /\ r.got = [m \in Messages |-> IF m \in items /\ place[m] = "inbox" THEN rev[m] ELSE 0]
      /\ r.past = [m \in Messages |-> IF m \in items THEN rev[m] ELSE run.past[m]]
  BY <1>3, <1>4 DEF Run
<1>7. \A m \in items : m \in Messages /\ rev[m] > cursor /\ rev[m] # 0
  BY <1>2, <1>4, <1>5 DEF Outstanding
<1>8. \A m \in Messages : r.got[m] # 0 => r.got[m] = rev[m]
  BY <1>6
<1>9. ASSUME NEW m \in Messages
      PROVE  /\ r.past[m] # 0 =>
                  /\ rev[m] > cursor /\ rev[m] >= r.past[m]
                  /\ r.past[m] = rev[m] /\ ~Mirrored(m) => r.got[m] # 0 \/ m \in r.gone
             /\ r.got[m] # 0 => r.got[m] = r.past[m]
             /\ m \in r.gone => r.past[m] # 0
  <2>1. CASE m \in items
    <3>0. rev[m] \in Nat /\ rev[m] > cursor /\ rev[m] # 0
      BY <1>7, <2>1
    <3>1. r.past[m] = rev[m] /\ rev[m] >= r.past[m]
      <4>1. r.past[m] = rev[m]
        BY <1>6, <2>1
      <4>2. QED
        BY <3>0, <4>1
    <3>2. IF place[m] = "inbox" THEN r.got[m] = rev[m] /\ m \notin r.gone
                                ELSE r.got[m] = 0 /\ m \in r.gone
      BY <1>6, <2>1
    <3>3. QED
      BY <3>0, <3>1, <3>2
  <2>2. CASE m \notin items
    <3>1. r.past[m] = run.past[m] /\ r.got[m] = 0 /\ m \notin r.gone
      BY <1>6, <2>2
    <3>2. run.past[m] # 0 =>
            /\ rev[m] > cursor /\ rev[m] >= run.past[m]
            /\ run.past[m] = rev[m] => Mirrored(m)
      BY <1>4, <1>5 DEF LoneRun
    <3>3. QED
      BY <3>1, <3>2
  <2>3. QED
    BY <2>1, <2>2
<1>10. LoneRun(r)
  BY <1>5, <1>6, <1>8, <1>9 DEF LoneRun
<1>11. sync' = [sync EXCEPT ![Loop] = r]
  BY <1>1, <1>2, <1>3
<1>12. QED
  BY <1>4, <1>10, <1>11, LoneRunStep

\* A row just stored at the message's present version is the mailbox's.
LEMMA FreshRow ==
  ASSUME SyncInv, connector # "imap", NEW run \in Run, RunOK(run),
         rows' = Stored(run.got, run.gone), UNCHANGED provider, NEW m \in Messages
  PROVE  /\ run.got[m] = rev[m] /\ rev[m] # 0 => Mirrored(m)'
         /\ m \in run.gone => Mirrored(m)'
         /\ run.got[m] = 0 /\ m \notin run.gone => (Mirrored(m)' <=> Mirrored(m))
<1> USE VersionsAreNumbers, AskedMailbox, RunFields DEF provider
<1>1. /\ m \in run.gone => Gone(m) /\ run.got[m] = 0
      /\ Seen(run.got[m], m)
  BY DEF RunOK, Gathered
<1>2. /\ m \in run.gone => rows'[m] = 0
      /\ m \notin run.gone /\ run.got[m] # 0 => rows'[m] = run.got[m]
      /\ m \notin run.gone /\ run.got[m] = 0 => rows'[m] = rows[m]
  BY DEF Stored
<1>3. place' = place /\ rev' = rev /\ connector' = connector
  OBVIOUS
<1>4. ASSUME run.got[m] = rev[m], rev[m] # 0 PROVE Mirrored(m)'
  <2>1. place[m] = "inbox"
    BY <1>1, <1>4 DEF Seen
  <2>2. rows'[m] = rev[m]
    BY <1>1, <1>2, <1>4
  <2>3. QED
    BY <1>3, <1>4, <2>1, <2>2 DEF Mirrored
<1>5. ASSUME m \in run.gone PROVE Mirrored(m)'
  BY <1>1, <1>2, <1>3, <1>5 DEF Gone, Mirrored
<1>6. ASSUME run.got[m] = 0, m \notin run.gone PROVE Mirrored(m)' <=> Mirrored(m)
  BY <1>2, <1>3, <1>6 DEF Mirrored
<1>7. QED
  BY <1>4, <1>5, <1>6

LEMMA LoneCommit ==
  ASSUME SyncInv, connector # "imap", LoneStore, LoneRun(sync[Loop]), Commit(Loop)
  PROVE  LoneStore' /\ LoneRun(sync[Loop])'
<1> USE VersionsAreNumbers, AskedMailbox
<1>1. PICK run : run = sync[Loop]
  OBVIOUS
<1>2. /\ run \in Run /\ LoneRun(run) /\ RunOK(run) /\ run.step = "fetch" /\ run.todo = {}
      /\ run.from \in Nat /\ run.upto \in Nat
  BY <1>1, LoopRun, RunFields DEF Commit, Complete
<1>3. /\ UNCHANGED provider /\ cursor' = run.upto
      /\ rows' = Stored(run.got, run.gone)
      /\ skipped' = (skipped \ StoredNow(run)) \cup PassedOver(run, run.got)
      /\ sync' = [sync EXCEPT ![Loop] = AtEnd(Loop)]
  BY <1>1 DEF Commit
<1>4. connector = "gmail" /\ GmailRun(run) /\ run.from = cursor
  BY <1>2 DEF RunOK, GraphRun, LoneRun
<1>5. ASSUME NEW m \in Messages, rev[m] \in 1..run.upto PROVE Mirrored(m)' \/ m \in skipped'
  <2>0. rev[m] \in Nat /\ rev[m] # 0 /\ rev[m] <= run.upto
    BY <1>2, <1>5
  <2>1. CASE run.full
    <3>1. FullRun(run)
      BY <1>2, <1>4, <2>1 DEF GmailRun
    <3>2. CASE run.got[m] = 0
      BY <1>3, <1>5, <2>1, <3>2 DEF PassedOver
    <3>3. CASE run.got[m] # 0
      <4>1. run.got[m] = rev[m]
        BY <2>0, <3>1, <3>3 DEF FullRun
      <4>2. QED
        BY <1>2, <1>3, <2>0, <4>1, FreshRow
    <3>4. QED
      BY <3>2, <3>3
  <2>2. CASE ~run.full
    <3>1. PartialRun(run)
      BY <1>2, <1>4, <2>2 DEF GmailRun
    <3>2. CASE rev[m] <= run.from
      <4>1. m \notin run.gone /\ run.got[m] = 0
        BY <1>2, <2>0, <3>1, <3>2 DEF PartialRun
      <4>2. Mirrored(m) \/ m \in skipped
        <5>1. cursor \in Nat
          BY <1>2, <1>4
        <5>2. rev[m] \in 1..cursor
          BY <1>4, <2>0, <3>2, <5>1
        <5>3. QED
          BY <5>2 DEF LoneStore
      <4>3. m \notin StoredNow(run)
        BY <2>0, <4>1 DEF StoredNow, Brought
      <4>4. QED
        BY <1>2, <1>3, <4>1, <4>2, <4>3, FreshRow
    <3>3. CASE ~(rev[m] <= run.from)
      <4>1. m \in run.gone \/ run.got[m] = rev[m]
        BY <1>2, <2>0, <3>1, <3>3 DEF PartialRun
      <4>2. QED
        BY <1>2, <1>3, <2>0, <4>1, FreshRow
    <3>4. QED
      BY <3>2, <3>3
  <2>3. QED
    BY <2>1, <2>2
<1>6. LoneStore'
  BY <1>3, <1>5 DEF LoneStore, provider
<1>7. sync'[Loop] = AtEnd(Loop)
  BY <1>3, LoopRun DEF SyncTypeOK, SyncInv
<1>8. QED
  BY <1>6, <1>7 DEF LoneRun, AtEnd, IdleRun

LEMMA LoneDieInCommit ==
  ASSUME SyncInv, connector # "imap", LoneStore, LoneRun(sync[Loop]), DieInCommit(Loop)
  PROVE  LoneStore' /\ LoneRun(sync[Loop])'
<1> USE VersionsAreNumbers, AskedMailbox
<1>1. PICK run : run = sync[Loop]
  OBVIOUS
<1>2. run \in Run /\ LoneRun(run) /\ RunOK(run) /\ run.step = "fetch" /\ run.from \in Nat
  BY <1>1, LoopRun, RunFields DEF DieInCommit, Complete
<1>3. PICK gone \in SUBSET run.gone : rows' = Stored(run.got, gone)
  BY <1>1 DEF DieInCommit
<1>4. UNCHANGED provider /\ UNCHANGED <<cursor, skipped>> /\ sync' = AllStopped
  BY DEF DieInCommit
<1>5. connector = "gmail" /\ GmailRun(run) /\ run.from = cursor
  BY <1>2 DEF RunOK, GraphRun, LoneRun
<1>6. ASSUME NEW m \in Messages, rev[m] \in 1..cursor PROVE Mirrored(m)' \/ m \in skipped
  <2>0. rev[m] # 0 /\ ~(rev[m] > cursor) /\ cursor \in Nat
    BY <1>2, <1>5, <1>6
  <2>1. m \notin run.gone
    <3>1. run.full => run.gone = {}
      BY <1>2, <1>5 DEF GmailRun, FullRun
    <3>2. ~run.full /\ m \in run.gone => rev[m] > run.from
      BY <1>2, <1>5 DEF GmailRun, PartialRun
    <3>3. QED
      BY <1>5, <2>0, <3>1, <3>2
  <2>2. run.got[m] # 0 => run.got[m] = rev[m]
    BY <1>2, <2>0 DEF LoneRun
  <2>3. rows'[m] = IF run.got[m] # 0 THEN run.got[m] ELSE rows[m]
    BY <1>3, <2>1 DEF Stored
  <2>4. CASE run.got[m] = 0
    BY <1>4, <1>6, <2>3, <2>4 DEF LoneStore, Mirrored, provider
  <2>5. CASE run.got[m] # 0
    <3>1. place[m] = "inbox"
      BY <1>2, <2>0, <2>2, <2>5 DEF RunOK, Gathered, Seen
    <3>2. rows'[m] = rev[m]
      BY <2>2, <2>3, <2>5
    <3>3. QED
      BY <1>4, <2>0, <3>1, <3>2 DEF Mirrored, provider
  <2>6. QED
    BY <2>4, <2>5
<1>7. LoneStore'
  BY <1>4, <1>6 DEF LoneStore, provider
<1>8. sync'[Loop] = AtEnd(Loop)
  BY <1>1, <1>2, <1>4, LoopRun DEF AllStopped, Running
<1>9. QED
  BY <1>7, <1>8 DEF LoneRun, AtEnd, IdleRun

LEMMA LoneApplyPage ==
  ASSUME SyncInv, connector # "imap", LoneStore, LoneRun(sync[Loop]), ApplyPage(Loop)
  PROVE  LoneStore' /\ LoneRun(sync[Loop])'
<1> USE VersionsAreNumbers, AskedMailbox
<1>1. PICK run : run = sync[Loop]
  OBVIOUS
<1>2. /\ run \in Run /\ LoneRun(run) /\ RunOK(run) /\ run.step = "apply"
      /\ run.from \in Nat /\ run.upto \in Nat
  BY <1>1, LoopRun, RunFields DEF ApplyPage
<1>3. connector = "graph" /\ GraphRun(run) /\ run.from = cursor
  BY <1>2 DEF RunOK, GmailRun, LoneRun
<1>4. UNCHANGED provider /\ rows' = Stored(run.got, run.gone)
  BY <1>1 DEF ApplyPage
<1>5. \/ /\ run.upto # 0 /\ cursor' = run.upto
         /\ skipped' = (skipped \ StoredNow(run)) \cup PassedOver(run, run.past)
         /\ sync' = [sync EXCEPT ![Loop] = AtEnd(Loop)]
      \/ /\ run.upto = 0
         /\ sync' = [sync EXCEPT ![Loop] = IF GivesUp(run) THEN AtEnd(Loop) ELSE [run EXCEPT !.step = "page"]]
         /\ UNCHANGED <<cursor, skipped>>
  BY <1>1 DEF ApplyPage
<1>6. ASSUME NEW m \in Messages
      PROVE  /\ run.past[m] \in Nat
             /\ run.got[m] # 0 \/ m \in run.gone => run.past[m] # 0
             /\ run.past[m] # 0 => rev[m] > cursor /\ rev[m] >= run.past[m]
             /\ run.past[m] # 0 /\ run.past[m] = rev[m] => Mirrored(m)'
             /\ run.past[m] = 0 /\ Mirrored(m) => Mirrored(m)'
  <2>1. run.past[m] \in Nat
    BY <1>2, RunFields
  <2>2. /\ run.got[m] # 0 => run.got[m] = run.past[m]
        /\ m \in run.gone => run.past[m] # 0
        /\ run.past[m] # 0 => rev[m] > cursor /\ rev[m] >= run.past[m]
        /\ run.past[m] # 0 /\ run.past[m] = rev[m] /\ ~Mirrored(m) => run.got[m] # 0 \/ m \in run.gone
    BY <1>2, <1>3 DEF LoneRun
  <2>3. /\ run.got[m] = rev[m] /\ rev[m] # 0 => Mirrored(m)'
        /\ m \in run.gone => Mirrored(m)'
        /\ run.got[m] = 0 /\ m \notin run.gone => (Mirrored(m)' <=> Mirrored(m))
    BY <1>2, <1>3, <1>4, FreshRow
  <2>4. run.past[m] # 0 /\ run.past[m] = rev[m] => Mirrored(m)'
    BY <2>2, <2>3
  <2>5. run.past[m] = 0 /\ Mirrored(m) => Mirrored(m)'
    BY <2>2, <2>3
  <2>6. QED
    BY <2>1, <2>2, <2>4, <2>5
<1>7. ASSUME NEW m \in Messages, rev[m] \in 1..cursor, m \notin StoredNow(run)
      PROVE  Mirrored(m)' \/ m \in skipped
  <2>1. run.past[m] = 0
    BY <1>2, <1>3, <1>6, <1>7
  <2>2. QED
    BY <1>6, <1>7, <2>1 DEF LoneStore
<1>8. ASSUME NEW m \in Messages, rev[m] # 0, m \in StoredNow(run) PROVE Mirrored(m)'
  <2>1. Brought(run, m) = rev[m]
    BY <1>8 DEF StoredNow
  <2>2. run.got[m] = rev[m] \/ m \in run.gone
    BY <1>8, <2>1 DEF Brought
  <2>3. QED
    BY <1>2, <1>3, <1>4, <1>8, <2>2, FreshRow
<1>9. LoneStore'
  <2> SUFFICES ASSUME NEW m \in Messages, rev[m] \in 1..cursor' PROVE Mirrored(m)' \/ m \in skipped'
    BY <1>4 DEF LoneStore, provider
  <2>0. rev[m] # 0 /\ cursor \in Nat
    BY <1>2, <1>3, <1>5
  <2>1. CASE m \in StoredNow(run)
    BY <1>8, <2>0, <2>1
  <2>2. CASE m \notin StoredNow(run) /\ rev[m] <= cursor
    <3>1. Mirrored(m)' \/ m \in skipped
      BY <1>7, <2>0, <2>2
    <3>2. QED
      BY <1>5, <2>2, <3>1
  <2>3. CASE ~(rev[m] <= cursor)
    <3>1. run.upto # 0 /\ rev[m] \in (run.from + 1)..run.upto
      BY <1>2, <1>3, <1>5, <2>0, <2>3
    <3>2. run.past[m] >= rev[m] \/ (run.from = 0 /\ run.past[m] = 0)
      BY <1>2, <1>3, <3>1 DEF GraphRun
    <3>3. CASE run.past[m] = 0
      <4>1. run.from = 0
        BY <2>0, <3>2, <3>3
      <4>2. m \in PassedOver(run, run.past)
        BY <1>2, <2>0, <3>1, <3>3, <4>1 DEF PassedOver
      <4>3. QED
        BY <1>5, <3>1, <4>2
    <3>4. CASE run.past[m] # 0
      <4>1. run.past[m] = rev[m]
        BY <1>6, <3>2, <3>4
      <4>2. QED
        BY <1>6, <3>4, <4>1
    <3>5. QED
      BY <3>3, <3>4
  <2>4. QED
    BY <2>1, <2>2, <2>3
<1>10. CASE sync' = [sync EXCEPT ![Loop] = AtEnd(Loop)]
  <2>1. sync'[Loop] = AtEnd(Loop)
    BY <1>10, LoopRun DEF SyncTypeOK, SyncInv
  <2>2. QED
    BY <1>9, <2>1 DEF LoneRun, AtEnd, IdleRun
<1>11. CASE run.upto = 0 /\ sync' = [sync EXCEPT ![Loop] = [run EXCEPT !.step = "page"]]
            /\ UNCHANGED <<cursor, skipped>>
  <2>1. PICK r : r = [run EXCEPT !.step = "page"]
    OBVIOUS
  <2>2. /\ sync'[Loop] = r /\ r.step = "page" /\ r.from = run.from /\ r.got = run.got
        /\ r.gone = run.gone /\ r.past = run.past
    BY <1>2, <1>11, <2>1, LoopRun DEF SyncTypeOK, SyncInv, Run
  <2>3. connector' = "graph" /\ rev' = rev /\ cursor' = cursor
    BY <1>3, <1>4, <1>11 DEF provider
  <2>4. \A m \in Messages : r.got[m] # 0 => r.got[m] = rev[m] \/ rev[m] > cursor
    BY <1>2, <2>2 DEF LoneRun
  <2>5. \A m \in Messages : r.past[m] # 0 =>
          /\ rev[m] > cursor /\ rev[m] >= r.past[m]
          /\ r.past[m] = rev[m] => Mirrored(m)'
    BY <1>6, <2>2
  <2>6. LoneRun(r)'
    BY <1>3, <2>2, <2>3, <2>4, <2>5 DEF LoneRun
  <2>7. QED
    BY <1>9, <2>2, <2>6 DEF LoneRun, Mirrored
<1>12. QED
  BY <1>5, <1>10, <1>11

\* A request that was made stays made, and whoever else moves is a request.
LEMMA RequestsStay ==
  ASSUME SyncInv, [SyncNext]_syncVars, ~Requested'
  PROVE  /\ ~Requested
         /\ \A w \in Workers : Progress(w) \/ Hang(w) \/ Fail(w) \/ DieInCommit(w) => w = Loop
<1>1. ASSUME NEW w \in Workers \ {Loop} PROVE sync'[w].step = "idle"
  BY <1>1 DEF Requested
<1>2. ASSUME NEW w \in Workers \ {Loop} PROVE AtEnd(w).step = "over"
  BY <1>2 DEF AtEnd, IdleRun
<1>3. sync \in [Workers -> Run]
  BY DEF SyncInv, SyncTypeOK
<1>4. ASSUME NEW w \in Workers \ {Loop}, Progress(w) \/ Hang(w) \/ Fail(w) \/ DieInCommit(w)
      PROVE  FALSE
  <2>1. PICK run : run = sync[w] /\ run \in Run
    BY <1>3
  <2>2. ASSUME Begin(w) PROVE FALSE
    <3>1. connector \in {"imap", "gmail", "graph"}
      BY MailSyncAssumption DEF SyncInv, SyncTypeOK
    <3>2. sync'[w].step \in {"search", "list", "history", "page"}
      BY <1>3, <2>2, <3>1 DEF Begin, IdleRun
    <3>3. QED
      BY <1>1, <3>2
  <2>3. ASSUME Search(w) \/ List(w) \/ History(w) PROVE FALSE
    <3>1. PICK r : sync' = [sync EXCEPT ![w] = r] /\ r.step \in {"list", "fetch"}
      <4>1. CASE Search(w)
        <5>1. PICK todo : sync' = [sync EXCEPT ![w] = [run EXCEPT !.step = "fetch", !.todo = todo,
                                                                 !.upto = run.from]]
          BY <2>1, <4>1 DEF Search
        <5>2. PICK r : r = [run EXCEPT !.step = "fetch", !.todo = todo, !.upto = run.from]
          OBVIOUS
        <5>3. r.step = "fetch"
          BY <2>1, <5>2 DEF Run
        <5>4. QED
          BY <5>1, <5>2, <5>3
      <4>2. CASE List(w)
        <5>1. PICK todo : sync' = [sync EXCEPT ![w] = [run EXCEPT !.step = "fetch", !.todo = todo]]
          BY <2>1, <4>2 DEF List
        <5>2. PICK r : r = [run EXCEPT !.step = "fetch", !.todo = todo]
          OBVIOUS
        <5>3. r.step = "fetch"
          BY <2>1, <5>2 DEF Run
        <5>4. QED
          BY <5>1, <5>2, <5>3
      <4>3. CASE History(w)
        <5>1. \/ sync' = [sync EXCEPT ![w] = [run EXCEPT !.step = "list", !.full = TRUE]]
              \/ \E todo, gone : sync' = [sync EXCEPT ![w] =
                   [run EXCEPT !.step = "fetch", !.todo = todo, !.gone = gone, !.upto = clock]]
          BY <2>1, <4>3 DEF History, AfterExpiry
        <5>2. CASE sync' = [sync EXCEPT ![w] = [run EXCEPT !.step = "list", !.full = TRUE]]
          <6>1. PICK r : r = [run EXCEPT !.step = "list", !.full = TRUE]
            OBVIOUS
          <6>2. r.step = "list"
            BY <2>1, <6>1 DEF Run
          <6>3. QED
            BY <5>2, <6>1, <6>2
        <5>3. ASSUME NEW todo, NEW gone, sync' = [sync EXCEPT ![w] =
                   [run EXCEPT !.step = "fetch", !.todo = todo, !.gone = gone, !.upto = clock]]
              PROVE  \E r : sync' = [sync EXCEPT ![w] = r] /\ r.step \in {"list", "fetch"}
          <6>1. PICK r : r = [run EXCEPT !.step = "fetch", !.todo = todo, !.gone = gone, !.upto = clock]
            OBVIOUS
          <6>2. r.step = "fetch"
            BY <2>1, <6>1 DEF Run
          <6>3. QED
            BY <5>3, <6>1, <6>2
        <5>4. QED
          BY <5>1, <5>2, <5>3
      <4>4. QED
        BY <2>3, <4>1, <4>2, <4>3
    <3>2. QED
      BY <1>1, <1>3, <3>1
  <2>5. ASSUME Profile(w) PROVE FALSE
    <3>1. sync'[w].step = "fetch"
      BY <1>3, <2>1, <2>5 DEF Profile, Run
    <3>2. QED
      BY <1>1, <3>1
  <2>6. ASSUME NEW m \in Messages, Fetch(w, m) PROVE FALSE
    <3>1. sync'[w].step = "fetch" \/ sync'[w] = AtEnd(w)
      <4>1. \/ sync' = [sync EXCEPT ![w] = AtEnd(w)]
            \/ sync' = [sync EXCEPT ![w] = [run EXCEPT !.todo = run.todo \ {m}, !.got[m] = rev[m],
                                                      !.upto = Reached(run, m)]]
            \/ sync' = [sync EXCEPT ![w] = [run EXCEPT !.todo = run.todo \ {m},
                                                      !.gone = run.gone \cup {m}]]
            \/ sync' = [sync EXCEPT ![w] = [run EXCEPT !.todo = run.todo \ {m}]]
        BY <2>1, <2>6 DEF Fetch
      <4>2. run.step = "fetch"
        BY <2>1, <2>6 DEF Fetch
      <4>3. /\ [run EXCEPT !.todo = run.todo \ {m}, !.got[m] = rev[m],
                         !.upto = Reached(run, m)].step = "fetch"
            /\ [run EXCEPT !.todo = run.todo \ {m}, !.gone = run.gone \cup {m}].step = "fetch"
            /\ [run EXCEPT !.todo = run.todo \ {m}].step = "fetch"
        BY <2>1, <4>2 DEF Run
      <4>4. QED
        BY <1>3, <4>1, <4>3
    <3>2. QED
      BY <1>1, <1>2, <3>1
  <2>7. ASSUME Page(w) PROVE FALSE
    <3>1. PICK r : sync' = [sync EXCEPT ![w] = r] /\ r.step = "apply"
      <4>1. PICK items \in SUBSET Outstanding(sync[w]) :
              sync' = [sync EXCEPT ![w] =
                [sync[w] EXCEPT
                   !.step = "apply",
                   !.got = [m \in Messages |->
                              IF m \in items /\ place[m] = "inbox" THEN rev[m] ELSE 0],
                   !.gone = {m \in items : place[m] # "inbox"},
                   !.past = [m \in Messages |-> IF m \in items THEN rev[m] ELSE sync[w].past[m]],
                   !.upto = IF items = Outstanding(sync[w]) THEN clock ELSE 0,
                   !.pages = sync[w].pages + 1]]
        BY Zenon, <2>7 DEF Page, kSubset
      <4>2. PICK r : r =
                [run EXCEPT
                   !.step = "apply",
                   !.got = [m \in Messages |->
                              IF m \in items /\ place[m] = "inbox" THEN rev[m] ELSE 0],
                   !.gone = {m \in items : place[m] # "inbox"},
                   !.past = [m \in Messages |-> IF m \in items THEN rev[m] ELSE run.past[m]],
                   !.upto = IF items = Outstanding(run) THEN clock ELSE 0,
                   !.pages = run.pages + 1]
        OBVIOUS
      <4>3. r.step = "apply"
        BY <2>1, <4>2 DEF Run
      <4>4. sync' = [sync EXCEPT ![w] = r]
        BY <2>1, <4>1, <4>2
      <4>5. QED
        BY <4>3, <4>4
    <3>2. QED
      BY <1>1, <1>3, <3>1
  <2>8. ASSUME ApplyPage(w) PROVE FALSE
    <3>1. sync'[w].step = "page" \/ sync'[w] = AtEnd(w)
      BY <1>3, <2>1, <2>8 DEF ApplyPage, Run
    <3>2. QED
      BY <1>1, <1>2, <3>1
  <2>9. ASSUME Commit(w) \/ DeltaExpired(w) \/ Fail(w) PROVE FALSE
    <3>1. sync'[w] = AtEnd(w)
      BY <1>3, <2>9 DEF Commit, DeltaExpired, Fail
    <3>2. QED
      BY <1>1, <1>2, <3>1
  <2>10. ASSUME DieInCommit(w) PROVE FALSE
    <3>1. sync'[w] = AtEnd(w)
      BY <2>10 DEF DieInCommit, Complete, AllStopped, Running
    <3>2. QED
      BY <1>1, <1>2, <3>1
  <2>12. ASSUME Hang(w) PROVE FALSE
    <3>1. sync'[w] = Waiting("hung") \/ sync'[w] = Waiting("away")
      BY <1>3, <2>12 DEF Hang
    <3>2. QED
      BY <1>1, <3>1 DEF Waiting, IdleRun
  <2>11. QED
    BY <1>4, <2>2, <2>3, <2>5, <2>6, <2>7, <2>8, <2>9, <2>10, <2>12 DEF Progress
<1>5. ASSUME NEW v \in Workers \ {Loop} PROVE sync[v].step = "idle"
  <2>1. CASE MailboxUsed \/ UNCHANGED syncVars
    <3>1. sync' = sync
      BY <2>1 DEF MailboxUsed, Arrive, Touch, AgentMoves, AgentRemovesRow, Depart, Expire, syncVars
    <3>2. QED
      BY <1>1, <3>1
  <2>2. ASSUME NEW w \in Workers, Progress(w) \/ Hang(w) \/ Fail(w) PROVE sync[v].step = "idle"
    <3>1. w # v
      BY <1>4, <2>2
    <3>2. \E r : sync' = [sync EXCEPT ![w] = r]
      <4>1. CASE Page(w)
        BY <4>1 DEF Page
      <4>2. CASE Begin(w) \/ Search(w) \/ List(w) \/ History(w) \/ Commit(w) \/ ApplyPage(w)
                 \/ DeltaExpired(w) \/ Hang(w) \/ Fail(w) \/ \E m \in Messages : Fetch(w, m)
        BY <4>2 DEF Begin, Search, List, History, Commit, ApplyPage, DeltaExpired, Hang, Fail, Fetch
      <4>3. CASE Profile(w)
        BY <4>3 DEF Profile
      <4>4. QED
        BY <2>2, <4>1, <4>2, <4>3 DEF Progress
    <3>3. sync'[v] = sync[v]
      BY <1>3, <3>1, <3>2
    <3>4. QED
      BY <1>1, <3>3
  <2>3. CASE Die \/ \E w \in Workers : DieInCommit(w)
    <3>1. sync'[v] = IF Running(v) THEN AtEnd(v) ELSE sync[v]
      BY <2>3 DEF Die, DieInCommit, AllStopped
    <3>2. QED
      BY <1>1, <1>2, <3>1
  <2>4. QED
    BY <2>1, <2>2, <2>3 DEF SyncNext
<1>6. QED
  BY <1>4, <1>5 DEF Requested

LEMMA LoneNext ==
  ASSUME SyncInv, LoneInv, [SyncNext]_syncVars, ~Requested'
  PROVE  LoneInv'
<1>0. connector' = connector
  BY DEF SyncNext, MailboxUsed, Arrive, Touch, AgentMoves, AgentRemovesRow, Depart, Expire, Progress,
     Begin, Search, List, History, Profile, Commit, Fetch, Page, ApplyPage, DeltaExpired, Hang, Fail,
     DieInCommit, Die, provider, syncVars
<1> SUFFICES ASSUME connector # "imap", LoneStore, LoneRun(sync[Loop])
             PROVE  LoneStore' /\ LoneRun(sync[Loop])'
  BY <1>0 DEF LoneInv
<1>1. CASE MailboxUsed
  BY <1>1, LoneMailbox
<1>2. ASSUME NEW w \in Workers, Progress(w) \/ Hang(w) \/ Fail(w) \/ DieInCommit(w)
      PROVE  LoneStore' /\ LoneRun(sync[Loop])'
  <2>1. w = Loop
    BY <1>2, RequestsStay
  <2>2. QED
    BY <1>2, <2>1, LoneHang, LoneRequest, LoneFetch, LonePage, LoneApplyPage, LoneCommit,
       LoneDieInCommit
       DEF Progress
<1>3. CASE Die
  <2>1. /\ UNCHANGED <<provider, rows, cursor, history>> /\ sync' = AllStopped
    BY <1>3 DEF Die
  <2>2. LoneStore'
    BY <2>1 DEF LoneStore, Mirrored, provider, history
  <2>3. Loop \in Workers
    BY MailSyncAssumption
  <2>4. sync'[Loop].step \in {"idle", "over"}
    BY <2>1, <2>3 DEF AllStopped, Running, AtEnd, IdleRun
  <2>5. QED
    BY <2>2, <2>4 DEF LoneRun
<1>4. CASE UNCHANGED syncVars
  BY <1>4 DEF syncVars, LoneStore, LoneRun, Mirrored
<1>5. QED
  BY <1>1, <1>2, <1>3, <1>4 DEF SyncNext

LEMMA LoneInit == SyncInit => LoneInv
<1> SUFFICES ASSUME SyncInit PROVE LoneInv
  OBVIOUS
<1>1. cursor = 0 /\ sync[Loop] = IdleRun
  BY MailSyncAssumption DEF SyncInit
<1>2. LoneStore
  BY <1>1, VersionsAreNumbers DEF LoneStore
<1>3. LoneRun(sync[Loop])
  BY <1>1 DEF LoneRun, IdleRun
<1>4. QED
  BY <1>2, <1>3 DEF LoneInv

\* The invariant: until a request to sync now is made, what the cursor passed
\* is stored as the mailbox has it, unless it was skipped.
LoneSyncInv == SyncInv /\ (~Requested => LoneInv)

LEMMA LoneSyncCovers == LoneSyncInv => CursorCovers
<1> SUFFICES ASSUME LoneSyncInv, NEW m \in Messages, Passed(m)
             PROVE  \/ Mirrored(m)
                    \/ connector # "imap" /\ m \in skipped
                    \/ connector # "imap" /\ Requested /\ Raced(m)
  BY DEF CursorCovers
<1>1. SyncInv
  BY DEF LoneSyncInv
<1>2. CASE connector = "imap" \/ Requested
  BY <1>1, <1>2, CursorIsCovered
<1>3. CASE connector # "imap" /\ ~Requested
  BY <1>3 DEF LoneSyncInv, LoneInv, LoneStore, Passed
<1>4. QED
  BY <1>2, <1>3

\* CursorCovers for any number of messages, workers, changes and faults:
\* whatever fails, dies or changes meanwhile, the cursor runs ahead of the rows
\* only where a run from scratch passes something over and, once a request to
\* sync now was made, where a late answer replaces a newer row.
THEOREM CursorNeverLeads == SyncSpec => []CursorCovers
<1>1. SyncInit => LoneSyncInv
  BY SyncInvInit, LoneInit DEF LoneSyncInv
<1>2. LoneSyncInv /\ [SyncNext]_syncVars => LoneSyncInv'
  BY SyncInvNext, LoneNext, RequestsStay DEF LoneSyncInv
<1>3. QED
  BY <1>1, <1>2, LoneSyncCovers, PTL DEF SyncSpec
=============================================================================
