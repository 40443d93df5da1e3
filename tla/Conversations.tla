----------------------------- MODULE Conversations -----------------------------
(***************************************************************************)
(* The state of a conversation between the owner, the agent and the other    *)
(* side (conversation_store.py): who is next, since when, snoozed or not,    *)
(* with which follow-up draft; and the passes that prepare follow-ups         *)
(* (_reconcile_followups of agent_runtime.py).                                *)
(*                                                                          *)
(* Messages of a conversation are numbered as they arrive, its waits         *)
(* (values of waiting_since) as they begin.  Clocks are abstract: `due' and   *)
(* `snoozed' of a row say how due_at and snoozed_until compare with now.      *)
(* A pass awaits the language model once for every draft.                     *)
(***************************************************************************)
EXTENDS Naturals, FiniteSets

CONSTANTS
  Threads,      \* conversations
  Arrivals,     \* bound on the messages of a conversation
  Waits,        \* bound on the waits of a conversation
  FollowUps,    \* ids of follow-up drafts
  Passes,       \* runs of _reconcile_followups under way
  NoDraft       \* NULL

ASSUME ConversationsAssumption ==
  /\ Arrivals \in Nat /\ Waits \in Nat
  /\ NoDraft \notin FollowUps \cup (Threads \X (1..Waits))

VARIABLES
  arrived,      \* number of messages of each conversation in the mail store
  threads,      \* conversation_threads
  waits,        \* number of waits of each conversation so far
  answered,     \* messages whose reply was approved and sent
  followUps,    \* the follow-up drafts
  passes,       \* the waits each pass still has to work off
  about,        \* history: the message a conversation was about when it was snoozed
  shared,       \* history: waits in the hands of two passes, or of one that died
  late,         \* history: waits whose row got the draft of an earlier wait
  replayed      \* history: waits begun by the replay of a reply sent before

conversationVars ==
  <<arrived, threads, waits, answered, followUps, passes, about, shared, late, replayed>>

-----------------------------------------------------------------------------
Message == 1..Arrivals

\* A wait of a conversation.
Wait == Threads \X (1..Waits)

\* last = 0: no row.  wait = 0: waiting_since and due_at are NULL.  fyi stands
\* for actioned, too: nothing here tells the two apart.
Thread ==
  [status: {"to_reply", "awaiting_reply", "fyi"}, last: 0..Arrivals, wait: 0..Waits,
   due: BOOLEAN, snoozed: BOOLEAN, draft: FollowUps \cup {NoDraft}]

NoThread ==
  [status |-> "fyi", last |-> 0, wait |-> 0, due |-> FALSE, snoozed |-> FALSE, draft |-> NoDraft]

ConversationsTypeOK ==
  /\ arrived \in [Threads -> 0..Arrivals]
  /\ threads \in [Threads -> Thread]
  /\ waits \in [Threads -> 0..Waits]
  /\ answered \subseteq Threads \X Message
  /\ followUps \in [FollowUps -> Wait \cup {NoDraft}]
  /\ passes \in [Passes -> SUBSET Wait]
  /\ about \in [Threads -> 0..Arrivals]
  /\ shared \subseteq Wait
  /\ late \subseteq Wait
  /\ replayed \subseteq Wait

ConversationsInit ==
  /\ arrived = [t \in Threads |-> 0]
  /\ threads = [t \in Threads |-> NoThread]
  /\ waits = [t \in Threads |-> 0]
  /\ answered = {}
  /\ followUps = [f \in FollowUps |-> NoDraft]
  /\ passes = [p \in Passes |-> {}]
  /\ about = [t \in Threads |-> 0]
  /\ shared = {}
  /\ late = {}
  /\ replayed = {}

-----------------------------------------------------------------------------
(* What is recorded about a conversation.                                   *)

MessageArrives(t) ==
  /\ arrived[t] < Arrivals
  /\ arrived' = [arrived EXCEPT ![t] = @ + 1]
  /\ UNCHANGED <<threads, waits, answered, followUps, passes, about, shared, late, replayed>>

\* Not another message and not another status.
SameStatus(row, m, status) == row.status = status

SameState(row, m, status) == row.status = status /\ row.last = m

\* The row of a wait that begins now.
NewWait(t, m, status) ==
  [status |-> status, last |-> m, wait |-> waits[t] + 1, due |-> FALSE,
   snoozed |-> FALSE, draft |-> NoDraft]

\* record_analysis: the agent has analysed a message, the newest or, as it works
\* backwards and on request, an older one again.
RecordAnalysis(t, m, status) ==
  LET row == threads[t] IN
  /\ m <= arrived[t]
  /\ \/ /\ SameState(row, m, status)
        /\ threads' = [threads EXCEPT ![t].last = m,
                         ![t].draft = IF status = "awaiting_reply" THEN row.draft ELSE NoDraft]
        /\ UNCHANGED waits
     \/ /\ ~SameState(row, m, status)
        /\ status = "fyi"
        /\ threads' = [threads EXCEPT ![t] = [NoThread EXCEPT !.last = m]]
        /\ UNCHANGED waits
     \/ /\ ~SameState(row, m, status)
        /\ status # "fyi"
        /\ waits[t] < Waits
        /\ threads' = [threads EXCEPT ![t] = NewWait(t, m, status)]
        /\ waits' = [waits EXCEPT ![t] = @ + 1]
  /\ UNCHANGED <<arrived, answered, followUps, passes, about, shared, late, replayed>>

\* The reply to a message is recorded; nothing to do if it was before.
ReplyRecorded(t, m) == SameState(threads[t], m, "awaiting_reply")

\* mark_outbound_sent, when an approved reply was sent ...
ReplySent(t, m) ==
  /\ m <= arrived[t]
  /\ answered' = answered \cup {<<t, m>>}
  /\ \/ ReplyRecorded(t, m) /\ UNCHANGED <<threads, waits, replayed>>
     \/ /\ ~ReplyRecorded(t, m)
        /\ waits[t] < Waits
        /\ threads' = [threads EXCEPT ![t] = NewWait(t, m, "awaiting_reply")]
        /\ waits' = [waits EXCEPT ![t] = @ + 1]
        /\ replayed' = IF <<t, m>> \in answered THEN replayed \cup {<<t, waits'[t]>>} ELSE replayed
  /\ UNCHANGED <<arrived, followUps, passes, about, shared, late>>

\* ... and nothing more when the process dies before it, or the owner says it
\* was sent (reconcile_uncertain).
ReplySentUnrecorded(t, m) ==
  /\ m <= arrived[t]
  /\ answered' = answered \cup {<<t, m>>}
  /\ UNCHANGED <<arrived, threads, waits, followUps, passes, about, shared, late, replayed>>

Snooze(t) ==
  /\ threads[t].last # 0
  /\ threads' = [threads EXCEPT ![t].snoozed = TRUE]
  /\ about' = [about EXCEPT ![t] = threads[t].last]
  /\ UNCHANGED <<arrived, waits, answered, followUps, passes, shared, late, replayed>>

\* The owner takes the snooze back, or its time has come.
SnoozeEnds(t) ==
  /\ threads[t].snoozed
  /\ threads' = [threads EXCEPT ![t].snoozed = FALSE]
  /\ UNCHANGED <<arrived, waits, answered, followUps, passes, about, shared, late, replayed>>

DeadlinePasses(t) ==
  /\ threads[t].wait # 0
  /\ ~threads[t].due
  /\ threads' = [threads EXCEPT ![t].due = TRUE]
  /\ UNCHANGED <<arrived, waits, answered, followUps, passes, about, shared, late, replayed>>

-----------------------------------------------------------------------------
(* _reconcile_followups.                                                    *)

DraftedOrNot(row) == TRUE

Undrafted(row) == row.draft = NoDraft

\* due_followups and the loop's test on the rows it returned.
DueWaits ==
  {<<t, threads[t].wait>> : t \in {t \in Threads :
     /\ threads[t].due
     /\ ~threads[t].snoozed
     /\ threads[t].status = "awaiting_reply"
     /\ Undrafted(threads[t])}}

\* The rows are read once.
PassBegin(p) ==
  /\ passes[p] = {}
  /\ DueWaits # {}
  /\ passes' = [passes EXCEPT ![p] = DueWaits]
  /\ shared' = shared \cup (DueWaits \cap UNION {passes[q] : q \in Passes})
  /\ UNCHANGED <<arrived, threads, waits, answered, followUps, about, late, replayed>>

\* The text has come: the draft is stored and the row, whatever it is now,
\* gets its id.
DraftFollowUp(p, w, f) ==
  LET t == w[1] IN
  /\ w \in passes[p]
  /\ followUps[f] = NoDraft
  /\ followUps' = [followUps EXCEPT ![f] = w]
  /\ threads' = [threads EXCEPT ![t].draft = f]
  /\ passes' = [passes EXCEPT ![p] = @ \ {w}]
  /\ late' = IF threads[t].wait # w[2] /\ threads[t].wait # 0
             THEN late \cup {<<t, threads[t].wait>>} ELSE late
  /\ UNCHANGED <<arrived, waits, answered, about, shared, replayed>>

\* No message, no provider, or the model's answer cannot be used.
FollowUpFails(p, w) ==
  /\ w \in passes[p]
  /\ passes' = [passes EXCEPT ![p] = @ \ {w}]
  /\ UNCHANGED <<arrived, threads, waits, answered, followUps, about, shared, late, replayed>>

PassesDie ==
  /\ passes' = [p \in Passes |-> {}]
  /\ UNCHANGED <<arrived, threads, waits, answered, followUps, about, shared, late, replayed>>

\* The draft is stored and the row has not got its id.
DieInFollowUp(p, w, f) ==
  /\ w \in passes[p]
  /\ followUps[f] = NoDraft
  /\ followUps' = [followUps EXCEPT ![f] = w]
  /\ passes' = [q \in Passes |-> {}]
  /\ shared' = shared \cup {w}
  /\ UNCHANGED <<arrived, threads, waits, answered, about, late, replayed>>

-----------------------------------------------------------------------------
ThreadStep(t) ==
  \/ MessageArrives(t) \/ Snooze(t) \/ SnoozeEnds(t) \/ DeadlinePasses(t)
  \/ \E m \in Message, s \in {"to_reply", "awaiting_reply", "fyi"} : RecordAnalysis(t, m, s)
  \/ \E m \in Message : ReplySent(t, m) \/ ReplySentUnrecorded(t, m)

PassStep(p) ==
  \/ PassBegin(p)
  \/ \E w \in passes[p] : FollowUpFails(p, w)
  \/ \E w \in passes[p], f \in FollowUps : DraftFollowUp(p, w, f) \/ DieInFollowUp(p, w, f)

ConversationsNext ==
  \/ \E t \in Threads : ThreadStep(t)
  \/ \E p \in Passes : PassStep(p)
  \/ PassesDie

ConversationsSpec == ConversationsInit /\ [][ConversationsNext]_conversationVars

-----------------------------------------------------------------------------
DraftsFor(w) == {f \in FollowUps : followUps[f] = w}

\* A wait gets one follow-up, however many passes find it due, unless two had
\* its row in hand at once or the process died between draft and row
\* (agent_runtime.py _reconcile_followups).
OneFollowUpPerWait ==
  \A w \in Wait : Cardinality(DraftsFor(w)) > 1 => w \in shared

\* "A new incoming message is new work: an old snooze or follow-up draft must
\* never hide it" (conversation_store.py record_analysis), unless the draft came
\* late, into a row that had begun another wait.
NewMailIsNotHidden ==
  \A t \in Threads :
    LET row == threads[t] IN
    /\ row.snoozed => row.last = about[t]
    /\ (row.status = "awaiting_reply" /\ row.draft # NoDraft) =>
         followUps[row.draft] = <<t, row.wait>> \/ <<t, row.wait>> \in late

\* "Replaying an already-sent approval must not restart the waiting clock and
\* silently postpone its follow-up deadline" (conversation_store.py
\* mark_outbound_sent).
ReplayKeepsClock == replayed = {}
=============================================================================
