----------------------------- MODULE WorkLedger -----------------------------
(***************************************************************************)
(* What the work queue promises about each message, with no table, no cycle *)
(* and no clock in sight: an open message is claimed by one worker, who      *)
(* makes at most one thing for it and then settles it for good, or gives it  *)
(* back with nothing made.  Workers that stop, one by an exception or all    *)
(* with the process, open what they had claimed.  A message lapses, and      *)
(* nothing more is promised about it, when its claim is taken from a worker  *)
(* that is only slow, or when what was made for it is not put on record.     *)
(* AgentQueue implements it.                                                 *)
(***************************************************************************)
EXTENDS Naturals

CONSTANTS
  Messages,     \* what there is to work on
  Workers       \* who works on it

VARIABLES
  state,        \* "open", "claimed", "settled" or "lapsed"
  holders,      \* the workers whose claim a message is
  made          \* how many things were made for it

ledger == <<state, holders, made>>

LedgerInit ==
  /\ state = [m \in Messages |-> "open"]
  /\ holders = [m \in Messages |-> {}]
  /\ made = [m \in Messages |-> 0]

In(s) == {m \in Messages : state[m] = s}

Claims(w) == {m \in Messages : w \in holders[m]}

\* The messages of S come into state s with no one working on them.
Leave(S, s) ==
  /\ state' = [m \in Messages |-> IF m \in S THEN s ELSE state[m]]
  /\ holders' = [m \in Messages |-> IF m \in S THEN {} ELSE holders[m]]

\* A worker without claims claims open messages; other claims lapse.
Claim(w, batch, slow) ==
  /\ Claims(w) = {}
  /\ batch \subseteq In("open") /\ slow \subseteq In("claimed")
  /\ state' = [m \in Messages |-> IF m \in slow THEN "lapsed"
                                  ELSE IF m \in batch THEN "claimed" ELSE state[m]]
  /\ holders' = [m \in Messages |-> IF m \in slow THEN {}
                                    ELSE IF m \in batch THEN {w} ELSE holders[m]]
  /\ made' = [m \in Messages |-> IF m \in slow THEN 0 ELSE made[m]]

\* The first and only thing is made for a message.
Make(w, m) ==
  /\ m \in Claims(w)
  /\ made[m] = 0
  /\ made' = [made EXCEPT ![m] = 1]
  /\ UNCHANGED <<state, holders>>

\* Something is made, or was, and will not be on record.
InVain(w, S) ==
  /\ S \subseteq Claims(w)
  /\ Leave(S, "lapsed")
  /\ made' = [m \in Messages |-> IF m \in S THEN 0 ELSE made[m]]

Settle(w, S) ==
  /\ S \subseteq Claims(w)
  /\ Leave(S, "settled")
  /\ UNCHANGED made

GiveBack(w, S) ==
  /\ S \subseteq Claims(w)
  /\ \A m \in S : made[m] = 0
  /\ Leave(S, "open")
  /\ UNCHANGED made

\* The workers of W stop where they are, with some of their claims settled; what
\* they made for the others is not on record.
Stop(W, done) ==
  LET left == (UNION {Claims(w) : w \in W}) \ done IN
  /\ done \subseteq UNION {Claims(w) : w \in W}
  /\ state' = [m \in Messages |-> IF m \in done THEN "settled"
                                  ELSE IF m \notin left THEN state[m]
                                  ELSE IF made[m] > 0 THEN "lapsed" ELSE "open"]
  /\ holders' = [m \in Messages |-> IF m \in left \cup done THEN {} ELSE holders[m]]
  /\ made' = [m \in Messages |-> IF m \in left THEN 0 ELSE made[m]]

LedgerNext ==
  \/ \E w \in Workers, batch, slow \in SUBSET Messages : Claim(w, batch, slow)
  \/ \E w \in Workers, m \in Messages : Make(w, m)
  \/ \E w \in Workers, S \in SUBSET Messages : InVain(w, S) \/ Settle(w, S) \/ GiveBack(w, S)
  \/ \E W \in SUBSET Workers, done \in SUBSET Messages : Stop(W, done)

LedgerSpec == LedgerInit /\ [][LedgerNext]_ledger
=============================================================================
