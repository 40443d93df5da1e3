---------------------------------- MODULE Undo ----------------------------------
(***************************************************************************)
(* Undoing what the agent did to a mail by itself, within a window of a few  *)
(* seconds (undo_service.py, create_undo to complete_undo of                 *)
(* conversation_store.py, execute_direct and create_undo in agent_runtime.py). *)
(*                                                                          *)
(* A request reads the token, awaits the mail provider and only then          *)
(* consumes the token.  The provider may carry a request out although no      *)
(* answer comes.  `expired' of a token says that its window is over, whether  *)
(* or not list_available_undo has written it into the row.                    *)
(***************************************************************************)
EXTENDS Naturals

CONSTANTS
  Letters,      \* mails
  Stable,       \* those at Gmail or Graph, whose ids survive a move
  Tokens,       \* undo tokens
  Undoers,      \* undo requests under way
  NoToken       \* no request

ASSUME UndoAssumption == Stable \subseteq Letters /\ NoToken \notin Tokens

VARIABLES
  remote,       \* place and read flag of each mail at the provider
  seen,         \* read flag in the mail store
  tokens,       \* undo_actions
  undoing,      \* the token each request works on
  reverts,      \* history: how often the provider reverted the action of a token
  answers,      \* history: tokens the owner was told were undone
  doubtful      \* history: tokens two requests had in hand, or whose revert was in doubt

undoVars == <<remote, seen, tokens, undoing, reverts, answers, doubtful>>

-----------------------------------------------------------------------------
Remote == [place: {"inbox", "archive"}, read: BOOLEAN]

Token ==
  [status: {"absent", "available", "completed"}, expired: BOOLEAN,
   action: {"mark_read", "archive"}, letter: Letters]

UndoTypeOK ==
  /\ remote \in [Letters -> Remote]
  /\ seen \in [Letters -> BOOLEAN]
  /\ tokens \in [Tokens -> Token]
  /\ undoing \in [Undoers -> Tokens \cup {NoToken}]
  /\ reverts \in [Tokens -> 0..2]
  /\ answers \subseteq Tokens
  /\ doubtful \subseteq Tokens

UndoInit ==
  /\ remote = [m \in Letters |-> [place |-> "inbox", read |-> FALSE]]
  /\ seen = [m \in Letters |-> FALSE]
  /\ \E m \in Letters : tokens = [k \in Tokens |->
       [status |-> "absent", expired |-> FALSE, action |-> "mark_read", letter |-> m]]
  /\ undoing = [u \in Undoers |-> NoToken]
  /\ reverts = [k \in Tokens |-> 0]
  /\ answers = {}
  /\ doubtful = {}

-----------------------------------------------------------------------------
After(r, action) ==
  IF action = "mark_read" THEN [r EXCEPT !.read = TRUE] ELSE [r EXCEPT !.place = "archive"]

Before(r, action) ==
  IF action = "mark_read" THEN [r EXCEPT !.read = FALSE] ELSE [r EXCEPT !.place = "inbox"]

\* MARK_READ can be undone everywhere, ARCHIVE only where ids are stable.
UndoOffered(m, action) == action = "mark_read" \/ m \in Stable

\* The agent acts on a mail of the inbox without approval and leaves a token.
AgentActs(m, action, k) ==
  /\ remote[m].place = "inbox"
  /\ remote' = [remote EXCEPT ![m] = After(@, action)]
  /\ seen' = [seen EXCEPT ![m] = @ \/ action = "mark_read"]
  /\ \/ /\ UndoOffered(m, action)
        /\ tokens[k].status = "absent"
        /\ tokens' = [tokens EXCEPT ![k] =
             [status |-> "available", expired |-> FALSE, action |-> action, letter |-> m]]
     \/ ~UndoOffered(m, action) /\ UNCHANGED tokens
  /\ UNCHANGED <<undoing, reverts, answers, doubtful>>

WindowEnds(k) ==
  /\ tokens[k].status = "available"
  /\ ~tokens[k].expired
  /\ tokens' = [tokens EXCEPT ![k].expired = TRUE]
  /\ UNCHANGED <<remote, seen, undoing, reverts, answers, doubtful>>

UndoableOnceCompleted(k) == tokens[k].status # "absent" /\ ~tokens[k].expired

\* get_undo and the two tests on its answer.
Undoable(k) == tokens[k].status = "available" /\ ~tokens[k].expired

UndoBegin(u, k) ==
  /\ undoing[u] = NoToken
  /\ Undoable(k)
  /\ undoing' = [undoing EXCEPT ![u] = k]
  /\ doubtful' = IF \E v \in Undoers : undoing[v] = k THEN doubtful \cup {k} ELSE doubtful
  /\ UNCHANGED <<remote, seen, tokens, reverts, answers>>

\* The provider takes the action back; 2 in `reverts' stands for more.
Reverted(k) ==
  /\ reverts' = [reverts EXCEPT ![k] = IF @ = 0 THEN 1 ELSE 2]
  /\ remote' = [remote EXCEPT ![tokens[k].letter] = Before(@, tokens[k].action)]

\* The answer has come: the row of the mail follows, the token is consumed
\* unless it was written as expired meanwhile.
UndoSucceeds(u) ==
  LET k == undoing[u] IN
  /\ k # NoToken
  /\ Reverted(k)
  /\ seen' = [seen EXCEPT ![tokens[k].letter] = @ /\ tokens[k].action # "mark_read"]
  /\ tokens' = [tokens EXCEPT ![k].status = IF tokens[k].expired THEN @ ELSE "completed"]
  /\ answers' = answers \cup {k}
  /\ undoing' = [undoing EXCEPT ![u] = NoToken]
  /\ UNCHANGED doubtful

\* The request fails, or its answer is lost.
UndoFails(u) ==
  LET k == undoing[u] IN
  /\ k # NoToken
  /\ \/ UNCHANGED <<remote, reverts, doubtful>>
     \/ Reverted(k) /\ doubtful' = doubtful \cup {k}
  /\ undoing' = [undoing EXCEPT ![u] = NoToken]
  /\ UNCHANGED <<seen, tokens, answers>>

\* The process dies, before or after the provider has done its part.
UndoDies(u) ==
  LET k == undoing[u] IN
  /\ k # NoToken
  /\ \/ UNCHANGED <<remote, reverts, doubtful>>
     \/ Reverted(k) /\ doubtful' = doubtful \cup {k}
  /\ undoing' = [v \in Undoers |-> NoToken]
  /\ UNCHANGED <<seen, tokens, answers>>

\* The owner works on the mail in another client; a sync brings the flag.
OwnerMoves(m, r) ==
  /\ remote' = [remote EXCEPT ![m] = r]
  /\ UNCHANGED <<seen, tokens, undoing, reverts, answers, doubtful>>

FlagSynced(m) ==
  /\ seen[m] # remote[m].read
  /\ seen' = [seen EXCEPT ![m] = remote[m].read]
  /\ UNCHANGED <<remote, tokens, undoing, reverts, answers, doubtful>>

UndoNext ==
  \/ \E m \in Letters, action \in {"mark_read", "archive"}, k \in Tokens : AgentActs(m, action, k)
  \/ \E k \in Tokens : WindowEnds(k)
  \/ \E u \in Undoers : UndoSucceeds(u) \/ UndoFails(u) \/ UndoDies(u)
  \/ \E u \in Undoers, k \in Tokens : UndoBegin(u, k)
  \/ \E m \in Letters, r \in Remote : OwnerMoves(m, r)
  \/ \E m \in Letters : FlagSynced(m)

UndoSpec == UndoInit /\ [][UndoNext]_undoVars

-----------------------------------------------------------------------------
\* The owner is told of an undo only if the provider made it, and makes it once
\* per token, unless two requests had the token in hand or its answer was lost
\* (undo_service.py undo): a second undo would take back what the owner did to
\* the mail since.
UndoneOnce ==
  \A k \in Tokens :
    /\ k \in answers => reverts[k] > 0
    /\ reverts[k] > 1 => k \in doubtful
=============================================================================
