------------------------------ MODULE MCAssistant ------------------------------
(***************************************************************************)
(* An instance for TLC of six parts of the gateway that share no state:      *)
(* settings and accounts, what is learnt about the owner, appointments by     *)
(* mail, conversations, undo, and the decision about one mail.  A behaviour   *)
(* is one of the part `part' names, the other parts rest in one initial       *)
(* state; so the reachable states are those of the six instances, one after   *)
(* another, and each property speaks of its own part.                         *)
(***************************************************************************)
EXTENDS Accounts, OwnerLearning, CalendarAutonomy, Conversations, Undo, MailDecision, TLC

VARIABLE part   \* the part a behaviour is about

Parts6 == {"accounts", "learning", "appointments", "conversations", "undo", "decision"}

\* Every mode; whether the owner is at work matters most in Autonomous mode.
SomeOwners ==
  [autonomy: {"observer", "assistant", "copilot"}, work: {FALSE}]
  \cup [autonomy: {"autonomous"}, work: BOOLEAN]

\* The rule for a sender, its category, and the handling of bulk and cold mail.
Setting(r, c, h) ==
  [rule |-> r, category |-> c, handling |-> h, drafts |-> r # "normal" \/ c = "none"]

SomeBehaviors ==
  {Setting("normal", "none", "move"), Setting("ignore", "none", "none"),
   Setting("normal", "bulk", "mark_read"), Setting("draft_only", "none", "move"),
   Setting("analyze_only", "bulk", "move")}

\* Requests, coroutines, passes and undoers are the same model values, and so
\* are sessions, proposals, follow-ups and tokens; the times are alike.
Alike == Permutations(Requests) \cup Permutations(Sessions) \cup Permutations(Times)

-----------------------------------------------------------------------------
\* A part that rests does so in one of its initial states.
RestsIn(p, state) == part = p \/ state

Init ==
  /\ part \in Parts6
  /\ AccountsInit /\ LearningInit /\ AutonomyInit /\ ConversationsInit /\ UndoInit /\ DecisionInit
  /\ RestsIn("appointments", appointment = [m \in Mails |-> Nothing])
  /\ RestsIn("undo", \A k \in Tokens : tokens[k].letter = CHOOSE m \in Letters : TRUE)
  /\ RestsIn("decision", /\ owner = CHOOSE o \in Owners : TRUE
                         /\ behavior = CHOOSE b \in Behaviors : TRUE
                         /\ routing = "automatic"
                         /\ task = "mail")

AccountsPart ==
  /\ part = "accounts" /\ AccountsNext
  /\ UNCHANGED <<part, learningVars, autonomyVars, conversationVars, undoVars, decisionVars>>

LearningPart ==
  /\ part = "learning" /\ LearningNext
  /\ UNCHANGED <<part, accountVars, autonomyVars, conversationVars, undoVars, decisionVars>>

\* Bound: the appointments have two proposals, or one and any drafts.
Few ==
  \/ Cardinality({a \in Proposals : proposals[a].status # "absent"}) <= 1
  \/ \A d \in Drafts : replies[d].status = "absent"

AppointmentsPart ==
  /\ part = "appointments" /\ AutonomyNext /\ Few'
  /\ UNCHANGED <<part, accountVars, learningVars, conversationVars, undoVars, decisionVars>>

ConversationsPart ==
  /\ part = "conversations" /\ ConversationsNext
  /\ UNCHANGED <<part, accountVars, learningVars, autonomyVars, undoVars, decisionVars>>

UndoPart ==
  /\ part = "undo" /\ UndoNext
  /\ UNCHANGED <<part, accountVars, learningVars, autonomyVars, conversationVars, decisionVars>>

DecisionPart ==
  /\ part = "decision" /\ DecisionNext
  /\ UNCHANGED <<part, accountVars, learningVars, autonomyVars, conversationVars, undoVars>>

Next ==
  AccountsPart \/ LearningPart \/ AppointmentsPart \/ ConversationsPart \/ UndoPart \/ DecisionPart

vars ==
  <<part, accountVars, learningVars, autonomyVars, conversationVars, undoVars, decisionVars>>

Spec == Init /\ [][Next]_vars

-----------------------------------------------------------------------------
\* The part at work is well typed.
AssistantTypeOK ==
  /\ part = "accounts" => AccountsTypeOK
  /\ part = "learning" => LearningTypeOK
  /\ part = "appointments" => AutonomyTypeOK
  /\ part = "conversations" => ConversationsTypeOK
  /\ part = "undo" => UndoTypeOK
  /\ part = "decision" => DecisionTypeOK
=============================================================================
