------------------------------ MODULE MailDecision ------------------------------
(***************************************************************************)
(* How one mail, or one conversation that waits for an answer, becomes an    *)
(* action: the deterministic classification, the triage and the routed        *)
(* analysis with its fallback (adaptive_intelligence.py,                      *)
(* release_audit_fixes.py), the owner's rules (behavior.py), the policy        *)
(* engine (policy.py) and the artifacts analyze_message makes of it            *)
(* (agent_runtime.py).                                                        *)
(*                                                                          *)
(* The owner may change settings whenever a model is awaited.  What the       *)
(* policy does not tell apart is one action: read stands for READ, SUMMARIZE  *)
(* and CLASSIFY, send for SEND_REPLY and FORWARD, move for MOVE and ARCHIVE.   *)
(* A category is bulk (newsletter, advertising), cold (outreach), safe         *)
(* (notification) or other.                                                   *)
(***************************************************************************)
EXTENDS Naturals

CONSTANTS
  Behaviors,    \* the behaviour settings the owner switches between
  Owners        \* the profiles the owner may have

VARIABLES
  owner,        \* the owner's autonomy mode and usage type
  behavior,     \* the behaviour settings in state.json
  routing,      \* model_routing: expert mode, with an endpoint for the role
  task,         \* a mail, or the follow-up of a conversation
  held,         \* the settings analyze_message read
  reread,       \* the settings the agent read when it began, or began again
  experting,    \* expert_configured: what the agent found when it began
  forced,       \* _FORCED_PRIMARY_ROLES holds the role
  by,           \* the route of the call under way
  stage,        \* where the work is
  proposal,     \* the MailActionProposal
  artifacts,    \* what was made of it
  failedPrimary,\* history: the configured model itself failed
  switched      \* history: the routing was changed during the work

decisionVars == <<owner, behavior, routing, task, held, reread, experting, forced, by,
                  stage, proposal, artifacts, failedPrimary, switched>>

-----------------------------------------------------------------------------
Action == {"read", "create_draft", "mark_read", "send", "move", "delete"}

Outbound == {"create_draft", "send"}

Category == {"bulk", "cold", "safe", "other"}

\* rule: that of the sender, a confirmed sender pattern included; no rule is
\* normal without a category, never_auto_act is analyze_only.  handling: of bulk
\* and cold mail.
Behavior ==
  [rule: {"normal", "draft_only", "analyze_only", "ignore"},
   category: Category \cup {"none"}, handling: {"none", "mark_read", "move"}, drafts: BOOLEAN]

Owner == [autonomy: {"observer", "assistant", "copilot", "autonomous"}, work: BOOLEAN]

ASSUME DecisionAssumption == Behaviors \subseteq Behavior /\ Owners \subseteq Owner

MailProposal ==
  [action: Action, category: Category, sure: BOOLEAN, signed: BOOLEAN]

NoProposal == [action |-> "read", category |-> "other", sure |-> FALSE, signed |-> FALSE]

DecisionTypeOK ==
  /\ owner \in Owners
  /\ behavior \in Behaviors
  /\ routing \in {"automatic", "expert"}
  /\ task \in {"mail", "follow_up"}
  /\ held \in Behaviors
  /\ reread \in Behaviors
  /\ experting \in BOOLEAN
  /\ forced \in BOOLEAN
  /\ by \in {"none", "expert", "primary"}
  /\ stage \in {"queued", "taken", "triage", "route", "call", "proposed", "done", "failed"}
  /\ proposal \in MailProposal
  /\ artifacts \subseteq {"approval", "execution", "draft"}
  /\ failedPrimary \in BOOLEAN
  /\ switched \in BOOLEAN

DecisionInit ==
  /\ owner \in Owners
  /\ behavior \in Behaviors
  /\ routing \in {"automatic", "expert"}
  /\ task \in {"mail", "follow_up"}
  /\ held = behavior
  /\ reread = behavior
  /\ experting = FALSE
  /\ forced = FALSE
  /\ by = "none"
  /\ stage = "queued"
  /\ proposal = NoProposal
  /\ artifacts = {}
  /\ failedPrimary = FALSE
  /\ switched = FALSE

settings == <<owner, behavior, routing, switched>>

-----------------------------------------------------------------------------
(* What needs no model.                                                     *)

\* _category_action and _to_action.
Handled(category, b) ==
  IF category \in {"bulk", "cold"} /\ b.handling # "none" THEN b.handling ELSE "read"

Surely(action, category) ==
  [action |-> action, category |-> category, sure |-> TRUE, signed |-> FALSE]

\* What the classifier knows without a model: by a rule whose pattern is the
\* sender's address, by a confirmed sender pattern, or by the headers.
Preclassified(b) ==
  {Surely(Handled(c, b), c) : c \in {"bulk", "cold", "safe"}}
  \cup IF b.rule = "analyze_only" THEN {Surely("read", c) : c \in {b.category} \ {"none", "other"}}
       ELSE {}

\* AdaptiveMailAgent.analyze begins, at once or again after an expert failed.
Classify ==
  /\ reread' = behavior
  /\ \/ /\ proposal' \in Preclassified(behavior)
        /\ stage' = "proposed"
     \/ /\ stage' = "triage"
        /\ UNCHANGED proposal

\* run_mailbox leaves out the mail of a sender to be ignored, by the settings
\* it read when its cycle began ...
Ignore ==
  /\ stage = "queued" /\ task = "mail"
  /\ behavior.rule = "ignore"
  /\ stage' = "done"
  /\ UNCHANGED <<settings, task, held, reread, experting, forced, by, proposal, artifacts, failedPrimary>>

Take ==
  /\ stage = "queued" /\ task = "mail"
  /\ behavior.rule # "ignore"
  /\ stage' = "taken"
  /\ UNCHANGED <<settings, task, held, reread, experting, forced, by, proposal, artifacts, failedPrimary>>

\* ... and has any other analysed, by the settings of the moment.
Analyze ==
  /\ stage = "taken"
  /\ held' = behavior
  /\ experting' = (routing = "expert")
  /\ Classify
  /\ UNCHANGED <<settings, task, forced, by, artifacts, failedPrimary>>

BeginFollowUp ==
  /\ stage = "queued" /\ task = "follow_up"
  /\ experting' = (routing = "expert")
  /\ stage' = "route"
  /\ UNCHANGED <<settings, task, held, reread, forced, by, proposal, artifacts, failedPrimary>>

-----------------------------------------------------------------------------
(* The models.                                                              *)

\* A triage model answers surely, without a reply needed, in a category it may
\* decide; anything else, an error included, is left to the full analysis.
TriageDecides ==
  /\ stage = "triage"
  /\ \E c \in {"bulk", "cold", "safe"} :
       proposal' = Surely(Handled(c, reread), c)
  /\ stage' = "proposed"
  /\ UNCHANGED <<settings, task, held, reread, experting, forced, by, artifacts, failedPrimary>>

TriageLeaves ==
  /\ stage = "triage"
  /\ stage' = "route"
  /\ UNCHANGED <<settings, task, held, reread, experting, forced, by, proposal, artifacts, failedPrimary>>

\* ReleaseModelRouter.route: the expert's endpoint if it answers now.
Route ==
  /\ stage = "route"
  /\ \/ by' = "expert" /\ ~forced /\ routing = "expert"
     \/ by' = "primary"
  /\ stage' = "call"
  /\ UNCHANGED <<settings, task, held, reread, experting, forced, proposal, artifacts, failedPrimary>>

\* The answer is a proposal; an outgoing one has a text and is signed.
ModelAnswers ==
  /\ stage = "call"
  /\ \E a \in IF task = "mail" THEN Action ELSE {"create_draft"}, c \in Category, sure \in BOOLEAN :
       proposal' = [action |-> a, category |-> c, sure |-> sure, signed |-> a \in Outbound]
  /\ stage' = "proposed"
  /\ UNCHANGED <<settings, task, held, reread, experting, forced, by, artifacts, failedPrimary>>

RetriedForMail == experting /\ ~forced /\ task = "mail"

\* The agent tries once more, without the expert, if one was configured.
Retried == experting /\ ~forced

ModelFails ==
  /\ stage = "call"
  /\ failedPrimary' = (failedPrimary \/ by = "primary")
  /\ \/ /\ Retried
        /\ forced' = TRUE
        /\ IF task = "mail" THEN Classify
           ELSE stage' = "route" /\ UNCHANGED <<reread, proposal>>
     \/ /\ ~Retried
        /\ stage' = "failed"
        /\ UNCHANGED <<forced, reread, proposal>>
  /\ UNCHANGED <<settings, task, held, experting, by, artifacts>>

-----------------------------------------------------------------------------
(* Rules, policy and artifacts.                                             *)

\* PolicyEngine.evaluate.
Allowed(action, signed) ==
  \/ action = "read"
  \/ /\ owner.autonomy # "observer"
     /\ action \in Outbound => signed
     /\ action \in {"move", "delete"} => owner.autonomy # "assistant"

RequiresApproval(action) ==
  \/ action \in {"send", "delete"}
  \/ action = "move" /\ IF owner.work THEN owner.autonomy # "autonomous"
                                        ELSE owner.autonomy = "copilot"

\* apply_rule_overrides and the guard for senders already in touch (known).
CategoryOf(known) ==
  LET c == IF held.category = "none" THEN proposal.category ELSE held.category
  IN IF c = "cold" /\ known THEN "other" ELSE c

\* The owner's handling of a category and the draft-only rule change the action.
FinalAction(known) ==
  LET c == CategoryOf(known)
      a == IF held.rule = "normal" /\ c \in {"bulk", "cold"} /\ held.handling # "none"
           THEN held.handling ELSE proposal.action
  IN IF held.rule = "draft_only" /\ a = "send" THEN "create_draft" ELSE a

\* The policy's answer on what the model proposed, not on what is done.
JudgedAsProposed(action) == proposal.action

\* The policy is asked again whenever the action was changed.
Judged(action) == action

\* The steps of analyze_message after the proposal.
Decide(known) ==
  LET action == FinalAction(known)
      judged == Judged(action)
      permitted == /\ held.rule \notin {"analyze_only", "ignore"}
                   /\ proposal.sure
                   /\ Allowed(judged, proposal.signed) IN
  /\ stage = "proposed" /\ task = "mail"
  /\ proposal' = [proposal EXCEPT !.action = action, !.category = CategoryOf(known)]
  /\ artifacts' =
       IF ~permitted THEN {}
       ELSE (IF RequiresApproval(judged) THEN {"approval"}
             ELSE IF action \in {"mark_read", "move"} THEN {"execution"} ELSE {})
            \cup (IF held.drafts /\ action \in Outbound THEN {"draft"} ELSE {})
  /\ stage' = "done"
  /\ UNCHANGED <<settings, task, held, reread, experting, forced, by, failedPrimary>>

\* _reconcile_followups stores the draft; the policy is not asked.
StoreFollowUp ==
  /\ stage = "proposed" /\ task = "follow_up"
  /\ artifacts' = {"draft"}
  /\ stage' = "done"
  /\ UNCHANGED <<settings, task, held, reread, experting, forced, by, proposal, failedPrimary>>

\* The owner changes settings while a model works.
SetBehavior(b) ==
  /\ stage \notin {"done", "failed"}
  /\ behavior' = b
  /\ UNCHANGED <<owner, routing, task, held, reread, experting, forced, by, stage, proposal,
                 artifacts, failedPrimary, switched>>

SwitchRouting ==
  /\ stage \notin {"done", "failed"}
  /\ routing' = IF routing = "expert" THEN "automatic" ELSE "expert"
  /\ switched' = (switched \/ stage \notin {"queued", "taken"})
  /\ UNCHANGED <<owner, behavior, task, held, reread, experting, forced, by, stage, proposal,
                 artifacts, failedPrimary>>

-----------------------------------------------------------------------------
DecisionNext ==
  \/ Ignore \/ Take \/ Analyze \/ BeginFollowUp
  \/ TriageDecides \/ TriageLeaves \/ Route \/ ModelAnswers \/ ModelFails
  \/ \E known \in BOOLEAN : Decide(known)
  \/ StoreFollowUp
  \/ \E b \in Behaviors : SetBehavior(b)
  \/ SwitchRouting

DecisionSpec == DecisionInit /\ [][DecisionNext]_decisionVars

-----------------------------------------------------------------------------
Decided == stage = "done" /\ task = "mail"

\* Whatever classifier, triage, model, rule and category handling make of a
\* mail, the agent acts within the owner's mode and the owner's rule: it mails
\* and deletes nothing by itself, moves only in Autonomous mode, does nothing in
\* Observer mode or against an analyse-only rule, and drafts where a rule says
\* draft only (agent_runtime.py analyze_message, policy.py).
ActsAsAllowed ==
  Decided =>
    LET a == proposal.action
        mode == owner.autonomy IN
    /\ "execution" \in artifacts => a = "mark_read" \/ (a = "move" /\ mode = "autonomous")
    /\ "approval" \in artifacts => a \in {"send", "move", "delete"}
    /\ "draft" \in artifacts => a \in Outbound /\ proposal.signed
    /\ (a = "send" /\ artifacts # {}) => "approval" \in artifacts /\ held.rule = "normal"
    /\ (a \in {"move", "delete"} /\ mode = "assistant") => artifacts = {}
    /\ (mode = "observer" \/ held.rule \in {"analyze_only", "ignore"} \/ ~proposal.sure)
         => artifacts = {}

\* While the configured model works, a failing expert costs no mail its
\* analysis, unless the owner switched the routing meanwhile
\* (release_audit_fixes.py ReleaseAdaptiveMailAgent).
PrimarySuffices == stage = "failed" => failedPrimary \/ switched

\* "Observer mode forbids mailbox modifications and drafts" (policy.py evaluate).
ObserverMakesNothing == owner.autonomy = "observer" => artifacts = {}
=============================================================================
