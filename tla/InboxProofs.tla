------------------------------- MODULE InboxProofs -------------------------------
(***************************************************************************)
(* Proofs about MailDecision and Conversations, the way of a mail through    *)
(* the assistant.  For every set of settings and of profiles, what the agent *)
(* makes of a mail stays within the owner's mode and rules, and an expert    *)
(* model that fails costs no mail its analysis.  For any threads, messages,  *)
(* waits and passes, a new message or another state of a conversation is not *)
(* hidden by an old snooze or follow-up draft, and a wait gets one follow-up *)
(* draft, but for the exceptions the history variables name.                 *)
(***************************************************************************)
EXTENDS MailDecision, Conversations, FiniteSetTheorems, TLAPS

\* The steps of the work, without those of the owner, in three groups.
Opening == Ignore \/ Take \/ Analyze \/ BeginFollowUp
Asking == TriageDecides \/ TriageLeaves \/ Route \/ ModelAnswers \/ ModelFails
Ending == StoreFollowUp \/ \E known \in BOOLEAN : Decide(known)

LEMMA Steps ==
  DecisionNext <=> \/ Opening \/ Asking \/ Ending
                   \/ \E b \in Behaviors : SetBehavior(b)
                   \/ SwitchRouting
  BY DEF DecisionNext, Opening, Asking, Ending

-----------------------------------------------------------------------------
(* The decision about a mail: types.                                        *)

\* What the classifier knows is a proposal.
LEMMA SureProposal ==
  ASSUME NEW action \in Action, NEW category \in Category
  PROVE  Surely(action, category) \in MailProposal
  BY DEF Surely, MailProposal

LEMMA HandledIsAction ==
  ASSUME NEW category \in Category, NEW b \in Behaviors
  PROVE  Handled(category, b) \in Action
  BY DecisionAssumption DEF Handled, Behavior, Action

LEMMA PreclassifiedIsProposal ==
  ASSUME NEW b \in Behaviors
  PROVE  Preclassified(b) \subseteq MailProposal
<1>1. SUFFICES ASSUME NEW p \in Preclassified(b) PROVE p \in MailProposal
  OBVIOUS
<1>2. CASE \E c \in {"bulk", "cold", "safe"} : p = Surely(Handled(c, b), c)
  <2>1. PICK c \in {"bulk", "cold", "safe"} : p = Surely(Handled(c, b), c)
    BY <1>2
  <2>2. c \in Category
    BY DEF Category
  <2>3. QED
    BY <2>1, <2>2, SureProposal, HandledIsAction
<1>3. CASE \E c \in {b.category} \ {"none", "other"} : p = Surely("read", c)
  <2>1. PICK c \in {b.category} \ {"none", "other"} : p = Surely("read", c)
    BY <1>3
  <2>2. c \in Category /\ "read" \in Action
    BY DecisionAssumption DEF Behavior, Category, Action
  <2>3. QED
    BY <2>1, <2>2, SureProposal
<1>4. QED
  BY <1>2, <1>3 DEF Preclassified

LEMMA ClassifyType ==
  ASSUME DecisionTypeOK, Classify
  PROVE  /\ proposal' \in MailProposal /\ reread' \in Behaviors
         /\ stage' \in {"proposed", "triage"}
  BY PreclassifiedIsProposal DEF Classify, DecisionTypeOK

LEMMA CategoryIsCategory ==
  ASSUME DecisionTypeOK, NEW known \in BOOLEAN
  PROVE  CategoryOf(known) \in Category
  BY DecisionAssumption DEF DecisionTypeOK, CategoryOf, Behavior, MailProposal, Category

LEMMA FinalIsAction ==
  ASSUME DecisionTypeOK, NEW known \in BOOLEAN
  PROVE  FinalAction(known) \in Action
<1>1. proposal.action \in Action
  BY DEF DecisionTypeOK, MailProposal
<1>2. held.handling # "none" => held.handling \in Action
  BY DecisionAssumption DEF DecisionTypeOK, Behavior, Action
<1>3. "create_draft" \in Action
  BY DEF Action
<1>4. QED
  BY <1>1, <1>2, <1>3 DEF FinalAction

LEMMA TypeInit == DecisionInit => DecisionTypeOK
<1>1. NoProposal \in MailProposal
  BY DEF NoProposal, MailProposal, Action, Category
<1>2. QED
  BY <1>1 DEF DecisionInit, DecisionTypeOK

LEMMA TypeOpening == DecisionTypeOK /\ Opening => DecisionTypeOK'
<1>. SUFFICES ASSUME DecisionTypeOK, Opening PROVE DecisionTypeOK'
  OBVIOUS
<1>1. CASE Ignore
  BY <1>1 DEF Ignore, settings, DecisionTypeOK
<1>2. CASE Take
  BY <1>2 DEF Take, settings, DecisionTypeOK
<1>3. CASE Analyze
  BY <1>3, ClassifyType DEF Analyze, settings, DecisionTypeOK
<1>4. CASE BeginFollowUp
  BY <1>4 DEF BeginFollowUp, settings, DecisionTypeOK
<1>5. QED
  BY <1>1, <1>2, <1>3, <1>4 DEF Opening

LEMMA TypeAsking == DecisionTypeOK /\ Asking => DecisionTypeOK'
<1>. SUFFICES ASSUME DecisionTypeOK, Asking PROVE DecisionTypeOK'
  OBVIOUS
<1>1. CASE TriageDecides
  <2>1. PICK c \in {"bulk", "cold", "safe"} : proposal' = Surely(Handled(c, reread), c)
    BY <1>1 DEF TriageDecides
  <2>2. proposal' \in MailProposal
    BY <2>1, SureProposal, HandledIsAction DEF DecisionTypeOK, Category
  <2>3. QED
    BY <1>1, <2>2 DEF TriageDecides, settings, DecisionTypeOK
<1>2. CASE TriageLeaves
  BY <1>2 DEF TriageLeaves, settings, DecisionTypeOK
<1>3. CASE Route
  BY <1>3 DEF Route, settings, DecisionTypeOK
<1>4. CASE ModelAnswers
  <2>1. proposal' \in MailProposal
    BY <1>4 DEF ModelAnswers, MailProposal, Action
  <2>2. QED
    BY <1>4, <2>1 DEF ModelAnswers, settings, DecisionTypeOK
<1>5. CASE ModelFails
  <2>1. /\ proposal' \in MailProposal /\ reread' \in Behaviors /\ forced' \in BOOLEAN
        /\ stage' \in {"proposed", "triage", "route", "failed"} /\ failedPrimary' \in BOOLEAN
    BY <1>5, ClassifyType DEF ModelFails, DecisionTypeOK
  <2>2. QED
    BY <1>5, <2>1 DEF ModelFails, settings, DecisionTypeOK
<1>6. QED
  BY <1>1, <1>2, <1>3, <1>4, <1>5 DEF Asking

LEMMA TypeEnding == DecisionTypeOK /\ Ending => DecisionTypeOK'
<1>. SUFFICES ASSUME DecisionTypeOK, Ending PROVE DecisionTypeOK'
  OBVIOUS
<1>1. CASE StoreFollowUp
  BY <1>1 DEF StoreFollowUp, settings, DecisionTypeOK
<1>2. ASSUME NEW known \in BOOLEAN, Decide(known) PROVE DecisionTypeOK'
  <2>1. proposal' \in MailProposal
    BY <1>2, CategoryIsCategory, FinalIsAction DEF Decide, DecisionTypeOK, MailProposal
  <2>2. artifacts' \subseteq {"approval", "execution", "draft"} /\ stage' = "done"
    BY <1>2 DEF Decide
  <2>3. QED
    BY <1>2, <2>1, <2>2 DEF Decide, settings, DecisionTypeOK
<1>3. QED
  BY <1>1, <1>2 DEF Ending

LEMMA TypeNext == DecisionTypeOK /\ [DecisionNext]_decisionVars => DecisionTypeOK'
<1>. SUFFICES ASSUME DecisionTypeOK, [DecisionNext]_decisionVars PROVE DecisionTypeOK'
  OBVIOUS
<1>1. CASE \E b \in Behaviors : SetBehavior(b)
  BY <1>1 DEF SetBehavior, DecisionTypeOK
<1>2. CASE SwitchRouting
  BY <1>2 DEF SwitchRouting, DecisionTypeOK
<1>3. CASE UNCHANGED decisionVars
  BY <1>3 DEF decisionVars, DecisionTypeOK
<1>4. QED
  BY <1>1, <1>2, <1>3, Steps, TypeOpening, TypeAsking, TypeEnding

\* Every reachable state of a decision is well typed: the classifier, the triage
\* and the rules yield proposals (adaptive_intelligence.py, behavior.py).
THEOREM DecisionTypeCorrect == DecisionSpec => []DecisionTypeOK
  BY TypeInit, TypeNext, PTL DEF DecisionSpec

-----------------------------------------------------------------------------
(* What is made of a mail.                                                  *)

\* Nothing is made before the end, and the end is within what is allowed.
MadeAtTheEnd ==
  /\ stage # "done" => artifacts = {}
  /\ ActsAsAllowed

\* The artifacts of one decision, for every proposal, setting and owner.
LEMMA DecideWithin ==
  ASSUME DecisionTypeOK, NEW known \in BOOLEAN, Decide(known)
  PROVE  ActsAsAllowed'
<1> DEFINE a == FinalAction(known)
<1> DEFINE permitted == /\ held.rule \notin {"analyze_only", "ignore"}
                        /\ proposal.sure
                        /\ Allowed(a, proposal.signed)
<1>1. /\ a \in Action
      /\ held.rule = "draft_only" => a # "send"
      /\ held.rule \in {"normal", "draft_only", "analyze_only", "ignore"}
  BY FinalIsAction, DecisionAssumption DEF FinalAction, DecisionTypeOK, Behavior
<1>2. /\ proposal'.action = a
      /\ proposal'.sure = proposal.sure /\ proposal'.signed = proposal.signed
      /\ held' = held /\ owner' = owner /\ stage' = "done" /\ task' = "mail"
  BY DEF Decide, DecisionTypeOK, MailProposal, settings
<1>3. artifacts' = IF ~permitted THEN {}
                   ELSE (IF RequiresApproval(a) THEN {"approval"}
                         ELSE IF a \in {"mark_read", "move"} THEN {"execution"} ELSE {})
                        \cup (IF held.drafts /\ a \in Outbound THEN {"draft"} ELSE {})
  BY DEF Decide, Judged
<1>4. owner.autonomy \in {"observer", "assistant", "copilot", "autonomous"}
      /\ owner.work \in BOOLEAN
  BY DecisionAssumption DEF DecisionTypeOK, Owner
<1>5. CASE ~permitted
  BY <1>2, <1>3, <1>5 DEF ActsAsAllowed, Decided
<1>6. CASE permitted
  <2>1. ("execution" \in artifacts')
          => a = "mark_read" \/ (a = "move" /\ owner.autonomy = "autonomous")
    BY <1>1, <1>3, <1>4, <1>6 DEF RequiresApproval, Allowed, Outbound
  <2>2. ("approval" \in artifacts') => a \in {"send", "move", "delete"}
    BY <1>3, <1>6 DEF RequiresApproval
  <2>3. ("draft" \in artifacts') => a \in Outbound /\ proposal.signed
    BY <1>3, <1>6 DEF Allowed, Outbound
  <2>4. (a = "send" /\ artifacts' # {}) => ("approval" \in artifacts') /\ held.rule = "normal"
    BY <1>1, <1>3, <1>6 DEF RequiresApproval
  <2>5. (a \in {"move", "delete"} /\ owner.autonomy = "assistant") => artifacts' = {}
    BY <1>6 DEF Allowed
  <2>6. (owner.autonomy = "observer" \/ held.rule \in {"analyze_only", "ignore"} \/ ~proposal.sure)
          => artifacts' = {}
    BY <1>3, <1>6 DEF Allowed, RequiresApproval, Outbound
  <2>7. QED
    BY <1>2, <2>1, <2>2, <2>3, <2>4, <2>5, <2>6 DEF ActsAsAllowed
<1>7. QED
  BY <1>5, <1>6

LEMMA WithinNext ==
  DecisionTypeOK /\ MadeAtTheEnd /\ [DecisionNext]_decisionVars => MadeAtTheEnd'
<1>. SUFFICES ASSUME DecisionTypeOK, MadeAtTheEnd, [DecisionNext]_decisionVars
              PROVE  MadeAtTheEnd'
  OBVIOUS
<1>1. CASE Ignore
  BY <1>1 DEF Ignore, settings, MadeAtTheEnd, ActsAsAllowed, Decided
<1>2. CASE Take \/ BeginFollowUp
  BY <1>2 DEF Take, BeginFollowUp, settings, MadeAtTheEnd, ActsAsAllowed, Decided
<1>3. CASE Analyze
  BY <1>3, ClassifyType DEF Analyze, settings, MadeAtTheEnd, ActsAsAllowed, Decided
<1>4. CASE TriageDecides \/ TriageLeaves \/ Route \/ ModelAnswers
  BY <1>4 DEF TriageDecides, TriageLeaves, Route, ModelAnswers, settings, MadeAtTheEnd,
              ActsAsAllowed, Decided
<1>5. CASE ModelFails
  <2>1. stage' \in {"proposed", "triage", "route", "failed"} /\ artifacts' = artifacts
        /\ stage = "call"
    BY <1>5, ClassifyType DEF ModelFails
  <2>2. QED
    BY <2>1 DEF MadeAtTheEnd, ActsAsAllowed, Decided
<1>6. CASE StoreFollowUp
  BY <1>6 DEF StoreFollowUp, MadeAtTheEnd, ActsAsAllowed, Decided
<1>7. ASSUME NEW known \in BOOLEAN, Decide(known) PROVE MadeAtTheEnd'
  BY <1>7, DecideWithin DEF Decide, MadeAtTheEnd
<1>8. CASE (\E b \in Behaviors : SetBehavior(b)) \/ SwitchRouting \/ UNCHANGED decisionVars
  BY <1>8 DEF SetBehavior, SwitchRouting, decisionVars, MadeAtTheEnd, ActsAsAllowed, Decided
<1>9. QED
  BY <1>1, <1>2, <1>3, <1>4, <1>5, <1>6, <1>7, <1>8, Steps DEF Opening, Asking, Ending

\* Whatever a model proposes and whenever the owner changes settings, a mail is
\* never sent or deleted without an approval, moved only in Autonomous mode, and
\* left alone in Observer mode and under an analyse-only rule (agent_runtime.py
\* analyze_message, policy.py).
THEOREM ActsWithinTheRules == DecisionSpec => []ActsAsAllowed
<1>1. DecisionInit => MadeAtTheEnd
  BY DEF DecisionInit, MadeAtTheEnd, ActsAsAllowed, Decided
<1>2. MadeAtTheEnd => ActsAsAllowed
  BY DEF MadeAtTheEnd
<1>3. QED
  BY <1>1, <1>2, WithinNext, TypeInit, TypeNext, PTL DEF DecisionSpec

-----------------------------------------------------------------------------
(* The fallback to the configured model.                                    *)

\* Unless the routing was switched, the agent knows of an expert whenever it is
\* routed to one, and is then not yet forced away from it.
ExpertIsKnown ==
  ~switched =>
    /\ stage \in {"triage", "route", "call", "proposed"} => experting = (routing = "expert")
    /\ stage = "call" => by = "primary" \/ (by = "expert" /\ experting /\ ~forced)
    /\ stage = "failed" => failedPrimary

LEMMA ExpertNext ==
  DecisionTypeOK /\ ExpertIsKnown /\ [DecisionNext]_decisionVars => ExpertIsKnown'
<1>. SUFFICES ASSUME DecisionTypeOK, ExpertIsKnown, [DecisionNext]_decisionVars
              PROVE  ExpertIsKnown'
  OBVIOUS
<1>1. CASE Opening
  BY <1>1, ClassifyType DEF Opening, Ignore, Take, Analyze, BeginFollowUp, settings,
                            ExpertIsKnown
<1>2. CASE TriageDecides \/ TriageLeaves \/ Route \/ ModelAnswers
  BY <1>2 DEF TriageDecides, TriageLeaves, Route, ModelAnswers, settings, ExpertIsKnown
<1>3. CASE ModelFails
  <2>1. CASE Retried
    <3>1. stage' \in {"proposed", "triage", "route"} /\ experting' = experting
          /\ routing' = routing /\ switched' = switched /\ stage = "call"
      BY <1>3, <2>1, ClassifyType DEF ModelFails, settings
    <3>2. QED
      BY <3>1 DEF ExpertIsKnown
  <2>2. CASE ~Retried
    <3>1. stage' = "failed" /\ failedPrimary' = (failedPrimary \/ by = "primary")
          /\ switched' = switched /\ stage = "call"
      BY <1>3, <2>2 DEF ModelFails, settings
    <3>2. switched \/ by = "primary"
      BY <2>2, <3>1 DEF ExpertIsKnown, Retried
    <3>3. QED
      BY <3>1, <3>2 DEF ExpertIsKnown
  <2>3. QED
    BY <2>1, <2>2
<1>4. CASE Ending
  BY <1>4 DEF Ending, StoreFollowUp, Decide, settings, ExpertIsKnown
<1>5. CASE \E b \in Behaviors : SetBehavior(b)
  BY <1>5 DEF SetBehavior, ExpertIsKnown
<1>6. CASE SwitchRouting
  BY <1>6 DEF SwitchRouting, ExpertIsKnown, DecisionTypeOK
<1>7. CASE UNCHANGED decisionVars
  BY <1>7 DEF decisionVars, ExpertIsKnown
<1>8. QED
  BY <1>1, <1>2, <1>3, <1>4, <1>5, <1>6, <1>7, Steps DEF Asking

\* No mail is left without an analysis because an expert failed: when the work
\* fails, the configured model itself failed, or the owner switched the routing
\* under it (release_audit_fixes.py ReleaseAdaptiveMailAgent).
THEOREM FallbackSuffices == DecisionSpec => []PrimarySuffices
<1>1. DecisionInit => ExpertIsKnown
  BY DEF DecisionInit, ExpertIsKnown
<1>2. ExpertIsKnown => PrimarySuffices
  BY DEF ExpertIsKnown, PrimarySuffices
<1>3. QED
  BY <1>1, <1>2, ExpertNext, TypeInit, TypeNext, PTL DEF DecisionSpec

-----------------------------------------------------------------------------
(* Conversations.                                                          *)

Statuses == {"to_reply", "awaiting_reply", "fyi"}

\* The actions that change rows or passes, in groups.
Replying == \E t \in Threads, m \in Message : ReplySent(t, m) \/ ReplySentUnrecorded(t, m)
Timing == \E t \in Threads : MessageArrives(t) \/ Snooze(t) \/ SnoozeEnds(t) \/ DeadlinePasses(t)
GivingUp == PassesDie \/ \E p \in Passes : \E w \in passes[p] : FollowUpFails(p, w)

LEMMA ConversationSteps ==
  ConversationsNext <=>
    \/ \E t \in Threads, m \in Message, s \in Statuses : RecordAnalysis(t, m, s)
    \/ Replying \/ Timing \/ GivingUp
    \/ \E p \in Passes : PassBegin(p)
    \/ \E p \in Passes : \E w \in passes[p], f \in FollowUps :
         DraftFollowUp(p, w, f) \/ DieInFollowUp(p, w, f)
  BY DEF ConversationsNext, ThreadStep, PassStep, Replying, Timing, GivingUp, Statuses

\* The fields of the row of a wait that begins.
LEMMA NewWaitRow ==
  ASSUME ConversationsTypeOK, NEW t \in Threads, NEW m \in Message, NEW s \in Statuses,
         waits[t] < Waits
  PROVE  /\ NewWait(t, m, s) \in Thread
         /\ waits[t] + 1 \in 1..Waits
         /\ [waits EXCEPT ![t] = @ + 1] \in [Threads -> 0..Waits]
<1>1. waits[t] \in 0..Waits /\ Waits \in Nat /\ Arrivals \in Nat
  BY ConversationsAssumption DEF ConversationsTypeOK
<1>2. waits[t] + 1 \in 1..Waits /\ waits[t] + 1 \in 0..Waits
  BY <1>1
<1>3. m \in 0..Arrivals
  BY <1>1 DEF Message
<1>4. NewWait(t, m, s) \in Thread
  BY <1>2, <1>3 DEF NewWait, Thread, Statuses
<1>5. QED
  BY <1>2, <1>4 DEF ConversationsTypeOK

\* What a due wait says of its row.
LEMMA DueRow ==
  ASSUME NEW w \in DueWaits
  PROVE  \E t \in Threads :
           /\ w = <<t, threads[t].wait>>
           /\ threads[t].status = "awaiting_reply"
           /\ threads[t].draft = NoDraft
  BY DEF DueWaits, Undrafted

-----------------------------------------------------------------------------
(* Types, and that somebody is waited for since some time.                  *)

\* A conversation that waits for an answer has a wait; waits are numbered as
\* they begin.
WaitsNumbered ==
  \A t \in Threads :
    /\ threads[t].status = "awaiting_reply" => threads[t].wait # 0
    /\ threads[t].wait <= waits[t]

ConversationsInv == ConversationsTypeOK /\ WaitsNumbered

LEMMA ConversationsInvInit == ConversationsInit => ConversationsInv
<1>. SUFFICES ASSUME ConversationsInit PROVE ConversationsInv
  OBVIOUS
<1>1. NoThread \in Thread
  BY ConversationsAssumption DEF NoThread, Thread
<1>2. ConversationsTypeOK
  BY <1>1, ConversationsAssumption DEF ConversationsInit, ConversationsTypeOK
<1>3. WaitsNumbered
  BY DEF ConversationsInit, WaitsNumbered, NoThread
<1>4. QED
  BY <1>2, <1>3 DEF ConversationsInv

\* How a row changes when a message is analysed: it keeps all but its draft, or
\* it holds nothing, or it begins a wait.
LEMMA AnalysedRow ==
  ASSUME ConversationsInv, NEW t \in Threads, NEW m \in Message, NEW s \in Statuses,
         RecordAnalysis(t, m, s)
  PROVE  \E row \in Thread :
           /\ threads' = [threads EXCEPT ![t] = row]
           /\ \/ /\ waits' = waits
                 /\ row.status = threads[t].status /\ row.last = threads[t].last
                 /\ row.wait = threads[t].wait /\ row.snoozed = threads[t].snoozed
                 /\ \/ row.draft = threads[t].draft
                    \/ row.draft = NoDraft /\ row.status # "awaiting_reply"
              \/ /\ waits' = waits
                 /\ row.status = "fyi" /\ row.wait = 0 /\ ~row.snoozed /\ row.draft = NoDraft
              \/ /\ waits[t] < Waits /\ waits' = [waits EXCEPT ![t] = @ + 1]
                 /\ row.wait = waits[t] + 1 /\ ~row.snoozed /\ row.draft = NoDraft
<1>1. m \in 0..Arrivals /\ 0 \in 0..Waits
  BY ConversationsAssumption DEF Message
<1>2. threads \in [Threads -> Thread] /\ threads[t] \in Thread
  BY DEF ConversationsInv, ConversationsTypeOK
<1>3. CASE SameState(threads[t], m, s)
  <2> DEFINE draft == IF s = "awaiting_reply" THEN threads[t].draft ELSE NoDraft
             row == [threads[t] EXCEPT !.last = m, !.draft = draft]
  <2>1. draft \in FollowUps \cup {NoDraft}
    BY <1>2 DEF Thread
  <2>2. threads' = [threads EXCEPT ![t] = row] /\ waits' = waits
    BY <1>2, <1>3 DEF RecordAnalysis
  <2>3. row \in Thread
    BY <1>1, <1>2, <2>1 DEF Thread
  <2>4. /\ row.status = threads[t].status /\ row.last = m /\ row.wait = threads[t].wait
        /\ row.snoozed = threads[t].snoozed /\ row.draft = draft
    BY <1>2 DEF Thread
  <2>5. row.draft = threads[t].draft \/ (row.draft = NoDraft /\ row.status # "awaiting_reply")
    BY <1>3, <2>4 DEF SameState
  <2>6. row.status = threads[t].status /\ row.last = threads[t].last
    BY <1>3, <2>4 DEF SameState
  <2> HIDE DEF row
  <2>7. QED
    BY <2>2, <2>3, <2>4, <2>5, <2>6
<1>4. CASE ~SameState(threads[t], m, s) /\ s = "fyi"
  <2> DEFINE row == [NoThread EXCEPT !.last = m]
  <2>1. threads' = [threads EXCEPT ![t] = row] /\ waits' = waits
    BY <1>4 DEF RecordAnalysis
  <2>2. NoThread \in Thread
    BY ConversationsAssumption DEF NoThread, Thread
  <2>3. row \in Thread
    BY <1>1, <2>2 DEF Thread
  <2>4. row.status = "fyi" /\ row.wait = 0 /\ ~row.snoozed /\ row.draft = NoDraft
    BY DEF NoThread
  <2>5. QED
    BY <2>1, <2>3, <2>4
<1>5. CASE ~SameState(threads[t], m, s) /\ s # "fyi"
  <2>1. /\ waits[t] < Waits /\ threads' = [threads EXCEPT ![t] = NewWait(t, m, s)]
        /\ waits' = [waits EXCEPT ![t] = @ + 1]
    BY <1>5 DEF RecordAnalysis
  <2>2. NewWait(t, m, s) \in Thread
    BY <2>1, NewWaitRow DEF ConversationsInv
  <2>3. QED
    BY <2>1, <2>2 DEF NewWait
<1>6. QED
  BY <1>3, <1>4, <1>5

\* ... and when a reply was sent.
LEMMA RepliedRow ==
  ASSUME ConversationsInv, NEW t \in Threads, NEW m \in Message, ReplySent(t, m)
  PROVE  \/ UNCHANGED <<threads, waits, replayed>>
         \/ /\ waits[t] < Waits /\ waits' = [waits EXCEPT ![t] = @ + 1]
            /\ \E row \in Thread :
                 /\ threads' = [threads EXCEPT ![t] = row]
                 /\ row.wait = waits[t] + 1 /\ ~row.snoozed /\ row.draft = NoDraft
            /\ replayed' \subseteq Wait
<1>1. CASE UNCHANGED <<threads, waits, replayed>>
  BY <1>1
<1>2. CASE ~ReplyRecorded(t, m)
  <2>1. /\ waits[t] < Waits /\ waits' = [waits EXCEPT ![t] = @ + 1]
        /\ threads' = [threads EXCEPT ![t] = NewWait(t, m, "awaiting_reply")]
        /\ replayed' = IF <<t, m>> \in answered THEN replayed \cup {<<t, waits'[t]>>} ELSE replayed
    BY <1>2 DEF ReplySent
  <2>2. NewWait(t, m, "awaiting_reply") \in Thread /\ waits[t] + 1 \in 1..Waits
    BY <2>1, NewWaitRow DEF ConversationsInv, Statuses
  <2>3. waits'[t] = waits[t] + 1
    BY <2>1 DEF ConversationsInv, ConversationsTypeOK
  <2>4. replayed' \subseteq Wait
    BY <2>1, <2>2, <2>3 DEF Wait, ConversationsInv, ConversationsTypeOK
  <2>5. QED
    BY <2>1, <2>2, <2>4 DEF NewWait
<1>3. QED
  BY <1>1, <1>2 DEF ReplySent

\* ... and with the clock and the owner's snooze: the state does not change.
LEMMA TimedRow ==
  ASSUME ConversationsInv, NEW t \in Threads,
         MessageArrives(t) \/ Snooze(t) \/ SnoozeEnds(t) \/ DeadlinePasses(t)
  PROVE  \E row \in Thread :
           /\ threads' = [threads EXCEPT ![t] = row]
           /\ row.status = threads[t].status /\ row.last = threads[t].last
           /\ row.wait = threads[t].wait /\ row.draft = threads[t].draft
           /\ row.snoozed => \/ threads[t].snoozed /\ about' = about
                             \/ about' = [about EXCEPT ![t] = threads[t].last]
           /\ about' = about \/ about' = [about EXCEPT ![t] = threads[t].last]
<1>1. threads \in [Threads -> Thread] /\ threads[t] \in Thread
  BY DEF ConversationsInv, ConversationsTypeOK
<1>2. CASE MessageArrives(t)
  <2>1. threads' = [threads EXCEPT ![t] = threads[t]] /\ about' = about
    BY <1>1, <1>2 DEF MessageArrives
  <2>2. QED
    BY <1>1, <2>1
<1>3. CASE Snooze(t)
  <2> DEFINE row == [threads[t] EXCEPT !.snoozed = TRUE]
  <2>1. /\ threads' = [threads EXCEPT ![t] = row]
        /\ about' = [about EXCEPT ![t] = threads[t].last]
    BY <1>1, <1>3 DEF Snooze
  <2>2. row \in Thread /\ row.status = threads[t].status /\ row.last = threads[t].last
        /\ row.wait = threads[t].wait /\ row.draft = threads[t].draft
    BY <1>1 DEF Thread
  <2>3. QED
    BY <2>1, <2>2
<1>4. CASE SnoozeEnds(t)
  <2> DEFINE row == [threads[t] EXCEPT !.snoozed = FALSE]
  <2>1. threads' = [threads EXCEPT ![t] = row] /\ about' = about
    BY <1>1, <1>4 DEF SnoozeEnds
  <2>2. row \in Thread /\ row.status = threads[t].status /\ row.last = threads[t].last
        /\ row.wait = threads[t].wait /\ row.draft = threads[t].draft /\ ~row.snoozed
    BY <1>1 DEF Thread
  <2>3. QED
    BY <2>1, <2>2
<1>5. CASE DeadlinePasses(t)
  <2> DEFINE row == [threads[t] EXCEPT !.due = TRUE]
  <2>1. threads' = [threads EXCEPT ![t] = row] /\ about' = about
    BY <1>1, <1>5 DEF DeadlinePasses
  <2>2. row \in Thread /\ row.status = threads[t].status /\ row.last = threads[t].last
        /\ row.wait = threads[t].wait /\ row.draft = threads[t].draft
        /\ row.snoozed = threads[t].snoozed
    BY <1>1 DEF Thread
  <2>3. QED
    BY <2>1, <2>2
<1>6. QED
  BY <1>2, <1>3, <1>4, <1>5

-----------------------------------------------------------------------------
\* The inductive step, action by action.
LEMMA ConversationsInvNext ==
  ConversationsInv /\ [ConversationsNext]_conversationVars => ConversationsInv'
<1>. SUFFICES ASSUME ConversationsInv, [ConversationsNext]_conversationVars
              PROVE  ConversationsInv'
  OBVIOUS
<1>0. /\ ConversationsTypeOK /\ WaitsNumbered
      /\ Waits \in Nat /\ Arrivals \in Nat
  BY ConversationsAssumption DEF ConversationsInv
<1>1. ASSUME NEW t \in Threads, NEW m \in Message, NEW s \in Statuses, RecordAnalysis(t, m, s)
      PROVE  ConversationsInv'
  <2>1. PICK row \in Thread :
           /\ threads' = [threads EXCEPT ![t] = row]
           /\ \/ /\ waits' = waits
                 /\ row.status = threads[t].status /\ row.last = threads[t].last
                 /\ row.wait = threads[t].wait /\ row.snoozed = threads[t].snoozed
                 /\ \/ row.draft = threads[t].draft
                    \/ row.draft = NoDraft /\ row.status # "awaiting_reply"
              \/ /\ waits' = waits
                 /\ row.status = "fyi" /\ row.wait = 0 /\ ~row.snoozed /\ row.draft = NoDraft
              \/ /\ waits[t] < Waits /\ waits' = [waits EXCEPT ![t] = @ + 1]
                 /\ row.wait = waits[t] + 1 /\ ~row.snoozed /\ row.draft = NoDraft
    BY <1>1, AnalysedRow
  <2>2. UNCHANGED <<arrived, answered, followUps, passes, about, shared, late, replayed>>
    BY <1>1 DEF RecordAnalysis
  <2>3. ConversationsTypeOK'
    BY <1>0, <2>1, <2>2 DEF ConversationsTypeOK
  <2>4. WaitsNumbered'
    BY <1>0, <2>1 DEF ConversationsTypeOK, WaitsNumbered, Thread
  <2>5. QED
    BY <2>3, <2>4 DEF ConversationsInv
<1>2. CASE Replying
  <2>1. PICK t \in Threads, m \in Message : ReplySent(t, m) \/ ReplySentUnrecorded(t, m)
    BY <1>2 DEF Replying
  <2>2. /\ answered' = answered \cup {<<t, m>>}
        /\ UNCHANGED <<arrived, followUps, passes, about, shared, late>>
    BY <2>1 DEF ReplySent, ReplySentUnrecorded
  <2>3. \/ UNCHANGED <<threads, waits, replayed>>
        \/ /\ waits[t] < Waits /\ waits' = [waits EXCEPT ![t] = @ + 1]
           /\ \E row \in Thread :
                 /\ threads' = [threads EXCEPT ![t] = row]
                 /\ row.wait = waits[t] + 1 /\ ~row.snoozed /\ row.draft = NoDraft
           /\ replayed' \subseteq Wait
    BY <2>1, RepliedRow DEF ReplySentUnrecorded
  <2>4. ConversationsTypeOK'
    BY <1>0, <2>2, <2>3 DEF ConversationsTypeOK
  <2>5. WaitsNumbered'
    BY <1>0, <2>3 DEF ConversationsTypeOK, WaitsNumbered, Thread
  <2>6. QED
    BY <2>4, <2>5 DEF ConversationsInv
<1>3. CASE Timing
  <2>1. PICK t \in Threads :
          MessageArrives(t) \/ Snooze(t) \/ SnoozeEnds(t) \/ DeadlinePasses(t)
    BY <1>3 DEF Timing
  <2>2. PICK row \in Thread :
           /\ threads' = [threads EXCEPT ![t] = row]
           /\ row.status = threads[t].status /\ row.last = threads[t].last
           /\ row.wait = threads[t].wait /\ row.draft = threads[t].draft
           /\ about' = about \/ about' = [about EXCEPT ![t] = threads[t].last]
    BY <2>1, TimedRow
  <2>3. /\ UNCHANGED <<waits, answered, followUps, passes, shared, late, replayed>>
        /\ arrived' = arrived
           \/ (arrived[t] < Arrivals /\ arrived' = [arrived EXCEPT ![t] = @ + 1])
    BY <2>1 DEF MessageArrives, Snooze, SnoozeEnds, DeadlinePasses
  <2>4. threads[t].last \in 0..Arrivals
    BY <1>0 DEF ConversationsTypeOK, Thread
  <2>5. ConversationsTypeOK'
    BY <1>0, <2>2, <2>3, <2>4 DEF ConversationsTypeOK
  <2>6. WaitsNumbered'
    BY <1>0, <2>2, <2>3 DEF ConversationsTypeOK, WaitsNumbered
  <2>7. QED
    BY <2>5, <2>6 DEF ConversationsInv
<1>4. CASE GivingUp
  BY <1>0, <1>4 DEF GivingUp, PassesDie, FollowUpFails, ConversationsInv, ConversationsTypeOK,
                    WaitsNumbered
<1>5. ASSUME NEW p \in Passes, PassBegin(p) PROVE ConversationsInv'
  <2>1. DueWaits \subseteq Wait
    <3>1. ASSUME NEW w \in DueWaits PROVE w \in Wait
      <4>1. PICK t \in Threads : /\ w = <<t, threads[t].wait>>
                                 /\ threads[t].status = "awaiting_reply"
        BY DueRow
      <4>2. threads[t].wait \in 1..Waits
        BY <1>0, <4>1 DEF ConversationsTypeOK, Thread, WaitsNumbered
      <4>3. QED
        BY <4>1, <4>2 DEF Wait
    <3>2. QED
      BY <3>1
  <2>2. /\ passes' = [passes EXCEPT ![p] = DueWaits]
        /\ shared' = shared \cup (DueWaits \cap UNION {passes[q] : q \in Passes})
        /\ UNCHANGED <<arrived, threads, waits, answered, followUps, about, late, replayed>>
    BY <1>5 DEF PassBegin
  <2>3. ConversationsTypeOK'
    BY <1>0, <2>1, <2>2 DEF ConversationsTypeOK
  <2>4. QED
    BY <1>0, <2>2, <2>3 DEF ConversationsInv, WaitsNumbered
<1>6. ASSUME NEW p \in Passes, NEW w \in passes[p], NEW f \in FollowUps,
             DraftFollowUp(p, w, f)
      PROVE  ConversationsInv'
  <2> DEFINE t == w[1]
  <2>1. w \in Wait /\ t \in Threads
    BY <1>0 DEF ConversationsTypeOK, Wait
  <2>2. /\ followUps' = [followUps EXCEPT ![f] = w]
        /\ threads' = [threads EXCEPT ![t].draft = f]
        /\ passes' = [passes EXCEPT ![p] = @ \ {w}]
        /\ UNCHANGED <<arrived, waits, answered, about, shared, replayed>>
    BY <1>6 DEF DraftFollowUp
  <2>3. late' \subseteq Wait
    <3>1. threads[t].wait # 0 => <<t, threads[t].wait>> \in Wait
      BY <1>0, <2>1 DEF ConversationsTypeOK, Thread, Wait
    <3>2. QED
      BY <1>0, <1>6, <3>1 DEF DraftFollowUp, ConversationsTypeOK
  <2>4. threads' \in [Threads -> Thread]
    BY <1>0, <2>1, <2>2 DEF ConversationsTypeOK, Thread
  <2>5. ConversationsTypeOK'
    BY <1>0, <2>1, <2>2, <2>3, <2>4 DEF ConversationsTypeOK
  <2>6. WaitsNumbered'
    BY <1>0, <2>1, <2>2 DEF ConversationsTypeOK, WaitsNumbered, Thread
  <2>7. QED
    BY <2>5, <2>6 DEF ConversationsInv
<1>7. ASSUME NEW p \in Passes, NEW w \in passes[p], NEW f \in FollowUps,
             DieInFollowUp(p, w, f)
      PROVE  ConversationsInv'
  <2>1. w \in Wait
    BY <1>0 DEF ConversationsTypeOK
  <2>2. QED
    BY <1>0, <1>7, <2>1 DEF DieInFollowUp, ConversationsInv, ConversationsTypeOK, WaitsNumbered
<1>8. CASE UNCHANGED conversationVars
  BY <1>0, <1>8 DEF conversationVars, ConversationsInv, ConversationsTypeOK, WaitsNumbered
<1>9. QED
  BY <1>1, <1>2, <1>3, <1>4, <1>5, <1>6, <1>7, <1>8, ConversationSteps

\* The tables, passes and histories have their types throughout, and a
\* conversation that waits for an answer has waited since some time
\* (conversation_store.py: waiting_since is set with the status).
THEOREM ConversationsTypeCorrect == ConversationsSpec => []ConversationsInv
  BY ConversationsInvInit, ConversationsInvNext, PTL DEF ConversationsSpec

-----------------------------------------------------------------------------
(* Nothing new is hidden.                                                   *)

LEMMA NotHiddenInit == ConversationsInit => NewMailIsNotHidden
  BY DEF ConversationsInit, NewMailIsNotHidden, NoThread

\* A step that replaces one row by one that is neither snoozed nor has a draft.
LEMMA BareRow ==
  ASSUME ConversationsInv, NewMailIsNotHidden, NEW t \in Threads, NEW row \in Thread,
         threads' = [threads EXCEPT ![t] = row], ~row.snoozed, row.draft = NoDraft,
         UNCHANGED <<followUps, about, late>>
  PROVE  NewMailIsNotHidden'
<1>1. threads'[t] = row /\ \A u \in Threads \ {t} : threads'[u] = threads[u]
  BY DEF ConversationsInv, ConversationsTypeOK
<1>2. QED
  BY <1>1 DEF NewMailIsNotHidden

LEMMA NotHiddenNext ==
  ConversationsInv /\ NewMailIsNotHidden /\ [ConversationsNext]_conversationVars
    => NewMailIsNotHidden'
<1>. SUFFICES ASSUME ConversationsInv, NewMailIsNotHidden,
                     [ConversationsNext]_conversationVars
              PROVE  NewMailIsNotHidden'
  OBVIOUS
<1>0. /\ ConversationsTypeOK /\ WaitsNumbered
      /\ NoDraft \notin FollowUps /\ NoDraft \notin Wait
  BY ConversationsAssumption DEF ConversationsInv, Wait
<1>1. ASSUME NEW t \in Threads, NEW m \in Message, NEW s \in Statuses, RecordAnalysis(t, m, s)
      PROVE  NewMailIsNotHidden'
  <2>1. PICK row \in Thread :
           /\ threads' = [threads EXCEPT ![t] = row]
           /\ \/ /\ row.status = threads[t].status /\ row.last = threads[t].last
                 /\ row.wait = threads[t].wait /\ row.snoozed = threads[t].snoozed
                 /\ \/ row.draft = threads[t].draft
                    \/ row.draft = NoDraft /\ row.status # "awaiting_reply"
              \/ ~row.snoozed /\ row.draft = NoDraft
    BY <1>1, AnalysedRow
  <2>2. UNCHANGED <<followUps, about, late>>
    BY <1>1 DEF RecordAnalysis
  <2>3. threads'[t] = row /\ \A u \in Threads \ {t} : threads'[u] = threads[u]
    BY <1>0, <2>1 DEF ConversationsTypeOK
  <2>4. QED
    BY <2>1, <2>2, <2>3 DEF NewMailIsNotHidden
<1>2. CASE Replying
  <2>1. PICK t \in Threads, m \in Message : ReplySent(t, m) \/ ReplySentUnrecorded(t, m)
    BY <1>2 DEF Replying
  <2>2. UNCHANGED <<followUps, about, late>>
    BY <2>1 DEF ReplySent, ReplySentUnrecorded
  <2>3. \/ threads' = threads
        \/ \E row \in Thread : /\ threads' = [threads EXCEPT ![t] = row]
                               /\ ~row.snoozed /\ row.draft = NoDraft
    BY <2>1, RepliedRow DEF ReplySentUnrecorded
  <2>4. CASE threads' = threads
    BY <2>2, <2>4 DEF NewMailIsNotHidden
  <2>5. QED
    BY <2>2, <2>3, <2>4, BareRow
<1>3. CASE Timing
  <2>1. PICK t \in Threads :
          MessageArrives(t) \/ Snooze(t) \/ SnoozeEnds(t) \/ DeadlinePasses(t)
    BY <1>3 DEF Timing
  <2>2. PICK row \in Thread :
           /\ threads' = [threads EXCEPT ![t] = row]
           /\ row.status = threads[t].status /\ row.last = threads[t].last
           /\ row.wait = threads[t].wait /\ row.draft = threads[t].draft
           /\ row.snoozed => \/ threads[t].snoozed /\ about' = about
                             \/ about' = [about EXCEPT ![t] = threads[t].last]
           /\ about' = about \/ about' = [about EXCEPT ![t] = threads[t].last]
    BY <2>1, TimedRow
  <2>3. UNCHANGED <<followUps, late>>
    BY <2>1 DEF MessageArrives, Snooze, SnoozeEnds, DeadlinePasses
  <2>4. /\ threads'[t] = row
        /\ \A u \in Threads \ {t} : threads'[u] = threads[u] /\ about'[u] = about[u]
        /\ row.snoozed => (threads[t].snoozed /\ about'[t] = about[t]) \/ about'[t] = row.last
    BY <1>0, <2>2 DEF ConversationsTypeOK
  <2>5. QED
    BY <2>2, <2>3, <2>4 DEF NewMailIsNotHidden
<1>4. CASE GivingUp
  BY <1>4 DEF GivingUp, PassesDie, FollowUpFails, NewMailIsNotHidden
<1>5. ASSUME NEW p \in Passes, PassBegin(p) PROVE NewMailIsNotHidden'
  BY <1>5 DEF PassBegin, NewMailIsNotHidden
<1>6. ASSUME NEW p \in Passes, NEW w \in passes[p], NEW f \in FollowUps,
             DraftFollowUp(p, w, f) \/ DieInFollowUp(p, w, f)
      PROVE  NewMailIsNotHidden'
  <2>1. followUps[f] = NoDraft /\ followUps' = [followUps EXCEPT ![f] = w] /\ about' = about
    BY <1>6 DEF DraftFollowUp, DieInFollowUp
  <2>2. w \in Wait /\ w[1] \in Threads /\ w = <<w[1], w[2]>>
    BY <1>0 DEF ConversationsTypeOK, Wait
  \* A row that had its draft keeps it: the id was not used before.
  <2>3. ASSUME NEW u \in Threads, threads'[u] = threads[u], late \subseteq late'
        PROVE  /\ threads'[u].snoozed => threads'[u].last = about'[u]
               /\ (threads'[u].status = "awaiting_reply" /\ threads'[u].draft # NoDraft) =>
                    \/ followUps'[threads'[u].draft] = <<u, threads'[u].wait>>
                    \/ <<u, threads'[u].wait>> \in late'
    <3>1. threads[u].status = "awaiting_reply" => <<u, threads[u].wait>> \in Wait
      BY <1>0 DEF ConversationsTypeOK, Thread, WaitsNumbered, Wait
    <3>2. threads[u].draft \in FollowUps \cup {NoDraft}
      BY <1>0 DEF ConversationsTypeOK, Thread
    <3>3. QED
      BY <1>0, <2>1, <2>3, <3>1, <3>2 DEF NewMailIsNotHidden, ConversationsTypeOK
  <2>4. CASE DieInFollowUp(p, w, f)
    <3>1. UNCHANGED <<threads, late>>
      BY <2>4 DEF DieInFollowUp
    <3>2. QED
      BY <2>3, <3>1 DEF NewMailIsNotHidden
  <2>5. CASE DraftFollowUp(p, w, f)
    <3> DEFINE t == w[1]
    <3>1. /\ threads' = [threads EXCEPT ![t].draft = f]
          /\ late' = IF threads[t].wait # w[2] /\ threads[t].wait # 0
                     THEN late \cup {<<t, threads[t].wait>>} ELSE late
      BY <2>5 DEF DraftFollowUp
    <3>2. /\ \A u \in Threads \ {t} : threads'[u] = threads[u]
          /\ threads'[t].status = threads[t].status /\ threads'[t].last = threads[t].last
          /\ threads'[t].wait = threads[t].wait /\ threads'[t].snoozed = threads[t].snoozed
          /\ threads'[t].draft = f
      BY <1>0, <2>2, <3>1 DEF ConversationsTypeOK, Thread
    <3>3. followUps'[f] = w
      BY <1>0, <2>1 DEF ConversationsTypeOK
    <3>4. late \subseteq late'
      BY <3>1
    <3>5. (threads'[t].status = "awaiting_reply" /\ threads'[t].draft # NoDraft) =>
             \/ followUps'[threads'[t].draft] = <<t, threads'[t].wait>>
             \/ <<t, threads'[t].wait>> \in late'
      BY <1>0, <2>2, <3>1, <3>2, <3>3 DEF WaitsNumbered
    <3>6. threads'[t].snoozed => threads'[t].last = about'[t]
      BY <2>1, <2>2, <3>2 DEF NewMailIsNotHidden
    <3>7. QED
      BY <2>3, <3>2, <3>4, <3>5, <3>6 DEF NewMailIsNotHidden
  <2>6. QED
    BY <1>6, <2>4, <2>5
<1>7. CASE UNCHANGED conversationVars
  BY <1>7 DEF conversationVars, NewMailIsNotHidden
<1>8. QED
  BY <1>1, <1>2, <1>3, <1>4, <1>5, <1>6, <1>7, ConversationSteps

\* Whatever arrives, is snoozed, drafted or dies, in any order: a conversation
\* is snoozed only as the owner saw it, and the follow-up draft it names is for
\* the wait it is in, unless that draft came late (conversation_store.py
\* record_analysis).
THEOREM NothingNewIsHidden == ConversationsSpec => []NewMailIsNotHidden
  BY ConversationsInvInit, ConversationsInvNext, NotHiddenInit, NotHiddenNext, PTL
     DEF ConversationsSpec

-----------------------------------------------------------------------------
(* One follow-up draft for a wait.                                          *)

\* What was drafted or is in a pass is a wait that has begun.
Begun ==
  /\ \A f \in FollowUps : followUps[f] # NoDraft => followUps[f][2] <= waits[followUps[f][1]]
  /\ \A p \in Passes : \A w \in passes[p] : w[2] <= waits[w[1]]

\* Two drafts, two passes, or a draft and a pass: one wait only if it is shared.
OncePerWait ==
  /\ \A f, g \in FollowUps :
       f # g /\ followUps[f] = followUps[g] /\ followUps[f] # NoDraft => followUps[f] \in shared
  /\ \A p \in Passes, f \in FollowUps : followUps[f] \in passes[p] => followUps[f] \in shared
  /\ \A p, q \in Passes : p # q => passes[p] \cap passes[q] \subseteq shared

\* The row of a wait that has its draft says so.
DraftOnRow ==
  \A f \in FollowUps, t \in Threads :
    followUps[f] = <<t, threads[t].wait>> /\ threads[t].status = "awaiting_reply" =>
      threads[t].draft # NoDraft \/ followUps[f] \in shared

FollowUpInv == Begun /\ OncePerWait /\ DraftOnRow

LEMMA FollowUpInit == ConversationsInit => FollowUpInv
<1>. SUFFICES ASSUME ConversationsInit PROVE FollowUpInv
  OBVIOUS
<1>1. Begun /\ OncePerWait
  BY DEF ConversationsInit, Begun, OncePerWait
<1>2. DraftOnRow
  BY DEF ConversationsInit, DraftOnRow, NoThread
<1>3. QED
  BY <1>1, <1>2 DEF FollowUpInv

\* Drafts and passes are about waits.
LEMMA AboutWaits ==
  ASSUME ConversationsTypeOK
  PROVE  /\ \A f \in FollowUps : followUps[f] # NoDraft =>
              /\ followUps[f] \in Wait /\ followUps[f][1] \in Threads /\ followUps[f][2] \in Nat
              /\ followUps[f] = <<followUps[f][1], followUps[f][2]>>
         /\ \A p \in Passes : \A w \in passes[p] :
              /\ w \in Wait /\ w[1] \in Threads /\ w[2] \in Nat /\ w = <<w[1], w[2]>>
         /\ NoDraft \notin Wait
  BY ConversationsAssumption DEF ConversationsTypeOK, Wait

\* A step that leaves drafts and passes as they are, and of one row at most
\* lets it keep state and draft, end its wait, or begin another.
LEMMA RowStep ==
  ASSUME ConversationsInv, FollowUpInv, NEW t \in Threads, NEW row \in Thread,
         threads' = [threads EXCEPT ![t] = row],
         UNCHANGED <<followUps, passes, shared>>,
         \/ /\ waits' = waits
            /\ row.status = threads[t].status /\ row.wait = threads[t].wait
            /\ row.draft = threads[t].draft \/ row.status # "awaiting_reply"
         \/ waits' = waits /\ row.status # "awaiting_reply"
         \/ waits' = [waits EXCEPT ![t] = @ + 1] /\ row.wait = waits[t] + 1
  PROVE  FollowUpInv'
<1>0. ConversationsTypeOK
  BY DEF ConversationsInv
<1>1. /\ \A u \in Threads : waits[u] \in Nat /\ waits'[u] \in Nat /\ waits[u] <= waits'[u]
      /\ \A u \in Threads \ {t} : threads'[u] = threads[u]
      /\ threads'[t] = row
  BY <1>0, ConversationsAssumption DEF ConversationsTypeOK
<1>2. Begun'
  BY <1>0, <1>1, AboutWaits DEF FollowUpInv, Begun
<1>3. OncePerWait'
  BY DEF FollowUpInv, OncePerWait
<1>4. ASSUME NEW f \in FollowUps,
             followUps[f] = <<t, row.wait>>, row.status = "awaiting_reply"
      PROVE  row.draft # NoDraft \/ followUps[f] \in shared
  <2>1. CASE waits' = [waits EXCEPT ![t] = @ + 1] /\ row.wait = waits[t] + 1
    <3>1. followUps[f] # NoDraft /\ followUps[f][1] = t /\ followUps[f][2] = waits[t] + 1
      <4>1. row.wait \in 1..Waits \/ row.wait = 0
        BY ConversationsAssumption DEF Thread
      <4>2. waits[t] \in Nat
        BY <1>1
      <4>3. <<t, row.wait>> \in Wait
        BY <2>1, <4>1, <4>2 DEF Wait
      <4>4. QED
        BY <1>0, <1>4, <2>1, <4>3, AboutWaits
    <3>2. QED
      BY <1>1, <3>1 DEF FollowUpInv, Begun
  <2>2. QED
    BY <1>4, <2>1 DEF FollowUpInv, DraftOnRow
<1>5. DraftOnRow'
  BY <1>1, <1>4 DEF FollowUpInv, DraftOnRow
<1>6. QED
  BY <1>2, <1>3, <1>5 DEF FollowUpInv

LEMMA FollowUpNext ==
  ConversationsInv /\ FollowUpInv /\ [ConversationsNext]_conversationVars => FollowUpInv'
<1>. SUFFICES ASSUME ConversationsInv, FollowUpInv, [ConversationsNext]_conversationVars
              PROVE  FollowUpInv'
  OBVIOUS
<1>0. ConversationsTypeOK /\ WaitsNumbered /\ Begun /\ OncePerWait /\ DraftOnRow
  BY DEF ConversationsInv, FollowUpInv
<1>1. ASSUME NEW t \in Threads, NEW m \in Message, NEW s \in Statuses, RecordAnalysis(t, m, s)
      PROVE  FollowUpInv'
  <2>1. PICK row \in Thread :
           /\ threads' = [threads EXCEPT ![t] = row]
           /\ \/ /\ waits' = waits
                 /\ row.status = threads[t].status
                 /\ row.wait = threads[t].wait
                 /\ \/ row.draft = threads[t].draft
                    \/ row.draft = NoDraft /\ row.status # "awaiting_reply"
              \/ waits' = waits /\ row.status = "fyi"
              \/ waits' = [waits EXCEPT ![t] = @ + 1] /\ row.wait = waits[t] + 1
    BY <1>1, AnalysedRow
  <2>2. UNCHANGED <<followUps, passes, shared>>
    BY <1>1 DEF RecordAnalysis
  <2>3. QED
    BY <2>1, <2>2, RowStep
<1>2. CASE Replying
  <2>1. PICK t \in Threads, m \in Message : ReplySent(t, m) \/ ReplySentUnrecorded(t, m)
    BY <1>2 DEF Replying
  <2>2. UNCHANGED <<followUps, passes, shared>>
    BY <2>1 DEF ReplySent, ReplySentUnrecorded
  <2>3. \/ UNCHANGED <<threads, waits>>
        \/ /\ waits' = [waits EXCEPT ![t] = @ + 1]
           /\ \E row \in Thread :
                threads' = [threads EXCEPT ![t] = row] /\ row.wait = waits[t] + 1
    BY <2>1, RepliedRow DEF ReplySentUnrecorded
  <2>4. CASE UNCHANGED <<threads, waits>>
    BY <2>2, <2>4 DEF FollowUpInv, Begun, OncePerWait, DraftOnRow
  <2>5. QED
    BY <2>2, <2>3, <2>4, RowStep
<1>3. CASE Timing
  <2>1. PICK t \in Threads :
          MessageArrives(t) \/ Snooze(t) \/ SnoozeEnds(t) \/ DeadlinePasses(t)
    BY <1>3 DEF Timing
  <2>2. PICK row \in Thread :
           /\ threads' = [threads EXCEPT ![t] = row]
           /\ row.status = threads[t].status
           /\ row.wait = threads[t].wait /\ row.draft = threads[t].draft
    BY <2>1, TimedRow
  <2>3. UNCHANGED <<waits, followUps, passes, shared>>
    BY <2>1 DEF MessageArrives, Snooze, SnoozeEnds, DeadlinePasses
  <2>4. QED
    BY <2>2, <2>3, RowStep
<1>4. CASE GivingUp
  <2>1. /\ UNCHANGED <<threads, waits, followUps, shared>>
        /\ \A q \in Passes : passes'[q] \subseteq passes[q]
    BY <1>0, <1>4 DEF GivingUp, PassesDie, FollowUpFails, ConversationsTypeOK
  <2>2. Begun' /\ DraftOnRow'
    BY <1>0, <2>1 DEF Begun, DraftOnRow
  <2>3. OncePerWait'
    BY <1>0, <2>1 DEF OncePerWait
  <2>4. QED
    BY <2>2, <2>3 DEF FollowUpInv
<1>5. ASSUME NEW p \in Passes, PassBegin(p) PROVE FollowUpInv'
  <2>1. /\ passes' = [passes EXCEPT ![p] = DueWaits]
        /\ shared' = shared \cup (DueWaits \cap UNION {passes[q] : q \in Passes})
        /\ UNCHANGED <<threads, waits, followUps>>
    BY <1>5 DEF PassBegin
  <2>2. passes'[p] = DueWaits /\ \A q \in Passes \ {p} : passes'[q] = passes[q]
    BY <1>0, <2>1 DEF ConversationsTypeOK
  <2>3. Begun'
    <3>1. ASSUME NEW w \in DueWaits PROVE w[2] <= waits[w[1]]
      BY <1>0, DueRow DEF WaitsNumbered
    <3>2. QED
      BY <1>0, <2>1, <2>2, <3>1 DEF Begun
  <2>4. OncePerWait'
    <3>1. ASSUME NEW f \in FollowUps, followUps[f] \in DueWaits
          PROVE  followUps[f] \in shared
      <4>1. PICK t \in Threads : /\ followUps[f] = <<t, threads[t].wait>>
                                 /\ threads[t].status = "awaiting_reply"
                                 /\ threads[t].draft = NoDraft
        BY <3>1, DueRow
      <4>2. QED
        BY <1>0, <4>1 DEF DraftOnRow
    <3>2. ASSUME NEW q \in Passes \ {p} PROVE DueWaits \cap passes[q] \subseteq shared'
      BY <2>1
    <3>3. shared \subseteq shared'
      BY <2>1
    <3>4. QED
      BY <1>0, <2>1, <2>2, <3>1, <3>2, <3>3 DEF OncePerWait
  <2>5. DraftOnRow'
    BY <1>0, <2>1 DEF DraftOnRow
  <2>6. QED
    BY <2>3, <2>4, <2>5 DEF FollowUpInv
<1>6. ASSUME NEW p \in Passes, NEW w \in passes[p], NEW f \in FollowUps,
             DraftFollowUp(p, w, f) \/ DieInFollowUp(p, w, f)
      PROVE  FollowUpInv'
  <2> DEFINE t == w[1]
  <2>1. /\ followUps[f] = NoDraft /\ followUps' = [followUps EXCEPT ![f] = w] /\ waits' = waits
    BY <1>6 DEF DraftFollowUp, DieInFollowUp
  <2>2. w \in Wait /\ t \in Threads /\ w = <<t, w[2]>> /\ w # NoDraft
    BY <1>0, AboutWaits
  <2>3. followUps'[f] = w /\ \A g \in FollowUps \ {f} : followUps'[g] = followUps[g]
    BY <1>0, <2>1 DEF ConversationsTypeOK
  <2>4. CASE DieInFollowUp(p, w, f)
    <3>1. /\ threads' = threads /\ shared' = shared \cup {w}
          /\ \A q \in Passes : passes'[q] = {}
      BY <2>4 DEF DieInFollowUp
    <3>2. Begun'
      BY <1>0, <2>1, <2>3, <3>1 DEF Begun
    <3>3. OncePerWait'
      BY <1>0, <2>3, <3>1 DEF OncePerWait
    <3>4. DraftOnRow'
      BY <1>0, <2>3, <3>1 DEF DraftOnRow
    <3>5. QED
      BY <3>2, <3>3, <3>4 DEF FollowUpInv
  <2>5. CASE DraftFollowUp(p, w, f)
    <3>1. /\ threads' = [threads EXCEPT ![t].draft = f] /\ shared' = shared
          /\ passes' = [passes EXCEPT ![p] = @ \ {w}]
      BY <2>5 DEF DraftFollowUp
    <3>2. /\ \A u \in Threads \ {t} : threads'[u] = threads[u]
          /\ threads'[t].status = threads[t].status /\ threads'[t].wait = threads[t].wait
          /\ threads'[t].draft = f
      BY <1>0, <2>2, <3>1 DEF ConversationsTypeOK, Thread
    <3>3. passes'[p] = passes[p] \ {w} /\ \A q \in Passes \ {p} : passes'[q] = passes[q]
      BY <1>0, <3>1 DEF ConversationsTypeOK
    <3>4. f # NoDraft
      BY ConversationsAssumption
    <3>5. Begun'
      BY <1>0, <2>1, <2>3, <3>3 DEF Begun
    <3>6. OncePerWait'
      <4>1. \A g \in FollowUps \ {f} : followUps[g] = w => w \in shared
        BY <1>0 DEF OncePerWait
      <4>2. \A q \in Passes : w \in passes'[q] => w \in shared
        BY <1>0, <3>3 DEF OncePerWait
      <4>3. \A q \in Passes : passes'[q] \subseteq passes[q]
        BY <3>3
      <4>4. QED
        BY <1>0, <2>3, <3>1, <4>1, <4>2, <4>3 DEF OncePerWait
    <3>7. DraftOnRow'
      BY <1>0, <2>2, <2>3, <3>1, <3>2, <3>4 DEF DraftOnRow
    <3>8. QED
      BY <3>5, <3>6, <3>7 DEF FollowUpInv
  <2>6. QED
    BY <1>6, <2>4, <2>5
<1>7. CASE UNCHANGED conversationVars
  BY <1>7 DEF conversationVars, FollowUpInv, Begun, OncePerWait, DraftOnRow
<1>8. QED
  BY <1>1, <1>2, <1>3, <1>4, <1>5, <1>6, <1>7, ConversationSteps

\* A set with more than one element holds two that differ.
LEMMA TwoDrafts ==
  ASSUME NEW S, Cardinality(S) > 1
  PROVE  \E f, g \in S : f # g
<1>1. CASE S = {}
  <2>1. Cardinality(S) = 0
    BY <1>1, FS_EmptySet
  <2>2. QED
    BY <2>1
<1>2. CASE S # {} /\ \A f, g \in S : f = g
  <2>1. PICK f \in S : TRUE
    BY <1>2
  <2>2. S = {f}
    BY <1>2, <2>1
  <2>3. Cardinality(S) = 1
    BY <2>2, FS_Singleton
  <2>4. QED
    BY <2>3
<1>3. QED
  BY <1>1, <1>2

LEMMA FollowUpOnce == ConversationsInv /\ FollowUpInv => OneFollowUpPerWait
<1>. SUFFICES ASSUME ConversationsInv, FollowUpInv, NEW w \in Wait,
                     Cardinality(DraftsFor(w)) > 1
              PROVE  w \in shared
  BY DEF OneFollowUpPerWait
<1>1. PICK f, g \in DraftsFor(w) : f # g
  BY TwoDrafts
<1>2. f \in FollowUps /\ g \in FollowUps /\ followUps[f] = w /\ followUps[g] = w
  BY DEF DraftsFor
<1>3. w # NoDraft
  BY AboutWaits DEF ConversationsInv
<1>4. QED
  BY <1>1, <1>2, <1>3 DEF FollowUpInv, OncePerWait

\* However many passes find a wait due, it gets one follow-up draft, unless two
\* had its row in hand at once or the process died between the draft and the row
\* (agent_runtime.py _reconcile_followups).
THEOREM FollowUpsAreNotRepeated == ConversationsSpec => []OneFollowUpPerWait
  BY ConversationsInvInit, ConversationsInvNext, FollowUpInit, FollowUpNext, FollowUpOnce, PTL
     DEF ConversationsSpec
=============================================================================
