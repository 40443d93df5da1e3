------------------------------- MODULE OwnerProofs -------------------------------
(***************************************************************************)
(* Proofs about OwnerLearning, Undo and Accounts, where the gateway must do  *)
(* as the owner says: what the owner said about learning holds in every      *)
(* file, what the owner takes back is taken back once, and what the owner    *)
(* enters stays entered and keeps its credential, but for the exceptions     *)
(* the history variables name.  For any preferences, windows, evidence,      *)
(* mails, tokens, mailboxes, sections, values, sign-ins and requests.        *)
(***************************************************************************)
EXTENDS OwnerLearning, Undo, Accounts, TLAPS

\* The actions in groups: corrections and decisions, editor, profile, removals.
Judgements == \E p \in Preferences : \/ AcceptLearning(p) \/ DieInAccept(p)
                                       \/ RejectLearning(p) \/ DieInReject(p)
Editing == \E text \in Memory : SaveEditor(text)
Profiling == ConsentGiven \/ DieInProfile \/ Activate
             \/ \E a \in Analyses : PreviewBegin(a) \/ PreviewEnd(a)
Removing == \E left \in {ProfileDeclined, NoProfile} : Withdraw(left) \/ DieInWithdraw(left)

LEMMA LearningSteps ==
  LearningNext <=> \/ \E e \in Correction : Correct(e)
                   \/ Judgements \/ Editing \/ Profiling \/ Removing
  BY DEF LearningNext, Judgements, Editing, Profiling, Removing

\* A candidate is a preference that was not decided on, by an owner who consents.
LEMMA CandidateIsOpen ==
  ASSUME NEW p \in Candidates
  PROVE  p \in Preferences /\ profile.consent /\ decisions[p] = "open"
  BY DEF Candidates, Suggested, Preferences

\* What a withdrawal leaves of the profile.
LEMMA NothingLeft ==
  ASSUME NEW left \in {ProfileDeclined, NoProfile}
  PROVE  left \in Profile /\ ~left.consent /\ ~left.preview /\ ~left.active
<1>1. NoProfile \in Profile /\ ~NoProfile.consent /\ ~NoProfile.preview /\ ~NoProfile.active
  BY DEF NoProfile, Profile
<1>2. ProfileDeclined.status = "declined" /\ ProfileDeclined.consent = NoProfile.consent
      /\ ProfileDeclined.preview = NoProfile.preview /\ ProfileDeclined.active = NoProfile.active
  BY DEF ProfileDeclined, NoProfile
<1>3. ProfileDeclined \in Profile
  BY <1>1 DEF ProfileDeclined, Profile
<1>4. QED
  BY <1>1, <1>2, <1>3

\* The learned section is the last one, and no learnt line stands elsewhere.
InOrder(text) == text.section # "middle" /\ text.outside = {}

\* A line added to MEMORY.md leaves its sections as they are.
LEMMA AppendedText ==
  ASSUME memory \in Memory, NEW p \in Preferences
  PROVE  /\ Appended(p) \in Memory
         /\ Lines(Appended(p)) \subseteq Lines(memory) \cup {p}
         /\ InOrder(memory) => InOrder(Appended(p))
<1>1. CASE p \in Lines(memory)
  BY <1>1 DEF Appended
<1>2. CASE p \notin Lines(memory) /\ memory.section = "middle"
  <2> DEFINE text == [memory EXCEPT !.outside = @ \cup {p}]
  <2>1. /\ text.section = "middle" /\ text.inside = memory.inside
        /\ text.outside = memory.outside \cup {p}
    BY <1>2 DEF Memory
  <2>2. text \in Memory
    BY <1>2, <2>1 DEF Memory, Lines
  <2>3. Appended(p) = text
    BY <1>2 DEF Appended
  <2> HIDE DEF text
  <2>4. QED
    BY <1>2, <2>1, <2>2, <2>3 DEF Lines, InOrder
<1>3. CASE p \notin Lines(memory) /\ memory.section # "middle"
  <2> DEFINE text == [memory EXCEPT !.section = "last", !.inside = @ \cup {p}]
  <2>1. /\ text.section = "last" /\ text.inside = memory.inside \cup {p}
        /\ text.outside = memory.outside
    BY DEF Memory
  <2>2. text \in Memory
    BY <1>3, <2>1 DEF Memory, Lines
  <2>3. Appended(p) = text
    BY <1>3 DEF Appended
  <2> HIDE DEF text
  <2>4. QED
    BY <2>1, <2>2, <2>3 DEF Lines, InOrder
<1>4. QED
  BY <1>1, <1>2, <1>3

\* A text cut short has no line more and its sections in no other order.
LEMMA TornText ==
  ASSUME NEW text \in Memory, NEW t \in Torn(text)
  PROVE  t \in Memory /\ Lines(t) \subseteq Lines(text) /\ (InOrder(text) => InOrder(t))
  BY DEF Torn, Lines, InOrder, Memory

LEMMA SectionRemoved ==
  ASSUME memory \in Memory
  PROVE  /\ WithoutSection \in Memory
         /\ InOrder(memory) => InOrder(WithoutSection)
         /\ WithoutSection.inside = {} /\ WithoutSection.outside = memory.outside
         /\ Lines(WithoutSection) = memory.outside
<1>1. /\ WithoutSection.section = "none" /\ WithoutSection.inside = {}
      /\ WithoutSection.outside = memory.outside
  BY DEF WithoutSection, Memory
<1>2. WithoutSection \in Memory
  BY <1>1 DEF WithoutSection, Memory
<1>3. QED
  BY <1>1, <1>2 DEF Lines, InOrder

\* The texts that a judgement, a save or a withdrawal may leave.
LEMMA TextAfter ==
  ASSUME LearningTypeOK, [LearningNext]_learningVars
  PROVE  memory' \in Memory /\ (InOrder(memory) => InOrder(memory') \/ rearranged')
<1>0. memory \in Memory
  BY DEF LearningTypeOK
<1>1. CASE memory' = memory
  BY <1>0, <1>1
<1>2. ASSUME NEW p \in Preferences, AcceptLearning(p) \/ DieInAccept(p)
      PROVE  memory' = memory \/ memory' = Appended(p) \/ memory' \in Torn(Appended(p))
  BY <1>2 DEF AcceptLearning, DieInAccept
<1>3. ASSUME NEW text \in Memory, SaveEditor(text)
      PROVE  memory' \in Memory /\ (InOrder(memory') \/ rearranged')
  BY <1>3 DEF SaveEditor, InOrder
<1>4. ASSUME NEW left, Withdraw(left) \/ DieInWithdraw(left)
      PROVE  memory' = memory \/ memory' = WithoutSection \/ memory' \in Torn(WithoutSection)
  BY <1>4 DEF Withdraw, DieInWithdraw, Forget
<1>5. QED
  <2>1. CASE \E p \in Preferences : AcceptLearning(p) \/ DieInAccept(p)
    BY <1>0, <1>2, <2>1, AppendedText, TornText
  <2>2. CASE Editing
    BY <1>3, <2>2 DEF Editing
  <2>3. CASE Removing
    <3>1. memory' = memory \/ memory' = WithoutSection \/ memory' \in Torn(WithoutSection)
      BY <1>4, <2>3 DEF Removing
    <3>2. QED
      BY <1>0, <3>1, SectionRemoved, TornText
  <2>4. CASE Profiling \/ (\E e \in Correction : Correct(e)) \/ UNCHANGED learningVars
             \/ \E p \in Preferences : RejectLearning(p) \/ DieInReject(p)
    BY <1>1, <2>4
       DEF Profiling, ConsentGiven, DieInProfile, Activate, PreviewBegin, PreviewEnd, Correct,
           RejectLearning, DieInReject, learningVars
  <2>5. QED
    BY <2>1, <2>2, <2>3, <2>4, LearningSteps DEF Judgements

\* The window of corrections does not grow beyond its size.
LEMMA RecordedInWindow ==
  ASSUME LearningTypeOK, NEW e \in Correction
  PROVE  Recorded(e) \in Seq(Correction) /\ Len(Recorded(e)) <= Window
<1>1. feedback \in Seq(Correction) /\ Len(feedback) <= Window /\ Len(feedback) \in Nat
      /\ Window \in Nat \ {0}
  BY LearningAssumption DEF LearningTypeOK
<1>2. CASE Len(feedback) < Window
  BY <1>1, <1>2 DEF Recorded
<1>3. CASE ~(Len(feedback) < Window)
  <2>1. Len(feedback) = Window /\ feedback # << >>
    BY <1>1, <1>3
  <2>2. Tail(feedback) \in Seq(Correction) /\ Len(Tail(feedback)) = Window - 1
    BY <1>1, <2>1
  <2>3. QED
    BY <1>1, <1>3, <2>2 DEF Recorded
<1>4. QED
  BY <1>2, <1>3

-----------------------------------------------------------------------------
(* What is learnt: types.                                                   *)

LEMMA LearningTypeInit == LearningInit => LearningTypeOK
<1>. SUFFICES ASSUME LearningInit PROVE LearningTypeOK
  OBVIOUS
<1>1. NoProfile \in Profile
  BY DEF NoProfile, Profile
<1>2. Undecided \in [Preferences -> {"open", "accepted", "rejected"}]
  BY DEF Undecided
<1>3. << >> \in Seq(Correction) /\ Len(<< >>) <= Window
  BY LearningAssumption
<1>4. NoMemory \in Memory
  BY DEF NoMemory, Memory
<1>5. QED
  BY <1>1, <1>2, <1>3, <1>4 DEF LearningInit, LearningTypeOK

LEMMA LearningTypeNext == LearningTypeOK /\ [LearningNext]_learningVars => LearningTypeOK'
<1>. SUFFICES ASSUME LearningTypeOK, [LearningNext]_learningVars PROVE LearningTypeOK'
  OBVIOUS
<1>0. memory' \in Memory
  BY TextAfter
<1>01. Undecided \in [Preferences -> {"open", "accepted", "rejected"}]
  BY DEF Undecided
<1>02. \A t \in Memory : Lines(t) \subseteq Preferences /\ t.outside \subseteq Preferences
                       /\ t.inside \subseteq Preferences
  BY DEF Lines, Memory
<1>1. ASSUME NEW e \in Correction, Correct(e) PROVE LearningTypeOK'
  BY <1>0, <1>1, RecordedInWindow DEF Correct, LearningTypeOK
<1>2. CASE Judgements
  <2>1. PICK p \in Preferences :
          AcceptLearning(p) \/ DieInAccept(p) \/ RejectLearning(p) \/ DieInReject(p)
    BY <1>2 DEF Judgements
  <2>2. decisions' \in [Preferences -> {"open", "accepted", "rejected"}]
    BY <1>01, <2>1
       DEF AcceptLearning, DieInAccept, RejectLearning, DieInReject, DecisionsTorn, LearningTypeOK
  <2>3. orphaned' \subseteq Preferences
    BY <1>0, <1>02, <2>1
       DEF AcceptLearning, DieInAccept, RejectLearning, DieInReject, DecisionsTorn, LearningTypeOK
  <2>4. /\ UNCHANGED <<profile, feedback, cut, restored, rearranged>>
        /\ analyses' \subseteq Analyses
    BY <2>1 DEF AcceptLearning, DieInAccept, RejectLearning, DieInReject, LearningTypeOK
  <2>5. QED
    BY <1>0, <2>2, <2>3, <2>4 DEF LearningTypeOK
<1>3. CASE Editing
  <2>1. PICK text \in Memory : SaveEditor(text)
    BY <1>3 DEF Editing
  <2>2. QED
    BY <1>0, <1>02, <2>1 DEF SaveEditor, LearningTypeOK
<1>4. CASE Profiling
  <2>1. profile' \in Profile
    BY <1>4, NothingLeft
       DEF Profiling, ConsentGiven, DieInProfile, Activate, PreviewBegin, PreviewEnd,
           LearningTypeOK, Profile
  <2>2. analyses' \subseteq Analyses /\ cut' \in BOOLEAN
    BY <1>4
       DEF Profiling, ConsentGiven, DieInProfile, Activate, PreviewBegin, PreviewEnd,
           LearningTypeOK
  <2>3. UNCHANGED <<feedback, decisions, memory, restored, orphaned, rearranged>>
    BY <1>4
       DEF Profiling, ConsentGiven, DieInProfile, Activate, PreviewBegin, PreviewEnd
  <2>4. QED
    BY <2>1, <2>2, <2>3 DEF LearningTypeOK
<1>5. CASE Removing
  <2>1. PICK left \in {ProfileDeclined, NoProfile} : Withdraw(left) \/ DieInWithdraw(left)
    BY <1>5 DEF Removing
  <2>2. << >> \in Seq(Correction) /\ Len(<< >>) <= Window
    BY LearningAssumption
  <2>3. profile' \in Profile /\ cut' \in BOOLEAN /\ analyses' \subseteq Analyses
        /\ rearranged' = rearranged
    BY <2>1, NothingLeft DEF Withdraw, DieInWithdraw, Forget, LearningTypeOK
  <2>4. /\ feedback' \in Seq(Correction) /\ Len(feedback') <= Window
        /\ decisions' \in [Preferences -> {"open", "accepted", "rejected"}]
    BY <1>01, <2>1, <2>2 DEF Withdraw, DieInWithdraw, Forget, DecisionsTorn, LearningTypeOK
  <2>5. orphaned' \subseteq Preferences /\ restored' \subseteq Preferences
    BY <1>0, <1>02, <2>1 DEF Withdraw, DieInWithdraw, Forget, DecisionsTorn, LearningTypeOK
  <2>6. QED
    BY <1>0, <2>3, <2>4, <2>5 DEF LearningTypeOK
<1>6. CASE UNCHANGED learningVars
  BY <1>6 DEF learningVars, LearningTypeOK
<1>7. QED
  BY <1>1, <1>2, <1>3, <1>4, <1>5, <1>6, LearningSteps

\* Every reachable state of what is learnt is well typed; the window of
\* corrections never grows beyond its size (brain.py _read_jsonl_recent).
THEOREM LearningTypeCorrect == LearningSpec => []LearningTypeOK
  BY LearningTypeInit, LearningTypeNext, PTL DEF LearningSpec

-----------------------------------------------------------------------------
(* The owner's word.                                                        *)

\* Only what was accepted is in MEMORY.md, but for the named exceptions.
OnlyAcceptedIsLearned ==
  \A p \in Preferences :
    decisions[p] # "accepted" => p \notin Lines(memory) \/ p \in restored \cup orphaned

\* As long as the owner rearranges nothing, a withdrawal finds every learnt line.
SectionFound == InOrder(memory) \/ rearranged

LearningInv == NothingLearntWithoutConsent /\ OnlyAcceptedIsLearned /\ SectionFound

LEMMA LearningInvInit == LearningInit => LearningInv
  BY DEF LearningInit, LearningInv, NothingLearntWithoutConsent, OnlyAcceptedIsLearned,
         SectionFound, InOrder, Lines, NoMemory, NoProfile

LEMMA FoundNext ==
  LearningTypeOK /\ SectionFound /\ [LearningNext]_learningVars => SectionFound'
<1>. SUFFICES ASSUME LearningTypeOK, SectionFound, [LearningNext]_learningVars PROVE SectionFound'
  OBVIOUS
<1>1. rearranged => rearranged'
  <2>1. CASE Editing
    BY <2>1 DEF Editing, SaveEditor
  <2>2. CASE Profiling
    BY <2>2 DEF Profiling, ConsentGiven, DieInProfile, Activate, PreviewBegin, PreviewEnd
  <2>3. CASE Judgements
    BY <2>3 DEF Judgements, AcceptLearning, DieInAccept, RejectLearning, DieInReject
  <2>4. CASE Removing \/ UNCHANGED learningVars \/ \E e \in Correction : Correct(e)
    BY <2>4 DEF Removing, Withdraw, DieInWithdraw, learningVars, Correct
  <2>5. QED
    BY <2>1, <2>2, <2>3, <2>4, LearningSteps
<1>2. QED
  BY <1>1, TextAfter DEF SectionFound

LEMMA ConsentNext ==
  LearningTypeOK /\ LearningInv /\ [LearningNext]_learningVars => NothingLearntWithoutConsent'
<1>. SUFFICES ASSUME LearningTypeOK, LearningInv, [LearningNext]_learningVars
              PROVE  NothingLearntWithoutConsent'
  OBVIOUS
<1>0. NothingLearntWithoutConsent /\ SectionFound /\ memory \in Memory
  BY DEF LearningInv, LearningTypeOK
<1>. USE DEF NothingLearntWithoutConsent
<1>1. ASSUME NEW e \in Correction, Correct(e) PROVE NothingLearntWithoutConsent'
  BY <1>0, <1>1 DEF Correct
<1>2. CASE Judgements
  <2>1. profile.consent /\ profile' = profile
    BY <1>2, CandidateIsOpen
       DEF Judgements, AcceptLearning, DieInAccept, RejectLearning, DieInReject, Offered
  <2>2. QED
    BY <2>1
<1>3. ASSUME NEW text \in Memory, SaveEditor(text) PROVE NothingLearntWithoutConsent'
  <2>1. /\ memory' = text /\ UNCHANGED <<profile, feedback, cut>>
        /\ restored' = (restored \cap Lines(text)) \cup (text.inside \ memory.inside)
                                                  \cup (text.outside \ Lines(memory))
        /\ rearranged' = (rearranged \/ text.section = "middle" \/ text.outside # {})
    BY <1>3 DEF SaveEditor
  <2>2. memory.inside \subseteq restored => memory'.inside \subseteq restored'
    BY <2>1 DEF Lines
  <2>3. rearranged' \/ memory'.outside = {}
    BY <2>1
  <2>4. QED
    BY <1>0, <2>1, <2>2, <2>3
<1>4. CASE Profiling
  <2>1. CASE ConsentGiven \/ Activate
    BY <2>1 DEF ConsentGiven, Activate, LearningTypeOK, Profile
  <2>2. CASE DieInProfile
    BY <2>2, NothingLeft DEF DieInProfile
  <2>3. ASSUME NEW a \in Analyses, PreviewBegin(a) \/ PreviewEnd(a)
        PROVE  NothingLearntWithoutConsent'
    BY <1>0, <2>3 DEF PreviewBegin, PreviewEnd, MayKeep, LearningTypeOK, Profile
  <2>4. QED
    BY <1>4, <2>1, <2>2, <2>3 DEF Profiling
<1>5. CASE Removing
  <2>1. PICK left \in {ProfileDeclined, NoProfile} : Withdraw(left) \/ DieInWithdraw(left)
    BY <1>5 DEF Removing
  <2>2. profile' = left /\ ~left.preview /\ ~left.active
    BY <2>1, NothingLeft DEF Withdraw, DieInWithdraw
  <2>3. CASE Withdraw(left)
    <3>1. /\ feedback' = << >> /\ memory' = WithoutSection /\ rearranged' = rearranged
      BY <2>3 DEF Withdraw, Forget
    <3>2. QED
      BY <1>0, <2>2, <3>1, SectionRemoved DEF SectionFound, InOrder
  <2>4. CASE DieInWithdraw(left)
    BY <2>2, <2>4 DEF DieInWithdraw
  <2>5. QED
    BY <2>1, <2>3, <2>4
<1>6. CASE UNCHANGED learningVars
  BY <1>0, <1>6 DEF learningVars
<1>7. QED
  BY <1>1, <1>2, <1>3, <1>4, <1>5, <1>6, LearningSteps DEF Editing

LEMMA AcceptedNext ==
  LearningTypeOK /\ OnlyAcceptedIsLearned /\ [LearningNext]_learningVars => OnlyAcceptedIsLearned'
<1>. SUFFICES ASSUME LearningTypeOK, OnlyAcceptedIsLearned, [LearningNext]_learningVars
              PROVE  OnlyAcceptedIsLearned'
  OBVIOUS
<1>0. memory \in Memory /\ decisions \in [Preferences -> {"open", "accepted", "rejected"}]
  BY DEF LearningTypeOK
<1>. USE DEF OnlyAcceptedIsLearned
<1>1. ASSUME NEW e \in Correction, Correct(e) PROVE OnlyAcceptedIsLearned'
  BY <1>1 DEF Correct
<1>2. ASSUME DecisionsTorn PROVE OnlyAcceptedIsLearned'
  BY <1>2 DEF DecisionsTorn
<1>3. ASSUME NEW p \in Preferences, AcceptLearning(p) PROVE OnlyAcceptedIsLearned'
  <2>1. /\ Lines(memory') \subseteq Lines(memory) \cup {p}
        /\ decisions' = [decisions EXCEPT ![p] = "accepted"]
        /\ orphaned' = orphaned \ {p} /\ restored' = restored
    BY <1>0, <1>3, AppendedText DEF AcceptLearning
  <2>2. QED
    BY <1>0, <2>1
<1>4. ASSUME NEW p \in Preferences, DieInAccept(p) PROVE OnlyAcceptedIsLearned'
  <2>1. CASE DecisionsTorn
    BY <1>2, <2>1
  <2>2. CASE ~DecisionsTorn
    <3>1. /\ memory' = memory \/ memory' \in Torn(Appended(p))
          /\ orphaned' = (orphaned \cup {p}) \cap Lines(memory')
          /\ UNCHANGED <<decisions, restored>>
      BY <1>4, <2>2 DEF DieInAccept
    <3>2. Lines(memory') \subseteq Lines(memory) \cup {p}
      BY <1>0, <3>1, AppendedText, TornText
    <3>3. QED
      BY <3>1, <3>2
  <2>3. QED
    BY <2>1, <2>2
<1>5. ASSUME NEW p \in Preferences, RejectLearning(p) PROVE OnlyAcceptedIsLearned'
  <2>1. decisions[p] = "open"
    BY <1>5, CandidateIsOpen DEF RejectLearning, Offered
  <2>2. QED
    BY <1>0, <1>5, <2>1 DEF RejectLearning
<1>6. ASSUME NEW p \in Preferences, DieInReject(p) PROVE OnlyAcceptedIsLearned'
  BY <1>2, <1>6 DEF DieInReject
<1>7. ASSUME NEW text \in Memory, SaveEditor(text) PROVE OnlyAcceptedIsLearned'
  BY <1>7 DEF SaveEditor, Lines
<1>8. CASE Profiling
  BY <1>8 DEF Profiling, ConsentGiven, DieInProfile, Activate, PreviewBegin, PreviewEnd
<1>9. ASSUME NEW left, Withdraw(left) PROVE OnlyAcceptedIsLearned'
  <2>1. Lines(memory') = memory.outside /\ orphaned' = memory.outside
    BY <1>0, <1>9, SectionRemoved DEF Withdraw, Forget
  <2>2. QED
    BY <2>1
<1>10. ASSUME NEW left, DieInWithdraw(left) PROVE OnlyAcceptedIsLearned'
  <2>1. CASE DecisionsTorn
    BY <1>2, <2>1
  <2>2. CASE ~DecisionsTorn
    BY <1>10, <2>2 DEF DieInWithdraw
  <2>3. QED
    BY <2>1, <2>2
<1>11. CASE UNCHANGED learningVars
  BY <1>11 DEF learningVars
<1>12. QED
  BY <1>1, <1>3, <1>4, <1>5, <1>6, <1>7, <1>8, <1>9, <1>10, <1>11, LearningSteps
     DEF Judgements, Editing, Removing

\* Without consent nothing learnt is left in any file, however late an analysis
\* ends, and what is on record as rejected is not in MEMORY.md: but for a death amid
\* a write, lines the owner's editor put back, and sections the owner rearranged
\* (brain.py, adaptive_intelligence.py OwnerProfileStore, main_v16.py).
THEOREM OwnersWordStands == LearningSpec => []OwnersWordHolds
<1>1. LearningInv => OwnersWordHolds
  BY DEF LearningInv, OwnersWordHolds, OnlyAcceptedIsLearned, RejectedStaysOut
<1>2. LearningTypeOK /\ LearningInv /\ [LearningNext]_learningVars => LearningInv'
  BY ConsentNext, AcceptedNext, FoundNext DEF LearningInv
<1>3. QED
  BY <1>1, <1>2, LearningTypeInit, LearningTypeNext, LearningInvInit, PTL DEF LearningSpec

-----------------------------------------------------------------------------
(* What the owner takes back.                                               *)

LEMMA UndoTypeInit == UndoInit => UndoTypeOK
<1>. SUFFICES ASSUME UndoInit PROVE UndoTypeOK
  OBVIOUS
<1>1. tokens \in [Tokens -> Token]
  BY DEF UndoInit, Token
<1>2. remote \in [Letters -> Remote]
  BY DEF UndoInit, Remote
<1>3. seen \in [Letters -> BOOLEAN]
  BY DEF UndoInit
<1>4. undoing \in [Undoers -> Tokens \cup {NoToken}] /\ reverts \in [Tokens -> 0..2]
  BY DEF UndoInit
<1>5. answers \subseteq Tokens /\ doubtful \subseteq Tokens
  BY DEF UndoInit
<1>6. QED
  BY <1>1, <1>2, <1>3, <1>4, <1>5 DEF UndoTypeOK

\* What an action makes of a mail, and what undoing it makes of it, is a mail.
LEMMA AfterBefore ==
  ASSUME NEW r \in Remote, NEW action
  PROVE  After(r, action) \in Remote /\ Before(r, action) \in Remote
  BY DEF Remote, After, Before

LEMMA RevertedType ==
  ASSUME UndoTypeOK, NEW k \in Tokens, Reverted(k)
  PROVE  remote' \in [Letters -> Remote] /\ reverts' \in [Tokens -> 0..2]
<1>1. tokens[k].letter \in Letters
  BY DEF UndoTypeOK, Token
<1>2. remote' \in [Letters -> Remote]
  BY <1>1, AfterBefore DEF Reverted, UndoTypeOK
<1>3. reverts' \in [Tokens -> 0..2]
  BY DEF Reverted, UndoTypeOK
<1>4. QED
  BY <1>2, <1>3

\* A request in hand works on a token.
LEMMA TokenInHand ==
  ASSUME UndoTypeOK, NEW u \in Undoers, undoing[u] # NoToken
  PROVE  undoing[u] \in Tokens
  BY DEF UndoTypeOK

LEMMA UndoTypeNext == UndoTypeOK /\ [UndoNext]_undoVars => UndoTypeOK'
<1>. SUFFICES ASSUME UndoTypeOK, [UndoNext]_undoVars PROVE UndoTypeOK'
  OBVIOUS
<1>1. ASSUME NEW m \in Letters, NEW action \in {"mark_read", "archive"}, NEW k \in Tokens,
             AgentActs(m, action, k)
      PROVE  UndoTypeOK'
  <2>1. remote' \in [Letters -> Remote]
    BY <1>1, AfterBefore DEF AgentActs, UndoTypeOK
  <2>2. seen' \in [Letters -> BOOLEAN]
    <3> DEFINE flag == seen[m] \/ action = "mark_read"
    <3>1. flag \in BOOLEAN
      OBVIOUS
    <3>2. seen' = [seen EXCEPT ![m] = flag]
      BY <1>1 DEF AgentActs
    <3> HIDE DEF flag
    <3>3. QED
      BY <3>1, <3>2 DEF UndoTypeOK
  <2>3. tokens' \in [Tokens -> Token]
    <3>1. CASE UNCHANGED tokens
      BY <3>1 DEF UndoTypeOK
    <3>2. CASE tokens' = [tokens EXCEPT ![k] =
                 [status |-> "available", expired |-> FALSE, action |-> action, letter |-> m]]
      BY <3>2 DEF UndoTypeOK, Token
    <3>3. QED
      BY <1>1, <3>1, <3>2 DEF AgentActs
  <2>4. QED
    BY <1>1, <2>1, <2>2, <2>3 DEF AgentActs, UndoTypeOK
<1>2. ASSUME NEW k \in Tokens, WindowEnds(k) PROVE UndoTypeOK'
  BY <1>2 DEF WindowEnds, UndoTypeOK, Token
<1>3. ASSUME NEW u \in Undoers, NEW k \in Tokens, UndoBegin(u, k) PROVE UndoTypeOK'
  BY <1>3 DEF UndoBegin, UndoTypeOK
<1>4. ASSUME NEW u \in Undoers, UndoSucceeds(u) PROVE UndoTypeOK'
  <2> DEFINE k == undoing[u]
  <2>1. k \in Tokens
    BY <1>4, TokenInHand DEF UndoSucceeds
  <2>2. remote' \in [Letters -> Remote] /\ reverts' \in [Tokens -> 0..2]
    BY <1>4, <2>1, RevertedType DEF UndoSucceeds
  <2>3. tokens' \in [Tokens -> Token]
    BY <1>4, <2>1 DEF UndoSucceeds, UndoTypeOK, Token
  <2>4. seen' \in [Letters -> BOOLEAN]
    BY <1>4, <2>1 DEF UndoSucceeds, UndoTypeOK
  <2>5. QED
    BY <1>4, <2>1, <2>2, <2>3, <2>4 DEF UndoSucceeds, UndoTypeOK
<1>5. ASSUME NEW u \in Undoers, UndoFails(u) \/ UndoDies(u) PROVE UndoTypeOK'
  <2> DEFINE k == undoing[u]
  <2>1. k \in Tokens
    BY <1>5, TokenInHand DEF UndoFails, UndoDies
  <2>2. /\ remote' \in [Letters -> Remote] /\ reverts' \in [Tokens -> 0..2]
        /\ doubtful' \subseteq Tokens
    BY <1>5, <2>1, RevertedType DEF UndoFails, UndoDies, UndoTypeOK
  <2>3. QED
    BY <1>5, <2>2 DEF UndoFails, UndoDies, UndoTypeOK
<1>6. ASSUME NEW m \in Letters, NEW r \in Remote, OwnerMoves(m, r) PROVE UndoTypeOK'
  BY <1>6 DEF OwnerMoves, UndoTypeOK
<1>7. ASSUME NEW m \in Letters, FlagSynced(m) PROVE UndoTypeOK'
  BY <1>7 DEF FlagSynced, UndoTypeOK, Remote
<1>8. CASE UNCHANGED undoVars
  BY <1>8 DEF undoVars, UndoTypeOK
<1>9. QED
  BY <1>1, <1>2, <1>3, <1>4, <1>5, <1>6, <1>7, <1>8 DEF UndoNext

\* Every reachable state of the undo service is well typed.
THEOREM UndoTypeCorrect == UndoSpec => []UndoTypeOK
  BY UndoTypeInit, UndoTypeNext, PTL DEF UndoSpec

-----------------------------------------------------------------------------
(* One undo per token.                                                      *)

\* A token that no two requests had in hand and whose undo is not in doubt was
\* not undone as long as it can be, or is being, undone.
FreshTillUndone ==
  \A k \in Tokens :
    /\ tokens[k].status = "absent" => reverts[k] = 0 /\ \A u \in Undoers : undoing[u] # k
    /\ k \notin doubtful =>
         /\ Undoable(k) => reverts[k] = 0
         /\ \A u \in Undoers : undoing[u] = k => reverts[k] = 0
         /\ \A u, v \in Undoers : undoing[u] = k /\ undoing[v] = k => u = v

UndoInv == FreshTillUndone /\ UndoneOnce

LEMMA UndoInvInit == UndoInit => UndoInv
<1>. SUFFICES ASSUME UndoInit PROVE UndoInv
  OBVIOUS
<1>1. \A k \in Tokens : reverts[k] = 0 /\ \A u \in Undoers : undoing[u] # k
  BY UndoAssumption DEF UndoInit
<1>2. FreshTillUndone
  BY <1>1 DEF FreshTillUndone
<1>3. UndoneOnce
  BY <1>1 DEF UndoneOnce, UndoInit
<1>4. QED
  BY <1>2, <1>3 DEF UndoInv

\* Taking an action back counts; a token that was fresh was taken back once.
LEMMA RevertedCounts ==
  ASSUME UndoTypeOK, NEW k \in Tokens, Reverted(k)
  PROVE  /\ reverts'[k] > 0
         /\ reverts[k] = 0 => reverts'[k] = 1
         /\ \A j \in Tokens \ {k} : reverts'[j] = reverts[j]
  BY DEF Reverted, UndoTypeOK

LEMMA UndoInvNext ==
  UndoTypeOK /\ UndoInv /\ [UndoNext]_undoVars => UndoInv'
<1>. SUFFICES ASSUME UndoTypeOK, UndoInv, [UndoNext]_undoVars PROVE UndoInv'
  OBVIOUS
<1>1. ASSUME NEW m \in Letters, NEW action \in {"mark_read", "archive"}, NEW k \in Tokens,
             AgentActs(m, action, k)
      PROVE  UndoInv'
  <2>1. UNCHANGED <<undoing, reverts, answers, doubtful>>
    BY <1>1 DEF AgentActs
  <2>2. ASSUME NEW j \in Tokens
        PROVE  \/ tokens'[j] = tokens[j]
               \/ j = k /\ tokens[k].status = "absent" /\ tokens'[k].status = "available"
    BY <1>1 DEF AgentActs, UndoTypeOK
  <2>3. FreshTillUndone'
    BY <2>1, <2>2 DEF UndoInv, FreshTillUndone, Undoable
  <2>4. QED
    BY <2>1, <2>3 DEF UndoInv, UndoneOnce
<1>2. ASSUME NEW k \in Tokens, WindowEnds(k) PROVE UndoInv'
  <2>1. \A j \in Tokens : tokens'[j].status = tokens[j].status
                          /\ (tokens'[j].expired = tokens[j].expired \/ tokens'[j].expired)
    BY <1>2 DEF WindowEnds, UndoTypeOK, Token
  <2>2. QED
    BY <1>2, <2>1 DEF WindowEnds, UndoInv, FreshTillUndone, UndoneOnce, Undoable
<1>3. ASSUME NEW u \in Undoers, NEW k \in Tokens, UndoBegin(u, k) PROVE UndoInv'
  <2>1. /\ undoing' = [undoing EXCEPT ![u] = k]
        /\ Undoable(k) /\ UNCHANGED <<tokens, reverts, answers>>
        /\ doubtful \subseteq doubtful'
        /\ k \notin doubtful' => \A v \in Undoers : undoing[v] # k
    BY <1>3 DEF UndoBegin
  <2>2. FreshTillUndone'
    BY <2>1 DEF UndoInv, FreshTillUndone, Undoable, UndoTypeOK
  <2>3. QED
    BY <2>1, <2>2 DEF UndoInv, UndoneOnce
<1>4. ASSUME NEW u \in Undoers, UndoSucceeds(u) PROVE UndoInv'
  <2> DEFINE k == undoing[u]
  <2>1. k \in Tokens /\ Reverted(k)
    BY <1>4, TokenInHand DEF UndoSucceeds
  <2>2. /\ undoing' = [undoing EXCEPT ![u] = NoToken]
        /\ answers' = answers \cup {k} /\ doubtful' = doubtful
    BY <1>4 DEF UndoSucceeds
  <2>3. tokens[k].status # "absent"
    BY <2>1 DEF UndoInv, FreshTillUndone
  <2>4. /\ \A j \in Tokens \ {k} : tokens'[j] = tokens[j]
        /\ tokens'[k].status = "absent" <=> tokens[k].status = "absent"
        /\ ~(tokens'[k].status = "available" /\ ~tokens'[k].expired)
    <3>1. tokens' = [tokens EXCEPT ![k].status =
                       IF tokens[k].expired THEN tokens[k].status ELSE "completed"]
      BY <1>4 DEF UndoSucceeds
    <3>2. /\ tokens'[k].status = IF tokens[k].expired THEN tokens[k].status ELSE "completed"
          /\ tokens'[k].expired = tokens[k].expired
          /\ \A j \in Tokens \ {k} : tokens'[j] = tokens[j]
      BY <2>1, <3>1 DEF UndoTypeOK, Token
    <3>3. QED
      BY <2>3, <3>2
  <2>5. FreshTillUndone'
    BY <2>1, <2>2, <2>3, <2>4, RevertedCounts, UndoAssumption
       DEF UndoInv, FreshTillUndone, Undoable, UndoTypeOK
  <2>6. UndoneOnce'
    BY <2>1, <2>2, RevertedCounts DEF UndoInv, FreshTillUndone, UndoneOnce
  <2>7. QED
    BY <2>5, <2>6 DEF UndoInv
<1>5. ASSUME NEW u \in Undoers, UndoFails(u) \/ UndoDies(u) PROVE UndoInv'
  <2> DEFINE k == undoing[u]
  <2>1. k \in Tokens
    BY <1>5, TokenInHand DEF UndoFails, UndoDies
  <2>2. /\ UNCHANGED <<tokens, answers>>
        /\ \A v \in Undoers : undoing'[v] = undoing[v] \/ undoing'[v] = NoToken
    BY <1>5 DEF UndoFails, UndoDies, UndoTypeOK
  <2>3. \/ UNCHANGED <<reverts, doubtful>>
        \/ Reverted(k) /\ doubtful' = doubtful \cup {k}
    BY <1>5 DEF UndoFails, UndoDies
  <2>4. tokens[k].status # "absent"
    BY <2>1, <1>5 DEF UndoInv, FreshTillUndone
  <2>5. CASE UNCHANGED <<reverts, doubtful>>
    BY <2>2, <2>5, UndoAssumption DEF UndoInv, FreshTillUndone, UndoneOnce, Undoable
  <2>6. CASE Reverted(k) /\ doubtful' = doubtful \cup {k}
    <3>1. FreshTillUndone'
      BY <2>1, <2>2, <2>4, <2>6, RevertedCounts, UndoAssumption
         DEF UndoInv, FreshTillUndone, Undoable
    <3>2. UndoneOnce'
      BY <2>1, <2>2, <2>6, RevertedCounts DEF UndoInv, UndoneOnce
    <3>3. QED
      BY <3>1, <3>2 DEF UndoInv
  <2>7. QED
    BY <2>3, <2>5, <2>6
<1>6. ASSUME NEW m \in Letters, NEW r \in Remote, OwnerMoves(m, r) PROVE UndoInv'
  BY <1>6 DEF OwnerMoves, UndoInv, FreshTillUndone, UndoneOnce, Undoable
<1>7. ASSUME NEW m \in Letters, FlagSynced(m) PROVE UndoInv'
  BY <1>7 DEF FlagSynced, UndoInv, FreshTillUndone, UndoneOnce, Undoable
<1>8. CASE UNCHANGED undoVars
  BY <1>8 DEF undoVars, UndoInv, FreshTillUndone, UndoneOnce, Undoable
<1>9. QED
  BY <1>1, <1>2, <1>3, <1>4, <1>5, <1>6, <1>7, <1>8 DEF UndoNext

\* However many requests, expiries, deaths and moves of the owner there are, an
\* action is taken back once, and the owner is told so only if it was, unless
\* two requests had its token in hand or an answer was lost (undo_service.py).
THEOREM NothingIsUndoneTwice == UndoSpec => []UndoneOnce
<1>1. UndoInv => UndoneOnce
  BY DEF UndoInv
<1>2. QED
  BY <1>1, UndoTypeInit, UndoTypeNext, UndoInvInit, UndoInvNext, PTL DEF UndoSpec

-----------------------------------------------------------------------------
(* Accounts.                                                               *)

\* The actions in groups.
RequestsWait ==
  \/ \E r \in Requests, v \in Models : OnboardingBegin(r, v) \/ LlmBegin(r, v)
  \/ \E r \in Requests, m \in Passworded : ProbeBegin(r, m)
  \/ \E r \in Requests, s \in Sessions : Callback(r, s)
  \/ \E r \in Requests, m \in SignedIn : RefreshBegin(r, m)
  \/ \E r \in Requests : RequestFails(r)

SessionSteps == \/ \E s \in Sessions, p \in {"mail", "calendar"}, m \in SignedIn : SignIn(s, p, m)
                \/ \E s \in Sessions : SessionEnds(s)
                \/ \E r \in Requests : Exchange(r) \/ SignInFails(r)
                \/ Die

LEMMA AccountSteps ==
  AccountsNext <=>
    \/ RequestsWait \/ SessionSteps \/ Reset
    \/ \E x \in Sections, v \in Values : UpdateSection(x, v)
    \/ \E r \in Requests :
         \/ OnboardingComplete(r) \/ LlmWrite(r)
         \/ ProbeSucceeds(r) \/ SignInComplete(r) \/ RefreshSave(r) \/ DieInConnect(r)
  BY DEF AccountsNext, SettingsStep, MailboxStep, RequestsWait, SessionSteps

\* The parts of state.json do not share a name.
LEMMA PartNames ==
  /\ "llm" \notin Sections /\ "llm" \notin Mailboxes
  /\ "onboarding" \notin Sections /\ "onboarding" \notin Mailboxes
  /\ Sections \cap Mailboxes = {} /\ Passworded \cap SignedIn = {}
  /\ Default \in Values /\ MaxGrants \in Nat /\ None \notin Credential
  BY AccountsAssumption DEF Credential

\* What a waiting request took along.
LEMMA TakenAlong ==
  ASSUME AccountsTypeOK, NEW r \in Requests
  PROVE  LET q == requests[r] IN
         /\ q.op = "llm" => q.read \in File /\ q.value \in Models
         /\ q.op = "onboard" => q.value \in Models
         /\ q.op = "probe" => q.mailbox \in Passworded
         /\ q.op \in {"exchange", "identify"} => q.session \in Sessions
         /\ q.op \in {"identify", "refresh"} => q.credential \in Credential
         /\ q.op = "refresh" => q.mailbox \in SignedIn
  BY DEF AccountsTypeOK, Request, Idle

-----------------------------------------------------------------------------
(* Types, and that a sign-in under way names its mailbox.                   *)

\* A sign-in that was started is for an account; a request works on one.
SignInsNamed ==
  /\ \A s \in Sessions : sessions[s].status # "absent" => sessions[s].mailbox \in SignedIn
  /\ \A r \in Requests : requests[r].op \in {"exchange", "identify"} =>
       sessions[requests[r].session].status # "absent"

AccountsInv == AccountsTypeOK /\ SignInsNamed

LEMMA FileParts ==
  ASSUME NEW f \in File
  PROVE  /\ \A v \in Models : WithLlm(f, v) \in File
         /\ \A x \in Sections, v \in Values : WithSection(f, x, v) \in File
         /\ \A m \in Mailboxes, record \in Record : WithMailbox(f, m, record) \in File
         /\ \A v \in Models : WithOnboarding(f, v) \in File
         /\ WithoutConfiguration(f) \in File
<1>1. ASSUME NEW v \in Models PROVE WithLlm(f, v) \in File
  BY DEF WithLlm, File
<1>2. ASSUME NEW x \in Sections, NEW v \in Values PROVE WithSection(f, x, v) \in File
  BY DEF WithSection, File
<1>3. ASSUME NEW m \in Mailboxes, NEW record \in Record PROVE WithMailbox(f, m, record) \in File
  BY DEF WithMailbox, File
<1>4. ASSUME NEW v \in Models PROVE WithOnboarding(f, v) \in File
  <2>1. [x \in Sections |-> Default] \in [Sections -> Values \cup {None}]
    BY PartNames
  <2>2. QED
    BY <2>1 DEF WithOnboarding, File
<1>5. WithoutConfiguration(f) \in File
  <2>1. [x \in Sections |-> None] \in [Sections -> Values \cup {None}]
    OBVIOUS
  <2>2. QED
    BY <2>1 DEF WithoutConfiguration, File
<1>6. QED
  BY <1>1, <1>2, <1>3, <1>4, <1>5

LEMMA AccountsInvInit == AccountsInit => AccountsInv
<1>. SUFFICES ASSUME AccountsInit PROVE AccountsInv
  OBVIOUS
<1>1. NoFile \in File
  BY DEF NoFile, File
<1>2. sessions \in [Sessions -> Session]
  BY DEF AccountsInit, Session
<1>3. requests \in [Requests -> Request]
  BY DEF AccountsInit, Request
<1>4. vault \in [Mailboxes -> Credential \cup {None}] /\ grants \in 0..MaxGrants
  BY PartNames DEF AccountsInit
<1>5. AccountsTypeOK
  BY <1>1, <1>2, <1>3, <1>4 DEF AccountsInit, AccountsTypeOK
<1>6. SignInsNamed
  BY DEF AccountsInit, SignInsNamed, Idle
<1>7. QED
  BY <1>5, <1>6 DEF AccountsInv

\* A request that ends, or that begins to wait.
LEMMA EndsType ==
  ASSUME AccountsInv, NEW r \in Requests, Ends(r)
  PROVE  /\ requests' \in [Requests -> Request]
         /\ \A q \in Requests : requests'[q] = requests[q] \/ requests'[q].op = "idle"
  BY DEF Ends, AccountsInv, AccountsTypeOK, Request, Idle

LEMMA SessionAnswered ==
  ASSUME AccountsInv, NEW s \in Sessions, sessions' = Answered(s)
  PROVE  /\ sessions' \in [Sessions -> Session]
         /\ \A i \in Sessions : /\ sessions'[i].mailbox = sessions[i].mailbox
                                /\ i # s => sessions'[i] = sessions[i]
                                /\ i = s => sessions'[i].status = "answered"
  BY DEF Answered, AccountsInv, AccountsTypeOK, Session

\* A request ends and a session is answered: the other sign-ins go on.
LEMMA NamedStill ==
  ASSUME AccountsInv, NEW s \in Sessions, sessions[s].status # "absent",
         \A i \in Sessions : /\ sessions'[i].mailbox = sessions[i].mailbox
                             /\ i # s => sessions'[i] = sessions[i]
                             /\ i = s => sessions'[i].status = "answered",
         \A q \in Requests : requests'[q] = requests[q] \/ requests'[q].op = "idle"
  PROVE  SignInsNamed'
<1>1. ASSUME NEW i \in Sessions, sessions'[i].status # "absent"
      PROVE  sessions'[i].mailbox \in SignedIn
  <2>1. sessions[i].status # "absent"
    BY <1>1
  <2>2. sessions[i].mailbox \in SignedIn
    BY <2>1 DEF AccountsInv, SignInsNamed
  <2>3. QED
    BY <2>2
<1>2. ASSUME NEW q \in Requests, requests'[q].op \in {"exchange", "identify"}
      PROVE  sessions'[requests'[q].session].status # "absent"
  <2>1. requests'[q] = requests[q]
    BY <1>2
  <2>2. requests[q].session \in Sessions /\ sessions[requests[q].session].status # "absent"
    BY <1>2, <2>1, TakenAlong DEF AccountsInv, SignInsNamed
  <2>3. sessions'[requests[q].session].status # "absent"
    <3>1. CASE requests[q].session = s
      BY <3>1
    <3>2. CASE requests[q].session # s
      BY <2>2, <3>2
    <3>3. QED
      BY <3>1, <3>2
  <2>4. QED
    BY <2>1, <2>3
<1>3. QED
  BY <1>1, <1>2 DEF SignInsNamed

LEMMA ProcessDiesType ==
  ASSUME AccountsInv, ProcessDies
  PROVE  /\ sessions' \in [Sessions -> Session] /\ requests' \in [Requests -> Request]
         /\ SignInsNamed'
<1>1. \A s \in Sessions :
        /\ sessions'[s] \in Session
        /\ sessions'[s].mailbox = sessions[s].mailbox
        /\ sessions'[s].status # "absent" => sessions[s].status # "absent"
  BY DEF ProcessDies, AccountsInv, AccountsTypeOK, Session
<1>2. requests' \in [Requests -> Request] /\ \A r \in Requests : requests'[r].op = "idle"
  BY DEF ProcessDies, Request, Idle
<1>3. sessions' \in [Sessions -> Session]
  BY <1>1 DEF ProcessDies
<1>4. SignInsNamed'
  BY <1>1, <1>2 DEF SignInsNamed, AccountsInv
<1>5. QED
  BY <1>2, <1>3, <1>4

\* A request that begins to wait takes along what is there.
LEMMA WaitsType ==
  ASSUME AccountsInv, RequestsWait
  PROVE  /\ UNCHANGED <<file, vault, sessions, grants, redeemed, history>>
         /\ requests' \in [Requests -> Request]
         /\ \A q \in Requests :
              \/ requests'[q] = requests[q]
              \/ requests'[q].op \in {"idle", "onboard", "probe", "refresh"}
              \/ requests'[q].op = "llm" /\ requests'[q].read = file
              \/ /\ requests'[q].op = "exchange"
                 /\ sessions[requests'[q].session].status # "absent"
<1>0. requests \in [Requests -> Request] /\ file \in File
      /\ vault \in [Mailboxes -> Credential \cup {None}]
  BY DEF AccountsInv, AccountsTypeOK
<1>1. ASSUME NEW r \in Requests, NEW v \in Models, OnboardingBegin(r, v) \/ LlmBegin(r, v)
      PROVE  /\ UNCHANGED <<file, vault, sessions, grants, redeemed, history>>
             /\ \E q \in Request : /\ requests' = [requests EXCEPT ![r] = q]
                                   /\ \/ q.op = "onboard"
                                      \/ q.op = "llm" /\ q.read = file
  <2>1. [op |-> "onboard", value |-> v] \in Request
    BY DEF Request
  <2>2. [op |-> "llm", read |-> file, value |-> v] \in Request
    BY <1>0 DEF Request
  <2>3. QED
    BY <1>1, <2>1, <2>2 DEF OnboardingBegin, LlmBegin, Begins
<1>2. ASSUME NEW r \in Requests, NEW m \in Passworded, ProbeBegin(r, m)
      PROVE  /\ UNCHANGED <<file, vault, sessions, grants, redeemed, history>>
             /\ \E q \in Request : /\ requests' = [requests EXCEPT ![r] = q]
                                   /\ q.op = "probe"
  <2>1. [op |-> "probe", mailbox |-> m] \in Request
    BY DEF Request
  <2>2. QED
    BY <1>2, <2>1 DEF ProbeBegin, Begins
<1>3. ASSUME NEW r \in Requests, NEW s \in Sessions, Callback(r, s)
      PROVE  /\ UNCHANGED <<file, vault, sessions, grants, redeemed, history>>
             /\ \E q \in Request : /\ requests' = [requests EXCEPT ![r] = q]
                                   /\ q.op = "exchange"
                                   /\ sessions[q.session].status # "absent"
  <2>1. [op |-> "exchange", session |-> s] \in Request
    BY DEF Request
  <2>2. QED
    BY <1>3, <2>1 DEF Callback, Begins
<1>4. ASSUME NEW r \in Requests, NEW m \in SignedIn, RefreshBegin(r, m)
      PROVE  /\ UNCHANGED <<file, vault, sessions, grants, redeemed, history>>
             /\ \E q \in Request : /\ requests' = [requests EXCEPT ![r] = q]
                                   /\ q.op = "refresh"
  <2>1. vault[m] \in Credential
    BY <1>0, <1>4 DEF RefreshBegin, Mailboxes
  <2>2. [op |-> "refresh", mailbox |-> m, credential |-> vault[m]] \in Request
    BY <2>1 DEF Request
  <2>3. QED
    BY <1>4, <2>2 DEF RefreshBegin, Begins
<1>5. ASSUME NEW r \in Requests, RequestFails(r)
      PROVE  /\ UNCHANGED <<file, vault, sessions, grants, redeemed, history>>
             /\ \E q \in Request : requests' = [requests EXCEPT ![r] = q] /\ q.op = "idle"
  <2>1. Idle \in Request /\ Idle.op = "idle"
    BY DEF Request, Idle
  <2>2. QED
    BY <1>5, <2>1 DEF RequestFails, Ends
<1>6. /\ UNCHANGED <<file, vault, sessions, grants, redeemed, history>>
      /\ \E r \in Requests, q \in Request :
           /\ requests' = [requests EXCEPT ![r] = q]
           /\ \/ q.op \in {"idle", "onboard", "probe", "refresh"}
              \/ q.op = "llm" /\ q.read = file
              \/ q.op = "exchange" /\ sessions[q.session].status # "absent"
  BY <1>1, <1>2, <1>3, <1>4, <1>5 DEF RequestsWait
<1>7. QED
  BY <1>0, <1>6

\* What Connect makes of the vault and the file.
LEMMA ConnectType ==
  ASSUME AccountsInv, NEW m \in Mailboxes, NEW c \in Credential, Connect(m, c)
  PROVE  /\ vault' \in [Mailboxes -> Credential \cup {None}]
         /\ file' \in File /\ wanted' \in File
         /\ reverted' \subseteq Parts /\ outdated' \subseteq SignedIn
<1>1. [calendar |-> c.calendar] \in Record
  BY DEF Record, Credential
<1>2. file' \in File /\ wanted' \in File
  BY <1>1, FileParts DEF Connect, AccountsInv, AccountsTypeOK
<1>3. QED
  BY <1>2 DEF Connect, AccountsInv, AccountsTypeOK

LEMMA AccountsInvNext ==
  AccountsInv /\ [AccountsNext]_accountVars => AccountsInv'
<1>. SUFFICES ASSUME AccountsInv, [AccountsNext]_accountVars PROVE AccountsInv'
  OBVIOUS
<1>0. /\ AccountsTypeOK /\ SignInsNamed
      /\ Passworded \subseteq Mailboxes /\ SignedIn \subseteq Mailboxes
  BY DEF AccountsInv, Mailboxes
<1>1. CASE RequestsWait
  <2>1. AccountsTypeOK'
    BY <1>0, <1>1, WaitsType DEF AccountsTypeOK, history
  <2>2. SignInsNamed'
    BY <1>0, <1>1, WaitsType DEF SignInsNamed
  <2>3. QED
    BY <2>1, <2>2 DEF AccountsInv
<1>2. CASE SessionSteps
  <2>1. ASSUME NEW s \in Sessions, NEW p \in {"mail", "calendar"}, NEW m \in SignedIn,
               SignIn(s, p, m)
        PROVE  AccountsInv'
    <3>1. [status |-> "pending", purpose |-> p, mailbox |-> m] \in Session
      BY DEF Session
    <3>2. AccountsTypeOK'
      BY <1>0, <2>1, <3>1 DEF SignIn, AccountsTypeOK, history
    <3>3. SignInsNamed'
      BY <1>0, <2>1 DEF SignIn, SignInsNamed, AccountsTypeOK
    <3>4. QED
      BY <3>2, <3>3 DEF AccountsInv
  <2>2. ASSUME NEW s \in Sessions, SessionEnds(s) PROVE AccountsInv'
    <3>1. sessions' = Answered(s) /\ sessions[s].status = "pending"
          /\ UNCHANGED <<file, vault, requests, grants, redeemed, history>>
      BY <2>2 DEF SessionEnds
    <3>2. AccountsTypeOK'
      BY <1>0, <3>1, SessionAnswered DEF AccountsTypeOK, history
    <3>3. SignInsNamed'
      BY <3>1, SessionAnswered, NamedStill
    <3>4. QED
      BY <3>2, <3>3 DEF AccountsInv
  <2>3. ASSUME NEW r \in Requests, Exchange(r) PROVE AccountsInv'
    <3> DEFINE s == requests[r].session
               access == sessions[s].purpose = "calendar"
    <3>1. s \in Sessions /\ sessions[s].status # "absent"
      BY <1>0, <2>3, TakenAlong DEF Exchange, Waiting, SignInsNamed
    <3>2. access \in BOOLEAN
      OBVIOUS
    <3>3. /\ grants < MaxGrants /\ grants' = grants + 1
          /\ redeemed' = redeemed \cup {s}
          /\ requests' = [requests EXCEPT ![r] =
                [op |-> "identify", session |-> s,
                 credential |-> [grant |-> grants + 1, calendar |-> access]]]
          /\ UNCHANGED <<file, vault, sessions, history>>
      BY <2>3 DEF Exchange
    <3> HIDE DEF access
    <3>4. grants' \in 0..MaxGrants
      BY <1>0, <3>3, PartNames DEF AccountsTypeOK
    <3>5. [grant |-> grants + 1, calendar |-> access] \in Credential
      BY <3>2, <3>3, <3>4 DEF Credential
    <3>6. [op |-> "identify", session |-> s,
           credential |-> [grant |-> grants + 1, calendar |-> access]] \in Request
      BY <3>1, <3>5 DEF Request
    <3>7. AccountsTypeOK'
      BY <1>0, <3>1, <3>3, <3>4, <3>6 DEF AccountsTypeOK, history
    <3>8. SignInsNamed'
      BY <1>0, <3>1, <3>3 DEF SignInsNamed, AccountsTypeOK
    <3>9. QED
      BY <3>7, <3>8 DEF AccountsInv
  <2>4. ASSUME NEW r \in Requests, SignInFails(r) PROVE AccountsInv'
    <3>1. requests[r].session \in Sessions /\ sessions[requests[r].session].status # "absent"
      BY <1>0, <2>4, TakenAlong DEF SignInFails, SignInsNamed
    <3>2. /\ sessions' = Answered(requests[r].session) /\ Ends(r)
          /\ UNCHANGED <<file, vault, grants, redeemed, history>>
      BY <2>4 DEF SignInFails
    <3>3. AccountsTypeOK'
      BY <1>0, <3>1, <3>2, SessionAnswered, EndsType DEF AccountsTypeOK, history
    <3>4. SignInsNamed'
      BY <3>1, <3>2, SessionAnswered, EndsType, NamedStill
    <3>5. QED
      BY <3>3, <3>4 DEF AccountsInv
  <2>5. CASE Die
    <3>1. ProcessDies /\ UNCHANGED <<file, vault, grants, redeemed, history>>
      BY <2>5 DEF Die
    <3>2. QED
      BY <1>0, <3>1, ProcessDiesType DEF AccountsInv, AccountsTypeOK, history
  <2>6. QED
    BY <1>2, <2>1, <2>2, <2>3, <2>4, <2>5 DEF SessionSteps
<1>3. CASE Reset
  <2>1. AccountsTypeOK'
    BY <1>0, <1>3, FileParts DEF Reset, AccountsTypeOK
  <2>2. QED
    BY <1>0, <1>3, <2>1 DEF Reset, SignInsNamed, AccountsInv
<1>4. ASSUME NEW x \in Sections, NEW v \in Values, UpdateSection(x, v) PROVE AccountsInv'
  <2>1. AccountsTypeOK'
    BY <1>0, <1>4, FileParts DEF UpdateSection, AccountsTypeOK
  <2>2. QED
    BY <1>0, <1>4, <2>1 DEF UpdateSection, SignInsNamed, AccountsInv
<1>5. ASSUME NEW r \in Requests, OnboardingComplete(r) \/ LlmWrite(r) PROVE AccountsInv'
  <2>1. Ends(r) /\ UNCHANGED <<vault, sessions, grants, redeemed, outdated>>
    BY <1>5 DEF OnboardingComplete, LlmWrite
  <2>2. file' \in File /\ wanted' \in File
    <3>1. CASE OnboardingComplete(r)
      <4>1. requests[r].value \in Models
        BY <1>0, <3>1, TakenAlong DEF OnboardingComplete, Waiting
      <4>2. QED
        BY <1>0, <3>1, <4>1, FileParts DEF OnboardingComplete, AccountsTypeOK
    <3>2. CASE LlmWrite(r)
      <4>1. requests[r].value \in Models /\ requests[r].read \in File
        BY <1>0, <3>2, TakenAlong DEF LlmWrite, Waiting
      <4>2. QED
        BY <1>0, <3>2, <4>1, FileParts DEF LlmWrite, AccountsTypeOK
    <3>3. QED
      BY <1>5, <3>1, <3>2
  <2>3. reverted' \subseteq Parts
    BY <1>0, <1>5 DEF OnboardingComplete, LlmWrite, AccountsTypeOK, Differing
  <2>4. AccountsTypeOK'
    BY <1>0, <2>1, <2>2, <2>3, EndsType DEF AccountsTypeOK
  <2>5. SignInsNamed'
    BY <1>0, <2>1, EndsType DEF SignInsNamed
  <2>6. QED
    BY <2>4, <2>5 DEF AccountsInv
<1>6. ASSUME NEW r \in Requests, ProbeSucceeds(r) PROVE AccountsInv'
  <2> DEFINE m == requests[r].mailbox
             c == [grant |-> 0, calendar |-> FALSE]
  <2>1. /\ Connect(m, c) /\ Ends(r) /\ UNCHANGED <<sessions, grants, redeemed>>
        /\ m \in Mailboxes
    BY <1>0, <1>6, TakenAlong DEF ProbeSucceeds, Waiting
  <2>2. c \in Credential
    BY PartNames DEF Credential
  <2> HIDE DEF m, c
  <2>3. AccountsTypeOK'
    BY <1>0, <2>1, <2>2, ConnectType, EndsType DEF AccountsTypeOK
  <2>4. SignInsNamed'
    BY <1>0, <2>1, EndsType DEF SignInsNamed
  <2>5. QED
    BY <2>3, <2>4 DEF AccountsInv
<1>7. ASSUME NEW r \in Requests, SignInComplete(r) PROVE AccountsInv'
  <2> DEFINE s == requests[r].session
  <2>1. /\ Connect(sessions[s].mailbox, requests[r].credential)
        /\ sessions' = Answered(s) /\ Ends(r) /\ UNCHANGED <<grants, redeemed>>
        /\ requests[r].op = "identify"
    BY <1>7 DEF SignInComplete, Waiting
  <2>2. s \in Sessions /\ sessions[s].status # "absent" /\ sessions[s].mailbox \in Mailboxes
        /\ requests[r].credential \in Credential
    BY <1>0, <2>1, TakenAlong DEF SignInsNamed
  <2>3. AccountsTypeOK'
    BY <1>0, <2>1, <2>2, ConnectType, EndsType, SessionAnswered DEF AccountsTypeOK
  <2>4. SignInsNamed'
    BY <2>1, <2>2, SessionAnswered, EndsType, NamedStill
  <2>5. QED
    BY <2>3, <2>4 DEF AccountsInv
<1>8. ASSUME NEW r \in Requests, RefreshSave(r) PROVE AccountsInv'
  <2>1. requests[r].mailbox \in SignedIn /\ requests[r].credential \in Credential
    BY <1>0, <1>8, TakenAlong DEF RefreshSave, Waiting
  <2>2. /\ vault' = [vault EXCEPT ![requests[r].mailbox] = requests[r].credential]
        /\ outdated' \in {outdated, outdated \cup {requests[r].mailbox}}
        /\ Ends(r) /\ UNCHANGED <<file, sessions, grants, redeemed, wanted, reverted>>
    BY <1>8 DEF RefreshSave
  <2>3. AccountsTypeOK'
    BY <1>0, <2>1, <2>2, EndsType DEF AccountsTypeOK
  <2>4. SignInsNamed'
    BY <1>0, <2>2, EndsType DEF SignInsNamed
  <2>5. QED
    BY <2>3, <2>4 DEF AccountsInv
<1>9. ASSUME NEW r \in Requests, DieInConnect(r) PROVE AccountsInv'
  <2>1. ProcessDies /\ UNCHANGED <<file, grants, redeemed, wanted, reverted>>
    BY <1>9 DEF DieInConnect
  <2>2. vault' \in [Mailboxes -> Credential \cup {None}] /\ outdated' \subseteq SignedIn
    <3>1. CASE Waiting(r, "probe")
      <4>1. [grant |-> 0, calendar |-> FALSE] \in Credential
        BY PartNames DEF Credential
      <4>2. QED
        BY <1>0, <1>9, <3>1, <4>1 DEF DieInConnect, Waiting, AccountsTypeOK
    <3>2. CASE Waiting(r, "identify")
      <4>1. requests[r].session \in Sessions /\ requests[r].credential \in Credential
        BY <1>0, <3>2, TakenAlong DEF Waiting
      <4>2. sessions[requests[r].session].mailbox \in SignedIn
        BY <1>0, <3>2, <4>1 DEF Waiting, SignInsNamed
      <4>3. QED
        BY <1>0, <1>9, <3>2, <4>1, <4>2 DEF DieInConnect, Waiting, AccountsTypeOK
    <3>3. QED
      BY <1>9, <3>1, <3>2 DEF DieInConnect
  <2>3. QED
    BY <1>0, <2>1, <2>2, ProcessDiesType DEF AccountsInv, AccountsTypeOK
<1>10. CASE UNCHANGED accountVars
  BY <1>0, <1>10 DEF accountVars, history, AccountsInv, AccountsTypeOK, SignInsNamed
<1>11. QED
  BY <1>1, <1>2, <1>3, <1>4, <1>5, <1>6, <1>7, <1>8, <1>9, <1>10, AccountSteps

\* state.json, vault, sign-ins and requests have their types throughout, and a
\* sign-in under way names the account it is for (oauth_controller.py).
THEOREM AccountsTypeCorrect == AccountsSpec => []AccountsInv
  BY AccountsInvInit, AccountsInvNext, PTL DEF AccountsSpec

-----------------------------------------------------------------------------
(* What the owner set stays set.                                            *)

LEMMA StandsInit == AccountsInit => AcceptedStands
  BY DEF AccountsInit, AcceptedStands, Differing

\* The parts a change leaves alone, in what was read and in what is wanted.
LEMMA PartsLeftAlone ==
  ASSUME NEW f \in File, NEW g \in File
  PROVE  /\ \A v \in Models : Differing(WithLlm(f, v), WithLlm(g, v)) \subseteq Differing(f, g) \ {"llm"}
         /\ \A x \in Sections, v \in Values :
              Differing(WithSection(f, x, v), WithSection(g, x, v)) \subseteq Differing(f, g) \ {x}
         /\ \A m \in Mailboxes, record \in Record :
              Differing(WithMailbox(f, m, record), WithMailbox(g, m, record))
                \subseteq Differing(f, g) \ {m}
         /\ \A v \in Models : Differing(WithOnboarding(f, v), WithOnboarding(g, v))
                              \subseteq Differing(f, g) \cap Mailboxes
         /\ Differing(WithoutConfiguration(f), WithoutConfiguration(g))
              \subseteq Differing(f, g) \cap Mailboxes
<1>1. ASSUME NEW v \in Models
      PROVE  Differing(WithLlm(f, v), WithLlm(g, v)) \subseteq Differing(f, g) \ {"llm"}
  BY PartNames DEF Differing, WithLlm, File, Parts
<1>2. ASSUME NEW x \in Sections, NEW v \in Values
      PROVE  Differing(WithSection(f, x, v), WithSection(g, x, v)) \subseteq Differing(f, g) \ {x}
  BY PartNames DEF Differing, WithSection, File, Parts
<1>3. ASSUME NEW m \in Mailboxes, NEW record \in Record
      PROVE  Differing(WithMailbox(f, m, record), WithMailbox(g, m, record))
               \subseteq Differing(f, g) \ {m}
  BY PartNames DEF Differing, WithMailbox, File, Parts
<1>4. ASSUME NEW v \in Models
      PROVE  Differing(WithOnboarding(f, v), WithOnboarding(g, v))
               \subseteq Differing(f, g) \cap Mailboxes
  BY PartNames DEF Differing, WithOnboarding, File, Parts
<1>5. Differing(WithoutConfiguration(f), WithoutConfiguration(g))
        \subseteq Differing(f, g) \cap Mailboxes
  BY PartNames DEF Differing, WithoutConfiguration, File, Parts
<1>6. QED
  BY <1>1, <1>2, <1>3, <1>4, <1>5

\* Where two contents differ, one of them differs from any third.
LEMMA DifferingSplits ==
  ASSUME NEW f, NEW g, NEW h
  PROVE  Differing(f, h) \subseteq Differing(f, g) \cup Differing(g, h)
  BY DEF Differing

LEMMA StandsAfterConnect ==
  ASSUME AccountsInv, AcceptedStands, NEW m \in Mailboxes, NEW c \in Credential, Connect(m, c)
  PROVE  AcceptedStands'
<1>1. [calendar |-> c.calendar] \in Record
  BY DEF Record, Credential
<1>2. file \in File /\ wanted \in File
  BY DEF AccountsInv, AccountsTypeOK
<1>3. QED
  BY <1>1, <1>2, PartsLeftAlone DEF Connect, AcceptedStands

LEMMA StandsNext ==
  AccountsInv /\ AcceptedStands /\ [AccountsNext]_accountVars => AcceptedStands'
<1>. SUFFICES ASSUME AccountsInv, AcceptedStands, [AccountsNext]_accountVars
              PROVE  AcceptedStands'
  OBVIOUS
<1>0. file \in File /\ wanted \in File
  BY DEF AccountsInv, AccountsTypeOK
<1>1. CASE UNCHANGED <<file, wanted, reverted>>
  BY <1>1 DEF AcceptedStands, Differing
<1>2. CASE RequestsWait \/ SessionSteps
  <2>1. UNCHANGED <<file, wanted, reverted>>
    BY <1>2, WaitsType DEF history, SessionSteps, SignIn, SessionEnds, Exchange, SignInFails, Die
  <2>2. QED
    BY <1>1, <2>1
<1>3. CASE Reset
  BY <1>0, <1>3, PartsLeftAlone DEF Reset, AcceptedStands
<1>4. ASSUME NEW x \in Sections, NEW v \in Values, UpdateSection(x, v) PROVE AcceptedStands'
  BY <1>0, <1>4, PartsLeftAlone DEF UpdateSection, AcceptedStands
<1>5. ASSUME NEW r \in Requests, OnboardingComplete(r) PROVE AcceptedStands'
  <2>1. requests[r].value \in Models
    BY <1>5, TakenAlong DEF AccountsInv, OnboardingComplete, Waiting
  <2>2. QED
    BY <1>0, <1>5, <2>1, PartsLeftAlone DEF OnboardingComplete, AcceptedStands
<1>6. ASSUME NEW r \in Requests, LlmWrite(r) PROVE AcceptedStands'
  <2> DEFINE read == requests[r].read
             v == requests[r].value
  <2>1. v \in Models /\ read \in File
    BY <1>6, TakenAlong DEF AccountsInv, LlmWrite, Waiting
  <2>2. /\ file' = WithLlm(read, v) /\ wanted' = WithLlm(wanted, v)
        /\ reverted' = (reverted \cup Differing(read, file)) \ {"llm"}
    BY <1>6 DEF LlmWrite
  <2> HIDE DEF read, v
  <2>3. Differing(WithLlm(read, v), WithLlm(wanted, v)) \subseteq Differing(read, wanted) \ {"llm"}
    BY <1>0, <2>1, PartsLeftAlone
  <2>4. Differing(read, wanted) \subseteq Differing(read, file) \cup Differing(file, wanted)
    BY DifferingSplits
  <2>5. Differing(file', wanted') = Differing(WithLlm(read, v), WithLlm(wanted, v))
    BY <2>2
  <2>6. Differing(file', wanted') \subseteq reverted'
    BY <2>2, <2>3, <2>4, <2>5 DEF AcceptedStands
  <2>7. QED
    BY <2>6 DEF AcceptedStands
<1>7. ASSUME NEW r \in Requests, ProbeSucceeds(r) PROVE AcceptedStands'
  <2>1. requests[r].mailbox \in Mailboxes
    BY <1>7, TakenAlong DEF AccountsInv, ProbeSucceeds, Waiting, Mailboxes
  <2>2. [grant |-> 0, calendar |-> FALSE] \in Credential
    BY PartNames DEF Credential
  <2>3. QED
    BY <1>7, <2>1, <2>2, StandsAfterConnect DEF ProbeSucceeds
<1>8. ASSUME NEW r \in Requests, SignInComplete(r) PROVE AcceptedStands'
  <2>1. /\ sessions[requests[r].session].mailbox \in Mailboxes
        /\ requests[r].credential \in Credential
    BY <1>8, TakenAlong DEF AccountsInv, SignInsNamed, SignInComplete, Waiting, Mailboxes
  <2>2. QED
    BY <1>8, <2>1, StandsAfterConnect DEF SignInComplete
<1>9. ASSUME NEW r \in Requests, RefreshSave(r) \/ DieInConnect(r) PROVE AcceptedStands'
  BY <1>1, <1>9 DEF RefreshSave, DieInConnect
<1>10. QED
  BY <1>1, <1>2, <1>3, <1>4, <1>5, <1>6, <1>7, <1>8, <1>9, AccountSteps DEF accountVars, history

\* What the owner set stays set until it is changed by name, however requests
\* overlap, but for the parts a change of the model wrote back from an older
\* state.json (main.py update_llm_settings).
THEOREM SettingsStand == AccountsSpec => []AcceptedStands
  BY AccountsInvInit, AccountsInvNext, StandsInit, StandsNext, PTL DEF AccountsSpec

-----------------------------------------------------------------------------
(* A mailbox on record has its credential.                                  *)

\* A mailbox with a password is not recorded with calendar access; and what a
\* change of the model read knows no mailbox without a credential.
RecordsSound(f) ==
  \A m \in Mailboxes : f.mailboxes[m] # None =>
    vault[m] # None /\ (m \in Passworded => ~f.mailboxes[m].calendar)

BackedInv ==
  /\ MailboxBacked
  /\ RecordsSound(file)
  /\ \A r \in Requests : requests[r].op = "llm" => RecordsSound(requests[r].read)

LEMMA BackedInit == AccountsInit => BackedInv
  BY DEF AccountsInit, BackedInv, MailboxBacked, RecordsSound, NoFile, Idle

\* The mailboxes of state.json after each change of it.
LEMMA MailboxesAfter ==
  ASSUME NEW f \in File
  PROVE  /\ \A v : WithLlm(f, v).mailboxes = f.mailboxes
         /\ \A x, v : WithSection(f, x, v).mailboxes = f.mailboxes
         /\ \A v : WithOnboarding(f, v).mailboxes = f.mailboxes
         /\ WithoutConfiguration(f).mailboxes = f.mailboxes
         /\ \A m \in Mailboxes : \A record :
              /\ WithMailbox(f, m, record).mailboxes[m] = record
              /\ \A n \in Mailboxes \ {m} : WithMailbox(f, m, record).mailboxes[n] = f.mailboxes[n]
<1>1. ASSUME NEW v PROVE WithLlm(f, v).mailboxes = f.mailboxes
  BY DEF WithLlm, File
<1>2. ASSUME NEW x, NEW v PROVE WithSection(f, x, v).mailboxes = f.mailboxes
  BY DEF WithSection, File
<1>3. ASSUME NEW v PROVE WithOnboarding(f, v).mailboxes = f.mailboxes
  BY DEF WithOnboarding, File
<1>4. WithoutConfiguration(f).mailboxes = f.mailboxes
  BY DEF WithoutConfiguration, File
<1>5. ASSUME NEW m \in Mailboxes, NEW record
      PROVE  /\ WithMailbox(f, m, record).mailboxes[m] = record
             /\ \A n \in Mailboxes \ {m} : WithMailbox(f, m, record).mailboxes[n] = f.mailboxes[n]
  BY DEF WithMailbox, File
<1>6. QED
  BY <1>1, <1>2, <1>3, <1>4, <1>5

\* A credential that was stored is there; what was read stays sound.
LEMMA SoundStill ==
  ASSUME BackedInv, \A m \in Mailboxes : vault[m] # None => vault'[m] # None,
         \A r \in Requests :
           \/ requests'[r] = requests[r]
           \/ requests'[r].op # "llm"
           \/ requests'[r].read = file
  PROVE  \A r \in Requests : requests'[r].op = "llm" => RecordsSound(requests[r].read)'
<1>1. ASSUME NEW r \in Requests, requests'[r].op = "llm", NEW m \in Mailboxes,
             requests'[r].read.mailboxes[m] # None
      PROVE  /\ vault'[m] # None
             /\ m \in Passworded => ~requests'[r].read.mailboxes[m].calendar
  BY <1>1 DEF BackedInv, RecordsSound
<1>2. QED
  BY <1>1 DEF RecordsSound

\* Steps that leave state.json and vault alone.
LEMMA BackedLeftAlone ==
  ASSUME BackedInv, UNCHANGED <<file, vault, outdated, reverted>>,
         \A r \in Requests :
           \/ requests'[r] = requests[r]
           \/ requests'[r].op # "llm"
           \/ requests'[r].read = file
  PROVE  BackedInv'
<1>1. MailboxBacked' /\ RecordsSound(file)'
  BY DEF BackedInv, MailboxBacked, RecordsSound
<1>2. QED
  BY <1>1, SoundStill DEF BackedInv

\* Steps that change state.json but no mailbox of it, nor what is said of them.
LEMMA BackedSameMailboxes ==
  ASSUME BackedInv, file'.mailboxes = file.mailboxes, UNCHANGED <<vault, outdated>>,
         reverted \cap Mailboxes \subseteq reverted',
         \A r \in Requests : requests'[r] = requests[r] \/ requests'[r].op = "idle"
  PROVE  BackedInv'
<1>1. MailboxBacked' /\ RecordsSound(file)'
  BY DEF BackedInv, MailboxBacked, RecordsSound
<1>2. QED
  BY <1>1, SoundStill DEF BackedInv

LEMMA BackedAfterConnect ==
  ASSUME AccountsInv, BackedInv, NEW m \in Mailboxes, NEW c \in Credential, Connect(m, c),
         m \in Passworded => ~c.calendar,
         \A r \in Requests : requests'[r] = requests[r] \/ requests'[r].op = "idle"
  PROVE  BackedInv'
<1>1. file \in File /\ vault \in [Mailboxes -> Credential \cup {None}] /\ c # None
  BY PartNames DEF AccountsInv, AccountsTypeOK
<1>2. vault'[m] = c /\ \A n \in Mailboxes \ {m} : vault'[n] = vault[n]
  BY <1>1 DEF Connect
<1>3. /\ file'.mailboxes[m].calendar = c.calendar
      /\ \A n \in Mailboxes \ {m} : file'.mailboxes[n] = file.mailboxes[n]
  BY <1>1, MailboxesAfter DEF Connect
<1>4. \A n \in Mailboxes \ {m} : /\ n \in outdated <=> n \in outdated'
                                 /\ n \in reverted <=> n \in reverted'
  BY DEF Connect
<1>5. MailboxBacked'
  <2>1. ASSUME NEW n \in Mailboxes \ {m}, file'.mailboxes[n] # None
        PROVE  /\ vault'[n] # None
               /\ file'.mailboxes[n].calendar =>
                    vault'[n].calendar \/ n \in outdated' \/ n \in reverted'
    BY <1>2, <1>3, <1>4, <2>1 DEF BackedInv, MailboxBacked
  <2>2. vault'[m] # None /\ (file'.mailboxes[m].calendar => vault'[m].calendar)
    BY <1>1, <1>2, <1>3
  <2>3. QED
    BY <2>1, <2>2 DEF MailboxBacked
<1>6. RecordsSound(file)'
  BY <1>1, <1>2, <1>3 DEF BackedInv, RecordsSound
<1>7. QED
  BY <1>1, <1>2, <1>5, <1>6, SoundStill DEF BackedInv

LEMMA BackedNext ==
  AccountsInv /\ BackedInv /\ [AccountsNext]_accountVars => BackedInv'
<1>. SUFFICES ASSUME AccountsInv, BackedInv, [AccountsNext]_accountVars PROVE BackedInv'
  OBVIOUS
<1>0. /\ AccountsTypeOK /\ file \in File /\ vault \in [Mailboxes -> Credential \cup {None}]
      /\ SignedIn \cap Passworded = {}
      /\ Passworded \subseteq Mailboxes /\ SignedIn \subseteq Mailboxes
  BY PartNames DEF AccountsInv, AccountsTypeOK, Mailboxes
<1>1. CASE RequestsWait
  BY <1>1, WaitsType, BackedLeftAlone DEF history
<1>2. CASE SessionSteps
  <2>1. UNCHANGED <<file, vault, outdated, reverted>>
    BY <1>2 DEF SessionSteps, SignIn, SessionEnds, Exchange, SignInFails, Die, history
  <2>2. \A r \in Requests : requests'[r] = requests[r] \/ requests'[r].op # "llm"
    <3>1. ASSUME NEW r \in Requests, Exchange(r)
          PROVE  \A q \in Requests : requests'[q] = requests[q] \/ requests'[q].op # "llm"
      BY <1>0, <3>1 DEF Exchange, AccountsTypeOK
    <3>2. ASSUME NEW r \in Requests, SignInFails(r)
          PROVE  \A q \in Requests : requests'[q] = requests[q] \/ requests'[q].op # "llm"
      BY <3>2, EndsType DEF SignInFails
    <3>3. CASE Die
      BY <3>3 DEF Die, ProcessDies, Idle
    <3>4. QED
      BY <1>2, <3>1, <3>2, <3>3 DEF SessionSteps, SignIn, SessionEnds
  <2>3. QED
    BY <2>1, <2>2, BackedLeftAlone
<1>3. CASE Reset
  BY <1>0, <1>3, MailboxesAfter, BackedSameMailboxes DEF Reset
<1>4. ASSUME NEW x \in Sections, NEW v \in Values, UpdateSection(x, v) PROVE BackedInv'
  <2>1. x \notin Mailboxes
    BY PartNames
  <2>2. QED
    BY <1>0, <1>4, <2>1, MailboxesAfter, BackedSameMailboxes DEF UpdateSection
<1>5. ASSUME NEW r \in Requests, OnboardingComplete(r) PROVE BackedInv'
  BY <1>0, <1>5, MailboxesAfter, BackedSameMailboxes, EndsType DEF OnboardingComplete
<1>6. ASSUME NEW r \in Requests, LlmWrite(r) PROVE BackedInv'
  <2> DEFINE read == requests[r].read
             v == requests[r].value
  <2>1. v \in Models /\ read \in File /\ requests[r].op = "llm"
    BY <1>0, <1>6, TakenAlong DEF LlmWrite, Waiting
  <2>2. RecordsSound(read)
    BY <2>1 DEF BackedInv
  <2>3. /\ file' = WithLlm(read, v)
        /\ reverted' = (reverted \cup Differing(read, file)) \ {"llm"}
        /\ Ends(r) /\ UNCHANGED <<vault, outdated>>
    BY <1>6 DEF LlmWrite
  <2> HIDE DEF read, v
  <2>4. file'.mailboxes = read.mailboxes
    BY <2>1, <2>3, MailboxesAfter
  <2>5. ASSUME NEW m \in Mailboxes
        PROVE  /\ m \in reverted => m \in reverted'
               /\ read.mailboxes[m] = file.mailboxes[m] \/ m \in reverted'
    BY <2>3, PartNames DEF Differing, Parts
  <2>6. MailboxBacked'
    BY <2>2, <2>3, <2>4, <2>5 DEF BackedInv, MailboxBacked, RecordsSound
  <2>7. RecordsSound(file)'
    BY <2>2, <2>3, <2>4 DEF RecordsSound
  <2>8. QED
    BY <2>3, <2>6, <2>7, EndsType, SoundStill DEF BackedInv
<1>7. ASSUME NEW r \in Requests, ProbeSucceeds(r) PROVE BackedInv'
  <2> DEFINE c == [grant |-> 0, calendar |-> FALSE]
  <2>1. requests[r].mailbox \in Mailboxes /\ Connect(requests[r].mailbox, c) /\ Ends(r)
    BY <1>0, <1>7, TakenAlong DEF ProbeSucceeds, Waiting
  <2>2. c \in Credential /\ ~c.calendar
    BY PartNames DEF Credential
  <2> HIDE DEF c
  <2>3. QED
    BY <2>1, <2>2, EndsType, BackedAfterConnect
<1>8. ASSUME NEW r \in Requests, SignInComplete(r) PROVE BackedInv'
  <2>1. /\ sessions[requests[r].session].mailbox \in SignedIn
        /\ requests[r].credential \in Credential
    BY <1>0, <1>8, TakenAlong DEF AccountsInv, SignInsNamed, SignInComplete, Waiting
  <2>2. QED
    BY <1>0, <1>8, <2>1, EndsType, BackedAfterConnect DEF SignInComplete
<1>9. ASSUME NEW r \in Requests, RefreshSave(r) PROVE BackedInv'
  <2> DEFINE m == requests[r].mailbox
             c == requests[r].credential
  <2>1. m \in Mailboxes /\ c \in Credential /\ c # None
    BY <1>0, <1>9, TakenAlong, PartNames DEF RefreshSave, Waiting
  <2>2. /\ vault' = [vault EXCEPT ![m] = c]
        /\ outdated' = IF vault[m] # c THEN outdated \cup {m} ELSE outdated
        /\ Ends(r) /\ UNCHANGED <<file, reverted>>
    BY <1>9 DEF RefreshSave
  <2> HIDE DEF m, c
  <2>3. vault'[m] = c /\ \A n \in Mailboxes \ {m} : vault'[n] = vault[n]
    BY <1>0, <2>1, <2>2
  <2>4. outdated \subseteq outdated' /\ (vault[m] = c \/ m \in outdated')
    BY <2>2
  <2>5. MailboxBacked'
    BY <2>1, <2>2, <2>3, <2>4 DEF BackedInv, MailboxBacked
  <2>6. RecordsSound(file)'
    BY <2>1, <2>2, <2>3 DEF BackedInv, RecordsSound
  <2>7. QED
    BY <2>1, <2>2, <2>3, <2>5, <2>6, EndsType, SoundStill DEF BackedInv
<1>10. ASSUME NEW r \in Requests, DieInConnect(r) PROVE BackedInv'
  <2>1. /\ UNCHANGED <<file, reverted>>
        /\ \A q \in Requests : requests'[q].op = "idle"
    BY <1>10 DEF DieInConnect, ProcessDies, Idle
  <2>2. CASE Waiting(r, "probe")
    <3> DEFINE m == requests[r].mailbox
               c == [grant |-> 0, calendar |-> FALSE]
    <3>1. m \in Passworded /\ requests[r].op # "identify" /\ requests[r].op = "probe"
      BY <1>0, <2>2, TakenAlong DEF Waiting
    <3>2. vault' = [vault EXCEPT ![m] = c] /\ outdated' = outdated
      <4>1. ~Waiting(r, "identify")
        BY <3>1 DEF Waiting
      <4>2. QED
        BY <1>10, <4>1 DEF DieInConnect
    <3>3. c # None
      <4>1. c \in Credential
        BY PartNames DEF Credential
      <4>2. QED
        BY <4>1, PartNames
    <3> HIDE DEF m, c
    <3>4. vault'[m] = c /\ \A n \in Mailboxes \ {m} : vault'[n] = vault[n]
      BY <1>0, <3>1, <3>2
    <3>5. RecordsSound(file)'
      BY <1>0, <2>1, <3>1, <3>3, <3>4 DEF BackedInv, RecordsSound
    <3>6. MailboxBacked'
      BY <1>0, <2>1, <3>1, <3>2, <3>3, <3>4 DEF BackedInv, MailboxBacked, RecordsSound
    <3>7. QED
      BY <2>1, <3>5, <3>6 DEF BackedInv
  <2>3. CASE Waiting(r, "identify")
    <3> DEFINE m == sessions[requests[r].session].mailbox
               c == requests[r].credential
    <3>1. m \in Mailboxes /\ c \in Credential /\ c # None /\ requests[r].op # "probe"
      BY <1>0, <2>3, TakenAlong, PartNames DEF AccountsInv, SignInsNamed, Waiting
    <3>2. vault' = [vault EXCEPT ![m] = c] /\ outdated' = outdated \cup {m}
      BY <1>10, <3>1 DEF DieInConnect, Waiting
    <3> HIDE DEF m, c
    <3>3. vault'[m] = c /\ \A n \in Mailboxes \ {m} : vault'[n] = vault[n]
      BY <1>0, <3>1, <3>2
    <3>4. RecordsSound(file)'
      BY <2>1, <3>1, <3>3 DEF BackedInv, RecordsSound
    <3>5. MailboxBacked'
      BY <2>1, <3>1, <3>2, <3>3 DEF BackedInv, MailboxBacked
    <3>6. QED
      BY <2>1, <3>4, <3>5 DEF BackedInv
  <2>4. QED
    BY <1>10, <2>2, <2>3 DEF DieInConnect
<1>11. CASE UNCHANGED accountVars
  BY <1>11, BackedLeftAlone DEF accountVars, history
<1>12. QED
  BY <1>1, <1>2, <1>3, <1>4, <1>5, <1>6, <1>7, <1>8, <1>9, <1>10, <1>11, AccountSteps

\* A mailbox on record has a credential, of the scope the record says, after any
\* crash, overlap and failure, but for the refreshes, interrupted sign-ins and
\* model changes the histories name (oauth_controller.py, oauth_runtime.py).
THEOREM MailboxesStayBacked == AccountsSpec => []MailboxBacked
<1>1. BackedInv => MailboxBacked
  BY DEF BackedInv
<1>2. QED
  BY <1>1, AccountsInvInit, AccountsInvNext, BackedInit, BackedNext, PTL DEF AccountsSpec
=============================================================================
