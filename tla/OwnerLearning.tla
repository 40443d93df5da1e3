---------------------------- MODULE OwnerLearning ----------------------------
(***************************************************************************)
(* What the agent learns about its owner: the owner profile drawn from sent *)
(* mail (OwnerProfileStore, OwnerProfileService) and the preferences drawn  *)
(* from the owner's corrections of drafts (AgentBrain: owner-feedback.jsonl, *)
(* learning-decisions.json and MEMORY.md with its learned section).          *)
(*                                                                          *)
(* Every file is written on its own and over its old text, so a death of the *)
(* process can leave them disagreeing or one of them cut short; and MEMORY.md *)
(* is also saved whole from the owner's editor, whose text may be older than   *)
(* the file and have its sections in any order.                              *)
(***************************************************************************)
EXTENDS Naturals, Sequences, FiniteSets

CONSTANTS
  Lengths,    \* signals of a changed length: "shorter", "longer"
  Phrases,    \* salutations (and closings, which are handled alike) an owner puts in
  Absent,     \* an absent value
  Window,     \* how many corrections are looked at: 80
  Evidence,   \* how many of them must agree: 3
  Analyses    \* analyses of sent mail under way

ASSUME LearningAssumption ==
  /\ Window \in Nat \ {0}
  /\ Evidence \in Nat \ {0}
  /\ Lengths \cap Phrases = {}
  /\ Absent \notin Lengths \cup Phrases

VARIABLES
  profile,    \* owner-profile.json
  analyses,   \* the analyses that wait for the model
  feedback,   \* the last Window corrections
  decisions,  \* learning-decisions.json
  memory,     \* MEMORY.md
  cut,        \* history: a death left what was learnt behind a withdrawn consent
  restored,   \* history: lines the owner's editor put into MEMORY.md or its learned section
  orphaned,   \* history: lines a death or a withdrawal left without their decision
  rearranged  \* history: the owner's text had another section after the learned one,
              \* or learnt lines elsewhere

learningVars ==
  <<profile, analyses, feedback, decisions, memory, cut, restored, orphaned, rearranged>>

-----------------------------------------------------------------------------
\* A correction of a draft: did it change the length, which phrase did it put in.
Correction == [length: Lengths \cup {Absent}, phrase: Phrases \cup {Absent}]

Preferences == Lengths \cup Phrases

\* Of the profile: the consent, its status and whether learnt preferences are
\* kept for review or in use.
Profile ==
  [consent: BOOLEAN,
   status: {"not_asked", "consented", "declined", "preview_ready", "active"},
   preview: BOOLEAN, active: BOOLEAN]

NoProfile == [consent |-> FALSE, status |-> "not_asked", preview |-> FALSE, active |-> FALSE]

\* Of MEMORY.md: where the learned section is, which learnt lines are in it, and
\* which stand anywhere else; a line stands in it once.
Memory ==
  {t \in [section: {"none", "last", "middle"}, inside: SUBSET Preferences,
          outside: SUBSET Preferences] :
     /\ t.section = "none" => t.inside = {}
     /\ t.inside \cap t.outside = {}}

NoMemory == [section |-> "none", inside |-> {}, outside |-> {}]

Lines(t) == t.inside \cup t.outside

\* What a write that a death cuts short leaves of a text.
Torn(text) ==
  {t \in Memory : /\ t.inside \subseteq text.inside /\ t.outside \subseteq text.outside
                  /\ t.section = "middle" => text.section = "middle"}

Undecided == [p \in Preferences |-> "open"]

LearningTypeOK ==
  /\ profile \in Profile
  /\ analyses \subseteq Analyses
  /\ feedback \in Seq(Correction) /\ Len(feedback) <= Window
  /\ decisions \in [Preferences -> {"open", "accepted", "rejected"}]
  /\ memory \in Memory
  /\ cut \in BOOLEAN
  /\ restored \subseteq Preferences
  /\ orphaned \subseteq Preferences
  /\ rearranged \in BOOLEAN

LearningInit ==
  /\ profile = NoProfile
  /\ analyses = {}
  /\ feedback = << >>
  /\ decisions = Undecided
  /\ memory = NoMemory
  /\ cut = FALSE
  /\ restored = {}
  /\ orphaned = {}
  /\ rearranged = FALSE

-----------------------------------------------------------------------------
(* The preferences that the corrections suggest.                            *)

Seen(key, p) == {i \in DOMAIN feedback : feedback[i][key] = p}

\* Only the phrase put in most often is looked at, of several the one that
\* came first (Counter.most_common).
Foremost(p) ==
  \A q \in Phrases \ {p} :
    LET mine == Seen("phrase", p)
        other == Seen("phrase", q) IN
    \/ Cardinality(mine) > Cardinality(other)
    \/ /\ Cardinality(mine) = Cardinality(other)
       /\ \E i \in mine : \A j \in other : i < j

Suggested ==
  {p \in Lengths : Cardinality(Seen("length", p)) >= Evidence}
  \cup {p \in Phrases : Cardinality(Seen("phrase", p)) >= Evidence /\ Foremost(p)}

\* AgentBrain.learning_candidates: nothing unless learning_enabled, which asks
\* for the consent of the profile.
Candidates ==
  IF profile.consent THEN {p \in Suggested : decisions[p] = "open"} ELSE {}

-----------------------------------------------------------------------------
(* The owner's corrections and decisions.                                   *)

RecordedAll(e) == Append(feedback, e)

\* The oldest correction leaves the window.
Recorded(e) ==
  IF Len(feedback) < Window THEN Append(feedback, e) ELSE Append(Tail(feedback), e)

\* DraftService.edit calls AgentBrain.record_owner_edit.
Correct(e) ==
  /\ profile.consent
  /\ feedback' = Recorded(e)
  /\ UNCHANGED <<profile, analyses, decisions, memory, cut, restored, orphaned, rearranged>>

\* A line that MEMORY.md has nowhere is added at its end: in the learned section,
\* made if there is none, unless another one follows it.
Appended(p) ==
  IF p \in Lines(memory) THEN memory
  ELSE IF memory.section = "middle" THEN [memory EXCEPT !.outside = @ \cup {p}]
  ELSE [memory EXCEPT !.section = "last", !.inside = @ \cup {p}]

\* AgentBrain.accept_learning: MEMORY.md first, then the decision.
AcceptLearning(p) ==
  /\ p \in Candidates
  /\ memory' = Appended(p)
  /\ decisions' = [decisions EXCEPT ![p] = "accepted"]
  /\ orphaned' = orphaned \ {p}
  /\ UNCHANGED <<profile, analyses, feedback, cut, restored, rearranged>>

\* The decisions are cut short; a file that does not parse is read as none.
DecisionsTorn ==
  /\ decisions' = Undecided
  /\ orphaned' = Lines(memory')

\* The process dies while it writes MEMORY.md or before the decision, or while it
\* writes that.
DieInAccept(p) ==
  /\ p \in Candidates
  /\ \/ /\ memory' \in IF p \in Lines(memory) THEN {memory} ELSE Torn(Appended(p))
        /\ orphaned' = (orphaned \cup {p}) \cap Lines(memory')
        /\ UNCHANGED decisions
     \/ memory' = Appended(p) /\ DecisionsTorn
  /\ analyses' = {}
  /\ UNCHANGED <<profile, feedback, cut, restored, rearranged>>

Offered(p) == p \in Candidates

\* AgentBrain.reject_learning.
RejectLearning(p) ==
  /\ Offered(p)
  /\ decisions' = [decisions EXCEPT ![p] = "rejected"]
  /\ UNCHANGED <<profile, analyses, feedback, memory, cut, restored, orphaned, rearranged>>

DieInReject(p) ==
  /\ Offered(p)
  /\ UNCHANGED <<profile, feedback, memory, cut, restored, rearranged>>
  /\ DecisionsTorn
  /\ analyses' = {}

\* PUT /v1/agent/brain replaces MEMORY.md by the editor's text: one that was read
\* before other writes, and that the owner may have changed in any way.  A save that
\* a death cuts short is the save of a shorter text.
SaveEditor(text) ==
  /\ memory' = text
  /\ restored' = (restored \cap Lines(text)) \cup (text.inside \ memory.inside)
                                            \cup (text.outside \ Lines(memory))
  /\ rearranged' = (rearranged \/ text.section = "middle" \/ text.outside # {})
  /\ orphaned' = orphaned \cap Lines(text)
  /\ UNCHANGED <<profile, analyses, feedback, decisions, cut>>

-----------------------------------------------------------------------------
(* The owner profile and its consent.                                       *)

\* OwnerProfileStore.set_consent.
ConsentGiven ==
  /\ profile' = [profile EXCEPT !.consent = TRUE, !.status = "consented", !.preview = FALSE]
  /\ UNCHANGED <<analyses, feedback, decisions, memory, cut, restored, orphaned, rearranged>>

ProfileDeclined == [NoProfile EXCEPT !.status = "declined"]

\* The learned section goes, up to the next section; learnt lines elsewhere stay.
WithoutSection == [memory EXCEPT !.section = "none", !.inside = {}]

\* AgentBrain.reset_owner_learning: corrections, decisions and the learned
\* section of MEMORY.md.
Forget ==
  /\ feedback' = << >>
  /\ decisions' = Undecided
  /\ memory' = WithoutSection
  /\ restored' = restored \cap memory.outside
  /\ orphaned' = memory.outside
  /\ cut' = FALSE

\* The profile is withdrawn first, then what the brain learnt: by
\* /v1/owner-profile/consent, by DELETE /v1/owner-profile, by /v1/onboarding/reset.
Withdraw(left) ==
  /\ profile' = left
  /\ Forget
  /\ UNCHANGED <<analyses, rearranged>>

\* The process dies after the profile, or after the corrections, or after the
\* decisions were removed, or while it writes MEMORY.md.
DieInWithdraw(left) ==
  /\ profile' = left
  /\ \/ UNCHANGED <<feedback, decisions, memory, orphaned>>
     \/ feedback' = << >> /\ UNCHANGED <<decisions, memory, orphaned>>
     \/ /\ feedback' = << >>
        /\ memory' \in {memory} \cup Torn(WithoutSection)
        /\ DecisionsTorn
  /\ analyses' = {}
  /\ cut' = TRUE
  /\ UNCHANGED <<restored, rearranged>>

\* The process dies while it writes the profile: a file that does not parse is
\* read as no profile.
DieInProfile ==
  /\ profile # NoProfile
  /\ profile' = NoProfile
  /\ analyses' = {}
  /\ cut' = TRUE
  /\ UNCHANGED <<feedback, decisions, memory, restored, orphaned, rearranged>>

\* OwnerProfileService.preview: the consent is asked for, then sent mail is
\* read and the model asked.
PreviewBegin(a) ==
  /\ profile.consent
  /\ a \notin analyses
  /\ analyses' = analyses \cup {a}
  /\ UNCHANGED <<profile, feedback, decisions, memory, cut, restored, orphaned, rearranged>>

MayKeepOnceAsked == TRUE

\* OwnerProfileStore.save_preview asks for the consent again.
MayKeep == profile.consent

PreviewEnd(a) ==
  /\ a \in analyses
  /\ analyses' = analyses \ {a}
  /\ \/ /\ MayKeep
        /\ profile' = [profile EXCEPT !.status = "preview_ready", !.preview = TRUE]
     \/ UNCHANGED profile      \* refused, or the mail or the model failed
  /\ UNCHANGED <<feedback, decisions, memory, cut, restored, orphaned, rearranged>>

\* OwnerProfileStore.activate.
Activate ==
  /\ profile.consent
  /\ profile.status = "preview_ready"
  /\ profile' = [profile EXCEPT !.status = "active", !.active = TRUE]
  /\ UNCHANGED <<analyses, feedback, decisions, memory, cut, restored, orphaned, rearranged>>

-----------------------------------------------------------------------------
LearningNext ==
  \/ \E e \in Correction : Correct(e)
  \/ \E p \in Preferences : AcceptLearning(p) \/ DieInAccept(p)
                            \/ RejectLearning(p) \/ DieInReject(p)
  \/ \E text \in Memory : SaveEditor(text)
  \/ ConsentGiven
  \/ \E left \in {ProfileDeclined, NoProfile} : Withdraw(left) \/ DieInWithdraw(left)
  \/ DieInProfile
  \/ \E a \in Analyses : PreviewBegin(a) \/ PreviewEnd(a)
  \/ Activate

LearningSpec == LearningInit /\ [][LearningNext]_learningVars

-----------------------------------------------------------------------------
\* Without the owner's consent nothing that was learnt is kept, in none of the four
\* files: neither a profile nor corrections nor learnt lines of MEMORY.md, however
\* late an analysis ends.  The exceptions are a death in the middle of the withdrawal
\* or of a write of the profile, lines the owner's editor put back, and lines outside
\* the learned section of a MEMORY.md whose sections the owner rearranged
\* (brain.py AgentBrain, main_v16.py).
NothingLearntWithoutConsent ==
  ~profile.consent =>
    /\ ~profile.preview /\ ~profile.active
    /\ cut \/ /\ feedback = << >>
              /\ memory.inside \subseteq restored
              /\ rearranged \/ memory.outside = {}

\* A preference whose rejection is on record is not in MEMORY.md, unless the owner's
\* editor put it back, or a death or a withdrawal left the line without its decision.
RejectedStaysOut ==
  \A p \in Preferences :
    decisions[p] = "rejected" => p \notin Lines(memory) \/ p \in restored \cup orphaned

\* What the owner said about learning holds in every file.
OwnersWordHolds == NothingLearntWithoutConsent /\ RejectedStaysOut

\* "Revoking consent stops observation and deletes the owner profile, correction
\* signals and the dedicated memory section created from accepted correction
\* suggestions" (docs/OWNER_LEARNING.md), of all accepted lines: does not hold once
\* another section follows the learned one.
AcceptedIsForgotten ==
  ~profile.consent /\ ~cut => Lines(memory) \subseteq restored
=============================================================================
