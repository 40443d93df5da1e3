----------------------------- MODULE AutonomyProofs -----------------------------
(***************************************************************************)
(* Proofs about CalendarAutonomy, for any mails, times, proposals, drafts    *)
(* and coroutines: a time is booked once unless two requests for it were on   *)
(* their way at once, a mail once unless two had it in hand, and an event is   *)
(* confirmed once unless two replies to it were in preparation at once.        *)
(***************************************************************************)
EXTENDS CalendarAutonomy, FiniteSetTheorems, TLAPS

\* The steps at which a coroutine has a proposal in hand.
InHand == {"recheck", "verify", "write", "compose"}

\* Proposals that Google has or may yet get.
Sent == booked \cup wire

\* Proposals that exist are about a mail and a time; what is in hand or sent exists.
ProposalsMade ==
  /\ \A a \in Proposals : IF proposals[a].status = "absent" THEN proposals[a].execution = "none"
                         ELSE proposals[a].mail \in Mails /\ proposals[a].time \in Times
  /\ \A c \in Coroutines :
       doing[c].step \in InHand => proposals[doing[c].proposal].status # "absent"
  /\ \A a \in Sent : proposals[a].status # "absent"

AutonomyInv == AutonomyTypeOK /\ ProposalsMade

\* What a coroutine holds at each step.
LEMMA Holding ==
  ASSUME NEW q \in Coroutine
  PROVE  /\ q.step \in InHand => q.proposal \in Proposals
         /\ q.step \in {"verify", "write", "compose"} => q.for \in {"pending", "mail", "owner", "retry"}
         /\ q.step = "assist" => /\ q.mail \in Mails /\ q.for \in {"mail", "owner"}
                                 /\ q.asked \in BOOLEAN /\ q.named \in Times \cup {Nothing}
  BY DEF Coroutine, Resting, Scanning, InHand

\* The places a coroutine goes to.
LEMMA Places ==
  /\ Resting \in Coroutine /\ Resting.step = "idle"
  /\ Scanning \in Coroutine /\ Scanning.step = "scan"
  /\ \A for : Continues(for) \in {Resting, Scanning} /\ Escapes(for) \in {Resting, Scanning}
  /\ \A a \in Proposals : [step |-> "recheck", proposal |-> a] \in Coroutine
  /\ \A a \in Proposals, s \in {"verify", "write", "compose"},
        for \in {"pending", "mail", "owner", "retry"} :
       [step |-> s, proposal |-> a, for |-> for] \in Coroutine
<1>1. Resting \in Coroutine /\ Scanning \in Coroutine
  BY DEF Coroutine
<1>2. Resting.step = "idle" /\ Scanning.step = "scan"
  BY DEF Resting, Scanning
<1>3. ASSUME NEW for PROVE Continues(for) \in {Resting, Scanning} /\ Escapes(for) \in {Resting, Scanning}
  BY DEF Continues, Escapes
<1>4. ASSUME NEW a \in Proposals PROVE [step |-> "recheck", proposal |-> a] \in Coroutine
  BY DEF Coroutine
<1>5. ASSUME NEW a \in Proposals, NEW s \in {"verify", "write", "compose"},
             NEW for \in {"pending", "mail", "owner", "retry"}
      PROVE  [step |-> s, proposal |-> a, for |-> for] \in Coroutine
  BY DEF Coroutine
<1>6. QED
  BY <1>1, <1>2, <1>3, <1>4, <1>5

LEMMA AutonomyInvInit == AutonomyInit => AutonomyInv
<1>. SUFFICES ASSUME AutonomyInit PROVE AutonomyInv
  OBVIOUS
<1>1. proposals \in [Proposals -> Proposal]
  BY DEF AutonomyInit, Proposal
<1>2. replies \in [Drafts -> Reply]
  BY DEF AutonomyInit, Reply
<1>3. doing \in [Coroutines -> Coroutine] /\ \A c \in Coroutines : doing[c].step = "idle"
  BY Places DEF AutonomyInit
<1>4. AutonomyTypeOK
  BY <1>1, <1>2, <1>3 DEF AutonomyInit, AutonomyTypeOK, Notes
<1>5. ProposalsMade
  BY <1>3 DEF AutonomyInit, ProposalsMade, InHand, Sent
<1>6. QED
  BY <1>4, <1>5 DEF AutonomyInv

-----------------------------------------------------------------------------
(* How the actions change what the invariants are about.                    *)

\* Coroutine c goes on to a step; if it takes up a proposal, that one exists.
GoesOn(c, steps) ==
  \E next \in Coroutine :
    /\ doing' = [doing EXCEPT ![c] = next]
    /\ next.step \in steps
    /\ next.step \in InHand => proposals'[next.proposal].status # "absent"

\* Proposals stay about their mails, and none is made.
NoneMade ==
  /\ proposals' \in [Proposals -> Proposal]
  /\ \A a \in Proposals : /\ proposals'[a].mail = proposals[a].mail
                          /\ proposals'[a].time = proposals[a].time
                          /\ proposals'[a].status = "absent" <=> proposals[a].status = "absent"
                          /\ proposals[a].status = "absent" => proposals'[a] = proposals[a]

Quiet == {"idle", "scan", "recheck", "verify"}

\* Cycles, requests and owners that only take up or lay down work.
TakesUp(c) ==
  \/ CycleBegin(c) \/ CycleEnd(c) \/ RecheckFinds(c) \/ FinishPending(c)
  \/ \E a \in Proposals : PickPending(c, a)
  \/ AssistAnswers(c) \/ AssistDeclines(c)
  \/ VerifyFinds(c) \/ ComposeFails(c)
  \/ \E a \in Proposals : OwnerApproves(c, a) \/ OwnerRetries(c, a)

LEMMA ClaimedType ==
  ASSUME AutonomyInv, NEW a \in Proposals, proposals[a].status # "absent",
         \/ proposals' = Claimed(a)
         \/ \E s \in {"executing", "failed", "completed"} :
              proposals' = [proposals EXCEPT ![a].execution = s]
         \/ proposals' = [proposals EXCEPT ![a].status = "rejected"]
  PROVE  NoneMade
<1>1. proposals \in [Proposals -> Proposal]
  BY DEF AutonomyInv, AutonomyTypeOK
<1>2. CASE proposals' = Claimed(a)
  <2> DEFINE row == [proposals[a] EXCEPT !.status = "approved", !.execution = "executing"]
  <2>1. row \in Proposal /\ row.mail = proposals[a].mail /\ row.status = "approved"
        /\ row.time = proposals[a].time
    BY <1>1 DEF Proposal
  <2>2. proposals' = [proposals EXCEPT ![a] = row]
    BY <1>1, <1>2 DEF Claimed
  <2> HIDE DEF row
  <2>3. QED
    BY <1>1, <2>1, <2>2 DEF NoneMade
<1>3. CASE \E s \in {"executing", "failed", "completed"} :
             proposals' = [proposals EXCEPT ![a].execution = s]
  BY <1>1, <1>3 DEF NoneMade, Proposal
<1>4. CASE proposals' = [proposals EXCEPT ![a].status = "rejected"]
  BY <1>1, <1>4 DEF NoneMade, Proposal
<1>5. QED
  BY <1>2, <1>3, <1>4

\* They start no write and no reply, and change nothing else that counts.
LEMMA TakingUp ==
  ASSUME AutonomyInv, NEW c \in Coroutines, TakesUp(c)
  PROVE  /\ NoneMade /\ GoesOn(c, Quiet)
         /\ UNCHANGED <<appointment, autonomous, replies, booked, wire, overlapped, contested, raced>>
         /\ noted' \in [Mails -> Notes]
<1>0. /\ AutonomyTypeOK /\ ProposalsMade /\ doing[c] \in Coroutine
      /\ proposals \in [Proposals -> Proposal]
  BY DEF AutonomyInv, AutonomyTypeOK
<1>1. UNCHANGED proposals => NoneMade
  BY <1>0 DEF NoneMade
<1>2. \A next \in {Resting, Scanning} : Goes(c, next) => GoesOn(c, Quiet)
  BY Places DEF Goes, GoesOn, Quiet, InHand
<1>3. CASE CycleBegin(c) \/ CycleEnd(c) \/ RecheckFinds(c)
  BY <1>0, <1>1, <1>2, <1>3 DEF CycleBegin, CycleEnd, RecheckFinds, AutonomyTypeOK
<1>4. ASSUME NEW a \in Proposals, PickPending(c, a)
      PROVE  /\ NoneMade /\ GoesOn(c, Quiet)
             /\ UNCHANGED <<appointment, autonomous, replies, noted, booked, wire, overlapped, contested,
                            raced>>
  <2>1. /\ doing' = [doing EXCEPT ![c] = [step |-> "recheck", proposal |-> a]]
        /\ proposals' = proposals /\ proposals[a].status = "pending"
    BY <1>4 DEF PickPending, Goes
  <2>2. GoesOn(c, Quiet)
    BY <2>1, Places DEF GoesOn, Quiet
  <2>3. QED
    BY <1>1, <1>4, <2>1, <2>2 DEF PickPending
<1>5. ASSUME NEW a \in Proposals, NEW for \in {"pending", "mail", "owner", "retry"},
             Goes(c, [step |-> "verify", proposal |-> a, for |-> for]),
             NoneMade, proposals[a].status # "absent"
      PROVE  GoesOn(c, Quiet)
  BY <1>5, Places DEF Goes, GoesOn, Quiet, NoneMade
<1>6. CASE FinishPending(c)
  <2> DEFINE a == doing[c].proposal
  <2>1. a \in Proposals /\ proposals[a].status = "pending" /\ proposals' = Claimed(a)
        /\ Goes(c, [step |-> "verify", proposal |-> a, for |-> "pending"])
    BY <1>0, <1>6, Holding DEF FinishPending, InHand
  <2>2. NoneMade
    BY <2>1, ClaimedType
  <2>3. GoesOn(c, Quiet)
    BY <1>5, <2>1, <2>2
  <2>4. QED
    BY <1>0, <1>6, <2>2, <2>3 DEF FinishPending, AutonomyTypeOK
<1>7. ASSUME NEW a \in Proposals, OwnerApproves(c, a) \/ OwnerRetries(c, a)
      PROVE  /\ NoneMade /\ GoesOn(c, Quiet)
             /\ UNCHANGED <<appointment, autonomous, replies, noted, booked, wire, overlapped, contested,
                            raced>>
  <2>1. CASE OwnerApproves(c, a)
    <3>1. NoneMade
      BY <2>1, ClaimedType DEF OwnerApproves
    <3>2. QED
      BY <1>5, <2>1, <3>1 DEF OwnerApproves
  <2>2. CASE OwnerRetries(c, a)
    <3>1. proposals[a].status # "absent"
      BY <1>0, <2>2 DEF OwnerRetries, ProposalsMade
    <3>2. NoneMade
      BY <2>2, <3>1, ClaimedType DEF OwnerRetries
    <3>3. QED
      BY <1>5, <2>2, <3>1, <3>2 DEF OwnerRetries
  <2>3. QED
    BY <1>7, <2>1, <2>2
<1>9. CASE AssistAnswers(c) \/ AssistDeclines(c)
  <2>1. doing[c].mail \in Mails
    BY <1>0, <1>9, Holding DEF AssistAnswers, AssistDeclines
  <2>2. GoesOn(c, Quiet) /\ noted' \in [Mails -> Notes]
    BY <1>0, <1>2, <1>9, <2>1, Places
       DEF AssistAnswers, AssistDeclines, Unbooked, Note, Notes, AutonomyTypeOK
  <2>3. QED
    BY <1>0, <1>1, <1>9, <2>1, <2>2 DEF AssistAnswers, AssistDeclines, AutonomyTypeOK
<1>10. CASE VerifyFinds(c)
  <2> DEFINE a == doing[c].proposal
  <2>1. a \in Proposals /\ proposals[a].status # "absent" /\ proposals[a].mail \in Mails
    BY <1>0, <1>10, Holding DEF VerifyFinds, ProposalsMade, InHand
  <2>2. NoneMade
    BY <1>10, <2>1, ClaimedType DEF VerifyFinds, Fails
  <2>3. GoesOn(c, Quiet)
    BY <1>2, <1>10, Places DEF VerifyFinds, Fails
  <2>4. QED
    BY <1>0, <1>10, <2>1, <2>2, <2>3 DEF VerifyFinds, Fails, Note, Notes, AutonomyTypeOK
<1>11. CASE ComposeFails(c)
  BY <1>0, <1>1, <1>2, <1>11, Places DEF ComposeFails, AutonomyTypeOK
<1>12. QED
  BY <1>0, <1>3, <1>4, <1>6, <1>7, <1>9, <1>10, <1>11 DEF TakesUp, AutonomyTypeOK

\* Replies keep what they confirm.
SameConfirmations ==
  /\ replies' \in [Drafts -> Reply]
  /\ \A d \in Drafts : replies'[d].confirms = replies[d].confirms

LEMMA StatusOfReply ==
  ASSUME NEW r \in Reply, NEW s \in {"draft", "waiting", "closed"}
  PROVE  /\ [r EXCEPT !.status = s] \in Reply
         /\ [r EXCEPT !.status = s].confirms = r.confirms
  BY DEF Reply

\* A preparation stops at a reply that exists, or waits for the text of a first.
LEMMA Preparing ==
  ASSUME AutonomyInv, NEW c \in Coroutines, NEW a \in Proposals,
         NEW for \in {"pending", "mail", "owner", "retry"}, Prepare(c, a, for),
         proposals'[a].status # "absent"
  PROVE  /\ SameConfirmations
         /\ raced \subseteq raced' /\ raced' \subseteq Proposals
         /\ \/ GoesOn(c, Quiet)
            \/ /\ GoesOn(c, {"compose"}) /\ doing'[c].proposal = a
               /\ Confirmations(a) = {}
               /\ (\E e \in Coroutines : doing[e].step = "compose" /\ doing[e].proposal = a)
                    => a \in raced'
<1>0. replies \in [Drafts -> Reply] /\ doing \in [Coroutines -> Coroutine] /\ raced \subseteq Proposals
  BY DEF AutonomyInv, AutonomyTypeOK
<1>1. CASE /\ Existing(a) # {} /\ replies' = Resubmitted(a)
           /\ Goes(c, Continues(for)) /\ UNCHANGED raced
  <2>1. SameConfirmations
    BY <1>0, <1>1, StatusOfReply DEF Resubmitted, SameConfirmations
  <2>2. GoesOn(c, Quiet)
    BY <1>1, Places DEF Goes, GoesOn, Quiet, InHand
  <2>3. QED
    BY <1>0, <1>1, <2>1, <2>2
<1>2. CASE /\ Existing(a) = {} /\ replies' = WithoutSuperseded(proposals[a].mail)
           /\ Goes(c, [step |-> "compose", proposal |-> a, for |-> for])
           /\ raced' = IF \E e \in Coroutines : doing[e].step = "compose" /\ doing[e].proposal = a
                       THEN raced \cup {a} ELSE raced
  <2>1. SameConfirmations
    BY <1>0, <1>2, StatusOfReply DEF WithoutSuperseded, SameConfirmations
  <2>2. [step |-> "compose", proposal |-> a, for |-> for] \in Coroutine
    BY Places
  <2>3. GoesOn(c, {"compose"}) /\ doing'[c].proposal = a
    BY <1>0, <1>2, <2>2 DEF Goes, GoesOn
  <2>4. QED
    BY <1>0, <1>2, <2>1, <2>3 DEF Existing
<1>3. QED
  BY <1>1, <1>2 DEF Prepare

\* The process dies: no coroutine is left, and proposals keep their mails.
LEMMA Recovering ==
  ASSUME AutonomyInv, Recover
  PROVE  /\ NoneMade
         /\ doing' \in [Coroutines -> Coroutine]
         /\ \A c \in Coroutines : doing'[c].step = "idle"
<1>1. proposals \in [Proposals -> Proposal] /\ ProposalsMade
  BY DEF AutonomyInv, AutonomyTypeOK
<1>2. ASSUME NEW a \in Proposals
      PROVE  /\ proposals'[a] \in Proposal
             /\ proposals'[a].mail = proposals[a].mail
             /\ proposals'[a].time = proposals[a].time
             /\ proposals'[a].status = proposals[a].status
             /\ proposals[a].status = "absent" => proposals'[a] = proposals[a]
  <2>1. proposals[a] \in Proposal
    BY <1>1
  <2>2. CASE proposals[a].execution = "executing"
    <3>1. proposals'[a] = [proposals[a] EXCEPT !.execution = "failed"]
      BY <2>2 DEF Recover
    <3>2. proposals[a].status # "absent"
      BY <1>1, <2>2 DEF ProposalsMade
    <3>3. QED
      BY <2>1, <3>1, <3>2 DEF Proposal
  <2>3. CASE proposals[a].execution # "executing"
    BY <2>1, <2>3 DEF Recover
  <2>4. QED
    BY <2>2, <2>3
<1>3. NoneMade
  <2>1. proposals' \in [Proposals -> Proposal]
    BY <1>2 DEF Recover
  <2>2. QED
    BY <1>2, <2>1 DEF NoneMade
<1>4. QED
  BY <1>3, Places DEF Recover

\* The actions, as the proofs take them.
Executing(c) ==
  \/ VerifyPasses(c) \/ WriteFails(c) \/ WriteSucceeds(c)
  \/ \E d \in Drafts : ComposeEnd(c, d)
  \/ \E a \in Proposals : PrepareReply(c, a)

\* A cycle or the owner takes up a mail.
Assigning(c, m) ==
  \/ PickMail(c, m)
  \/ \E asked \in BOOLEAN, named \in Times \cup {Nothing} : OwnerAsks(c, m, asked, named)

Landing == \E a \in Proposals : Arrives(a) \/ Lost(a)

Owning == \/ \E a \in Proposals : OwnerRejects(a)
          \/ \E c \in Coroutines, m \in Mails : RefuseMail(c, m)
          \/ SwitchMode
          \/ \E d \in Drafts, m \in Mails : AgentDrafts(d, m)
          \/ \E d \in Drafts : OwnerHandles(d)

Dying == \/ DieAtRest
         \/ \E c \in Coroutines, d \in Drafts : DieInReply(c, d)

LEMMA AutonomySteps ==
  AutonomyNext <=>
    \/ \E c \in Coroutines : TakesUp(c) \/ Executing(c)
    \/ \E c \in Coroutines, m \in Mails : Assigning(c, m)
    \/ \E c \in Coroutines, a \in Proposals, t \in Times, safe \in BOOLEAN :
         AssistProposes(c, a, t, safe)
    \/ Landing \/ Owning \/ Dying
  BY DEF AutonomyNext, CycleStep, AssistStep, ExecutionStep, OwnerStep, TakesUp, Executing,
         Assigning, Landing, Owning, Dying

\* A mail is taken up: whoever else has it in hand, or the owner, leaves a trace.
LEMMA Assigned ==
  ASSUME AutonomyInv, NEW c \in Coroutines, NEW m \in Mails, Assigning(c, m)
  PROVE  /\ GoesOn(c, {"assist"}) /\ doing'[c].mail = m
         /\ \/ doing'[c].for = "mail" /\ ProposalsOf(m) = {}
            \/ m \in contested'
         /\ contested \subseteq contested' /\ contested' \subseteq Mails
         /\ (\E e \in Coroutines : Serves(e, m)) => m \in contested'
         /\ UNCHANGED <<appointment, autonomous, proposals, noted, replies, booked, wire, overlapped,
                        raced>>
<1>0. contested \subseteq Mails /\ doing \in [Coroutines -> Coroutine]
  BY DEF AutonomyInv, AutonomyTypeOK
<1>1. ASSUME NEW for \in {"mail", "owner"}, NEW asked \in BOOLEAN, NEW named \in Times \cup {Nothing},
             Goes(c, [step |-> "assist", mail |-> m, for |-> for, asked |-> asked, named |-> named])
      PROVE  GoesOn(c, {"assist"}) /\ doing'[c].mail = m /\ doing'[c].for = for
  <2>1. [step |-> "assist", mail |-> m, for |-> for, asked |-> asked, named |-> named] \in Coroutine
    BY DEF Coroutine
  <2>2. QED
    BY <1>0, <1>1, <2>1 DEF Goes, GoesOn, InHand
<1>2. CASE PickMail(c, m)
  BY <1>0, <1>1, <1>2 DEF PickMail, Unserved
<1>3. CASE \E asked \in BOOLEAN, named \in Times \cup {Nothing} : OwnerAsks(c, m, asked, named)
  BY <1>0, <1>1, <1>3 DEF OwnerAsks
<1>4. QED
  BY <1>2, <1>3 DEF Assigning

\* A new proposal: of a mail, waiting for the owner or executed at once.
LEMMA Proposing ==
  ASSUME AutonomyInv, NEW c \in Coroutines, NEW a \in Proposals, NEW t \in Times,
         NEW safe \in BOOLEAN, AssistProposes(c, a, t, safe)
  PROVE  /\ proposals[a].status = "absent" /\ doing[c].step = "assist"
         /\ \E row \in Proposal : /\ proposals' = [proposals EXCEPT ![a] = row]
                                 /\ row.status # "absent" /\ row.time \in Times
                                 /\ row.mail = doing[c].mail /\ row.mail \in Mails
         /\ GoesOn(c, Quiet)
         /\ noted' \in [Mails -> Notes]
         /\ UNCHANGED <<appointment, autonomous, replies, booked, wire, overlapped, contested, raced>>
<1>0. AutonomyTypeOK /\ doing[c] \in Coroutine
  BY DEF AutonomyInv, AutonomyTypeOK
<1>1. doing[c].mail \in Mails /\ doing[c].for \in {"mail", "owner"}
      /\ proposals[a].status = "absent" /\ doing[c].step = "assist"
      /\ UNCHANGED <<appointment, autonomous, replies, booked, wire, overlapped, contested, raced>>
  BY <1>0, Holding DEF AssistProposes
<1>2. CASE /\ proposals' = [proposals EXCEPT ![a] =
                [status |-> "approved", execution |-> "executing", mail |-> doing[c].mail,
                 time |-> t, safe |-> TRUE]]
           /\ Goes(c, [step |-> "verify", proposal |-> a, for |-> doing[c].for])
           /\ UNCHANGED noted
  <2> DEFINE row == [status |-> "approved", execution |-> "executing", mail |-> doing[c].mail,
                     time |-> t, safe |-> TRUE]
  <2>1. row \in Proposal
    BY <1>1 DEF Proposal
  <2>2. proposals'[a].status # "absent"
    BY <1>0, <1>2 DEF AutonomyTypeOK
  <2>3. [step |-> "verify", proposal |-> a, for |-> doing[c].for] \in Coroutine
    BY <1>1, Places
  <2>4. GoesOn(c, Quiet)
    BY <1>2, <2>2, <2>3 DEF Goes, GoesOn, Quiet
  <2>5. QED
    BY <1>0, <1>1, <1>2, <2>1, <2>4 DEF AutonomyTypeOK
<1>3. CASE /\ proposals' = [proposals EXCEPT ![a] =
                [status |-> "pending", execution |-> "none", mail |-> doing[c].mail, time |-> t,
                 safe |-> safe]]
           /\ Unbooked(c, "obstructed")
  <2> DEFINE row == [status |-> "pending", execution |-> "none", mail |-> doing[c].mail,
                     time |-> t, safe |-> safe]
  <2>1. row \in Proposal
    BY <1>1 DEF Proposal
  <2>2. GoesOn(c, Quiet) /\ noted' \in [Mails -> Notes]
    BY <1>0, <1>1, <1>3, Places
       DEF Unbooked, Note, Notes, Goes, GoesOn, Quiet, InHand, AutonomyTypeOK
  <2>3. QED
    BY <1>0, <1>1, <1>3, <2>1, <2>2 DEF AutonomyTypeOK
<1>4. QED
  BY <1>2, <1>3 DEF AssistProposes

-----------------------------------------------------------------------------
(* Types.                                                                   *)

LEMMA MadeStill ==
  ASSUME AutonomyInv, NoneMade,
         \/ doing' = doing
         \/ \E c \in Coroutines : \E steps : GoesOn(c, steps)
         \/ doing' \in [Coroutines -> Coroutine] /\ \A c \in Coroutines : doing'[c].step = "idle",
         Sent' \subseteq Proposals,
         \A a \in Sent' : a \in Sent \/ proposals[a].status # "absent"
  PROVE  doing' \in [Coroutines -> Coroutine] /\ ProposalsMade'
<1>0. /\ doing \in [Coroutines -> Coroutine] /\ ProposalsMade
      /\ proposals \in [Proposals -> Proposal] /\ Sent \subseteq Proposals
  BY DEF AutonomyInv, AutonomyTypeOK, Sent
<1>1. /\ \A a \in Proposals : IF proposals'[a].status = "absent" THEN proposals'[a].execution = "none"
                              ELSE proposals'[a].mail \in Mails /\ proposals'[a].time \in Times
      /\ \A a \in Sent' : proposals'[a].status # "absent"
  BY <1>0 DEF NoneMade, ProposalsMade
<1>2. ASSUME NEW c \in Coroutines, doing[c].step \in InHand
      PROVE  proposals'[doing[c].proposal].status # "absent"
  BY <1>0, <1>2, Holding DEF NoneMade, ProposalsMade
<1>3. CASE doing' = doing
  BY <1>0, <1>1, <1>2, <1>3 DEF ProposalsMade
<1>4. CASE \E c \in Coroutines : \E steps : GoesOn(c, steps)
  <2>1. PICK c \in Coroutines, next \in Coroutine :
          /\ doing' = [doing EXCEPT ![c] = next]
          /\ next.step \in InHand => proposals'[next.proposal].status # "absent"
    BY <1>4 DEF GoesOn
  <2>2. \A e \in Coroutines : doing'[e] = IF e = c THEN next ELSE doing[e]
    BY <1>0, <2>1
  <2>3. QED
    BY <1>0, <1>1, <1>2, <2>1, <2>2 DEF ProposalsMade
<1>5. CASE doing' \in [Coroutines -> Coroutine] /\ \A c \in Coroutines : doing'[c].step = "idle"
  BY <1>1, <1>5 DEF ProposalsMade, InHand
<1>6. QED
  BY <1>3, <1>4, <1>5

\* What an execution or a preparation does to the rest.
LEMMA ExecutingKinds ==
  ASSUME AutonomyInv, NEW c \in Coroutines, Executing(c)
  PROVE  /\ NoneMade
         /\ \/ GoesOn(c, Quiet)
            \/ /\ GoesOn(c, {"compose"}) /\ Confirmations(doing'[c].proposal) = {}
               /\ (\E e \in Coroutines : doing[e].step = "compose"
                                          /\ doing[e].proposal = doing'[c].proposal)
                    => doing'[c].proposal \in raced'
            \/ /\ VerifyPasses(c) /\ GoesOn(c, {"write"})
               /\ doing'[c].proposal = doing[c].proposal
         /\ \/ SameConfirmations
            \/ \E d \in Drafts : ComposeEnd(c, d)
         /\ UNCHANGED <<wire, overlapped>> \/ VerifyPasses(c)
         /\ raced \subseteq raced' /\ raced' \subseteq Proposals
         /\ UNCHANGED <<appointment, autonomous, booked, contested>>
         /\ noted' \in [Mails -> Notes]
<1>0. /\ AutonomyTypeOK /\ ProposalsMade /\ doing[c] \in Coroutine
      /\ proposals \in [Proposals -> Proposal]
  BY DEF AutonomyInv, AutonomyTypeOK
<1>1. UNCHANGED proposals => NoneMade
  BY <1>0 DEF NoneMade
<1>2. UNCHANGED replies => SameConfirmations
  BY <1>0 DEF SameConfirmations, AutonomyTypeOK
<1>3. \A next \in {Resting, Scanning} : Goes(c, next) => GoesOn(c, Quiet)
  BY Places DEF Goes, GoesOn, Quiet, InHand
<1> DEFINE a == doing[c].proposal
<1>4. ASSUME doing[c].step \in {"verify", "write", "compose"}
      PROVE  /\ a \in Proposals /\ proposals[a].status # "absent" /\ proposals[a].mail \in Mails
             /\ doing[c].for \in {"pending", "mail", "owner", "retry"}
  BY <1>0, <1>4, Holding DEF ProposalsMade, InHand
<1>5. CASE VerifyPasses(c)
  <2>1. doing[c].step = "verify" /\ Goes(c, [doing[c] EXCEPT !.step = "write"])
        /\ UNCHANGED <<appointment, autonomous, proposals, noted, replies, booked, contested, raced>>
    BY <1>5 DEF VerifyPasses
  <2>2. [doing[c] EXCEPT !.step = "write"] \in Coroutine
    BY <1>0, <2>1 DEF Coroutine, Resting, Scanning
  <2>3. /\ [doing[c] EXCEPT !.step = "write"].step = "write"
        /\ [doing[c] EXCEPT !.step = "write"].proposal = a
    BY <1>0, <2>1 DEF Coroutine, Resting, Scanning
  <2>4. GoesOn(c, {"write"}) /\ doing'[c].proposal = a
    BY <1>0, <1>4, <2>1, <2>2, <2>3 DEF Goes, GoesOn, AutonomyTypeOK
  <2>5. QED
    BY <1>0, <1>1, <1>2, <1>5, <2>1, <2>4 DEF AutonomyTypeOK
<1>6. CASE WriteFails(c)
  <2>1. doing[c].step \in {"verify", "write"} /\ Fails(c)
        /\ UNCHANGED <<appointment, autonomous, replies, booked, wire, overlapped, contested, raced>>
    BY <1>6 DEF WriteFails
  <2>2. NoneMade
    BY <1>4, <2>1, ClaimedType DEF Fails
  <2>3. GoesOn(c, Quiet)
    BY <1>3, <2>1, Places DEF Fails
  <2>4. noted' \in [Mails -> Notes]
    BY <1>0, <1>4, <2>1 DEF Fails, Note, Notes, AutonomyTypeOK
  <2>5. QED
    BY <1>0, <1>2, <2>1, <2>2, <2>3, <2>4 DEF AutonomyTypeOK
<1>7. CASE WriteSucceeds(c)
  <2>1. doing[c].step = "write"
        /\ proposals' = [proposals EXCEPT ![a].execution = "completed"]
        /\ UNCHANGED <<appointment, autonomous, booked, wire, overlapped, contested>>
    BY <1>7 DEF WriteSucceeds
  <2>2. NoneMade
    BY <1>4, <2>1, ClaimedType
  <2>3. proposals'[a].status # "absent"
    BY <1>4, <2>1, <2>2 DEF NoneMade
  <2>4. noted' \in [Mails -> Notes]
    BY <1>0, <1>4, <1>7, <2>1 DEF WriteSucceeds, Note, Notes, AutonomyTypeOK
  <2>5. CASE doing[c].for # "retry" /\ Prepare(c, a, doing[c].for)
    BY <1>0, <1>4, <2>1, <2>2, <2>3, <2>4, <2>5, Preparing DEF AutonomyTypeOK
  <2>6. CASE Goes(c, Resting) /\ UNCHANGED <<replies, raced>>
    BY <1>0, <1>2, <1>3, <2>1, <2>2, <2>4, <2>6 DEF AutonomyTypeOK
  <2>7. QED
    BY <1>7, <2>5, <2>6 DEF WriteSucceeds
<1>8. ASSUME NEW d \in Drafts, ComposeEnd(c, d)
      PROVE  /\ NoneMade /\ GoesOn(c, Quiet)
             /\ UNCHANGED <<appointment, autonomous, noted, booked, wire, overlapped, contested, raced>>
  BY <1>1, <1>3, <1>8, Places DEF ComposeEnd
<1>9. ASSUME NEW b \in Proposals, PrepareReply(c, b)
      PROVE  /\ NoneMade /\ SameConfirmations
             /\ \/ GoesOn(c, Quiet)
                \/ /\ GoesOn(c, {"compose"}) /\ Confirmations(doing'[c].proposal) = {}
                   /\ (\E e \in Coroutines : doing[e].step = "compose"
                                              /\ doing[e].proposal = doing'[c].proposal)
                        => doing'[c].proposal \in raced'
             /\ raced \subseteq raced' /\ raced' \subseteq Proposals
             /\ UNCHANGED <<appointment, autonomous, noted, booked, wire, overlapped, contested>>
  <2>1. /\ proposals[b].execution = "completed" /\ Prepare(c, b, "owner")
        /\ UNCHANGED <<appointment, autonomous, proposals, noted, booked, wire, overlapped, contested>>
    BY <1>9 DEF PrepareReply
  <2>2. proposals'[b].status # "absent"
    BY <1>0, <2>1 DEF ProposalsMade
  <2>3. QED
    BY <1>1, <2>1, <2>2, Preparing
<1>10. QED
  BY <1>0, <1>5, <1>6, <1>7, <1>8, <1>9 DEF Executing, AutonomyTypeOK

\* The owner, the mail agent and the end of the process.
LEMMA OwningKinds ==
  ASSUME AutonomyInv, Owning
  PROVE  /\ NoneMade
         /\ UNCHANGED <<appointment, doing, booked, wire, overlapped, contested, raced>>
         /\ autonomous' \in BOOLEAN
         /\ replies' \in [Drafts -> Reply]
         /\ \A d \in Drafts : replies'[d].confirms \in {replies[d].confirms, Nothing}
         /\ noted' \in [Mails -> Notes]
<1>0. /\ AutonomyTypeOK /\ replies \in [Drafts -> Reply]
      /\ proposals \in [Proposals -> Proposal]
  BY DEF AutonomyInv, AutonomyTypeOK
<1>1. UNCHANGED proposals => NoneMade
  BY <1>0 DEF NoneMade
<1>2. CASE \E a \in Proposals : OwnerRejects(a)
  <2>1. NoneMade
    BY <1>2, ClaimedType DEF OwnerRejects
  <2>2. QED
    BY <1>0, <1>2, <2>1 DEF OwnerRejects, AutonomyTypeOK
<1>3. CASE \E c \in Coroutines, m \in Mails : RefuseMail(c, m)
  BY <1>0, <1>1, <1>3 DEF RefuseMail, Note, Notes, AutonomyTypeOK
<1>4. CASE SwitchMode
  BY <1>0, <1>1, <1>4 DEF SwitchMode, AutonomyTypeOK
<1>5. ASSUME NEW d \in Drafts, NEW m \in Mails, AgentDrafts(d, m)
      PROVE  /\ replies' \in [Drafts -> Reply]
             /\ \A e \in Drafts : replies'[e].confirms \in {replies[e].confirms, Nothing}
  <2> DEFINE row == [status |-> "draft", mail |-> m, confirms |-> Nothing]
  <2>1. row \in Reply /\ row.confirms = Nothing
    BY DEF Reply
  <2>2. replies' = [replies EXCEPT ![d] = row]
    BY <1>5 DEF AgentDrafts
  <2> HIDE DEF row
  <2>3. QED
    BY <1>0, <2>1, <2>2
<1>6. ASSUME NEW d \in Drafts, OwnerHandles(d)
      PROVE  /\ replies' \in [Drafts -> Reply]
             /\ \A e \in Drafts : replies'[e].confirms \in {replies[e].confirms, Nothing}
  <2>1. PICK s \in {"waiting", "closed"} : replies' = [replies EXCEPT ![d].status = s]
    BY <1>6 DEF OwnerHandles
  <2>2. QED
    BY <1>0, <2>1, StatusOfReply
<1>7. CASE \E d \in Drafts, m \in Mails : AgentDrafts(d, m)
  <2>1. PICK d \in Drafts, m \in Mails : AgentDrafts(d, m)
    BY <1>7
  <2>2. QED
    BY <1>0, <1>1, <1>5, <2>1 DEF AgentDrafts, AutonomyTypeOK
<1>8. CASE \E d \in Drafts : OwnerHandles(d)
  <2>1. PICK d \in Drafts : OwnerHandles(d)
    BY <1>8
  <2>2. QED
    BY <1>0, <1>1, <1>6, <2>1 DEF OwnerHandles, AutonomyTypeOK
<1>9. QED
  BY <1>2, <1>3, <1>4, <1>7, <1>8 DEF Owning

\* A death leaves at most the reply it was storing.
LEMMA DyingKinds ==
  ASSUME AutonomyInv, Dying
  PROVE  /\ NoneMade
         /\ doing' \in [Coroutines -> Coroutine]
         /\ \A c \in Coroutines : doing'[c].step = "idle"
         /\ \/ replies' = replies
            \/ \E c \in Coroutines, d \in Drafts :
                 /\ doing[c].step = "compose"
                 /\ replies' = [replies EXCEPT ![d] =
                                  [status |-> "draft", mail |-> proposals[doing[c].proposal].mail,
                                   confirms |-> doing[c].proposal]]
         /\ UNCHANGED <<appointment, autonomous, noted, booked, wire, overlapped, contested, raced>>
<1>1. Recover
  BY DEF Dying, DieAtRest, DieInReply
<1>2. /\ NoneMade /\ doing' \in [Coroutines -> Coroutine]
      /\ \A c \in Coroutines : doing'[c].step = "idle"
  BY <1>1, Recovering
<1>3. CASE DieAtRest
  BY <1>2, <1>3 DEF DieAtRest
<1>5. CASE \E c \in Coroutines, d \in Drafts : DieInReply(c, d)
  BY <1>2, <1>5 DEF DieInReply
<1>6. QED
  BY <1>3, <1>5 DEF Dying

\* A stored reply is a row of drafts.
LEMMA StoredReply ==
  ASSUME AutonomyInv, NEW c \in Coroutines, NEW d \in Drafts, NEW s \in {"draft", "waiting"},
         doing[c].step = "compose",
         replies' = [replies EXCEPT ![d] =
                       [status |-> s, mail |-> proposals[doing[c].proposal].mail,
                        confirms |-> doing[c].proposal]]
  PROVE  /\ replies' \in [Drafts -> Reply]
         /\ \A e \in Drafts : replies'[e].confirms = IF e = d THEN doing[c].proposal
                                                     ELSE replies[e].confirms
<1>1. /\ replies \in [Drafts -> Reply] /\ doing[c] \in Coroutine /\ ProposalsMade
  BY DEF AutonomyInv, AutonomyTypeOK
<1>2. doing[c].proposal \in Proposals /\ proposals[doing[c].proposal].mail \in Mails
  BY <1>1, Holding DEF ProposalsMade, InHand
<1> DEFINE row == [status |-> s, mail |-> proposals[doing[c].proposal].mail,
                   confirms |-> doing[c].proposal]
<1>3. row \in Reply /\ row.confirms = doing[c].proposal
  BY <1>2 DEF Reply
<1>4. replies' = [replies EXCEPT ![d] = row]
  OBVIOUS
<1> HIDE DEF row
<1>5. QED
  BY <1>1, <1>3, <1>4

\* Google makes the event, or never gets or refuses the request.
LEMMA Landed ==
  ASSUME Landing
  PROVE  /\ Sent' \subseteq Sent
         /\ UNCHANGED <<appointment, autonomous, proposals, noted, replies, doing, overlapped, contested,
                        raced>>
  BY DEF Landing, Arrives, Lost, Sent

LEMMA AutonomyInvNext == AutonomyInv /\ [AutonomyNext]_autonomyVars => AutonomyInv'
<1>. SUFFICES ASSUME AutonomyInv, [AutonomyNext]_autonomyVars PROVE AutonomyInv'
  OBVIOUS
<1>0. /\ AutonomyTypeOK /\ ProposalsMade /\ proposals \in [Proposals -> Proposal]
      /\ doing \in [Coroutines -> Coroutine] /\ Sent \subseteq Proposals
  BY DEF AutonomyInv, AutonomyTypeOK, Sent
<1>01. UNCHANGED proposals => NoneMade
  BY <1>0 DEF NoneMade
<1>02. UNCHANGED <<booked, wire>> => Sent' = Sent
  BY DEF Sent
<1>1. ASSUME NEW c \in Coroutines, TakesUp(c) PROVE AutonomyInv'
  <2>1. doing' \in [Coroutines -> Coroutine] /\ ProposalsMade'
    BY <1>0, <1>02, <1>1, TakingUp, MadeStill
  <2>2. AutonomyTypeOK'
    BY <1>0, <1>1, <2>1, TakingUp DEF AutonomyTypeOK, NoneMade
  <2>3. QED
    BY <2>1, <2>2 DEF AutonomyInv
<1>2. ASSUME NEW c \in Coroutines, Executing(c) PROVE AutonomyInv'
  <2>1. doing[c].step = "verify" => /\ doing[c].proposal \in Proposals
                                    /\ proposals[doing[c].proposal].status # "absent"
                                    /\ proposals[doing[c].proposal].time \in Times
    BY <1>0, Holding DEF ProposalsMade, InHand
  <2>2. /\ wire' \subseteq Proposals /\ overlapped' \subseteq Times
        /\ \A a \in wire' : a \in wire \/ proposals[a].status # "absent"
    <3>1. CASE UNCHANGED <<wire, overlapped>>
      BY <1>0, <3>1 DEF AutonomyTypeOK
    <3>2. CASE VerifyPasses(c)
      BY <1>0, <2>1, <3>2 DEF VerifyPasses, AutonomyTypeOK
    <3>3. QED
      BY <1>2, <3>1, <3>2, ExecutingKinds
  <2>3. doing' \in [Coroutines -> Coroutine] /\ ProposalsMade'
    <3>1. booked' = booked
      BY <1>2, ExecutingKinds
    <3>2. Sent' \subseteq Proposals /\ \A a \in Sent' : a \in Sent \/ proposals[a].status # "absent"
      BY <1>0, <2>2, <3>1 DEF Sent
    <3>3. NoneMade /\ \E steps : GoesOn(c, steps)
      BY <1>2, ExecutingKinds
    <3>4. QED
      BY <3>2, <3>3, MadeStill
  <2>4. replies' \in [Drafts -> Reply]
    <3>1. CASE \E d \in Drafts : ComposeEnd(c, d)
      BY <3>1, StoredReply DEF ComposeEnd
    <3>2. QED
      BY <1>2, <3>1, ExecutingKinds DEF SameConfirmations
  <2>5. /\ proposals' \in [Proposals -> Proposal]
        /\ UNCHANGED <<appointment, autonomous, booked, contested>>
        /\ noted' \in [Mails -> Notes]
        /\ raced' \subseteq Proposals
    BY <1>2, ExecutingKinds DEF NoneMade
  <2>6. AutonomyTypeOK'
    BY <1>0, <2>2, <2>3, <2>4, <2>5 DEF AutonomyTypeOK
  <2>7. QED
    BY <2>3, <2>6 DEF AutonomyInv
<1>3. ASSUME NEW c \in Coroutines, NEW m \in Mails, Assigning(c, m) PROVE AutonomyInv'
  <2>1. /\ UNCHANGED <<appointment, autonomous, proposals, noted, replies, booked, wire, overlapped,
                       raced>>
        /\ contested' \subseteq Mails /\ \E steps : GoesOn(c, steps)
    BY <1>3, Assigned
  <2>2. doing' \in [Coroutines -> Coroutine] /\ ProposalsMade'
    BY <1>0, <1>01, <1>02, <2>1, MadeStill
  <2>3. AutonomyTypeOK'
    BY <1>0, <2>1, <2>2 DEF AutonomyTypeOK
  <2>4. QED
    BY <2>2, <2>3 DEF AutonomyInv
<1>4. ASSUME NEW c \in Coroutines, NEW a \in Proposals, NEW t \in Times, NEW safe \in BOOLEAN,
             AssistProposes(c, a, t, safe)
      PROVE  AutonomyInv'
  <2>1. PICK row \in Proposal : /\ proposals' = [proposals EXCEPT ![a] = row]
                               /\ row.status # "absent" /\ row.mail \in Mails /\ row.time \in Times
    BY <1>4, Proposing
  <2>2. PICK next \in Coroutine :
          /\ doing' = [doing EXCEPT ![c] = next]
          /\ next.step \in InHand => proposals'[next.proposal].status # "absent"
    BY <1>4, Proposing DEF GoesOn
  <2>3. UNCHANGED <<appointment, autonomous, replies, booked, wire, overlapped, contested, raced>>
        /\ noted' \in [Mails -> Notes]
    BY <1>4, Proposing
  <2>4. \A b \in Proposals : proposals'[b] = IF b = a THEN row ELSE proposals[b]
    BY <1>0, <2>1
  <2>5. \A e \in Coroutines : doing'[e] = IF e = c THEN next ELSE doing[e]
    BY <1>0, <2>2
  <2>6. AutonomyTypeOK'
    BY <1>0, <2>1, <2>2, <2>3 DEF AutonomyTypeOK
  <2>7. \A e \in Coroutines : doing[e].step \in InHand => doing[e].proposal \in Proposals
    BY <1>0, Holding
  <2>8. /\ \A b \in Proposals : IF proposals'[b].status = "absent" THEN proposals'[b].execution = "none"
                                ELSE proposals'[b].mail \in Mails /\ proposals'[b].time \in Times
        /\ \A b \in Sent' : proposals'[b].status # "absent"
    BY <1>0, <1>02, <2>1, <2>3, <2>4 DEF ProposalsMade
  <2>9. \A e \in Coroutines :
          doing'[e].step \in InHand => proposals'[doing'[e].proposal].status # "absent"
    BY <1>0, <2>1, <2>2, <2>4, <2>5, <2>7 DEF ProposalsMade
  <2>10. QED
    BY <2>6, <2>8, <2>9 DEF AutonomyInv, ProposalsMade
<1>5. CASE Landing
  <2>1. ProposalsMade'
    BY <1>0, <1>01, <1>5, Landed, MadeStill
  <2>2. booked' \subseteq Proposals /\ wire' \subseteq Proposals
    BY <1>0, <1>5, Landed DEF Sent
  <2>3. AutonomyTypeOK'
    BY <1>0, <1>5, <2>2, Landed DEF AutonomyTypeOK
  <2>4. QED
    BY <2>1, <2>3 DEF AutonomyInv
<1>6. CASE Owning
  <2>1. ProposalsMade'
    BY <1>0, <1>02, <1>6, OwningKinds, MadeStill
  <2>2. AutonomyTypeOK'
    BY <1>0, <1>6, OwningKinds DEF AutonomyTypeOK, NoneMade
  <2>3. QED
    BY <2>1, <2>2 DEF AutonomyInv
<1>7. CASE Dying
  <2>1. ProposalsMade'
    BY <1>0, <1>02, <1>7, DyingKinds, MadeStill
  <2>2. replies' \in [Drafts -> Reply]
    BY <1>0, <1>7, DyingKinds, StoredReply DEF AutonomyTypeOK
  <2>3. AutonomyTypeOK'
    BY <1>0, <1>7, <2>2, DyingKinds DEF AutonomyTypeOK, NoneMade
  <2>4. QED
    BY <2>1, <2>3 DEF AutonomyInv
<1>8. CASE UNCHANGED autonomyVars
  BY <1>0, <1>8 DEF autonomyVars, AutonomyInv, AutonomyTypeOK, ProposalsMade, Sent
<1>9. QED
  BY <1>1, <1>2, <1>3, <1>4, <1>5, <1>6, <1>7, <1>8, AutonomySteps

\* Every value has its type, and nothing is written, approved or confirmed for
\* a mail without its row in calendar_approvals.
THEOREM AutonomyTypeCorrect == AutonomySpec => []AutonomyInv
<1>1. AutonomyInit => AutonomyInv
  BY AutonomyInvInit
<1>2. AutonomyInv /\ [AutonomyNext]_autonomyVars => AutonomyInv'
  BY AutonomyInvNext
<1>3. QED
  BY <1>1, <1>2, PTL DEF AutonomySpec

-----------------------------------------------------------------------------
(* One event per time.  The invariant looks at requests on their way as well  *)
(* as at events: a request is only made when no event is there, and one that   *)
(* meets another on its way is marked; when it becomes an event is Google's.    *)

SentApart ==
  \A a, b \in Sent :
    a # b /\ proposals[a].time = proposals[b].time => proposals[a].time \in overlapped

\* What was sent stays at its time.
TimesKept == \A a \in Sent : proposals'[a].time = proposals[a].time

LEMMA NothingSent ==
  ASSUME SentApart, TimesKept, Sent' \subseteq Sent, overlapped' = overlapped
  PROVE  SentApart'
  BY DEF SentApart, TimesKept

\* A request leaves when no event of its time is there.
LEMMA RequestLeaves ==
  ASSUME SentApart, NEW c \in Coroutines, VerifyPasses(c)
  PROVE  SentApart'
<1> DEFINE a == doing[c].proposal
           t == proposals[a].time
<1>1. /\ proposals' = proposals /\ booked' = booked /\ wire' = wire \cup {a}
      /\ \A b \in booked : proposals[b].time # t
      /\ overlapped \subseteq overlapped'
      /\ (\E b \in wire \ {a} : proposals[b].time = t) => t \in overlapped'
  BY DEF VerifyPasses, Taken, Occupied
<1>2. \A b \in Sent : b # a /\ proposals[b].time = t => t \in overlapped'
  BY <1>1 DEF Sent
<1>3. Sent' = Sent \cup {a}
  BY <1>1 DEF Sent
<1>4. QED
  BY <1>1, <1>2, <1>3 DEF SentApart

LEMMA SentApartNext ==
  AutonomyInv /\ SentApart /\ [AutonomyNext]_autonomyVars => SentApart'
<1>. SUFFICES ASSUME AutonomyInv, SentApart, [AutonomyNext]_autonomyVars PROVE SentApart'
  OBVIOUS
<1>0. /\ proposals \in [Proposals -> Proposal] /\ Sent \subseteq Proposals
      /\ \A a \in Sent : proposals[a].status # "absent"
  BY DEF AutonomyInv, AutonomyTypeOK, ProposalsMade, Sent
<1>1. NoneMade \/ UNCHANGED proposals => TimesKept
  BY <1>0 DEF NoneMade, TimesKept
<1>2. UNCHANGED <<booked, wire>> => Sent' = Sent
  BY DEF Sent
<1>3. ASSUME NEW c \in Coroutines, TakesUp(c) PROVE SentApart'
  BY <1>1, <1>2, <1>3, TakingUp, NothingSent
<1>4. ASSUME NEW c \in Coroutines, Executing(c) PROVE SentApart'
  <2>1. CASE VerifyPasses(c)
    BY <2>1, RequestLeaves
  <2>2. CASE ~VerifyPasses(c)
    BY <1>1, <1>2, <1>4, <2>2, ExecutingKinds, NothingSent
  <2>3. QED
    BY <2>1, <2>2
<1>5. ASSUME NEW c \in Coroutines, NEW m \in Mails, Assigning(c, m) PROVE SentApart'
  BY <1>1, <1>2, <1>5, Assigned, NothingSent
<1>6. ASSUME NEW c \in Coroutines, NEW a \in Proposals, NEW t \in Times, NEW safe \in BOOLEAN,
             AssistProposes(c, a, t, safe)
      PROVE  SentApart'
  <2>1. TimesKept
    BY <1>0, <1>6, Proposing DEF TimesKept
  <2>2. QED
    BY <1>2, <1>6, <2>1, Proposing, NothingSent
<1>7. CASE Landing
  BY <1>1, <1>7, Landed, NothingSent
<1>8. CASE Owning
  BY <1>1, <1>2, <1>8, OwningKinds, NothingSent
<1>9. CASE Dying
  BY <1>1, <1>2, <1>9, DyingKinds, NothingSent
<1>10. CASE UNCHANGED autonomyVars
  BY <1>1, <1>2, <1>10, NothingSent DEF autonomyVars
<1>11. QED
  BY <1>3, <1>4, <1>5, <1>6, <1>7, <1>8, <1>9, <1>10, AutonomySteps

-----------------------------------------------------------------------------
(* One event per mail.  A cycle takes up a mail while no proposal of it is     *)
(* there, and makes one; so two proposals of one mail, or a proposal and a     *)
(* coroutine at work on its mail, are there only when the mail was contested.  *)

InWork(c) == doing[c].step = "assist"

ServedApart ==
  /\ \A a, b \in Proposals :
       a # b /\ proposals[a].mail \in Mails /\ proposals[a].mail = proposals[b].mail
         => proposals[a].mail \in contested
  /\ \A c \in Coroutines, a \in Proposals :
       InWork(c) /\ proposals[a].mail = doing[c].mail => doing[c].mail \in contested
  /\ \A c, e \in Coroutines :
       c # e /\ InWork(c) /\ InWork(e) /\ doing[c].mail = doing[e].mail
         => doing[c].mail \in contested
  /\ \A c \in Coroutines : InWork(c) /\ doing[c].for = "owner" => doing[c].mail \in contested

\* Proposals stay about their mails, and no mail is taken up.
MailsKept == \A a \in Proposals : proposals'[a].mail = proposals[a].mail

NoneTakenUp == \A c \in Coroutines : InWork(c)' => doing'[c] = doing[c]

LEMMA NothingServed ==
  ASSUME ServedApart, MailsKept, NoneTakenUp, contested' = contested
  PROVE  ServedApart'
<1>1. \A c \in Coroutines : InWork(c)' => InWork(c) /\ doing'[c] = doing[c]
  BY DEF NoneTakenUp, InWork
<1>2. QED
  BY <1>1 DEF ServedApart, MailsKept

\* A mail is taken up: what is about it already, or will be, makes it contested.
LEMMA MailTakenUp ==
  ASSUME AutonomyInv, ServedApart, NEW c \in Coroutines, NEW m \in Mails, Assigning(c, m)
  PROVE  ServedApart'
<1>0. doing \in [Coroutines -> Coroutine]
  BY DEF AutonomyInv, AutonomyTypeOK
<1>1. /\ proposals' = proposals /\ contested \subseteq contested' /\ doing'[c].mail = m
      /\ (doing'[c].for = "mail" /\ ProposalsOf(m) = {}) \/ m \in contested'
      /\ (\E e \in Coroutines : Serves(e, m)) => m \in contested'
      /\ \A e \in Coroutines : e # c => doing'[e] = doing[e]
  BY <1>0, Assigned DEF GoesOn
<1>2. \A e \in Coroutines : e # c => (InWork(e)' <=> InWork(e)) /\ doing'[e] = doing[e]
  BY <1>1 DEF InWork
<1>3. ASSUME NEW e \in Coroutines, InWork(e), doing[e].mail = m PROVE m \in contested'
  <2>1. doing[e].for \in {"mail", "owner"}
    BY <1>0, <1>3, Holding DEF InWork
  <2>2. CASE doing[e].for = "mail"
    BY <1>1, <1>3, <2>2 DEF Serves, InWork
  <2>3. CASE doing[e].for = "owner"
    BY <1>1, <1>3, <2>3 DEF ServedApart
  <2>4. QED
    BY <2>1, <2>2, <2>3
<1>4. \A a \in Proposals : proposals[a].mail = m => m \in contested'
  BY <1>1 DEF ProposalsOf
<1>5. \A a, b \in Proposals :
        a # b /\ proposals'[a].mail \in Mails /\ proposals'[a].mail = proposals'[b].mail
          => proposals'[a].mail \in contested'
  BY <1>1 DEF ServedApart
<1>6. \A e \in Coroutines, a \in Proposals :
        InWork(e)' /\ proposals'[a].mail = doing'[e].mail => doing'[e].mail \in contested'
  BY <1>1, <1>2, <1>4 DEF ServedApart
<1>7. \A e, f \in Coroutines :
        e # f /\ InWork(e)' /\ InWork(f)' /\ doing'[e].mail = doing'[f].mail
          => doing'[e].mail \in contested'
  BY <1>1, <1>2, <1>3 DEF ServedApart
<1>8. \A e \in Coroutines : InWork(e)' /\ doing'[e].for = "owner" => doing'[e].mail \in contested'
  <2>1. doing'[c].for = "owner" => m \in contested'
    BY <1>1
  <2>2. QED
    BY <1>1, <1>2, <2>1 DEF ServedApart
<1>9. QED
  BY <1>5, <1>6, <1>7, <1>8 DEF ServedApart

\* A proposal is made of the mail in work.
LEMMA MailServed ==
  ASSUME AutonomyInv, ServedApart, NEW c \in Coroutines, NEW a \in Proposals, NEW t \in Times,
         NEW safe \in BOOLEAN, AssistProposes(c, a, t, safe)
  PROVE  ServedApart'
<1>0. doing \in [Coroutines -> Coroutine] /\ proposals \in [Proposals -> Proposal]
  BY DEF AutonomyInv, AutonomyTypeOK
<1> DEFINE m == doing[c].mail
<1>1. /\ InWork(c) /\ contested' = contested /\ GoesOn(c, Quiet)
      /\ \A b \in Proposals : proposals'[b].mail = IF b = a THEN m ELSE proposals[b].mail
  BY <1>0, Proposing DEF InWork
<1>2. \A e \in Coroutines : InWork(e)' => e # c /\ InWork(e) /\ doing'[e] = doing[e]
  BY <1>0, <1>1 DEF GoesOn, Quiet, InWork
<1>3. \A b \in Proposals : proposals[b].mail = m => m \in contested
  BY <1>1 DEF ServedApart
<1>4. \A e \in Coroutines : e # c /\ InWork(e) /\ doing[e].mail = m => m \in contested
  BY <1>1 DEF ServedApart
<1>5. \A b, d \in Proposals :
        b # d /\ proposals'[b].mail \in Mails /\ proposals'[b].mail = proposals'[d].mail
          => proposals'[b].mail \in contested'
  BY <1>1, <1>3 DEF ServedApart
<1>6. \A e \in Coroutines, b \in Proposals :
        InWork(e)' /\ proposals'[b].mail = doing'[e].mail => doing'[e].mail \in contested'
  BY <1>1, <1>2, <1>4 DEF ServedApart
<1>7. QED
  BY <1>1, <1>2, <1>5, <1>6 DEF ServedApart

LEMMA ServedApartNext ==
  AutonomyInv /\ ServedApart /\ [AutonomyNext]_autonomyVars => ServedApart'
<1>. SUFFICES ASSUME AutonomyInv, ServedApart, [AutonomyNext]_autonomyVars PROVE ServedApart'
  OBVIOUS
<1>0. doing \in [Coroutines -> Coroutine]
  BY DEF AutonomyInv, AutonomyTypeOK
<1>1. NoneMade \/ UNCHANGED proposals => MailsKept
  BY DEF NoneMade, MailsKept
<1>2. ASSUME NEW c \in Coroutines, NEW steps, GoesOn(c, steps), "assist" \notin steps
      PROVE  NoneTakenUp
  BY <1>0, <1>2 DEF GoesOn, NoneTakenUp, InWork
<1>3. ASSUME NEW c \in Coroutines, TakesUp(c) PROVE ServedApart'
  BY <1>1, <1>2, <1>3, TakingUp, NothingServed DEF Quiet
<1>4. ASSUME NEW c \in Coroutines, Executing(c) PROVE ServedApart'
  <2>1. NoneTakenUp
    <3>1. GoesOn(c, Quiet) \/ GoesOn(c, {"compose"}) \/ GoesOn(c, {"write"})
      BY <1>4, ExecutingKinds
    <3>2. QED
      BY <1>2, <3>1 DEF Quiet
  <2>2. QED
    BY <1>1, <1>4, <2>1, ExecutingKinds, NothingServed
<1>5. ASSUME NEW c \in Coroutines, NEW m \in Mails, Assigning(c, m) PROVE ServedApart'
  BY <1>5, MailTakenUp
<1>6. ASSUME NEW c \in Coroutines, NEW a \in Proposals, NEW t \in Times, NEW safe \in BOOLEAN,
             AssistProposes(c, a, t, safe)
      PROVE  ServedApart'
  BY <1>6, MailServed
<1>7. doing' = doing => NoneTakenUp
  BY DEF NoneTakenUp
<1>8. CASE Landing
  BY <1>1, <1>7, <1>8, Landed, NothingServed
<1>9. CASE Owning
  BY <1>1, <1>7, <1>9, OwningKinds, NothingServed
<1>10. CASE Dying
  <2>1. NoneTakenUp
    BY <1>10, DyingKinds DEF NoneTakenUp, InWork
  <2>2. QED
    BY <1>1, <1>10, <2>1, DyingKinds, NothingServed
<1>11. CASE UNCHANGED autonomyVars
  BY <1>1, <1>7, <1>11, NothingServed DEF autonomyVars
<1>12. QED
  BY <1>3, <1>4, <1>5, <1>6, <1>8, <1>9, <1>10, <1>11, AutonomySteps

LEMMA ApartBooksOnce == AutonomyInv /\ SentApart /\ ServedApart => BookedOnce
<1>. SUFFICES ASSUME AutonomyInv, SentApart, ServedApart PROVE BookedOnce
  OBVIOUS
<1>1. \A a \in booked : a \in Sent /\ a \in Proposals /\ proposals[a].mail \in Mails
  BY DEF AutonomyInv, AutonomyTypeOK, ProposalsMade, Sent
<1>2. QED
  BY <1>1 DEF BookedOnce, SentApart, ServedApart

\* However many syncs, requests and retries are at work and whatever they give up
\* on, a time is booked once unless two requests for it were on their way together,
\* and a mail is booked once unless two cycles had it in hand together or the owner
\* gave instructions about it (main_v173.py _process_autonomous_calendar_mail).
THEOREM NothingIsBookedTwice == AutonomySpec => []BookedOnce
<1>1. AutonomyInit => SentApart /\ ServedApart
  <2>1. AutonomyInit => Sent = {} /\ \A c \in Coroutines : ~InWork(c)
    BY Places DEF AutonomyInit, Sent, InWork
  <2>2. AutonomyInit => \A a \in Proposals : proposals[a].mail \notin Mails
    BY AutonomyAssumption DEF AutonomyInit
  <2>3. QED
    BY <2>1, <2>2 DEF SentApart, ServedApart
<1>2. QED
  BY <1>1, AutonomyInvInit, AutonomyInvNext, SentApartNext, ServedApartNext, ApartBooksOnce, PTL
     DEF AutonomySpec

-----------------------------------------------------------------------------
LEMMA TwoMembers ==
  ASSUME NEW S, Cardinality(S) > 1
  PROVE  \E f, g \in S : f # g
<1>1. CASE S = {}
  <2>1. Cardinality(S) = 0
    BY <1>1, FS_EmptySet
  <2>2. QED
    BY <2>1
<1>2. CASE S # {} /\ \A f, g \in S : f = g
  <2>1. PICK f \in S : TRUE
    BY <1>2
  <2>2. S = {f}
    BY <1>2, <2>1
  <2>3. Cardinality(S) = 1
    BY <2>2, FS_Singleton
  <2>4. QED
    BY <2>3
<1>3. QED
  BY <1>1, <1>2

-----------------------------------------------------------------------------
(* One confirmation per event, in the same way: a reply is only asked for     *)
(* while none exists, discarded ones included.                               *)

Composing(c) == doing[c].step = "compose"

RepliesApart ==
  /\ \A a \in Proposals, d, f \in Drafts :
       d # f /\ replies[d].confirms = a /\ replies[f].confirms = a => a \in raced
  /\ \A c, e \in Coroutines :
       c # e /\ Composing(c) /\ Composing(e) /\ doing[c].proposal = doing[e].proposal
         => doing[c].proposal \in raced
  /\ \A c \in Coroutines, d \in Drafts :
       Composing(c) /\ replies[d].confirms = doing[c].proposal => doing[c].proposal \in raced

\* No reply begins to confirm an event.
NoConfirmation ==
  \A d \in Drafts : replies'[d].confirms \in Proposals => replies'[d].confirms = replies[d].confirms

NoReplyStarts == \A c \in Coroutines : Composing(c)' => doing'[c] = doing[c]

LEMMA ComposedProposal ==
  ASSUME AutonomyInv, NEW c \in Coroutines, Composing(c)
  PROVE  doing[c].proposal \in Proposals
  BY Holding DEF Composing, InHand, AutonomyInv, AutonomyTypeOK

LEMMA NothingConfirmed ==
  ASSUME AutonomyInv, RepliesApart, NoConfirmation, NoReplyStarts, raced \subseteq raced'
  PROVE  RepliesApart'
<1>1. \A c \in Coroutines : Composing(c)' => /\ Composing(c) /\ doing'[c] = doing[c]
                                            /\ doing[c].proposal \in Proposals
  BY ComposedProposal DEF NoReplyStarts, Composing
<1>2. \A a \in Proposals, d \in Drafts : replies'[d].confirms = a => replies[d].confirms = a
  BY DEF NoConfirmation
<1>3. QED
  BY <1>1, <1>2 DEF RepliesApart

\* A reply is asked for: none exists, and another one asked for is a race.
LEMMA ReplyStarts ==
  ASSUME AutonomyInv, RepliesApart, SameConfirmations, NEW c \in Coroutines,
         GoesOn(c, {"compose"}), Confirmations(doing'[c].proposal) = {}, raced \subseteq raced',
         (\E e \in Coroutines : doing[e].step = "compose"
                                 /\ doing[e].proposal = doing'[c].proposal)
           => doing'[c].proposal \in raced'
  PROVE  RepliesApart'
<1> DEFINE a == doing'[c].proposal
<1>1. \A e \in Coroutines : e # c => doing'[e] = doing[e]
  BY DEF AutonomyInv, AutonomyTypeOK, GoesOn
<1>2. \A e \in Coroutines : e # c => (Composing(e)' <=> Composing(e))
  BY <1>1 DEF Composing
<1>3. \A d \in Drafts : replies'[d].confirms # a
  BY DEF SameConfirmations, Confirmations
<1>4. \A e \in Coroutines : e # c /\ Composing(e) /\ doing[e].proposal = a => a \in raced'
  BY DEF Composing
<1>5. \A b \in Proposals, d, f \in Drafts :
        d # f /\ replies'[d].confirms = b /\ replies'[f].confirms = b => b \in raced'
  BY DEF RepliesApart, SameConfirmations
<1>6. \A e, f \in Coroutines :
        e # f /\ Composing(e)' /\ Composing(f)' /\ doing'[e].proposal = doing'[f].proposal
          => doing'[e].proposal \in raced'
  <2>1. SUFFICES ASSUME NEW e \in Coroutines, NEW f \in Coroutines, e # f,
                        Composing(e)', Composing(f)', doing'[e].proposal = doing'[f].proposal
                 PROVE  doing'[e].proposal \in raced'
    OBVIOUS
  <2>2. CASE e = c
    BY <1>1, <1>2, <1>4, <2>1, <2>2
  <2>3. CASE f = c
    BY <1>1, <1>2, <1>4, <2>1, <2>3
  <2>4. CASE e # c /\ f # c
    BY <1>1, <1>2, <2>1, <2>4 DEF RepliesApart
  <2>5. QED
    BY <2>2, <2>3, <2>4
<1>7. \A e \in Coroutines, d \in Drafts :
        Composing(e)' /\ replies'[d].confirms = doing'[e].proposal => doing'[e].proposal \in raced'
  <2>1. SUFFICES ASSUME NEW e \in Coroutines, NEW d \in Drafts, Composing(e)',
                        replies'[d].confirms = doing'[e].proposal
                 PROVE  doing'[e].proposal \in raced'
    OBVIOUS
  <2>2. e # c
    BY <1>3, <2>1
  <2>3. QED
    BY <1>1, <1>2, <2>1, <2>2 DEF RepliesApart, SameConfirmations
<1>8. QED
  BY <1>5, <1>6, <1>7 DEF RepliesApart

\* The reply that was asked for is stored.
LEMMA OneConfirmed ==
  ASSUME AutonomyInv, RepliesApart, NoReplyStarts, raced' = raced,
         NEW c \in Coroutines, NEW d \in Drafts, Composing(c), ~Composing(c)',
         \A f \in Drafts : replies'[f].confirms = IF f = d THEN doing[c].proposal
                                                  ELSE replies[f].confirms
  PROVE  RepliesApart'
<1> DEFINE a == doing[c].proposal
<1>1. \A e \in Coroutines : Composing(e)' => /\ Composing(e) /\ doing'[e] = doing[e] /\ e # c
  BY DEF NoReplyStarts, Composing
<1>2. \A f \in Drafts : replies[f].confirms = a => a \in raced
  BY DEF RepliesApart
<1>3. \A e \in Coroutines : e # c /\ Composing(e) /\ doing[e].proposal = a => a \in raced
  BY DEF RepliesApart
<1>4. \A b \in Proposals, f, g \in Drafts :
        f # g /\ replies'[f].confirms = b /\ replies'[g].confirms = b => b \in raced'
  BY <1>2 DEF RepliesApart
<1>5. \A e, f \in Coroutines :
        e # f /\ Composing(e)' /\ Composing(f)' /\ doing'[e].proposal = doing'[f].proposal
          => doing'[e].proposal \in raced'
  BY <1>1 DEF RepliesApart
<1>6. \A e \in Coroutines, f \in Drafts :
        Composing(e)' /\ replies'[f].confirms = doing'[e].proposal => doing'[e].proposal \in raced'
  BY <1>1, <1>3 DEF RepliesApart
<1>7. QED
  BY <1>4, <1>5, <1>6 DEF RepliesApart

LEMMA RepliesApartNext ==
  AutonomyInv /\ RepliesApart /\ [AutonomyNext]_autonomyVars => RepliesApart'
<1>. SUFFICES ASSUME AutonomyInv, RepliesApart, [AutonomyNext]_autonomyVars PROVE RepliesApart'
  OBVIOUS
<1>0. doing \in [Coroutines -> Coroutine]
  BY DEF AutonomyInv, AutonomyTypeOK
<1>1. replies' = replies \/ SameConfirmations => NoConfirmation
  BY DEF SameConfirmations, NoConfirmation
<1>2. ASSUME NEW c \in Coroutines, NEW steps, GoesOn(c, steps), "compose" \notin steps
      PROVE  NoReplyStarts /\ ~Composing(c)'
  BY <1>0, <1>2 DEF GoesOn, NoReplyStarts, Composing
<1>3. ASSUME NEW c \in Coroutines, TakesUp(c) PROVE RepliesApart'
  BY <1>1, <1>2, <1>3, TakingUp, NothingConfirmed DEF Quiet
<1>4. ASSUME NEW c \in Coroutines, Executing(c) PROVE RepliesApart'
  <2>1. CASE \E d \in Drafts : ComposeEnd(c, d)
    <3>1. PICK d \in Drafts : ComposeEnd(c, d)
      BY <2>1
    <3>2. Composing(c) /\ raced' = raced
      BY <3>1 DEF ComposeEnd, Composing
    <3>3. NoReplyStarts /\ ~Composing(c)'
      BY <1>0, <3>1, Places DEF ComposeEnd, Goes, NoReplyStarts, Composing
    <3>4. \A f \in Drafts : replies'[f].confirms = IF f = d THEN doing[c].proposal
                                                   ELSE replies[f].confirms
      BY <3>1, StoredReply DEF ComposeEnd
    <3>5. QED
      BY <3>2, <3>3, <3>4, OneConfirmed
  <2>2. CASE ~\E d \in Drafts : ComposeEnd(c, d)
    <3>1. SameConfirmations /\ raced \subseteq raced'
      BY <1>4, <2>2, ExecutingKinds
    <3>2. CASE GoesOn(c, Quiet) \/ GoesOn(c, {"write"})
      <4>1. NoReplyStarts
        BY <1>2, <3>2 DEF Quiet
      <4>2. QED
        BY <1>1, <3>1, <4>1, NothingConfirmed
    <3>3. CASE ~(GoesOn(c, Quiet) \/ GoesOn(c, {"write"}))
      BY <1>4, <3>1, <3>3, ExecutingKinds, ReplyStarts
    <3>4. QED
      BY <3>2, <3>3
  <2>3. QED
    BY <2>1, <2>2
<1>5. ASSUME NEW c \in Coroutines, NEW a \in Proposals, NEW t \in Times, NEW safe \in BOOLEAN,
             AssistProposes(c, a, t, safe)
      PROVE  RepliesApart'
  BY <1>1, <1>2, <1>5, Proposing, NothingConfirmed DEF Quiet
<1>51. ASSUME NEW c \in Coroutines, NEW m \in Mails, Assigning(c, m) PROVE RepliesApart'
  BY <1>1, <1>2, <1>51, Assigned, NothingConfirmed
<1>52. CASE Landing
  BY <1>1, <1>52, Landed, NothingConfirmed DEF NoReplyStarts
<1>6. CASE Owning
  <2>1. NoConfirmation
    BY <1>6, OwningKinds, AutonomyAssumption DEF NoConfirmation
  <2>2. NoReplyStarts /\ raced' = raced
    BY <1>6, OwningKinds DEF NoReplyStarts
  <2>3. QED
    BY <2>1, <2>2, NothingConfirmed
<1>7. CASE Dying
  <2>1. NoReplyStarts /\ raced' = raced /\ \A c \in Coroutines : ~Composing(c)'
    BY <1>7, DyingKinds DEF NoReplyStarts, Composing
  <2>2. CASE replies' = replies
    BY <1>1, <2>1, <2>2, NothingConfirmed
  <2>3. CASE \E c \in Coroutines, d \in Drafts :
               /\ doing[c].step = "compose"
               /\ replies' = [replies EXCEPT ![d] =
                                [status |-> "draft", mail |-> proposals[doing[c].proposal].mail,
                                 confirms |-> doing[c].proposal]]
    <3>1. PICK c \in Coroutines, d \in Drafts :
               /\ doing[c].step = "compose"
               /\ replies' = [replies EXCEPT ![d] =
                                [status |-> "draft", mail |-> proposals[doing[c].proposal].mail,
                                 confirms |-> doing[c].proposal]]
      BY <2>3
    <3>2. \A f \in Drafts : replies'[f].confirms = IF f = d THEN doing[c].proposal
                                                   ELSE replies[f].confirms
      BY <3>1, StoredReply
    <3>3. QED
      BY <2>1, <3>1, <3>2, OneConfirmed DEF Composing
  <2>4. QED
    BY <1>7, <2>2, <2>3, DyingKinds
<1>8. CASE UNCHANGED autonomyVars
  BY <1>8 DEF autonomyVars, RepliesApart, Composing
<1>9. QED
  BY <1>3, <1>4, <1>5, <1>51, <1>52, <1>6, <1>7, <1>8, AutonomySteps

LEMMA RepliesApartConfirmOnce == RepliesApart => ConfirmedOnceUnlessRaced
<1>. SUFFICES ASSUME RepliesApart, NEW a \in Proposals, Cardinality(Confirmations(a)) > 1
              PROVE  a \in raced
  BY DEF ConfirmedOnceUnlessRaced
<1>1. PICK d, f \in Confirmations(a) : d # f
  BY TwoMembers
<1>2. QED
  BY <1>1 DEF RepliesApart, Confirmations

\* An entry is confirmed to the sender by one reply, after any retry or death,
\* unless two preparations were waiting for the model at the same time
\* (calendar_followup_v172.py _existing_followup_draft).
THEOREM NothingIsConfirmedTwice == AutonomySpec => []ConfirmedOnceUnlessRaced
<1>1. AutonomyInit => RepliesApart
  <2>1. AutonomyInit => \A d \in Drafts : replies[d].confirms = Nothing
    BY DEF AutonomyInit
  <2>2. AutonomyInit => \A c \in Coroutines : ~Composing(c)
    BY Places DEF AutonomyInit, Composing
  <2>3. QED
    BY <2>1, <2>2, AutonomyAssumption DEF RepliesApart
<1>2. QED
  BY <1>1, AutonomyInvInit, AutonomyInvNext, RepliesApartNext, RepliesApartConfirmOnce, PTL
     DEF AutonomySpec
=============================================================================
