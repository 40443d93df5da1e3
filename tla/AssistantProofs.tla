----------------------------- MODULE AssistantProofs -----------------------------
(***************************************************************************)
(* Proofs about MCAssistant: a behaviour of the instance is a behaviour of    *)
(* each of the six parts, the ones that rest included, so that what is proved *)
(* of the parts for all values of their constants holds of what TLC explores. *)
(***************************************************************************)
EXTENDS MCAssistant, OwnerProofs, InboxProofs, AutonomyProofs

\* A behaviour of the instance starts every part as the part starts, and each of
\* its steps is a step of one part that leaves the variables of the others alone.
THEOREM PartsBehave ==
  Spec => /\ AccountsSpec /\ LearningSpec /\ AutonomySpec
          /\ ConversationsSpec /\ UndoSpec /\ DecisionSpec
<1>1. Init => /\ AccountsInit /\ LearningInit /\ AutonomyInit
              /\ ConversationsInit /\ UndoInit /\ DecisionInit
  BY DEF Init
<1>2. [Next]_vars => /\ [AccountsNext]_accountVars /\ [LearningNext]_learningVars
                     /\ [AutonomyNext]_autonomyVars /\ [ConversationsNext]_conversationVars
                     /\ [UndoNext]_undoVars /\ [DecisionNext]_decisionVars
  BY DEF Next, vars, AccountsPart, LearningPart, AppointmentsPart, ConversationsPart, UndoPart,
         DecisionPart
<1>3. QED
  BY <1>1, <1>2, PTL
     DEF Spec, AccountsSpec, LearningSpec, AutonomySpec, ConversationsSpec, UndoSpec, DecisionSpec

\* Every reachable state of the six parts is well typed, for any values of their
\* constants.
THEOREM AssistantTypeCorrect == Spec => []AssistantTypeOK
<1>1. AccountsInv => AccountsTypeOK
  BY DEF AccountsInv
<1>2. AutonomyInv => AutonomyTypeOK
  BY DEF AutonomyInv
<1>3. ConversationsInv => ConversationsTypeOK
  BY DEF ConversationsInv
<1>4. AccountsTypeOK /\ LearningTypeOK /\ AutonomyTypeOK
      /\ ConversationsTypeOK /\ UndoTypeOK /\ DecisionTypeOK => AssistantTypeOK
  BY DEF AssistantTypeOK
<1>5. QED
  BY <1>1, <1>2, <1>3, <1>4, PartsBehave, AccountsTypeCorrect, LearningTypeCorrect,
     AutonomyTypeCorrect, ConversationsTypeCorrect, UndoTypeCorrect, DecisionTypeCorrect, PTL

\* Every safety property the instance is checked for holds of it for any values of
\* the constants: what is proved of a part is not lost in their composition.
THEOREM AssistantIsSafe ==
  Spec => [](/\ AcceptedStands /\ MailboxBacked /\ OwnersWordHolds
             /\ BookedOnce /\ ConfirmedOnceUnlessRaced
             /\ OneFollowUpPerWait /\ NewMailIsNotHidden
             /\ UndoneOnce /\ ActsAsAllowed /\ PrimarySuffices)
BY PartsBehave, SettingsStand, MailboxesStayBacked, OwnersWordStands,
   NothingIsBookedTwice, NothingIsConfirmedTwice, FollowUpsAreNotRepeated,
   NothingNewIsHidden, NothingIsUndoneTwice, ActsWithinTheRules, FallbackSuffices, PTL
=============================================================================
