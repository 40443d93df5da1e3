---------------------------- MODULE ApprovalGate ----------------------------
(***************************************************************************)
(* What the mail approval boundary promises, with no queue, no draft and    *)
(* no process in sight: a proposed text waits for the owner, may be revised *)
(* while it waits, is decided once, and only the text that was approved     *)
(* ever takes effect at the mail provider.  MailApproval implements it.     *)
(***************************************************************************)
EXTENDS Naturals

CONSTANTS
  Approvals,    \* identities of approval requests
  Contents,     \* what a request can ask for
  None,         \* absence of a content
  MaxAttempts   \* bound on the executions of one request

VARIABLES
  decision,     \* the owner's decision on each request
  text,         \* what each request asks for
  effects       \* what the provider has done so far

vars == <<decision, text, effects>>

Effect == [approval: Approvals, content: Contents, attempt: 1..MaxAttempts]

Init ==
  /\ decision = [a \in Approvals |-> "absent"]
  /\ text = [a \in Approvals |-> None]
  /\ effects = {}

\* A request is put before the owner.
Propose(a, c) ==
  /\ decision[a] = "absent"
  /\ decision' = [decision EXCEPT ![a] = "pending"]
  /\ text' = [text EXCEPT ![a] = c]
  /\ UNCHANGED effects

\* The owner changes a request that is still undecided.
Revise(a, c) ==
  /\ decision[a] = "pending"
  /\ text' = [text EXCEPT ![a] = c]
  /\ UNCHANGED <<decision, effects>>

\* The owner decides, once.
Decide(a, verdict) ==
  /\ decision[a] = "pending"
  /\ decision' = [decision EXCEPT ![a] = verdict]
  /\ UNCHANGED <<text, effects>>

\* The provider acts on one attempt: on the approved text and nothing else.
TakeEffect(a, n) ==
  /\ decision[a] = "approved"
  /\ effects' = effects \cup {[approval |-> a, content |-> text[a], attempt |-> n]}
  /\ UNCHANGED <<decision, text>>

Next ==
  \E a \in Approvals :
    \/ \E c \in Contents : Propose(a, c) \/ Revise(a, c)
    \/ \E verdict \in {"approved", "rejected"} : Decide(a, verdict)
    \/ \E n \in 1..MaxAttempts : TakeEffect(a, n)

Spec == Init /\ [][Next]_vars
=============================================================================
