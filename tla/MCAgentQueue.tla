---------------------------- MODULE MCAgentQueue ----------------------------
(* Instances of AgentQueue: two threads, the first of which gets a second    *)
(* message after one of the other.                                           *)
EXTENDS AgentQueue

CONSTANTS t1, t2

TwoThreads == [m \in Messages |-> IF m = 3 THEN t2 ELSE t1]

AlwaysLive == {[mode |-> "live", active |-> TRUE]}

BothModes == [mode: Tables, active: {TRUE}]

\* While the owner simulates and after it there has been but the newest message.
SimulatedAlone ==
  config.mode = "shadow" \/ (\E m \in Messages : rows["shadow"][m].status # "none")
    => \A m \in Messages \ {2} : m \notin inbox /\ rows["live"][m].status = "none"
=============================================================================
