---------------------------- MODULE QueueProofs ----------------------------
(***************************************************************************)
(* Theorems about AgentQueue, for every set of messages and cycles, every   *)
(* limit and every number of deaths.                                        *)
(***************************************************************************)
EXTENDS AgentQueue, TLAPS

\* What the steps of a cycle rely on: only a cycle that works on an item has
\* one, its newest message is one of it, claimed items have no message in
\* common, and one cycle at a time runs without awaiting anything.
CycleOK(x) ==
  /\ x.step \in {"idle", "mark"} => x.todo = {}
  /\ x.step \in {"idle", "mark", "next"} => x.item = NoItem
  /\ x.step \in {"analyse", "mutate", "record"} =>
       x.item \in Item /\ x.item.newest \in x.item.ids
  /\ x.step = "mutate" => x.table = "live"
  /\ x.step = "record" => x.left \subseteq x.item.ids
  /\ \A i \in x.todo : i.newest \in i.ids /\ i.ids \cap x.item.ids = {}
  /\ \A i, j \in x.todo : i # j => i.ids \cap j.ids = {}

Runs(c) == cycles[c].step \in {"next", "record"}

CyclesOK ==
  /\ \A c \in Cycles : CycleOK(cycles[c])
  /\ \A c, d \in Cycles : Runs(c) /\ Runs(d) => c = d

Typed == TypeOK /\ CyclesOK

-----------------------------------------------------------------------------
(* The items of a mailbox are separate parts of its open messages.          *)

LEMMA ItemsOK ==
  ASSUME TypeOK, NEW t \in Tables
  PROVE  /\ Items(t) \subseteq Item
         /\ \A i \in Items(t) : i.newest \in i.ids /\ i.ids \subseteq OpenIn(t)
         /\ \A i, j \in Items(t) : i # j => i.ids \cap j.ids = {}
  <1>1. OpenIn(t) \subseteq Messages
    BY DEF OpenIn, TypeOK
  <1>2. \A n \in Messages : Together(t, n) \subseteq OpenIn(t)
    BY DEF Together
  <1>3. CASE Coalescing
    <2>1. \A i \in Items(t) : \E n \in OpenIn(t) :
            /\ \A m \in Together(t, n) : m <= n
            /\ i = [ids |-> Together(t, n), newest |-> n, retry |-> FALSE]
      BY <1>3 DEF Items
    <2>2. \A n \in OpenIn(t) : n \in Together(t, n)
      BY DEF Together
    <2>3. \A i \in Items(t) : i \in Item
      <3>1. TAKE i \in Items(t)
      <3>2. PICK n \in OpenIn(t) :
              i = [ids |-> Together(t, n), newest |-> n, retry |-> FALSE]
        BY <2>1
      <3>3. n \in Messages /\ Together(t, n) \in SUBSET Messages
        BY <1>1, <1>2
      <3> QED BY <3>2, <3>3 DEF Item
    <2>4. \A i \in Items(t) : i.newest \in i.ids /\ i.ids \subseteq OpenIn(t)
      BY <1>1, <1>2, <2>1, <2>2
    <2>5. ASSUME NEW i \in Items(t), NEW j \in Items(t), i.ids \cap j.ids # {}
          PROVE  i = j
      <3>1. PICK n \in OpenIn(t) :
              /\ \A m \in Together(t, n) : m <= n
              /\ i = [ids |-> Together(t, n), newest |-> n, retry |-> FALSE]
        BY <2>1
      <3>2. PICK k \in OpenIn(t) :
              /\ \A m \in Together(t, k) : m <= k
              /\ j = [ids |-> Together(t, k), newest |-> k, retry |-> FALSE]
        BY <2>1
      <3>3. PICK m \in OpenIn(t) : m \in Together(t, n) /\ m \in Together(t, k)
        BY <2>5, <3>1, <3>2 DEF Together
      <3>4. Thread[n] = Thread[k]
        BY <3>3 DEF Together
      <3>5. n \in Together(t, k) /\ k \in Together(t, n)
        BY <3>4 DEF Together
      <3>6. n \in Nat /\ k \in Nat
        BY <1>1, QueueAssumption
      <3>7. n = k
        BY <3>1, <3>2, <3>5, <3>6
      <3> QED BY <3>1, <3>2, <3>7
    <2> QED BY <2>3, <2>4, <2>5
  <1>4. CASE ~Coalescing
    <2>1. \A i \in Items(t) : \E m \in OpenIn(t) :
            i = [ids |-> {m}, newest |-> m,
                 retry |-> Recovered(rows[t][m]).status = "error"]
      BY <1>4 DEF Items
    <2>2. \A i \in Items(t) : i \in Item
      <3>1. TAKE i \in Items(t)
      <3>2. PICK m \in OpenIn(t) :
              i = [ids |-> {m}, newest |-> m,
                   retry |-> Recovered(rows[t][m]).status = "error"]
        BY <2>1
      <3>3. m \in Messages /\ (Recovered(rows[t][m]).status = "error") \in BOOLEAN
        BY <1>1
      <3> QED BY <3>2, <3>3 DEF Item
    <2> QED BY <2>1, <2>2
  <1> QED BY <1>3, <1>4

-----------------------------------------------------------------------------
(* What one step does to the claims.                                        *)

LEMMA RowTypes ==
  ASSUME TypeOK, NEW t \in Tables, NEW m \in Messages
  PROVE  /\ rows[t][m] \in Row
         /\ Recovered(rows[t][m]) \in Row
         /\ ~Stale(rows[t][m]) => Recovered(rows[t][m]) = rows[t][m]
         /\ Stale(rows[t][m]) => Recovered(rows[t][m]).status = "error"
  <1>1. rows[t][m] \in Row
    BY DEF TypeOK
  <1> QED BY <1>1 DEF Recovered, Row

\* Nothing is claimed, recorded or forgotten; a cycle that is recording goes on
\* or begins again with a failure.
Quiet ==
  /\ \A c \in Cycles :
       /\ Holds(c)' = Holds(c)
       /\ Holds(c) # {} => cycles'[c].table = cycles[c].table
       /\ \/ cycles'[c] = cycles[c]
          \/ /\ cycles[c].step = "record" =>
                  /\ cycles'[c].step = "record" /\ cycles'[c].item = cycles[c].item
                  /\ cycles'[c].outcome = "error"
             /\ cycles'[c].step = "record" => cycles'[c].left = cycles'[c].item.ids
  /\ \A t \in Tables, m \in Messages :
       /\ rows'[t][m].status = rows[t][m].status
       /\ rows[t][m].status # "running" => rows'[t][m] = rows[t][m]
  /\ UNCHANGED <<expired, orphans, crashes>>

\* The cycles of W ended with all they held.
Stopped(W) ==
  /\ W \subseteq Cycles
  /\ \A c \in W : cycles'[c] = Resting
  /\ \A c \in Cycles \ W : cycles'[c] = cycles[c]
  /\ UNCHANGED <<rows, expired, artifacts>>
  /\ broken' = broken \cup {m \in StillRunning("live", Messages) :
                 artifacts[m] > 0 /\ \E c \in W : cycles[c].table = "live" /\ m \in Holds(c)}
  /\ \A t \in Tables : \A m \in StillRunning(t, Messages) :
       m \in orphans[t] \/ (\E c \in W : cycles[c].table = t /\ m \in Holds(c)) =>
         m \in orphans'[t]

\* c recorded the outcome of one of its messages, the last of its item or not.
Recorded(c, m) ==
  /\ cycles[c].step = "record"
  /\ m \in cycles[c].left
  /\ \/ /\ cycles[c].left = {m}
        /\ cycles'[c].step = "next" /\ cycles'[c].item = NoItem
     \/ /\ cycles[c].left # {m}
        /\ cycles'[c].step = "record" /\ cycles'[c].item = cycles[c].item
        /\ cycles'[c].left = cycles[c].left \ {m}
        /\ cycles'[c].outcome = cycles[c].outcome
  /\ cycles'[c].todo = cycles[c].todo
  /\ cycles'[c].table = cycles[c].table
  /\ \A d \in Cycles \ {c} : cycles'[d] = cycles[d]
  /\ rows' = [rows EXCEPT ![cycles[c].table][m] = [status |-> cycles[c].outcome, age |-> 0]]
  /\ UNCHANGED <<expired, orphans>>

\* c claimed open messages of the table of its mode.
Began(c) ==
  /\ \A d \in Cycles : ~Runs(d)
  /\ Holds(c) = {}
  /\ cycles'[c].table = config.mode
  /\ cycles'[c].step = "next"
  /\ Holds(c)' \subseteq OpenIn(config.mode)
  /\ \A d \in Cycles \ {c} : cycles'[d] = cycles[d]
  /\ rows' = [rows EXCEPT ![config.mode] = [m \in Messages |->
       IF m \in Holds(c)' THEN [status |-> "running", age |-> 0]
                           ELSE Recovered(rows[config.mode][m])]]
  /\ expired' = IF config.mode = "live"
                THEN expired \cup {m \in Messages : Held("live", m) /\ Stale(rows["live"][m])}
                ELSE expired
  /\ orphans' = [orphans EXCEPT ![config.mode] =
       {m \in StillRunning(config.mode, @) : ~Stale(rows[config.mode][m])}]

LEMMA BeginStep ==
  ASSUME Typed, NEW c \in Cycles, NEW force \in BOOLEAN, Begin(c, force)
  PROVE  Typed' /\ Began(c)
  <1> DEFINE t == config.mode
  <1>1. PICK batch \in SUBSET Items(t) :
          /\ rows' = Claimed(batch, t)
          /\ cycles' = [cycles EXCEPT ![c] =
               [Resting EXCEPT !.step = "next", !.table = t, !.todo = batch]]
    BY DEF Begin
  <1>2. t \in Tables
    BY QueueAssumption DEF Typed, TypeOK
  <1>3. /\ batch \subseteq Item
        /\ \A i \in batch : i.newest \in i.ids /\ i.ids \subseteq OpenIn(t)
        /\ \A i, j \in batch : i # j => i.ids \cap j.ids = {}
    BY <1>1, <1>2, ItemsOK DEF Typed
  <1>4. cycles'[c] = [step |-> "next", table |-> t, todo |-> batch, item |-> NoItem,
                      left |-> {}, outcome |-> "processed"]
    BY <1>1 DEF Typed, TypeOK, Resting
  <1>5. cycles'[c] \in Cycle
    BY <1>2, <1>3, <1>4 DEF Cycle, Settled
  <1>6. CycleOK(cycles'[c])
    BY <1>3, <1>4 DEF CycleOK, NoItem
  <1>7. \A d \in Cycles \ {c} : cycles'[d] = cycles[d]
    BY <1>1 DEF Typed, TypeOK
  <1>16. \A d \in Cycles : ~Runs(d)
    BY DEF Begin, Awaits, LoopFree, Runs
  <1>8. cycles' \in [Cycles -> Cycle] /\ CyclesOK'
    BY <1>1, <1>5, <1>6, <1>7, <1>16 DEF Typed, TypeOK, CyclesOK, Runs
  <1>9. \A m \in Messages : (IF m \in ClaimedIds(batch) THEN [status |-> "running", age |-> 0]
                              ELSE Recovered(rows[t][m])) \in Row
    BY <1>2, RowTypes, QueueAssumption DEF Row, Typed
  <1>10. rows' \in [Tables -> [Messages -> Row]]
    BY <1>1, <1>2, <1>9 DEF Claimed, Typed, TypeOK
  <1>11. /\ expired' = IF t = "live"
                       THEN expired \cup {m \in Messages : Held("live", m) /\ Stale(rows["live"][m])}
                       ELSE expired
         /\ orphans' = [orphans EXCEPT ![t] =
              {m \in StillRunning(t, orphans[t]) : ~Stale(rows[t][m])}]
    BY <1>2 DEF Begin, Stale, Typed, TypeOK
  <1>12. Typed'
    <2>1. orphans' \in [Tables -> SUBSET Messages]
      BY <1>2, <1>11 DEF Typed, TypeOK, StillRunning
    <2>2. expired' \subseteq Messages
      BY <1>11 DEF Typed, TypeOK
    <2> QED BY <1>8, <1>10, <2>1, <2>2 DEF Begin, Typed, TypeOK, mail
  <1>13. Holds(c) = {}
    BY DEF Begin, Awaits, Typed, CyclesOK, CycleOK, Holds, ClaimedIds, NoItem
  <1>14. Holds(c)' = ClaimedIds(batch)
    BY <1>4 DEF Holds, ClaimedIds, NoItem
  <1>15. ClaimedIds(batch) \subseteq OpenIn(t)
    BY <1>3 DEF ClaimedIds
  <1> QED
    BY <1>1, <1>4, <1>7, <1>11, <1>12, <1>13, <1>14, <1>15, <1>16 DEF Began, Claimed

\* A step of cycle c that keeps the claims and the tables.
LEMMA QuietStep ==
  ASSUME TypeOK, NEW c \in Cycles, NEW x,
         cycles' = [cycles EXCEPT ![c] = x],
         x \in Cycle, CycleOK(x), CyclesOK,
         Holds(c)' = Holds(c), Holds(c) # {} => x.table = cycles[c].table,
         cycles[c].step = "record" =>
           x.step = "record" /\ x.item = cycles[c].item /\ x.outcome = "error",
         x.step = "record" => x.left = x.item.ids,
         x.step \in {"next", "record"} => Runs(c) \/ LoopFree,
         UNCHANGED <<rows, expired, orphans, crashes>>
  PROVE  /\ cycles' \in [Cycles -> Cycle]
         /\ CyclesOK'
         /\ Quiet
  <1>1. cycles'[c] = x /\ \A d \in Cycles \ {c} : cycles'[d] = cycles[d]
    BY DEF TypeOK
  <1>2. cycles' \in [Cycles -> Cycle]
    BY <1>1 DEF TypeOK
  <1>3. \A d \in Cycles \ {c} : Holds(d)' = Holds(d)
    BY <1>1 DEF Holds
  <1>4. Runs(c)' => Runs(c) \/ \A d \in Cycles : ~Runs(d)
    BY <1>1 DEF Runs, LoopFree
  <1>5. \A d \in Cycles \ {c} : Runs(d)' <=> Runs(d)
    BY <1>1 DEF Runs
  <1>6. CyclesOK'
    BY <1>1, <1>4, <1>5 DEF CyclesOK
  <1> QED BY <1>1, <1>2, <1>3, <1>6 DEF Quiet

LEMMA CycleTypes ==
  ASSUME Typed, NEW c \in Cycles
  PROVE  /\ cycles[c] \in Cycle
         /\ CycleOK(cycles[c])
         /\ cycles[c].todo \subseteq Item
         /\ cycles[c].table \in Tables
         /\ cycles[c].outcome \in {"error"} \cup Settled
         /\ cycles[c].left \subseteq Messages
  BY DEF Typed, TypeOK, CyclesOK, Cycle

LEMMA TakeItemStep ==
  ASSUME Typed, NEW c \in Cycles, TakeItem(c)
  PROVE  Typed' /\ Quiet
  <1>1. PICK i \in cycles[c].todo :
          LET taken == [cycles[c] EXCEPT !.todo = @ \ {i}, !.item = i] IN
          \/ cycles' = [cycles EXCEPT ![c] = [taken EXCEPT !.step = "analyse"]]
          \/ cycles' = [cycles EXCEPT ![c] =
               [taken EXCEPT !.step = "record", !.left = i.ids,
                             !.outcome = IF cycles[c].table = "live"
                                         THEN "ignored_rule" ELSE "processed"]]
    BY DEF TakeItem
  <1>2. cycles[c] \in Cycle /\ CycleOK(cycles[c]) /\ i \in Item /\ i.newest \in i.ids
    BY CycleTypes DEF CycleOK
  <1>3. cycles[c].step = "next" /\ cycles[c].item = NoItem
    BY <1>2 DEF TakeItem, At, CycleOK
  <1>4. \A j \in cycles[c].todo \ {i} : j.ids \cap i.ids = {}
    BY <1>2 DEF CycleOK
  <1>5. /\ i.ids \subseteq Messages
        /\ cycles[c].todo \ {i} \subseteq Item
    BY <1>2 DEF Item, Cycle
  <1>6. /\ Holds(c) = ClaimedIds(cycles[c].todo)
        /\ ClaimedIds(cycles[c].todo) = ClaimedIds(cycles[c].todo \ {i}) \cup i.ids
    BY <1>3 DEF Holds, ClaimedIds, NoItem
  <1> DEFINE x == cycles'[c]
  <1> DEFINE Taken ==
          /\ x \in Cycle
          /\ x.step \in {"analyse", "record"}
          /\ x.todo = cycles[c].todo \ {i}
          /\ x.item = i
          /\ (x.step = "record" => x.left = i.ids)
          /\ x.table = cycles[c].table
          /\ cycles' = [cycles EXCEPT ![c] = x]
  <1>7. Taken
    <2>1. cycles \in [Cycles -> Cycle] /\ {i.ids} \subseteq SUBSET Messages
      BY <1>5 DEF Typed, TypeOK
    <2>2. CASE cycles' = [cycles EXCEPT ![c] =
                [cycles[c] EXCEPT !.todo = @ \ {i}, !.item = i, !.step = "analyse"]]
      BY <1>2, <1>5, <2>1, <2>2 DEF Cycle
    <2>3. ASSUME NEW outcome \in Settled,
                 cycles' = [cycles EXCEPT ![c] =
                   [cycles[c] EXCEPT !.todo = @ \ {i}, !.item = i, !.step = "record",
                                     !.left = i.ids, !.outcome = outcome]]
          PROVE  Taken
      BY <1>2, <1>5, <2>1, <2>3 DEF Cycle
    <2>4. (IF cycles[c].table = "live" THEN "ignored_rule" ELSE "processed") \in Settled
      BY DEF Settled
    <2> QED BY <1>1, <2>2, <2>3, <2>4
  <1>8. CycleOK(x)
    BY <1>2, <1>4, <1>7 DEF CycleOK
  <1>9. Holds(c)' = Holds(c)
    BY <1>6, <1>7 DEF Holds
  <1>10. UNCHANGED <<up, crashes, config, mail, rows, artifacts, history>>
    BY DEF TakeItem
  <1>12. Runs(c) /\ cycles[c].step # "record"
    BY <1>3 DEF Runs
  <1> HIDE DEF x
  <1>11. cycles' \in [Cycles -> Cycle] /\ CyclesOK' /\ Quiet
    BY <1>7, <1>8, <1>9, <1>10, <1>12, QuietStep DEF Typed, history
  <1> QED BY <1>10, <1>11 DEF Typed, TypeOK, mail, history

\* The end of an analysis or of a mutation, or a failure to record it.
LEMMA ToRecordStep ==
  ASSUME Typed, NEW c \in Cycles, NEW outcome \in {"error"} \cup Settled, ToRecord(c, outcome),
         \/ cycles[c].step \in {"analyse", "mutate"} /\ LoopFree
         \/ cycles[c].step = "record" /\ outcome = "error",
         UNCHANGED <<rows, expired, orphans, crashes>>
  PROVE  cycles' \in [Cycles -> Cycle] /\ CyclesOK' /\ Quiet
  <1>1. cycles[c] \in Cycle /\ CycleOK(cycles[c]) /\ cycles[c].item \in Item
    BY CycleTypes DEF CycleOK
  <1>2. cycles[c].item.ids \in SUBSET Messages
    BY <1>1 DEF Item
  <1> DEFINE x == cycles'[c]
  <1>3. /\ x \in Cycle
        /\ x.step = "record"
        /\ x.left = cycles[c].item.ids
        /\ x.todo = cycles[c].todo
        /\ x.item = cycles[c].item
        /\ x.table = cycles[c].table
        /\ x.outcome = outcome
        /\ cycles' = [cycles EXCEPT ![c] = x]
    BY <1>1, <1>2 DEF ToRecord, Cycle, Typed, TypeOK
  <1>4. CycleOK(x)
    BY <1>1, <1>3 DEF CycleOK
  <1>5. Holds(c)' = Holds(c)
    BY <1>3 DEF Holds
  <1>6. Runs(c) \/ LoopFree
    BY DEF Runs
  <1> HIDE DEF x
  <1> QED BY <1>3, <1>4, <1>5, <1>6, QuietStep DEF Typed

LEMMA NewestTyped ==
  ASSUME Typed, NEW c \in Cycles, cycles[c].step \in {"analyse", "mutate"}
  PROVE  cycles[c].item.newest \in Messages /\ cycles[c].item.newest \in cycles[c].item.ids
  BY CycleTypes DEF CycleOK, Item

LEMMA MadeForType ==
  ASSUME TypeOK, NEW m \in Messages, artifacts[m] < MaxArtifacts
  PROVE  MadeFor(m) \in [Messages -> 0..MaxArtifacts]
  BY QueueAssumption DEF TypeOK, MadeFor

LEMMA AnalysisSucceedsStep ==
  ASSUME Typed, NEW c \in Cycles, AnalysisSucceeds(c)
  PROVE  Typed' /\ Quiet
  <1> DEFINE m == cycles[c].item.newest
  <1>1. /\ cycles[c].step = "analyse" /\ LoopFree
        /\ UNCHANGED <<up, crashes, config, mail, rows, history>>
    BY DEF AnalysisSucceeds, Awaits
  <1>2. m \in Messages
    BY <1>1, NewestTyped
  <1>3. artifacts' \in [Messages -> 0..MaxArtifacts]
    BY <1>2, MadeForType DEF AnalysisSucceeds, MayMake, Typed, TypeOK
  <1>4. CASE \E outcome \in {"processed", "below_confidence"} : ToRecord(c, outcome)
    <2>1. cycles' \in [Cycles -> Cycle] /\ CyclesOK' /\ Quiet
      BY <1>1, <1>4, ToRecordStep DEF Settled, history
    <2> QED BY <1>1, <1>3, <2>1 DEF Typed, TypeOK, mail, history
  <1>5. CASE /\ cycles[c].table = "live"
             /\ cycles' = [cycles EXCEPT ![c].step = "mutate"]
    <2> DEFINE x == cycles'[c]
    <2>1. /\ x \in Cycle
          /\ x = [cycles[c] EXCEPT !.step = "mutate"]
          /\ cycles' = [cycles EXCEPT ![c] = x]
      BY <1>5, CycleTypes DEF Cycle, Typed, TypeOK
    <2>2. CycleOK(x) /\ x.table = cycles[c].table
      BY <1>1, <1>5, <2>1, CycleTypes DEF CycleOK, Cycle
    <2>3. Holds(c)' = Holds(c)
      BY <1>1, <2>1, CycleTypes DEF Holds, Cycle
    <2>5. x.step = "mutate"
      BY <2>1, CycleTypes DEF Cycle
    <2> HIDE DEF x
    <2>4. cycles' \in [Cycles -> Cycle] /\ CyclesOK' /\ Quiet
      BY <1>1, <2>1, <2>2, <2>3, <2>5, QuietStep DEF Typed, history
    <2> QED BY <1>1, <1>3, <2>4 DEF Typed, TypeOK, mail, history
  <1> QED BY <1>4, <1>5 DEF AnalysisSucceeds

LEMMA AnalysisFailsStep ==
  ASSUME Typed, NEW c \in Cycles, AnalysisFails(c)
  PROVE  Typed' /\ Quiet
  <1> DEFINE m == cycles[c].item.newest
  <1>1. /\ cycles[c].step = "analyse"
        /\ ToRecord(c, "error") /\ LoopFree
        /\ UNCHANGED <<up, crashes, config, mail, rows, expired, orphans>>
    BY DEF AnalysisFails, Awaits
  <1>2. m \in Messages
    BY <1>1, NewestTyped
  <1>3. artifacts' \in [Messages -> 0..MaxArtifacts] /\ broken' \subseteq Messages
    BY <1>2, MadeForType DEF AnalysisFails, MayMake, Typed, TypeOK
  <1>4. cycles' \in [Cycles -> Cycle] /\ CyclesOK' /\ Quiet
    BY <1>1, ToRecordStep
  <1> QED BY <1>1, <1>3, <1>4 DEF Typed, TypeOK, mail

LEMMA MutationSucceedsStep ==
  ASSUME Typed, NEW c \in Cycles, MutationSucceeds(c)
  PROVE  Typed' /\ Quiet
  <1> DEFINE m == cycles[c].item.newest
  <1>1. /\ cycles[c].step = "mutate"
        /\ ToRecord(c, "processed") /\ LoopFree
        /\ UNCHANGED <<up, crashes, config, rows, history>>
    BY DEF MutationSucceeds, Awaits
  <1>2. m \in Messages
    BY <1>1, NewestTyped
  <1>3. /\ artifacts' \in [Messages -> 0..MaxArtifacts]
        /\ seen' \subseteq Messages /\ inbox' \subseteq Messages
    BY <1>2, MadeForType DEF MutationSucceeds, Typed, TypeOK
  <1>4. cycles' \in [Cycles -> Cycle] /\ CyclesOK' /\ Quiet
    BY <1>1, ToRecordStep DEF Settled, history
  <1> QED BY <1>1, <1>3, <1>4 DEF Typed, TypeOK, history

LEMMA MutationFailsStep ==
  ASSUME Typed, NEW c \in Cycles, MutationFails(c)
  PROVE  Typed' /\ Quiet
  <1> DEFINE m == cycles[c].item.newest
  <1>1. /\ cycles[c].step = "mutate"
        /\ ToRecord(c, "error") /\ LoopFree
        /\ UNCHANGED <<up, crashes, config, mail, rows, expired, orphans>>
    BY DEF MutationFails, Awaits
  <1>2. m \in Messages
    BY <1>1, NewestTyped
  <1>3. artifacts' \in [Messages -> 0..MaxArtifacts] /\ broken' \subseteq Messages
    BY <1>2, MadeForType DEF MutationFails, Typed, TypeOK
  <1>4. cycles' \in [Cycles -> Cycle] /\ CyclesOK' /\ Quiet
    BY <1>1, ToRecordStep
  <1> QED BY <1>1, <1>3, <1>4 DEF Typed, TypeOK, mail

LEMMA RecordStep ==
  ASSUME Typed, NEW c \in Cycles, Record(c)
  PROVE  Typed' /\ \E m \in Messages : Recorded(c, m)
  <1>1. PICK m \in cycles[c].left :
          /\ rows' = [rows EXCEPT ![cycles[c].table][m] =
                        [status |-> cycles[c].outcome, age |-> 0]]
          /\ cycles' = [cycles EXCEPT ![c] =
               IF cycles[c].left = {m}
               THEN [cycles[c] EXCEPT !.step = "next", !.item = NoItem, !.left = {}]
               ELSE [cycles[c] EXCEPT !.left = @ \ {m}]]
    BY DEF Record
  <1>2. /\ cycles[c].step = "record"
        /\ UNCHANGED <<up, crashes, config, mail, artifacts, history>>
    BY DEF Record, At
  <1>3. /\ cycles[c] \in Cycle /\ CycleOK(cycles[c]) /\ m \in Messages
        /\ cycles[c].table \in Tables
        /\ cycles[c].outcome \in {"error"} \cup Settled
    BY CycleTypes
  <1>4. [status |-> cycles[c].outcome, age |-> 0] \in Row
    BY <1>3, QueueAssumption DEF Row
  <1>5. rows' \in [Tables -> [Messages -> Row]]
    BY <1>1, <1>3, <1>4 DEF Typed, TypeOK
  <1> DEFINE x == cycles'[c]
  <1>6. /\ x \in Cycle
        /\ \/ x.step = "next" /\ x.item = NoItem /\ cycles[c].left = {m}
           \/ /\ x.step = "record" /\ x.item = cycles[c].item /\ cycles[c].left # {m}
              /\ x.left = cycles[c].left \ {m} /\ x.outcome = cycles[c].outcome
        /\ x.todo = cycles[c].todo
        /\ x.table = cycles[c].table
        /\ \A d \in Cycles \ {c} : cycles'[d] = cycles[d]
    <2>1. cycles \in [Cycles -> Cycle]
      BY DEF Typed, TypeOK
    <2>2. CASE cycles[c].left = {m}
      <3>1. cycles' = [cycles EXCEPT ![c] =
                        [cycles[c] EXCEPT !.step = "next", !.item = NoItem, !.left = {}]]
        BY <1>1, <2>2
      <3> QED BY <1>2, <1>3, <2>1, <2>2, <3>1 DEF Cycle
    <2>3. CASE cycles[c].left # {m}
      <3>1. cycles' = [cycles EXCEPT ![c] =
                        [cycles[c] EXCEPT !.left = cycles[c].left \ {m}]]
        BY <1>1, <2>3
      <3> QED BY <1>2, <1>3, <2>1, <2>3, <3>1 DEF Cycle
    <2> QED BY <2>2, <2>3
  <1>7. CycleOK(x)
    BY <1>2, <1>3, <1>6 DEF CycleOK, NoItem
  <1>8. cycles' \in [Cycles -> Cycle] /\ CyclesOK'
    <2>1. Runs(c) /\ \A d \in Cycles \ {c} : Runs(d)' <=> Runs(d)
      BY <1>2, <1>6 DEF Runs
    <2> QED BY <1>1, <1>6, <1>7, <2>1 DEF Typed, TypeOK, CyclesOK
  <1>9. Recorded(c, m)
    BY <1>1, <1>2, <1>6 DEF Recorded, history
  <1> QED
    BY <1>2, <1>3, <1>5, <1>8, <1>9 DEF Typed, TypeOK, mail, history

\* The handler of a failed recording.
LEMMA RecordingFailsStep ==
  ASSUME Typed, NEW c \in Cycles, RecordingFails(c)
  PROVE  Typed' /\ Quiet
  <1>1. /\ cycles[c].step = "record" /\ ToRecord(c, "error")
        /\ UNCHANGED <<up, crashes, config, mail, rows, artifacts, expired, orphans>>
    BY DEF RecordingFails, At
  <1>2. cycles' \in [Cycles -> Cycle] /\ CyclesOK' /\ Quiet
    BY <1>1, ToRecordStep
  <1>3. cycles[c].item.ids \subseteq Messages
    BY <1>1, CycleTypes DEF CycleOK, Item
  <1>4. broken' \subseteq Messages
    BY <1>3 DEF RecordingFails, Typed, TypeOK
  <1> QED BY <1>1, <1>2, <1>4 DEF Typed, TypeOK, mail

LEMMA RestingOK ==
  /\ Resting \in Cycle /\ CycleOK(Resting)
  /\ Resting.step = "idle" /\ Resting.todo = {} /\ Resting.item = NoItem
  /\ \A left \in SUBSET Messages :
       LET x == [Resting EXCEPT !.step = "mark", !.left = left] IN
       x \in Cycle /\ CycleOK(x) /\ x.step = "mark" /\ x.todo = {} /\ x.item = NoItem
  BY DEF Resting, Cycle, CycleOK, Tables, Settled

LEMMA EndBatchStep ==
  ASSUME Typed, NEW c \in Cycles, EndBatch(c)
  PROVE  Typed' /\ Quiet
  <1>1. /\ cycles[c].step = "next" /\ cycles[c].todo = {}
        /\ UNCHANGED <<up, crashes, config, mail, rows, artifacts, history>>
    BY DEF EndBatch, At
  <1>2. cycles[c].item = NoItem
    BY <1>1, CycleTypes DEF CycleOK
  <1>3. Holds(c) = {}
    BY <1>1, <1>2 DEF Holds, ClaimedIds, NoItem
  <1>4. ToMarkRead \in SUBSET Messages
    BY DEF ToMarkRead, Typed, TypeOK
  <1>5. PICK x : /\ x = Resting \/ x = [Resting EXCEPT !.step = "mark", !.left = ToMarkRead]
                 /\ cycles' = [cycles EXCEPT ![c] = x]
    BY DEF EndBatch
  <1>6. x \in Cycle /\ CycleOK(x) /\ x.step \in {"idle", "mark"}
    BY <1>4, <1>5, RestingOK
  <1>7. Holds(c)' = {}
    <2>1. cycles'[c] = x
      BY <1>5 DEF Typed, TypeOK
    <2>2. x.todo = {} /\ x.item = NoItem /\ x.step \in {"idle", "mark"}
      BY <1>4, <1>5, RestingOK
    <2> QED BY <2>1, <2>2 DEF Holds, ClaimedIds, NoItem
  <1>8. cycles' \in [Cycles -> Cycle] /\ CyclesOK' /\ Quiet
    BY <1>1, <1>3, <1>5, <1>6, <1>7, QuietStep DEF Typed, history
  <1> QED BY <1>1, <1>8 DEF Typed, TypeOK, mail, history

LEMMA MarkReadStep ==
  ASSUME Typed, NEW c \in Cycles, MarkRead(c)
  PROVE  Typed' /\ Quiet
  <1>1. PICK m \in cycles[c].left :
          /\ UNCHANGED seen \/ seen' = seen \cup {m}
          /\ cycles' = [cycles EXCEPT ![c] =
               IF cycles[c].left = {m} THEN Resting
               ELSE [cycles[c] EXCEPT !.left = @ \ {m}]]
    BY DEF MarkRead
  <1>2. /\ cycles[c].step = "mark"
        /\ UNCHANGED <<up, crashes, config, inbox, rows, artifacts, history>>
    BY DEF MarkRead, Awaits
  <1>3. /\ cycles[c] \in Cycle /\ CycleOK(cycles[c]) /\ m \in Messages
    BY CycleTypes
  <1>4. PICK x : /\ \/ x = Resting
                    \/ x = [cycles[c] EXCEPT !.left = cycles[c].left \ {m}]
                 /\ cycles' = [cycles EXCEPT ![c] = x]
    <2>1. CASE cycles[c].left = {m}
      BY <1>1, <2>1
    <2>2. CASE cycles[c].left # {m}
      BY <1>1, <2>2
    <2> QED BY <2>1, <2>2
  <1>5. x \in Cycle /\ CycleOK(x) /\ x.step \in {"idle", "mark"}
    <2>1. CASE x = [cycles[c] EXCEPT !.left = cycles[c].left \ {m}]
      <3>1. /\ x \in Cycle
            /\ x.step = "mark" /\ x.todo = cycles[c].todo /\ x.item = cycles[c].item
        BY <1>2, <1>3, <2>1 DEF Cycle
      <3> QED BY <1>2, <1>3, <3>1 DEF CycleOK
    <2> QED BY <1>4, <2>1, RestingOK
  <1>6. Holds(c) = {} /\ Holds(c)' = {}
    <2>1. cycles[c].todo = {} /\ cycles[c].item = NoItem
      BY <1>2, <1>3 DEF CycleOK
    <2>2. cycles'[c] = x
      BY <1>4 DEF Typed, TypeOK
    <2>3. x.todo = {} /\ x.item = NoItem
      BY <1>3, <1>4, <2>1, RestingOK DEF Cycle
    <2> QED BY <2>1, <2>2, <2>3 DEF Holds, ClaimedIds, NoItem
  <1>7. cycles' \in [Cycles -> Cycle] /\ CyclesOK' /\ Quiet
    BY <1>2, <1>4, <1>5, <1>6, QuietStep DEF Typed, history
  <1>8. seen' \subseteq Messages
    BY <1>1, <1>3 DEF Typed, TypeOK
  <1> QED BY <1>2, <1>7, <1>8 DEF Typed, TypeOK, history

LEMMA MailboxStep ==
  ASSUME Typed, UNCHANGED <<up, crashes, rows, cycles, artifacts, history>>,
         inbox' \subseteq Messages, seen' \subseteq Messages, config' \in Configs
  PROVE  Typed' /\ Quiet
  BY DEF Typed, TypeOK, CyclesOK, Runs, Quiet, Holds, history

LEMMA TickStep ==
  ASSUME Typed, Tick
  PROVE  Typed' /\ Quiet
  <1>1. \A t \in Tables, m \in Messages :
          /\ rows'[t][m] \in Row
          /\ rows'[t][m].status = rows[t][m].status
          /\ rows[t][m].status # "running" => rows'[t][m] = rows[t][m]
    <2> TAKE t \in Tables, m \in Messages
    <2>1. rows[t][m] \in Row
      BY RowTypes DEF Typed
    <2>2. rows'[t][m] = IF rows[t][m].status = "running" /\ rows[t][m].age <= StaleAge
                        THEN [rows[t][m] EXCEPT !.age = @ + 1]
                        ELSE rows[t][m]
      BY DEF Tick
    <2> QED BY <2>1, <2>2, QueueAssumption DEF Row
  <1>2. rows' \in [Tables -> [Messages -> Row]]
    BY <1>1 DEF Tick
  <1>3. UNCHANGED <<up, crashes, config, mail, cycles, artifacts, history>>
    BY DEF Tick
  <1>4. Quiet
    BY <1>1, <1>3 DEF Quiet, Holds, history
  <1> QED BY <1>2, <1>3, <1>4 DEF Typed, TypeOK, CyclesOK, Runs, mail, history, vars

LEMMA RestingHolds ==
  ASSUME NEW c \in Cycles, cycles[c] = Resting
  PROVE  Holds(c) = {} /\ ~Runs(c)
  BY DEF Holds, Resting, ClaimedIds, NoItem, Runs

LEMMA CrashStep ==
  ASSUME Typed, Crash
  PROVE  Typed' /\ Stopped(Cycles)
  <1>1. cycles' = [c \in Cycles |-> Resting] /\ up' = FALSE /\ crashes' = crashes + 1
        /\ crashes < MaxCrashes /\ UNCHANGED <<config, mail, rows, artifacts, expired>>
        /\ broken' = broken \cup {m \in StillRunning("live", Messages) :
                                    Held("live", m) /\ artifacts[m] > 0}
        /\ orphans' = [t \in Tables |-> StillRunning(t, Messages)]
    BY DEF Crash
  <1>2. cycles' \in [Cycles -> Cycle] /\ CyclesOK'
    BY <1>1, RestingOK DEF CyclesOK, Runs
  <1>3. crashes' \in 0..MaxCrashes
    BY <1>1, QueueAssumption DEF Typed, TypeOK
  <1>4. broken' \subseteq Messages /\ orphans' \in [Tables -> SUBSET Messages]
    BY <1>1 DEF StillRunning, Typed, TypeOK
  <1>5. Stopped(Cycles)
    BY <1>1 DEF Stopped, Held
  <1> QED BY <1>1, <1>2, <1>3, <1>4, <1>5 DEF Typed, TypeOK, mail

LEMMA AbortsStep ==
  ASSUME Typed, NEW c \in Cycles, Aborts(c)
  PROVE  Typed' /\ Stopped({c})
  <1> DEFINE t == cycles[c].table
             left == StillRunning(t, Holds(c))
  <1>1. /\ cycles' = [cycles EXCEPT ![c] = Resting]
        /\ broken' = IF t = "live" THEN broken \cup {m \in left : artifacts[m] > 0} ELSE broken
        /\ orphans' = [orphans EXCEPT ![t] = orphans[t] \cup left]
        /\ UNCHANGED <<up, crashes, config, mail, rows, artifacts, expired>>
    BY CycleTypes DEF Aborts, Typed, TypeOK
  <1>2. t \in Tables /\ Holds(c) \subseteq Messages
    BY CycleTypes DEF Holds, ClaimedIds, CycleOK, Item, NoItem, Cycle
  <1>3. left \subseteq Messages /\ left = {m \in StillRunning(t, Messages) : m \in Holds(c)}
    BY <1>2 DEF StillRunning
  <1> HIDE DEF left
  <1>4. cycles'[c] = Resting /\ \A d \in Cycles \ {c} : cycles'[d] = cycles[d]
    BY <1>1 DEF Typed, TypeOK
  <1>5. cycles' \in [Cycles -> Cycle]
    BY <1>1, RestingOK DEF Typed, TypeOK
  <1>6. CyclesOK'
    <2>1. ~Runs(c)' /\ \A d \in Cycles \ {c} : Runs(d)' <=> Runs(d)
      BY <1>4 DEF Runs, Resting
    <2> QED BY <1>4, <2>1, RestingOK DEF CyclesOK, Typed
  <1>7. broken' \subseteq Messages /\ orphans' \in [Tables -> SUBSET Messages]
    BY <1>1, <1>2, <1>3 DEF Typed, TypeOK
  <1>8. broken' = broken \cup {m \in StillRunning("live", Messages) :
          artifacts[m] > 0 /\ \E d \in {c} : cycles[d].table = "live" /\ m \in Holds(d)}
    BY <1>1, <1>3
  <1>9. \A u \in Tables : \A m \in StillRunning(u, Messages) :
          m \in orphans[u] \/ (\E d \in {c} : cycles[d].table = u /\ m \in Holds(d)) =>
            m \in orphans'[u]
    BY <1>1, <1>2, <1>3 DEF Typed, TypeOK
  <1>10. Stopped({c})
    BY <1>1, <1>4, <1>8, <1>9 DEF Stopped
  <1> QED BY <1>1, <1>5, <1>6, <1>7, <1>10 DEF Typed, TypeOK, mail

-----------------------------------------------------------------------------
(* Every step is of one of four kinds.                                      *)

LEMMA StepKinds ==
  ASSUME Typed, [Next]_vars
  PROVE  /\ Typed'
         /\ \/ Quiet
            \/ \E W \in SUBSET Cycles : Stopped(W)
            \/ \E c \in Cycles : Began(c)
            \/ \E c \in Cycles, m \in Messages : Recorded(c, m)
  <1>1. ASSUME NEW c \in Cycles, NEW force \in BOOLEAN, Begin(c, force)
        PROVE  Typed' /\ Began(c)
    BY <1>1, BeginStep
  <1>2. ASSUME NEW c \in Cycles, RunsOn(c)
        PROVE  Typed' /\ (Quiet \/ \E m \in Messages : Recorded(c, m))
    BY <1>2, TakeItemStep, EndBatchStep, RecordStep DEF RunsOn
  <1>3. ASSUME NEW c \in Cycles, Returns(c) \/ RecordingFails(c)
        PROVE  Typed' /\ Quiet
    BY <1>3, AnalysisSucceedsStep, AnalysisFailsStep, MutationSucceedsStep,
       MutationFailsStep, MarkReadStep, RecordingFailsStep DEF Returns
  <1>4. ASSUME NEW m \in Messages, Deliver(m) \/ Vanish(m)
        PROVE  Typed' /\ Quiet
    BY <1>4, MailboxStep DEF Deliver, Vanish, Typed, TypeOK
  <1>5. ASSUME NEW new \in Configs, Configure(new)
        PROVE  Typed' /\ Quiet
    BY <1>5, MailboxStep DEF Configure, mail, Typed, TypeOK
  <1>6. CASE Tick
    BY <1>6, TickStep
  <1>7. CASE Crash
    BY <1>7, CrashStep
  <1>8. CASE Restart
    BY <1>8 DEF Restart, Typed, TypeOK, CyclesOK, Runs, Quiet, Holds, mail, history
  <1>9. CASE UNCHANGED vars
    BY <1>9 DEF vars, Typed, TypeOK, CyclesOK, Runs, Quiet, Holds
  <1>10. ASSUME NEW c \in Cycles, Aborts(c)
         PROVE  Typed' /\ Stopped({c})
    BY <1>10, AbortsStep
  <1> QED
    BY <1>1, <1>2, <1>3, <1>4, <1>5, <1>6, <1>7, <1>8, <1>9, <1>10 DEF Next

LEMMA InitTyped == Init => Typed
  <1> SUFFICES ASSUME Init PROVE Typed
    OBVIOUS
  <1>1. \A c \in Cycles : cycles[c] \in Cycle /\ CycleOK(cycles[c])
    BY RestingOK DEF Init
  <1>2. \A c \in Cycles : ~Runs(c)
    BY DEF Init, Runs, Resting
  <1>3. TypeOK
    BY <1>1, QueueAssumption DEF Init, TypeOK, Row
  <1> QED BY <1>1, <1>2, <1>3 DEF Typed, CyclesOK

\* Spec keeps the types, and what the steps of a cycle rely on.
THEOREM AlwaysTyped == Spec => []Typed
  <1>1. Typed /\ [Next]_vars => Typed'
    BY StepKinds
  <1> QED BY <1>1, InitTyped, PTL DEF Spec

\* The type invariant of the processing tables, the cycles and the mailbox.
THEOREM QueueTypeCorrect == Spec => []TypeOK
  <1>1. Typed => TypeOK
    BY DEF Typed
  <1> QED BY <1>1, AlwaysTyped, PTL

-----------------------------------------------------------------------------
(* Claims.                                                                  *)

HoldsMessages == \A c \in Cycles : Holds(c) \subseteq Messages

LEMMA HoldsTyped == Typed => HoldsMessages
  BY CycleTypes DEF HoldsMessages, Holds, ClaimedIds, CycleOK, Item, Cycle, NoItem

\* The messages of the item c records whose rows it may have written.
Written(c) ==
  IF cycles[c].step # "record" THEN {}
  ELSE IF cycles[c].outcome = "error" THEN cycles[c].item.ids
  ELSE cycles[c].item.ids \ cycles[c].left

\* A live row that its cycle has not begun to record is marked as running.
Marked ==
  \A c \in Cycles : \A m \in Holds(c) \ Written(c) :
    cycles[c].table = "live" /\ m \notin expired => rows["live"][m].status = "running"

\* What a cycle has recorded is the outcome of its item.
OutcomeWritten ==
  \A c \in Cycles : cycles[c].step = "record" =>
    \A m \in cycles[c].item.ids \ cycles[c].left :
      rows[cycles[c].table][m].status = cycles[c].outcome

Claims == ClaimedByOne /\ Marked /\ OutcomeWritten

LEMMA WrittenHeld ==
  ASSUME NEW c \in Cycles
  PROVE  /\ Written(c) \subseteq Holds(c)
         /\ Written(c) \subseteq cycles[c].item.ids
         /\ Written(c) # {} => cycles[c].step = "record"
  BY DEF Written, Holds

LEMMA RecordedFacts ==
  ASSUME Typed, NEW c \in Cycles, NEW m \in Messages, Recorded(c, m)
  PROVE  /\ m \in Holds(c) /\ m \in cycles[c].item.ids
         /\ cycles[c].item.ids \cap ClaimedIds(cycles[c].todo) = {}
         /\ cycles[c].left = {m} =>
              Holds(c)' = ClaimedIds(cycles[c].todo) /\ Written(c)' = {}
         /\ cycles[c].left # {m} =>
              Holds(c)' = Holds(c) /\ Written(c)' = Written(c) \cup {m}
         /\ \A d \in Cycles : Holds(d)' \subseteq Holds(d) /\ cycles'[d].table = cycles[d].table
         /\ \A d \in Cycles \ {c} : Holds(d)' = Holds(d) /\ Written(d)' = Written(d)
         /\ cycles[c].table \in Tables
         /\ cycles[c].outcome \in {"error"} \cup Settled
         /\ rows'[cycles[c].table][m].status = cycles[c].outcome
         /\ \A t \in Tables, n \in Messages :
              t # cycles[c].table \/ n # m => rows'[t][n] = rows[t][n]
  <1>1. /\ CycleOK(cycles[c]) /\ cycles[c].table \in Tables
        /\ cycles[c].outcome \in {"error"} \cup Settled
    BY CycleTypes
  <1>2. cycles[c].step = "record" /\ m \in cycles[c].left /\ m \in cycles[c].item.ids
    BY <1>1 DEF Recorded, CycleOK
  <1>3. cycles[c].item.ids \cap ClaimedIds(cycles[c].todo) = {}
    BY <1>1 DEF CycleOK, ClaimedIds
  <1>4. ASSUME cycles[c].left = {m}
        PROVE  Holds(c)' = ClaimedIds(cycles[c].todo) /\ Written(c)' = {}
    BY <1>4 DEF Recorded, Holds, NoItem, Written
  <1>5. ASSUME cycles[c].left # {m}
        PROVE  Holds(c)' = Holds(c) /\ Written(c)' = Written(c) \cup {m}
    <2>1. Holds(c)' = Holds(c)
      BY <1>5 DEF Recorded, Holds
    <2>2. Written(c)' = Written(c) \cup {m}
      BY <1>2, <1>5 DEF Recorded, Written
    <2> QED BY <2>1, <2>2
  <1>6. \A d \in Cycles \ {c} : Holds(d)' = Holds(d) /\ Written(d)' = Written(d)
    BY DEF Recorded, Holds, Written
  <1>7. Holds(c) = ClaimedIds(cycles[c].todo) \cup cycles[c].item.ids
    BY DEF Holds
  <1>8. \A d \in Cycles : Holds(d)' \subseteq Holds(d) /\ cycles'[d].table = cycles[d].table
    BY <1>4, <1>5, <1>6, <1>7 DEF Recorded
  <1>9. rows \in [Tables -> [Messages -> Row]]
    BY DEF Typed, TypeOK
  <1>10. /\ rows'[cycles[c].table][m].status = cycles[c].outcome
         /\ \A t \in Tables, n \in Messages :
              t # cycles[c].table \/ n # m => rows'[t][n] = rows[t][n]
    BY <1>1, <1>9 DEF Recorded
  <1> QED BY <1>1, <1>2, <1>3, <1>4, <1>5, <1>6, <1>7, <1>8, <1>10

LEMMA StoppedFacts ==
  ASSUME NEW W, Stopped(W), NEW c \in Cycles
  PROVE  /\ c \in W => Holds(c)' = {} /\ ~Runs(c)' /\ Written(c)' = {}
         /\ c \notin W => /\ Holds(c)' = Holds(c) /\ Written(c)' = Written(c)
                          /\ cycles'[c] = cycles[c]
  <1>1. ASSUME c \in W
        PROVE  Holds(c)' = {} /\ ~Runs(c)' /\ Written(c)' = {}
    <2>1. cycles'[c] = Resting
      BY <1>1 DEF Stopped
    <2>2. /\ cycles'[c].step = "idle" /\ cycles'[c].todo = {}
          /\ cycles'[c].item = NoItem
      BY <2>1, RestingOK
    <2> QED BY <2>2 DEF Holds, ClaimedIds, NoItem, Runs, Written
  <1>2. ASSUME c \notin W
        PROVE  Holds(c)' = Holds(c) /\ Written(c)' = Written(c) /\ cycles'[c] = cycles[c]
    BY <1>2 DEF Stopped, Holds, Written
  <1> QED BY <1>1, <1>2

LEMMA QuietFacts ==
  ASSUME Quiet, NEW c \in Cycles
  PROVE  Holds(c)' = Holds(c) /\ Written(c) \subseteq Written(c)'
  BY DEF Quiet, Written

LEMMA BeganFacts ==
  ASSUME Typed, NEW b \in Cycles, Began(b)
  PROVE  /\ \A d \in Cycles : Written(d) = {} /\ Written(d)' = {}
         /\ \A d \in Cycles \ {b} : Holds(d)' = Holds(d) /\ cycles'[d] = cycles[d]
         /\ \A t \in Tables, m \in Messages :
              rows'[t][m] = IF t # config.mode THEN rows[t][m]
                            ELSE IF m \in Holds(b)' THEN [status |-> "running", age |-> 0]
                            ELSE Recovered(rows[t][m])
         /\ config.mode \in Tables
  <1>1. config.mode \in Tables
    BY QueueAssumption DEF Typed, TypeOK
  <1>2. \A t \in Tables, m \in Messages :
          rows'[t][m] = IF t # config.mode THEN rows[t][m]
                        ELSE IF m \in Holds(b)' THEN [status |-> "running", age |-> 0]
                        ELSE Recovered(rows[t][m])
    BY <1>1 DEF Began, Typed, TypeOK
  <1>3. \A d \in Cycles : Written(d) = {} /\ Written(d)' = {}
    BY DEF Began, Runs, Written
  <1>4. \A d \in Cycles \ {b} : Holds(d)' = Holds(d) /\ cycles'[d] = cycles[d]
    BY DEF Began, Holds
  <1> QED BY <1>1, <1>2, <1>3, <1>4

LEMMA OutcomeStep ==
  ASSUME Typed, OutcomeWritten, [Next]_vars
  PROVE  OutcomeWritten'
  <1> SUFFICES ASSUME NEW c \in Cycles, cycles'[c].step = "record",
                      NEW m \in cycles'[c].item.ids \ cycles'[c].left
               PROVE  rows'[cycles'[c].table][m].status = cycles'[c].outcome
    BY DEF OutcomeWritten
  <1>1. ASSUME cycles'[c] = cycles[c]
        PROVE  /\ rows[cycles[c].table][m].status = cycles[c].outcome
               /\ cycles[c].table \in Tables /\ m \in Messages
               /\ Runs(c)
    BY <1>1, CycleTypes DEF OutcomeWritten, CycleOK, Item, Runs
  <1>2. CASE Quiet
    <2>1. cycles'[c] = cycles[c]
      BY <1>2 DEF Quiet
    <2> QED BY <1>1, <1>2, <2>1 DEF Quiet
  <1>3. ASSUME NEW W \in SUBSET Cycles, Stopped(W)
        PROVE  rows'[cycles'[c].table][m].status = cycles'[c].outcome
    <2>1. cycles'[c] = cycles[c]
      BY <1>3, StoppedFacts DEF Runs
    <2> QED BY <1>1, <1>3, <2>1 DEF Stopped
  <1>4. ASSUME NEW b \in Cycles, Began(b)
        PROVE  FALSE
    BY <1>4 DEF Began, Runs
  <1>5. ASSUME NEW b \in Cycles, NEW n \in Messages, Recorded(b, n)
        PROVE  rows'[cycles'[c].table][m].status = cycles'[c].outcome
    <2>1. c = b
      <3>1. Runs(b) /\ (c # b => Runs(c))
        BY <1>5 DEF Recorded, Runs
      <3> QED BY <3>1 DEF Typed, CyclesOK
    <2>2. /\ cycles[c].step = "record" /\ cycles'[c].outcome = cycles[c].outcome
          /\ cycles'[c].table = cycles[c].table
          /\ m \in cycles[c].item.ids /\ (m \notin cycles[c].left \/ m = n)
      BY <1>5, <2>1 DEF Recorded
    <2>3. m \in Messages
      BY <2>2, CycleTypes DEF CycleOK, Item
    <2>4. CASE m = n
      BY <1>5, <2>1, <2>2, <2>4, RecordedFacts
    <2>5. CASE m # n
      BY <1>5, <2>1, <2>2, <2>3, <2>5, RecordedFacts DEF OutcomeWritten
    <2> QED BY <2>4, <2>5
  <1> QED BY <1>2, <1>3, <1>4, <1>5, StepKinds

\* Both invariants of the claims speak of what a cycle holds of the live table.
LEMMA ClaimStep ==
  ASSUME Typed, ClaimedByOne, Marked, [Next]_vars
  PROVE  ClaimedByOne' /\ Marked'
  <1> SUFFICES ASSUME NEW c \in Cycles, NEW m \in Holds(c)',
                      cycles'[c].table = "live", m \notin expired'
               PROVE  /\ m \notin Written(c)' => rows'["live"][m].status = "running"
                      /\ \A d \in Cycles :
                           cycles'[d].table = "live" /\ m \in Holds(d)' => c = d
    <2>1. \A d \in Cycles : \A n \in Written(d)' :
            cycles'[d].step = "record" /\ n \in cycles'[d].item.ids
      BY DEF Written
    <2> QED BY <2>1 DEF ClaimedByOne, Marked
  <1>1. Typed'
    BY StepKinds
  <1>2. m \in Messages
    <2>1. HoldsMessages'
      BY <1>1, HoldsTyped, PTL
    <2> QED BY <2>1 DEF HoldsMessages
  <1>3. ASSUME \A d \in Cycles : m \in Holds(d)' => m \in Holds(d) /\ cycles'[d].table = cycles[d].table,
               m \notin expired
        PROVE  /\ \A d \in Cycles : cycles'[d].table = "live" /\ m \in Holds(d)' => c = d
               /\ m \notin Written(c) => rows["live"][m].status = "running"
               /\ cycles[c].table = "live" /\ m \in Holds(c)
    BY <1>3 DEF ClaimedByOne, Marked
  <1>4. CASE Quiet
    <2>1. /\ \A d \in Cycles : m \in Holds(d)' => m \in Holds(d) /\ cycles'[d].table = cycles[d].table
          /\ m \notin expired
      BY <1>4 DEF Quiet
    <2>2. rows'["live"][m].status = rows["live"][m].status
      BY <1>2, <1>4 DEF Quiet, Tables
    <2> QED BY <1>3, <1>4, <2>1, <2>2, QuietFacts
  <1>5. ASSUME NEW W \in SUBSET Cycles, Stopped(W)
        PROVE  /\ m \notin Written(c)' => rows'["live"][m].status = "running"
               /\ \A d \in Cycles : cycles'[d].table = "live" /\ m \in Holds(d)' => c = d
    <2>1. \A d \in Cycles : m \in Holds(d)' => m \in Holds(d) /\ cycles'[d].table = cycles[d].table
      BY <1>5, StoppedFacts
    <2>2. Written(c)' = Written(c) /\ rows' = rows /\ m \notin expired
      BY <1>5, StoppedFacts DEF Stopped
    <2> QED BY <1>3, <2>1, <2>2
  <1>6. ASSUME NEW b \in Cycles, Began(b)
        PROVE  /\ m \notin Written(c)' => rows'["live"][m].status = "running"
               /\ \A d \in Cycles :
                    cycles'[d].table = "live" /\ m \in Holds(d)' => c = d
    <2>1. \A d \in Cycles \ {b} : Holds(d)' = Holds(d) /\ cycles'[d] = cycles[d]
      BY <1>6, BeganFacts
    <2>2. CASE config.mode = "live"
      <3>1. m \notin expired
        BY <1>6 DEF Began
      <3>2. m \in Holds(b)' => rows'["live"][m].status = "running"
        BY <1>2, <1>6, <2>2, BeganFacts
      <3>3. \A d \in Cycles \ {b} : cycles'[d].table = "live" /\ m \in Holds(d)' =>
               m \notin Holds(b)' /\ rows'["live"][m].status = "running"
        <4> TAKE d \in Cycles \ {b}
        <4> HAVE cycles'[d].table = "live" /\ m \in Holds(d)'
        <4>1. rows["live"][m].status = "running" /\ Held("live", m)
          BY <1>6, <2>1, <3>1, BeganFacts DEF Marked, Held
        <4>2. ~Stale(rows["live"][m])
          BY <1>2, <1>6, <2>2, <4>1 DEF Began
        <4>3. Recovered(rows["live"][m]) = rows["live"][m]
          BY <4>2 DEF Recovered
        <4>4. m \notin Holds(b)'
          BY <1>6, <2>2, <4>1, <4>3 DEF Began, OpenIn, Open
        <4>5. rows'["live"][m] = rows["live"][m]
          BY <1>2, <1>6, <2>2, <4>3, <4>4, BeganFacts
        <4> QED BY <4>1, <4>4, <4>5
      <3>4. \A d \in Cycles \ {b} : m \in Holds(d)' /\ cycles'[d].table = "live" =>
               \A e \in Cycles : cycles'[e].table = "live" /\ m \in Holds(e)' => d = e
        BY <2>1, <3>1, <3>3 DEF ClaimedByOne
      <3> QED BY <3>2, <3>3, <3>4
    <2>3. CASE config.mode # "live"
      <3>1. c # b /\ \A d \in Cycles : cycles'[d].table = "live" => d # b
        BY <1>6, <2>3 DEF Began
      <3>2. rows'["live"][m] = rows["live"][m] /\ expired' = expired
        BY <1>2, <1>6, <2>3, BeganFacts DEF Began, Tables
      <3>3. m \notin Written(c)
        BY <1>6, BeganFacts
      <3>4. rows["live"][m].status = "running"
        BY <2>1, <3>1, <3>2, <3>3 DEF Marked
      <3>5. \A d \in Cycles : cycles'[d].table = "live" /\ m \in Holds(d)' => c = d
        BY <2>1, <3>1, <3>2 DEF ClaimedByOne
      <3> QED BY <3>2, <3>4, <3>5
    <2> QED BY <2>2, <2>3
  <1>7. ASSUME NEW b \in Cycles, NEW n \in Messages, Recorded(b, n)
        PROVE  /\ m \notin Written(c)' => rows'["live"][m].status = "running"
               /\ \A d \in Cycles :
                    cycles'[d].table = "live" /\ m \in Holds(d)' => c = d
    <2>1. /\ \A d \in Cycles : m \in Holds(d)' => m \in Holds(d) /\ cycles'[d].table = cycles[d].table
          /\ m \notin expired
      BY <1>7, RecordedFacts DEF Recorded
    <2>2. ASSUME m \notin Written(c)'
          PROVE  m \notin Written(c) /\ rows'["live"][m] = rows["live"][m]
      <3>1. CASE c # b
        <4>1. m # n \/ cycles[b].table # "live"
          BY <1>3, <1>7, <2>1, <3>1, RecordedFacts DEF ClaimedByOne
        <4> QED BY <1>2, <1>7, <2>2, <3>1, <4>1, RecordedFacts DEF Tables
      <3>2. CASE c = b /\ cycles[b].left = {n}
        <4>1. m \notin cycles[b].item.ids
          BY <1>7, <3>2, RecordedFacts
        <4>2. m \notin Written(c) /\ m # n
          BY <1>7, <3>2, <4>1, WrittenHeld, RecordedFacts
        <4> QED BY <1>2, <1>7, <4>2, RecordedFacts DEF Tables
      <3>3. CASE c = b /\ cycles[b].left # {n}
        BY <1>2, <1>7, <2>2, <3>3, RecordedFacts DEF Tables
      <3> QED BY <3>1, <3>2, <3>3
    <2> QED BY <1>3, <2>1, <2>2
  <1> QED BY <1>4, <1>5, <1>6, <1>7, StepKinds

LEMMA AlwaysClaims == Spec => []Claims
  <1>1. Init => Claims
    <2> SUFFICES ASSUME Init PROVE Claims
      OBVIOUS
    <2>1. \A c \in Cycles : Holds(c) = {} /\ cycles[c].step # "record"
      BY RestingHolds DEF Init, Resting
    <2> QED BY <2>1 DEF Claims, ClaimedByOne, Marked, OutcomeWritten
  <1>2. Typed /\ Claims /\ [Next]_vars => Claims'
    BY OutcomeStep, ClaimStep DEF Claims
  <1> QED BY <1>1, <1>2, AlwaysTyped, PTL DEF Spec

\* Two cycles never work on the same message, and what a cycle works on is
\* marked as running until it is recorded, unless a claim outlived its limit
\* (AgentWorkQueue).
THEOREM ClaimsAreExclusive == Spec => []ClaimedByOne
  <1>1. Claims => ClaimedByOne
    BY DEF Claims
  <1> QED BY <1>1, AlwaysClaims, PTL

LEMMA HeldStep ==
  ASSUME Typed, OutcomeWritten, ClaimIsHeld, [Next]_vars
  PROVE  ClaimIsHeld'
  <1> SUFFICES ASSUME NEW t \in Tables, NEW m \in Messages,
                      rows'[t][m].status = "running", m \notin orphans'[t]
               PROVE  \E c \in Cycles : cycles'[c].table = t /\ m \in Holds(c)'
    BY DEF ClaimIsHeld, Held
  <1>1. CASE Quiet
    BY <1>1 DEF Quiet, ClaimIsHeld, Held
  <1>2. ASSUME NEW W \in SUBSET Cycles, Stopped(W)
        PROVE  \E c \in Cycles : cycles'[c].table = t /\ m \in Holds(c)'
    <2>1. m \in StillRunning(t, Messages)
      BY <1>2 DEF Stopped, StillRunning
    <2>2. m \notin orphans[t] /\ \A c \in W : ~(cycles[c].table = t /\ m \in Holds(c))
      BY <1>2, <2>1 DEF Stopped
    <2>3. PICK c \in Cycles : cycles[c].table = t /\ m \in Holds(c)
      BY <2>1, <2>2 DEF ClaimIsHeld, Held, StillRunning
    <2> QED BY <1>2, <2>2, <2>3, StoppedFacts
  <1>3. ASSUME NEW b \in Cycles, Began(b)
        PROVE  \E c \in Cycles : cycles'[c].table = t /\ m \in Holds(c)'
    <2>1. CASE t = config.mode /\ m \in Holds(b)'
      BY <1>3, <2>1 DEF Began
    <2>2. CASE ~(t = config.mode /\ m \in Holds(b)')
      <3>1. rows[t][m].status = "running" /\ m \notin orphans[t]
        <4>1. CASE t = config.mode
          <5>1. rows'[t][m] = Recovered(rows[t][m])
            BY <1>3, <2>2, <4>1, BeganFacts
          <5>2. ~Stale(rows[t][m])
            BY <5>1, RowTypes DEF Typed
          <5>3. rows[t][m].status = "running"
            BY <5>1, <5>2, RowTypes DEF Typed
          <5>4. orphans'[t] = {n \in StillRunning(t, orphans[t]) : ~Stale(rows[t][n])}
            BY <1>3, <4>1 DEF Began, Typed, TypeOK
          <5> QED BY <5>2, <5>3, <5>4 DEF StillRunning
        <4>2. CASE t # config.mode
          BY <1>3, <4>2, BeganFacts DEF Began, Typed, TypeOK
        <4> QED BY <4>1, <4>2
      <3>2. PICK c \in Cycles : cycles[c].table = t /\ m \in Holds(c)
        BY <3>1 DEF ClaimIsHeld, Held
      <3>3. c # b
        BY <1>3, <3>2 DEF Began
      <3> QED BY <1>3, <3>2, <3>3, BeganFacts
    <2> QED BY <2>1, <2>2
  <1>4. ASSUME NEW b \in Cycles, NEW n \in Messages, Recorded(b, n)
        PROVE  \E c \in Cycles : cycles'[c].table = t /\ m \in Holds(c)'
    <2>1. ~(t = cycles[b].table /\ m = n)
      BY <1>4, RecordedFacts DEF Settled
    <2>2. rows[t][m].status = "running" /\ m \notin orphans[t]
      BY <1>4, <2>1, RecordedFacts DEF Recorded
    <2>3. PICK c \in Cycles : cycles[c].table = t /\ m \in Holds(c)
      BY <2>2 DEF ClaimIsHeld, Held
    <2>4. CASE c = b /\ cycles[b].left = {n}
      <3>1. cycles[b].step = "record" /\ cycles[b].outcome # "running"
        BY <1>4, RecordedFacts DEF Recorded, Settled
      <3>2. m \notin cycles[b].item.ids
        BY <2>1, <2>2, <2>3, <2>4, <3>1 DEF OutcomeWritten
      <3>3. m \in ClaimedIds(cycles[b].todo)
        BY <2>3, <2>4, <3>2 DEF Holds
      <3> QED BY <1>4, <2>3, <2>4, <3>3, RecordedFacts
    <2>5. CASE ~(c = b /\ cycles[b].left = {n})
      BY <1>4, <2>3, <2>5, RecordedFacts
    <2> QED BY <2>4, <2>5
  <1> QED BY <1>1, <1>2, <1>3, <1>4, StepKinds

\* A cycle leaves a claim that no cycle holds only when an exception that
\* nothing in it catches ends it, or with the process, and of the claims so left
\* those found stale are lifted (run_mailbox, _recover_stale).
THEOREM NoClaimIsLeftBehind == Spec => []ClaimIsHeld
  <1>1. Init => ClaimIsHeld
    BY DEF Init, ClaimIsHeld
  <1>2. Typed /\ Claims /\ ClaimIsHeld /\ [Next]_vars => ClaimIsHeld'
    BY HeldStep DEF Claims
  <1> QED BY <1>1, <1>2, AlwaysTyped, AlwaysClaims, PTL DEF Spec

-----------------------------------------------------------------------------
(* What was settled stays settled.                                          *)

SettledStays ==
  \A m \in Messages : rows["live"][m].status \in Settled /\ ~Held("live", m) =>
    rows'["live"][m] = rows["live"][m]

LEMMA SettledStep ==
  ASSUME Typed, [Next]_vars
  PROVE  /\ expired \subseteq expired'
         /\ \A m \in Messages :
              rows["live"][m].status \in Settled /\ ~Held("live", m) =>
                rows'["live"][m] = rows["live"][m] /\ ~Held("live", m)'
  <1> DEFINE Stays == /\ expired \subseteq expired'
                      /\ \A m \in Messages :
                           rows["live"][m].status \in Settled /\ ~Held("live", m) =>
                             rows'["live"][m] = rows["live"][m] /\ ~Held("live", m)'
  <1>1. \A m \in Messages : rows["live"][m].status \in Settled =>
          rows["live"][m].status # "running" /\ ~Open(rows["live"][m])
    BY DEF Settled, Open
  <1>2. CASE Quiet
    BY <1>1, <1>2 DEF Quiet, Tables, Held
  <1>3. ASSUME NEW W \in SUBSET Cycles, Stopped(W)
        PROVE  Stays
    <2>1. \A m \in Messages : ~Held("live", m) => ~Held("live", m)'
      BY <1>3, StoppedFacts DEF Held
    <2> QED BY <1>3, <2>1 DEF Stopped
  <1>4. ASSUME NEW b \in Cycles, Began(b)
        PROVE  Stays
    <2>1. expired \subseteq expired'
      BY <1>4 DEF Began
    <2>2. ASSUME NEW m \in Messages, rows["live"][m].status \in Settled, ~Held("live", m)
          PROVE  rows'["live"][m] = rows["live"][m] /\ ~Held("live", m)'
      <3>1. Recovered(rows["live"][m]) = rows["live"][m]
        BY <1>1, <2>2 DEF Recovered, Stale
      <3>2. config.mode = "live" => m \notin Holds(b)'
        BY <1>1, <1>4, <2>2, <3>1 DEF Began, OpenIn
      <3>3. rows'["live"][m] = rows["live"][m]
        BY <1>4, <3>1, <3>2, BeganFacts DEF Tables
      <3>4. ~Held("live", m)'
        BY <1>4, <2>2, <3>2, BeganFacts DEF Began, Held
      <3> QED BY <3>3, <3>4
    <2> QED BY <2>1, <2>2
  <1>5. ASSUME NEW b \in Cycles, NEW n \in Messages, Recorded(b, n)
        PROVE  Stays
    <2>1. \A m \in Messages : ~Held("live", m) => ~Held("live", m)'
      BY <1>5, RecordedFacts DEF Held
    <2>2. \A m \in Messages : ~Held("live", m) => rows'["live"][m] = rows["live"][m]
      BY <1>5, RecordedFacts DEF Held, Tables
    <2> QED BY <1>5, <2>1, <2>2 DEF Recorded
  <1> QED BY <1>2, <1>3, <1>4, <1>5, StepKinds

\* A message that was processed, ignored or left aside is not taken up again
\* (list_pending, list_pending_threads).
THEOREM NothingIsWorkedTwice == Spec => SettledIsFinal
  <1>1. Typed /\ [Next]_vars => SettledStays
    BY SettledStep DEF SettledStays
  <1>2. SettledStays => [SettledStays]_vars
    OBVIOUS
  <1>3. SettledIsFinal <=> [][SettledStays]_vars
    BY PTL DEF SettledIsFinal, SettledStays
  <1> QED BY <1>1, <1>2, <1>3, AlwaysTyped, PTL DEF Spec

-----------------------------------------------------------------------------
(* Marking read.                                                            *)

\* What a cycle is about to mark read was processed, and no cycle is at it.
MarksProcessed ==
  \A c \in Cycles : cycles[c].step = "mark" =>
    \A m \in cycles[c].left :
      (rows["live"][m].status = "processed" /\ ~Held("live", m)) \/ m \in expired

LEMMA MarkKinds ==
  ASSUME Typed, [Next]_vars, NEW c \in Cycles, cycles'[c].step = "mark"
  PROVE  \/ cycles[c].step = "mark" /\ cycles'[c].left \subseteq cycles[c].left
         \/ /\ cycles'[c].left \subseteq ToMarkRead /\ UNCHANGED <<rows, expired>>
            /\ Quiet /\ Runs(c) /\ cycles[c].step # "record"
  <1>1. cycles \in [Cycles -> Cycle]
    BY DEF Typed, TypeOK
  <1>2. ASSUME cycles'[c] = cycles[c]
        PROVE  cycles[c].step = "mark" /\ cycles'[c].left \subseteq cycles[c].left
    BY <1>2
  <1>3. ASSUME NEW d \in Cycles, EndBatch(d)
        PROVE  \/ cycles'[c] = cycles[c]
               \/ /\ cycles'[c].left \subseteq ToMarkRead /\ UNCHANGED <<rows, expired>>
                  /\ Quiet /\ Runs(c) /\ cycles[c].step # "record"
    <2>1. PICK x : /\ x = Resting \/ x = [Resting EXCEPT !.step = "mark", !.left = ToMarkRead]
                   /\ cycles' = [cycles EXCEPT ![d] = x]
      BY <1>3 DEF EndBatch
    <2>2. CASE c # d
      BY <1>1, <2>1, <2>2
    <2>3. CASE c = d
      <3>1. cycles[c].step = "next" /\ UNCHANGED <<rows, expired>> /\ Quiet
        BY <1>3, <2>3, EndBatchStep DEF EndBatch, At, history
      <3>3. cycles'[c] = x
        BY <1>1, <2>1, <2>3
      <3>4. x.left = {} \/ x.left = ToMarkRead
        <4>1. CASE x = Resting
          BY <4>1 DEF Resting
        <4>2. CASE x = [Resting EXCEPT !.step = "mark", !.left = ToMarkRead]
          BY <4>2 DEF Resting
        <4> QED BY <2>1, <4>1, <4>2
      <3>2. cycles'[c].left \subseteq ToMarkRead
        BY <3>3, <3>4
      <3> QED BY <3>1, <3>2 DEF Runs
    <2> QED BY <2>2, <2>3
  <1>4. ASSUME NEW d \in Cycles, MarkRead(d)
        PROVE  cycles[c].step = "mark" /\ cycles'[c].left \subseteq cycles[c].left
    <2>1. PICK m \in cycles[d].left :
            cycles' = [cycles EXCEPT ![d] =
               IF cycles[d].left = {m} THEN Resting
               ELSE [cycles[d] EXCEPT !.left = @ \ {m}]]
      BY <1>4 DEF MarkRead
    <2>2. CASE cycles[d].left = {m}
      BY <1>1, <2>1, <2>2 DEF Resting
    <2>3. CASE cycles[d].left # {m}
      <3>1. cycles[d].step = "mark"
        BY <1>4 DEF MarkRead, Awaits
      <3>2. cycles' = [cycles EXCEPT ![d] = [cycles[d] EXCEPT !.left = @ \ {m}]]
        BY <2>1, <2>3
      <3> QED BY <1>1, <3>1, <3>2 DEF Cycle
    <2> QED BY <2>2, <2>3
  <1>5. ASSUME NEW d \in Cycles,
               \/ AnalysisSucceeds(d) \/ AnalysisFails(d)
               \/ MutationSucceeds(d) \/ MutationFails(d) \/ RecordingFails(d)
        PROVE  cycles'[c] = cycles[c]
    <2>1. \/ \E outcome : ToRecord(d, outcome)
          \/ cycles' = [cycles EXCEPT ![d].step = "mutate"]
      BY <1>5 DEF AnalysisSucceeds, AnalysisFails, MutationSucceeds, MutationFails,
                  RecordingFails
    <2> QED BY <1>1, <2>1 DEF ToRecord, Cycle
  <1>6. ASSUME NEW d \in Cycles, TakeItem(d)
        PROVE  cycles'[c] = cycles[c]
    <2>1. PICK i \in cycles[d].todo :
            LET taken == [cycles[d] EXCEPT !.todo = @ \ {i}, !.item = i] IN
            \/ cycles' = [cycles EXCEPT ![d] = [taken EXCEPT !.step = "analyse"]]
            \/ cycles' = [cycles EXCEPT ![d] =
                 [taken EXCEPT !.step = "record", !.left = i.ids,
                               !.outcome = IF cycles[d].table = "live"
                                           THEN "ignored_rule" ELSE "processed"]]
      BY <1>6 DEF TakeItem
    <2> QED BY <1>1, <2>1 DEF Cycle
  <1>7. ASSUME NEW d \in Cycles, Record(d)
        PROVE  cycles'[c] = cycles[c]
    <2>1. PICK m \in cycles[d].left :
            cycles' = [cycles EXCEPT ![d] =
               IF cycles[d].left = {m}
               THEN [cycles[d] EXCEPT !.step = "next", !.item = NoItem, !.left = {}]
               ELSE [cycles[d] EXCEPT !.left = @ \ {m}]]
      BY <1>7 DEF Record
    <2>2. cycles[d].step = "record"
      BY <1>7 DEF Record, At
    <2>3. CASE cycles[d].left = {m}
      BY <1>1, <2>1, <2>3 DEF Cycle
    <2>4. CASE cycles[d].left # {m}
      BY <1>1, <2>1, <2>2, <2>4 DEF Cycle
    <2> QED BY <2>3, <2>4
  <1>8. ASSUME NEW d \in Cycles, NEW force \in BOOLEAN, Begin(d, force)
        PROVE  cycles'[c] = cycles[c]
    <2>1. PICK batch : cycles' = [cycles EXCEPT ![d] =
            [Resting EXCEPT !.step = "next", !.table = config.mode, !.todo = batch]]
      BY <1>8 DEF Begin
    <2> QED BY <1>1, <2>1 DEF Resting
  <1>9. ASSUME Crash
        PROVE  FALSE
    BY <1>9 DEF Crash, Resting
  <1>10. ASSUME \/ \E m \in Messages : Deliver(m) \/ Vanish(m)
                \/ \E new \in Configs : Configure(new)
                \/ Tick \/ Restart \/ UNCHANGED vars
         PROVE  cycles'[c] = cycles[c]
    BY <1>10 DEF Deliver, Vanish, Configure, Tick, Restart, vars
  <1>11. ASSUME NEW d \in Cycles, Aborts(d)
         PROVE  cycles'[c] = cycles[c]
    BY <1>1, <1>11 DEF Aborts, Resting
  <1> QED
    BY <1>2, <1>3, <1>4, <1>5, <1>6, <1>7, <1>8, <1>9, <1>10, <1>11 DEF Next, RunsOn, Returns

LEMMA MarksStep ==
  ASSUME Typed, Marked, MarksProcessed, [Next]_vars
  PROVE  MarksProcessed'
  <1> SUFFICES ASSUME NEW c \in Cycles, cycles'[c].step = "mark",
                      NEW m \in cycles'[c].left, m \notin expired'
               PROVE  rows'["live"][m].status = "processed" /\ ~Held("live", m)'
    BY DEF MarksProcessed
  <1>1. CASE cycles[c].step = "mark" /\ m \in cycles[c].left
    <2>1. m \in Messages
      BY <1>1, CycleTypes
    <2>2. m \notin expired
      BY SettledStep
    <2>3. rows["live"][m].status = "processed" /\ ~Held("live", m)
      BY <1>1, <2>2 DEF MarksProcessed
    <2>4. rows'["live"][m] = rows["live"][m] /\ ~Held("live", m)'
      BY <2>1, <2>3, SettledStep DEF Settled
    <2> QED BY <2>3, <2>4
  <1>2. CASE /\ m \in ToMarkRead /\ UNCHANGED <<rows, expired>>
             /\ Quiet /\ Runs(c) /\ cycles[c].step # "record"
    <2>1. rows["live"][m].status = "processed" /\ m \notin expired
      BY <1>2 DEF ToMarkRead
    <2>2. \A d \in Cycles : Written(d) = {}
      BY <1>2 DEF Runs, Written, Typed, CyclesOK
    <2>3. ~Held("live", m)
      BY <2>1, <2>2 DEF Held, Marked
    <2>4. ~Held("live", m)'
      BY <1>2, <2>3 DEF Quiet, Held
    <2> QED BY <1>2, <2>1, <2>4
  <1> QED BY <1>1, <1>2, MarkKinds

LEMMA MarkingStep ==
  ASSUME Typed, MarksProcessed
  PROVE  \A c \in Cycles : MarkRead(c) =>
           \A m \in seen' \ seen : rows["live"][m].status = "processed" \/ m \in expired
  BY DEF MarkRead, Awaits, MarksProcessed

\* The agent marks read only mail whose analysis was completed, also when the
\* list it works off is old (_reconcile_processed_read).
THEOREM OnlyProcessedIsMarked == Spec => ReadWasProcessed
  <1> DEFINE Marking ==
        \A c \in Cycles : MarkRead(c) =>
          \A m \in seen' \ seen : rows["live"][m].status = "processed" \/ m \in expired
  <1>1. Init => MarksProcessed
    BY DEF Init, MarksProcessed, Resting
  <1>2. Typed /\ Claims /\ MarksProcessed /\ [Next]_vars => MarksProcessed'
    BY MarksStep DEF Claims
  <1>3. Typed /\ MarksProcessed => Marking
    BY MarkingStep
  <1>4. ReadWasProcessed <=> [][Marking]_vars
    BY PTL DEF ReadWasProcessed
  <1> QED BY <1>1, <1>2, <1>3, <1>4, AlwaysTyped, AlwaysClaims, PTL DEF Spec

-----------------------------------------------------------------------------
(* One artifact for a message.                                              *)

\* A slow cycle lost its claim on m, or an artifact of m was not recorded.
Excused(m) == m \in expired \cup broken

\* The messages a cycle may still make an artifact for, or report as failed.
Unworked(c) ==
  IF cycles[c].step = "record" /\ cycles[c].outcome # "error"
  THEN ClaimedIds(cycles[c].todo) ELSE Holds(c)

\* A message that is neither settled nor held has no artifact, and neither has
\* one a cycle is still to analyse or to report as failed.
UnheldIsFresh ==
  \A m \in Messages :
    rows["live"][m].status \notin Settled /\ ~Held("live", m) => artifacts[m] = 0 \/ Excused(m)

UnworkedIsFresh ==
  \A c \in Cycles : cycles[c].table = "live" =>
    \A m \in Unworked(c) : artifacts[m] = 0 \/ Excused(m)

Fresh == ArtifactOnce /\ UnheldIsFresh /\ UnworkedIsFresh

LEMMA UnworkedHeld ==
  ASSUME NEW c \in Cycles
  PROVE  Unworked(c) \subseteq Holds(c) /\ ClaimedIds(cycles[c].todo) \subseteq Unworked(c)
  BY DEF Unworked, Holds

\* c made an artifact for its item.
Spent(c) ==
  /\ cycles[c].table = "live"
  /\ cycles[c].step \in {"analyse", "mutate"}
  /\ artifacts' = MadeFor(cycles[c].item.newest)
  /\ \/ cycles'[c].outcome # "error" /\ broken' = broken
     \/ broken' = broken \cup {cycles[c].item.newest}
  /\ cycles'[c].step = "record"
  /\ cycles'[c].todo = cycles[c].todo
  /\ cycles'[c].table = "live"
  /\ \A d \in Cycles \ {c} : cycles'[d] = cycles[d]

\* c failed to record its item.
Spoiled(c) ==
  /\ cycles[c].step = "record"
  /\ cycles'[c].step = "record" /\ cycles'[c].outcome = "error"
  /\ cycles'[c].table = cycles[c].table
  /\ broken' = IF cycles[c].table = "live"
               THEN broken \cup {m \in cycles[c].item.ids : artifacts[m] > 0} ELSE broken
  /\ UNCHANGED artifacts
  /\ \A d \in Cycles \ {c} : cycles'[d] = cycles[d]

\* No artifact is made or lost, and who is recording goes on.
Plain ==
  /\ UNCHANGED <<artifacts, broken>>
  /\ \/ \A c \in Cycles : cycles[c].step = "record" => cycles'[c] = cycles[c]
     \/ \E c \in Cycles, m \in Messages : Recorded(c, m)

LEMMA ToRecordLeaves ==
  ASSUME Typed, NEW c \in Cycles, NEW outcome, ToRecord(c, outcome)
  PROVE  /\ cycles'[c].outcome = outcome
         /\ cycles'[c].step = "record"
         /\ cycles'[c].todo = cycles[c].todo
         /\ cycles'[c].table = cycles[c].table
         /\ \A d \in Cycles \ {c} : cycles'[d] = cycles[d]
  BY DEF ToRecord, Typed, TypeOK, Cycle

\* What a step does to the artifacts and to the cycles that are recording.
LEMMA ArtifactKinds ==
  ASSUME Typed, [Next]_vars
  PROVE  \/ Plain
         \/ \E W \in SUBSET Cycles : Stopped(W)
         \/ Quiet /\ \E c \in Cycles : Spent(c)
         \/ Quiet /\ \E c \in Cycles : Spoiled(c)
  <1> DEFINE Idle == /\ UNCHANGED <<artifacts, broken>>
                     /\ \A c \in Cycles : cycles[c].step = "record" => cycles'[c] = cycles[c]
  <1>0. cycles \in [Cycles -> Cycle]
    BY DEF Typed, TypeOK
  <1>1. ASSUME NEW d \in Cycles, AnalysisSucceeds(d)
        PROVE  Idle \/ (Quiet /\ Spent(d))
    <2>1. cycles[d].step = "analyse" /\ UNCHANGED broken
      BY <1>1 DEF AnalysisSucceeds, Awaits, history
    <2>2. CASE UNCHANGED artifacts
      <3>1. \/ \E outcome : ToRecord(d, outcome)
            \/ cycles' = [cycles EXCEPT ![d].step = "mutate"]
        BY <1>1 DEF AnalysisSucceeds
      <3>2. \A c \in Cycles \ {d} : cycles'[c] = cycles[c]
        BY <1>0, <3>1, ToRecordLeaves
      <3> QED BY <2>1, <2>2, <3>2
    <2>3. CASE /\ cycles[d].table = "live"
               /\ artifacts' = MadeFor(cycles[d].item.newest)
               /\ ToRecord(d, "processed")
      <3>1. Quiet
        BY <1>1, AnalysisSucceedsStep
      <3> QED BY <2>1, <2>3, <3>1, ToRecordLeaves DEF Spent
    <2> QED BY <1>1, <2>2, <2>3 DEF AnalysisSucceeds
  <1>2. ASSUME NEW d \in Cycles, AnalysisFails(d)
        PROVE  Idle \/ (Quiet /\ Spent(d))
    <2>1. cycles[d].step = "analyse" /\ ToRecord(d, "error")
      BY <1>2 DEF AnalysisFails, Awaits
    <2>2. CASE UNCHANGED <<artifacts, broken>>
      <3>1. \A c \in Cycles \ {d} : cycles'[c] = cycles[c]
        BY <2>1, ToRecordLeaves
      <3> QED BY <2>1, <2>2, <3>1
    <2>3. CASE /\ cycles[d].table = "live"
               /\ artifacts' = MadeFor(cycles[d].item.newest)
               /\ broken' = broken \cup {cycles[d].item.newest}
      <3>1. Quiet
        BY <1>2, AnalysisFailsStep
      <3> QED BY <2>1, <2>3, <3>1, ToRecordLeaves DEF Spent
    <2> QED BY <1>2, <2>2, <2>3 DEF AnalysisFails
  <1>3. ASSUME NEW d \in Cycles, MutationSucceeds(d)
        PROVE  Quiet /\ Spent(d)
    <2>1. /\ cycles[d].step = "mutate" /\ ToRecord(d, "processed")
          /\ artifacts' = MadeFor(cycles[d].item.newest) /\ broken' = broken
      BY <1>3 DEF MutationSucceeds, Awaits, history
    <2>2. cycles[d].table = "live" /\ Quiet
      BY <1>3, <2>1, CycleTypes, MutationSucceedsStep DEF CycleOK
    <2> QED BY <2>1, <2>2, ToRecordLeaves DEF Spent
  <1>4. ASSUME NEW d \in Cycles, MutationFails(d)
        PROVE  Idle \/ (Quiet /\ Spent(d))
    <2>1. cycles[d].step = "mutate" /\ ToRecord(d, "error")
      BY <1>4 DEF MutationFails, Awaits
    <2>2. cycles[d].table = "live" /\ Quiet
      BY <1>4, <2>1, CycleTypes, MutationFailsStep DEF CycleOK
    <2>3. CASE UNCHANGED <<artifacts, broken>>
      <3>1. \A c \in Cycles \ {d} : cycles'[c] = cycles[c]
        BY <2>1, ToRecordLeaves
      <3> QED BY <2>1, <2>3, <3>1
    <2>4. CASE /\ artifacts' = MadeFor(cycles[d].item.newest)
               /\ broken' = broken \cup {cycles[d].item.newest}
      BY <2>1, <2>2, <2>4, ToRecordLeaves DEF Spent
    <2> QED BY <1>4, <2>3, <2>4 DEF MutationFails
  <1>5. ASSUME NEW d \in Cycles, MarkRead(d)
        PROVE  Idle
    <2>1. PICK x : cycles' = [cycles EXCEPT ![d] = x]
      BY <1>5 DEF MarkRead
    <2>2. cycles[d].step = "mark" /\ UNCHANGED <<artifacts, broken>>
      BY <1>5 DEF MarkRead, Awaits, history
    <2> QED BY <1>0, <2>1, <2>2
  <1>6. ASSUME NEW d \in Cycles, TakeItem(d) \/ EndBatch(d)
        PROVE  Idle
    <2>1. PICK x : cycles' = [cycles EXCEPT ![d] = x]
      BY <1>6 DEF TakeItem, EndBatch
    <2>2. cycles[d].step = "next" /\ UNCHANGED <<artifacts, broken>>
      BY <1>6 DEF TakeItem, EndBatch, At, history
    <2> QED BY <1>0, <2>1, <2>2
  <1>7. ASSUME NEW d \in Cycles, Record(d)
        PROVE  UNCHANGED <<artifacts, broken>> /\ \E m \in Messages : Recorded(d, m)
    BY <1>7, RecordStep DEF Record, history
  <1>8. ASSUME NEW d \in Cycles, NEW force \in BOOLEAN, Begin(d, force)
        PROVE  Idle
    <2>1. PICK x : cycles' = [cycles EXCEPT ![d] = x]
      BY <1>8 DEF Begin
    <2>2. cycles[d].step = "idle" /\ UNCHANGED <<artifacts, broken>>
      BY <1>8 DEF Begin, Awaits
    <2> QED BY <1>0, <2>1, <2>2
  <1>9. ASSUME Crash
        PROVE  Stopped(Cycles)
    BY <1>9, CrashStep
  <1>10. ASSUME \/ \E m \in Messages : Deliver(m) \/ Vanish(m)
                \/ \E new \in Configs : Configure(new)
                \/ Tick \/ Restart \/ UNCHANGED vars
         PROVE  Idle
    BY <1>10 DEF Deliver, Vanish, Configure, Tick, Restart, vars, history
  <1>11. ASSUME NEW d \in Cycles, Aborts(d)
         PROVE  Stopped({d})
    BY <1>11, AbortsStep
  <1>12. ASSUME NEW d \in Cycles, RecordingFails(d)
         PROVE  Quiet /\ Spoiled(d)
    BY <1>12, RecordingFailsStep, ToRecordLeaves DEF RecordingFails, At, Spoiled
  <1>13. Idle => Plain
    BY DEF Plain
  <1> QED
    BY <1>1, <1>2, <1>3, <1>4, <1>5, <1>6, <1>7, <1>8, <1>9, <1>10, <1>11, <1>12, <1>13
       DEF Next, RunsOn, Returns, Plain

\* In a plain step nothing becomes unworked but what a cycle claims.
LEMMA UnworkedStep ==
  ASSUME Typed, [Next]_vars, Plain,
         NEW c \in Cycles, cycles'[c].table = "live", NEW m \in Unworked(c)',
         \A b \in Cycles : Began(b) => m \notin Holds(b)'
  PROVE  m \in Unworked(c) /\ cycles[c].table = "live"
  <1>1. m \in Holds(c)'
    BY DEF Unworked, Holds
  <1>2. ASSUME NEW b \in Cycles, NEW n \in Messages, Recorded(b, n)
        PROVE  m \in Unworked(c) /\ cycles[c].table = "live"
    <2>1. cycles[c].table = "live"
      BY <1>2, RecordedFacts
    <2>2. CASE c # b
      BY <1>2, <2>2, RecordedFacts DEF Unworked, Recorded
    <2>3. CASE c = b /\ cycles[b].left = {n}
      BY <1>1, <1>2, <2>3, RecordedFacts, UnworkedHeld
    <2>4. CASE c = b /\ cycles[b].left # {n}
      BY <1>2, <2>4, RecordedFacts DEF Unworked, Recorded
    <2> QED BY <2>1, <2>2, <2>3, <2>4
  <1>3. CASE Quiet
    <2>1. m \in Holds(c) /\ cycles[c].table = "live"
      BY <1>1, <1>3 DEF Quiet
    <2>2. CASE cycles[c].step = "record" /\ cycles'[c] = cycles[c]
      BY <2>1, <2>2 DEF Unworked
    <2>3. CASE cycles[c].step # "record"
      BY <2>1, <2>3 DEF Unworked
    <2> QED BY <1>2, <2>2, <2>3 DEF Plain
  <1>4. ASSUME NEW W \in SUBSET Cycles, Stopped(W)
        PROVE  m \in Unworked(c) /\ cycles[c].table = "live"
    BY <1>1, <1>4, StoppedFacts DEF Unworked
  <1>5. CASE \E b \in Cycles : Began(b)
    BY <1>1, <1>5 DEF Began, Unworked, Holds
  <1> QED BY <1>2, <1>3, <1>4, <1>5, StepKinds

LEMMA SpentStep ==
  ASSUME Typed, ClaimedByOne, Fresh, [Next]_vars, Quiet, NEW c \in Cycles, Spent(c)
  PROVE  Fresh'
  <1>1. PICK m \in Messages : m = cycles[c].item.newest /\ m \in cycles[c].item.ids
    BY NewestTyped DEF Spent
  <1>2. m \in Holds(c) /\ m \in Unworked(c)
    BY <1>1 DEF Spent, Holds, Unworked
  <1>3. artifacts[m] = 0 \/ Excused(m)
    BY <1>2 DEF Spent, Fresh, UnworkedIsFresh
  <1>4. /\ artifacts \in [Messages -> Nat]
        /\ artifacts'[m] = artifacts[m] + 1
        /\ \A n \in Messages \ {m} : artifacts'[n] = artifacts[n]
    BY <1>1 DEF Spent, MadeFor, Typed, TypeOK
  <1>5. \A n \in Messages : Excused(n) => Excused(n)'
    BY DEF Excused, Spent, Quiet
  <1>6. ArtifactOnce'
    <2>1. \A n \in Messages : artifacts'[n] > 1 => Excused(n)'
      BY <1>3, <1>4, <1>5 DEF Fresh, ArtifactOnce, Excused
    <2> QED BY <2>1 DEF ArtifactOnce, Excused
  <1>7. UnheldIsFresh'
    <2> SUFFICES ASSUME NEW n \in Messages,
                        rows'["live"][n].status \notin Settled, ~Held("live", n)'
                 PROVE  artifacts'[n] = 0 \/ Excused(n)'
      BY DEF UnheldIsFresh
    <2>1. rows["live"][n].status \notin Settled /\ ~Held("live", n)
      BY DEF Quiet, Held, Tables
    <2>2. n # m
      BY <1>2, <2>1 DEF Held, Spent
    <2> QED BY <1>4, <1>5, <2>1, <2>2 DEF Fresh, UnheldIsFresh
  <1>8. UnworkedIsFresh'
    <2> SUFFICES ASSUME NEW d \in Cycles, cycles'[d].table = "live", NEW n \in Unworked(d)'
                 PROVE  artifacts'[n] = 0 \/ Excused(n)'
      BY DEF UnworkedIsFresh
    <2>1. \A e \in Cycles : Unworked(e) \subseteq Holds(e)
      BY DEF Unworked, Holds
    <2>2. n \in Unworked(d) /\ cycles[d].table = "live"
      <3>1. n \in Holds(d)'
        BY DEF Unworked, Holds
      <3>2. CASE d = c
        BY <3>1, <3>2 DEF Quiet, Spent, Unworked
      <3>3. CASE d # c
        BY <3>3 DEF Spent, Unworked, Holds
      <3> QED BY <3>2, <3>3
    <2>3. n \in Messages
      BY <2>1, <2>2, HoldsTyped DEF HoldsMessages
    <2>4. CASE n # m
      BY <1>4, <1>5, <2>2, <2>3, <2>4 DEF Fresh, UnworkedIsFresh
    <2>5. CASE n = m /\ d # c
      <3>1. m \in expired
        BY <1>2, <2>1, <2>2, <2>5 DEF ClaimedByOne, Spent
      <3> QED BY <1>1, <1>5, <2>5, <3>1 DEF Excused
    <2>6. CASE n = m /\ d = c
      <3>1. CASE cycles'[c].outcome # "error"
        <4>1. n \in ClaimedIds(cycles[c].todo)
          BY <2>6, <3>1 DEF Unworked, Spent
        <4> QED BY <1>1, <2>6, <4>1, CycleTypes DEF ClaimedIds, CycleOK
      <3>2. CASE broken' = broken \cup {m}
        BY <2>6, <3>2 DEF Excused
      <3> QED BY <1>1, <3>1, <3>2 DEF Spent
    <2> QED BY <2>4, <2>5, <2>6
  <1> QED BY <1>6, <1>7, <1>8 DEF Fresh

LEMMA UnheldStep ==
  ASSUME Typed, OutcomeWritten, Fresh, [Next]_vars,
         NEW m \in Messages, rows'["live"][m].status \notin Settled, ~Held("live", m)',
         \A W \in SUBSET Cycles : ~Stopped(W)
  PROVE  artifacts[m] = 0 \/ Excused(m)
  <1>1. ASSUME rows["live"][m].status \notin Settled, ~Held("live", m)
        PROVE  artifacts[m] = 0 \/ Excused(m)
    BY <1>1 DEF Fresh, UnheldIsFresh
  <1>2. CASE Quiet
    BY <1>1, <1>2 DEF Quiet, Held, Tables
  <1>3. ASSUME NEW b \in Cycles, Began(b)
        PROVE  artifacts[m] = 0 \/ Excused(m)
    <2>1. ~Held("live", m)
      BY <1>3, BeganFacts DEF Began, Held
    <2>2. rows["live"][m].status \notin Settled
      <3>1. CASE config.mode = "live"
        <4>1. m \notin Holds(b)'
          BY <1>3, <3>1 DEF Began, Held
        <4>2. rows'["live"][m] = Recovered(rows["live"][m])
          BY <1>3, <3>1, <4>1, BeganFacts
        <4> QED BY <4>2 DEF Recovered, Stale, Settled
      <3>2. CASE config.mode # "live"
        BY <1>3, <3>2, BeganFacts DEF Tables
      <3> QED BY <3>1, <3>2
    <2> QED BY <1>1, <2>1, <2>2
  <1>4. ASSUME NEW b \in Cycles, NEW n \in Messages, Recorded(b, n)
        PROVE  artifacts[m] = 0 \/ Excused(m)
    <2>1. CASE \/ cycles[b].table # "live" \/ m \notin cycles[b].item.ids
               \/ cycles[b].left # {n}
      <3>1. ~Held("live", m)
        <4>1. ASSUME NEW d \in Cycles, cycles[d].table = "live", m \in Holds(d)
              PROVE  m \in Holds(d)'
          <5>1. CASE d = b
            BY <1>4, <2>1, <4>1, <5>1, RecordedFacts DEF Holds
          <5>2. CASE d # b
            BY <1>4, <4>1, <5>2, RecordedFacts
          <5> QED BY <5>1, <5>2
        <4> QED BY <1>4, <4>1, RecordedFacts DEF Held
      <3>2. rows'["live"][m] = rows["live"][m]
        BY <1>4, <3>1, RecordedFacts DEF Held, Tables
      <3> QED BY <1>1, <3>1, <3>2
    <2>2. CASE cycles[b].table = "live" /\ m \in cycles[b].item.ids /\ cycles[b].left = {n}
      <3>1. rows'["live"][m].status = cycles[b].outcome
        <4>1. CASE m = n
          BY <1>4, <2>2, <4>1, RecordedFacts
        <4>2. CASE m # n
          BY <1>4, <2>2, <4>2, RecordedFacts DEF Recorded, OutcomeWritten, Tables
        <4> QED BY <4>1, <4>2
      <3>2. cycles[b].outcome = "error"
        BY <1>4, <3>1, RecordedFacts
      <3>3. m \in Unworked(b)
        BY <2>2, <3>2 DEF Unworked, Holds
      <3> QED BY <2>2, <3>3 DEF Fresh, UnworkedIsFresh
    <2> QED BY <2>1, <2>2
  <1> QED BY <1>2, <1>3, <1>4, StepKinds

\* What a cycle that ends has made for a message it held is settled, or not
\* recorded.
LEMMA StoppedStep ==
  ASSUME Typed, Claims, Fresh, NEW W \in SUBSET Cycles, Stopped(W),
         NEW c \in W, cycles[c].table = "live", NEW m \in Holds(c),
         rows["live"][m].status \notin Settled
  PROVE  artifacts[m] = 0 \/ Excused(m)'
  <1>1. m \in Messages /\ c \in Cycles /\ artifacts[m] \in Nat
    BY HoldsTyped DEF HoldsMessages, Typed, TypeOK
  <1>2. CASE rows["live"][m].status = "running"
    <2>1. m \in StillRunning("live", Messages)
      BY <1>1, <1>2 DEF StillRunning
    <2> QED BY <1>1, <2>1 DEF Stopped, Excused
  <1>3. CASE m \in expired
    BY <1>3 DEF Stopped, Excused
  <1>4. CASE m \in Written(c) /\ m \notin expired
    <2>1. CASE cycles[c].outcome = "error"
      <3>1. m \in Unworked(c)
        BY <2>1 DEF Unworked
      <3> QED BY <1>1, <3>1 DEF Fresh, UnworkedIsFresh, Stopped, Excused
    <2>2. CASE cycles[c].outcome # "error"
      <3>1. cycles[c].step = "record" /\ m \in cycles[c].item.ids \ cycles[c].left
        BY <1>4, <2>2 DEF Written
      <3>2. rows["live"][m].status = cycles[c].outcome
        BY <1>1, <3>1 DEF Claims, OutcomeWritten
      <3> QED BY <1>1, <2>2, <3>2, CycleTypes
    <2> QED BY <2>1, <2>2
  <1> QED BY <1>1, <1>2, <1>3, <1>4 DEF Claims, Marked

LEMMA SpoiledStep ==
  ASSUME Typed, Fresh, Quiet, NEW c \in Cycles, Spoiled(c)
  PROVE  Fresh'
  <1>1. UNCHANGED artifacts /\ \A m \in Messages : Excused(m) => Excused(m)'
    BY DEF Spoiled, Quiet, Excused
  <1>2. ArtifactOnce'
    BY DEF Spoiled, Quiet, Fresh, ArtifactOnce
  <1>3. UnheldIsFresh'
    <2>1. \A m \in Messages : Held("live", m) => Held("live", m)'
      BY DEF Quiet, Held
    <2> QED BY <1>1, <2>1 DEF Quiet, Fresh, UnheldIsFresh, Tables
  <1>4. UnworkedIsFresh'
    <2> SUFFICES ASSUME NEW d \in Cycles, cycles'[d].table = "live", NEW m \in Unworked(d)'
                 PROVE  artifacts'[m] = 0 \/ Excused(m)'
      BY DEF UnworkedIsFresh
    <2>1. m \in Holds(d) /\ m \in Messages /\ artifacts[m] \in Nat
      BY HoldsTyped DEF Quiet, Unworked, Holds, HoldsMessages, Typed, TypeOK
    <2>2. CASE d # c
      BY <1>1, <2>1, <2>2 DEF Spoiled, Unworked, Holds, Fresh, UnworkedIsFresh
    <2>3. CASE d = c /\ m \in ClaimedIds(cycles[c].todo)
      <3>1. cycles[c].table = "live"
        BY <2>3 DEF Spoiled
      <3> QED BY <1>1, <2>1, <2>3, <3>1, UnworkedHeld DEF Fresh, UnworkedIsFresh
    <2>4. CASE d = c /\ m \in cycles[c].item.ids
      BY <1>1, <2>1, <2>4 DEF Spoiled, Excused
    <2> QED BY <2>1, <2>2, <2>3, <2>4 DEF Holds
  <1> QED BY <1>2, <1>3, <1>4 DEF Fresh

LEMMA FreshStep ==
  ASSUME Typed, Claims, Fresh, [Next]_vars
  PROVE  Fresh'
  <1>1. CASE Quiet /\ \E c \in Cycles : Spent(c)
    BY <1>1, SpentStep DEF Claims
  <1>4. CASE Quiet /\ \E c \in Cycles : Spoiled(c)
    BY <1>4, SpoiledStep
  <1>2. ASSUME NEW W \in SUBSET Cycles, Stopped(W)
        PROVE  Fresh'
    <2>1. UNCHANGED artifacts /\ \A m \in Messages : Excused(m) => Excused(m)'
      BY <1>2 DEF Stopped, Excused
    <2>2. ArtifactOnce'
      BY <1>2, <2>1 DEF Stopped, Fresh, ArtifactOnce
    <2>3. UnworkedIsFresh'
      <3> SUFFICES ASSUME NEW c \in Cycles, cycles'[c].table = "live", NEW m \in Unworked(c)'
                   PROVE  artifacts'[m] = 0 \/ Excused(m)'
        BY DEF UnworkedIsFresh
      <3>1. c \notin W /\ cycles'[c] = cycles[c]
        BY <1>2, StoppedFacts DEF Unworked, Holds
      <3>2. m \in Unworked(c) /\ m \in Messages
        BY <3>1, HoldsTyped DEF Unworked, Holds, HoldsMessages
      <3> QED BY <2>1, <3>1, <3>2 DEF Fresh, UnworkedIsFresh
    <2>4. UnheldIsFresh'
      <3> SUFFICES ASSUME NEW m \in Messages,
                          rows["live"][m].status \notin Settled, ~Held("live", m)'
                   PROVE  artifacts[m] = 0 \/ Excused(m)'
        BY <1>2 DEF Stopped, UnheldIsFresh
      <3>1. CASE \E c \in W : cycles[c].table = "live" /\ m \in Holds(c)
        BY <1>2, <3>1, StoppedStep
      <3>2. CASE ~\E c \in W : cycles[c].table = "live" /\ m \in Holds(c)
        <4>1. ~Held("live", m)
          BY <1>2, <3>2, StoppedFacts DEF Held
        <4> QED BY <2>1, <4>1 DEF Fresh, UnheldIsFresh
      <3> QED BY <3>1, <3>2
    <2> QED BY <2>2, <2>3, <2>4 DEF Fresh
  <1>3. CASE Plain /\ \A W \in SUBSET Cycles : ~Stopped(W)
    <2>0. UNCHANGED <<artifacts, broken>>
      BY <1>3 DEF Plain
    <2>1. \A m \in Messages : Excused(m) => Excused(m)'
      BY <2>0, SettledStep DEF Excused
    <2>2. ArtifactOnce'
      BY <2>0, SettledStep DEF Fresh, ArtifactOnce
    <2>3. UnheldIsFresh'
      BY <1>3, <2>0, <2>1, UnheldStep DEF UnheldIsFresh, Claims
    <2>4. ASSUME NEW c \in Cycles, cycles'[c].table = "live", NEW m \in Unworked(c)'
          PROVE  artifacts'[m] = 0 \/ Excused(m)'
      <3>1. CASE \A b \in Cycles : Began(b) => m \notin Holds(b)'
        <4>1. m \in Unworked(c) /\ cycles[c].table = "live"
          BY <1>3, <2>4, <3>1, UnworkedStep
        <4>2. m \in Messages
          BY <4>1, HoldsTyped DEF Unworked, Holds, HoldsMessages
        <4> QED BY <2>0, <2>1, <4>1, <4>2 DEF Fresh, UnworkedIsFresh
      <3>2. ASSUME NEW b \in Cycles, Began(b), m \in Holds(b)'
            PROVE  artifacts'[m] = 0 \/ Excused(m)'
        <4>1. m \in OpenIn(config.mode) /\ m \in Messages /\ m \in Holds(c)'
          BY <3>2 DEF Began, OpenIn, Unworked, Holds, Typed, TypeOK
        <4>2. CASE config.mode = "live"
          <5>1. rows["live"][m].status \notin Settled
            BY <4>1, <4>2 DEF OpenIn, Recovered, Open, Stale, Settled
          <5>2. CASE ~Held("live", m)
            BY <2>0, <2>1, <4>1, <5>1, <5>2 DEF Fresh, UnheldIsFresh
          <5>3. CASE Held("live", m) /\ Stale(rows["live"][m])
            BY <3>2, <4>1, <4>2, <5>3 DEF Began, Excused
          <5>4. CASE Held("live", m) /\ ~Stale(rows["live"][m])
            <6>1. Open(rows["live"][m])
              BY <4>1, <4>2, <5>4 DEF OpenIn, Recovered
            <6>2. m \in expired
              BY <3>2, <5>4, <6>1, BeganFacts DEF Claims, Marked, Held, Open
            <6> QED BY <2>1, <4>1, <6>2 DEF Excused
          <5> QED BY <5>2, <5>3, <5>4
        <4>3. CASE config.mode # "live"
          <5>1. c # b
            BY <2>4, <3>2, <4>3 DEF Began
          <5>2. m \in Unworked(c) /\ cycles[c].table = "live"
            BY <2>4, <3>2, <5>1 DEF Began, Unworked, Holds
          <5> QED BY <2>0, <2>1, <4>1, <5>2 DEF Fresh, UnworkedIsFresh
        <4> QED BY <4>2, <4>3
      <3> QED BY <3>1, <3>2
    <2> QED BY <2>2, <2>3, <2>4 DEF Fresh, UnworkedIsFresh
  <1> QED BY <1>1, <1>2, <1>3, <1>4, ArtifactKinds

LEMMA AlwaysFresh == Spec => []Fresh
  <1>1. Init => Fresh
    <2> SUFFICES ASSUME Init PROVE Fresh
      OBVIOUS
    <2>1. \A m \in Messages : artifacts[m] = 0
      BY DEF Init
    <2>2. \A c \in Cycles : Unworked(c) \subseteq Messages
      BY InitTyped, HoldsTyped DEF HoldsMessages, Unworked, Holds
    <2> QED BY <2>1, <2>2 DEF Fresh, ArtifactOnce, UnheldIsFresh, UnworkedIsFresh
  <1>2. Typed /\ Claims /\ Fresh /\ [Next]_vars => Fresh'
    BY FreshStep
  <1> QED BY <1>1, <1>2, AlwaysTyped, AlwaysClaims, PTL DEF Spec

\* The cycles make at most one approval, draft or execution for a message, but
\* for a slow cycle that lost its claim and for a failure or death between the
\* first and the end of its record.
THEOREM OneArtifactPerMessage == Spec => []ArtifactOnce
  <1>1. Fresh => ArtifactOnce
    BY DEF Fresh
  <1> QED BY <1>1, AlwaysFresh, PTL

-----------------------------------------------------------------------------
(* The ledger.                                                              *)

QueueInv == Typed /\ Claims /\ Fresh

\* The ledger's entry of m.
Same(m) ==
  /\ LedgerState(m)' = LedgerState(m)
  /\ LedgerHolders(m)' = LedgerHolders(m)
  /\ LedgerMade(m)' = LedgerMade(m)

LEMMA AllSame ==
  ASSUME \A m \in Messages : Same(m)
  PROVE  UNCHANGED Ledger!ledger
  BY DEF Same, Ledger!ledger

\* What the entry of a message is made of.
LEMMA SameEntry ==
  ASSUME NEW m \in Messages,
         Lapsed(m)' <=> Lapsed(m),
         Lapsed(m) \/ /\ LiveHolders(m)' = LiveHolders(m)
                      /\ artifacts'[m] = artifacts[m]
                      /\ \/ LiveHolders(m) # {}
                         \/ rows'["live"][m].status \in Settled <=> rows["live"][m].status \in Settled
  PROVE  Same(m)
  <1>1. CASE Lapsed(m)
    BY <1>1 DEF Same, LedgerState, LedgerHolders, LedgerMade
  <1>2. CASE ~Lapsed(m)
    <2>1. Held("live", m) <=> LiveHolders(m) # {}
      BY DEF Held, LiveHolders
    <2>2. Held("live", m)' <=> LiveHolders(m)' # {}
      BY DEF Held, LiveHolders
    <2> QED BY <1>2, <2>1, <2>2 DEF Same, LedgerState, LedgerHolders, LedgerMade
  <1> QED BY <1>1, <1>2

\* The entry of a message that a live cycle holds, and has not lapsed.
LEMMA HeldEntry ==
  ASSUME QueueInv, NEW c \in Cycles, cycles[c].table = "live", NEW m \in Holds(c), ~Lapsed(m)
  PROVE  /\ m \in Messages
         /\ m \notin Written(c) => rows["live"][m].status = "running"
         /\ LiveHolders(m) = {c}
         /\ LedgerState(m) = "claimed" /\ LedgerHolders(m) = {c} /\ LedgerMade(m) = artifacts[m]
         /\ m \in Unworked(c) => artifacts[m] = 0
  <1>1. m \in Messages
    BY HoldsTyped DEF QueueInv, HoldsMessages
  <1>2. m \notin Written(c) => rows["live"][m].status = "running"
    BY DEF QueueInv, Claims, Marked, Lapsed
  <1>5. LiveHolders(m) = {c}
    BY DEF QueueInv, Claims, ClaimedByOne, Lapsed, LiveHolders
  <1>3. Held("live", m)
    BY DEF Held
  <1>4. m \in Unworked(c) => artifacts[m] = 0
    BY DEF QueueInv, Fresh, UnworkedIsFresh, Excused, Lapsed
  <1> QED BY <1>1, <1>2, <1>3, <1>4, <1>5 DEF LedgerState, LedgerHolders, LedgerMade

LEMMA LedgerQuiet ==
  ASSUME QueueInv, Quiet, UNCHANGED <<artifacts, broken>>
  PROVE  UNCHANGED Ledger!ledger
  <1>1. ASSUME NEW m \in Messages PROVE Same(m)
    <2>1. Lapsed(m)' <=> Lapsed(m)
      BY DEF Quiet, Lapsed
    <2>2. LiveHolders(m)' = LiveHolders(m)
      BY DEF Quiet, LiveHolders
    <2>3. rows'["live"][m].status = rows["live"][m].status
      BY DEF Quiet, Tables
    <2> QED BY <2>1, <2>2, <2>3, SameEntry
  <1> QED BY <1>1, AllSame

LEMMA LedgerSpent ==
  ASSUME QueueInv, Quiet, NEW c \in Cycles, Spent(c)
  PROVE  Ledger!LedgerNext \/ UNCHANGED Ledger!ledger
  <1>1. PICK m \in Messages : m = cycles[c].item.newest /\ m \in cycles[c].item.ids
    BY NewestTyped DEF Spent, QueueInv
  <1>2. m \in Holds(c) /\ m \in Unworked(c) /\ cycles[c].table = "live"
    BY <1>1 DEF Spent, Holds, Unworked
  <1>3. /\ artifacts \in [Messages -> Nat]
        /\ artifacts'[m] = artifacts[m] + 1
        /\ \A n \in Messages \ {m} : artifacts'[n] = artifacts[n]
    BY <1>1 DEF Spent, MadeFor, QueueInv, Typed, TypeOK
  <1>4. broken' = broken \/ broken' = broken \cup {m}
    BY <1>1 DEF Spent
  <1>5. ASSUME NEW n \in Messages
        PROVE  /\ LiveHolders(n)' = LiveHolders(n)
               /\ rows'["live"][n].status = rows["live"][n].status
               /\ Lapsed(n) => Lapsed(n)'
               /\ n # m \/ broken' = broken => (Lapsed(n)' <=> Lapsed(n))
    BY <1>4 DEF Quiet, LiveHolders, Tables, Lapsed
  <1>6. \A n \in Messages \ {m} : Same(n)
    BY <1>3, <1>5, SameEntry
  <1>7. CASE Lapsed(m)
    <2>1. Same(m)
      BY <1>5, <1>7, SameEntry
    <2> QED BY <1>6, <2>1, AllSame
  <1>8. CASE ~Lapsed(m)
    <2>1. /\ LedgerState(m) = "claimed" /\ LedgerHolders(m) = {c}
          /\ LedgerMade(m) = 0 /\ artifacts[m] = 0
      BY <1>2, <1>8, HeldEntry
    <2>2. CASE broken' = broken
      <3>1. Held("live", m)' /\ Held("live", m)
        BY <1>2, <1>5 DEF Held, LiveHolders
      <3>2. /\ LedgerState(m)' = LedgerState(m) /\ LedgerHolders(m)' = LedgerHolders(m)
            /\ LedgerMade(m)' = 1
        BY <1>3, <1>5, <1>8, <2>1, <2>2, <3>1 DEF LedgerState, LedgerHolders, LedgerMade
      <3>3. Ledger!Make(c, m)
        BY <1>6, <2>1, <3>2 DEF Ledger!Make, Ledger!Claims, Same
      <3> QED BY <3>3 DEF Ledger!LedgerNext
    <2>3. CASE broken' = broken \cup {m}
      <3>1. Lapsed(m)'
        BY <2>3 DEF Lapsed
      <3>2. LedgerState(m)' = "lapsed" /\ LedgerHolders(m)' = {} /\ LedgerMade(m)' = 0
        BY <3>1 DEF LedgerState, LedgerHolders, LedgerMade
      <3>3. Ledger!InVain(c, {m})
        BY <1>6, <2>1, <3>2 DEF Ledger!InVain, Ledger!Claims, Ledger!Leave, Same
      <3> QED BY <3>3 DEF Ledger!LedgerNext
    <2> QED BY <1>4, <2>2, <2>3
  <1> QED BY <1>7, <1>8

LEMMA LedgerSpoiled ==
  ASSUME QueueInv, Quiet, NEW c \in Cycles, Spoiled(c)
  PROVE  Ledger!LedgerNext \/ UNCHANGED Ledger!ledger
  <1>1. CASE cycles[c].table # "live"
    BY <1>1, LedgerQuiet DEF Spoiled
  <1>2. CASE cycles[c].table = "live"
    <2>1. PICK S \in SUBSET Messages :
            S = {m \in Messages : m \in cycles[c].item.ids /\ artifacts[m] > 0 /\ ~Lapsed(m)}
      OBVIOUS
    <2>2. ASSUME NEW m \in Messages
          PROVE  /\ LiveHolders(m)' = LiveHolders(m)
                 /\ rows'["live"][m].status = rows["live"][m].status
                 /\ artifacts'[m] = artifacts[m]
                 /\ Lapsed(m)' <=> Lapsed(m) \/ m \in S
      BY <1>2, <2>1 DEF Spoiled, Quiet, LiveHolders, Tables, Lapsed
    <2>3. \A m \in Messages \ S : Same(m)
      BY <2>2, SameEntry
    <2>4. ASSUME NEW m \in S
          PROVE  /\ m \in Ledger!Claims(c)
                 /\ LedgerState(m)' = "lapsed" /\ LedgerHolders(m)' = {} /\ LedgerMade(m)' = 0
      <3>1. m \in Messages /\ m \in Holds(c) /\ ~Lapsed(m) /\ Lapsed(m)'
        BY <2>1, <2>2 DEF Holds
      <3>2. LedgerHolders(m) = {c}
        BY <1>2, <3>1, HeldEntry
      <3> QED BY <3>1, <3>2 DEF Ledger!Claims, LedgerState, LedgerHolders, LedgerMade
    <2>5. Ledger!InVain(c, S)
      BY <2>3, <2>4 DEF Ledger!InVain, Ledger!Leave, Same
    <2> QED BY <2>5 DEF Ledger!LedgerNext
  <1> QED BY <1>1, <1>2

LEMMA LedgerStopped ==
  ASSUME QueueInv, NEW W \in SUBSET Cycles, Stopped(W)
  PROVE  Ledger!LedgerNext
  <1>1. PICK mine \in SUBSET Messages :
          mine = {m \in Messages :
                    ~Lapsed(m) /\ \E c \in W : cycles[c].table = "live" /\ m \in Holds(c)}
    OBVIOUS
  <1>2. PICK done \in SUBSET Messages :
          done = {m \in mine : rows["live"][m].status \in Settled}
    BY <1>1
  <1>3. \A m \in Messages : artifacts[m] \in Nat /\ artifacts'[m] = artifacts[m] /\ rows' = rows
    BY DEF QueueInv, Typed, TypeOK, Stopped
  <1>4. ASSUME NEW m \in mine
        PROVE  /\ LedgerState(m) = "claimed" /\ LedgerMade(m) = artifacts[m]
               /\ \E w \in W : m \in Ledger!Claims(w)
               /\ LiveHolders(m)' = {} /\ ~Held("live", m)'
               /\ ~Lapsed(m)
               /\ Lapsed(m)' => artifacts[m] > 0 /\ m \notin done
               /\ m \notin done /\ artifacts[m] > 0 => Lapsed(m)'
    <2>1. PICK c \in W : cycles[c].table = "live" /\ m \in Holds(c)
      BY <1>1
    <2>2. c \in Cycles /\ m \in Messages /\ ~Lapsed(m)
      BY <1>1
    <2>3. /\ LiveHolders(m) = {c} /\ LedgerState(m) = "claimed"
          /\ LedgerHolders(m) = {c} /\ LedgerMade(m) = artifacts[m]
      BY <2>1, <2>2, HeldEntry
    <2>4. \A d \in Cycles : ~(cycles'[d].table = "live" /\ m \in Holds(d)')
      <3>1. TAKE d \in Cycles
      <3>2. CASE d \in W
        BY <3>2, StoppedFacts
      <3>3. CASE d \notin W
        BY <2>1, <2>3, <3>3, StoppedFacts DEF LiveHolders
      <3> QED BY <3>2, <3>3
    <2>5. Lapsed(m)' => artifacts[m] > 0 /\ m \notin done
      BY <1>2, <2>2 DEF Lapsed, Stopped, StillRunning, Settled
    <2>6. ASSUME m \notin done, artifacts[m] > 0
          PROVE  Lapsed(m)'
      <3>1. rows["live"][m].status \notin Settled
        BY <1>2, <2>6
      <3>2. artifacts[m] = 0 \/ Excused(m)'
        BY <2>1, <3>1, StoppedStep DEF QueueInv
      <3> QED BY <1>3, <2>2, <2>6, <3>2 DEF Excused, Lapsed
    <2>7. m \in Ledger!Claims(c)
      BY <2>2, <2>3 DEF Ledger!Claims
    <2>8. LiveHolders(m)' = {} /\ ~Held("live", m)'
      BY <2>4 DEF LiveHolders, Held
    <2> QED BY <2>2, <2>3, <2>5, <2>6, <2>7, <2>8
  <1>5. ASSUME NEW m \in Messages \ mine
        PROVE  Same(m) /\ \A w \in W : m \notin Ledger!Claims(w)
    <2>1. Lapsed(m)' <=> Lapsed(m)
      BY <1>1, <1>5 DEF Lapsed, Stopped
    <2>2. ASSUME ~Lapsed(m)
          PROVE  LiveHolders(m)' = LiveHolders(m) /\ \A w \in W : w \notin LiveHolders(m)
      <3>1. \A d \in W : ~(cycles[d].table = "live" /\ m \in Holds(d))
        BY <1>1, <1>5, <2>2
      <3>2. \A d \in Cycles : cycles'[d].table = "live" /\ m \in Holds(d)'
                              <=> cycles[d].table = "live" /\ m \in Holds(d)
        <4>1. TAKE d \in Cycles
        <4>2. CASE d \in W
          BY <3>1, <4>2, StoppedFacts
        <4>3. CASE d \notin W
          BY <4>3, StoppedFacts
        <4> QED BY <4>2, <4>3
      <3> QED BY <3>1, <3>2 DEF LiveHolders
    <2>3. Same(m)
      BY <1>3, <2>1, <2>2, SameEntry
    <2> QED BY <2>2, <2>3 DEF Ledger!Claims, LedgerHolders
  <1>6. UNION {Ledger!Claims(w) : w \in W} = mine
    <2>1. \A w \in W : Ledger!Claims(w) \subseteq Messages
      BY DEF Ledger!Claims
    <2> QED BY <1>4, <1>5, <2>1
  <1>7. ASSUME NEW m \in done
        PROVE  LedgerState(m)' = "settled" /\ LedgerHolders(m)' = {}
               /\ LedgerMade(m)' = LedgerMade(m)
    <2>1. m \in mine /\ m \in Messages /\ rows'["live"][m].status \in Settled
      BY <1>2, <1>3
    <2> QED BY <1>3, <1>4, <2>1 DEF LedgerState, LedgerHolders, LedgerMade
  <1>8. ASSUME NEW m \in mine \ done
        PROVE  /\ LedgerState(m)' = IF LedgerMade(m) > 0 THEN "lapsed" ELSE "open"
               /\ LedgerHolders(m)' = {} /\ LedgerMade(m)' = 0
    <2>1. m \in mine /\ m \in Messages /\ rows'["live"][m].status \notin Settled
      BY <1>2, <1>3
    <2> QED BY <1>3, <1>4, <2>1 DEF LedgerState, LedgerHolders, LedgerMade
  <1>9. done \subseteq mine
    BY <1>2
  <1>10. \A m \in Messages :
           /\ LedgerState(m)' = IF m \in done THEN "settled"
                                ELSE IF m \notin mine \ done THEN LedgerState(m)
                                ELSE IF LedgerMade(m) > 0 THEN "lapsed" ELSE "open"
           /\ LedgerHolders(m)' = IF m \in (mine \ done) \cup done THEN {} ELSE LedgerHolders(m)
           /\ LedgerMade(m)' = IF m \in mine \ done THEN 0 ELSE LedgerMade(m)
    <2>1. TAKE m \in Messages
    <2>2. CASE m \in done
      BY <1>7, <2>2
    <2>3. CASE m \in mine \ done
      BY <1>8, <2>3
    <2>4. CASE m \notin mine
      BY <1>5, <1>9, <2>4 DEF Same
    <2> QED BY <2>2, <2>3, <2>4
  <1>11. Ledger!Stop(W, done)
    BY <1>6, <1>9, <1>10 DEF Ledger!Stop
  <1> QED BY <1>11 DEF Ledger!LedgerNext

LEMMA LedgerRecorded ==
  ASSUME QueueInv, NEW b \in Cycles, NEW m \in Messages, Recorded(b, m),
         UNCHANGED <<artifacts, broken>>
  PROVE  Ledger!LedgerNext \/ UNCHANGED Ledger!ledger
  <1>1. /\ m \in cycles[b].item.ids /\ cycles[b].item.ids \subseteq Holds(b)
        /\ \A d \in Cycles : cycles'[d].table = cycles[d].table
        /\ \A d \in Cycles \ {b} : Holds(d)' = Holds(d)
        /\ cycles[b].outcome \in {"error"} \cup Settled
    BY RecordedFacts DEF QueueInv, Holds
  <1>2. \A n \in Messages : (Lapsed(n)' <=> Lapsed(n)) /\ artifacts'[n] = artifacts[n]
    BY DEF Recorded, Lapsed
  <1>3. CASE ~(cycles[b].table = "live" /\ cycles[b].left = {m})
    <2>1. ASSUME NEW n \in Messages PROVE Same(n)
      <3>1. LiveHolders(n)' = LiveHolders(n)
        BY <1>1, <1>3, RecordedFacts DEF LiveHolders, QueueInv
      <3>2. CASE cycles[b].table = "live" /\ n = m
        <4>1. LiveHolders(n) # {}
          BY <1>1, <3>2 DEF LiveHolders
        <4> QED BY <1>2, <3>1, <4>1, SameEntry
      <3>3. CASE ~(cycles[b].table = "live" /\ n = m)
        <4>1. rows'["live"][n] = rows["live"][n]
          BY <3>3, RecordedFacts DEF QueueInv, Tables
        <4> QED BY <1>2, <3>1, <4>1, SameEntry
      <3> QED BY <3>2, <3>3
    <2> QED BY <2>1, AllSame
  <1>4. CASE cycles[b].table = "live" /\ cycles[b].left = {m}
    <2>1. PICK S \in SUBSET Messages :
            S = {n \in Messages : n \in cycles[b].item.ids /\ ~Lapsed(n)}
      OBVIOUS
    <2>2. /\ Holds(b)' = ClaimedIds(cycles[b].todo)
          /\ cycles[b].item.ids \cap ClaimedIds(cycles[b].todo) = {}
          /\ Holds(b) = ClaimedIds(cycles[b].todo) \cup cycles[b].item.ids
      BY <1>4, RecordedFacts DEF QueueInv, Holds
    <2>3. ASSUME NEW n \in S
          PROVE  /\ n \in Ledger!Claims(b)
                 /\ LedgerHolders(n)' = {} /\ LedgerMade(n)' = LedgerMade(n)
                 /\ LedgerState(n)' = IF cycles[b].outcome \in Settled THEN "settled" ELSE "open"
                 /\ cycles[b].outcome = "error" => LedgerMade(n) = 0
      <3>1. n \in Messages /\ n \in cycles[b].item.ids /\ n \in Holds(b) /\ ~Lapsed(n) /\ ~Lapsed(n)'
        BY <1>1, <1>2, <2>1
      <3>2. /\ LiveHolders(n) = {b} /\ LedgerHolders(n) = {b} /\ LedgerMade(n) = artifacts[n]
            /\ n \in Unworked(b) => artifacts[n] = 0
        BY <1>4, <3>1, HeldEntry
      <3>3. \A d \in Cycles : ~(cycles'[d].table = "live" /\ n \in Holds(d)')
        BY <1>1, <2>2, <3>1, <3>2 DEF LiveHolders
      <3>4. LiveHolders(n)' = {} /\ ~Held("live", n)'
        BY <3>3 DEF LiveHolders, Held
      <3>5. rows'["live"][n].status = cycles[b].outcome
        <4>1. CASE n = m
          BY <1>4, <4>1, RecordedFacts DEF QueueInv
        <4>2. CASE n # m
          <5>1. n \in cycles[b].item.ids \ cycles[b].left /\ cycles[b].step = "record"
            BY <1>4, <3>1, <4>2 DEF Recorded
          <5>2. rows["live"][n].status = cycles[b].outcome
            BY <1>4, <5>1 DEF QueueInv, Claims, OutcomeWritten
          <5>3. rows'["live"][n] = rows["live"][n]
            BY <4>2, <3>1, RecordedFacts DEF QueueInv, Tables
          <5> QED BY <5>2, <5>3
        <4> QED BY <4>1, <4>2
      <3>6. cycles[b].outcome = "error" => n \in Unworked(b)
        BY <3>1 DEF Unworked
      <3>7. n \in Ledger!Claims(b)
        BY <3>1, <3>2 DEF Ledger!Claims
      <3> QED BY <1>2, <3>1, <3>2, <3>4, <3>5, <3>6, <3>7
              DEF LedgerState, LedgerHolders, LedgerMade
    <2>4. ASSUME NEW n \in Messages \ S
          PROVE  Same(n)
      <3>1. CASE Lapsed(n)
        BY <1>2, <3>1, SameEntry
      <3>2. CASE ~Lapsed(n)
        <4>1. n \notin cycles[b].item.ids /\ n # m
          BY <1>1, <2>1, <2>4, <3>2
        <4>2. rows'["live"][n] = rows["live"][n]
          BY <4>1, RecordedFacts DEF QueueInv, Tables
        <4>3. \A d \in Cycles : n \in Holds(d)' <=> n \in Holds(d)
          BY <1>1, <2>2, <4>1
        <4>4. LiveHolders(n)' = LiveHolders(n)
          BY <1>1, <4>3 DEF LiveHolders
        <4> QED BY <1>2, <4>2, <4>4, SameEntry
      <3> QED BY <3>1, <3>2
    <2>5. CASE cycles[b].outcome \in Settled
      <3>1. Ledger!Settle(b, S)
        BY <2>3, <2>4, <2>5 DEF Ledger!Settle, Ledger!Leave, Same
      <3> QED BY <3>1 DEF Ledger!LedgerNext
    <2>6. CASE cycles[b].outcome = "error"
      <3>1. cycles[b].outcome \notin Settled
        BY <2>6 DEF Settled
      <3>2. Ledger!GiveBack(b, S)
        BY <2>3, <2>4, <2>6, <3>1 DEF Ledger!GiveBack, Ledger!Leave, Same
      <3> QED BY <3>2 DEF Ledger!LedgerNext
    <2> QED BY <1>1, <2>5, <2>6
  <1> QED BY <1>3, <1>4

LEMMA LedgerBegan ==
  ASSUME QueueInv, NEW b \in Cycles, Began(b), UNCHANGED <<artifacts, broken>>
  PROVE  Ledger!LedgerNext \/ UNCHANGED Ledger!ledger
  <1>1. rows \in [Tables -> [Messages -> Row]] /\ config.mode \in Tables
    BY QueueAssumption DEF QueueInv, Typed, TypeOK
  <1>2. /\ \A c \in Cycles \ {b} : cycles'[c] = cycles[c] /\ Holds(c)' = Holds(c)
        /\ \A c \in Cycles : Written(c) = {}
    BY BeganFacts DEF QueueInv
  <1>3. CASE config.mode # "live"
    <2>1. ASSUME NEW m \in Messages PROVE Same(m)
      <3>1. rows'["live"] = rows["live"] /\ expired' = expired
        BY <1>1, <1>3 DEF Began, Tables
      <3>2. LiveHolders(m)' = LiveHolders(m)
        BY <1>2, <1>3 DEF Began, LiveHolders
      <3> QED BY <3>1, <3>2, SameEntry DEF Lapsed
    <2> QED BY <2>1, AllSame
  <1>4. CASE config.mode = "live"
    <2>1. PICK slow \in SUBSET Messages :
            slow = {m \in Messages : ~Lapsed(m) /\ Held("live", m) /\ Stale(rows["live"][m])}
      OBVIOUS
    <2>2. PICK batch \in SUBSET Messages :
            batch = {m \in Messages : ~Lapsed(m) /\ ~Held("live", m) /\ m \in Holds(b)'}
      OBVIOUS
    <2>3. /\ \A m \in Messages : Lapsed(m)' <=> Lapsed(m) \/ m \in slow
          /\ Holds(b) = {}
          /\ cycles'[b].table = "live"
      BY <1>4, <2>1 DEF Began, Lapsed
    <2>4. ASSUME NEW m \in slow
          PROVE  /\ LedgerState(m) = "claimed"
                 /\ LedgerState(m)' = "lapsed" /\ LedgerHolders(m)' = {} /\ LedgerMade(m)' = 0
      BY <2>1, <2>3 DEF LedgerState, LedgerHolders, LedgerMade, Stale, Settled
    <2>5. ASSUME NEW m \in batch
          PROVE  /\ LedgerState(m) = "open"
                 /\ LedgerState(m)' = "claimed" /\ LedgerHolders(m)' = {b}
                 /\ LedgerMade(m)' = LedgerMade(m)
      <3>1. m \in Messages /\ ~Lapsed(m) /\ ~Held("live", m) /\ m \in Holds(b)' /\ m \notin slow
        BY <2>1, <2>2
      <3>2. rows["live"][m].status \notin Settled
        BY <1>4, <3>1 DEF Began, OpenIn, Recovered, Open, Stale, Settled
      <3>3. rows'["live"][m].status = "running"
        BY <1>1, <1>4, <3>1 DEF Began
      <3>4. Held("live", m)' /\ LiveHolders(m)' = {b}
        BY <1>2, <2>3, <3>1 DEF Held, LiveHolders
      <3>5. ~Lapsed(m)'
        BY <2>3, <3>1
      <3> QED BY <3>1, <3>2, <3>3, <3>4, <3>5 DEF LedgerState, LedgerHolders, LedgerMade, Settled
    <2>6. ASSUME NEW m \in Messages, m \notin slow, m \notin batch
          PROVE  Same(m)
      <3>1. Lapsed(m)' <=> Lapsed(m)
        BY <2>3, <2>6
      <3>2. ASSUME ~Lapsed(m)
            PROVE  m \notin Holds(b)'
        <4>1. CASE Held("live", m)
          <5>1. rows["live"][m].status = "running" /\ ~Stale(rows["live"][m])
            BY <1>2, <2>1, <2>6, <3>2, <4>1, HeldEntry DEF Held
          <5> QED BY <1>4, <5>1 DEF Began, OpenIn, Recovered, Open
        <4>2. CASE ~Held("live", m)
          BY <2>2, <2>6, <3>2, <4>2
        <4> QED BY <4>1, <4>2
      <3>3. ASSUME ~Lapsed(m)
            PROVE  /\ rows'["live"][m].status \in Settled <=> rows["live"][m].status \in Settled
                   /\ LiveHolders(m)' = LiveHolders(m)
        <4>1. m \notin Holds(b)'
          BY <3>2, <3>3
        <4>2. rows'["live"][m] = Recovered(rows["live"][m])
          BY <1>1, <1>4, <4>1 DEF Began
        <4>3. rows'["live"][m].status \in Settled <=> rows["live"][m].status \in Settled
          <5>1. CASE Stale(rows["live"][m])
            BY <1>4, <4>2, <5>1, RowTypes DEF Stale, Settled, QueueInv, Typed, Tables
          <5>2. CASE ~Stale(rows["live"][m])
            BY <4>2, <5>2 DEF Recovered
          <5> QED BY <5>1, <5>2
        <4>4. LiveHolders(m)' = LiveHolders(m)
          BY <1>2, <2>3, <4>1 DEF LiveHolders
        <4> QED BY <4>3, <4>4
      <3> QED BY <3>1, <3>3, SameEntry
    <2>7. Ledger!Claims(b) = {}
      BY <2>3 DEF Ledger!Claims, LedgerHolders, LiveHolders
    <2>8. batch \cap slow = {}
      BY <2>1, <2>2
    <2>9. batch \subseteq Ledger!In("open") /\ slow \subseteq Ledger!In("claimed")
      BY <2>4, <2>5 DEF Ledger!In
    <2>10. Ledger!Claim(b, batch, slow)
      BY <2>4, <2>5, <2>6, <2>7, <2>8, <2>9 DEF Ledger!Claim, Same
    <2> QED BY <2>10 DEF Ledger!LedgerNext
  <1> QED BY <1>3, <1>4

LEMMA LedgerStep ==
  ASSUME QueueInv, [Next]_vars
  PROVE  Ledger!LedgerNext \/ UNCHANGED Ledger!ledger
  <1>1. CASE Quiet /\ \E c \in Cycles : Spent(c)
    BY <1>1, LedgerSpent
  <1>2. CASE Quiet /\ \E c \in Cycles : Spoiled(c)
    BY <1>2, LedgerSpoiled
  <1>3. CASE \E W \in SUBSET Cycles : Stopped(W)
    BY <1>3, LedgerStopped
  <1>4. CASE Plain
    <2>1. UNCHANGED <<artifacts, broken>>
      BY <1>4 DEF Plain
    <2> QED BY <1>3, <2>1, LedgerQuiet, LedgerRecorded, LedgerBegan, StepKinds DEF QueueInv
  <1> QED BY <1>1, <1>2, <1>3, <1>4, ArtifactKinds DEF QueueInv

LEMMA LedgerBegins == Init => Ledger!LedgerInit
  <1> SUFFICES ASSUME Init, NEW m \in Messages
               PROVE  LedgerState(m) = "open" /\ LedgerHolders(m) = {} /\ LedgerMade(m) = 0
    BY DEF Ledger!LedgerInit
  <1>1. ~Lapsed(m) /\ artifacts[m] = 0 /\ rows["live"][m].status \notin Settled
    BY DEF Init, Lapsed, Settled, Tables
  <1>2. \A c \in Cycles : Holds(c) = {}
    <2> SUFFICES ASSUME NEW c \in Cycles PROVE Holds(c) = {}
      OBVIOUS
    <2>1. cycles[c] = Resting
      BY DEF Init
    <2>2. cycles[c].step = "idle" /\ cycles[c].todo = {} /\ cycles[c].item = NoItem
      BY <2>1, RestingOK
    <2> QED BY <2>2 DEF Holds, ClaimedIds, NoItem
  <1> QED BY <1>1, <1>2 DEF LedgerState, LedgerHolders, LedgerMade, LiveHolders, Held

\* Seen through its live table, the queue is the ledger: each message is worked
\* on by one cycle at a time and settled once with at most one artifact, or given
\* back with none, whatever overlaps, fails, is aborted or dies; only a slow cycle
\* that lost its claim and an artifact that was not recorded end the promise.
THEOREM QueueImplementsLedger == Spec => ImplementsLedger
  <1>1. QueueInv /\ [Next]_vars => [Ledger!LedgerNext]_(Ledger!ledger)
    BY LedgerStep
  <1>2. Spec => []QueueInv
    BY AlwaysTyped, AlwaysClaims, AlwaysFresh, PTL DEF QueueInv
  <1> QED BY <1>1, <1>2, LedgerBegins, PTL DEF Spec, ImplementsLedger, Ledger!LedgerSpec
=============================================================================
