--------------------------- MODULE Statistics_proofs ---------------------------
(***************************************************************************)
(* Cancels and statistics for any workers, users and number of orders, under *)
(* the scheduling of Statistics.  A cancel is final for two reasons: one     *)
(* thread's messages stay in order in the queue, so nothing behind a cancel  *)
(* is its order, and the ids of the WebSocket loop are not those of the      *)
(* workers.  The figures are right because what the engine thread still has  *)
(* to record of an order is accounted for in StatsInv, and the last snapshot *)
(* is taken when nothing is left.                                           *)
(***************************************************************************)
EXTENDS Statistics, Data_proofs

Messages ==
    [id : [prefix : {"WS", "O"}, n : Nat], by : Producers, user : Users \cup Workers,
     kind : {"order", "cancel"}]

FlowTypeOK ==
    /\ made \in [Producers -> Nat]
    /\ queue \in [Producers -> Seq(Messages)]

(* Ids are the producer's own, and were given out by it. *)
IdsOfProducer ==
    \A p \in Producers : \A i \in 1..Len(queue[p]) :
        /\ queue[p][i].id.prefix = IF p = Loop THEN "WS" ELSE "O"
        /\ queue[p][i].id.n <= made[p]
        /\ queue[p][i].kind = "cancel" => p = Loop

(* No order follows its own cancel. *)
CancelsBehind ==
    \A i, j \in 1..Len(queue[Loop]) :
        i < j /\ queue[Loop][i].kind = "cancel" /\ queue[Loop][j].kind = "order"
            => queue[Loop][i].id # queue[Loop][j].id

(* A cancel that was taken is of an order that is not in the queue any more. *)
CancelledGone ==
    \A c \in cancelled :
        /\ c.id.prefix = "WS" /\ c.id.n \in 0..made[Loop]
        /\ \A i \in 1..Len(queue[Loop]) :
            queue[Loop][i].kind = "order" => queue[Loop][i].id # c.id

FlowInv == FlowTypeOK /\ IdsOfProducer /\ CancelsBehind /\ CancelledGone /\ CancelIsFinal

-----------------------------------------------------------------------------

LEMMA FlowInitially == Init => FlowInv
<1> SUFFICES ASSUME Init  PROVE  FlowInv
  OBVIOUS
<1>1. \A p \in Producers : queue[p] = <<>> /\ Len(queue[p]) = 0
  BY DEF Init
<1>2. Loop \in Producers
  BY DEF Producers
<1>3. FlowTypeOK
  BY DEF Init, FlowTypeOK
<1>4. IdsOfProducer /\ CancelsBehind
  BY <1>1, <1>2 DEF IdsOfProducer, CancelsBehind
<1>5. CancelledGone /\ CancelIsFinal
  BY DEF Init, CancelledGone, CancelIsFinal
<1> QED  BY <1>3, <1>4, <1>5 DEF FlowInv

(* What enqueueing adds is at the end, and numbered at most made'. *)
LEMMA PlaceKeeps ==
  ASSUME FlowInv, NEW p \in Producers, NEW user \in UsersOf(p), Place(p, user)
  PROVE  FlowInv'
<1> DEFINE m == Message(p, made[p] + 1, user, "order")
<1> USE DEF FlowInv, FlowTypeOK
<1>1. m \in Messages /\ m.id.n = made[p] + 1 /\ m.kind = "order"
      /\ m.id.prefix = IF p = Loop THEN "WS" ELSE "O"
  BY DEF Message, IdOf, Messages, UsersOf, Producers
<1>2. /\ made' = [made EXCEPT ![p] = @ + 1]
      /\ queue' = [queue EXCEPT ![p] = Append(@, m)]
      /\ open' = open /\ cancelled' = cancelled
  BY DEF Place, Enqueue
<1> HIDE DEF m
<1>3. FlowTypeOK'
  BY <1>1, <1>2
<1>4. \A q \in Producers : made[q] \in Nat /\ made'[q] \in Nat /\ made[q] <= made'[q]
      /\ (q = p => made'[q] = made[q] + 1)
  BY <1>2
<1>5. ASSUME NEW q \in Producers, NEW i \in 1..Len(queue'[q])
      PROVE  \/ i \in 1..Len(queue[q]) /\ queue'[q][i] = queue[q][i]
             \/ q = p /\ i = Len(queue[q]) + 1 /\ queue'[q][i] = m
  <2>1. queue[q] \in Seq(Messages)
    OBVIOUS
  <2>2. CASE q = p
    <3>1. queue'[q] = Append(queue[q], m)
      BY <1>2, <2>2
    <3>2. Len(queue'[q]) = Len(queue[q]) + 1
      BY <2>1, <3>1
    <3> QED  BY <2>1, <2>2, <3>1, <3>2, <1>1
  <2>3. CASE q # p
    BY <1>2, <2>3
  <2> QED  BY <2>2, <2>3
<1>6. IdsOfProducer'
  <2> SUFFICES ASSUME NEW q \in Producers, NEW i \in 1..Len(queue'[q])
               PROVE  /\ queue'[q][i].id.prefix = IF q = Loop THEN "WS" ELSE "O"
                      /\ queue'[q][i].id.n <= made'[q]
                      /\ queue'[q][i].kind = "cancel" => q = Loop
    BY DEF IdsOfProducer
  <2>1. CASE i \in 1..Len(queue[q]) /\ queue'[q][i] = queue[q][i]
    <3>1. queue[q][i] \in Messages
      BY <2>1
    <3>2. queue[q][i].id.n \in Nat
      BY <3>1 DEF Messages
    <3>3. queue[q][i].id.n <= made'[q]
      BY <1>4, <2>1, <3>2 DEF IdsOfProducer
    <3> QED  BY <2>1, <3>3 DEF IdsOfProducer
  <2>2. CASE q = p /\ queue'[q][i] = m
    BY <1>1, <1>4, <2>2
  <2> QED  BY <1>5, <2>1, <2>2
<1>7. Loop \in Producers
  BY DEF Producers
<1>8. ASSUME NEW i \in 1..Len(queue[Loop])  PROVE  queue[Loop][i].id.n <= made[Loop]
  BY <1>7 DEF IdsOfProducer
<1>9. CancelsBehind'
  <2> SUFFICES ASSUME NEW i \in 1..Len(queue'[Loop]), NEW j \in 1..Len(queue'[Loop]), i < j,
                      queue'[Loop][i].kind = "cancel", queue'[Loop][j].kind = "order"
               PROVE  queue'[Loop][i].id # queue'[Loop][j].id
    BY DEF CancelsBehind
  <2>1. Len(queue[Loop]) \in Nat
    BY <1>7
  <2>2. i \in 1..Len(queue[Loop]) /\ queue'[Loop][i] = queue[Loop][i]
    BY <1>5, <1>7, <1>1, <2>1
  <2>3. CASE j \in 1..Len(queue[Loop]) /\ queue'[Loop][j] = queue[Loop][j]
    BY <2>2, <2>3 DEF CancelsBehind
  <2>4. CASE p = Loop /\ queue'[Loop][j] = m
    <3>1. queue[Loop][i].id.n <= made[Loop] /\ m.id.n = made[Loop] + 1 /\ made[Loop] \in Nat
      BY <1>1, <1>8, <1>4, <1>7, <2>2, <2>4
    <3>2. queue[Loop][i] \in Messages
      BY <1>7, <2>2
    <3> QED  BY <2>2, <2>4, <3>1, <3>2 DEF Messages
  <2> QED  BY <1>5, <1>7, <2>3, <2>4
<1>10. CancelledGone'
  <2> SUFFICES ASSUME NEW c \in cancelled
               PROVE  /\ c.id.prefix = "WS" /\ c.id.n \in 0..made'[Loop]
                      /\ \A i \in 1..Len(queue'[Loop]) :
                          queue'[Loop][i].kind = "order" => queue'[Loop][i].id # c.id
    BY <1>2 DEF CancelledGone
  <2>1. c.id.prefix = "WS" /\ c.id.n \in 0..made[Loop]
    BY DEF CancelledGone
  <2>2. ASSUME NEW i \in 1..Len(queue'[Loop]), queue'[Loop][i].kind = "order"
        PROVE  queue'[Loop][i].id # c.id
    <3>1. CASE i \in 1..Len(queue[Loop]) /\ queue'[Loop][i] = queue[Loop][i]
      BY <2>2, <3>1 DEF CancelledGone
    <3>2. CASE p = Loop /\ queue'[Loop][i] = m
      BY <1>1, <1>4, <1>7, <2>1, <3>2
    <3> QED  BY <1>5, <1>7, <3>1, <3>2
  <2> QED  BY <1>4, <1>7, <2>1, <2>2
<1>11. CancelIsFinal'
  BY <1>2 DEF CancelIsFinal
<1> QED  BY <1>3, <1>6, <1>9, <1>10, <1>11

(* A cancel is of an order placed before, and goes behind it. *)
LEMMA RequestCancelKeeps ==
  ASSUME FlowInv, NEW user \in Users, NEW n \in 1..MaxOrders, RequestCancel(user, n)
  PROVE  FlowInv'
<1> DEFINE m == Message(Loop, n, user, "cancel")
<1> USE DEF FlowInv, FlowTypeOK
<1>1. Loop \in Producers /\ made[Loop] \in Nat /\ queue[Loop] \in Seq(Messages)
  BY DEF Producers
<1>2. n \in 1..made[Loop] /\ n \in Nat
  BY <1>1 DEF RequestCancel
<1>3. m \in Messages /\ m.kind = "cancel" /\ m.id.prefix = "WS" /\ m.id.n = n
  BY <1>1, <1>2 DEF Message, IdOf, Messages
<1>4. /\ queue' = [queue EXCEPT ![Loop] = Append(@, m)]
      /\ made' = made /\ open' = open /\ cancelled' = cancelled
  BY DEF RequestCancel, Enqueue
<1> HIDE DEF m
<1>5. FlowTypeOK'
  <2>1. Append(queue[Loop], m) \in Seq(Messages)
    BY <1>1, <1>3
  <2> QED  BY <1>4, <2>1
<1>6. /\ Len(queue'[Loop]) = Len(queue[Loop]) + 1
      /\ \A i \in 1..Len(queue[Loop]) : queue'[Loop][i] = queue[Loop][i]
      /\ queue'[Loop][Len(queue[Loop]) + 1] = m
  BY <1>1, <1>3, <1>4
<1>7. \A q \in Producers : q # Loop => queue'[q] = queue[q]
  BY <1>4
<1>8. \A i \in 1..Len(queue'[Loop]) :
        \/ i \in 1..Len(queue[Loop]) /\ queue'[Loop][i] = queue[Loop][i]
        \/ i = Len(queue[Loop]) + 1 /\ queue'[Loop][i] = m
  <2> SUFFICES ASSUME NEW i \in 1..Len(queue'[Loop])
               PROVE  \/ i \in 1..Len(queue[Loop]) /\ queue'[Loop][i] = queue[Loop][i]
                      \/ i = Len(queue[Loop]) + 1 /\ queue'[Loop][i] = m
    OBVIOUS
  <2>1. Len(queue[Loop]) \in Nat
    BY <1>1
  <2>2. i \in 1..Len(queue[Loop]) \/ i = Len(queue[Loop]) + 1
    BY <1>6, <2>1
  <2>3. CASE i \in 1..Len(queue[Loop])
    BY <1>6, <2>3
  <2>4. CASE i = Len(queue[Loop]) + 1
    BY <1>6, <2>4
  <2> QED  BY <2>2, <2>3, <2>4
<1>9. IdsOfProducer'
  <2> SUFFICES ASSUME NEW q \in Producers, NEW i \in 1..Len(queue'[q])
               PROVE  /\ queue'[q][i].id.prefix = IF q = Loop THEN "WS" ELSE "O"
                      /\ queue'[q][i].id.n <= made[q]
                      /\ queue'[q][i].kind = "cancel" => q = Loop
    BY <1>4 DEF IdsOfProducer
  <2>1. CASE q # Loop
    BY <1>7, <2>1 DEF IdsOfProducer
  <2>2. CASE q = Loop
    <3>1. CASE i \in 1..Len(queue[Loop]) /\ queue'[Loop][i] = queue[Loop][i]
      BY <1>1, <2>2, <3>1 DEF IdsOfProducer
    <3>2. CASE queue'[Loop][i] = m
      BY <1>2, <1>3, <2>2, <3>2
    <3> QED  BY <1>8, <2>2, <3>1, <3>2
  <2> QED  BY <2>1, <2>2
<1>10. CancelsBehind'
  <2> SUFFICES ASSUME NEW i \in 1..Len(queue'[Loop]), NEW j \in 1..Len(queue'[Loop]), i < j,
                      queue'[Loop][i].kind = "cancel", queue'[Loop][j].kind = "order"
               PROVE  queue'[Loop][i].id # queue'[Loop][j].id
    BY DEF CancelsBehind
  <2>1. j \in 1..Len(queue[Loop]) /\ queue'[Loop][j] = queue[Loop][j]
    BY <1>3, <1>8
  <2>2. i \in 1..Len(queue[Loop]) /\ queue'[Loop][i] = queue[Loop][i]
    BY <1>1, <1>8, <2>1
  <2> QED  BY <2>1, <2>2 DEF CancelsBehind
<1>11. CancelledGone'
  BY <1>3, <1>4, <1>8 DEF CancelledGone
<1>12. CancelIsFinal'
  BY <1>4 DEF CancelIsFinal
<1> QED  BY <1>5, <1>9, <1>10, <1>11, <1>12

(* What is left of a queue after its first message was taken. *)
LEMMA TakingKeeps ==
  ASSUME FlowInv, NEW p \in Producers, queue[p] # <<>>, made' = made,
         queue' = [queue EXCEPT ![p] = Tail(@)]
  PROVE  /\ FlowTypeOK' /\ IdsOfProducer' /\ CancelsBehind'
         /\ Head(queue[p]) = queue[p][1] /\ 1 \in 1..Len(queue[p])
         /\ \A i \in 1..Len(queue'[Loop]) :
               \E k \in 1..Len(queue[Loop]) :
                 queue'[Loop][i] = queue[Loop][k] /\ (p = Loop => k = i + 1)
<1> USE DEF FlowInv, FlowTypeOK
<1>1. queue[p] \in Seq(Messages) /\ Loop \in Producers
  BY DEF Producers
<1>2. /\ Tail(queue[p]) \in Seq(Messages) /\ Len(Tail(queue[p])) = Len(queue[p]) - 1
      /\ \A i \in 1..Len(queue[p]) - 1 : Tail(queue[p])[i] = queue[p][i + 1]
      /\ Len(queue[p]) \in Nat \ {0} /\ Head(queue[p]) = queue[p][1]
  BY <1>1
<1>3. queue'[p] = Tail(queue[p]) /\ \A q \in Producers : q # p => queue'[q] = queue[q]
  OBVIOUS
<1>4. FlowTypeOK'
  BY <1>2
<1>5. ASSUME NEW q \in Producers, NEW i \in 1..Len(queue'[q])
      PROVE  \/ q # p /\ i \in 1..Len(queue[q]) /\ queue'[q][i] = queue[q][i]
             \/ q = p /\ i + 1 \in 1..Len(queue[q]) /\ queue'[q][i] = queue[q][i + 1]
  BY <1>2, <1>3
<1>6. IdsOfProducer'
  <2> SUFFICES ASSUME NEW q \in Producers, NEW i \in 1..Len(queue'[q])
               PROVE  /\ queue'[q][i].id.prefix = IF q = Loop THEN "WS" ELSE "O"
                      /\ queue'[q][i].id.n <= made[q]
                      /\ queue'[q][i].kind = "cancel" => q = Loop
    BY DEF IdsOfProducer
  <2> QED  BY <1>5 DEF IdsOfProducer
<1>7. CancelsBehind'
  <2> SUFFICES ASSUME NEW i \in 1..Len(queue'[Loop]), NEW j \in 1..Len(queue'[Loop]), i < j,
                      queue'[Loop][i].kind = "cancel", queue'[Loop][j].kind = "order"
               PROVE  queue'[Loop][i].id # queue'[Loop][j].id
    BY DEF CancelsBehind
  <2>1. CASE Loop # p
    BY <1>1, <1>5, <2>1 DEF CancelsBehind
  <2>2. CASE Loop = p
    <3>1. i + 1 < j + 1 /\ i + 1 \in 1..Len(queue[Loop]) /\ j + 1 \in 1..Len(queue[Loop])
      BY <1>1, <1>5, <2>2
    <3>2. queue'[Loop][i] = queue[Loop][i + 1] /\ queue'[Loop][j] = queue[Loop][j + 1]
      BY <1>1, <1>5, <2>2
    <3> QED  BY <3>1, <3>2 DEF CancelsBehind
  <2> QED  BY <2>1, <2>2
<1>8. \A i \in 1..Len(queue'[Loop]) :
        \E k \in 1..Len(queue[Loop]) :
          queue'[Loop][i] = queue[Loop][k] /\ (p = Loop => k = i + 1)
  BY <1>1, <1>5
<1>9. 1 \in 1..Len(queue[p])
  BY <1>2
<1> QED  BY <1>2, <1>4, <1>6, <1>7, <1>8, <1>9

(* The order at the front was not cancelled before: it is the first of its   *)
(* queue, and a cancel that was taken left none of its orders there.        *)
LEMMA TakeOrderKeeps ==
  ASSUME FlowInv, NEW p \in Producers, TakeRejected(p) \/ TakeAccepted(p)
  PROVE  FlowInv'
<1> DEFINE o == Head(queue[p])
<1>1. /\ queue[p] # <<>> /\ o.kind = "order"
      /\ queue' = [queue EXCEPT ![p] = Tail(@)] /\ made' = made /\ cancelled' = cancelled
      /\ open' \subseteq open \cup {o}
  BY DEF TakeRejected, TakeAccepted, Takes
<1>2. /\ FlowTypeOK' /\ IdsOfProducer' /\ CancelsBehind'
      /\ o = queue[p][1] /\ 1 \in 1..Len(queue[p])
      /\ \A i \in 1..Len(queue'[Loop]) :
            \E k \in 1..Len(queue[Loop]) : queue'[Loop][i] = queue[Loop][k]
  BY <1>1, TakingKeeps
<1> HIDE DEF o
<1>3. CancelledGone'
  BY <1>1, <1>2 DEF FlowInv, CancelledGone
<1>4. ASSUME NEW c \in cancelled  PROVE  c.id # o.id
  <2>1. CASE p = Loop
    BY <1>1, <1>2, <2>1 DEF FlowInv, CancelledGone
  <2>2. CASE p # Loop
    BY <1>2, <2>2 DEF FlowInv, CancelledGone, IdsOfProducer
  <2> QED  BY <2>1, <2>2
<1>5. CancelIsFinal'
  <2> SUFFICES ASSUME NEW x \in open', [id |-> x.id, user |-> x.user] \in cancelled
               PROVE  FALSE
    BY <1>1 DEF CancelIsFinal
  <2>1. CASE x \in open
    BY <2>1 DEF FlowInv, CancelIsFinal
  <2>2. CASE x = o
    BY <1>4, <2>2
  <2> QED  BY <1>1, <2>1, <2>2
<1> QED  BY <1>2, <1>3, <1>5 DEF FlowInv

(* A cancel takes its order out, and nothing behind it is that order. *)
LEMMA TakeCancelKeeps ==
  ASSUME FlowInv, NEW p \in Producers, TakeCancel(p)
  PROVE  FlowInv'
<1> DEFINE m == Head(queue[p])
<1>1. /\ queue[p] # <<>> /\ m.kind = "cancel"
      /\ queue' = [queue EXCEPT ![p] = Tail(@)] /\ made' = made
      /\ open' = {o \in open : o.id # m.id \/ o.user # m.user}
      /\ cancelled' = cancelled \cup {[id |-> m.id, user |-> m.user]}
  BY DEF TakeCancel
<1>2. /\ FlowTypeOK' /\ IdsOfProducer' /\ CancelsBehind'
      /\ m = queue[p][1] /\ 1 \in 1..Len(queue[p])
      /\ \A i \in 1..Len(queue'[Loop]) :
            \E k \in 1..Len(queue[Loop]) :
              queue'[Loop][i] = queue[Loop][k] /\ (p = Loop => k = i + 1)
  BY <1>1, TakingKeeps
<1> HIDE DEF m
<1>3. p = Loop /\ m.id.prefix = "WS" /\ m.id.n \in 0..made[Loop]
  <2>1. m \in Messages /\ made[Loop] \in Nat
    BY <1>2 DEF FlowInv, FlowTypeOK, Producers
  <2> QED  BY <1>1, <1>2, <2>1 DEF FlowInv, IdsOfProducer, Messages
<1>4. ASSUME NEW i \in 1..Len(queue'[Loop]), queue'[Loop][i].kind = "order"
      PROVE  queue'[Loop][i].id # m.id
  <2>1. PICK k \in 1..Len(queue[Loop]) : queue'[Loop][i] = queue[Loop][k] /\ k = i + 1
    BY <1>2, <1>3
  <2>2. 1 < k /\ 1 \in 1..Len(queue[Loop]) /\ m = queue[Loop][1]
    BY <1>2, <1>3, <2>1
  <2>3. queue[Loop][1].kind = "cancel" /\ queue[Loop][k].kind = "order"
    BY <1>1, <1>4, <2>1, <2>2
  <2>4. CancelsBehind
    BY DEF FlowInv
  <2>5. queue[Loop][1].id # queue[Loop][k].id
    BY <2>2, <2>3, <2>4 DEF CancelsBehind
  <2> QED  BY <2>1, <2>2, <2>5
<1>5. CancelledGone'
  <2> SUFFICES ASSUME NEW c \in cancelled'
               PROVE  /\ c.id.prefix = "WS" /\ c.id.n \in 0..made[Loop]
                      /\ \A i \in 1..Len(queue'[Loop]) :
                          queue'[Loop][i].kind = "order" => queue'[Loop][i].id # c.id
    BY <1>1 DEF CancelledGone
  <2>1. CASE c \in cancelled
    BY <1>2, <2>1 DEF FlowInv, CancelledGone
  <2>2. CASE c = [id |-> m.id, user |-> m.user]
    <3>1. c.id = m.id
      BY <2>2
    <3> QED  BY <1>3, <1>4, <3>1
  <2> QED  BY <1>1, <2>1, <2>2
<1>6. CancelIsFinal'
  BY <1>1 DEF FlowInv, CancelIsFinal
<1> QED  BY <1>2, <1>5, <1>6 DEF FlowInv

-----------------------------------------------------------------------------

LEMMA FlowUnchanged ==
  ASSUME FlowInv, UNCHANGED vars  PROVE  FlowInv'
<1>1. made' = made /\ queue' = queue /\ open' = open /\ cancelled' = cancelled
  BY DEF vars
<1>2. FlowTypeOK'
  BY <1>1 DEF FlowInv, FlowTypeOK
<1>3. IdsOfProducer'
  BY <1>1 DEF FlowInv, IdsOfProducer
<1>4. CancelsBehind'
  BY <1>1 DEF FlowInv, CancelsBehind
<1>5. CancelledGone'
  BY <1>1 DEF FlowInv, CancelledGone
<1>6. CancelIsFinal'
  BY <1>1 DEF FlowInv, CancelIsFinal
<1> QED  BY <1>2, <1>3, <1>4, <1>5, <1>6 DEF FlowInv

LEMMA FlowPreserved ==
  ASSUME FlowInv, [StatsNext]_allVars  PROVE  FlowInv'
<1>1. ASSUME NEW p \in Producers, Client(p)  PROVE  FlowInv'
  BY <1>1, PlaceKeeps, RequestCancelKeeps DEF Client
<1>2. ASSUME NEW p \in Producers, AcceptOrder(p) \/ RejectOrder(p)  PROVE  FlowInv'
  BY <1>2, TakeOrderKeeps DEF AcceptOrder, RejectOrder
<1>3. ASSUME NEW p \in Producers, CancelOrder(p)  PROVE  FlowInv'
  BY <1>3, TakeCancelKeeps DEF CancelOrder
<1>4. CASE Record \/ ReadField \/ FinishSnapshot
  BY <1>4, FlowUnchanged DEF Record, ReadField, FinishSnapshot
<1>5. CASE Signal \/ LoopReturns \/ \E t \in Threads : Leave(t)
  BY <1>5, FlowUnchanged DEF Signal, LoopReturns, Leave
<1>6. CASE UNCHANGED allVars
  BY <1>6, FlowUnchanged DEF allVars
<1> QED  BY <1>1, <1>2, <1>3, <1>4, <1>5, <1>6 DEF StatsNext

(* Once a client's cancel was taken its order does not rest and never will,  *)
(* for any number of workers, clients and orders.                           *)
THEOREM CancelsAreFinal == StatsSpec => []CancelIsFinal
<1>1. StatsInit => FlowInv
  BY FlowInitially DEF StatsInit
<1>2. FlowInv /\ [StatsNext]_allVars => FlowInv'
  BY FlowPreserved
<1>3. FlowInv => CancelIsFinal
  BY DEF FlowInv
<1> QED  BY <1>1, <1>2, <1>3, PTL DEF StatsSpec
-----------------------------------------------------------------------------
(* The counters.  What is counted of an order is what was recorded of it and *)
(* what the engine thread has still to record; and once the engine thread    *)
(* has left its loop nothing is left to record, so that the last snapshot     *)
(* reads what stays.                                                        *)

FieldNames == {"orders", "trades", "rejections", "samples", "reasons"}

StatsTypeOK ==
    /\ stat \in [FieldNames -> Nat] /\ work \in Seq(FieldNames)
    /\ snap \in Seq(Nat) /\ Len(snap) \in 0..5
    /\ last \in Seq(Nat) /\ Len(last) = 5
    /\ reported \in Nat /\ seq \in Nat

(* Every order that was numbered is accepted or rejected, with a reason. *)
OrdersCounted ==
    /\ Recorded("orders") + Recorded("rejections") = seq
    /\ Recorded("reasons") = Recorded("rejections")

(* Each thread leaves its loop with nothing begun.  A snapshot that is begun *)
(* once the stats thread has left is main's, and the counters are at rest.   *)
LeftIdle ==
    /\ "engine" \in stopped => work = <<>>
    /\ "stats" \in stopped /\ snap # <<>> => "engine" \in stopped
    /\ "main" \in stopped => "engine" \in stopped /\ "stats" \in stopped /\ snap = <<>>

LastReadsRest ==
    "stats" \in stopped =>
        /\ Len(snap) >= 1 => snap[1] = stat["orders"]
        /\ Len(snap) >= 2 => snap[2] = stat["trades"]
        /\ Len(snap) >= 3 => snap[3] = stat["rejections"]
        /\ Len(snap) >= 4 => stat["samples"] = 0
        /\ Len(snap) >= 5 => snap[5] = stat["reasons"]

StatsInv ==
    /\ StatsTypeOK /\ OrdersCounted /\ LeftIdle /\ LastReadsRest
    /\ SamplesReportedOnce /\ FinalSnapshotComplete

LEMMA FieldFacts ==
  ASSUME NEW s
  PROVE  /\ Field(s, "orders") = s[1] /\ Field(s, "trades") = s[2]
         /\ Field(s, "rejections") = s[3] /\ Field(s, "samples") = s[4]
         /\ Field(s, "reasons") = s[5]
<1>1. DOMAIN Fields = 1..5
  BY DEF Fields
<1>2. /\ Fields[1] = "orders" /\ Fields[2] = "trades" /\ Fields[3] = "rejections"
      /\ Fields[4] = "samples" /\ Fields[5] = "reasons"
  BY DEF Fields
<1>3. \A i \in 1..5 : i = 1 \/ i = 2 \/ i = 3 \/ i = 4 \/ i = 5
  OBVIOUS
<1> QED  BY <1>1, <1>2, <1>3 DEF Field

LEMMA NextField ==
  ASSUME StatsTypeOK, Len(snap) < Len(Fields)
  PROVE  /\ Len(snap) + 1 \in 1..5 /\ Fields[Len(snap) + 1] \in FieldNames
         /\ Fields[Len(snap) + 1] = "samples" <=> Len(snap) = 3
         /\ Len(snap) = 0 => Fields[Len(snap) + 1] = "orders"
         /\ Len(snap) = 1 => Fields[Len(snap) + 1] = "trades"
         /\ Len(snap) = 2 => Fields[Len(snap) + 1] = "rejections"
         /\ Len(snap) = 4 => Fields[Len(snap) + 1] = "reasons"
<1>1. PICK k \in 0..4 : k = Len(snap)
  <2>1. Len(Fields) = 5
    BY DEF Fields
  <2>2. PICK k \in 0..5 : k = Len(snap)
    BY DEF StatsTypeOK
  <2>3. k < 5
    BY <2>1, <2>2
  <2> QED  BY <2>2, <2>3
<1>2. /\ Fields[1] = "orders" /\ Fields[2] = "trades" /\ Fields[3] = "rejections"
      /\ Fields[4] = "samples" /\ Fields[5] = "reasons"
  BY DEF Fields
<1>3. /\ k + 1 \in 1..5 /\ Fields[k + 1] \in FieldNames
      /\ Fields[k + 1] = "samples" <=> k = 3
      /\ k = 0 => Fields[k + 1] = "orders"
      /\ k = 1 => Fields[k + 1] = "trades"
      /\ k = 2 => Fields[k + 1] = "rejections"
      /\ k = 4 => Fields[k + 1] = "reasons"
  <2>1. k = 0 \/ k = 1 \/ k = 2 \/ k = 3 \/ k = 4
    OBVIOUS
  <2>2. CASE k = 0
    BY <1>2, <2>2 DEF FieldNames
  <2>3. CASE k = 1
    BY <1>2, <2>3 DEF FieldNames
  <2>4. CASE k = 2
    BY <1>2, <2>4 DEF FieldNames
  <2>5. CASE k = 3
    BY <1>2, <2>5 DEF FieldNames
  <2>6. CASE k = 4
    BY <1>2, <2>6 DEF FieldNames
  <2> QED  BY <2>1, <2>2, <2>3, <2>4, <2>5, <2>6
<1> QED  BY <1>1, <1>3

(* What the recording of an order adds up to. *)
LEMMA RecordsOf ==
  ASSUME NEW n \in Nat
  PROVE  LET w == <<"orders">> \o RecordTrades(n)
         IN  /\ w \in Seq(FieldNames)
             /\ Cardinality(Places(w, "orders")) = 1
             /\ Cardinality(Places(w, "rejections")) = 0
             /\ Cardinality(Places(w, "reasons")) = 0
             /\ Cardinality(Places(w, "trades")) = Cardinality(Places(w, "samples"))
<1> DEFINE r == RecordTrades(n)
           w == <<"orders">> \o r
<1>1. /\ r \in Seq(FieldNames) /\ Len(r) = 2 * n /\ 2 * n \in Nat
      /\ \A i \in 1..(2 * n) : r[i] = IF i % 2 = 1 THEN "trades" ELSE "samples"
  BY DEF RecordTrades, FieldNames
<1>2. /\ w \in Seq(FieldNames) /\ DOMAIN w = 1..(2 * n + 1) /\ w[1] = "orders"
      /\ \A i \in 1..(2 * n) : w[i + 1] = r[i]
  BY <1>1 DEF FieldNames
<1>3. \A j \in 1..(2 * n + 1) :
        w[j] = IF j = 1 THEN "orders" ELSE IF j % 2 = 0 THEN "trades" ELSE "samples"
  <2> TAKE j \in 1..(2 * n + 1)
  <2>1. CASE j = 1
    BY <1>2, <2>1
  <2>2. CASE j # 1
    <3>1. j - 1 \in 1..(2 * n) /\ w[j] = r[j - 1]
      <4>1. j - 1 \in 1..(2 * n) /\ (j - 1) + 1 = j
        BY <1>1, <2>2
      <4> QED  BY <1>2, <4>1
    <3>2. (j - 1) % 2 = 1 <=> j % 2 = 0
      OBVIOUS
    <3> QED  BY <1>1, <2>2, <3>1, <3>2
  <2> QED  BY <2>1, <2>2
<1> HIDE DEF w, r
<1>4. Places(w, "orders") = {1} /\ Places(w, "rejections") = {} /\ Places(w, "reasons") = {}
  <2>1. 1 \in 1..(2 * n + 1)
    BY <1>1
  <2>2. \A j \in 1..(2 * n + 1) : /\ w[j] = "orders" <=> j = 1
                                /\ w[j] # "rejections" /\ w[j] # "reasons"
    BY <1>3
  <2> QED  BY <1>2, <2>1, <2>2 DEF Places
<1>5. Cardinality(Places(w, "trades")) = Cardinality(Places(w, "samples"))
  <2> DEFINE T == Places(w, "samples")
             U == Places(w, "trades")
             b == [j \in U |-> j + 1]
  <2>1. \A j \in U : j \in Nat /\ j + 1 \in T
    <3> SUFFICES ASSUME NEW j \in U  PROVE j \in Nat /\ j + 1 \in T
      OBVIOUS
    <3>1. j \in 1..(2 * n + 1) /\ j # 1 /\ j % 2 = 0
      BY <1>2, <1>3 DEF Places
    <3>2. j + 1 \in 1..(2 * n + 1) /\ (j + 1) % 2 = 1 /\ j + 1 # 1
      BY <1>1, <3>1
    <3> QED  BY <1>2, <1>3, <3>1, <3>2 DEF Places
  <2>2. \A j \in T : j - 1 \in U /\ j \in Nat
    <3> SUFFICES ASSUME NEW j \in T  PROVE j - 1 \in U /\ j \in Nat
      OBVIOUS
    <3>1. j \in 1..(2 * n + 1) /\ j # 1 /\ j % 2 # 0
      BY <1>2, <1>3 DEF Places
    <3>2. j - 1 \in 1..(2 * n + 1) /\ (j - 1) % 2 = 0 /\ j - 1 # 1
      BY <1>1, <3>1
    <3> QED  BY <1>2, <1>3, <3>1, <3>2 DEF Places
  <2>3. b \in [U -> T] /\ \A j \in U : b[j] = j + 1
    BY <2>1
  <2>4. \A x, y \in U : b[x] = b[y] => x = y
    BY <2>1, <2>3
  <2>5. \A t \in T : \E x \in U : b[x] = t
    BY <2>2, <2>3
  <2>6. IsFiniteSet(T)
    BY <1>2, PlacesFinite
  <2> HIDE DEF T, U, b
  <2>7. Cardinality(U) = Cardinality(T)
    BY <2>3, <2>4, <2>5, <2>6, SameSize
  <2> QED  BY <2>7 DEF T, U
<1>6. /\ Cardinality(Places(w, "orders")) = 1 /\ Cardinality(Places(w, "rejections")) = 0
      /\ Cardinality(Places(w, "reasons")) = 0
  BY <1>4, FS_EmptySet, FS_Singleton
<1> QED  BY <1>2, <1>5, <1>6 DEF w, r

LEMMA RecordedIs ==
  ASSUME StatsTypeOK, NEW f \in FieldNames
  PROVE  /\ Recorded(f) = stat[f] + Cardinality(Places(work, f))
         /\ Cardinality(Places(work, f)) \in Nat /\ stat[f] \in Nat
         /\ work = <<>> => Cardinality(Places(work, f)) = 0
BY PlacesFinite DEF Recorded, Places, StatsTypeOK

(* What the engine thread takes on when it takes an order. *)
LEMMA TakeKeeps ==
  ASSUME StatsInv, NEW p \in Producers, AcceptOrder(p) \/ RejectOrder(p)
  PROVE  StatsInv'
<1> USE DEF StatsInv
<1>1. /\ work = <<>> /\ "engine" \notin stopped /\ seq' = seq + 1
      /\ stat' = stat /\ snap' = snap /\ last' = last /\ reported' = reported
      /\ stopped' = stopped
  BY DEF AcceptOrder, RejectOrder, EngineIdle, Engine, TakeAccepted, TakeRejected, Takes
<1>2. /\ work' \in Seq(FieldNames)
      /\ Cardinality(Places(work', "orders")) + Cardinality(Places(work', "rejections")) = 1
      /\ Cardinality(Places(work', "reasons")) = Cardinality(Places(work', "rejections"))
      /\ Cardinality(Places(work', "trades")) = Cardinality(Places(work', "samples"))
  <2>1. CASE AcceptOrder(p)
    <3>1. PICK n \in Nat : work' = <<"orders">> \o RecordTrades(n)
      BY <2>1, StatisticsAssumption DEF AcceptOrder
    <3> QED  BY <3>1, RecordsOf
  <2>2. CASE RejectOrder(p)
    <3>1. work' = <<"rejections", "reasons">>
      BY <2>2 DEF RejectOrder
    <3>2. /\ Places(work', "rejections") = {1} /\ Places(work', "reasons") = {2}
          /\ Places(work', "orders") = {} /\ Places(work', "trades") = {}
          /\ Places(work', "samples") = {}
      BY <3>1 DEF Places
    <3>3. work' \in Seq(FieldNames)
      BY <3>1 DEF FieldNames
    <3>4. Cardinality({}) = 0 /\ Cardinality({1}) = 1 /\ Cardinality({2}) = 1
      BY FS_EmptySet, FS_Singleton
    <3>5. /\ Cardinality(Places(work', "orders")) = 0
          /\ Cardinality(Places(work', "rejections")) = 1
          /\ Cardinality(Places(work', "reasons")) = 1
          /\ Cardinality(Places(work', "trades")) = 0
          /\ Cardinality(Places(work', "samples")) = 0
      BY <3>2, <3>4
    <3> QED  BY <3>3, <3>5
  <2> QED  BY <2>1, <2>2
<1>3. StatsTypeOK'
  BY <1>1, <1>2 DEF StatsTypeOK
<1>4. ASSUME NEW f \in FieldNames
      PROVE  /\ Recorded(f)' = stat[f] + Cardinality(Places(work', f)) /\ Recorded(f) = stat[f]
             /\ stat[f] \in Nat /\ Cardinality(Places(work', f)) \in Nat
  <2>1. Recorded(f)' = stat'[f] + Cardinality(Places(work', f))
    BY DEF Recorded, Places
  <2>2. Cardinality(Places(work', f)) \in Nat
    BY <1>2, PlacesFinite
  <2>3. Recorded(f) = stat[f] + 0 /\ stat[f] \in Nat
    BY <1>1, RecordedIs
  <2> QED  BY <1>1, <2>1, <2>2, <2>3
<1>5. OrdersCounted'
  <2>1. /\ "orders" \in FieldNames /\ "rejections" \in FieldNames /\ "reasons" \in FieldNames
        /\ seq \in Nat
    BY DEF FieldNames, StatsTypeOK
  <2>2. /\ Recorded("orders") = stat["orders"] /\ stat["orders"] \in Nat
        /\ Recorded("orders")' = stat["orders"] + Cardinality(Places(work', "orders"))
        /\ Cardinality(Places(work', "orders")) \in Nat
    BY <1>4, <2>1
  <2>3. /\ Recorded("rejections") = stat["rejections"] /\ stat["rejections"] \in Nat
        /\ Recorded("rejections")' = stat["rejections"] + Cardinality(Places(work', "rejections"))
        /\ Cardinality(Places(work', "rejections")) \in Nat
    BY <1>4, <2>1
  <2>4. /\ Recorded("reasons") = stat["reasons"] /\ stat["reasons"] \in Nat
        /\ Recorded("reasons")' = stat["reasons"] + Cardinality(Places(work', "reasons"))
        /\ Cardinality(Places(work', "reasons")) \in Nat
    BY <1>4, <2>1
  <2>5. stat["orders"] + stat["rejections"] = seq /\ stat["reasons"] = stat["rejections"]
    BY <2>2, <2>3, <2>4 DEF OrdersCounted
  <2> QED  BY <1>1, <1>2, <2>1, <2>2, <2>3, <2>4, <2>5 DEF OrdersCounted
<1>6. LeftIdle' /\ LastReadsRest'
  <2>1. "main" \notin stopped
    BY <1>1 DEF LeftIdle
  <2> QED  BY <1>1, <2>1 DEF LeftIdle, LastReadsRest
<1>7. SamplesReportedOnce'
  <2>1. "trades" \in FieldNames /\ "samples" \in FieldNames
    BY DEF FieldNames
  <2>2. PICK read \in Nat : read = IF Len(snap) >= 4 THEN Field(snap, "samples") ELSE 0
    <3>1. Len(snap) >= 4 => snap[4] \in Nat
      BY DEF StatsTypeOK
    <3>2. Field(snap, "samples") = snap[4]
      BY FieldFacts
    <3> QED  BY <3>1, <3>2
  <2>3. reported + read + stat["samples"] = stat["trades"]
    BY <1>4, <2>1, <2>2 DEF SamplesReportedOnce
  <2>4. reported + read + Recorded("samples")' = Recorded("trades")'
    BY <1>2, <1>4, <2>1, <2>3 DEF StatsTypeOK
  <2> QED  BY <1>1, <2>2, <2>4 DEF SamplesReportedOnce
<1>8. FinalSnapshotComplete'
  BY <1>1 DEF LeftIdle, FinalSnapshotComplete, Main
<1> QED  BY <1>3, <1>5, <1>6, <1>7, <1>8

(* A record moves from what is to be recorded to what was. *)
LEMMA RecordKeeps ==
  ASSUME StatsInv, Record  PROVE  StatsInv'
<1> USE DEF StatsInv
<1> DEFINE h == Head(work)
<1>1. /\ work # <<>> /\ work' = Tail(work) /\ stat' = [stat EXCEPT ![h] = @ + 1]
      /\ snap' = snap /\ last' = last /\ reported' = reported /\ stopped' = stopped
      /\ seq' = seq
  BY DEF Record, vars
<1>2. h \in FieldNames /\ Tail(work) \in Seq(FieldNames)
  BY <1>1 DEF StatsTypeOK
<1>3. StatsTypeOK'
  <2>1. stat' \in [FieldNames -> Nat]
    <3>1. stat \in [FieldNames -> Nat] /\ stat' = [stat EXCEPT ![h] = @ + 1]
      BY <1>1 DEF StatsTypeOK
    <3> HIDE DEF h
    <3> QED  BY <1>2, <3>1
  <2>2. work' \in Seq(FieldNames)
    BY <1>1, <1>2
  <2> QED  BY <1>1, <2>1, <2>2 DEF StatsTypeOK
<1>4. "engine" \notin stopped /\ "main" \notin stopped
  BY <1>1 DEF LeftIdle
<1>5. ASSUME NEW f \in FieldNames  PROVE  Recorded(f)' = Recorded(f)
  <2>1. Recorded(f)' = stat'[f] + Cardinality(Places(Tail(work), f))
    BY <1>1 DEF Recorded, Places
  <2>2. Cardinality(Places(work, f))
          = Cardinality(Places(Tail(work), f)) + (IF h = f THEN 1 ELSE 0)
    BY <1>1, PlacesTail DEF StatsTypeOK
  <2>3. stat[f] \in Nat /\ stat'[f] = stat[f] + (IF h = f THEN 1 ELSE 0)
    <3>1. stat \in [FieldNames -> Nat] /\ stat' = [stat EXCEPT ![h] = @ + 1]
      BY <1>1 DEF StatsTypeOK
    <3> HIDE DEF h
    <3> QED  BY <3>1
  <2>4. Cardinality(Places(Tail(work), f)) \in Nat
    BY <1>2, PlacesFinite
  <2>5. Recorded(f) = stat[f] + Cardinality(Places(work, f))
    BY RecordedIs
  <2> QED  BY <2>1, <2>2, <2>3, <2>4, <2>5
<1>6. OrdersCounted'
  BY <1>1, <1>5 DEF OrdersCounted, FieldNames
<1>7. LeftIdle' /\ FinalSnapshotComplete'
  BY <1>1, <1>4 DEF LeftIdle, FinalSnapshotComplete, Main
<1>8. LastReadsRest'
  <2>1. "stats" \in stopped => snap = <<>> /\ Len(snap) = 0
    BY <1>4 DEF LeftIdle
  <2> QED  BY <1>1, <2>1 DEF LastReadsRest
<1>9. SamplesReportedOnce'
  BY <1>1, <1>5 DEF SamplesReportedOnce, FieldNames
<1> QED  BY <1>3, <1>6, <1>7, <1>8, <1>9

(* The samples move from the collector into the snapshot. *)
LEMMA ReadKeeps ==
  ASSUME StatsInv, ReadField  PROVE  StatsInv'
<1> USE DEF StatsInv
<1>1. PICK f \in FieldNames, k \in 0..4 : f = Fields[Len(snap) + 1] /\ k = Len(snap)
  <2>1. Len(snap) < Len(Fields) /\ Len(snap) \in 0..5
    BY DEF ReadField, StatsTypeOK
  <2> QED  BY <2>1, NextField
<1>2. /\ snap' = Append(snap, stat[f])
      /\ stat' = IF f = "samples" THEN [stat EXCEPT ![f] = 0] ELSE stat
      /\ work' = work /\ last' = last /\ reported' = reported /\ stopped' = stopped
      /\ seq' = seq
  BY <1>1 DEF ReadField, vars
<1>3. /\ f = "samples" <=> k = 3
      /\ k = 0 => f = "orders"
      /\ k = 1 => f = "trades"
      /\ k = 2 => f = "rejections"
      /\ k = 4 => f = "reasons"
  BY <1>1, NextField DEF ReadField
<1>4. stat[f] \in Nat
  BY DEF StatsTypeOK
<1>5. /\ snap' \in Seq(Nat) /\ Len(snap') = k + 1 /\ snap'[k + 1] = stat[f]
      /\ \A i \in 1..k : snap'[i] = snap[i]
  BY <1>1, <1>2, <1>4 DEF StatsTypeOK
<1>6. /\ stat' \in [FieldNames -> Nat]
      /\ \A g \in FieldNames : g # "samples" => stat'[g] = stat[g]
      /\ k = 3 => stat'["samples"] = 0
      /\ k # 3 => stat' = stat
  BY <1>2, <1>3 DEF StatsTypeOK
<1>7. StatsTypeOK'
  <2>1. k + 1 \in 0..5
    OBVIOUS
  <2> QED  BY <1>2, <1>5, <1>6, <2>1 DEF StatsTypeOK
<1>8. ASSUME NEW g \in FieldNames, g # "samples"  PROVE  Recorded(g)' = Recorded(g)
  BY <1>2, <1>6, <1>8 DEF Recorded
<1>9. OrdersCounted'
  BY <1>2, <1>8 DEF OrdersCounted, FieldNames
<1>10. "stats" \in stopped => "engine" \in stopped /\ "main" \notin stopped
  BY DEF ReadField, MainSnapshots, Monitor, Threads, Engine, Main
<1>11. "main" \notin stopped
  BY <1>10 DEF LeftIdle
<1>12. LeftIdle' /\ FinalSnapshotComplete'
  BY <1>2, <1>10, <1>11 DEF LeftIdle, FinalSnapshotComplete, Main
<1>13. LastReadsRest'
  <2> SUFFICES ASSUME "stats" \in stopped
               PROVE  /\ k >= 0 => snap'[1] = stat'["orders"]
                      /\ k >= 1 => snap'[2] = stat'["trades"]
                      /\ k >= 2 => snap'[3] = stat'["rejections"]
                      /\ k >= 3 => stat'["samples"] = 0
                      /\ k >= 4 => snap'[5] = stat'["reasons"]
    BY <1>1, <1>2, <1>5 DEF LastReadsRest
  <2>1. /\ stat'["orders"] = stat["orders"] /\ stat'["trades"] = stat["trades"]
        /\ stat'["rejections"] = stat["rejections"] /\ stat'["reasons"] = stat["reasons"]
    BY <1>6 DEF FieldNames
  <2>2. /\ k >= 1 => snap[1] = stat["orders"]
        /\ k >= 2 => snap[2] = stat["trades"]
        /\ k >= 3 => snap[3] = stat["rejections"]
        /\ k >= 4 => stat["samples"] = 0
    BY <1>1 DEF LastReadsRest
  <2>3. /\ k >= 0 => snap'[1] = stat'["orders"]
        /\ k >= 1 => snap'[2] = stat'["trades"]
        /\ k >= 2 => snap'[3] = stat'["rejections"]
    BY <1>3, <1>5, <2>1, <2>2
  <2>4. /\ k >= 3 => stat'["samples"] = 0
        /\ k >= 4 => snap'[5] = stat'["reasons"]
    BY <1>3, <1>5, <1>6, <2>1, <2>2
  <2> QED  BY <2>3, <2>4
<1>14. SamplesReportedOnce'
  <2> DEFINE read  == IF Len(snap) >= 4 THEN Field(snap, "samples") ELSE 0
             next  == IF Len(snap') >= 4 THEN Field(snap', "samples") ELSE 0
             c     == Cardinality(Places(work, "samples"))
  <2>1. "trades" \in FieldNames /\ "samples" \in FieldNames
    BY DEF FieldNames
  <2>2. /\ Recorded("samples") = stat["samples"] + c /\ c \in Nat /\ stat["samples"] \in Nat
        /\ Recorded("samples")' = stat'["samples"] + c
    BY <1>2, <2>1, RecordedIs DEF Recorded, Places
  <2>3. next + stat'["samples"] = read + stat["samples"] /\ read \in Nat /\ next \in Nat
    <3>1. Field(snap, "samples") = snap[4] /\ Field(snap', "samples") = snap'[4]
      BY FieldFacts
    <3>2. CASE k < 3
      <4>1. read = 0 /\ next = 0 /\ stat' = stat
        BY <1>1, <1>5, <1>6, <3>2
      <4> QED  BY <2>2, <4>1
    <3>3. CASE k = 3
      <4>1. read = 0 /\ next = stat["samples"] /\ stat'["samples"] = 0
        BY <1>1, <1>3, <1>5, <1>6, <3>1, <3>3
      <4> QED  BY <2>2, <4>1
    <3>4. CASE k = 4
      <4>1. snap'[4] = snap[4] /\ snap[4] \in Nat /\ stat' = stat
        <5>1. 4 \in 1..k /\ 4 \in 1..Len(snap) /\ snap \in Seq(Nat)
          BY <1>1, <3>4 DEF StatsTypeOK
        <5>2. snap[4] \in Nat
          BY <5>1
        <5> QED  BY <1>5, <1>6, <3>4, <5>1, <5>2
      <4>2. read = snap[4] /\ next = snap[4]
        BY <1>1, <1>5, <3>1, <3>4, <4>1
      <4> QED  BY <2>2, <4>1, <4>2
    <3> QED  BY <3>2, <3>3, <3>4
  <2>4. reported + read + Recorded("samples") = Recorded("trades") /\ reported \in Nat
    BY DEF SamplesReportedOnce, StatsTypeOK
  <2>5. Recorded("trades")' = Recorded("trades")
    BY <1>8, <2>1
  <2> HIDE DEF read, next, c
  <2>6. reported + next + Recorded("samples")' = Recorded("trades")'
    <3>1. stat'["samples"] \in Nat
      BY <1>6, <2>1
    <3> QED  BY <2>2, <2>3, <2>4, <2>5, <3>1
  <2> QED  BY <1>2, <2>6 DEF SamplesReportedOnce, next
<1> QED  BY <1>7, <1>9, <1>12, <1>13, <1>14

(* The snapshot of main accounts for everything. *)
LEMMA FinishKeeps ==
  ASSUME StatsInv, FinishSnapshot  PROVE  StatsInv'
<1> USE DEF StatsInv
<1>1. /\ Len(snap) = 5 /\ last' = snap /\ snap' = <<>>
      /\ reported' = reported + Field(snap, "samples")
      /\ stopped' = IF MainSnapshots THEN stopped \cup {Main} ELSE stopped
      /\ stat' = stat /\ work' = work /\ seq' = seq
  BY DEF FinishSnapshot, Fields, vars
<1>2. Len(snap') = 0 /\ Field(snap, "samples") = snap[4] /\ snap[4] \in Nat /\ snap # <<>>
  <2>1. Len(<<>>) = 0 /\ 4 \in 1..Len(snap) /\ snap \in Seq(Nat)
    BY <1>1 DEF StatsTypeOK
  <2>2. snap[4] \in Nat
    BY <2>1
  <2>3. snap' = <<>> /\ Len(snap) = 5
    BY <1>1
  <2>4. Len(snap') = 0
    BY <2>3
  <2>5. snap # <<>>
    BY <2>3
  <2> QED  BY <2>2, <2>4, <2>5, FieldFacts
<1>3. StatsTypeOK'
  BY <1>1, <1>2 DEF StatsTypeOK
<1>4. \A f \in FieldNames : Recorded(f)' = Recorded(f)
  BY <1>1 DEF Recorded
<1>5. OrdersCounted'
  BY <1>1, <1>4 DEF OrdersCounted, FieldNames
<1>6. LastReadsRest'
  BY <1>2 DEF LastReadsRest
<1>7. SamplesReportedOnce'
  BY <1>1, <1>2, <1>4 DEF SamplesReportedOnce, FieldNames, StatsTypeOK
<1>8. "main" \notin stopped
  BY <1>2 DEF LeftIdle
<1>9. /\ "engine" \in stopped' <=> "engine" \in stopped
      /\ "stats" \in stopped' <=> "stats" \in stopped
      /\ "main" \in stopped' => "engine" \in stopped /\ "stats" \in stopped
  BY <1>1, <1>8 DEF MainSnapshots, Main, Threads, Engine, Monitor
<1>10. LeftIdle'
  BY <1>1, <1>9 DEF LeftIdle
<1>11. FinalSnapshotComplete'
  <2> SUFFICES ASSUME "main" \in stopped'
               PROVE  /\ snap[1] + snap[3] = seq /\ snap[5] = snap[3]
                      /\ reported + snap[4] = snap[2]
    BY <1>1, <1>2, FieldFacts DEF FinalSnapshotComplete, Main
  <2>1. /\ work = <<>> /\ snap[1] = stat["orders"] /\ snap[2] = stat["trades"]
        /\ snap[3] = stat["rejections"] /\ stat["samples"] = 0 /\ snap[5] = stat["reasons"]
    BY <1>1, <1>9 DEF LeftIdle, LastReadsRest
  <2>2. \A f \in FieldNames : Recorded(f) = stat[f] /\ stat[f] \in Nat
    BY <2>1, RecordedIs
  <2>3. stat["orders"] + stat["rejections"] = seq /\ stat["reasons"] = stat["rejections"]
    BY <2>2 DEF OrdersCounted, FieldNames
  <2>4. reported + snap[4] + 0 = stat["trades"]
    <3>1. reported + snap[4] + Recorded("samples") = Recorded("trades")
      BY <1>1, <1>2 DEF SamplesReportedOnce
    <3> QED  BY <2>1, <2>2, <3>1 DEF FieldNames
  <2> QED  BY <1>2, <2>1, <2>3, <2>4 DEF StatsTypeOK
<1> QED  BY <1>3, <1>5, <1>6, <1>7, <1>10, <1>11

(* A thread leaves between two rounds. *)
LEMMA LeaveKeeps ==
  ASSUME StatsInv, NEW t \in Threads, Leave(t)  PROVE  StatsInv'
<1> USE DEF StatsInv
<1>1. /\ stopped' = stopped \cup {t} /\ seq' = seq /\ stat' = stat /\ work' = work
      /\ snap' = snap /\ last' = last /\ reported' = reported
  BY DEF Leave, vars
<1>2. t # "main"
  BY StatisticsAssumption DEF Threads, Engine, Monitor
<1>3. t = "engine" => work = <<>>
  BY DEF Leave, Engine, Monitor
<1>4. t = "stats" => snap = <<>>
  BY DEF Leave, Engine, Monitor
<1>5. StatsTypeOK' /\ OrdersCounted' /\ SamplesReportedOnce'
  BY <1>1 DEF StatsTypeOK, OrdersCounted, SamplesReportedOnce, Recorded
<1>6. LeftIdle'
  BY <1>1, <1>2, <1>3, <1>4 DEF LeftIdle
<1>7. LastReadsRest'
  <2>1. snap = <<>> => Len(snap) = 0
    OBVIOUS
  <2> QED  BY <1>1, <1>4, <2>1 DEF LastReadsRest
<1>8. FinalSnapshotComplete'
  BY <1>1, <1>2 DEF FinalSnapshotComplete, Main
<1> QED  BY <1>5, <1>6, <1>7, <1>8

LEMMA QuietKeeps ==
  ASSUME StatsInv, seq' = seq, stopped' = stopped, stat' = stat, work' = work,
         snap' = snap, last' = last, reported' = reported
  PROVE  StatsInv'
<1> USE DEF StatsInv
<1>1. StatsTypeOK' /\ OrdersCounted' /\ SamplesReportedOnce'
  BY DEF StatsTypeOK, OrdersCounted, SamplesReportedOnce, Recorded
<1>2. LeftIdle' /\ LastReadsRest' /\ FinalSnapshotComplete'
  BY DEF LeftIdle, LastReadsRest, FinalSnapshotComplete
<1> QED  BY <1>1, <1>2

LEMMA StatsInitially == StatsInit => StatsInv
<1> SUFFICES ASSUME StatsInit  PROVE  StatsInv
  OBVIOUS
<1>1. ToSet(Fields) = FieldNames /\ DOMAIN Fields = 1..5
  BY DEF ToSet, Fields, FieldNames
<1>2. /\ stat = [f \in FieldNames |-> 0] /\ work = <<>> /\ snap = <<>> /\ Len(snap) = 0
      /\ last = [i \in 1..5 |-> 0] /\ reported = 0 /\ seq = 0 /\ stopped = {}
  BY <1>1 DEF StatsInit, Init
<1>3. StatsTypeOK
  BY <1>2 DEF StatsTypeOK
<1>4. \A f \in FieldNames : Recorded(f) = 0
  BY <1>2, <1>3, RecordedIs
<1> QED  BY <1>2, <1>3, <1>4 DEF StatsInv, OrdersCounted, LeftIdle, LastReadsRest,
         SamplesReportedOnce, FinalSnapshotComplete, FieldNames

LEMMA StatsPreserved ==
  ASSUME StatsInv, [StatsNext]_allVars  PROVE  StatsInv'
<1>1. ASSUME NEW p \in Producers, Client(p)  PROVE  StatsInv'
  <2>1. seq' = seq /\ UNCHANGED statsVars
    BY <1>1 DEF Client, Place, RequestCancel
  <2> QED  BY <2>1, QuietKeeps DEF statsVars
<1>2. ASSUME NEW p \in Producers, AcceptOrder(p) \/ RejectOrder(p)  PROVE  StatsInv'
  BY <1>2, TakeKeeps
<1>3. ASSUME NEW p \in Producers, CancelOrder(p)  PROVE  StatsInv'
  BY <1>3, QuietKeeps DEF CancelOrder, TakeCancel, statsVars
<1>4. CASE Record \/ ReadField \/ FinishSnapshot
  BY <1>4, RecordKeeps, ReadKeeps, FinishKeeps
<1>5. CASE Signal \/ LoopReturns
  BY <1>5, QuietKeeps DEF Signal, LoopReturns, vars
<1>6. ASSUME NEW t \in Threads, Leave(t)  PROVE  StatsInv'
  BY <1>6, LeaveKeeps
<1>7. CASE UNCHANGED allVars
  BY <1>7, QuietKeeps DEF allVars, vars, statsVars
<1> QED  BY <1>1, <1>2, <1>3, <1>4, <1>5, <1>6, <1>7 DEF StatsNext

(* However the records of the engine thread fall between the reads of the     *)
(* snapshots, each latency sample is reported exactly once.                  *)
THEOREM SamplesAreReportedOnce == StatsSpec => []SamplesReportedOnce
<1>1. StatsInit => StatsInv
  BY StatsInitially
<1>2. StatsInv /\ [StatsNext]_allVars => StatsInv'
  BY StatsPreserved
<1>3. StatsInv => SamplesReportedOnce
  BY DEF StatsInv
<1> QED  BY <1>1, <1>2, <1>3, PTL DEF StatsSpec

(* The snapshot that main takes after the joins accounts for every order,     *)
(* every rejection and every trade.                                         *)
THEOREM FinalSnapshotIsComplete == StatsSpec => []FinalSnapshotComplete
<1>1. StatsInit => StatsInv
  BY StatsInitially
<1>2. StatsInv /\ [StatsNext]_allVars => StatsInv'
  BY StatsPreserved
<1>3. StatsInv => FinalSnapshotComplete
  BY DEF StatsInv
<1> QED  BY <1>1, <1>2, <1>3, PTL DEF StatsSpec
=============================================================================
