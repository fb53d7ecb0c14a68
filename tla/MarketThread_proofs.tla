-------------------------- MODULE MarketThread_proofs --------------------------
(***************************************************************************)
(* The two small components that the market thread calls on every tick: the *)
(* circuit breakers and the stop orders, each by itself, for any prices,     *)
(* windows, thresholds and triggers.                                        *)
(***************************************************************************)
EXTENDS StopOrders, CircuitBreakers, Data_proofs

-----------------------------------------------------------------------------
(* The circuit breakers. *)

Quotes == [age : Nat, price : Marks]

BreakersInv ==
    /\ history \in [Instruments -> Seq(Quotes)]
    /\ state \in [Instruments -> {"TRADING", "COOLDOWN", "EMERGENCY"}]
    /\ NoMoveUnanswered

(* Pruning stops at the entry just appended at the latest. *)
LEMMA RecordedFacts ==
  ASSUME BreakersInv, NEW i \in Instruments, NEW price \in Marks
  PROVE  Recorded(i, price) \in Seq(Quotes)
<1> DEFINE q     == [age |-> 0, price |-> price]
           h     == Append(history[i], q)
           First(k) == InWindow(h[k]) /\ \A j \in 1..(k - 1) : ~InWindow(h[j])
<1>1. q \in Quotes /\ history[i] \in Seq(Quotes) /\ InWindow(q)
  <2>1. q \in Quotes
    BY DEF Quotes
  <2>2. InWindow(q)
    BY BreakersAssumption DEF InWindow
  <2> QED  BY <2>1, <2>2 DEF BreakersInv
<1>2. /\ h \in Seq(Quotes) /\ DOMAIN h = 1..Len(h) /\ Len(h) \in Nat \ {0} /\ h[Len(h)] = q
  <2> HIDE DEF q
  <2> QED  BY <1>1
<1> HIDE DEF h
<1>3. \E k \in DOMAIN h : First(k)
  <2> DEFINE T == {k \in 1..Len(h) : InWindow(h[k])}
  <2>1. Len(h) \in T /\ T \in SUBSET Nat
    BY <1>1, <1>2
  <2>2. PICK k \in T : \A j \in T : k <= j
    <3> HIDE DEF T
    <3> QED  BY <2>1, SmallestNat
  <2>3. \A j \in 1..(k - 1) : j \notin T
    BY <2>1, <2>2
  <2> QED  BY <1>2, <2>2, <2>3
<1>4. PICK k \in 1..Len(h) : k = CHOOSE j \in DOMAIN h : First(j)
  BY <1>2, <1>3
<1>5. SubSeq(h, k, Len(h)) \in Seq(Quotes)
  BY <1>2
<1> QED  BY <1>4, <1>5 DEF Recorded, h

(* Prices do not move as time passes. *)
LEMMA MovedKept ==
  ASSUME NEW h \in Seq(Quotes), NEW g, DOMAIN g = DOMAIN h, g \in Seq(Quotes),
         \A k \in DOMAIN h : g[k].price = h[k].price
  PROVE  Moved(g) <=> Moved(h)
<1>1. Len(g) = Len(h) /\ Len(h) \in Nat
  OBVIOUS
<1>2. Len(h) >= 2 => g[1].price = h[1].price /\ g[Len(g)].price = h[Len(h)].price
  BY <1>1
<1> QED  BY <1>1, <1>2 DEF Moved

LEMMA BreakersInitially == BreakersInit => BreakersInv
BY DEF BreakersInit, BreakersInv, NoMoveUnanswered, Moved

LEMMA UpdateKeeps ==
  ASSUME BreakersInv, NEW i \in Instruments, NEW price \in Marks,
         Update(i, price)
  PROVE  BreakersInv'
<1> DEFINE h == Recorded(i, price)
<1>1. h \in Seq(Quotes)
  BY RecordedFacts
<1> HIDE DEF h
<1>2. CASE UpdateTrading(i, price)
  <2>1. /\ history' = [history EXCEPT ![i] = h]
        /\ \E s \in {"COOLDOWN", "TRADING", "EMERGENCY"} :
             state' = [state EXCEPT ![i] = s] /\ (s = "TRADING" => ~Moved(h))
    BY <1>2 DEF UpdateTrading, Decide, h
  <2> QED  BY <1>1, <2>1 DEF BreakersInv, NoMoveUnanswered
<1>3. CASE UpdateCooldown(i, price)
  <2>1. PICK g \in {<<>>, h}, s \in {"COOLDOWN", "TRADING", "EMERGENCY"} :
          /\ history' = [history EXCEPT ![i] = g] /\ state' = [state EXCEPT ![i] = s]
          /\ s = "TRADING" => g = <<>>
    BY <1>3 DEF UpdateCooldown, Decide, h
  <2>2. g \in Seq(Quotes)
    <3>1. <<>> \in Seq(Quotes)
      OBVIOUS
    <3> QED  BY <1>1, <3>1
  <2>3. ~Moved(<<>>)
    BY DEF Moved
  <2> QED  BY <2>1, <2>2, <2>3 DEF BreakersInv, NoMoveUnanswered
<1>4. CASE UNCHANGED <<state, history>>
  BY <1>4 DEF BreakersInv, NoMoveUnanswered
<1> QED  BY <1>2, <1>3, <1>4 DEF Update

LEMMA BreakersTickKeeps ==
  ASSUME BreakersInv, SecondPasses
  PROVE  BreakersInv'
<1>1. ASSUME NEW i \in Instruments
      PROVE  /\ history'[i] \in Seq(Quotes)
             /\ Moved(history'[i]) <=> Moved(history[i])
  <2>1. history[i] \in Seq(Quotes)
    BY DEF BreakersInv
  <2>2. history'[i] = [k \in DOMAIN history[i] |->
          [history[i][k] EXCEPT !.age = IF @ <= Window THEN @ + 1 ELSE @]]
    BY DEF SecondPasses
  <2>3. \A k \in 1..Len(history[i]) :
          history'[i][k] \in Quotes /\ history'[i][k].price = history[i][k].price
    <3> SUFFICES ASSUME NEW k \in 1..Len(history[i])
                 PROVE  history'[i][k] \in Quotes /\ history'[i][k].price = history[i][k].price
      OBVIOUS
    <3>1. history[i][k] \in Quotes
      BY <2>1
    <3> QED  BY <2>1, <2>2, <3>1 DEF Quotes
  <2>4. DOMAIN history'[i] = 1..Len(history[i]) /\ DOMAIN history[i] = 1..Len(history[i])
    BY <2>1, <2>2
  <2>5. history'[i] = [k \in 1..Len(history[i]) |-> history'[i][k]]
    BY <2>2, <2>4
  <2>6. history'[i] \in Seq(Quotes)
    <3>1. PICK n \in Nat : n = Len(history[i])
      BY <2>1
    <3>2. history'[i] \in [1..n -> Quotes]
      BY <2>3, <2>5, <3>1
    <3> QED  BY <3>1, <3>2
  <2> QED  BY <2>1, <2>3, <2>4, <2>6, MovedKept
<1>2. history' = [i \in Instruments |-> history'[i]] /\ state' = state
  BY DEF SecondPasses
<1> QED  BY <1>1, <1>2 DEF BreakersInv, NoMoveUnanswered

LEMMA BreakersPreserved ==
  ASSUME BreakersInv, [BreakersNext]_breakersVars
  PROVE  BreakersInv'
<1>1. ASSUME NEW i \in Instruments, NEW price \in Marks, Update(i, price)
      PROVE  BreakersInv'
  BY <1>1, UpdateKeeps
<1>2. ASSUME NEW i \in Instruments, TriggerEmergency(i)  PROVE BreakersInv'
  BY <1>2 DEF TriggerEmergency, BreakersInv, NoMoveUnanswered
<1>3. ASSUME NEW i \in Instruments, Recover(i)  PROVE BreakersInv'
  <2>1. ~Moved(<<>>)
    BY DEF Moved
  <2> QED  BY <1>3, <2>1 DEF Recover, BreakersInv, NoMoveUnanswered
<1>4. CASE CheckMarketWide
  BY <1>4 DEF CheckMarketWide, BreakersInv, NoMoveUnanswered
<1>5. CASE \/ \E amount \in Amounts : AbsorbDeficit(amount) \/ CreditFee(amount)
           \/ UNCHANGED breakersVars
  BY <1>5 DEF AbsorbDeficit, CreditFee, breakersVars, BreakersInv,
       NoMoveUnanswered
<1>6. CASE SecondPasses
  BY <1>6, BreakersTickKeeps
<1> QED  BY <1>1, <1>2, <1>3, <1>4, <1>5, <1>6 DEF BreakersNext

(* While an instrument trades its detector holds no move beyond the           *)
(* threshold, for any window and threshold: no move goes unanswered, and none *)
(* from before a cooldown or an emergency stops trading a second time.       *)
THEOREM BreakersAnswerMoves == BreakersSpec => []NoMoveUnanswered
<1>1. BreakersInv => NoMoveUnanswered
  BY DEF BreakersInv
<1> QED  BY <1>1, BreakersInitially, BreakersPreserved, PTL DEF BreakersSpec

-----------------------------------------------------------------------------
(* What the vector keeps of its stops. *)

Keeping(ss, S, n, kept) ==
    kept = [k \in 0..n |->
              IF k = 0 THEN <<>>
              ELSE IF ss[k] \in S THEN Append(kept[k - 1], ss[k]) ELSE kept[k - 1]]

LEMMA KeepingExists ==
  ASSUME NEW ss, NEW S, NEW n \in Nat
  PROVE  \E kept : Keeping(ss, S, n, kept)
<1> DEFINE T == {m \in Nat : \E kept : Keeping(ss, S, m, kept)}
<1>1. 0 \in T
  <2> DEFINE f == [k \in 0..0 |-> <<>>]
  <2>1. Keeping(ss, S, 0, f)
    BY DEF Keeping
  <2> QED  BY <2>1
<1>2. ASSUME NEW m \in Nat, m \in T  PROVE m + 1 \in T
  <2>1. PICK f : Keeping(ss, S, m, f)
    BY <1>2
  <2> DEFINE last == IF ss[m + 1] \in S THEN Append(f[m], ss[m + 1]) ELSE f[m]
             g    == [k \in 0..(m + 1) |-> IF k = m + 1 THEN last ELSE f[k]]
  <2>2. \A k \in 0..(m + 1) : k = m + 1 \/ k \in 0..m
    OBVIOUS
  <2>3. \A k \in 0..m : f[k] =
          IF k = 0 THEN <<>>
          ELSE IF ss[k] \in S THEN Append(f[k - 1], ss[k]) ELSE f[k - 1]
    BY <2>1 DEF Keeping
  <2>4. g[m + 1] = last /\ \A k \in 0..m : g[k] = f[k]
    OBVIOUS
  <2>5. ASSUME NEW k \in 0..(m + 1)
        PROVE  g[k] = IF k = 0 THEN <<>>
                      ELSE IF ss[k] \in S THEN Append(g[k - 1], ss[k]) ELSE g[k - 1]
    <3>1. CASE k = m + 1
      <4>1. k - 1 = m /\ k # 0 /\ m \in 0..m
        BY <3>1
      <4>2. g[k - 1] = f[m]
        BY <2>4, <4>1
      <4> QED  BY <2>4, <3>1, <4>1, <4>2
    <3>2. CASE k \in 0..m
      <4>1. k # 0 => k - 1 \in 0..m
        BY <3>2
      <4> HIDE DEF g
      <4> QED  BY <2>3, <2>4, <3>2, <4>1
    <3> QED  BY <2>2, <3>1, <3>2
  <2>6. g = [k \in 0..(m + 1) |-> g[k]]
    OBVIOUS
  <2> HIDE DEF g
  <2>7. Keeping(ss, S, m + 1, g)
    BY <2>5, <2>6 DEF Keeping
  <2> QED  BY <2>7
<1> HIDE DEF T
<1>3. n \in T
  BY <1>1, <1>2, InductionOnNat
<1> QED  BY <1>3 DEF T

LEMMA IdsFacts ==
  ASSUME NEW ss \in Seq(Stop)
  PROVE  /\ Ids(ss) \in Seq(StopIds) /\ Len(Ids(ss)) = Len(ss)
         /\ \A k \in 1..Len(ss) : Ids(ss)[k] = ss[k].id /\ ss[k] \in Stop
         /\ ToSet(Ids(ss)) = {s.id : s \in ToSet(ss)} /\ ToSet(ss) \subseteq Stop
<1>1. /\ DOMAIN ss = 1..Len(ss) /\ \A k \in 1..Len(ss) : ss[k] \in Stop
  OBVIOUS
<1>2. \A s \in Stop : s.id \in StopIds
  BY DEF Stop
<1>3. Ids(ss) = [k \in 1..Len(ss) |-> ss[k].id]
  BY <1>1 DEF Ids
<1>4. Ids(ss) \in Seq(StopIds) /\ Len(Ids(ss)) = Len(ss)
  <2>1. PICK n \in Nat : n = Len(ss)
    OBVIOUS
  <2>2. Ids(ss) \in [1..n -> StopIds]
    BY <1>1, <1>2, <1>3, <2>1
  <2> QED  BY <2>1, <2>2
<1> QED  BY <1>1, <1>3, <1>4 DEF ToSet

(* Two places of the vector never hold the same id. *)
Distinct(ss) == \A j, k \in 1..Len(ss) : ss[j].id = ss[k].id => j = k

LEMMA DistinctIds ==
  ASSUME NEW ss \in Seq(Stop)
  PROVE  IsInjective(Ids(ss)) <=> Distinct(ss)
<1>1. DOMAIN Ids(ss) = 1..Len(ss) /\ \A k \in 1..Len(ss) : Ids(ss)[k] = ss[k].id
  BY IdsFacts
<1> QED  BY <1>1 DEF IsInjective, Distinct

(* The kept stops are those of the set, and ids stay distinct. *)
LEMMA KeptFacts ==
  ASSUME NEW ss \in Seq(Stop), NEW S, Distinct(ss)
  PROVE  /\ Kept(ss, S) \in Seq(Stop) /\ Distinct(Kept(ss, S))
         /\ ToSet(Kept(ss, S)) = ToSet(ss) \cap S
<1> DEFINE kept == CHOOSE f : Keeping(ss, S, Len(ss), f)
           Upto(k) == {ss[j] : j \in 1..k}
           Good(k) == /\ kept[k] \in Seq(Stop) /\ Distinct(kept[k])
                      /\ ToSet(kept[k]) = Upto(k) \cap S
           T == {k \in Nat : k <= Len(ss) => Good(k)}
<1>1. Kept(ss, S) = kept[Len(ss)]
  BY DEF Kept, Keeping
<1>2. Keeping(ss, S, Len(ss), kept)
  BY KeepingExists
<1> HIDE DEF kept
<1>3. /\ kept[0] = <<>>
      /\ \A k \in 1..Len(ss) :
           kept[k] = IF ss[k] \in S THEN Append(kept[k - 1], ss[k]) ELSE kept[k - 1]
  <2>1. PICK n \in Nat : n = Len(ss)
    OBVIOUS
  <2>2. kept = [k \in 0..n |->
                  IF k = 0 THEN <<>>
                  ELSE IF ss[k] \in S THEN Append(kept[k - 1], ss[k]) ELSE kept[k - 1]]
    BY <1>2, <2>1 DEF Keeping
  <2>3. 0 \in 0..n /\ \A k \in 1..n : k \in 0..n /\ k # 0
    OBVIOUS
  <2>4. kept[0] = <<>>
    BY <2>2, <2>3
  <2>5. ASSUME NEW k \in 1..n
        PROVE  kept[k] = IF ss[k] \in S THEN Append(kept[k - 1], ss[k]) ELSE kept[k - 1]
    BY <2>2, <2>3
  <2> QED  BY <2>1, <2>4, <2>5
<1>4. 0 \in T
  <2>1. ToSet(kept[0]) = {} /\ kept[0] \in Seq(Stop) /\ Distinct(kept[0])
    BY <1>3 DEF ToSet, Distinct
  <2> QED  BY <2>1
<1>5. ASSUME NEW m \in Nat, m \in T  PROVE m + 1 \in T
  <2> SUFFICES ASSUME m + 1 <= Len(ss)  PROVE Good(m + 1)
    OBVIOUS
  <2>1. m + 1 \in 1..Len(ss) /\ (m + 1) - 1 = m /\ Good(m)
    BY <1>5
  <2>2. Upto(m + 1) = Upto(m) \cup {ss[m + 1]}
    <3>1. \A j \in 1..(m + 1) : j \in 1..m \/ j = m + 1
      OBVIOUS
    <3>2. m + 1 \in 1..(m + 1) /\ \A j \in 1..m : j \in 1..(m + 1)
      OBVIOUS
    <3> QED  BY <3>1, <3>2
  <2>3. CASE ss[m + 1] \notin S
    <3>1. kept[m + 1] = kept[m]
      BY <1>3, <2>1, <2>3
    <3> QED  BY <2>1, <2>2, <2>3, <3>1
  <2>4. CASE ss[m + 1] \in S
    <3> DEFINE old == kept[m]
               s   == ss[m + 1]
               new == Append(old, s)
    <3>1. kept[m + 1] = new
      BY <1>3, <2>1, <2>4
    <3>2. s \in Stop /\ old \in Seq(Stop)
      BY <2>1
    <3> HIDE DEF old, s
    <3>3. /\ new \in Seq(Stop) /\ Len(new) = Len(old) + 1 /\ Len(old) \in Nat
          /\ new[Len(old) + 1] = s /\ \A j \in 1..Len(old) : new[j] = old[j]
          /\ DOMAIN new = 1..(Len(old) + 1) /\ DOMAIN old = 1..Len(old)
      BY <3>2
    <3> HIDE DEF new
    <3>4. ToSet(new) = ToSet(old) \cup {s}
      BY <3>3 DEF ToSet
    <3>5. \A j \in 1..Len(old) : old[j].id # s.id
      <4> SUFFICES ASSUME NEW j \in 1..Len(old), old[j].id = s.id  PROVE FALSE
        OBVIOUS
      <4>1. old[j] \in ToSet(old)
        BY <3>3 DEF ToSet
      <4>2. PICK k \in 1..m : old[j] = ss[k]
        BY <2>1, <4>1 DEF old
      <4>3. k \in 1..Len(ss) /\ k # m + 1
        BY <2>1
      <4> QED  BY <2>1, <4>2, <4>3 DEF Distinct, s
    <3>6. Distinct(new)
      <4>1. \A j, k \in 1..Len(old) : old[j].id = old[k].id => j = k
        BY <2>1 DEF Distinct, old
      <4>2. \A j \in 1..Len(new) : j \in 1..Len(old) \/ j = Len(old) + 1
        BY <3>3
      <4> QED  BY <3>3, <3>5, <4>1, <4>2 DEF Distinct
    <3>7. ToSet(new) = Upto(m + 1) \cap S
      BY <2>1, <2>2, <2>4, <3>4 DEF s, old
    <3> QED  BY <3>1, <3>3, <3>6, <3>7
  <2> QED  BY <2>3, <2>4
<1> HIDE DEF T
<1>6. Len(ss) \in T /\ Len(ss) \in Nat
  BY <1>4, <1>5, InductionOnNat
<1>7. Good(Len(ss))
  BY <1>6 DEF T
<1>8. Upto(Len(ss)) = ToSet(ss)
  BY DEF ToSet
<1> QED  BY <1>1, <1>7, <1>8

-----------------------------------------------------------------------------
(* A stop has one fate.  Waiting, Gone: the ids in the vector, and in the     *)
(* queue of orders.                                                         *)

Waiting == ToSet(Ids(stops))
Gone == ToSet(queued)

StopsInv ==
    /\ stops \in Seq(Stop) /\ queued \in Seq(StopIds)
    /\ mark \in Int /\ index \in Prices /\ ewma \in Int
    /\ OneFate

(* A list is put behind another, with which it shares nothing. *)
LEMMA ConcatInjective ==
  ASSUME NEW S, NEW a \in Seq(S), NEW b \in Seq(S), IsInjective(a), IsInjective(b),
         ToSet(a) \cap ToSet(b) = {}
  PROVE  a \o b \in Seq(S) /\ IsInjective(a \o b) /\ ToSet(a \o b) = ToSet(a) \cup ToSet(b)
<1> DEFINE c == a \o b
<1>1. /\ c \in Seq(S) /\ Len(c) = Len(a) + Len(b) /\ Len(a) \in Nat /\ Len(b) \in Nat
      /\ DOMAIN a = 1..Len(a) /\ DOMAIN b = 1..Len(b) /\ DOMAIN c = 1..(Len(a) + Len(b))
      /\ \A k \in 1..Len(a) : c[k] = a[k]
      /\ \A k \in 1..Len(b) : c[Len(a) + k] = b[k]
  OBVIOUS
<1> HIDE DEF c
<1>2. ASSUME NEW k \in DOMAIN c
      PROVE  \/ k \in DOMAIN a /\ c[k] = a[k]
             \/ k - Len(a) \in DOMAIN b /\ c[k] = b[k - Len(a)]
  <2>1. CASE k <= Len(a)
    BY <1>1, <2>1
  <2>2. CASE ~(k <= Len(a))
    <3>1. k - Len(a) \in 1..Len(b) /\ Len(a) + (k - Len(a)) = k
      BY <1>1, <2>2
    <3>2. c[Len(a) + (k - Len(a))] = b[k - Len(a)]
      BY <1>1, <3>1
    <3> QED  BY <1>1, <3>1, <3>2
  <2> QED  BY <2>1, <2>2
<1>3. ToSet(c) = ToSet(a) \cup ToSet(b)
  <2>1. ToSet(c) \subseteq ToSet(a) \cup ToSet(b)
    BY <1>2 DEF ToSet
  <2>2. ToSet(a) \subseteq ToSet(c)
    BY <1>1 DEF ToSet
  <2>3. ToSet(b) \subseteq ToSet(c)
    <3>1. \A k \in DOMAIN b : Len(a) + k \in DOMAIN c /\ c[Len(a) + k] = b[k]
      BY <1>1
    <3> QED  BY <3>1 DEF ToSet
  <2> QED  BY <2>1, <2>2, <2>3
<1>4. IsInjective(c)
  <2> SUFFICES ASSUME NEW j \in DOMAIN c, NEW k \in DOMAIN c, c[j] = c[k]  PROVE j = k
    BY DEF IsInjective
  <2>1. j \in Nat /\ k \in Nat /\ Len(a) \in Nat
    BY <1>1
  <2>2. \A x \in DOMAIN a, y \in DOMAIN b : a[x] # b[y]
    BY DEF ToSet
  <2>3. CASE j \in DOMAIN a /\ c[j] = a[j] /\ k \in DOMAIN a /\ c[k] = a[k]
    BY <2>3 DEF IsInjective
  <2>4. CASE /\ j - Len(a) \in DOMAIN b /\ c[j] = b[j - Len(a)]
             /\ k - Len(a) \in DOMAIN b /\ c[k] = b[k - Len(a)]
    <3>1. j - Len(a) = k - Len(a)
      BY <2>4 DEF IsInjective
    <3> QED  BY <2>1, <3>1
  <2> QED  BY <1>2, <2>2, <2>3, <2>4
<1> QED  BY <1>1, <1>3, <1>4 DEF c

LEMMA AppendedOnce ==
  ASSUME NEW S, NEW a \in Seq(S), NEW x \in S, IsInjective(a), x \notin ToSet(a),
         NEW c \in Seq(S), Len(c) = Len(a) + 1, c[Len(a) + 1] = x,
         \A k \in 1..Len(a) : c[k] = a[k]
  PROVE  IsInjective(c) /\ ToSet(c) = ToSet(a) \cup {x}
<1>1. /\ Len(a) \in Nat /\ DOMAIN a = 1..Len(a)
      /\ DOMAIN c = 1..(Len(a) + 1) /\ c[Len(a) + 1] = x
      /\ \A k \in 1..Len(a) : c[k] = a[k]
  OBVIOUS
<1>2. \A k \in 1..(Len(a) + 1) : k \in 1..Len(a) \/ k = Len(a) + 1
  BY <1>1
<1>3. \A k \in 1..Len(a) : a[k] # x
  BY <1>1 DEF ToSet
<1>4. IsInjective(c)
  BY <1>1, <1>2, <1>3 DEF IsInjective
<1>5. ToSet(c) = ToSet(a) \cup {x}
  BY <1>1, <1>2 DEF ToSet
<1> QED  BY <1>4, <1>5

LEMMA AppendFacts ==
  ASSUME NEW S, NEW a \in Seq(S), NEW x \in S, NEW c, c = Append(a, x)
  PROVE  /\ c \in Seq(S) /\ Len(c) = Len(a) + 1 /\ c[Len(a) + 1] = x
         /\ \A k \in 1..Len(a) : c[k] = a[k]
  OBVIOUS

(* What is kept, with the ids that stay. *)
LEMMA KeptIds ==
  ASSUME StopsInv, NEW S
  PROVE  /\ Kept(stops, S) \in Seq(Stop) /\ IsInjective(Ids(Kept(stops, S)))
         /\ ToSet(Ids(Kept(stops, S))) = {s.id : s \in ToSet(stops) \cap S}
         /\ ToSet(Ids(Kept(stops, S))) \subseteq Waiting
<1>1. stops \in Seq(Stop) /\ Distinct(stops)
  BY DistinctIds DEF StopsInv, OneFate
<1>2. /\ Kept(stops, S) \in Seq(Stop) /\ Distinct(Kept(stops, S))
      /\ ToSet(Kept(stops, S)) = ToSet(stops) \cap S
  BY <1>1, KeptFacts
<1>3. /\ IsInjective(Ids(Kept(stops, S)))
      /\ ToSet(Ids(Kept(stops, S))) = {s.id : s \in ToSet(Kept(stops, S))}
  BY <1>2, DistinctIds, IdsFacts
<1>4. Waiting = {s.id : s \in ToSet(stops)}
  BY <1>1, IdsFacts DEF Waiting
<1> QED  BY <1>2, <1>3, <1>4

LEMMA SameIdSameStop ==
  ASSUME StopsInv, NEW s \in ToSet(stops), NEW t \in ToSet(stops), s.id = t.id
  PROVE  s = t
<1>1. stops \in Seq(Stop) /\ Distinct(stops)
  BY DistinctIds DEF StopsInv, OneFate
<1>2. \A x \in ToSet(stops) : \E k \in 1..Len(stops) : stops[k] = x
  BY <1>1 DEF ToSet
<1> QED  BY <1>1, <1>2 DEF Distinct

LEMMA QueueGrows ==
  ASSUME StopsInv, NEW id \in StopIds, id \notin Gone, queued' = Append(queued, id)
  PROVE  queued' \in Seq(StopIds) /\ IsInjective(queued') /\ ToSet(queued') = Gone \cup {id}
<1>1. PICK a, c :
        /\ a \in Seq(StopIds) /\ a = queued /\ IsInjective(a) /\ id \notin ToSet(a)
        /\ c = queued' /\ c = Append(a, id)
  BY DEF StopsInv, OneFate, Gone
<1>2. /\ c \in Seq(StopIds) /\ Len(c) = Len(a) + 1 /\ c[Len(a) + 1] = id
      /\ \A k \in 1..Len(a) : c[k] = a[k]
  BY <1>1, AppendFacts
<1> HIDE <1>1
<1>3. a \in Seq(StopIds) /\ IsInjective(a) /\ id \notin ToSet(a)
  BY <1>1
<1>4. IsInjective(c) /\ ToSet(c) = ToSet(a) \cup {id}
  BY <1>2, <1>3, AppendedOnce
<1>5. a = queued /\ c = queued'
  BY <1>1
<1> QED  BY <1>2, <1>4, <1>5 DEF Gone

LEMMA AddStopKeeps ==
  ASSUME StopsInv, NEW s \in Stop, AddStop(s) \/ PlaceStop(s)
  PROVE  StopsInv'
<1>1. s.id \in StopIds /\ s.id \notin Waiting \cup Gone \cup withdrawn
  BY DEF Stop, AddStop, PlaceStop, Placed, Waiting, Gone
<1>2. CASE AddStop(s)
  <2>1. stops' = Append(stops, s) /\ queued' = queued /\ withdrawn' = withdrawn
        /\ mark' = mark /\ index' = index /\ ewma' = ewma
    BY <1>2 DEF AddStop, markVars
  <2>2. stops \in Seq(Stop) /\ stops' \in Seq(Stop)
    BY <2>1 DEF StopsInv
  <2>3. Ids(stops)' = Append(Ids(stops), s.id)
    <3>1. /\ Ids(stops) \in Seq(StopIds) /\ Len(Ids(stops)) = Len(stops)
          /\ \A k \in 1..Len(stops) : Ids(stops)[k] = stops[k].id
      BY <2>2, IdsFacts
    <3>2. /\ Len(stops) \in Nat /\ DOMAIN stops' = 1..(Len(stops) + 1)
          /\ stops'[Len(stops) + 1] = s /\ \A k \in 1..Len(stops) : stops'[k] = stops[k]
      BY <2>1, <2>2
    <3>3. Ids(stops)' = [k \in 1..(Len(stops) + 1) |-> stops'[k].id]
      BY <3>2 DEF Ids
    <3>4. \A k \in 1..(Len(stops) + 1) : k \in 1..Len(stops) \/ k = Len(stops) + 1
      BY <3>2
    <3>5. /\ Append(Ids(stops), s.id)
               = [k \in 1..(Len(stops) + 1) |-> Append(Ids(stops), s.id)[k]]
          /\ \A k \in 1..Len(stops) : Append(Ids(stops), s.id)[k] = Ids(stops)[k]
          /\ Append(Ids(stops), s.id)[Len(stops) + 1] = s.id
      BY <1>1, <3>1
    <3>6. \A k \in 1..(Len(stops) + 1) : stops'[k].id = Append(Ids(stops), s.id)[k]
      BY <3>1, <3>2, <3>4, <3>5
    <3> QED  BY <3>3, <3>5, <3>6
  <2>4. IsInjective(Ids(stops)') /\ ToSet(Ids(stops)') = Waiting \cup {s.id}
    <3>1. PICK a, c :
            a \in Seq(StopIds) /\ a = Ids(stops) /\ c = Ids(stops)' /\ c = Append(a, s.id)
      BY <2>2, <2>3, IdsFacts
    <3>2. a \in Seq(StopIds) /\ IsInjective(a) /\ s.id \notin ToSet(a)
      BY <1>1, <3>1 DEF StopsInv, OneFate, Waiting
    <3>3. IsInjective(c) /\ ToSet(c) = ToSet(a) \cup {s.id}
      <4>1. /\ c \in Seq(StopIds) /\ Len(c) = Len(a) + 1 /\ c[Len(a) + 1] = s.id
            /\ \A k \in 1..Len(a) : c[k] = a[k]
        BY <1>1, <3>1, AppendFacts
      <4> QED  BY <1>1, <3>2, <4>1, AppendedOnce
    <3> QED  BY <3>1, <3>3 DEF Waiting
  <2> QED  BY <1>1, <2>1, <2>2, <2>4 DEF StopsInv, OneFate, Waiting, Gone
<1>3. CASE PlaceStop(s)
  <2>1. queued' = Append(queued, s.id) /\ stops' = stops /\ withdrawn' = withdrawn
        /\ mark' = mark /\ index' = index /\ ewma' = ewma
    BY <1>3 DEF PlaceStop, markVars
  <2>2. queued' \in Seq(StopIds) /\ IsInjective(queued') /\ ToSet(queued') = Gone \cup {s.id}
    BY <1>1, <2>1, QueueGrows
  <2>3. Ids(stops)' = Ids(stops)
    BY <2>1
  <2> QED  BY <1>1, <2>1, <2>2, <2>3 DEF StopsInv, OneFate, Waiting, Gone
<1> QED  BY <1>2, <1>3

LEMMA WithdrawKeeps ==
  ASSUME StopsInv,
         (\E id \in StopIds : RemoveStop(id)) \/ (\E user \in Users : CancelUser(user))
  PROVE  StopsInv'
<1>1. PICK S, W :
        /\ stops' = Kept(stops, S) /\ withdrawn' = withdrawn \cup W
        /\ queued' = queued /\ mark' = mark /\ index' = index /\ ewma' = ewma
        /\ W \subseteq Waiting /\ \A s \in ToSet(stops) \cap S : s.id \notin W
  <2>1. Waiting = {s.id : s \in ToSet(stops)}
    BY IdsFacts DEF StopsInv, Waiting
  <2>2. ASSUME NEW id \in StopIds, RemoveStop(id)
        PROVE  /\ stops' = Kept(stops, {s \in ToSet(stops) : s.id # id})
               /\ withdrawn' = withdrawn \cup {id} /\ {id} \subseteq Waiting
               /\ queued' = queued /\ mark' = mark /\ index' = index /\ ewma' = ewma
    BY <2>2 DEF RemoveStop, markVars, Waiting
  <2>3. ASSUME NEW user \in Users, CancelUser(user)
        PROVE  /\ stops' = Kept(stops, {s \in ToSet(stops) : s.user # user})
               /\ withdrawn' = withdrawn \cup {s.id : s \in {t \in ToSet(stops) : t.user = user}}
               /\ queued' = queued /\ mark' = mark /\ index' = index /\ ewma' = ewma
    BY <2>3 DEF CancelUser, markVars
  <2>4. CASE \E id \in StopIds : RemoveStop(id)
    <3>1. PICK id \in StopIds : RemoveStop(id)
      BY <2>4
    <3> DEFINE A == {s \in ToSet(stops) : s.id # id}
    <3>2. \A s \in ToSet(stops) \cap A : s.id \notin {id}
      OBVIOUS
    <3>3. /\ stops' = Kept(stops, A) /\ withdrawn' = withdrawn \cup {id}
          /\ {id} \subseteq Waiting
          /\ queued' = queued /\ mark' = mark /\ index' = index /\ ewma' = ewma
      BY <2>2, <3>1
    <3> HIDE DEF A
    <3> QED  BY <3>2, <3>3
  <2>5. CASE \E user \in Users : CancelUser(user)
    <3>1. PICK user \in Users : CancelUser(user)
      BY <2>5
    <3> DEFINE A == {s \in ToSet(stops) : s.user # user}
               W == {s.id : s \in {t \in ToSet(stops) : t.user = user}}
    <3>2. W \subseteq Waiting
      BY <2>1
    <3>3. \A s \in ToSet(stops) \cap A : s.id \notin W
      BY SameIdSameStop
    <3>4. /\ stops' = Kept(stops, A) /\ withdrawn' = withdrawn \cup W
          /\ queued' = queued /\ mark' = mark /\ index' = index /\ ewma' = ewma
      BY <2>3, <3>1
    <3> HIDE DEF A, W
    <3> QED  BY <3>2, <3>3, <3>4
  <2> QED  BY <2>4, <2>5
<1>2. /\ stops' \in Seq(Stop) /\ IsInjective(Ids(stops)')
      /\ ToSet(Ids(stops)') = {s.id : s \in ToSet(stops) \cap S}
      /\ ToSet(Ids(stops)') \subseteq Waiting
  BY <1>1, KeptIds
<1>3. ToSet(Ids(stops)') \cap W = {}
  BY <1>1, <1>2
<1> QED  BY <1>1, <1>2, <1>3 DEF StopsInv, OneFate, Waiting

LEMMA ScanKeeps ==
  ASSUME StopsInv, NEW m, NEW i, Scan(m, i), withdrawn' = withdrawn
  PROVE  /\ stops' \in Seq(Stop) /\ queued' \in Seq(StopIds) /\ OneFate'
         /\ \A s \in ToSet(stops) : s.id \in ToSet(queued') => Fires(s, m, i)
<1> DEFINE F == {s \in ToSet(stops) : Fires(s, m, i)}
           R == ToSet(stops) \ F
<1>1. queued' = queued \o Ids(Kept(stops, F)) /\ stops' = Kept(stops, R)
  BY DEF Scan
<1>2. \A s \in ToSet(stops) : s \in F <=> Fires(s, m, i)
  OBVIOUS
<1>3. F \cap R = {} /\ F \subseteq ToSet(stops) /\ R \subseteq ToSet(stops)
  OBVIOUS
<1> HIDE DEF F, R
<1>4. /\ Kept(stops, F) \in Seq(Stop) /\ IsInjective(Ids(Kept(stops, F)))
      /\ ToSet(Ids(Kept(stops, F))) = {s.id : s \in ToSet(stops) \cap F}
      /\ ToSet(Ids(Kept(stops, F))) \subseteq Waiting
      /\ Ids(Kept(stops, F)) \in Seq(StopIds)
  BY KeptIds, IdsFacts
<1>5. /\ stops' \in Seq(Stop) /\ IsInjective(Ids(stops)')
      /\ ToSet(Ids(stops)') = {s.id : s \in ToSet(stops) \cap R}
      /\ ToSet(Ids(stops)') \subseteq Waiting
  BY <1>1, KeptIds
<1>6. /\ queued' \in Seq(StopIds) /\ IsInjective(queued')
      /\ ToSet(queued') = Gone \cup ToSet(Ids(Kept(stops, F)))
  <2>1. /\ queued \in Seq(StopIds) /\ IsInjective(queued)
        /\ ToSet(queued) \cap ToSet(Ids(Kept(stops, F))) = {}
    BY <1>4 DEF StopsInv, OneFate, Waiting
  <2> QED  BY <1>1, <1>4, <2>1, ConcatInjective DEF Gone
<1>7. ToSet(Ids(Kept(stops, F))) \cap ToSet(Ids(stops)') = {}
  BY <1>3, <1>4, <1>5, SameIdSameStop
<1>8. Waiting \cap Gone = {} /\ (Waiting \cup Gone) \cap withdrawn = {}
  BY DEF StopsInv, OneFate, Waiting, Gone
<1>9. OneFate'
  BY <1>4, <1>5, <1>6, <1>7, <1>8 DEF OneFate
<1>10. ASSUME NEW s \in ToSet(stops), s.id \in ToSet(queued')  PROVE Fires(s, m, i)
  <2>1. s.id \in Waiting
    BY IdsFacts DEF StopsInv, Waiting
  <2>2. PICK t \in ToSet(stops) \cap F : t.id = s.id
    BY <1>4, <1>6, <1>8, <1>10, <2>1
  <2> QED  BY <1>2, <2>2, SameIdSameStop
<1> QED  BY <1>5, <1>6, <1>9, <1>10

(* std::clamp keeps the mark near the index. *)
LEMMA ClampedNear ==
  ASSUME NEW p \in Int, NEW i \in Prices
  PROVE  Clamped(p, i) \in Nat /\ NearIndex(Clamped(p, i), i)
<1> DEFINE near == {m \in 0..(2 * i) : NearIndex(m, i)}
           Dist(m) == IF m < p THEN p - m ELSE m - p
           T == {Dist(m) : m \in near}
<1>1. i \in Nat \ {0} /\ MarkClamp \in 0..100
  BY MarkPriceAssumption
<1>2. i \in near
  <2>1. i \in 0..(2 * i)
    BY <1>1
  <2>2. 100 * i \in ((100 - MarkClamp) * i)..((100 + MarkClamp) * i)
    <3>1. /\ (100 - MarkClamp) * i = 100 * i - MarkClamp * i
          /\ (100 + MarkClamp) * i = 100 * i + MarkClamp * i
          /\ MarkClamp * i \in Nat
      BY <1>1
    <3> QED  BY <1>1, <3>1
  <2> QED  BY <2>1, <2>2 DEF NearIndex
<1>3. near \subseteq Nat /\ \A m \in near : Dist(m) \in Nat
  BY <1>1
<1>4. PICK m \in near : \A k \in near : Dist(m) <= Dist(k)
  <2>1. T \in SUBSET Nat /\ T # {}
    BY <1>2, <1>3
  <2>2. PICK d \in T : \A e \in T : d <= e
    <3> HIDE DEF T
    <3> QED  BY <2>1, SmallestNat
  <2> QED  BY <2>2
<1>5. Clamped(p, i) \in near
  BY <1>4 DEF Clamped
<1> QED  BY <1>3, <1>5

LEMMA TickFacts ==
  ASSUME StopsInv, NEW i \in Prices, NEW mid \in Mids, Tick(i, mid)
  PROVE  /\ StopsInv' /\ index' = i
         /\ mark' \in Nat /\ NearIndex(mark', i)
         /\ \A s \in ToSet(stops) : s.id \in ToSet(queued') => Fires(s, mark', i)
<1>1. i \in Nat /\ mid \in Nat /\ ewma \in Int
  BY MarkPriceAssumption DEF StopsInv
<1>2. ewma' \in Int
  BY <1>1 DEF Tick, UpdateMark, Smoothed, Basis
<1>3. mark' = Clamped(i + ewma', i) /\ index' = i /\ withdrawn' = withdrawn
  BY DEF Tick, UpdateMark
<1>4. mark' \in Nat /\ NearIndex(mark', i)
  BY <1>1, <1>2, <1>3, ClampedNear
<1>5. /\ stops' \in Seq(Stop) /\ queued' \in Seq(StopIds) /\ OneFate'
      /\ \A s \in ToSet(stops) : s.id \in ToSet(queued') => Fires(s, mark', i)
  <2>1. CASE Frozen
    <3>1. stops' = stops /\ queued' = queued
      BY <2>1 DEF Tick
    <3>2. \A s \in ToSet(stops) : s.id \in Waiting /\ s.id \notin Gone
      BY IdsFacts DEF StopsInv, OneFate, Waiting, Gone
    <3> QED  BY <1>3, <3>1, <3>2 DEF StopsInv, OneFate, Waiting, Gone
  <2>2. CASE ~Frozen
    <3>1. PICK m : m = mark'
      OBVIOUS
    <3>2. Scan(m, i)
      BY <2>2, <3>1 DEF Tick, Scan
    <3> QED  BY <1>3, <3>1, <3>2, ScanKeeps
  <2> QED  BY <2>1, <2>2
<1> QED  BY <1>2, <1>3, <1>4, <1>5 DEF StopsInv

LEMMA StopsInitially == Init => StopsInv
<1> SUFFICES ASSUME Init  PROVE StopsInv
  OBVIOUS
<1>1. stops = <<>> /\ queued = <<>> /\ withdrawn = {}
  BY DEF Init
<1>2. Ids(<<>>) = <<>> /\ ToSet(<<>>) = {} /\ IsInjective(<<>>)
  BY DEF Ids, ToSet, IsInjective
<1>3. mark \in Int /\ index \in Prices /\ ewma \in Int
  BY MarkPriceAssumption DEF Init, InitMark
<1> QED  BY <1>1, <1>2, <1>3 DEF StopsInv, OneFate

LEMMA StopsPreserved ==
  ASSUME StopsInv, [Next]_vars  PROVE StopsInv'
<1>1. CASE (\E s \in {"TRADING", "COOLDOWN", "EMERGENCY"} : SetState(s)) \/ UNCHANGED vars
  <2>1. stops' = stops /\ queued' = queued /\ withdrawn' = withdrawn
        /\ mark' = mark /\ index' = index /\ ewma' = ewma
    BY <1>1 DEF SetState, vars, markVars
  <2> QED  BY <2>1 DEF StopsInv, OneFate
<1> QED  BY <1>1, AddStopKeeps, WithdrawKeeps, TickFacts DEF Next, SomeTick

(* No stop fires twice, or after it was withdrawn, or waits on after it       *)
(* fired: each is in one place, once, for any stops, triggers and prices.    *)
THEOREM StopsHaveOneFate == Spec => []OneFate
<1>1. StopsInv => OneFate
  BY DEF StopsInv
<1> QED  BY <1>1, StopsInitially, StopsPreserved, PTL DEF Spec

(* A stop that enters the queue fired, and it did so on the new mark. *)
LEMMA OnlyTicksFire ==
  ASSUME StopsInv, [Next]_vars, NEW s \in ToSet(stops), s.id \in ToSet(queued')
  PROVE  \E i \in Prices : /\ index' = i /\ mark' \in Nat /\ NearIndex(mark', i)
                           /\ Fires(s, mark', i)
<1>1. s.id \in Waiting /\ s.id \notin Gone
  BY IdsFacts DEF StopsInv, OneFate, Waiting, Gone
<1>2. queued' # queued
  BY <1>1 DEF Gone
<1>3. CASE SomeTick
  BY <1>3, TickFacts DEF SomeTick
<1>4. ASSUME NEW t \in Stop, PlaceStop(t)  PROVE FALSE
  <2>1. queued' = Append(queued, t.id) /\ t.id \notin Waiting \cup Gone /\ t.id \in StopIds
    BY <1>4 DEF PlaceStop, Placed, Waiting, Gone, Stop
  <2>2. ToSet(queued') = Gone \cup {t.id}
    BY <2>1, QueueGrows
  <2> QED  BY <1>1, <2>1, <2>2
<1> QED  BY <1>2, <1>3, <1>4 DEF Next, AddStop, RemoveStop, CancelUser, SetState, vars

(* However far the book's mid is moved, and however long, a stop on the mark  *)
(* fires only while the index is within the clamp of its trigger.            *)
THEOREM StopsIndexBehindMark == Spec => IndexBehindMark
<1> DEFINE Behind ==
      \A s \in ToSet(stops) :
        s.source = "MARK" /\ s.id \in ToSet(queued') =>
            IF s.side = "BUY" THEN 100 * s.trigger <= (100 + MarkClamp) * index'
            ELSE 100 * s.trigger >= (100 - MarkClamp) * index'
<1>1. ASSUME StopsInv, [Next]_vars  PROVE Behind
  <2> SUFFICES ASSUME NEW s \in ToSet(stops), s.source = "MARK", s.id \in ToSet(queued')
               PROVE  IF s.side = "BUY" THEN 100 * s.trigger <= (100 + MarkClamp) * index'
                      ELSE 100 * s.trigger >= (100 - MarkClamp) * index'
    OBVIOUS
  <2>1. PICK i \in Prices, m \in Nat : index' = i /\ NearIndex(m, i) /\ Fires(s, m, i)
    BY <1>1, OnlyTicksFire
  <2>2. s.trigger \in Nat /\ i \in Nat /\ MarkClamp \in 0..100
    <3>1. s \in Stop
      BY <1>1, IdsFacts DEF StopsInv
    <3> QED  BY <3>1, StopAssumption, MarkPriceAssumption DEF Stop
  <2>3. IF s.side = "BUY" THEN m >= s.trigger ELSE m <= s.trigger
    BY <2>1 DEF Fires, Reached
  <2>4. (100 - MarkClamp) * i <= 100 * m /\ 100 * m <= (100 + MarkClamp) * i
    BY <2>1, <2>2 DEF NearIndex
  <2>5. PICK low \in Int, high \in Int : low = (100 - MarkClamp) * i /\ high = (100 + MarkClamp) * i
    BY <2>2
  <2> QED  BY <2>1, <2>2, <2>3, <2>4, <2>5
<1>2. StopsInv /\ [Next]_vars => Behind
  BY <1>1
<1> QED  BY <1>2, StopsInitially, StopsPreserved, PTL DEF Spec, IndexBehindMark
=============================================================================
