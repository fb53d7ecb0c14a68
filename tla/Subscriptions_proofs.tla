------------------------- MODULE Subscriptions_proofs -------------------------
(***************************************************************************)
(* Theorems about Subscriptions: for any number of sockets, streams, users  *)
(* and publishers, the maps of SubscriptionManager agree and only connected *)
(* ids are subscribed.                                                      *)
(***************************************************************************)
EXTENDS Subscriptions, TLAPS

(* The maps alone are not inductive: an id must be connected to subscribe,  *)
(* and only the id that is closing has been unsubscribed from everything     *)
(* while it is still in the connection tables.                               *)
SubsInv ==
    /\ topic_subs \in [Topics -> SUBSET Ids]
    /\ IsMap(sub_topics, Ids)
    /\ \A id \in DOMAIN sub_topics : sub_topics[id] \subseteq Topics
    /\ IsMap(auth_map, Ids) /\ \A id \in DOMAIN auth_map : auth_map[id] \in Users
    /\ MapsAgree
    /\ DOMAIN sub_topics \subseteq DOMAIN id_to_ws \ closing
    /\ closing \subseteq Ids

ConnInv ==
    /\ IsMap(id_to_ws, Ids)
    /\ next_id \in Nat \ {0}
    /\ \A id \in DOMAIN id_to_ws : id < next_id

Inv == SubsInv /\ ConnInv

LEMMA PutFacts ==
    ASSUME NEW f, NEW K, IsMap(f, K), NEW k \in K, NEW v
    PROVE  /\ IsMap(Put(f, k, v), K)
           /\ DOMAIN Put(f, k, v) = DOMAIN f \cup {k}
           /\ Put(f, k, v)[k] = v
           /\ \A j \in DOMAIN f : j # k => Put(f, k, v)[j] = f[j]
BY DEF IsMap, Put

LEMMA EraseFacts ==
    ASSUME NEW f, NEW K, IsMap(f, K), NEW k
    PROVE  /\ IsMap(Erase(f, k), K)
           /\ DOMAIN Erase(f, k) = DOMAIN f \ {k}
           /\ \A j \in DOMAIN Erase(f, k) : Erase(f, k)[j] = f[j]
BY DEF IsMap, Erase, Restrict

-----------------------------------------------------------------------------
(* The operations of SubscriptionManager. *)

LEMMA SubscribeKeeps ==
    ASSUME SubsInv, NEW id \in DOMAIN id_to_ws, id \in Ids, NEW topic \in Topics,
           Subscribe(id, topic), closing = {}, UNCHANGED <<id_to_ws, closing>>
    PROVE  SubsInv'
<1> DEFINE mine == Lookup(sub_topics, id, {}) \cup {topic}
<1>1. /\ topic_subs' = [topic_subs EXCEPT ![topic] = @ \cup {id}]
      /\ sub_topics' = Put(sub_topics, id, mine) /\ auth_map' = auth_map
  BY DEF Subscribe
<1>2. mine \subseteq Topics /\ topic \in mine
  BY DEF SubsInv, Lookup
<1>3. \A t \in Topics : t # topic => (t \in mine <=> id \in DOMAIN sub_topics /\ t \in sub_topics[id])
  BY DEF Lookup
<1> HIDE DEF mine
<1>4. /\ IsMap(sub_topics', Ids) /\ DOMAIN sub_topics' = DOMAIN sub_topics \cup {id}
      /\ sub_topics'[id] = mine
      /\ \A j \in DOMAIN sub_topics : j # id => sub_topics'[j] = sub_topics[j]
  <2>1. IsMap(sub_topics, Ids) /\ id \in Ids
    BY DEF SubsInv
  <2>2. sub_topics' = Put(sub_topics, id, mine)
    BY <1>1
  <2> QED  BY <2>1, <2>2 DEF Put, IsMap
<1>5. MapsAgree'
  BY <1>1, <1>2, <1>3, <1>4 DEF SubsInv, MapsAgree
<1> QED  BY <1>1, <1>2, <1>4, <1>5 DEF SubsInv

LEMMA UnsubscribeKeeps ==
    ASSUME SubsInv, NEW id \in Ids, NEW topic \in Topics, Unsubscribe(id, topic),
           UNCHANGED <<id_to_ws, closing>>
    PROVE  SubsInv'
<1>1. topic_subs' = [topic_subs EXCEPT ![topic] = @ \ {id}] /\ auth_map' = auth_map
  BY DEF Unsubscribe
<1>2. CASE id \in DOMAIN sub_topics
  <2>1. sub_topics' = Put(sub_topics, id, sub_topics[id] \ {topic})
    BY <1>2 DEF Unsubscribe
  <2>2. /\ IsMap(sub_topics', Ids) /\ DOMAIN sub_topics' = DOMAIN sub_topics
        /\ sub_topics'[id] = sub_topics[id] \ {topic}
        /\ \A j \in DOMAIN sub_topics : j # id => sub_topics'[j] = sub_topics[j]
    <3> DEFINE rest == sub_topics[id] \ {topic}
    <3>1. IsMap(sub_topics, Ids)
      BY DEF SubsInv
    <3>2. sub_topics' = Put(sub_topics, id, rest)
      BY <2>1
    <3> HIDE DEF rest
    <3>3. /\ IsMap(sub_topics', Ids) /\ DOMAIN sub_topics' = DOMAIN sub_topics \cup {id}
          /\ sub_topics'[id] = rest
          /\ \A j \in DOMAIN sub_topics : j # id => sub_topics'[j] = sub_topics[j]
      BY <3>1, <3>2 DEF Put, IsMap
    <3> QED  BY <1>2, <3>3 DEF rest
  <2>3. MapsAgree'
    BY <1>1, <1>2, <2>2 DEF SubsInv, MapsAgree
  <2> QED  BY <1>1, <2>2, <2>3 DEF SubsInv
<1>3. CASE id \notin DOMAIN sub_topics
  <2>1. sub_topics' = sub_topics
    BY <1>3 DEF Unsubscribe
  <2>2. MapsAgree'
    BY <1>1, <1>3, <2>1 DEF SubsInv, MapsAgree
  <2> QED  BY <1>1, <2>1, <2>2 DEF SubsInv
<1> QED  BY <1>2, <1>3

LEMMA UnsubscribeAllKeeps ==
    ASSUME SubsInv, NEW id \in Ids, UnsubscribeAll(id), closing' = {id}, closing = {},
           UNCHANGED id_to_ws
    PROVE  SubsInv'
<1>1. CASE id \notin DOMAIN sub_topics
  <2>1. UNCHANGED <<topic_subs, sub_topics, auth_map>>
    BY <1>1 DEF UnsubscribeAll, subsVars
  <2> QED  BY <1>1, <2>1 DEF SubsInv, MapsAgree
<1>2. CASE id \in DOMAIN sub_topics
  <2>1. /\ topic_subs' = [t \in Topics |->
             IF t \in sub_topics[id] THEN topic_subs[t] \ {id} ELSE topic_subs[t]]
        /\ sub_topics' = Erase(sub_topics, id) /\ auth_map' = Erase(auth_map, id)
    BY <1>2 DEF UnsubscribeAll
  <2>2. /\ IsMap(sub_topics', Ids) /\ DOMAIN sub_topics' = DOMAIN sub_topics \ {id}
        /\ \A j \in DOMAIN sub_topics' : sub_topics'[j] = sub_topics[j]
    BY <2>1, EraseFacts DEF SubsInv
  <2>3. /\ IsMap(auth_map', Ids) /\ DOMAIN auth_map' = DOMAIN auth_map \ {id}
        /\ \A j \in DOMAIN auth_map' : auth_map'[j] = auth_map[j]
    BY <2>1, EraseFacts DEF SubsInv
  <2>4. topic_subs' \in [Topics -> SUBSET Ids]
    BY <2>1 DEF SubsInv
  <2>5. MapsAgree'
    BY <1>2, <2>1, <2>2 DEF SubsInv, MapsAgree
  <2> QED  BY <1>2, <2>2, <2>3, <2>4, <2>5 DEF SubsInv
<1> QED  BY <1>1, <1>2

-----------------------------------------------------------------------------
(* The steps. *)

LEMMA InitInv == Init => Inv
BY DEF Init, Inv, SubsInv, ConnInv, MapsAgree, IsMap

LEMMA NextInv == Inv /\ [Next]_vars => Inv'
<1> SUFFICES ASSUME Inv, [Next]_vars  PROVE Inv'
  OBVIOUS
<1>1. ASSUME NEW ws \in Sockets, Open(ws)  PROVE Inv'
  <2>1. /\ next_id \in Ids /\ next_id' = next_id + 1 /\ next_id \notin DOMAIN id_to_ws
        /\ id_to_ws' = Put(id_to_ws, next_id, ws)
        /\ UNCHANGED <<topic_subs, sub_topics, auth_map, closing>>
    BY <1>1, SubscriptionsAssumption DEF Open, subsVars, Inv, ConnInv, Ids
  <2>2. IsMap(id_to_ws', Ids) /\ DOMAIN id_to_ws' = DOMAIN id_to_ws \cup {next_id}
    BY <2>1, PutFacts DEF Inv, ConnInv
  <2>3. ConnInv'
    BY <2>1, <2>2 DEF Inv, ConnInv, IsMap, Ids
  <2>4. SubsInv'
    BY <2>1, <2>2 DEF Inv, SubsInv, MapsAgree
  <2> QED  BY <2>3, <2>4 DEF Inv
<1>2. ASSUME NEW id \in Ids, NEW stream \in Public \cup Private, HandleSubscribe(id, stream)
      PROVE  Inv'
  <2> DEFINE topic == [stream |-> stream,
                       user |-> IF stream \in Private THEN auth_map[id] ELSE NoUser]
  <2>1. /\ id \in DOMAIN id_to_ws /\ Subscribe(id, topic) /\ closing = {}
        /\ UNCHANGED <<id_to_ws, next_id, closing>>
    BY <1>2 DEF HandleSubscribe, LoopFree, wsVars
  <2>2. topic \in Topics
    BY <1>2 DEF HandleSubscribe, Inv, SubsInv, Topics
  <2> HIDE DEF topic
  <2>3. SubsInv'
    BY <2>1, <2>2, SubscribeKeeps DEF Inv
  <2> QED  BY <2>1, <2>3 DEF Inv, ConnInv
<1>3. ASSUME NEW id \in Ids, NEW stream \in Public \cup Private, HandleUnsubscribe(id, stream)
      PROVE  Inv'
  <2> DEFINE topic == [stream |-> stream, user |-> NoUser]
  <2>1. Unsubscribe(id, topic) /\ UNCHANGED <<id_to_ws, next_id, closing>>
    BY <1>3 DEF HandleUnsubscribe, wsVars
  <2>2. topic \in Topics
    BY DEF Topics
  <2> HIDE DEF topic
  <2>3. SubsInv'
    BY <2>1, <2>2, UnsubscribeKeeps DEF Inv
  <2> QED  BY <2>1, <2>3 DEF Inv, ConnInv
<1>4. ASSUME NEW id \in Ids, NEW user \in Users \cup {NoUser}, HandleAuth(id, user)  PROVE Inv'
  <2>1. /\ auth_map' = Put(auth_map, id, user) /\ user \in Users
        /\ UNCHANGED <<topic_subs, sub_topics, id_to_ws, next_id, closing>>
    BY <1>4 DEF HandleAuth, Authenticate, wsVars
  <2>2. /\ IsMap(auth_map', Ids) /\ DOMAIN auth_map' = DOMAIN auth_map \cup {id}
        /\ auth_map'[id] = user
        /\ \A j \in DOMAIN auth_map : j # id => auth_map'[j] = auth_map[j]
    <3>1. IsMap(auth_map, Ids)
      BY DEF Inv, SubsInv
    <3>2. /\ IsMap(Put(auth_map, id, user), Ids)
          /\ DOMAIN Put(auth_map, id, user) = DOMAIN auth_map \cup {id}
          /\ Put(auth_map, id, user)[id] = user
          /\ \A j \in DOMAIN auth_map : j # id => Put(auth_map, id, user)[j] = auth_map[j]
      BY <3>1 DEF IsMap, Put
    <3> QED  BY <2>1, <3>2
  <2> QED  BY <2>1, <2>2 DEF Inv, SubsInv, ConnInv, MapsAgree
<1>5. ASSUME NEW id \in Ids, CloseUnsubscribe(id)  PROVE Inv'
  <2>1. /\ UnsubscribeAll(id) /\ closing = {} /\ closing' = {id}
        /\ UNCHANGED <<id_to_ws, next_id>>
    BY <1>5 DEF CloseUnsubscribe, LoopFree, wsVars
  <2>2. SubsInv'
    BY <2>1, UnsubscribeAllKeeps DEF Inv
  <2> QED  BY <2>1, <2>2 DEF Inv, ConnInv
<1>6. ASSUME NEW id \in Ids, CloseErase(id)  PROVE Inv'
  <2>1. /\ id \in closing /\ id_to_ws' = Erase(id_to_ws, id) /\ closing' = {}
        /\ UNCHANGED <<topic_subs, sub_topics, auth_map, next_id>>
    BY <1>6 DEF CloseErase, subsVars
  <2>2. IsMap(id_to_ws', Ids) /\ DOMAIN id_to_ws' = DOMAIN id_to_ws \ {id}
    BY <2>1, EraseFacts DEF Inv, ConnInv
  <2>3. id \notin DOMAIN sub_topics
    BY <2>1 DEF Inv, SubsInv
  <2> QED  BY <2>1, <2>2, <2>3 DEF Inv, SubsInv, ConnInv, MapsAgree
<1>7. ASSUME Publishing \/ UNCHANGED vars  PROVE Inv'
  <2>1. UNCHANGED <<topic_subs, sub_topics, auth_map, id_to_ws, next_id, closing>>
    BY <1>7 DEF Publishing, Publish, FindSocket, Send, subsVars, wsVars, vars
  <2> QED  BY <2>1 DEF Inv, SubsInv, ConnInv, MapsAgree
<1> QED  BY <1>1, <1>2, <1>3, <1>4, <1>5, <1>6, <1>7 DEF Next, Loop

THEOREM InvHolds == Spec => []Inv
BY InitInv, NextInv, PTL DEF Spec

(* The two maps of SubscriptionManager never disagree. *)
THEOREM SubscriptionMapsAgree == Spec => []MapsAgree
<1>1. Inv => MapsAgree
  BY DEF Inv, SubsInv
<1> QED  BY <1>1, InvHolds, PTL

(* No topic holds the id of a closed connection, not even while the close   *)
(* callback is between its two locks.                                       *)
THEOREM OnlyConnectedSubscribe == Spec => []SubscribersConnected
<1>1. Inv => SubscribersConnected
  BY DEF Inv, SubsInv, MapsAgree, SubscribersConnected
<1> QED  BY <1>1, InvHolds, PTL
=============================================================================
