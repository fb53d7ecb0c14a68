---------------------------- MODULE Subscriptions ----------------------------
(***************************************************************************)
(* Fan-out to WebSocket clients: SubscriptionManager, the connection tables *)
(* of WebSocketServer, and Broadcaster, which the engine thread and the     *)
(* market thread call.                                                      *)
(*                                                                         *)
(* The uWS callbacks run one at a time on the loop thread; the close        *)
(* callback takes two locks one after the other.  A publisher reads the     *)
(* subscribers of a topic under one lock, the socket of each of them under  *)
(* another, and sends with no lock held.                                    *)
(***************************************************************************)
EXTENDS Integers, Maps

CONSTANTS
    Sockets,      \* addresses of uWS::WebSocket objects, reused after a close
    Public,       \* public streams, e.g. trade.BTC-USDC-PERP
    Private,      \* account streams: account.orders, account.positions, ...
    Users,
    NoUser,       \* the empty user id
    Publishers,   \* threads that call publish and publish_private
    MaxIds        \* bound: connections opened in one behaviour

ASSUME SubscriptionsAssumption ==
    /\ NoUser \notin Users
    /\ Public \cap Private = {}
    /\ MaxIds \in Nat

Ids == 1..MaxIds

(* A topic string: "<stream>" or "<stream>.<user>". *)
Topics == [stream : Public \cup Private, user : Users \cup {NoUser}]

VARIABLES
    topic_subs,   \* topic_subs_: {} for a topic without a key, as empty sets are erased
    sub_topics,   \* sub_topics_
    auth_map,     \* auth_map_
    id_to_ws,     \* id_to_ws_
    ws_to_id,     \* ws_to_id_
    next_id,      \* next_id_
    closing,      \* ids whose close callback is between its two locks
    publishing    \* per publisher: the ids still to serve, and the id and socket that
                  \* it has found and is about to send to

subsVars == <<topic_subs, sub_topics, auth_map>>
wsVars == <<id_to_ws, ws_to_id, next_id>>
vars == <<topic_subs, sub_topics, auth_map, id_to_ws, ws_to_id, next_id, closing,
          publishing>>

-----------------------------------------------------------------------------
(* SubscriptionManager, each operation under its mutex *)

Subscribe(id, topic) ==
    /\ topic_subs' = [topic_subs EXCEPT ![topic] = @ \cup {id}]
    /\ sub_topics' = Put(sub_topics, id, Lookup(sub_topics, id, {}) \cup {topic})
    /\ UNCHANGED auth_map

(* Mutant: the subscriber's own list keeps the topic. *)
UnsubscribeHalf(id, topic) ==
    /\ topic_subs' = [topic_subs EXCEPT ![topic] = @ \ {id}]
    /\ UNCHANGED <<sub_topics, auth_map>>

Unsubscribe(id, topic) ==
    /\ topic_subs' = [topic_subs EXCEPT ![topic] = @ \ {id}]
    /\ sub_topics' = IF id \in DOMAIN sub_topics
                     THEN Put(sub_topics, id, sub_topics[id] \ {topic}) ELSE sub_topics
    /\ UNCHANGED auth_map

(* An id that never subscribed returns early and keeps its auth_map_ entry. *)
UnsubscribeAll(id) ==
    IF id \notin DOMAIN sub_topics
    THEN UNCHANGED subsVars
    ELSE /\ topic_subs' = [t \in Topics |->
                IF t \in sub_topics[id] THEN topic_subs[t] \ {id} ELSE topic_subs[t]]
         /\ sub_topics' = Erase(sub_topics, id)
         /\ auth_map' = Erase(auth_map, id)

Authenticate(id, user) ==
    /\ auth_map' = Put(auth_map, id, user)
    /\ UNCHANGED <<topic_subs, sub_topics>>

-----------------------------------------------------------------------------
(* Callbacks of the loop thread *)

LoopFree == closing = {}

Open(ws) ==
    /\ LoopFree /\ ws \notin DOMAIN ws_to_id
    /\ next_id <= MaxIds
    /\ next_id' = next_id + 1
    /\ id_to_ws' = Put(id_to_ws, next_id, ws)
    /\ ws_to_id' = Put(ws_to_id, ws, next_id)
    /\ UNCHANGED <<subsVars, closing, publishing>>

(* Private streams need authentication, and are registered with the user id. *)
HandleSubscribe(id, stream) ==
    /\ LoopFree /\ id \in DOMAIN id_to_ws
    /\ stream \in Private => id \in DOMAIN auth_map
    /\ Subscribe(id, [stream |-> stream,
                      user |-> IF stream \in Private THEN auth_map[id] ELSE NoUser])
    /\ UNCHANGED <<wsVars, closing, publishing>>

(* The topic is taken as the client wrote it, the name of a stream. *)
HandleUnsubscribe(id, stream) ==
    /\ LoopFree /\ id \in DOMAIN id_to_ws
    /\ Unsubscribe(id, [stream |-> stream, user |-> NoUser])
    /\ UNCHANGED <<wsVars, closing, publishing>>

HandleAuth(id, user) ==
    /\ LoopFree /\ id \in DOMAIN id_to_ws
    /\ user # NoUser
    /\ Authenticate(id, user)
    /\ UNCHANGED <<wsVars, closing, publishing>>

(* Mutant: the close callback forgets the subscriptions. *)
CloseUnsubscribesNothing(id) ==
    /\ LoopFree /\ id \in DOMAIN id_to_ws
    /\ closing' = {id}
    /\ UNCHANGED <<subsVars, wsVars, publishing>>

CloseUnsubscribe(id) ==
    /\ LoopFree /\ id \in DOMAIN id_to_ws
    /\ UnsubscribeAll(id)
    /\ closing' = {id}
    /\ UNCHANGED <<wsVars, publishing>>

CloseErase(id) ==
    /\ id \in closing
    /\ id_to_ws' = Erase(id_to_ws, id)
    /\ ws_to_id' = Erase(ws_to_id, id_to_ws[id])
    /\ closing' = {}
    /\ UNCHANGED <<subsVars, next_id, publishing>>

-----------------------------------------------------------------------------
(* Broadcaster, on the threads that publish *)

(* publish for a topic without a user, publish_private for one with. *)
Publish(p, topic) ==
    /\ publishing[p] = [todo |-> {}, hand |-> {}]
    /\ publishing' = [publishing EXCEPT ![p].todo = topic_subs[topic]]
    /\ UNCHANGED <<subsVars, wsVars, closing>>

(* send_to finds the socket, or returns. *)
FindSocket(p, id) ==
    /\ publishing[p].hand = {} /\ id \in publishing[p].todo
    /\ publishing' = [publishing EXCEPT ![p] =
         [todo |-> @.todo \ {id},
          hand |-> IF id \in DOMAIN id_to_ws THEN {[id |-> id, ws |-> id_to_ws[id]]} ELSE {}]]
    /\ UNCHANGED <<subsVars, wsVars, closing>>

Send(p) ==
    /\ publishing[p].hand # {}
    /\ publishing' = [publishing EXCEPT ![p].hand = {}]
    /\ UNCHANGED <<subsVars, wsVars, closing>>

-----------------------------------------------------------------------------

Init ==
    /\ topic_subs = [t \in Topics |-> {}]
    /\ sub_topics = << >> /\ auth_map = << >>
    /\ id_to_ws = << >> /\ ws_to_id = << >>
    /\ next_id = 1 /\ closing = {}
    /\ publishing = [p \in Publishers |-> [todo |-> {}, hand |-> {}]]

Loop ==
    \/ \E ws \in Sockets : Open(ws)
    \/ \E id \in Ids :
        \/ \E stream \in Public \cup Private :
                HandleSubscribe(id, stream) \/ HandleUnsubscribe(id, stream)
        \/ \E user \in Users \cup {NoUser} : HandleAuth(id, user)
        \/ CloseUnsubscribe(id) \/ CloseErase(id)

Publishing ==
    \E p \in Publishers :
        \/ \E topic \in Topics : Publish(p, topic)
        \/ \E id \in Ids : FindSocket(p, id)
        \/ Send(p)

Next == Loop \/ Publishing

Spec == Init /\ [][Next]_vars

-----------------------------------------------------------------------------
(* Properties *)

(* The two maps of SubscriptionManager are inverses of each other, so that  *)
(* unsubscribe_all, which only knows the subscriber's topics, leaves no id   *)
(* behind in topic_subs_.                                                    *)
MapsAgree ==
    \A id \in Ids, t \in Topics :
        id \in topic_subs[t] <=> id \in DOMAIN sub_topics /\ t \in sub_topics[id]

(* Only connected ids are subscribed: whatever the publishers do, and       *)
(* whatever a client asked for, a closed connection leaves nothing that the  *)
(* next publish would visit.                                                 *)
SubscribersConnected == \A t \in Topics : topic_subs[t] \subseteq DOMAIN id_to_ws
=============================================================================
