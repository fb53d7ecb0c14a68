------------------------------ MODULE StopOrders ------------------------------
(***************************************************************************)
(* engine/stop_orders.{hpp,cpp}: stop-limit orders that wait for a price,   *)
(* and the market thread of main.cpp that scans them on every tick and puts *)
(* those that fire into the order queue.                                    *)
(*                                                                         *)
(* The thread passes the mark and the index that MarkPrice updates, and a   *)
(* last traded price that it read from the simulator when it started.  The  *)
(* program itself calls none of add, remove and cancel_user: they are the   *)
(* interface of the component, and here some client uses it.  A stop that a *)
(* WebSocket client places takes PlaceStop.                                 *)
(***************************************************************************)
EXTENDS MarkPrice, SequencesExt

CONSTANTS
    StopIds,       \* order ids of stops, each placed at most once
    Users,
    Triggers,      \* trigger prices clients choose
    Sources        \* the trigger sources clients choose

ASSUME StopAssumption ==
    Triggers \subseteq Nat /\ Sources \subseteq {"MARK", "LAST_TRADED", "INDEX"}

VARIABLES
    stops,      \* stops_, in the order in which they were added
    inst_state, \* Instrument::state
    queued,     \* history: ids of the orders put into order_queue, in order
    withdrawn   \* history: ids that remove or cancel_user took out

vars == <<stops, inst_state, markVars, queued, withdrawn>>

Stop == [id : StopIds, user : Users, side : {"BUY", "SELL"}, trigger : Triggers, source : Sources]

-----------------------------------------------------------------------------
(* on_price_update *)

Frozen == inst_state \in {"COOLDOWN", "EMERGENCY"}

(* Is a price at or beyond the trigger of the stop? *)
Reached(s, price) == IF s.side = "BUY" THEN price >= s.trigger ELSE price <= s.trigger

(* Mutant: the trigger itself does not fire. *)
FiresBeyond(s, m, i) ==
    LET price == CASE s.source = "MARK" -> m
                   [] s.source = "INDEX" -> i
                   [] s.source = "LAST_TRADED" -> InitialPrice
    IN  Reached(s, price) /\ price # s.trigger

Fires(s, m, i) ==
    Reached(s, CASE s.source = "MARK" -> m
                 [] s.source = "INDEX" -> i
                 [] s.source = "LAST_TRADED" -> InitialPrice)

Ids(ss) == [k \in DOMAIN ss |-> ss[k].id]

(* The stops of the vector that are in a set, in their order. *)
Kept(ss, S) ==
    LET kept[k \in 0..Len(ss)] ==
          IF k = 0 THEN <<>>
          ELSE IF ss[k] \in S THEN Append(kept[k - 1], ss[k]) ELSE kept[k - 1]
    IN  kept[Len(ss)]

(* The stops that fire leave the vector and enter the order queue in order. *)
Scan(m, i) ==
    LET firing == {s \in ToSet(stops) : Fires(s, m, i)}
    IN  /\ queued' = queued \o Ids(Kept(stops, firing))
        /\ stops' = Kept(stops, ToSet(stops) \ firing)

(* A tick of the market thread: new prices, then the scan. *)
Tick(i, mid) ==
    /\ UpdateMark(i, mid)
    /\ IF Frozen THEN UNCHANGED <<stops, queued>> ELSE Scan(mark', i)
    /\ UNCHANGED <<inst_state, withdrawn>>

-----------------------------------------------------------------------------
(* The other operations *)

Placed == ToSet(Ids(stops)) \cup ToSet(queued) \cup withdrawn

AddStop(s) ==
    /\ s.id \notin Placed
    /\ stops' = Append(stops, s)
    /\ UNCHANGED <<inst_state, markVars, queued, withdrawn>>

(* parse_order reads the type STOP_LIMIT; handle_place_order enqueues at once. *)
PlaceStop(s) ==
    /\ s.id \notin Placed
    /\ queued' = Append(queued, s.id)
    /\ UNCHANGED <<stops, inst_state, markVars, withdrawn>>

(* Mutant: remove reports the stop but leaves it. *)
RemoveStopKeeps(id) ==
    /\ id \in ToSet(Ids(stops))
    /\ withdrawn' = withdrawn \cup {id}
    /\ UNCHANGED <<stops, inst_state, markVars, queued>>

RemoveStop(id) ==
    /\ id \in ToSet(Ids(stops))
    /\ stops' = Kept(stops, {s \in ToSet(stops) : s.id # id})
    /\ withdrawn' = withdrawn \cup {id}
    /\ UNCHANGED <<inst_state, markVars, queued>>

CancelUser(user) ==
    /\ stops' = Kept(stops, {s \in ToSet(stops) : s.user # user})
    /\ withdrawn' = withdrawn \cup {s.id : s \in {t \in ToSet(stops) : t.user = user}}
    /\ UNCHANGED <<inst_state, markVars, queued>>

(* The circuit breakers. *)
SetState(s) ==
    /\ inst_state' = s
    /\ UNCHANGED <<stops, markVars, queued, withdrawn>>

-----------------------------------------------------------------------------

Init ==
    /\ stops = <<>> /\ inst_state = "TRADING"
    /\ InitMark
    /\ queued = <<>> /\ withdrawn = {}

SomeTick == \E i \in Prices, mid \in Mids : Tick(i, mid)

Next ==
    \/ \E s \in Stop : AddStop(s) \/ PlaceStop(s)
    \/ \E id \in StopIds : RemoveStop(id)
    \/ \E user \in Users : CancelUser(user)
    \/ SomeTick
    \/ \E s \in {"TRADING", "COOLDOWN", "EMERGENCY"} : SetState(s)

Spec == Init /\ [][Next]_vars

(* The market thread ticks. *)
FairSpec == Spec /\ WF_vars(SomeTick)

-----------------------------------------------------------------------------
(* Properties *)

(* A stop is in one place, once: waiting, in the order queue, or withdrawn. *)
(* No stop fires twice, and none fires after it was removed or cancelled.    *)
OneFate ==
    /\ IsInjective(Ids(stops)) /\ IsInjective(queued)
    /\ ToSet(Ids(stops)) \cap ToSet(queued) = {}
    /\ (ToSet(Ids(stops)) \cup ToSet(queued)) \cap withdrawn = {}

(* The book alone fires no stop on the mark: however far its mid is moved,   *)
(* and however long, such a stop fires only while the index itself is within *)
(* the clamp of the trigger.                                                *)
IndexBehindMark ==
    [][\A s \in ToSet(stops) :
        s.source = "MARK" /\ s.id \in ToSet(queued') =>
            IF s.side = "BUY" THEN 100 * s.trigger <= (100 + MarkClamp) * index'
            ELSE 100 * s.trigger >= (100 - MarkClamp) * index']_vars

PriceOf(source) == IF source = "MARK" THEN mark ELSE index

(* A stop whose price is at or beyond its trigger and stays there while the  *)
(* instrument trades does not wait for ever: also when the price got there   *)
(* during a cooldown, in which nothing fired.  A LAST_TRADED stop is not      *)
(* among them: the price the thread compares it with never moves.            *)
ReachedFires ==
    \A id \in StopIds :
        []<>~(~Frozen /\ \E s \in ToSet(stops) :
                 s.id = id /\ s.source # "LAST_TRADED" /\ Reached(s, PriceOf(s.source)))
=============================================================================
