------------------------------ MODULE OrderFlow ------------------------------
(***************************************************************************)
(* How orders reach the matching engine: the workers of the user simulator *)
(* and the WebSocket loop make orders and put them into the queue; the      *)
(* engine thread of main.cpp takes them out, numbers them and has them      *)
(* matched.  A client's cancel travels through the same queue.              *)
(*                                                                         *)
(* The queue is moodycamel::ConcurrentQueue: what one thread enqueues comes *)
(* out in that order, and nothing is said of the order between threads.     *)
(* Matching is left to MatchingEngine: here an order may rest or not, and   *)
(* take any orders out of the book.                                         *)
(***************************************************************************)
EXTENDS Integers, Sequences, FiniteSets

CONSTANTS
    Workers,     \* threads of the simulator, each with an OrderGenerator
    Loop,        \* the WebSocket thread
    Users,       \* accounts that the clients of the WebSocket server use
    MaxOrders    \* bound: orders each producer makes

ASSUME OrderFlowAssumption == Loop \notin Workers /\ MaxOrders \in Nat

Producers == Workers \cup {Loop}

VARIABLES
    made,      \* id_counter_ of each generator, ws_order_ctr for the loop
    queue,     \* per producer: its orders and cancels that were not taken yet
    seq,       \* numbers the sequencer gave to orders
    open,      \* orders at rest: those in some UserAccount::open_orders
    cancelled  \* history: orders whose cancel was taken

vars == <<made, queue, seq, open, cancelled>>

(* "O-<n>" from a generator, "WS-<n>" from the loop; by is the producer. *)
IdOf(p, n) == [prefix |-> IF p = Loop THEN "WS" ELSE "O", n |-> n]

(* An order, or the cancel sentinel of one. *)
Message(p, n, user, kind) == [id |-> IdOf(p, n), by |-> p, user |-> user, kind |-> kind]

(* A worker sends for its own users, one of them here. *)
UsersOf(p) == IF p = Loop THEN Users ELSE {p}

-----------------------------------------------------------------------------

(* Mutant: the newest message comes first. *)
EnqueueFirst(p, m) == queue' = [queue EXCEPT ![p] = <<m>> \o @]

Enqueue(p, m) == queue' = [queue EXCEPT ![p] = Append(@, m)]

(* OrderGenerator::generate in worker_loop, or handle_place_order. *)
Place(p, user) ==
    /\ made[p] < MaxOrders
    /\ made' = [made EXCEPT ![p] = @ + 1]
    /\ Enqueue(p, Message(p, made[p] + 1, user, "order"))
    /\ UNCHANGED <<seq, open, cancelled>>

(* handle_cancel_order, for an order that the client has placed. *)
RequestCancel(user, n) ==
    /\ n \in 1..made[Loop]
    /\ Message(Loop, n, user, "cancel") \notin {queue[Loop][i] : i \in DOMAIN queue[Loop]}
    /\ Enqueue(Loop, Message(Loop, n, user, "cancel"))
    /\ UNCHANGED <<made, seq, open, cancelled>>

(* The engine thread takes an order and numbers it. *)
Takes(p) ==
    /\ queue[p] # <<>> /\ Head(queue[p]).kind = "order"
    /\ queue' = [queue EXCEPT ![p] = Tail(@)]
    /\ seq' = seq + 1
    /\ UNCHANGED <<made, cancelled>>

(* A check fails. *)
TakeRejected(p) == Takes(p) /\ UNCHANGED open

(* The order is matched: it may rest, and others may leave. *)
TakeAccepted(p) ==
    /\ Takes(p)
    /\ \E left \in SUBSET open, rests \in BOOLEAN :
        open' = (open \ left) \cup (IF rests THEN {Head(queue[p])} ELSE {})

(* Only an order in the user's own open_orders is cancelled. *)
TakeCancel(p) ==
    /\ queue[p] # <<>> /\ Head(queue[p]).kind = "cancel"
    /\ queue' = [queue EXCEPT ![p] = Tail(@)]
    /\ open' = {o \in open : o.id # Head(queue[p]).id \/ o.user # Head(queue[p]).user}
    /\ cancelled' = cancelled \cup
         {[id |-> Head(queue[p]).id, user |-> Head(queue[p]).user]}
    /\ UNCHANGED <<made, seq>>

Init ==
    /\ made = [p \in Producers |-> 0]
    /\ queue = [p \in Producers |-> <<>>]
    /\ seq = 0 /\ open = {} /\ cancelled = {}

-----------------------------------------------------------------------------
(* Properties *)

(* A cancel is never too early: once a client's cancel of its own order has *)
(* been taken the order is not at rest and never will be, although both      *)
(* went through a queue in which other threads' orders overtake them.        *)
CancelIsFinal == \A o \in open : [id |-> o.id, user |-> o.user] \notin cancelled
=============================================================================
