------------------------------- MODULE Sequencer -------------------------------
(***************************************************************************)
(* engine/sequencer.{hpp,cpp}: the counter and the in-memory log.  next()  *)
(* takes a number from an atomic counter and then appends an entry to a     *)
(* vector that nothing guards.                                              *)
(*                                                                         *)
(* The engine thread calls next() for each order and, in make_trade, for    *)
(* each trade.  The market thread calls it too: the risk monitor runs there *)
(* and liquidation sends its orders straight to MatchingEngine::process.    *)
(* push_back is taken apart into reading the end of the vector and writing  *)
(* there, the outcomes that two unguarded calls can have on the entries.    *)
(***************************************************************************)
EXTENDS Integers, Sequences

CONSTANTS
    Threads,     \* threads that call next()
    MaxEvents    \* bound: events in one behaviour

VARIABLES
    counter,   \* counter_
    wal,       \* wal_: the sequence numbers of its entries
    calling    \* per thread: idle, the number it took, or that and the end it read

vars == <<counter, wal, calling>>

Idle == [step |-> "idle"]
Took(n) == [step |-> "took", seq |-> n]
Appending(n, end) == [step |-> "appending", seq |-> n, end |-> end]

Init == counter = 0 /\ wal = <<>> /\ calling = [t \in Threads |-> Idle]

FetchAdd(t) ==
    /\ calling[t] = Idle /\ counter < MaxEvents
    /\ counter' = counter + 1
    /\ calling' = [calling EXCEPT ![t] = Took(counter + 1)]
    /\ UNCHANGED wal

ReadEnd(t) ==
    /\ calling[t].step = "took"
    /\ calling' = [calling EXCEPT ![t] = Appending(@.seq, Len(wal))]
    /\ UNCHANGED <<counter, wal>>

(* The entry goes where the end was; the vector ends behind it. *)
WriteEnd(t) ==
    /\ calling[t].step = "appending"
    /\ wal' = Append(SubSeq(wal, 1, calling[t].end), calling[t].seq)
    /\ calling' = [calling EXCEPT ![t] = Idle]
    /\ UNCHANGED counter

Next == \E t \in Threads : FetchAdd(t) \/ ReadEnd(t) \/ WriteEnd(t)

Spec == Init /\ [][Next]_vars

-----------------------------------------------------------------------------
(* Property *)

(* Replay hands out the entries in the order of their numbers, so recovery  *)
(* repeats what the engine did in the order in which it did it.              *)
WalOrdered == \A i, j \in DOMAIN wal : i < j => wal[i] < wal[j]
=============================================================================
