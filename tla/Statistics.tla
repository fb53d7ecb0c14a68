------------------------------ MODULE Statistics ------------------------------
(***************************************************************************)
(* stats/stats_collector.{hpp,cpp} as main.cpp uses it: the engine thread    *)
(* records what becomes of the orders of OrderFlow, the stats thread takes   *)
(* snapshots meanwhile, and after the shutdown the main thread takes one     *)
(* more, once it has joined the others.                                     *)
(*                                                                         *)
(* Each counter is an atomic; the latency samples and the rejection reasons  *)
(* are under a mutex each.  A step is one access, so record_trade is two     *)
(* steps of the engine thread and snapshot() five of the thread that calls   *)
(* it.  Prices, vault and profits, copied under a lock of their own, are     *)
(* left out.                                                                *)
(***************************************************************************)
EXTENDS OrderFlow, SequencesExt

CONSTANT MaxFills   \* bound: trades of one order

ASSUME StatisticsAssumption ==
    /\ MaxFills \in Nat
    /\ Workers \cap {"engine", "stats", "main"} = {}

VARIABLES
    g_running,  \* g_running
    returned,   \* ws_server.run() has returned to main
    stopped,    \* threads that have left their loop
    stat,       \* orders_, trades_, rejections_; the number of lat_samples_;
                \* the sum of rej_counts_
    work,       \* engine thread: what it has still to record of the order it took
    snap,       \* the snapshot being taken: what was read up to now
    last,       \* the last snapshot taken
    reported    \* history: latency samples in all snapshots taken

statsVars == <<g_running, returned, stopped, stat, work, snap, last, reported>>
allVars == <<vars, statsVars>>

Engine == "engine"
Monitor == "stats"
Threads == Workers \cup {Engine, Monitor}
Main == "main"

(* The order in which snapshot() reads. *)
Fields == <<"orders", "trades", "rejections", "samples", "reasons">>

Field(s, f) == s[CHOOSE i \in DOMAIN Fields : Fields[i] = f]

-----------------------------------------------------------------------------
(* Engine thread *)

(* record_trade for each of n trades; a clock that stepped back leaves a     *)
(* trade without a sample, which is not modelled.                           *)
RecordTrades(n) == [i \in 1..(2 * n) |-> IF i % 2 = 1 THEN "trades" ELSE "samples"]

EngineIdle == Engine \notin stopped /\ work = <<>>

AcceptOrder(p) ==
    /\ EngineIdle /\ TakeAccepted(p)
    /\ \E n \in 0..MaxFills : work' = <<"orders">> \o RecordTrades(n)
    /\ UNCHANGED <<g_running, returned, stopped, stat, snap, last, reported>>

RejectOrder(p) ==
    /\ EngineIdle /\ TakeRejected(p)
    /\ work' = <<"rejections", "reasons">>
    /\ UNCHANGED <<g_running, returned, stopped, stat, snap, last, reported>>

CancelOrder(p) == EngineIdle /\ TakeCancel(p) /\ UNCHANGED statsVars

Record ==
    /\ work # <<>>
    /\ stat' = [stat EXCEPT ![Head(work)] = @ + 1]
    /\ work' = Tail(work)
    /\ UNCHANGED <<vars, g_running, returned, stopped, snap, last, reported>>

-----------------------------------------------------------------------------
(* snapshot() *)

(* Mutant: main does not wait for the engine thread. *)
MainSnapshotsUnjoined == returned /\ Monitor \in stopped /\ Main \notin stopped

(* main's own, after the joins. *)
MainSnapshots == returned /\ Threads \subseteq stopped /\ Main \notin stopped

(* Mutant: the samples stay for the next snapshot. *)
ReadFieldKeepsSamples ==
    /\ Monitor \notin stopped \/ MainSnapshots
    /\ Len(snap) < Len(Fields)
    /\ snap' = Append(snap, stat[Fields[Len(snap) + 1]])
    /\ UNCHANGED <<vars, g_running, returned, stopped, stat, work, last, reported>>

(* The samples are cleared under the lock under which they are read. *)
ReadField ==
    LET f == Fields[Len(snap) + 1]
    IN  /\ Monitor \notin stopped \/ MainSnapshots
        /\ Len(snap) < Len(Fields)
        /\ snap' = Append(snap, stat[f])
        /\ stat' = IF f = "samples" THEN [stat EXCEPT ![f] = 0] ELSE stat
        /\ UNCHANGED <<vars, g_running, returned, stopped, work, last, reported>>

FinishSnapshot ==
    /\ Len(snap) = Len(Fields)
    /\ last' = snap /\ snap' = <<>>
    /\ reported' = reported + Field(snap, "samples")
    /\ stopped' = IF MainSnapshots THEN stopped \cup {Main} ELSE stopped
    /\ UNCHANGED <<vars, g_running, returned, stat, work>>

-----------------------------------------------------------------------------
(* Shutdown *)

(* signal_handler *)
Signal ==
    /\ g_running' = FALSE
    /\ UNCHANGED <<vars, returned, stopped, stat, work, snap, last, reported>>

(* run() returns, main clears g_running and calls UserSimulator::stop. *)
LoopReturns ==
    /\ ~returned /\ returned' = TRUE
    /\ g_running' = FALSE
    /\ UNCHANGED <<vars, stopped, stat, work, snap, last, reported>>

(* A thread leaves its loop between two rounds: a worker when the simulator  *)
(* is stopped, the others on g_running.                                     *)
Leave(t) ==
    /\ t \notin stopped
    /\ CASE t = Engine -> ~g_running /\ work = <<>>
         [] t = Monitor -> ~g_running /\ snap = <<>>
         [] OTHER -> returned
    /\ stopped' = stopped \cup {t}
    /\ UNCHANGED <<vars, g_running, returned, stat, work, snap, last, reported>>

(* Orders and cancels go on being sent until their thread has stopped. *)
Client(p) ==
    /\ IF p = Loop THEN ~returned ELSE p \notin stopped
    /\ \/ \E user \in UsersOf(p) : Place(p, user)
       \/ p = Loop /\ \E user \in Users, n \in 1..MaxOrders : RequestCancel(user, n)
    /\ UNCHANGED statsVars

-----------------------------------------------------------------------------

StatsInit ==
    /\ Init
    /\ g_running = TRUE /\ returned = FALSE /\ stopped = {}
    /\ stat = [f \in ToSet(Fields) |-> 0]
    /\ work = <<>> /\ snap = <<>>
    /\ last = [i \in DOMAIN Fields |-> 0] /\ reported = 0

StatsNext ==
    \/ \E p \in Producers : Client(p) \/ AcceptOrder(p) \/ RejectOrder(p) \/ CancelOrder(p)
    \/ Record
    \/ ReadField \/ FinishSnapshot
    \/ Signal \/ LoopReturns
    \/ \E t \in Threads : Leave(t)

StatsSpec == StatsInit /\ [][StatsNext]_allVars

-----------------------------------------------------------------------------
(* Properties *)

Recorded(f) == stat[f] + Cardinality({i \in DOMAIN work : work[i] = f})

(* However the engine thread's records fall between the reads of a snapshot, *)
(* no latency sample is lost and none is in two snapshots: what snapshots    *)
(* have reported, what the present one has read, and what waits for the next *)
(* is one sample of each trade.                                             *)
SamplesReportedOnce ==
    LET read == IF Len(snap) >= 4 THEN Field(snap, "samples") ELSE 0
    IN  reported + read + Recorded("samples") = Recorded("trades")

(* The snapshot at the end accounts for everything: every order that was     *)
(* numbered is counted as accepted or rejected, every rejection has its      *)
(* reason, and every trade its latency in one of the snapshots, wherever the *)
(* shutdown found the threads.                                              *)
FinalSnapshotComplete ==
    Main \in stopped =>
        /\ Field(last, "orders") + Field(last, "rejections") = seq
        /\ Field(last, "reasons") = Field(last, "rejections")
        /\ reported = Field(last, "trades")
=============================================================================
