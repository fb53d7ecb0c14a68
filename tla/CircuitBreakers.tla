---------------------------- MODULE CircuitBreakers ----------------------------
(***************************************************************************)
(* engine/circuit_breakers.{hpp,cpp}: the velocity detector (Layer 3), the *)
(* vault stress test (Layer 4) and the administrator's calls.  The market   *)
(* thread calls update() on every tick, with the time in whole seconds; the *)
(* vault changes under it on the engine thread.                             *)
(*                                                                         *)
(* Times are kept relative to the present: an entry of the price history    *)
(* has an age, a cooldown the seconds that remain of it.                    *)
(***************************************************************************)
EXTENDS Integers, Sequences

CONSTANTS
    Instruments,
    Marks,         \* mark prices
    Window,        \* velocity_window_s
    Threshold,     \* velocity_threshold, in percent
    Duration,      \* cooldown_duration_s
    Seed,          \* current_balance of the vault at the start
    Amounts,       \* deficits and fees
    MaxBalance,    \* bound: largest balance of the vault
    MaxAbsorbed,   \* bound: largest total of absorbed losses
    MaxUpdates,    \* bound: ticks of the market thread in one second
    Admin          \* TRUE: trigger_emergency, recover and check_market_wide are called

ASSUME BreakersAssumption ==
    /\ Marks \subseteq Nat \ {0}
    /\ Window \in Nat \ {0} /\ Threshold \in Nat /\ Duration \in Nat \ {0}
    /\ Seed \in Nat /\ Amounts \subseteq Nat \ {0}
    /\ MaxBalance \in Nat /\ Seed <= MaxBalance /\ MaxAbsorbed \in Nat
    /\ MaxUpdates \in Nat \ {0}
    /\ Admin \in BOOLEAN

VARIABLES
    state,      \* Instrument::state, by instrument
    history,    \* history_ of the instrument's detector, oldest first
    remaining,  \* cooldown_expires_ minus the present, 0 when past
    balance,    \* current_balance of the vault
    absorbed,   \* total_losses_absorbed
    updates     \* history: updates in the current second, by instrument

breakersVars == <<state, history, remaining, balance, absorbed, updates>>

Quote == [age : 0..(Window + 1), price : Marks]

-----------------------------------------------------------------------------
(* VelocityDetector *)

InWindow(q) == q.age <= Window

(* update: the new price is appended, then the front is pruned up to the     *)
(* first entry in the window.                                               *)
Recorded(i, price) ==
    LET h     == Append(history[i], [age |-> 0, price |-> price])
        first == CHOOSE k \in DOMAIN h :
                   InWindow(h[k]) /\ \A j \in 1..(k - 1) : ~InWindow(h[j])
    IN  SubSeq(h, first, Len(h))

(* The newest price has left the oldest one by more than the threshold. *)
Moved(h) ==
    /\ Len(h) >= 2
    /\ LET first == h[1].price
           last  == h[Len(h)].price
       IN  100 * (IF last >= first THEN last - first ELSE first - last) > Threshold * first

-----------------------------------------------------------------------------
(* CircuitBreakerManager::update *)

(* Mutant: an empty vault counts as unused. *)
StressedUnlessEmpty == balance > 0 /\ 10 * absorbed > 9 * (balance + absorbed)

(* utilization() > 0.90 *)
Stressed == 10 * absorbed > 9 * (balance + absorbed)

(* Layer 4 overrides what Layer 3 decided. *)
Decide(i, layer3) ==
    state' = [state EXCEPT ![i] = IF Stressed THEN "EMERGENCY" ELSE layer3]

UpdateTrading(i, price) ==
    LET h == Recorded(i, price)
    IN  /\ state[i] = "TRADING"
        /\ history' = [history EXCEPT ![i] = h]
        /\ Decide(i, IF Moved(h) THEN "COOLDOWN" ELSE "TRADING")
        /\ remaining' = [remaining EXCEPT ![i] = IF Moved(h) THEN Duration ELSE @]

(* Mutant: another move starts the cooldown anew. *)
UpdateCooldownExtends(i, price) ==
    /\ state[i] = "COOLDOWN"
    /\ history' = [history EXCEPT ![i] =
         IF remaining[i] = 0 THEN <<>> ELSE Recorded(i, price)]
    /\ Decide(i, IF remaining[i] = 0 THEN "TRADING" ELSE "COOLDOWN")
    /\ remaining' = [remaining EXCEPT ![i] = IF Moved(Recorded(i, price)) THEN Duration ELSE @]

(* The history is kept up to date, and forgotten when the cooldown is over. *)
UpdateCooldown(i, price) ==
    /\ state[i] = "COOLDOWN"
    /\ history' = [history EXCEPT ![i] =
         IF remaining[i] = 0 THEN <<>> ELSE Recorded(i, price)]
    /\ Decide(i, IF remaining[i] = 0 THEN "TRADING" ELSE "COOLDOWN")
    /\ UNCHANGED remaining

(* In EMERGENCY update returns before the detector sees the price. *)
Update(i, price) ==
    /\ updates[i] < MaxUpdates
    /\ updates' = [updates EXCEPT ![i] = @ + 1]
    /\ \/ UpdateTrading(i, price) \/ UpdateCooldown(i, price)
       \/ state[i] = "EMERGENCY" /\ UNCHANGED <<state, history, remaining>>
    /\ UNCHANGED <<balance, absorbed>>

-----------------------------------------------------------------------------
(* Calls of an administrator or a monitor; main.cpp makes none of them. *)

TriggerEmergency(i) ==
    /\ Admin
    /\ state' = [state EXCEPT ![i] = "EMERGENCY"]
    /\ UNCHANGED <<history, remaining, balance, absorbed, updates>>

(* Mutant: the prices of before the emergency stay in the detector. *)
RecoverKeepsHistory(i) ==
    /\ Admin /\ state[i] = "EMERGENCY"
    /\ state' = [state EXCEPT ![i] = "TRADING"]
    /\ UNCHANGED <<history, remaining, balance, absorbed, updates>>

Recover(i) ==
    /\ Admin /\ state[i] = "EMERGENCY"
    /\ state' = [state EXCEPT ![i] = "TRADING"]
    /\ history' = [history EXCEPT ![i] = <<>>]
    /\ UNCHANGED <<remaining, balance, absorbed, updates>>

CheckMarketWide ==
    /\ Admin
    /\ Stressed \/ \A i \in Instruments : state[i] = "COOLDOWN"
    /\ state' = [i \in Instruments |-> "EMERGENCY"]
    /\ UNCHANGED <<history, remaining, balance, absorbed, updates>>

-----------------------------------------------------------------------------
(* InsuranceVault, on the threads that liquidate and trade *)

(* A deficit beyond the balance takes all of it. *)
AbsorbDeficit(deficit) ==
    LET paid == IF deficit > balance THEN balance ELSE deficit
    IN  /\ absorbed + paid <= MaxAbsorbed
        /\ balance' = balance - paid
        /\ absorbed' = absorbed + paid
        /\ UNCHANGED <<state, history, remaining, updates>>

CreditFee(amount) ==
    /\ balance + amount <= MaxBalance
    /\ balance' = balance + amount
    /\ UNCHANGED <<state, history, remaining, absorbed, updates>>

(* A second passes. *)
SecondPasses ==
    /\ history' = [i \in Instruments |-> [k \in DOMAIN history[i] |->
         [history[i][k] EXCEPT !.age = IF @ <= Window THEN @ + 1 ELSE @]]]
    /\ remaining' = [i \in Instruments |-> IF remaining[i] > 0 THEN remaining[i] - 1 ELSE 0]
    /\ updates' = [i \in Instruments |-> 0]
    /\ UNCHANGED <<state, balance, absorbed>>

BreakersInit ==
    /\ state = [i \in Instruments |-> "TRADING"]
    /\ history = [i \in Instruments |-> <<>>]
    /\ remaining = [i \in Instruments |-> 0]
    /\ balance = Seed /\ absorbed = 0
    /\ updates = [i \in Instruments |-> 0]

BreakersNext ==
    \/ \E i \in Instruments :
        (\E price \in Marks : Update(i, price)) \/ TriggerEmergency(i) \/ Recover(i)
    \/ CheckMarketWide
    \/ \E amount \in Amounts : AbsorbDeficit(amount) \/ CreditFee(amount)
    \/ SecondPasses

BreakersSpec == BreakersInit /\ [][BreakersNext]_breakersVars

(* The market thread ticks and time passes. *)
Fairness ==
    /\ WF_breakersVars(SecondPasses)
    /\ \A i \in Instruments : WF_breakersVars(\E price \in Marks : Update(i, price))

FairBreakersSpec == BreakersSpec /\ Fairness

-----------------------------------------------------------------------------
(* Properties *)

(* While an instrument trades, the prices its detector holds show no move    *)
(* beyond the threshold: no move goes unanswered, and a move of before a     *)
(* cooldown or an emergency is not left to stop trading a second time.       *)
NoMoveUnanswered ==
    \A i \in Instruments : state[i] = "TRADING" => ~Moved(history[i])

(* A cooldown ends: in trading, or in an emergency. *)
CooldownEnds == \A i \in Instruments : state[i] = "COOLDOWN" ~> state[i] # "COOLDOWN"

(* Losses that use up nine tenths of the vault stop the instrument, unless   *)
(* fees fill the vault up again first: also when it has been emptied, and    *)
(* during a cooldown.                                                        *)
StressStops ==
    \A i \in Instruments :
        absorbed > 9 * balance ~> (state[i] = "EMERGENCY" \/ absorbed <= 9 * balance)
=============================================================================
