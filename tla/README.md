# A TLA+ verification of the matching engine

This directory models the perpetual-futures exchange in `src/` (order book, matching, risk
checks, positions, margin and liquidation, circuit breakers, mark price, sequencing, stop orders,
statistics, WebSocket fan-out) in TLA+. TLC
checks the models on small instances; TLAPS proves the most important invariants for every
instance. `PROJECT.json` lists components, runs, mutants, theorems, hazards, disagreements between
code and documents, and for every definition the source lines it stands for.

## 1. The system

| Component | State | Operations | Where it gets hard |
|---|---|---|---|
| Order book `engine/orderbook` | two price maps of levels (FIFO list + running quantity), id index of list iterators | add, remove, consume front, prune, queries | iterators kept across mutations; incremental totals; ids used again |
| Matching engine `engine/matching` | `open_orders`, `open_order_margin` of accounts; trade counters | process, cancel | one order sweeps many; self-trade prevention removes orders in the loop; two copies of each resting order |
| Risk checks `engine/risk_checks` and the engine thread `main.cpp` | `messages_this_sec`, the instrument's state, the mark | check_all, the loop | mark and state change under it |
| Positions `engine/positions` | positions, wallets, fee revenue | apply_trade, zero_sum_check, oi_delta (uncalled) | four cases and an average entry price |
| Circuit breakers, vault `engine/circuit_breakers`, `engine/models.hpp` | state, price history, cooldown expiry, vault balance | update, trigger_emergency, recover, check_market_wide, absorb_deficit, credit_fee | windows, expiry, emergencies during cooldowns |
| Sequencer `engine/sequencer` | counter, in-memory log | next, replay | called by two threads |
| Stop orders `engine/stop_orders` | vector of waiting stops | add, remove, cancel_user, on_price_update | freeze in cooldown, firing once |
| Order flow `simulation/*`, `api/websocket_server` | lock-free queue, id counters | enqueue, dequeue, cancel sentinel | order between threads, cancels |
| Subscriptions `api/subscriptions`, `api/broadcaster`, `api/websocket_server` | topic maps, auth map, socket tables | subscribe, unsubscribe, auth, close, publish, send | publishers on other threads than the loop |
| Liquidation `engine/liquidation`, risk monitor `engine/risk_monitor`, margin `engine/margin` | (accounts, vault), the position's state | scan, trigger, chunks, deficit, ADL, settlement; margin formulas | runs on the market thread while the engine thread trades; partial payments; several users in one call |
| Mark price `engine/mark_price` | mark, index, smoothed basis | update, reset | state carried from old books into a new index |
| Statistics `stats/stats_collector` | atomic counters, latency samples and rejection reasons under a mutex each | record_…, snapshot | a snapshot is many critical sections; shutdown |
| Market simulation, user profiles, REST, benchmarks | | | |

**Threads.** Simulator workers and the uWS loop enqueue orders. The *engine thread* dequeues,
numbers (sequencer), checks (risk engine), matches and settles. The *market thread* ticks every
100 ms: mark price, stop scan (may enqueue), risk monitor (may liquidate, which calls the matching
engine directly), circuit breakers, broadcast. Both publish to the WebSocket clients. The accounts
and the book have no lock: they rely on the claim that only the engine thread writes them.

**What makes each part correct.** Book: time priority, an index that never dangles and finds
every order, exact totals. Matching: price-time priority, no self-trade, both copies of a resting
order equal, margin covering what rests, termination. Thread: limits that bind although mark and
state move. Positions: conservation of lots and money. Liquidation: it only reduces, costs nobody
else, deleverages last and in order, and ends. Breakers: no move unanswered, cooldowns that end,
emergencies that last. Sequencer: an ordered log. Flow: cancels that are final. Stops: one fate
each, no waiting beyond the trigger, no firing far from the index. Statistics: nothing lost or
counted twice. Subscriptions: maps that agree, and nothing left after a close.

## 2. Modules

| Module | Models | State and steps |
|---|---|---|
| `Maps` | `unordered_map` | put, erase, lookup |
| `OrderBook` | `orderbook.cpp` | `levels`, `order_index`; a list node has the number of its insertion, which stands for its iterator; one action per mutating call |
| `TimePriorityBook` | abstract | a set of stamped orders; the oldest at a price goes first |
| `OrderBookRefinement` | | `OrderBook` implements it, call by call |
| `MatchingEngine` (extends `OrderBook`) | `matching.cpp` | `phase` is the program counter in `process()`: `Submit` is the entry, `Fill` and the `Stp…` actions one iteration of `try_match`, `Rest`/`DropResidual` the end, `Settle` one trade applied to both sides |
| `PriceTimeExchange` | abstract | resting orders and one taker |
| `MatchingRefinement` | | `MatchingEngine` implements it |
| `EngineThread` (extends `MatchingEngine`) | loop of `main.cpp`, `risk_checks.cpp` | an order is taken, counted, checked and matched while `SetMark` and `SetState`, steps of the market thread, happen at any moment |
| `Fractions` | `double` | a pair in lowest terms; exact sums, products, quotients |
| `Ledger` (extends `Fractions`) | `positions.cpp`, the vault's two operations | each trade applied to its buyer, then its seller; money in exact fractions |
| `Margin` (extends `Ledger`) | `margin.cpp`, `check_margin` | operators only: rates that grow with the root of the notional, equity, what an order adds |
| `Liquidation` (extends `Margin`) | `risk_monitor.cpp`, `liquidation.cpp`, their callbacks | `trigger` is a call of `trigger()` in progress: `Scan` makes it, `Abort`, `StartChunk`, `Fill` (one trade of a chunk, with the vault and ADL), `EndChunk` and `Finish` are its parts; `EngineTrade` is half a trade of the engine thread, `Tick` a new mark |
| `CircuitBreakers` | `circuit_breakers.cpp`, the vault | time relative to now: ages of prices, seconds left of a cooldown |
| `Sequencer` | `sequencer.cpp` | `next()` as three steps: number, end of the vector, write; two threads |
| `OrderFlow` | producers, queue, dequeue loop | one FIFO per producer, arbitrary order between producers, as the queue promises |
| `Statistics` (extends `OrderFlow`) | `stats_collector.cpp`, the stats thread, the shutdown in `main.cpp` | `work` is what the engine thread has still to record of the order it took, `snap` what a snapshot has read; one access to a counter per step; `stopped` the threads that left their loop |
| `MarkPrice` | `mark_price.hpp` | basis, smoothing by any weight, clamp, in whole units |
| `StopOrders` (extends `MarkPrice`) | `stop_orders.cpp`, market tick | waiting stops, the queue they enter; a tick updates the mark and scans |
| `Subscriptions` | `subscriptions.cpp`, `broadcaster.cpp`, connections | loop callbacks; a close in two steps; a publisher takes a snapshot, finds a socket, sends |
| `…_proofs` | | theorems, section 5 |
| `MC…` | | symmetry sets for TLC |

Abstractions used throughout: prices and quantities are integers (ticks, lots), so the code's
1e-9 tolerances become exact comparisons; rates are integer percentages or parts; ids, users and
topics are model values; timestamps, trade ids and JSON are left out. Definitions
called "Mutant" in a comment are changed copies of the definition after them, the bugs that the
properties are shown to notice; nothing else refers to them.

## 3. Runs that pass

Every bound is a constant of its module with a comment; those that cut behaviours are `MaxNodes`,
`MaxQty`, `MaxMessages`, `MaxTrades`, `MaxCalls`, `MaxFills`, `MaxUpdates`, `MaxBalance`,
`MaxAbsorbed`, `MaxEvents`, `MaxOrders`, `MaxIds`. `MaxChunks` is not one of them: it is
`MAX_ITERATIONS` of `trigger()`, 100 in the code and 2 in the run.

| Run | Shows | Why the bounds are enough |
|---|---|---|
| `OrderBook` | structure, time priority, index, totals, correspondence with the abstract book | four insertions of three ids on two prices: a head, a middle and a tail at one level, a level emptied and made again |
| `Matching` | limit and post-only orders, every time in force and self-trade mode: mirrored orders, exact margin, FOK depth, ownership of withdrawals, progress of the loop, when the book may be crossed, refinement | three insertions: a sweep over two levels with an own order in between; quantities of two split into partial fills |
| `Thread` | the loop with its checks while mark and state move: position limit, price band, cooldown, rate; MARKET, FOK and reduce-only orders; a margin rate that grows with the notional | two marks, one of which puts a price outside the 5 % band; each state; the limit of one lot; one message more than the rate admits |
| `Liquidation` | positions are the sum of their trades and lose no money; the zero-sum check until the first liquidation; liquidation only reduces, reaches winners last and in order, leaves everybody else's equity alone, never restores health at the mark, advances with every step; an admitted order is not liquidated by its own trade | three users: the liquidated one, a winner and a loser, or two winners to rank; two trades of up to two lots, then two calls of up to two chunks, which close, leave a rest, or fill nothing; an empty vault, so that deficits reach the winners, and one filled by fees, so that they do not; fractions of lots from chunks and deleveraging |
| `Breakers` | no move unanswered, stress stops trading, cooldowns end | two instruments; prices that move by drift and by jump around the threshold; a cooldown longer than the window; a vault that empties |
| `Statistics` | cancels final; no sample lost or reported twice; the last snapshot complete | one worker and the WebSocket loop with two users, an order each and its cancel, up to two trades an order; snapshots and the shutdown at every moment |
| `Stops` | one fate; the book alone fires no stop beyond the clamp; reached stops fire | two stops with every side and source; an index that moves, a mid on either side and beyond the clamp, an empty book; every state |
| `Subscriptions` | maps agree, subscribers are connected | two sockets, three connections (an address is used again), two publishers |

**Liquidation.** The interleaving is that of the code, two threads without a lock, at the steps
named in section 2. Trades of the engine thread that would make `trigger()` use a position that is
no longer in the map, or that change the position between the trades of one chunk, have undefined
results and are left out: `EngineTrade` states which. The scan is one step per user that it
liquidates; a user it passes over, or warns, is left as he was. Which resting orders a chunk meets
is left to the environment: any price within the liquidation band, any whole lots or the rest of
the chunk, or nothing. Rates are in parts of `FeeUnit = 80` with the code's ratios: maintenance
half of initial margin, a liquidation fee as high as the base maintenance margin. The taker of an
engine trade passes `check_price_band` and `check_margin`, without margin of other orders, which is
the weakest form of the check.

**Statistics and shutdown.** `returned` stands for the return of `ws_server.run()`, which the
library decides; the signal, the return and the threads' leaving happen in any order the code
allows, and none is forced to happen. Every user of the model has an account: an order of an
unknown user is dropped before it is numbered (`main.cpp:329-330`). `SamplesReportedOnce` counts one sample per
trade, that is, a clock that does not step back between a trade and its record.

`MarginExact` needs a constant margin rate (`ImfFactor = 0`) and is checked in `Matching`;
`MarginCovers` is what remains of it with a growing rate, and is checked in `Thread`, where MARKET
orders also rest at price 0. `OrderBook`, and so
the runs that pass, assume ids unique among resting orders (`ReuseIds = FALSE`), except that the
structural theorems of section 5 hold with ids used again as well.

**Fairness.** In `CircuitBreakers` time passes and the market thread keeps updating each
instrument; in `StopOrders` it keeps ticking: its loop has no condition but shutdown.
`MatchingEngine!FairSpec`, used by the run `Matching_v_ghost` only, is weak fairness of `Process`:
the engine thread goes on while it has an order in hand, and nothing blocks it. That the loop
makes progress is checked without fairness, as an action property: `MatchingAdvances` says that
the work left (quantity of the incoming order plus resting orders) shrinks with each iteration.
Nothing is assumed of clients.

`CHECK_DEADLOCK FALSE` stands where the bound on insertions, trades, messages or events is
reached and the behaviour may stop there.

## 4. Where the code and what is said of it part

Four runs check one statement of a document or comment each, and TLC finds the behaviour that
breaks it. `PROJECT.json` quotes the lines.

| Run | Behaviour |
|---|---|
| `Liquidation_v_zero_sum` | a trade of a liquidation changes the position and wallet of the liquidated user only; the other party's stay, and from then on the profits of all users no longer add up to nothing |
| `Matching_v_reduce` | reduce-only turns the position around when it sweeps several orders: the cap reads a position that its own fills have not updated |
| `Matching_v_ghost` | with an id used twice, CANCEL_RESTING removes nothing and the loop does not end |
| `Sequencer_v_order` | the market thread, through liquidation, breaks the order of the log |

Other places where the code does not do what is said of it, met while modelling; the models have
these behaviours, and no run is spent on them:

- *Self-trade prevention*: an order cancelled by CANCEL_INCOMING rests all the same when it is GTC
  (`matching.cpp:309`), and its user crosses himself in the book; GUIDE.md:262 says "Incoming order
  cancelled, resting stays". `CrossedOnlyByCancelled` shows that nothing else crosses the book.
- *Gradual liquidation*: the liquidation fee and the taker fee of a chunk exceed the base
  maintenance margin that the chunk frees (`models.hpp:178-200`, `liquidation.cpp:121`), so at the
  mark or worse no chunk brings the account nearer to health (`FillsNeverRestore`); "V1 tech.md":1056
  hopes "Maybe yes — user keeps 9 BTC". Nor can the re-check after
  cancelling the orders (`liquidation.cpp:100`) stop it: cancelling frees `open_order_margin`, which
  is in neither equity nor maintenance margin, so `Abort` is taken only when the engine thread has
  traded since the scan.
- *Auto-deleveraging* closes winners at the mark (`liquidation.cpp:243`), so it moves profit they
  had already and recovers none of the deficit (`OthersKeepEquity`); GUIDE.md:490 says "at the
  bankruptcy price". It is run for the whole deficit also when the vault paid a part, and after the
  deficit of each trade the settlement has the vault pay again for a negative wallet
  (`liquidation.cpp:163`).
- *Liquidation thread*: GUIDE.md:411 says "Runs entirely on the engine thread"; it runs on the
  market thread (`main.cpp:266`), which also uses the position after the engine thread may have
  erased it (`liquidation.cpp:153`).
- *Isolated margin*: `apply_trade` opens every position as CROSS (`positions.cpp:32`), so the
  monitor's loop over isolated positions, which would call back while iterating, does nothing.
- *Shutdown*: the signal handler clears `g_running` only, and nothing calls
  `WebSocketServer::stop`, so `run()` (`main.cpp:458`) goes on; GUIDE.md:71 says "Final stats are
  printed on shutdown". `FinalSnapshotComplete` is about a shutdown that does get there.
- *Latency* is measured from the trade to its record (`stats_collector.cpp:20`), not from the order
  to the trade as `stats_collector.hpp:22` says.
- *FOK*: the depth check counts the user's own orders (`matching.cpp:294`), so self-trade
  prevention can leave a partial fill; GUIDE.md:241 says "no partial fill".
  `FokStopsOnlyAtOwnOrder` states what is left of the promise.
- *MARKET with GTC*, the default of the WebSocket server, rests at price 0
  (`matching.cpp:310`, `websocket_server.cpp:263`); GUIDE.md:239 says "IOC TIF".
- *Margin*: releases of parts are computed at the lower rate of the smaller notional
  (`matching.cpp:155`), so a user without open orders may keep margin reserved.
- *Position limit*: the check leaves out the user's resting orders (`risk_checks.cpp:90`), which
  may together fill beyond it; `TakerKeepsLimit` states what it does guarantee.
- *COOLDOWN* does not block a crossing GTC limit order (`risk_checks.cpp:147`, against its comment
  at line 143).
- *Rate limit*: an accepted order is counted twice (`main.cpp:335`, `matching.cpp:336`), so about
  half of the limit is available; `AcceptedWithinRate` is exactly that half.
- *Zero-sum check*: half of the fees is in `fee_revenue` and in the vault (`main.cpp:361-364`), and
  the vault starts with a seed: the "near zero" of `positions.hpp:31` is the vault's balance
  (`ZeroSumUntilLiquidation`). `oi_delta` (`positions.cpp:131`) takes a closing buyer for an opening
  one.
- *Market-wide emergency*: `check_market_wide` has no caller; GUIDE.md:457 describes it.
- *Order ids* repeat across workers: each has a generator whose counter starts at 0
  (`order_generator.cpp:15`, `user_simulator.cpp:61`). This is what makes the state of
  `Matching_v_ghost` reachable.
- *Stops*: nothing calls `StopTriggerQueue::add`; a STOP_LIMIT order of a client enters the order
  queue at once (`websocket_server.cpp:207`). A stop on LAST_TRADED compares with a price read
  when the thread starts (`main.cpp:252`).
- *WebSocket*: `send_to` uses the socket after releasing the lock (`websocket_server.cpp:155`);
  unsubscribing from a private topic uses another name than subscribing did (line 198).

## 5. Proofs

All are of the form `Spec => []…`, an action property or a refinement, for any sets of users, ids
and prices and any bounds, from the assumptions the modules name (`BookAssumption`,
`EngineAssumption`, `EngineThreadAssumption`, `OrderFlowAssumption`, `StatisticsAssumption`,
`LedgerAssumption`, `MarginAssumption`, `LiquidationAssumption`, `MarkPriceAssumption`,
`StopAssumption`, `BreakersAssumption`, `SubscriptionsAssumption`). A theorem that needs more of
the constants says so in its `ASSUME`:

| Hypothesis | Why | The run that checks the same property |
|---|---|---|
| `ReuseIds = FALSE` | with an id used twice both copies of an order and the index part (`Matching_v_ghost`) | `OrderBook`, `Matching`, `Thread` have it |
| `ImfFactor = 0`, no MARKET orders (`MarginExact` only) | a part of an order is released at the lower rate of its smaller notional, so with a growing rate some margin stays; a MARKET order that rests reserves nothing | `Matching` has both; `MarginCovers` needs neither |
| `BandWide`: no price that a client sends is outside the impact band of another; no reduce-only orders (`CrossedOnlyByCancelled`, `FokStopsOnlyAtOwnOrder`) | the band, and the cap of a reduce-only order, end the loop with the other side still crossing, and the rest of the order then rests across it or a FOK order stops: the properties are false without them | `Matching`: limit prices 10 and 11, band 50 % |
| `BaseMmf < TakerFee + LiqFee`, `BaseMmf <= FeeUnit` (`FillsNeverRestore`) | a chunk must cost more than the margin it frees; the source's defaults are 1 % against 0.05 % + 1 % | `Liquidation`: 8 < 2 + 8, FeeUnit 80 |
| `TakerFee >= 0`, `BaseMmf + 2 * TakerFee < BaseImf`, `BaseImf <= FeeUnit` (`AdmittedSurvives`) | the initial margin must pay for the maintenance margin and, when an order turns a position round, for the fees of both its parts; the defaults are 1 % + 0.1 % against 2 % | `Liquidation`: 8 + 4 < 16 |
| `MmfFactor = 0` (`AdmittedSurvives`, in `AdmittedNeverLiquidated` only) | `AdmittedStaysHealthy` has instead that the maintenance rate of what the user then holds is the base rate; with the defaults it is up to a notional of about 444 000 | `Liquidation` has `MmfFactor = 2` and checks the growing rate on its instance |

- **`Data_proofs`**: facts about the data, above all what stands in for induction. The prover cannot
  instantiate the library's induction theorems, which take a predicate, so `InductionOnNat` is
  stated of a *set* of numbers and follows from well-foundedness (`SmallestNat`); a use of it names
  the set of the numbers for which the claim holds. From it: the sum that the models write as a fold
  is given by the partial sums along an enumeration, so it changes by the changed term; and a list
  has as many places of a value as its tail has, plus one if the head is that value.
  The second half is a theory of `Fractions`. Euclid's algorithm has a result (the largest
  common divisor, `GcdExists`), which grows with its arguments, so a ratio has one fraction in
  lowest terms (`SameRatio`) and `Plus` and `Product` are those of any terms (`RatioOps`). Any eight
  fractions have a common denominator (`Common`), over which sums, differences, multiples and
  comparisons are those of whole numerators (`Linearly`, `Multiples`, `Compared`): an identity of
  money becomes linear arithmetic. `Adds` carries that over to sums over the users.
- **`OrderBook_proofs`**: `BookTypeOK`, `BookStructure`, `BookIndexSound`, `BookIndexComplete`,
  `BookLevelQtyExact`, `BookCallsCorrespond`, `BookRefines`. The structure is not
  inductive by itself: an index entry is sound only because node numbers are distinct over all
  levels, which holds because none exceeds `inserted`. `Inv` states it level by level
  (`GoodLevel`: non-empty, nodes of this side and price, strictly increasing, at most
  `inserted`), with the index and, under unique ids, its completeness. Lemmas say what appending
  to, taking from the front of, and erasing from the middle of a level do to the set of resting
  orders; each call then follows. The total of a level follows each call by the sum lemmas. For
  the refinement, the head of a level is the oldest order at its price because lists increase.
- **`MatchingEngine_proofs`**: `EngineTypeCorrect` and `AccountsMirrorBook`: the
  open orders of each account are the resting orders of that user. The invariant adds to the
  book's that the incoming order's id does not rest while it is matched, and bounds what is left
  of it; one lemma per step. Margins of parts add up to no more than the margin of the whole.
  The second half says what a step may do, over these invariants.
  `EngineOnlyOwnersWithdraw`; `EngineMatchingAdvances` (lots in hand plus resting orders shrink, a
  cardinality of a finite book); `EngineCrossedOnlyByCancelled`: an order with lots left after the
  loop, and not cancelled, has nothing within its reach (`ResidualFree`), because an iteration that
  stops leaves the side empty, beyond the limit, or beyond the band, which `BandWide` excludes;
  `EngineImplementsExchange`: every step is one of `PriceTimeExchange` or a stutter, the taker of
  which is the order in hand (`HandInv`: it is not in the book, nor its lots);
  `EngineMarginCovers` and `EngineMarginExact`: the sum of a user's open orders by the sum lemmas;
  `EngineFokStopsOnlyAtOwnOrder`: the lots at acceptable prices cover what is left of a FOK order
  after every fill (`FokInv`), since totals are exact, so it can end early only at an order of its
  own user.
- **`EngineThread_proofs`**: `ThreadImplementsEngine`: each step of the loop is a step of the
  matching engine or changes nothing of it, so `EngineInv` holds in the loop. Over it
  `ThreadAcceptedWithinRate`, `ThreadTradesInBand`, `ThreadCooldownOrdersStay` and
  `ThreadTakerKeepsLimit`. `RateInv` relates
  what is accepted to the counter: each accepted order counts twice, but one in process has counted
  once so far. `LimitInv` says that the order in hand, its trades and its residual keep what was
  checked when it was taken, whatever `SetMark` and `SetState` do since. `PositionInv` is about
  trades that are not settled yet: the position moved by all of them, and by what may still be
  filled, is within the limit; the sum is given by a function of partial sums, which loses its
  first term when a trade is settled.
- **`Statistics_proofs`**: `CancelsAreFinal`, `SamplesAreReportedOnce`, `FinalSnapshotIsComplete`.
  Finality of cancels is not inductive by itself:
  `FlowInv` adds that the messages in a queue are its producer's, that no order is behind
  its cancel, and that an order whose cancel was taken is no longer in the queue. `StatsInv`
  accounts for the figures: a counter and the records still in `work` make up what
  happened, the samples at hand and those reported make up the samples recorded, and the order in
  which threads leave leaves no work for the last snapshot to miss.
- **`Liquidation_proofs`**: every state invariant and the six action properties of the run
  `Liquidation`, for any users, prices, sizes, rates and marks and any interleaving
  of the two threads. `Moves` says what a trade does to a position in each of the four cases of
  `apply_trade`: the signed lots move by the trade's, the value at entry by the trade's value and
  what is realized (a re-averaged entry times the new size is again the sum, `QuotientLaw`).
  `Agree` is the balance of one account; `TradeAgrees`, `ClosedAgrees` and `ShortAgrees` keep it
  through a trade, a forced close and a payment of the vault. The invariant `LiqInv` has these for
  all users (`Accounts`), which gives `PositionIsNetOfTrades` and `TradingLosesNoMoney`, but needs
  more: at most one trade is half applied, at most one liquidation is under way, and its chunk is no
  more than the position it is filled from (`Covered`) - without which a chunk could turn the
  position round. `run_adl` is followed candidate by candidate (`AdlSoFar`): nobody loses more
  than he has, and nobody any lots while one before him keeps some. Hence `LiquidationOnlyReduces`,
  `WinnersLastAndInOrder` (lots are taken only when the vault was short and so is empty) and
  `TriggerAdvances`. `OthersAreLeftWhole`: equity is deposit plus cash less fees plus lots at the
  mark (`Worth`), and closing at the mark moves equal amounts between its last two. For
  `ZeroSumCheckIsTheVault` `FlowInv` adds up the users until the first liquidation: lots and cash to
  nothing, fees to `fee_revenue`, or to what the first half of a trade makes of these.
  The last part is about health. `CostExceedsGain` is one inequality of integers for each lot: at
  the mark or worse, what a closing trade gains plus the maintenance margin it frees is less than
  its two fees. Times the lots and over a common denominator that is `GainBelowCost`; `WorthAfter`
  and `MarginFreed` say what the fill makes of equity and margin - the base rate still applies to
  the smaller position because the rounded root is monotone (`SqrtGrows`) - and
  `LiquidationNeverRestores` follows. `AdmittedStaysHealthy` goes the other way: what
  `check_margin` found available covers, lot by lot (`IncreaseCovered`, `FlipCovered`), the
  maintenance margin of the new position, the fee and the loss to the mark. The initial rate may
  grow: it is never below the base rate (`ImAtLeast`), and since it grows with the notional
  (`ImGrows`) an order that turns a position round and needs margin is worth more than the position
  it closes, whose part of the fee it can therefore pay.
- **`MarketThread_proofs`**, the breakers and the stops. `BreakersAnswerMoves`: pruning stops at an
  entry inside the window, and the test is made on the history the update leaves.
  `StopsHaveOneFate`: what the scan keeps and what it puts into the queue are the two halves of the
  vector, each stop once (`StopsInv`); `Kept`, a recursive function, is shown to exist first.
  `StopsIndexBehindMark`, from the clamp of the mark.
- **`Subscriptions_proofs`**: `SubscriptionMapsAgree` and `OnlyConnectedSubscribe`. The invariant
  adds that ids are given once (`id < next_id`) and that a closing id has no topic any more.

The proof of `WinnersLastAndInOrder` did not go through with a score that divides by a zero initial
margin: an earlier `Score` left out the guard of `liquidation.cpp:209`, which gives such a winner
the score 0. No instance of the run reaches it, its rates being positive.

Model-checked only: liveness (`CooldownEnds`, `StressStops`, `ReachedFires`: fairness is beyond the
prover here), and `AdmittedSurvives` where the maintenance rate of the new position is above its base
rate: that compares the root of a sum with the sum of roots, rounded down. The properties of the runs in section 4 are false.

## 6. What is not modelled

- `check_margin` is a free choice in `EngineThread`: the balances are not in that model. The check
  itself is `Margin!CheckMargin`, used in `Liquidation`.
- The book in `Liquidation`: cancelling the user's orders, matching the chunk and its log entry are
  actions of `MatchingEngine` and `Sequencer`. With cross margin the cancelled orders change no
  equity, so they do not change the outcome of the re-check.
- *Data races on the book and the accounts* between market and engine thread have no defined
  outcome; the race is modelled where its outcomes can be enumerated, in `Sequencer`.
- *GBM and order generation* are random: the index and the orders are any of a set.
- *Isolated margin, the warning of the risk monitor, `liq_price_estimate`, `oi_delta`*: never
  reached, or read-only.
- *Statistics*: market data, profits, vault, the liquidation counter, values of percentiles.
- *User profiles* are tables; *REST and depth snapshots* only read; *benchmarks and tests* drive
  the engine.

## 7. Plan

1. (done) Book, matching, thread, with refinement and first theorems; ledger, breakers, sequencer,
   order flow, stops, subscriptions.
2. (done) `Liquidation` over `Ledger` and `Margin`; `MarkPrice` under the stops; `Statistics` over
   the order flow, with the shutdown.
3. (done) Proofs of the thread's limits and of final cancels.
4. (done) Proofs of what the engine's steps may do, its refinement of the exchange, its margins and
   FOK orders; exact totals; the position limit; the figures of the statistics; breakers and stops.
5. (done) The theory of `Fractions` and over it the accounts, the zero-sum check and the properties of
   liquidation.
6. (done) `FillsNeverRestore` for rates like the code's; `AdmittedSurvives` while the maintenance margin
   is at its base rate.
7. `AdmittedSurvives` at growing rates.
