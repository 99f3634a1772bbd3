# Safe Signal Trader v2: a verification development

TLA+ models of the trading logic in `src/signal_bot/`, TLC configurations that
check them on small instances, and TLAPS proofs that hold for every instance.
Paths below are relative to `src/signal_bot/` unless they start with `docs/`
or `tests/`.

## 1. Inventory

| Component | State it keeps | Operations | Interacts with |
|---|---|---|---|
| Source registry (`sources/registry.py`) | source id -> frozen config (parser binding, enabled) | register, disable, enable | read by the pipeline |
| Parser registry (`parsers/registry.py`) | `id@version` -> parser, `id` -> last registered | register, get | read by the pipeline |
| Dedup store (`ingestion/dedup.py`) | seen (source, message id), seen (source, hash) | is_duplicate, mark_seen, clear | owned by the pipeline |
| Pipeline (`ingestion/pipeline.py`) | none | process | calls the three above and a parser |
| Structured parser (`parsers/generic_structured.py`) | none | can_parse, parse, validate | called by the pipeline |
| Settings, start-up (`config/settings.py`, `main.py`, `__main__.py`) | cached settings of the process | get_settings, require_safe_mode, is_live_allowed, lifespan | environment; every end point |
| Profiles, snapshots (`profiles/`) | profile versions, latest by id | register, build_snapshot | snapshot goes to the core |
| Risk engine (`core/risk/engine.py`) | none | evaluate | exposure and count from its caller |
| Entry planner (`core/entry/planner.py`) | none | plan | takes the risk decision |
| Conflict resolver (`core/conflict/resolver.py`) | none | resolve | open trades from its caller |
| Protection planner (`core/protection/planner.py`) | none | initial_stop, after_tp, never_worsen | stop and take profits of a trade |
| Trade state machine (`core/position/state_machine.py`) | none | can_transition, transition | status of a trade |
| Job queue (`infrastructure/queue/memory.py`) | jobs with status, owner, deadline, attempts | enqueue, claim, heartbeat, complete, fail, mark_manual_review, recover_expired | producers and workers |
| Mock exchange (`adapters/binance/mock.py`) | orders, client-id index, stops, positions, PnL, marks | place, cancel, stop, replace, cancel protection, ... | workers |
| Demo API (`api/demo.py`) | module-level registries and queue | parse, analyze, queue end points | everything above |
| Health, dashboard (`api/health.py`, `api/dashboard.py`) | none | report settings and the live gate | settings |
| DB tables, session, migrations, logging | none that logic depends on | | |

What connects the parts is not in the repository yet: no code keeps the open
trades, turns an entry plan into a job, runs a worker, or moves the stop of a
trade. Where a model needs
such a caller it is marked external and given every behaviour the interfaces
leave open.

**What is hard here.** Leases that expire under a working owner, late
heartbeats, retries after lost answers, crashes and restarts of an in-memory
queue (queue, order path); a client-id index that stops overwrite, calls that
do half their work, positions that are added to, reduced, turned (exchange);
messages repeated, copied and edited while sources are reconfigured
(ingestion); limits that shrink trade by trade under profiles that change
(core); stops that are replaced while answers get lost and trades share a symbol
(protection); an environment that changes under a running process, and callers
that share an owner name (demo API). `PROJECT.json` lists each hazard at its line.

**What makes each part correct.**
*Queue*: a live lease excludes every other owner, settled is for good, a client
id has one job, retries are accounted for. *Exchange*: a client id is executed
once and stays findable, positions and PnL are explained by the fills and by what
the code is known to leave out. *Order
path*: completed means filled, one fill per trade, every trade settles.
*Ingestion*: a message is handled once, and nothing is dropped as a duplicate of
nothing. *Core*: exposure, margin and count limits hold over all open trades,
one direction per symbol, policies respected. *Protection*: a trade's best live
stop, once it has one, never gets worse and never goes before the position; statuses tell what the
exchange holds. *Process*: nothing serves that was not checked. *Signal path*: a
message moves the position once per process and planned attempt.

## 2. Modules

| Module | Models | Checked or proved in |
|---|---|---|
| `LeaseContract` | what a leased queue promises, without clocks or counters | refined by `JobQueue` |
| `JobQueue` | `InMemoryJobQueue`, one action per method | `MCJobQueue`, `JobQueueProofs` |
| `Exchange` | `MockBinanceAdapter`, one action per method | `MCExchange`, `ExchangeProofs` |
| `OrderFlow` | queue + workers + exchange, with faults | `MCOrderFlow`, `OrderFlowProofs` |
| `SignalParser` | the structured format as operators over recognised lines | through `Ingestion` |
| `Ingestion` | both registries, dedup store, `process` | `MCIngestion`, `SignalPathProofs` |
| `Decision` | profile registry, snapshot, risk, entry plan and conflict over open trades | `MCDecision`, `DecisionProofs` |
| `Protection` | `ProtectionPlanner` and `TradeStateMachine` as operators | through `TradeLife` |
| `StopContract` | what a stop promises once it is there: a guard per trade that only improves | refined by `TradeLife` |
| `TradeLife` | trades from entry to archive: planner + state machine + exchange, with lost answers | `MCTradeLife`, `TradeLifeProofs` |
| `DemoApi` | settings, start-up, and the queue behind HTTP end points | `MCDemoApi`, `DemoApiProofs` |
| `SignalPath` | `Ingestion` + client order ids + `OrderFlow` | `MCSignalPath`, `SignalPathProofs` |
| `Sums` | no code: theorems about sums, maxima and counts over finite sets | used by the proofs of `Exchange`, `Decision`, `TradeLife` and `SignalPath` |

What uses what: `OrderFlow` instantiates `JobQueue` and `Exchange`; `SignalPath`
extends `Ingestion` (which extends `SignalParser`) and instantiates `OrderFlow`,
its own initial states and steps being `PathInit` and `PathNext`;
`TradeLife` extends `Protection` and instantiates `Exchange`; `DemoApi`
instantiates `JobQueue`. The composing modules have no type invariant of their
own: their parts' types are checked in the parts' runs.

Definitions named after a `Slip:` comment are plausible mistakes; nothing of the
specification uses them. Each property has one that breaks it (`mutants` in
`PROJECT.json`), which shows that the property says something about the code.

### Correspondence

* **JobQueue.** `jobs` is `_jobs` in insertion order, an index standing for a
  job id. A deadline is kept as the seconds left, `lease`; `Tick` takes one from
  each, and everything below zero is the same: expired (`lease_until < now` is
  strict, so zero is still live). A rejected call (False, None) stutters.
  `lapses` is a history variable. The clock is monotone; owners have names of
  their own.
* **Exchange.** Orders are indexed by their sequence number. asyncio switches
  only at an `await` that suspends, and none does, so a method is one step.
  `applied`, `unbooked` and `misvalued` are history. Average prices are exact
  fractions.
  Balances are never changed by the code and are left out, as are prices of
  LIMIT orders and stops: nothing triggers them.
* **OrderFlow.** The producer repeats a submission it has lost; a worker claims,
  places under the trade's client id, asks with `get_order` after an unclear
  answer (ARCHITECTURE.md principle 9), then completes, gives up or escalates. It can
  be slow at any point and act on a job it has lost. `Crash`, `Restart` (the
  in-memory queue is lost, the exchange is not) and lost requests or answers
  share a budget of faults.
* **Ingestion.** `process` is synchronous and hence one step. A computed
  hash is its text; an empty text has none. A message may come with a hash of its
  caller's (`raw_hash`, one of `RawHashes`), which is then used as it is, whatever
  the text (`pipeline.py:58`): the properties on copies speak of the hash a message
  is known by, which is that of its text where callers supply none. `log` is history. The message is marked as seen
  before it is parsed, as in `pipeline.py:83`. `Clear` is `clear()` and equally a
  new store.
* **SignalParser.** A text is the sequence of its recognised lines with captured
  fields (`OtherLine` is any other). A text is finite, which is all that is assumed of it. `Malformed` is a string of digits and dots that Decimal refuses. Take
  profits have distinct indices in a signal and are a function of the index.
* **Decision.** Quantities count the engine's quantum (1e-8) and money a unit of
  which 0.01 USDT holds `Cent` and in which prices per quantum are whole, so that the
  three roundings (quantity to the quantum and to the step, notional to the cent,
  `engine.py:76-93`) are exact in integers. The caller keeps the rounded notional;
  the price a trade was sized at is kept for the properties only. `Or` is Python's `or` on
  numbers. The external caller passes the trades open now, the sum of their
  notionals and their number, decides one signal at a time, and opens what is
  not blocked and is accepted or scaled in. The limit on open positions comes
  from the profile, not from the snapshot, as in `api/demo.py:164`. `profiles` is
  the registry's entry under the bare id, the last one registered
  (`RegisterProfile`); a trade keeps the snapshot it was opened under.
* **Protection, TradeLife.** The planner and the transition table are the code's;
  `after_tp` ignores the take profit that was hit and looks at the one before, as
  the code does. The trade manager that calls them does not exist yet. It is given
  the calls the interfaces are written for: entry, first stop if the plan is
  protected, a replacement after each take profit with a client id of its own, exit
  reduce-only, protection cancelled with the way into the archive. Each call's
  answer may be lost: the exchange has carried it out, the record is as before,
  and the manager repeats the call, finds the order with `get_order` (`Adopt`), or
  changes the status by what the exchange shows (`Move`). Every change of status
  that is not a call's answer goes through `can_transition`; those that are follow
  its table too. Stop prices are kept beside `Exchange`'s orders
  (`stopPrice`). Stops are not triggered: nothing in the code does.
  A trade without a stop loss is entered all the same, since no plan is blocked for
  it, and between the entry and its first stop every trade is unguarded: no call of
  the adapter does both.
* **DemoApi.** `get_settings` is `lru_cache`d: `settings` is read at the first call
  of a process and kept. `Launch` is `main()`, `Lifespan` the check in
  `main.py:22`. The check stands in the lifespan
  only: an application served without it is not checked, and not modelled. End points do
  not await, so a request is one step. `NameOf` gives
  each caller the owner name it passes: the default, `"demo-worker"`, for all or
  not. A caller reports on its job whenever it is done, also after its lease. `Stop`
  loses the queue; a job id of an earlier process is unknown to the next and
  refused, so callers start over.
* **SignalPath.** A client order id is the pair of trade and attempt, which is what
  `_deterministic_client_order_id` writes into it; the first 64 bits of the trade
  id are taken to tell trades apart. Risk, conflict and profiles are left out:
  they can only keep a parsed message from becoming an order. `Restart` loses
  the dedup store, the trade book and the queue, and not the exchange.

## 3. Runs

| Run | Question | Bounds and why they are enough |
|---|---|---|
| `queue` | ownership, retries, settlement, refinement of `LeaseContract` | two jobs and two owners: each property speaks of at most two; limits of 1 and 2 attempts and leases of 0 and 1 seconds reach every branch |
| `exchange` | client ids, index, stops, finality; positions and PnL against the fills | three orders on two symbols, in two ranges of states: orders of every kind, of one size and price, under two ids (a fill, a stop under its id, a retry); and fills of three sizes, zero among them, at two prices (open, add or reduce, close or turn, reopen, on one symbol or both, and a fill of a position of zero) |
| `order_flow` | exclusion and exactly-once under faults | two trades, two workers, two faults of any kind |
| `order_flow_live` | every trade settles | the same with timely heartbeats and one fault |
| `ingestion` | handled once, nothing lost, versions, take profits | two deliveries (every property is about at most two) of four texts (a good one, one that raises, an empty one, one that is no signal), with the text's hash, a supplied one that is another text's, or an empty one, over two sources, two ids and two parser versions, with any reconfiguration between them |
| `decision` | limits, directions, policies | three open trades, two symbols (one without rules), two sources under two profile ids, four profiles under each whose limits bind in turn; a cent of five units, so that the third rounding takes something off |
| `trade_life` | live stops, profits locked in, status against position, refinement of `StopContract` | two trades of one symbol (the protection record is one per symbol), four plans with stops below, at and above the entry on both sides and one without a stop, up to two take profits, one lost answer: every call can be the one that is repeated |
| `demo_api` | the start-up gate, claims under shared names, jobs over restarts | two callers of one name and one of another, two jobs, a lease of one second, three attempts (so that a job two callers have reported on can be claimed by a third), two launches, three environments (safe, LIVE without and with the flag) |
| `signal_path` | a message moves the position once | two message ids with one text (so a copy), one worker, two faults, a restart among them, two trades, one attempt planned anew |

Deadlock is not checked where a bounded run really ends (no more orders, jobs or
faults); it is checked in the ingestion and decision runs.

Three runs show a disagreement between the repository's words and its code;
`findings` in `PROJECT.json` quotes the lines:

* `reduce_only`: the mock lets a reduce_only order grow or turn an open position;
* `stale_entry`: a fill that turns a position leaves the new one with the entry price
  of the old (`mock.py:314-320`);
* `market`: a mistyped ENTRY price becomes a MARKET order.

Others have no run and are noted here:

* "Position never unprotected" (`core/protection/planner.py:4`, ARCHITECTURE.md
  principle 10) does not hold: a signal without a stop loss is planned unblocked, the
  protection plan says `is_protected=False` under every `sl_mode` (`planner.py:47`, as
  `tests/unit/test_core.py` expects), and such a trade is in the position without a
  stop for life; nor do the words hold between an entry and its first stop, which no
  call of the adapter places together. Nothing here claims the sentence:
  `StopContract` says what becomes of a stop once it is placed, and `trade_life` has a
  plan without one;
* a fill that closes part of a position books no PnL (`mock.py:314`). With the stale
  entry price this is all that is wrong with the PnL, and `PnLAccounting` states it
  exactly: reported plus `unbooked` minus `misvalued` is what the fills earned, where
  `unbooked` has the PnL of just the quantity that fills closed in parts (or in
  turning), and `misvalued` what the quantity they opened is overvalued by;
* recorded notionals are rounded down to the cent and counted so against the next
  trade's limit (`engine.py:93`): what the open trades cost can exceed
  `max_notional_usdt`, as `ExposureBounded` says by less than a cent for each earlier one;
* a message is known by the hash its caller supplies, unchecked (`pipeline.py:58`): the
  same text under two hashes gives two signals;
* a FILLED order can be cancelled and is CANCELED from then on, with its fill kept;
* `place_stop` does not look its client id up, so a repeated call leaves a second
  live stop; `OrphansAreRetries` bounds what is left over by the lost answers;
* a cancelled stop stays recorded as protection (`mock.py:175`);
* a loss limit of zero counts as missing and becomes ten (`engine.py:53`); the
  runs use limits above zero;
* rounding up to one step can exceed the notional and loss limits when a symbol's
  minimum quantity is below its step (`decision` uses rules where it is not, as
  the defaults are);
* the comment on edits in the dedup store describes a path that an edit with its
  own id never reaches;
* callers that share the default owner name can settle each other's jobs once a
  lease has lapsed; `ClaimIsKept` says that this is the only way to lose a claim.

### Fairness

Only `order_flow_live` has fairness, all of it weak and on steps of loops that
run for ever: the producer repeats a lost submission, a worker claims, executes,
asks, finishes and sends heartbeats, and time passes. Nobody has to give up,
escalate or sweep. `Prompt` says that time does not overtake the heartbeat of a
live worker; without it two slow workers can take a job from each other for
ever, which the code does not prevent (`recover_expired` and `claim` ignore
`max_attempts`). Faults are finite.

## 4. Proofs

* `JobQueueProofs`: `IInv == TypeOK /\ HeldIffClaimed /\ ClientIdUnique /\
  RetryBudget` is inductive. The conjuncts need each other: `complete` and `fail`
  test only the owner, so that `fail` finds a claimed job with an attempt counted
  follows from `HeldIffClaimed`, and a PENDING job's spare attempt comes from
  `RetryBudget`. From it: type correctness, the three invariants, `SettledForever`,
  `HandoverCounts`, and that the queue implements `LeaseContract` (`Refinement`:
  each action maps to a contract step or a stutter).
* `Sums`: the folds of the community modules over finite sets, as facts a prover can
  use: a sum over a set is the sum over the set without an element plus that
  element, it may be renamed along a bijection, it is monotone for naturals, it is
  a product for a constant, it is linear, and terms at most `o` larger add up to at most `o` more for each; sets of at most `c[x]` members have no more
  together than the sum of these (`CountUnion`). They are not induction over data in the library's
  form (its induction theorems take an operator); the argument is by a smallest
  counterexample: the cardinalities of the subsets that refute a fact have a least
  member, and removing one element from it contradicts its choice.
* `ExchangeProofs`: `IInv == BookType /\ Index /\ NoDoubleFill /\
  ProtectionIsNewest`. `Index` (an order's client id points to it or to a later
  order) is what makes `NoDoubleFill` inductive, although stops overwrite the
  index: an id once used always stays in it. On the types of the book rest also
  `OrderFinality`, and `OnlyFillsMovePositions` (no run checks the latter, which
  `PositionIsFills` implies for quantities; the theorem is for prices and PnL too).
  `AccountInv` adds the types of positions and fractions and `PositionIsFills`: a
  step applies at most the newest order, so the sum over a symbol's applied orders
  grows by exactly what `_apply_fill` adds, closing and turning included. From it
  `TypeOK` and `PositionIsFills`, for any quantities, prices, symbols and clients.
* `PnLAccounting` (also in `ExchangeProofs`) is about fractions that every step
  reduces by a greatest common divisor, folded over the symbols. The invariant,
  `PnLInv`, therefore does not look at numerators and denominators but at values:
  there is a denominator D on which realized, unbooked and misvalued PnL and every
  entry price are integers (`Val`), and on it realized plus unbooked minus misvalued
  plus, over the symbols, what the position is worth above its entry equals D times
  the fills' PnL (`Balance`). A fill may need a finer denominator, for its new average: `FillVal`
  shows that on one that is fine enough what it books, loses and leaves unrealized
  adds up to what was unrealized before, in each of its cases (open, add, reduce,
  close, turn), so that the balance is kept term by term (`FillPnL`); a new mark
  changes both sides by the position times the difference, which is
  `PositionIsFills` (`MarkPnL`). Last, the folded and reduced sum of
  reported, unbooked and misvalued PnL has on D the value D times the fills' PnL, so
  in lowest terms it is that integer (`WholeSum`, `BalanceAccounts`). This is the one
  proof that needs the set of symbols to be finite: the sum is over all of them.
* `SignalPathProofs`, on `Ingestion`: `HandledOnce` with `Remembered` (a handled message's key is in
  `_seen`). A second inductive invariant joins the types with the content half of
  the store: what is in `_hashes` and `_seen` comes from a handled message in the
  log, and the hash of every handled message, computed or supplied, is there. From it `TypeOK`,
  `NoSecondSignal`, `DuplicateHasOriginal` and `BoundVersionReads`, for any number
  of sources, ids, texts, parsers and deliveries. A signal's text is one for which
  `parse` does not raise (`Accepted`), so its take profit lines have distinct
  indices; lines and indices correspond one to one, which is `SignalsKeepTargets`.
* `SignalPathProofs`, on the whole path: `PathInv` is what has to be known of each
  part so that fills can be counted from messages. Of ingestion, that the trades of
  the running process have their messages in `_seen` (`CurrentSeen`); so between two
  trades of one message there was a restart (`Separated`), and the number of restarts
  before it tells a message's trades apart: they are at most one more than the
  restarts. Of queue and workers, that no step renames a job (`JobsKept`) and a
  worker at work has one; of the exchange, that a client id has one order (`Book`);
  of both, that every client id they hold is that of a planned attempt
  (`AllPlanned`), also after a restart has lost the job. So a trade has at most one
  fill for each of its attempts, and the sum over a message's trades is the bound of
  `FilledOncePerProcess` (`FillsCounted`). That the theorems on `Ingestion` hold
  on the path too is `IngestionImplemented`: `PathSpec` implements its `Spec`, step
  by step, a restart included.
* `OrderFlowProofs`: the invariant is `FillInv`, in three parts. `IInv` (types, and
  a worker whose own count of its lease is not negative finds its job CLAIMED by it
  with the same seconds left) gives `LeaseIsTrusted`. `ExchangeInv` (every order is
  an executed buy, the client-id index knows exactly the ids that were placed, the
  position counts them) gives `OneFillPerTrade`. `WorkInv` (a COMPLETED job, and the
  job of a worker whose order was accepted, has its order placed) gives
  `CompletedMeansFilled`.
* `DecisionProofs`: `OneDirection`, `JoinedByPolicy` and `CountBounded` are
  inductive with the shape of the trade book. Closing a trade renumbers the later
  ones; the properties are about order, which it keeps. `SizeInv` adds `TypeOK`,
  `OrderLegal`, `ExposureBounded` and `MarginWithinLoss`: the engine takes the least
  of its limits and rounds three times, so what has to be shown is how far the
  roundings can go. Rounding down never exceeds a limit; rounding up to
  one step can, unless the minimum quantity is at least a step. That is the
  hypothesis `MinimumIsStep` of the last two theorems (stated where it is used,
  since the code does not check it, and satisfied by the default rules);
  `LossIsSet` is that of `MarginCorrect`, because a loss limit of zero counts as
  missing. Exposure is a sum over the book: opening adds a term within the budget,
  closing takes one away from every later prefix. `Exposed` says this of the record,
  and of the record with the newest trade at what it costs; `Rounded` that no record is
  a cent or more below the cost. The cost of the trades before it then follows
  (`SumWithin`), which is `ExposureBounded`.
* `TradeLifeProofs`: `IInv` relates all trades of the symbol to the book. Of each
  trade it says which stops the exchange may hold for it: those with the client
  ids up to the one that is due next, which is live and at the price the planner
  gives (`StopsGood`); that the recorded stop is the one of the last take profit
  heard of, live until its successor is placed or the trade has left the position
  (`RecordGood`); what it has locked in (`LockedIn`); what the status tells
  (`StatusGood`). Only the recorded stop is ever cancelled, and not before its
  successor is there: that is why a lost answer never leaves a trade bare, and why
  stops of other trades are safe although the protection record is one per symbol.
  `Holding` says the position is one unit for each trade in it, and `Faults` counts
  the live stops nobody has recorded against the answers lost. From it
  `RecordedStopIsLive`, `TargetsLockIn`, `OrphansAreRetries`, `StatusTellsPosition`.
* The refinement of `StopContract` (`ContractImplemented`): a trade's guard is the
  best price among its live stops. A step adds a stop for one trade or cancels its
  recorded one; after it there is, for every guarded trade, a live stop at the old
  guard or better (`GuardLasts`), or the trade has left the position. The new best
  is then a tightening, a first guard or a release, and the other trades keep theirs
  (`OtherStops`).
* `DemoApiProofs`: `Gate` (settings are cached exactly while there is a process, and
  were checked before it serves) gives `ServesAsChecked`, and that the reported
  live gate is fixed while a process lives (`GateFixed`). `Held` says of each caller
  that still has a job that it is the one the job was granted to, or that a lease of
  the job has lapsed; this is what keeps a first claim from being overruled, and
  gives `ClaimIsKept`. `Counted` gives `DoneOncePerStart`: what was completed in
  this process has a COMPLETED job, which nobody owns, and no other job has its
  client id.

Assumptions are those named in the modules: distinct special values, counters
and bounds in `Nat`, `max_attempts` between 1 and the saturation point, finitely
many symbols, trades and plans with a positive entry price, texts of finitely many
lines, and for the path a registered configuration that is one.

Only model-checked: liveness, `EveryTradeSettles` (outside the prover's reach). The
three runs that show a disagreement are counterexamples and stay with TLC as well.

## 5. What is left

1. `Decision` and `TradeLife` composed once the repository has the code that keeps
   trades; and with it risk decisions on an exposure that another signal has
   changed since it was read.
2. Liveness of the composed path, which needs a bound on restarts as `order_flow_live`
   has one on faults.

Not modelled, and why: database tables, session and migrations (no code uses
them yet), logging (output only), static HTML and constant texts of health and
dashboard, protocols and capabilities (declarations), the Telegram and HTTP
clients (not in the repository), regular expressions and JSON (conversions no
property is about), the configuration hash (nothing reads it but a reader), the
entries of the profile registry under `id@version` (read by nobody).
