# TrendInvesting: the order path and the strategies, modelled, checked and proved

TrendInvesting runs one decision engine (Go) per brokerage account and one
adapter (Python) that feeds it and carries its orders to Interactive Brokers
(IBKR).  This directory holds TLA+ modules translated from that code, the TLC
configurations that check them on small instances, and proofs that hold for
every instance.  Two layers are covered.  The first is what the rest relies
on: nothing reaches the broker that is not in a durable log, nothing reaches
it twice, and no crash, lost reply or owner's command in between changes that.
The second is what decides: the risk gate with its ledger of sells in flight,
the Boost account's handler and what a restart reads of its log, and the
turtle strategy against the simulated broker of its backtests.

- [The system](#the-system)
- [Modules and how they follow the code](#modules-and-how-they-follow-the-code)
- [Runs](#runs)
- [Fairness](#fairness)
- [Proofs](#proofs)
- [Where the code and its documentation differ](#where-the-code-and-its-documentation-differ)
- [What is not modelled](#what-is-not-modelled)
- [Plan](#plan)

## The system

| Component | State it keeps | Operations | Interacts with | Hard behaviour | What makes it correct |
| --- | --- | --- | --- | --- | --- |
| Durable log (`internal/journal/durable_log.go`) | a file: a header, then committed groups (an input, its decisions, a commit line) | `CreateLog`, `Append`, `RecoverLog` | the recorder writes it; every later start reads it | a crash or failed flush mid-write | a group is there whole or not at all, and sequences have no gap |
| Recorder and resume (`recorder.go`, `resume.go`) | entries, the committed index, the sequence each input was sent with | `Apply`, `Committed`, `NoteSent`, `Resume` | wraps the reducer; writes the log before it returns decisions | flush before release; replaying an abandoned resume | journal before send; one reply per input |
| Replay engine (`internal/replay/engine.go`) | the sequence cursor | `Apply`, `Run` | calls the recorder | a failed apply spends its sequence | one contiguous stream |
| Engine process (`cmd/engine`) | instance lock, options, `wireGuard` (poison, cause) | start, resume, approval, `answer`, `stopWith` | the transport calls it; it calls inbox, ledger and engine | a decision abandoned at its deadline goes on under the lock | no decision after an unvouched state |
| Operator inbox (`cmd/engine/operator.go`, `cmd/operator`) | record files, delivered and refused notes | `pending`, `deliver`, `markDelivered`, `refuse` | delivers inputs ahead of the adapter's, moving its sequence | crash between journal and marker | each record in exactly one run, none lost |
| Flex ledger (`cmd/engine/flex.go`) | the rows and statuses journalled in this run; the ledger and status files are the reader's | `openFlexLedger`, `pending`, `deliver` | delivered after the inbox's records, moving the adapter's sequence like them | the reader writing between the two reads | each row once in a run and again in every fresh run; no status ahead of the rows it covers |
| Restart rules (`internal/restart`) | none: reads the folder of logs | `Classify`, `Latest`, `FollowChain`, `ChainHead`, end state | start and approval | abandoned resumes and starts beside real runs | a restart continues the latest run, with its latch and incident |
| Transport (`transport`) | connections | `handle`, `decideWithTimeout`, `ServeContext` | adapter and engine | deadline, lost reply | a reply answers its own request |
| Order relay (`adapter/ibkr/relay.py`) | pending input, hand-over marks, decisions, refusal and not-handed-over records, outbox | `exchange`, `_settle`, `clear`, `resolve`, `retire`, `settle_ended_run` | asks the engine, reads IBKR's lists, calls the sender | dying between any two writes; IBKR showing an order late or no longer | each order goes out once; none is forgotten; none that left is called retired |
| Adapter loop (`loop.py`) | outbox, link state, reconciliation owed | `submit`, `step`, `_drain` | relay, connection, delivery, reports | inputs queued behind one awaiting its reply | order of delivery; nothing sent unreconciled |
| Sender and IBKR client (`sender.py`, `real_client.py`) | next order ID | `check`, `send`, `place_order` | IB Gateway | the socket closing around `placeOrder` | never more certain of a hand-over than the socket allows |
| Stream delivery (`delivery.py`) | batch record | queue, resume, drop | loop, data job | a stop between marking and striking a batch | a batch reaches a run whole and in order, or not at all |
| Connection, reports, snapshots (`connection.py`, `orders.py`, `reports.py`, `snapshot.py`, `account.py`, `book_basis.py`) | link, tracked orders, awaited commissions | connect, pump, reconcile, report | IB Gateway, loop | callbacks in any order, reconnects | a fill is reported once, no decision on a book behind a report |
| Risk limits (`internal/risklimit`, `internal/reconcile`) | account state and scope, kill switch, incident, margin alarm, sale attempts, ledger of sells in flight, book and journalled changes | `Check`, `Observe*`, `SetKillSwitch`, `Sale`, `Reconcile`, `CheckBook`, `RestoreRecovery` | between planner and release | evidence arriving late, twice and in any order; triggers that overlap; int64 limits | no share sold twice; no buy when barred; an incident sells once |
| Boost handler (`internal/targetweight`, `internal/orderplan`) | latch, target in force, order watched, verdicts awaited, rejections counted, orders cleared, retired and named | a handler per input | the gate; the recorder; IBKR's words through the adapter | words on several orders in any order; orders never sent; a restart from one decision | it stops buying exactly when it should; a restarted run goes on as the run would have |
| End of a log (`internal/restart`, `cmd/operator`) | none: folds a finished log | `ReadEndState`, `ProposeApproval`, `Check*` | the owner; the next run's start | a second reading of the same records, by other code | the next run is no looser than the one that ended |
| Turtle reducer (`internal/strategy`) | instruments with their readings, campaigns, units, proposals, holds, caps, notional account | a handler per event | recorder; fill model | a session is a protocol of many deliveries; corporate actions amid orders | caps and cash hold; every order ends; money is conserved |
| Fill model (`internal/fills`) | resting orders, the simulated account | `RunSession`, `observe`, `Fills` | the reducer in a backtest | two books kept in step through one stream of events | both books say the same |
| Momentum and glide runs (`targetweight/momentum_run.go`, `internal/targetweight/*`) | rebalance in progress, weights | decide, apply report, clear | as Boost | a rebalance over several orders | one rebalance at a time |
| Gateway healer (`internal/gatewayheal`, `cmd/gateway-*`) | attempts, locks | `Run`, `startAdapter` | systemd, journal | check then act | never starts what a person stopped |
| Reporter, triage, dashboard | receipts, paging state | page, poll | outside services | at most once delivery | out of the trading path |
| Indicators, sizing, universe, calendar, events | none | pure functions | the strategies | arithmetic at its limits | each payload's parts agree |
| Queries, reports, backtest, registry, parity, LEAN, market data, deployment | files of a batch job | batch programs | | | |

How the modelled parts interact: a producer in the adapter records an input
in the outbox.  The drain turns the next entry into an envelope, reads its
sequence from the engine's log, saves it, and asks.  The engine delivers
pending operator records, applies the input through the reducer, flushes the
group and replies.  The relay acts on each released order of the reply:
judges it against the marks, the decisions and IBKR's lists, marks it, hands
it over, marks it sent; then it strikes the entry off and clears the input.
Whatever stops either process, the adapter asks again for the input it saved
and the engine answers from the log.

Everything hard to test in this code is listed at its line under `hazards` in
`PROJECT.json`, with the properties that would catch it going wrong.

## Modules and how they follow the code

| Module | Models | Role |
| --- | --- | --- |
| `CommittedReply` | ADR 0027's re-delivery promise | abstract specification: an input is given one reply, once, before it is released |
| `DurableRun` | `internal/journal`, `internal/replay`, `internal/restart/directory.go`, `cmd/engine`, `transport`, the asking side of `loop.py` | detailed specification; implements `CommittedReply` |
| `MCDurableRun` | | instances of `DurableRun` |
| `OrderRelay` | `adapter/ibkr/relay.py`, the drain of `loop.py`, `sender.py`, `real_client.place_order` | detailed specification of the hand-over |
| `MCOrderRelay` | | instances of `OrderRelay` |
| `DurableRunProofs`, `DurableRunFolderProofs`, `DurableRunAdapterProofs` | | theorems about `DurableRun`: the process, the folder of logs, the adapter's input and the refinement |
| `OrderRelayProofs` | | theorems about `OrderRelay`: how often an order is sent, what the record says of it |
| `PendingRule` | `internal/risklimit/pending.go`: the rule itself | operators on a ledger of sells and views |
| `SellLedger`, `MCSellLedger` | the rule with IBKR, the adapter's reading of an account (`adapter/ibkr/snapshot.py`) and the owner's own sells | specification |
| `PendingRuleProofs`, `SellLedgerProofs` | | lemmas about the rule's sums; theorems about `SellLedger` |
| `RiskGate` | `internal/risklimit`, `internal/reconcile`, `internal/orderplan/sale.go` | operators on a gate record; extends `PendingRule` |
| `BoostEvents` | the payloads of `internal/event` a Boost run reads and writes | what each payload's `Validate` demands of its parts |
| `BoostHandler` | `internal/targetweight/handler.go`, `verdicts.go`, `boost/boost.go`, `orderplan.go` | operators on a handler record; one per input |
| `EndState` | `internal/restart/endstate.go`, `incident.go`, `latch.go`, `cmd/engine/approval.go` | the fold over a log's records, the approval and its checks |
| `BoostRun`, `MCBoostRun` | a run of `BoostHandler` with its account and venue | specification; composes the four above |
| `BoostSaleProofs`, `BoostVerdictProofs` | | theorems about `BoostRun`: its sales and its state, its verdicts and its buys |
| `TurtleConfig`, `TurtleEvents`, `Indicators`, `Sizing` | `internal/event`, `internal/indicator`, `internal/sizing` | configuration, payload rules and arithmetic |
| `TurtleState`, `TurtleCampaign`, `TurtleSession`, `TurtleAccount`, `TurtleCorporate`, `TurtleReducer` | `internal/strategy`, by what the state is about | operators on a reducer record; one per handler |
| `FillSimulator` | `internal/fills` | the simulated broker's book, prices and account |
| `TurtleRun`, `MCTurtleRun` | `internal/fills/runbar.go`: a backtest | specification; composes reducer and simulator |

**`DurableRun`.**  `logs` is the log folder, oldest first; a log is its
committed groups, since recovery excludes a torn tail.  The reducer is a
deterministic function of its inputs, so an input's reply is represented by
the groups up to its own: two replies are equal exactly when the histories
they rest on are.  `phase` walks through one process: the log created, its
header flushed, the resumed groups copied one by one (`journal.Resume`), the
configuration and approval recorded, then serving.  An exchange
(`wireGuard.answer`, under its lock) is a sequence of steps so that a crash or
a deadline can fall between any two flushes: `AskNew` lists the inbox,
`DeliverRecord` applies one operator record, `ApplyInput` the adapter's input,
`Reply` releases.  A failed write (`DecideFails`) leaves the group on disk or
not, spends the sequence and poisons the guard.  `Records` are the operator's
alone: the engine is one started without `-cash-ledger`.  A Flex row keeps
another rule, with no marker and no look at other runs' logs: a fresh run is
given every row again (`flex.go:39`), so nothing said of `Records` is said of
a row.  The adapter composes an input at the sequence it reads from the log
and keeps it until a reply arrives (`waiting`).  `told` and `composed` are history variables; `seen` is
the last answer.  In `RecordStart` every run is given an approval as its
second input, the normal case of a run that can reach an account.

**`OrderRelay`.**  Every file the adapter keeps is replaced whole and flushed,
so each write is one step, in the code's order, and `pc` names the place
between two writes; `Crash` may fall at any of them.  `todo` is the rest of
the reply's orders, judged one at a time by the branches of `_settle`, each
an action: already sent, found at the broker, a retirement to finish, passed
over as never sent, at the broker, unconfirmed, resend expired, to be checked.
The engine is replaced by what `CommittedReply` promises (`Ask` commits an
entry once and yields the same orders each time).  IBKR is external: an order
it took is shown from some later moment until its session ends (`Show`,
`NextDay`), and `Foreign` orders may be shown though this record never sent
them.  The owner's commands run only while the adapter is down (the pending
file's lock) and take a parameter for the write they are cut short after.
With `OwnerChecks` the owner looks in IBKR's history first, as
`docs/manual/redelivery.md` says; without it the owner may run any command
the code accepts.  The drain's striking off of an entry the engine's log holds
is `TakeEntry`'s guard and no action of its own: `Settled` strikes an entry off
before its input is cleared, so within this module none is left for it; the
producers that can record one again are in the parts still to be modelled.

**`PendingRule`, `SellLedger`.**  A sell in flight is a record of what it
released, its fills, its end and its venue order; a view is one snapshot the
gate observed.  `unshown` is how many of the shares a view shows are already
sold or may still be, `remains` what is left; the int64 saturation of the
code is `Top`.  `SellLedger` puts the rule among what feeds it: IBKR fills,
cancels and lists; reports arrive late, in any order and again; a reading of
the account is three steps with the world moving between them; a restart
restores the sells and nothing else.  What the rule is promised, and the
module therefore assumes: facts that are "true and complete" (pending.go), so
a sell by hand does not fill before a list showed it; at most one broker
snapshot a second, delivered in the second it is stamped.  A list gives an
order's total as its remaining quantity, as the adapter does
(`snapshot.py:384`), which is what the runs check; with `ListsTotal` false it
gives what is left, which is how pending.go speaks of it, and then a raise
that fills offset between two lists, which no list shows, is assumed not to
happen.  The theorems hold of both.  Buys are left out: the rule does not read
them.

**`RiskGate`, `BoostHandler`, `BoostEvents`, `EndState`, `BoostRun`.**  The
gate and the handler are records, and every method that changes one is an
operator returning it changed; what is journalled with it is part of the
result, and an emitted payload that its `Validate` would refuse sets `fault`,
as the code's `fail` ends the run.  A share costs 1 and net liquidation is
fixed, so a target weight is a number of shares; one instrument is traded and
another may be held by hand.  `BoostRun` adds the account and the venue:
`venue` is what IBKR holds of each order, `mail` the reports under way,
`journal` what the run wrote and what a restart reads.  `twin` is the run
restarted from the last decision (`applyRecovery`, the states journalled, the
kill switch, the sessions since), given every later input; it is followed as
long as its orders and states are the run's own, since it has not read the
snapshots the run had, and not for a report on an order its decision did not
carry, which it refuses by design.  `journal.end` folds every record into
`EndState` as it is written, so that the log may end anywhere.  Venue and
owner act outside the second of a close; kill-switch instructions are stated
in order (one out of order is refused and ends the run).  Not among the
inputs: cash movements, Flex status and acknowledgements, which change no
order; undecodable records; the refusals about a venue shared with another
account; `decideFrom`.

`Next` is `Driven(Apply)`: the actions take what the handler answers, to the
run and to its twin, as parameters, and `Driven` takes the handler, as the
code's drivers take a `replay.Handler`.  `TurtleRun` is built the same way
(`Driven(Apply, covered)`); an action's parameter `d` is a delivery made.

**`Turtle*`, `Indicators`, `Sizing`, `FillSimulator`, `TurtleRun`.**  Prices
are whole ticks and ratios pairs, multiplied out where the code compares
floats.  A handler returns the reducer, its decisions in order and an error;
`transact` undoes a failed one, and `Valid` of each payload is checked before
it is emitted, as the code's `stamp` does.  `TurtleRun` follows `RunSession`:
fills at the open, the pending statement of cash, each bar, the session's
close, then fills inside each bar until none is left, every one delivered to
the reducer and its decisions to the simulator's book.  Between sessions an
instrument may be delisted, split, pay a dividend or change its symbol, or
the owner move cash (only what no standing order holds).  Modelled and not
driven: the universe gate, redelivered fills, `run.stopped`, order lifecycle
reports and classifications; no code classifies an instrument yet, so all
share one group.  Bars arrive in the order of identities.  The one halt a run
may meet is the missing cash figure (a missed session and then a signal, or
an add chained by a gap fill after cash was moved), which ADR 0021 accepts.

## Runs

Every bound is a constant of the module.  `MaxFaults` counts crashes, failed
writes, deadlines, lost replies and fresh runs together (in `OrderRelay` also
refused sends and cut-off reads), `MaxDay` counts sessions.  Three faults are
enough for a crash in a run, another in its resume and a third event beside
them; two sessions are enough for a permission or an order to outlive its own.
`SellLedger` has two seconds (a fill before, in and after a snapshot's
second), two readings and one restart.  `TurtleRun` has four sessions, two of
them warming the readings up, and one event between them: enough to enter,
add, stop out and enter again, not for an add still pending when a stop of
its campaign fills in a later session, which takes a fifth.  `BoostRun` starts
in one of `MCStarts`, each naming the sessions and how many inputs out of the
ordinary of which kinds may happen; together they pair every two kinds that
touch the same state, and the one with four sessions lets a word on an older
order arrive after two newer ones.  Where deadlock is not checked, a system
out of inputs, faults or time may stop; `turtle_run` checks it.

| Run | Instance | Checks | States |
| --- | --- | --- | --- |
| `durable_run` | 2 inputs, 2 records (1 misdated), 2 starts, 3 faults, symmetry | `TypeOK`, `JournalBeforeSend`, `OneReplyPerInput`, `LogContiguous`, `ReleasedSurvivesResume`, `RecordDeliveredOnce`, `NeverTakenForAnother`, `RefusedOnlyBehindRecord`, refinement `KeepsPromise` | 214,769 |
| `answered` | 2 inputs, no record, 2 starts, 3 faults, fair | `WaitingIsSettled` | 46,617 |
| `waiting_input` | 1 input, 1 record, 1 fault | violates `UncommittedAppliedAsNew` | |
| `order_relay` | 2 replies of 1 order (1 unsendable, both may be shown unsent), 2 sessions, 3 faults, careful owner | `TypeOK`, `PlacedOnce`, `RetiredNeverPlaced`, `NoOrderForgotten`, `RetiredAfterItsInput`, `FoundNeverRetired` | 2,320,271 |
| `settled` | 1 reply of 2 orders (1 unsendable), 2 sessions, 2 faults, careless owner, fair | `PlacedByPermission`, `AwaitingIsSettled` | 85,371 |
| `cut_short` | 1 reply of 2 orders, 1 foreign, 2 sessions, 1 fault | violates `MarkedNotDeliverable` | |
| `sell_ledger` | 3 shares, 1 sell of the gate, 1 by hand, 2 seconds, 2 readings, 1 restart | `TypeOK`, `RemainsWithinTruth`, `SettledFreesAll`, `ReportsNeverRaise` | 898,312 |
| `slow_read` | 2 shares, 1 sell, readings that cross a second | violates `RemainsWithinTruth` | |
| `turtle_run` | 2 instruments, 4 sessions, 6 bar shapes, 1 event | `TypeOK`, `BothSidesAgree`, `HoldsMatchProposals`, `StandingBuysAreFunded`, `UnitsInsideCaps`, `BookMirrorsReducer`, `MoneyConserved`, `NoOrderOutlivesItsBar` | 353,495 |
| `freed_headroom` | 2 instruments, 3 sessions, 2 bar shapes | violates `HeadroomFreedNextBar` | |
| `boost_run` | 12 starts of 2 to 4 sessions, 1 to 3 inputs out of the ordinary | `TypeOK`, `NeverStopped`, `RestartContinues`, `SaleOnce`, `ArmedSaleWaits`, `StoppedByTwoInARow`, `SoldToTheTarget`, `NextRunCarriesOn`, `NoBuyWhileBarred`, `NeverLoosens` | 459,453 |
| `silent_lapse` | the same instances | violates `WithheldLapses` | |

What they show, beyond the sentence each has in `PROJECT.json`:

- `WaitingIsSettled` is checked with no operator record, because with one the
  first divergence below makes it false.
- `FoundNeverRetired` needs the careful owner.  `retire` and `--never-sent`
  look at the marks, not at the relay's at-broker decision, so an owner who
  does not look at IBKR can settle as never sent an order whose finding was
  recorded and whose mark a crash left unwritten.
- `RetiredAfterItsInput` excepts an order that was given a resend permission:
  when the session turns between the relay's date check and the sender's, such
  an order is retired although its last decision is the resend.
- `RemainsWithinTruth` is the rule's own claim; with readings that cross a
  second it is false (third divergence below).  `SettledFreesAll` is its other
  side: a rule that held back too much would satisfy the first.
- `BothSidesAgree` with `BookMirrorsReducer` is an agreement of two programs
  that see the same stream: a proposal expired by one and filled by the other
  would break them.
- `StoppedByTwoInARow` compares the handler's counter with a definition over
  the words in the order they were read and the orders as released, and the
  counter must be neither late nor early.
- `ArmedSaleWaits` is one side of what the journal says of a sale held back:
  one that will be fired again is written down as waiting.  The other side,
  that one written down as waiting will be fired again, is `WithheldLapses`
  and is false (fifth divergence below).
- `NeverStopped` excepts a short.  `orderplan.PlanBoost` refuses to plan against
  one, `trade` takes the refusal for a defect ("The planner and the gate cannot
  refuse what this handler has validated", `handler.go`), and the margin
  account's snapshot may hold one: the owner sells the shares by hand while an
  exit for them is working, and it fills.  One start has the trades by hand
  this takes; the property says that nothing else ends a run.
- `RestartContinues` compares what the next decision would record.  The sale
  of an engagement of the kill switch or of an alarm is not part of it: ADR
  0026's point 5 lists both among what a restart recovers, while the decision
  carries the incident's sale attempt only.
- `NextRunCarriesOn` takes every set of unsent sales to settle, with and
  without clearing the incident, and every approval that differs in one field
  from the one proposed.  A settlement is taken to name the input that
  released its order.

Each property has a mutant in `PROJECT.json`: a definition of the model
changed the way a plausible bug would change the code (a group committed
before its flush, an abandoned resume taken for a run, the marks cleared
before the input, a hand-over not written ahead), which TLC shows the
property to catch.  The mutated definitions stand before their originals in
the modules, marked as mutants, and are used by nothing else.

## Fairness

`DurableRun!Fairness`: the engine's own steps run; an adapter with a saved
input keeps asking (`loop.py` asks at every start and drain); the owner
follows the restart runbook (a poisoned engine stops by itself through
`stopWith` or is stopped, an unreadable log is moved to quarantine, the latest
run is resumed).  There is no fairness on starting fresh runs, composing
inputs or writing records.

`OrderRelay!Fairness`: the adapter is restarted after a stop (systemd) and its
steps run; the owner settles each order the adapter stopped at, running again
a command that was cut short.  The owner's command needs the adapter down
while the restart is automatic, so the owner's step is enabled again and again
rather than continuously, and strong fairness states that the owner gets a
turn (the runbook has the owner stop the unit first).

Faults are bounded, so neither assumption has to outlast an endless series.

## Proofs

Every safety property and action property that the runs of `DurableRun`,
`OrderRelay` and `SellLedger` check is a theorem (TLAPS), for any sets of
inputs, records, starts, orders and sells and any number of faults, readings
and restarts.  So are four of those `BoostRun` checks, for any limits, starts,
sessions and inputs.  The assumptions are those the modules name
(`ConstantsAssumption`, `RelayAssumption`: an order is released by one reply,
once; `RuleAssumption`, `LedgerAssumption`, `ListAssumption`: the sets of
orders are finite and apart, the first holding and the owner's sizes are within
`Top`, and what stands for "not read" is no value) and, where a theorem has one,
the hypothesis it is stated under.

### The engine and its logs

| Theorem | States | Rests on |
| --- | --- | --- |
| `TypeCorrect` | `[]TypeOK` | `RecorderInv` |
| `JournalledBeforeSent` | `[]JournalBeforeSend` | `RecorderInv` |
| `LogsOnlyGrow` | no step takes back a committed group or sets aside a log that holds one | `RecorderInv` |
| `LogsContiguous`, `RecordsDeliveredOnce` | `[]LogContiguous`, `[]RecordDeliveredOnce` | `RunInv` |
| `OneReply`, `ReleasedSurvives` | `[]OneReplyPerInput`, `[]ReleasedSurvivesResume` | `RunInv`, `JournalBeforeSend` |
| `NeverMistaken`, `RefusedBehindRecords` | `[]NeverTakenForAnother`, `[]RefusedOnlyBehindRecord` | `AdapterInv` |
| `PromiseKept` | `KeepsPromise`: `DurableRun` implements `CommittedReply` | `RunInv` |

Types are not inductive by themselves: `CopyGroup` and `Crash` write what
`Writing` allows into the last log, so there must be one, and what the process
resumes must be an older log.  `RecorderInv` adds `Running` (the log written is
the last, not set aside, and holds what the recorder holds, exactly that unless
the guard is poisoned), `PhaseFacts` (what each phase may rely on),
`HeadedFirst` (a log without its header holds no group, so setting it aside
loses nothing) and `OpensWithStart`.  A reply is a prefix of the recorder's
memory, the memory is a prefix of the last log, and logs only grow
(`LogsGrowStep`), so what was released stays in a readable log.

What one log holds says nothing of the logs an abandoned resume left beside
it.  `RunInv` adds `FolderInv`: every log counts up from 1 and holds each input
once (`WellFormed`), two logs of one start are prefixes of one another
(`Comparable`), each log is continued by one that `restart.Classify` takes for a
run (`Covered`), and no input or record is of two runs (`OneRunPerId`).  This needs
`HeadFacts` (while groups are copied, the log being written is a prefix of the
one resumed, which continues every other log of the run), `ExchangeFacts` (a record listed for
delivery is in no log) and `WaitingFacts` (the input awaited is in logs of its
own run only).  From it an input has the same reply in every log that has it,
which is `OneReply`, the re-delivery of ADR 0027 and the heart of the
refinement: `Given` maps an input to the groups up to its own in the oldest log
that holds it, a commit adds one pair to it, a reply releases a pair it has,
and every other step stutters (`PromiseStep`).

`AdapterInv` adds where the input awaited can be: from the sequence it was
saved with, a log of its run holds operator records up to the input itself
(`MovedFacts`), and the sequence the guard remembers for it is the one it was
saved with (`SentFacts`).  So a recorded input is recognised, and only a record
in its place refuses it.

### The relay

| Theorem | States | Hypothesis |
| --- | --- | --- |
| `RelayTypeCorrect`, `SentByPermission` | `[]TypeOK`, `[]PlacedByPermission` | none: whatever the owner does |
| `SentOnce` | `[]PlacedOnce` | `OwnerChecks` |
| `NoneForgotten` | `[]NoOrderForgotten` | none |
| `RetiredUnsent`, `FoundUntold`, `RetiredInOrder` | `[]RetiredNeverPlaced`, `[]FoundNeverRetired`, `[]RetiredAfterItsInput` | `OwnerChecks` |

`OwnerChecks` is what `docs/manual/redelivery.md` asks of the owner: look an
order up at IBKR before settling it.  Without it the owner may declare never
sent an order that is there, which no code here can prevent.

How often an order was sent says nothing by itself of whether it will be sent
again, so `RelayInv` adds what licenses a hand-over.  `PermissionFacts`: a
resend mark means one sending is still unspent, an order without a mark whose
input awaits its reply was never sent, and neither was an order of an input the
engine has not committed (so a new input taken after a crash between
`ClearInput` and `ClearMarks` starts clean).  `WalkFacts`: the orders acted on
are those of the committed input awaiting its reply, a check starts only from
no mark or a resend mark, and at "sending" the mark is already "handing-over",
which licenses nothing: whatever happens to that send, another needs the owner.

`DealtFacts` says that every order of a committed input was dealt with or still
waits with its input; it holds because each mark the relay passes an order over
for is written after the order was handed over, found or decided on.
`RecordInv` relates the three records of one order that a crash may leave out
of step: its mark, its last decision and its retirement in the outbox.  The
delicate parts are `ResendOf` (an order whose retirement was begun and that is
still marked for sending was once permitted, and its session is over),
`FoundOf` (an order found at IBKR keeps a mark or a decision that stops its
retirement) and `WordOf` (whatever the relay went past is settled as never sent
if its retirement can be delivered).

### The pending rule

| Theorem | States | Hypothesis |
| --- | --- | --- |
| `TypesAlways` | `[]TypeOK` | none |
| `RemainsWithinTruthAlways` | `[]RemainsWithinTruth` | `~SlowRead` |
| `SettledFreesAllAlways` | `[]SettledFreesAll` | `~SlowRead` |
| `ReportsNeverRaiseAlways` | `ReportsNeverRaise` | `~SlowRead` |

`~SlowRead` says that a snapshot's time is asked in the second its positions
were read.  The code does not ensure it, and without it the first of the three
is false (`slow_read`).

Whether a snapshot shows an execution depends on the moment its list or its
positions were read, which no variable records.  The invariant `LedgerInv`
therefore says that there *is* such a history: sets `L[n]` and `B[n]` of the
executions made before snapshot `n` read its list and its positions, and `RL`,
`RB` for the reading under way, that agree with all the ledger holds.  Of a
snapshot: its holding and the shares of `B[n]` make up what was held at first,
and every execution of an earlier second is in `L[n]` (`Shown`).  Of a sell of
the gate's: what it has left and what it sold make up what it released; a
listing of it and the shares sold before that list make up no less than that;
one released after a snapshot sold nothing before it; an end is no earlier
than its executions (`Own`).  Of a sell by hand: listings that do not rise
bound what it sold since the first of them and may still sell, and after a list
no longer has it, it sells nothing (`Hand`).

From it each view counts at least what IBKR sold after it or may still sell, of
every sell of the gate's (`OwnCounted`) and by hand (`HandCounted`), which
gives the first theorem when summed.  A sum is a count: `Total(w)` is the
number of pairs of an order and one of its shares, `SumIsTotal` shows that
`addPending` over the terms in any order is that number cut off at `Top`, and
the cut-off is on the safe side because no holding exceeds `Top`.  For
`ReportsNeverRaise`, `remains` no longer asks a snapshot once a later one
becomes quiet, so a report could lower it if the older snapshot left more:
`QuietBound` shows it never does, since what a quiet snapshot counts and the
shares sold between the two are all counted by the older one.

### The Boost run

| Theorem | States | Rests on |
| --- | --- | --- |
| `SellsOnce` | `[]SaleOnce` | `RunOk` |
| `ArmedWaits` | `[]ArmedSaleWaits` | `RunOk` |
| `LoosensNever` | `NeverLoosens` | `RunOk`, `KillKnown` |
| `StopsByTwoInARow` | `[](h.fault = "" => StoppedByTwoInARow)` | `RunOk`, `VerdictsOk` |
| `NoBuyBarred` | `NoBuyWhileBarred` | `RunOk`, `KillKnown`, `VerdictsOk` |

All five have one hypothesis, `NilIsNoRecord`: `None`, which stands for Go's
nil, is no record.  None of them assumes that the run's decisions are valid:
a handler that sets `fault` has ended its run, and its last answer is covered
as well.  `StopsByTwoInARow` speaks of runs that go on, since the words an
ended run was sent are read by nobody.

That a sale is released once is a fact about client order IDs: the gate numbers
an attempt by the retirements of its tag, so the next number must be new.
`RunOk` says of the gate (`GateOk`, `Placed`) that each order of a decision is
named by a session no later than the last, and each sale by its tag and either
the number of an attempt that was retired or the number now standing, which is
then spent; of the journal (`Backed`) that what it released are orders of the
gate, each once; and of a sale held back (`ArmsOk`) that the journal has it as
waiting.  A handler changes its gate many times within one input and writes as
it goes, so none of this can be compared before and after a step alone:
`Sound(y, x, ...)` says it of a handler `y` on its way from `x`, with what it
has written so far.  Each part of an answer has a lemma that leads from `Sound`
to `Sound` (`SoundGate`, `SoundEvent`, `SoundRelease`), each input one that
joins its parts, and `AnswerOk` journals the result.  The handler's folds over
its lists are followed through their recursive functions, by induction on the
position.

`NeverLoosens` rides on the same chain.  One input may move the gate twice (a
snapshot's comparison, then the sale it fires), so `Tighter`, which is
transitive, is part of what `Sound` says of the gates of `x` and `y`; the
lemmas that need the guards of the code are `FrameDegrade`, which holds only
out of "halted", and `OrderVerdict` and `FrameConsequence`, which show that a
limit and a difference degrade only there.

`StoppedByTwoInARow` relates three figures (the rejections in a row, the
undecided orders, how many of them are older than the rejection counted) to
the words read and the orders released, two histories the handler does not
keep.  `Verdicts` says how they go together: the undecided orders are released
ones, in the order of their release, with no word heard (`Awaited`); while no
rejection is counted, each one heard is followed by an acceptance of an order
no older; while one is counted it is the only one that is not, and `older`
tells the undecided orders released before it (`Tally`).  It is not inductive:
a word heard twice, or of an order that is neither undecided nor heard, would
count for nothing in the handler and for something in the history.
`VerdictsOk` therefore adds (`Settled`) that each order of a decision is
undecided, heard, settled or retired as never sent.  Each input leaves the
verdicts alone (`Calm`), places one order (`Placing`), takes one out
(`Settling`) or reads a word (`Reported`).

### Only model-checked

- The liveness properties `WaitingIsSettled` and `AwaitingIsSettled`: fairness
  is out of the prover's reach.
- Of `BoostRun`: `TypeOK`, `NeverStopped`, `RestartContinues`,
  `SoldToTheTarget` and `NextRunCarriesOn`.  `NeverStopped` and
  `RestartContinues` need all that a decision and an approval record, for two
  handlers side by side; `SoldToTheTarget` sums what the venue may still fill
  over a set of orders; `NextRunCarriesOn` is about a fold over the whole log.
  None of them is out of reach for a reason other than size.
- `TurtleRun` with the modules under it.  Its invariants are about what a
  handler of some hundred lines returns for every record it may be given, and
  several of its definitions fold over sequences of prices, units and fills,
  which would take induction over data.

## Where the code and its documentation differ

1. `waiting_input`: ADR 0027 says an input never committed is applied as new
   when it is sent again.  If an operator record was committed in the same
   exchange before a crash or a failed append, the record took the sequence
   the adapter saved, and the engine refuses the saved input as
   non-contiguous at every start.
2. `cut_short`: a comment in `_resolve` says that the owner's `--sent`, cut
   short after its at-broker mark, leaves no retirement deliverable.  With the
   input already cleared (a stop between `clear`'s first two removals) no
   settlement reads the mark, and the drain delivers the retirement.
3. `slow_read`: pending.go says that what remains is never above what will
   truly be held.  `read_account` asks IBKR's time after it read the
   positions, so a fill in between, in an earlier second than the stamp, is
   taken as shown by a holding that still counts its shares.
4. `freed_headroom`: ADR 0010 says that exits of a bar free headroom for the
   next bar only.  A unit stopped out inside a bar frees it for an add chained
   to another instrument's fill of the same session.
5. `silent_lapse`: the manual says that a withheld sale which is no longer to
   be decided lapses in the journal.  While the sale of one urgent alarm is at
   the venue, a later alarm's sale may be withheld; when the first is retired
   as never sent, `RetireSale` arms the retry anew and forgets the withheld
   sale it replaces, and the end of the alarm then journals no lapse for it.

## What is not modelled

- In `DurableRun` and `OrderRelay`: payloads, hashes, line encodings and
  messages; the end-of-run journal; settling an ended run's orders on the
  adapter's side (`settle_ended_run` only clears the waiting input in
  `DurableRun`); the worker thread and `Relay.close`; the chain of runs by
  age (`ChainHead`).
- The Flex ledger: its rows and statuses are delivered in the ledger's order,
  once in a run and again in every fresh run.  Only what they have in common
  with operator records is in `DurableRun`, an input of the engine's own that
  is flushed ahead of the adapter's and moves its sequence; a folder of logs
  with rows in it is not among its states.
- The momentum and glide runs of the IRAs, with their gate (`ira.go`) and
  cash; the pending cash reads of the margin account.
- Stream delivery, IBKR's connection, the Flex reader, the gateway healer:
  concurrent code, left for lack of room, not of reach.
- Reporter, triage, dashboard, queries, reports, backtest and registry
  commands, LEAN and market data, research, deployment: outside the trading
  path, or batch programs and formatting.
- Floating point: prices are whole ticks, so what depends on rounding (the
  fused products `internal/sizing` guards against) is out of the model.

Components with status `not_modelled` in `PROJECT.json` give their reasons.

## Plan

Done: the core modules and their proofs, the strategies and the gate by model,
the proofs of `PendingRule` and `SellLedger`, and of `BoostRun` its sales,
verdicts and buys.  Next, what else of the strategies can be proved:

1. `RiskGate` and `EndState`: a state only ever tightens (`tighten`,
   `foldState`), and `CheckIncidentInForce` with `CheckSaleAttempt` imply that
   a fresh run is no looser; from there `NextRunCarriesOn`, by an invariant
   that the fold of the log agrees with the gate.
2. `BoostRun`: `SoldToTheTarget`, from the ledger's bounds (`OwnCounted` of
   `SellLedgerProofs`) carried to the venue of `BoostRun`; then `NeverStopped`,
   from `VerdictsOk` and what each payload's parts demand of one another.
3. `FillSimulator`: `MoneyConserved` for one delivery.

Then, by model: `StreamDelivery` (`adapter/ibkr/delivery.py` with the drain),
the Flex ledger by its own rule beside `DurableRun`, the chain of runs, the momentum run, the gateway healer, and `OrderRelay`
composed with `DurableRun` in place of the promise.
