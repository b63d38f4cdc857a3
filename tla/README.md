# TLA+ models of mempool-tab

This directory holds TLA+ specifications of the code in `src/`, the TLC
configurations that model-check them, and `PROJECT.json`, which lists the
components, the runs, the source lines behind every definition, the findings
and the hazards. Everything here is read beside the source: a definition
carries the name of the function or variable it models.

## The system

The repository is a Bitcoin Core tree with a mempool tab added to the GUI. The
sources at hand are five independent parts that meet only through the node:

| Part | Source | What it is |
|---|---|---|
| Warning store | `warnings.cpp` | one string and two flags behind `g_warnings_mutex`, set by validation and init threads, read by RPC and GUI threads through `GetWarnings` |
| Fee-range detail view | `qt/mempool_tab/mempooldetail.cpp` | a `QGraphicsView` that draws the fee histogram kept by `ClientModel`; redrawn on a queued signal of the collector, on resize, show, hide, enter, leave, and on a click on a fee-range rectangle |
| Traffic graph | `qt/trafficgraphwidget.cpp` | a widget whose `QTimer` samples the node's byte counters into two bounded queues of rates |
| Wallet tool | `bitcoin-wallet.cpp` | `main` of the offline wallet utility: argument handling, one method, exit code |
| Package admission | `test/txpackage_tests.cpp`, `spec.md` | `CheckPackage` and `ProcessNewPackage`; the engine itself is not in `src/`, its tests are |

`qt/mempool_tab/mempoolstats.h` only declares a widget whose implementation is
absent; the clickable items it declares are the rectangles of the detail view.

## Inventory

**Warning store.** State: `strMiscWarning`, `fLargeWorkForkFound`,
`fLargeWorkInvalidChainFound`, the mutex. Operations: the three setters,
`GetfLargeWorkForkFound`, `GetWarnings`. Hard part: `GetWarnings` reads all
three variables while setters run in other threads. Correct means: an answer
describes one state of the store; the store changes only under the mutex.

**Detail view.** State: `m_clientmodel`, `m_selected_range`, `m_scene`, and,
in `ClientModel`, `m_mempool_feehist`, `m_mempool_locker`,
`m_mempool_max_samples`. Operations: constructor, `drawDetail`,
`drawFeeRects`, the click lambda, `setClientModel`, five event handlers, the
slot of `mempoolFeeHistChanged`. Hard parts: the collector thread changes the
histogram while the GUI thread draws; `drawDetail` releases the lock before
the loop that calls `drawFeeRects`, which reads the histogram again; signals
are queued, so a redraw may come long after the update it announces; the
y-axis scale is integer arithmetic on a logarithm. Correct means: the scene
ends up showing the current histogram and selection; the chart never sees a
histogram longer than `m_mempool_max_samples`; the scale bounds the data; no
unlocked access to the histogram.

**Traffic graph.** State: the timer, `m_range`, `fMax`, `vSamplesIn`,
`vSamplesOut`, `nLastBytesIn`, `nLastBytesOut`, `fToggle`, `clientModel`.
Operations: constructor, `setClientModel`, `mousePressEvent`, `updateRates`,
`setGraphRange`, `clear`, `paintEvent` with `paintPath`. Hard parts:
timeouts, clicks, range changes and model changes in any order; rates are
floats divided by an interval that is 0 until a range is set; `fMax` is
recomputed after the queues are trimmed; only `updateRates` asks for a
repaint, and every click restarts the timer that calls it. Correct means:
`fMax` bounds what is drawn, all samples share one scale and are finite, no
byte is counted twice, a sample is the traffic of one interval, every point
of a path lies inside the graph, and the screen catches up with the state.

**Wallet tool.** State: `argv`, the options held by `ArgsManager`, `method`,
the selected chain parameters, the ECC context, the exit code. Operations:
`WalletAppInit`, the method loop, the error exits, the call of the wallet
function. Hard parts: switches, empty arguments and methods in any order;
five ways to leave before the function runs. Correct means: the function runs
for exactly one method; `main` always returns.

**Package admission.** State: the pool, `cs_main`, and per call the package,
`dry_run`, the member results and the package state. Operations:
`CheckPackage`, `ProcessNewPackage` (one step per member). Hard parts: the
count rule against the size rule; a single oversized transaction; members
committed one by one; a test accept that must still let a child see its
parent; other callers. Correct means: the properties of section 8 of
`spec.md` and the checks of the tests.

## Modules

| Module | Models | TLC instance |
|---|---|---|
| `WarningStore` | what `warnings.cpp` promises its callers: every call takes effect at one instant | checked through `MCWarnings` |
| `Warnings` | `warnings.cpp`, step by step under `g_warnings_mutex` | `MCWarnings` |
| `MempoolDetail` | `mempooldetail.cpp` and what it uses of `ClientModel` | `MCMempoolDetail` |
| `TrafficGraph` | `trafficgraphwidget.cpp` | `MCTrafficGraph` |
| `WalletTool` | `bitcoin-wallet.cpp` | `MCWalletTool` |
| `PackageAdmission` | what `ProcessNewPackage` promises its callers (`spec.md`, sections 4 and 5): a call takes effect at one instant | checked through `MCPackagePolicy` |
| `PackagePolicy` | the engine of `spec.md` member by member under `cs_main`, the packages and checks of `txpackage_tests.cpp` | `MCPackagePolicy` |

The parts share no state, so no module composes two of them; `MempoolDetail`
is itself the composition of the widget with the collector side of
`ClientModel`. Two modules instantiate the abstract specification they
implement: `Warnings` instantiates `WarningStore`, `PackagePolicy`
instantiates `PackageAdmission`.

### Warnings

Variables are the three guarded variables and `g_warnings_mutex` (the thread
that holds it), plus per thread `pc`, `call`, `acc` (the locals
`warnings_concise` and `warnings_verbose`) and `ret`. A call is `Call`, `Lock`
(blocks until the mutex is free), the body, and the return, which releases the
mutex as the end of the `LOCK` scope does. The setters and
`GetfLargeWorkForkFound` are one step each. `GetWarnings` is three steps, one
per read of shared state (`GetWarningsMisc`, `GetWarningsFlags`,
`GetWarningsReturn`), so that a missing lock would show as a mixed answer. A
warning text is its identity; `verbose` chooses between the joined list and
the last concise warning.

`WarningStore` is the same store with the mutex, the program counters and the
locals taken away: a thread announces a call (`Invoke`) and the call takes
effect in one step (`TakeEffect`), which applies `After` to the store and
leaves `Answer` in `ret`. `Warnings` contains `INSTANCE WarningStore WITH
pending <- call`; the three store variables and `ret` map to themselves. The
step of `Warnings` that corresponds to `TakeEffect` is the return of the call,
where a setter writes and `GetWarnings` hands out what it has gathered; all
other steps of `Warnings` leave the abstract variables alone.
`ImplementsWarningStore` is `AtomicStore`, checked as a property of
`Warnings`.

### MempoolDetail

`DrawDetail` is the locked phase of `drawDetail` (lines 240-372): it returns
at once without a model, needs the locker to be free, clears the scene, and
computes `max_txcount`, `display_up_to_range`, the nice scale and the number of
samples into the record `draw`. Each `DrawFeeRects` step is one round of the
unlocked loop at lines 374-420: it reads `m_mempool_feehist[0]` again and adds
the rectangles of that pass. The handlers (`RectClicked`, `ResizeEvent`,
`ShowEvent`, `HideEvent`, `EnterEvent`, `LeaveEvent`, `SetClientModel`,
`FeeHistChanged`) run only while the GUI thread is idle, because they run on
the same event loop. They are put together from four parts: `Drawing` (the
body of `drawDetail` up to the release of the lock, `DrawDetail` being
`Drawing` behind the `QMutexLocker`), `Redraw` (a handler that only calls
`drawDetail`), `Connect` (`setClientModel` before its drawing) and `Select`
(the click lambda before its drawing). The collector (`CollectLock`, `CollectPush`,
`CollectTrim`) is written from how the widget uses `ClientModel`: it takes the
locker, appends a sample, trims to `m_mempool_max_samples`, unlocks and emits
the queued signal once per connection. Fee amounts, colours, fonts, geometry
and the text items are left out; a rectangle is its range, its pass and
whether it is dimmed. The mouse handlers that only emit `objectClicked` and
log have no action. `UserInput` gathers the handlers the user or the window
system triggers, `Collect` the steps of the collector.

Three choices of the model are worth knowing when reading a trace. A handler
that has to wait for `m_mempool_locker` is delayed as a whole: in the code
`m_scene->clear()` (line 245) and the handler's own writes come before
`QMutexLocker` can block, but the GUI thread runs nothing else while it
waits and the collector never looks at the widget, so no one can see the
state in between. One call of `drawFeeRects` is one step; the walk over the
first sample is not split further, which is enough to place it outside the
lock. And `Init` takes `m_clientmodel` to be null and `m_selected_range` to
be -1 after the constructor: their initialisers are in `mempooldetail.h`,
which is not in `src/`, and `drawDetail` and `drawFeeRects` test for exactly
these two values.

### TrafficGraph

The timer is a record (`active`, `interval`, `remaining`); `Tick` counts it
down and `UpdateRates` fires at 0 and restarts it. A rate is the fraction
bytes over milliseconds, compared by cross-multiplication, which keeps the
float's behaviour where it matters: a division by 0 is larger than every
finite rate, 0/0 compares false with everything. `UpdateRates` is
`Pushed`, `Trimmed` and `Largest` on both queues, `ReadCounters`, and
`update()`, which sets `update_pending`. `Receive` and `Send` are the node.

`PaintEvent` stores in `painted` what `paintEvent` draws from the state of
that moment, `Picture`: a black widget when `fMax <= 0`, otherwise the grid
(which depends on `fMax` and `fToggle` only) and the two paths. `PaintPath`
is `paintPath`: sample `i` at `x = XMARGIN + w - w * i / DESIRED_SAMPLES` and
`y = YMARGIN + h - Bar(sample)`. `Bar` is the conversion `(int)(h * f / fMax)`
and, with `fToggle`, `(int)(h * pow(f / fMax, 0.3))`, the latter computed
exactly as the largest `k` with `k^10 * d^3 <= h^10 * n^3` for `f / fMax =
n / d`. With a rate that is not finite the conversion to `int` is undefined;
the model calls the whole picture `"undefined"` then. Only `UpdateRates`
sets `update_pending`: `mousePressEvent`, `clear` and `setGraphRange` change
what `Picture` is without asking for a repaint. `PaintEvent` may happen at
any time, as a repaint the window system asks for on its own does; the
fairness condition covers only the repaint that `update()` requested, so the
liveness property is checked for a screen that is as late as the code allows.

The timer is exact: a timeout comes `interval` ticks after the timer was
started, never later. A late timeout of a busy event loop would stretch a
sample as a click does; `SampleCoversOneInterval` leaves that aside and is
about what the code itself does to the interval. `fToggle` has no
initialiser in this file, so `Init` allows both values.

`elapsed` is a history variable, the ticks since the counters were last read;
it is used by `SampleCoversOneInterval` alone and is switched off
(`MaxElapsed = 0`) in the run of the other properties.

### WalletTool

`argv` is a sequence over a switch, the empty string and the method names.
What `ArgsManager`, `CheckDataDirOption`, `SelectParams` and
`ExecuteWalletToolFunc` answer is chosen freely, with one tie:
options can only be set when a switch was given. `WalletAppInitFails` and
`WalletAppInit` are the two outcomes of initialisation, `ScanArg` one round of
the loop at lines 99-107, `TwoMethods`, `NoMethod` and `NoWalletName` the
error exits, `ExecuteWalletToolFunc` lines 120-128 (ECC is stopped only on
success). The loop body is written once, as `TakeArg` (the assignment and the
increment) under the guard `NoSecondMethod`; the call of the wallet function
is `Execute` under the check of the wallet name. Messages and
`m_print_to_console` are left out.

### PackageAdmission and PackagePolicy

`PackageAdmission` holds the values (`PackageState`, the reasons), the
sanitizer `CheckPackage`, the validation engine on one transaction
(`Validate`, `InputsAvailable`) and the call as its caller sees it:
`Outcome(snapshot, package)` is the package state and the member results of a
package submitted to a pool, the results being `Verdicts`, a fold of
`Validate` over the package in which each member sees the snapshot and the
members valid before it. Its variables are the pool, the pending request of
each caller inside a call and the result of each caller that holds one, both
functions whose domain is exactly those callers. `Invoke` announces a call,
`TakeEffect` applies `Outcome` to the pool of that instant and, unless
`dry_run`, adds the valid members to it, `Read` is the caller taking the
result.

`PackagePolicy` is the same call in the steps of section 5: `ProcessNewPackage`
takes `cs_main` and records `initialPool`, `PolicyRejected` or `PolicyPassed`
is the sanitizer, `AcceptTx` validates one member and commits it at once
(`Commit`), `Finish` aggregates (`Aggregate`), `Return` hands the result to
the caller and releases `cs_main`. The pool starts empty with `cs_main` free
and every call takes the lock for itself, where the test holds it for its
whole body. It contains `INSTANCE PackageAdmission WITH`
the refinement mapping:

| Abstract variable | Is, in `PackagePolicy` |
|---|---|
| `pool` | `Committed`: the `initialPool` of the call in progress, the pool itself when there is none |
| `pending` | package and `dry_run` of each caller whose `pc` is `CheckPackage` or `validate` |
| `result` | state and member results of each caller whose `pc` is `done` |

Under this mapping `ProcessNewPackage` is `Invoke`, `PolicyRejected` and
`Finish` are `TakeEffect`, `Return` is `Read`, and `PolicyPassed` and
`AcceptTx` change nothing the abstract specification sees: the members a call
has committed so far become visible together, at `Finish`.
`ImplementsPackageAdmission` is `AtomicAdmission`, checked as a property of
`PackagePolicy`. The size rule exempts a package
of one, as section 4.2 and the test of the giant transaction require. The
validation engine is three reasons to fail, in the order the test relies on:
the transaction's own size, already in the pool, missing inputs. The
transactions are those of the tests: placeholders (whose inputs do not exist),
`large_ptx`, `giant_ptx`, `tx_parent` (spends a coinbase) and `tx_child`
(spends `tx_parent`). `initialPool` is the pool when the call began, as the
test's `initialPoolSize`. The test's `package_too_large` holds `large_ptx`
several times although section 3 of `spec.md` excludes identical members; the
model submits it as the test does, and since the sanitizer rejects it no
member of it is ever validated.

## Runs

| Run | Configuration | Result | Distinct states |
|---|---|---|---|
| `warnings` | `MCWarnings.cfg` | holds | 126,880 |
| `detail` | `MCMempoolDetail.cfg` | holds | 563,258 |
| `detail_race` | `MCMempoolDetail_NoDataRace.cfg` | `NoDataRace` violated | |
| `detail_scale` | `MCMempoolDetail_ChartUpperBoundCoversMax.cfg` | `ChartUpperBoundCoversMax` violated | |
| `detail_selection` | `MCMempoolDetail_DimmedBesideSelected.cfg` | `DimmedBesideSelected` violated | |
| `detail_detached` | `MCMempoolDetail_ClickedRangeIsShown.cfg` | `ClickedRangeIsShown` violated | |
| `traffic` | `MCTrafficGraph.cfg` | holds | 189,612 |
| `traffic_start` | `MCTrafficGraph_RatesAreFinite.cfg` | `RatesAreFinite` violated | |
| `traffic_rate` | `MCTrafficGraph_SampleCoversOneInterval.cfg` | `SampleCoversOneInterval` violated | |
| `wallet` | `MCWalletTool.cfg` | holds | 1,028 |
| `package` | `MCPackagePolicy.cfg` | holds | 6,835 |

What the passing runs show:

- `warnings`: `ReturnDescribesStore` (the list `GetWarnings` is about to
  return is the list of the store at that moment), `WritesHoldMutex` (the
  store changes only in the returning step of the thread that holds the
  mutex) and `ImplementsWarningStore` (every behaviour of the locked,
  stepwise store is a behaviour of the store whose calls are atomic: no
  caller can tell the two apart).
- `detail`: `SceneIsFresh` (once collector, signal queue and GUI thread are
  quiet, the scene is the drawing of the current histogram),
  `SceneShowsSelection` (with a model attached, the dimmed rectangles are
  those beside the selected one), `ChartFitsWidth` (the locked phase never
  sees the histogram between append and trim), `NiceScaleBrackets` (from five
  transactions on, where the step is not 0, the rounding up and the change of
  the step at fifty keep the scale at least the maximum and less than twice
  it; what happens below five is finding 2),
  and the liveness property `UpdatesReachTheScreen`: unless the user or the
  collector keeps acting for ever, or no model is set, the widget comes to
  rest again and again with an empty signal queue and the scene of the
  current histogram.
- `traffic`: `FMaxIsLargestSample`, `SamplesShareTimerInterval` (the
  samples kept were all divided by the interval the timer has now:
  `setGraphRange` drops those of the old one), `CountedBytesWereReceived`
  (the bytes behind the samples of a direction add up to no more than the
  last reading), `PathStaysInGraph` (with a range set, every point
  `paintPath` computes lies between the margins, for both scales; before the
  first range is set the samples need not be finite, which is finding 5), and
  the liveness property `ScreenFollowsState`: unless the user keeps acting
  for ever, or there is no model or no range, what is on screen is again and
  again what `paintEvent` would draw from the current state. It holds
  because `mousePressEvent` restarts the timer, whose next timeout calls
  `update()`; without that restart a click on a stopped timer would leave
  the old scale on screen for good.
- `wallet`: `ExecutedMethodIsTheOnlyOne` (the wallet function runs only for
  a command line that names exactly one method, wherever switches and empty
  arguments stand around it) and `Terminates`.
- `package`: `ImplementsPackageAdmission` (every behaviour of the engine
  that validates and commits member by member under `cs_main` is a behaviour
  of the engine whose calls are atomic: results and pool are those of
  `Outcome` on the pool at one instant, whatever other callers do),
  `PoolHoldsExactlyTheAcceptedMembers`, `TestExpectationsHold`. The
  refinement fails when a second caller may enter without `cs_main` and when
  a test accept commits.

Each property of a passing run is paired in `PROJECT.json` with a faulty
variant of a definition (a missing lock, a dropped guard, a wrong order) that
TLC must catch with it; the variants stand before the definitions they
replace in each module, and most are one line on a helper (`Untrimmed` for
`Trimmed`, `LargestFromOld` for `Largest`, `ScanArgLastWins` for `ScanArg`,
`ProcessNewPackageWithoutLock` for `ProcessNewPackage`).

## Findings

1. **Unlocked walk over the histogram** (`mempooldetail.cpp:84`, run
   `detail_race`). `drawDetail` ends its `QMutexLocker` scope at line 372 and
   then calls `drawFeeRects`, which iterates `m_mempool_feehist[0].second`.
   Trace: the GUI draws, the collector locks and appends, the GUI is still in
   `drawFeeRects`.
2. **Scale of 0** (`mempooldetail.cpp:317`, run `detail_scale`). For a largest
   sample of 1 to 4 transactions `stepbase` is `int(10^-1) = 0`, so
   `max_txcount_graph` is 0, below the maximum it is meant to bound, and line
   347 divides by it.
3. **A selection that selects nothing** (`mempooldetail.cpp:112`, run
   `detail_selection`). The comment says "if one item is selected, hide out
   the other ones". `m_selected_range` is a position in the drawing that was
   clicked; the next drawing stops at `display_up_to_range` of the histogram
   as it is then. When the selected range has emptied, every rectangle drawn
   is dimmed and the selected one is not among them; nothing resets
   `m_selected_range`.
4. **A click on a detached view is not shown** (`mempooldetail.cpp:242`, run
   `detail_detached`). The click lambda changes `m_selected_range` and leaves
   the display to `drawDetail`, which returns before `m_scene->clear()` when
   `m_clientmodel` is null. After `setClientModel(nullptr)` the rectangles of
   the last drawing are still on the scene and clickable; the scene keeps
   the old selection until a model is attached again. `SceneShowsSelection`
   in the run `detail` is the same statement for an attached model, and
   holds.
5. **Rates divided by an interval of 0** (`trafficgraphwidget.cpp:137`, run
   `traffic_start`). The timer is created without an interval and only
   `setGraphRange` sets one; `mousePressEvent` and `clear` start it with the
   interval it has. A click followed by a timeout with a model attached
   pushes 0/0 or x/0 as a rate, and with an infinite `fMax` the grid loop of
   `paintEvent` does not end. The widget relies on its owner to call
   `setGraphRange` before the first click or clear.
6. **A click stretches the sample** (`trafficgraphwidget.cpp:69`, run
   `traffic_rate`). `mousePressEvent` restarts the timer without reading the
   counters; the next rate divides the bytes of more than one interval by one
   interval.

## Bounds

- `warnings`: two threads, one message. Two threads give every pair of
  overlapping calls, and a writer between any two reads of a reader; three
  threads take the state space into the millions. One
  message and the empty string are enough to tell a set warning from a
  cleared one. The threads are symmetric.
- `detail`: two fee ranges, transaction counts 0, 2, 6 and 48, at most two
  samples kept. Counts 2 and 6 lie on either side of the five grid lines,
  where the scale changes behaviour; 48 alone and 48 with 2 lie on either
  side of fifty, where `stepbase` goes from 1 to 10, so the scale is checked
  across a decade (largest samples 48, 50, 54 and 96); two ranges give a selected and an unselected
  rectangle and a `display_up_to_range` that can cut one off; two samples let
  the histogram be over its limit between append and trim. `MaxConnections`
  and `MaxQueued` (both 2) bound the signal connections and the queued slot
  calls; the collector waits while the queue is full.
- `traffic`: two samples per direction, ranges of 1 and 2 minutes of 2
  milliseconds, counters up to `MaxBytes = 2`. Two samples make the trim and
  the recomputation of `fMax` happen; two ranges make the interval change
  under existing samples. The widget is 6 by 6 with margins of 1, so `h = w =
  4`: a sample of half the maximum is a bar of 2 on the linear scale and of 3
  on the other, so the two scales give different pictures, and a sample equal
  to `fMax` is a bar of exactly `h`, the edge of the graph. `MaxElapsed` is 0 in `traffic` and `traffic_start` (the history counter stands still)
  and 3 in `traffic_rate`, where three ticks are enough for a click to
  stretch a sample of a two-tick interval.
- `wallet`: command lines of up to `MaxArgs = 3` arguments over a switch, the
  empty string and the methods `info` and `create`: every order of two methods
  around a third argument.
- `package`: `MAX_PACKAGE_COUNT = 2` and `MAX_PACKAGE_SIZE = 1` (1000 virtual
  bytes), sizes 200, 600 and 1200, two callers. With these the package of
  three placeholders exceeds the count only, two `large_ptx` exceed the size
  only, and `giant_ptx` alone exceeds the size, as in the tests with 25 and
  101. The packages are those of the tests plus the parent alone, the child
  alone, the two in the wrong order, and the parent beside a failing
  transaction.

## Fairness

`Warnings` and `PackagePolicy` check safety only and assume no fairness:
`std::mutex` and `cs_main` promise no order among waiters. (The refinements
`ImplementsWarningStore` and `ImplementsPackageAdmission` are safety
properties: `AtomicStore` and `AtomicAdmission` have no fairness condition.)

`TrafficGraph` and `MempoolDetail` are checked under `FairSpec`, which is
what the Qt event loop of the GUI thread gives: it does not stop, so time
passes (`Tick`), a timer that is due fires (`UpdateRates`,
`UpdateRatesNoModel`), a repaint that `update()` requested is delivered
(`PaintEvent` while `update_pending`), a queued slot invocation is taken from
the queue (`FeeHistChanged`), and a `drawDetail` that has begun runs to its
end (`DrawFeeRects`). The collector, once it holds `m_mempool_locker`, goes
on to append, trim and unlock (`CollectPush`, `CollectTrim`). The fairness
is weak: a step that user input or the collector disables again and again is
owed nothing, and the liveness properties carry that case as a disjunct of
their own. Nothing is assumed of the user, of the traffic, or of when the
collector starts.

`WalletTool` assumes weak fairness of `Next`: `main` is a single sequential
thread that takes its next step until it returns. The functions outside
`src/` that it calls are assumed to return.

Deadlock checking is on everywhere but `wallet`, where the program ends.

## Not modelled

- `mempoolstats.h`: declarations only; the implementation of `MempoolStats`
  and of the clickable items is not in `src/`.
- In `mempooldetail.cpp`: `drawFeeRanges` (never called), the text items of
  `ADD_FEE_RANGES`, geometry and colours, the mouse handlers and
  `showFeeRanges`, `showFeeRects`, `hideFeeRanges`, `hideFeeRects`, which only
  log and emit `objectClicked` to nobody.
- In `trafficgraphwidget.cpp`: `getGraphRange` (a getter), the painter's
  colours and the label of the grid, and a timer that fires late.
- The number of rectangles on the scene: `drawFeeRects` is called once per
  fee path (`mempooldetail.cpp:418`) and draws every range each time, so n
  ranges leave n*n rectangles. The model draws them as the code does; nothing
  in the source says how many there should be, so no property counts them.
- In `bitcoin-wallet.cpp`: the texts, the logging switch, the inside of
  `ArgsManager` and of `WalletTool::ExecuteWalletToolFunc`. `main` returns
  without `ECC_Stop` when the wallet function fails (line 125); the model
  reaches that state, and nothing in the repository says whether it is meant.
- The validation engine, the chain and the pool's eviction: outside `src/` and
  outside `spec.md`.
- The lifetime of the scene's items: a click handler that clears the scene
  runs inside the clicked item's own event handler
  (`mempooldetail.cpp:227`). Whether that is safe is decided by
  `ClickableRectItem::mousePressEvent`, which is not in `src/`.
- Samples of different lengths (`mempooldetail.cpp:291`): the producer of the
  histogram is not in `src/`; every sample has `NRanges` entries.

What the definitions do not translate of the five implementation files is
what this list names, together with includes, declarations and logging: the
control of every function that changes state is an action or part of one.

## What could follow

The five files are modelled as far as they go: what is listed under "Not
modelled" needs code that is not in `src/` (the producer of the histogram,
`ClickableRectItem::mousePressEvent`, the validation engine, `ArgsManager`).
With that code at hand the next steps would be, in this order: the
histogram's producer in place of the collector written from its use, with
samples of any length; the lifetime of a scene item across the click that
clears the scene; `ProcessNewPackage` from its implementation in place of
`spec.md`. Within the present sources, `Warnings` with three threads (9.6
million states) and `PackagePolicy` with a third caller are larger instances
of what the runs already show.

## Running

    tlc -workers 2 -config MCWarnings.cfg MCWarnings
    tlc -workers 2 -config MCMempoolDetail.cfg MCMempoolDetail
    tlc -workers 2 -config MCTrafficGraph.cfg MCTrafficGraph
    tlc -workers 2 -config MCWalletTool.cfg MCWalletTool
    tlc -workers 2 -config MCPackagePolicy.cfg MCPackagePolicy

The six `*_<Property>.cfg` files of `MCMempoolDetail` and `MCTrafficGraph`
are run with the same modules and end with the trace of the
finding. Every run finishes within a minute or two.
