---------------------------- MODULE MempoolDetail ----------------------------
(***************************************************************************)
(* The fee-range detail view of src/src/qt/mempool_tab/mempooldetail.cpp   *)
(* and the fee histogram of the ClientModel it draws.                      *)
(*                                                                         *)
(* Two threads meet here.  The collector of the ClientModel appends a      *)
(* sample to m_mempool_feehist under m_mempool_locker and then signals     *)
(* mempoolFeeHistChanged.  The GUI thread runs the widget's event          *)
(* handlers; each of them ends in drawDetail, which clears the scene,      *)
(* reads the histogram under the lock, releases the lock and then calls    *)
(* drawFeeRects once per fee path.  drawFeeRects walks the first sample    *)
(* of the histogram again, this time without the lock.                     *)
(*                                                                         *)
(* A sample is abstracted to its tx_count per fee range; geometry, fonts   *)
(* and colours are left out, except the one bit of a rectangle's colour    *)
(* that says whether it is dimmed.  The text items of ADD_FEE_RANGES carry *)
(* no state of their own and are not part of the modelled scene.           *)
(***************************************************************************)
EXTENDS Integers, Sequences, FiniteSets, FiniteSetsExt

CONSTANTS
    NRanges,                \* fee ranges in every sample of the histogram
    TxCounts,               \* the values tx_count takes in a range
    m_mempool_max_samples,  \* ClientModel: samples the histogram keeps
    ADD_FEE_RECTS,          \* mempoolconstants.h: add the rectangles to the scene
    MaxConnections,         \* bound: calls of setClientModel with a model
    MaxQueued,              \* bound: slot invocations waiting in the event queue
    NoModel, Model,         \* nullptr and the ClientModel (model values)
    NoThread, Collector     \* holders of m_mempool_locker (model values)

ASSUME /\ NRanges \in Nat \ {0}
       /\ TxCounts \subseteq Nat
       /\ m_mempool_max_samples \in Nat \ {0}
       /\ ADD_FEE_RECTS \in BOOLEAN
       /\ MaxConnections \in Nat /\ MaxQueued \in Nat

VARIABLES
    m_mempool_feehist,  \* ClientModel: the samples, oldest first
    m_mempool_locker,   \* ClientModel: who holds the QMutex
    collector,          \* where the collector thread is in its update
    connections,        \* connections of mempoolFeeHistChanged to drawDetail
    queued,             \* invocations of the slot waiting for the GUI thread
    m_clientmodel,      \* mempooldetail.h
    m_selected_range,   \* mempooldetail.h: -1 or the range clicked
    m_scene,            \* the rectangles in the QGraphicsScene
    draw                \* drawDetail's locals while it is past the lock

model  == <<m_mempool_feehist, m_mempool_locker, collector>>
signal == <<connections, queued>>
widget == <<m_clientmodel, m_selected_range, m_scene, draw>>
vars   == <<model, signal, widget>>

-----------------------------------------------------------------------------
(* Values *)

Ranges  == 0 .. NRanges - 1
Samples == [Ranges -> TxCounts]

\* A rectangle of the scene: the range it stands for, the call of
\* drawFeeRects that made it, and whether its brush has the dimmed alpha.
Rects == [range : Ranges, pass : Ranges, dimmed : BOOLEAN]

NoDraw == [i |-> 0, paths |-> 0, display_up_to_range |-> 0, samples |-> 0,
           max_txcount |-> 0, max_txcount_graph |-> 0]

Idle == draw.paths = 0

amount_of_h_lines == 5

-----------------------------------------------------------------------------
(* The chart's arithmetic, lines 282-325 *)

\* txcount after the entries 0..i of one sample
RunningCount(sample, i) == SumFunctionOnSet(sample, 0 .. i)

\* fee_subtotal_txcount[i] after the loop over all samples
Subtotal(hist, i) == SumFunction([k \in DOMAIN hist |-> hist[k][i]])

MaxTxCount(hist) ==
    Max({0} \cup {RunningCount(hist[k], i) : k \in DOMAIN hist, i \in Ranges})

\* The same loop keeping the count of ranges where the code keeps the index.
DisplayUpToRangePastLast(hist) ==
    Max({0} \cup {i + 1 : i \in {r \in Ranges : Subtotal(hist, r) > 0}})

\* The last range that has transactions in some sample, 0 when none has.
DisplayUpToRange(hist) ==
    Max({0} \cup {i \in Ranges : Subtotal(hist, i) > 0})

\* floor(log10(n)) for n >= 1
RECURSIVE Log10Floor(_)
Log10Floor(n) == IF n < 10 THEN 0 ELSE 1 + Log10Floor(n \div 10)

\* int stepbase = qPow(10.0f, qFloor(log10(1.0 * max_txcount / 5))): the
\* exponent is -1 below five transactions, and int(0.1) is 0.
StepBase(max_txcount) ==
    IF max_txcount < amount_of_h_lines THEN 0
    ELSE 10 ^ Log10Floor(max_txcount \div amount_of_h_lines)

CeilDiv(a, b) == (a + b - 1) \div b

\* The same scale with the quotient rounded down.
NiceScaleRoundedDown(max_txcount) ==
    LET stepbase == StepBase(max_txcount)
    IN  IF max_txcount = 0 \/ stepbase = 0 THEN 0
        ELSE (max_txcount \div (amount_of_h_lines * stepbase))
                 * stepbase * amount_of_h_lines

\* max_txcount_graph.  With stepbase 0 the quotient is infinite and its
\* conversion to int is whatever the build makes of it; times 0 it is 0.
NiceScale(max_txcount) ==
    LET stepbase == StepBase(max_txcount)
    IN  IF max_txcount = 0 \/ stepbase = 0 THEN 0
        ELSE CeilDiv(max_txcount, amount_of_h_lines * stepbase)
                 * stepbase * amount_of_h_lines

\* What drawDetail has in its locals when it releases the lock.  One fee
\* path is started per entry of the first sample up to display_up_to_range.
Chart(hist) ==
    LET upto == DisplayUpToRange(hist)
    IN  [i                   |-> 0,
         paths               |-> Cardinality({r \in DOMAIN hist[1] : r <= upto}),
         display_up_to_range |-> upto,
         samples             |-> Len(hist),
         max_txcount         |-> MaxTxCount(hist),
         max_txcount_graph   |-> NiceScale(MaxTxCount(hist))]

-----------------------------------------------------------------------------
(* The parts the handlers are made of *)

\* drawDetail up to the release of the lock.  `clientmodel` is the value
\* of m_clientmodel when it is called; `free` says whether QMutexLocker
\* lets it in.  It blocks while the collector holds the mutex, and nothing
\* else runs in the GUI thread meanwhile.
Drawing(clientmodel, free) ==
    \/ /\ clientmodel = NoModel
       /\ UNCHANGED <<m_scene, draw>>
    \/ /\ clientmodel # NoModel /\ free
       /\ m_scene' = {}
       /\ draw' = IF m_mempool_feehist = <<>> THEN NoDraw
                  ELSE Chart(m_mempool_feehist)

\* setClientModel up to its call of drawDetail.
Connect(clientmodel) ==
    /\ Idle
    /\ clientmodel # NoModel => connections < MaxConnections
    /\ m_clientmodel' = clientmodel
    /\ connections' = IF clientmodel # NoModel THEN connections + 1 ELSE connections
    /\ UNCHANGED <<model, queued, m_selected_range>>

\* The click lambda up to its call of drawDetail: select, or deselect.
Select(i) ==
    /\ Idle
    /\ \E rect \in m_scene : rect.range = i
    /\ m_selected_range' = IF m_selected_range = i THEN -1 ELSE i
    /\ UNCHANGED <<model, signal, m_clientmodel>>

\* Faulty variants: drawDetail without the QMutexLocker, which reads
\* whatever is there; setClientModel that leaves the first drawing to the
\* signal; the click lambda without its call of drawDetail.
DrawDetailWithoutLock(clientmodel)     == Drawing(clientmodel, TRUE)
SetClientModelWithoutDraw(clientmodel) == Connect(clientmodel) /\ UNCHANGED <<m_scene, draw>>
RectClickedWithoutDraw(i)              == Select(i) /\ UNCHANGED <<m_scene, draw>>

-----------------------------------------------------------------------------
(* The widget *)

Init ==
    /\ m_mempool_feehist = <<>>
    /\ m_mempool_locker = NoThread
    /\ collector = "idle"
    /\ connections = 0
    /\ queued = 0
    /\ m_clientmodel = NoModel
    /\ m_selected_range = -1
    /\ m_scene = {}
    /\ draw = NoDraw

DrawDetail(clientmodel) == Drawing(clientmodel, m_mempool_locker = NoThread)

\* One call of drawFeeRects: a rectangle for every entry of the first
\* sample up to display_up_to_range (past it `continue` skips the i++, so
\* every later entry is skipped too).
FeeRects(pass, display_up_to_range) ==
    IF ADD_FEE_RECTS
    THEN {[range  |-> i,
           pass   |-> pass,
           dimmed |-> m_selected_range >= 0 /\ m_selected_range # i] :
             i \in {r \in DOMAIN m_mempool_feehist[1] : r <= display_up_to_range}}
    ELSE {}

\* One turn of the loop over fee_paths, after the lock was released.
DrawFeeRects ==
    /\ ~Idle
    /\ m_scene' = m_scene \cup FeeRects(draw.i, draw.display_up_to_range)
    /\ draw' = IF draw.i + 1 < draw.paths THEN [draw EXCEPT !.i = @ + 1] ELSE NoDraw
    /\ UNCHANGED <<model, signal, m_clientmodel, m_selected_range>>

\* The lambda connected to a rectangle's objectClicked.
RectClicked(i) == Select(i) /\ DrawDetail(m_clientmodel)

\* A handler that does nothing but call drawDetail.
Redraw ==
    /\ Idle
    /\ DrawDetail(m_clientmodel)
    /\ UNCHANGED <<model, signal, m_clientmodel, m_selected_range>>

\* resizeEvent sets the scene's rectangle (geometry, left out) and draws.
ResizeEvent == Redraw

\* showEvent and hideEvent look at m_clientmodel themselves before drawing.
ShowEvent == m_clientmodel # NoModel /\ Redraw
HideEvent == m_clientmodel # NoModel /\ Redraw

\* enterEvent and leaveEvent draw; showFeeRanges, showFeeRects and their
\* hide counterparts, which they call next, only log.
EnterEvent == Redraw
LeaveEvent == Redraw

SetClientModel(clientmodel) == Connect(clientmodel) /\ DrawDetail(clientmodel)

\* The GUI thread's event loop delivers one queued mempoolFeeHistChanged.
FeeHistChanged ==
    /\ Idle
    /\ queued > 0
    /\ queued' = queued - 1
    /\ DrawDetail(m_clientmodel)
    /\ UNCHANGED <<model, connections, m_clientmodel, m_selected_range>>

-----------------------------------------------------------------------------
(* The ClientModel's collector thread *)

CollectLock ==
    /\ collector = "idle"
    /\ m_mempool_locker = NoThread
    /\ queued + connections <= MaxQueued
    /\ m_mempool_locker' = Collector
    /\ collector' = "locked"
    /\ UNCHANGED <<m_mempool_feehist, signal, widget>>

CollectPush(sample) ==
    /\ collector = "locked"
    /\ m_mempool_feehist' = Append(m_mempool_feehist, sample)
    /\ collector' = "pushed"
    /\ UNCHANGED <<m_mempool_locker, signal, widget>>

\* Drop the oldest sample when there are too many, unlock, and signal:
\* one invocation of the slot is queued per connection.
CollectTrim ==
    /\ collector = "pushed"
    /\ m_mempool_feehist' = IF Len(m_mempool_feehist) > m_mempool_max_samples
                            THEN Tail(m_mempool_feehist)
                            ELSE m_mempool_feehist
    /\ m_mempool_locker' = NoThread
    /\ collector' = "idle"
    /\ queued' = queued + connections
    /\ UNCHANGED <<connections, widget>>

\* What the user and the window system send the widget.
UserInput ==
    \/ ResizeEvent
    \/ ShowEvent
    \/ HideEvent
    \/ EnterEvent
    \/ LeaveEvent
    \/ \E clientmodel \in {NoModel, Model} : SetClientModel(clientmodel)
    \/ \E i \in Ranges : RectClicked(i)

Collect ==
    \/ CollectLock
    \/ \E sample \in Samples : CollectPush(sample)
    \/ CollectTrim

Next == UserInput \/ FeeHistChanged \/ DrawFeeRects \/ Collect

Spec == Init /\ [][Next]_vars

\* The GUI thread takes the next queued invocation from its event queue and
\* goes on with a drawing it is in; the collector, once it holds the lock,
\* goes on to release it.  When events and samples arrive is up to the
\* user and the node.
FairSpec ==
    /\ Spec
    /\ WF_vars(FeeHistChanged) /\ WF_vars(DrawFeeRects)
    /\ WF_vars(CollectTrim \/ \E sample \in Samples : CollectPush(sample))

-----------------------------------------------------------------------------
(* Properties *)

TypeOK ==
    /\ m_mempool_feehist \in Seq(Samples)
    /\ Len(m_mempool_feehist) <= m_mempool_max_samples + 1
    /\ m_mempool_locker \in {NoThread, Collector}
    /\ collector \in {"idle", "locked", "pushed"}
    /\ connections \in 0 .. MaxConnections
    /\ queued \in 0 .. MaxQueued
    /\ m_clientmodel \in {NoModel, Model}
    /\ m_selected_range \in {-1} \cup Ranges
    /\ m_scene \subseteq Rects
    /\ draw \in [i : Ranges, paths : 0 .. NRanges, display_up_to_range : Ranges,
                 samples : Nat, max_txcount : Nat, max_txcount_graph : Nat]

\* The scene a drawing of the histogram as it is now would leave.
SceneOf(hist) ==
    IF hist = <<>> \/ ~ADD_FEE_RECTS THEN {}
    ELSE {[range |-> i, pass |-> p,
           dimmed |-> m_selected_range >= 0 /\ m_selected_range # i] :
             i \in 0 .. DisplayUpToRange(hist), p \in 0 .. DisplayUpToRange(hist)}

\* No update of the histogram is lost on its way to the screen: once the
\* collector is done, no signal is waiting and the GUI thread is out of
\* drawDetail, the scene of an attached widget shows the histogram as it
\* is, with the selection as it is.  This needs the signal after every
\* update, the drawing that setClientModel does itself (the updates before
\* the connect signalled nobody), and drawFeeRects drawing from the same
\* histogram drawDetail measured (lines 273-372, 418 and 461-462).
SceneIsFresh ==
    (Idle /\ collector = "idle" /\ queued = 0 /\ m_clientmodel # NoModel)
        => m_scene = SceneOf(m_mempool_feehist)

\* Every update of the histogram reaches the screen: the queue of slot
\* invocations drains (one per connection made at line 461 and update),
\* each drawDetail gets the lock and its loop over fee_paths (lines 382-420)
\* ends, and the last drawing shows the histogram as it is, unless the
\* user's input or the samples keep coming or no model is attached.
UpdatesReachTheScreen ==
    \/ []<>(Idle /\ queued = 0 /\ m_scene = SceneOf(m_mempool_feehist))
    \/ []<><<UserInput \/ Collect>>_vars
    \/ []<>(m_clientmodel = NoModel)

\* The rectangles other than the selected one are the dimmed ones.
ShowsSelection ==
    \A rect \in m_scene :
        rect.dimmed <=> (m_selected_range >= 0 /\ m_selected_range # rect.range)

\* Whenever the GUI thread is out of drawDetail and a model is attached,
\* the scene shows the selection, however clicks, redraws and histogram
\* updates were interleaved (lambda at lines 220-228 against the alpha
\* chosen at 111-116).
SceneShowsSelection ==
    (Idle /\ m_clientmodel # NoModel) => ShowsSelection

\* "if clicked, we select or deselect if selected" (line 221) and "if one
\* item is selected, hide out the other ones" (line 113): a click is shown,
\* with or without a model.  The lambda relies on drawDetail for that, and
\* drawDetail returns at line 242 when m_clientmodel is null, leaving the
\* rectangles of the last drawing on the scene, each with its lambda.
ClickedRangeIsShown ==
    Idle => ShowsSelection

\* "if one item is selected, hide out the other ones" (lines 112-116):
\* where rectangles are dimmed, the selected one is on display among them.
\* m_selected_range is the position clicked in an earlier drawing, and
\* display_up_to_range follows the histogram (lines 306-311).
DimmedBesideSelected ==
    (Idle /\ m_clientmodel # NoModel /\ \E rect \in m_scene : rect.dimmed)
        => \E rect \in m_scene : rect.range = m_selected_range

\* drawDetail spreads the samples over the width in steps of
\* width / m_mempool_max_samples (line 329), so the chart fits only if it
\* never sees more samples than that: not the histogram between the
\* collector's append and its trim.
ChartFitsWidth ==
    ~Idle => draw.samples <= m_mempool_max_samples

\* From five transactions on, the y-axis scale (lines 314-319) reaches the
\* largest sample and is less than twice as high.
NiceScaleBrackets ==
    (~Idle /\ draw.max_txcount >= amount_of_h_lines) =>
        /\ draw.max_txcount_graph >= draw.max_txcount
        /\ draw.max_txcount_graph < 2 * draw.max_txcount

\* "calculate max tx for upper bound of chart" (line 283): the scale the
\* paths are divided by (line 347) is at least the largest sample.
ChartUpperBoundCoversMax ==
    (~Idle /\ draw.max_txcount > 0) => draw.max_txcount_graph >= draw.max_txcount

\* "we are going to access the clientmodel feehistogram directly" under
\* QMutexLocker (lines 272-273): the GUI thread is not inside drawFeeRects'
\* walk over m_mempool_feehist[0] while the collector is changing the
\* histogram.
NoDataRace ==
    ~(~Idle /\ collector = "pushed")

=============================================================================
