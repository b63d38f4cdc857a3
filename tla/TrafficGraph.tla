----------------------------- MODULE TrafficGraph -----------------------------
(***************************************************************************)
(* The network traffic graph of src/src/qt/trafficgraphwidget.cpp.         *)
(*                                                                         *)
(* A QTimer fires updateRates, which reads the node's two byte counters,   *)
(* turns the bytes since the last reading into a rate by dividing by the   *)
(* timer's interval, keeps the newest DESIRED_SAMPLES rates per direction  *)
(* with their maximum fMax, and asks for a repaint.  paintEvent draws what *)
(* the widget holds when it runs.  Everything runs in the GUI thread; what *)
(* interleaves is the timer, the node's traffic, the repaints, the user's  *)
(* clicks and range changes, and the attaching and detaching of the model. *)
(*                                                                         *)
(* A rate is the fraction the code computes, bytes over milliseconds,      *)
(* compared by cross-multiplication: x/0 is greater than every finite rate *)
(* (infinity), 0/0 is greater than nothing and nothing is greater than it  *)
(* (NaN).  The rounding of floats is left out.  Time advances in ticks of  *)
(* one millisecond of the model's scale.                                   *)
(***************************************************************************)
EXTENDS Naturals, Sequences, SequencesExt

CONSTANTS
    DESIRED_SAMPLES,    \* samples kept per direction (800 in the code)
    XMARGIN, YMARGIN,   \* 10 and 10 in the code
    Width, Height,      \* width() and height() of the widget
    MSECS_PER_MIN,      \* milliseconds in a minute, in the model's scale
    GraphRanges,        \* the minutes setGraphRange is called with
    MaxBytes,           \* bound: bytes the node transfers per direction
    MaxElapsed,         \* bound: ticks counted since the last reading
    NoModel, Model      \* nullptr and the ClientModel (model values)

ASSUME /\ DESIRED_SAMPLES \in Nat \ {0} /\ MSECS_PER_MIN \in Nat \ {0}
       /\ GraphRanges \subseteq Nat \ {0}
       /\ MaxBytes \in Nat /\ MaxElapsed \in Nat
       /\ Width > 2 * XMARGIN /\ Height > 2 * YMARGIN

VARIABLES
    timer,              \* the QTimer: active, interval, ticks until it fires
    m_range,
    fToggle,
    fMax,
    vSamplesIn,         \* newest first
    vSamplesOut,
    nLastBytesIn,
    nLastBytesOut,
    clientModel,
    update_pending,     \* update() was called and paintEvent has not run yet
    painted,            \* what the last paintEvent drew
    totalBytesRecv,     \* the node's counters
    totalBytesSent,
    elapsed             \* history: ticks since nLastBytesIn/Out were read

samples == <<vSamplesIn, vSamplesOut, fMax>>
last    == <<nLastBytesIn, nLastBytesOut, elapsed>>
screen  == <<update_pending, painted>>
node    == <<totalBytesRecv, totalBytesSent>>
vars    == <<timer, m_range, fToggle, samples, last, clientModel, screen, node>>

-----------------------------------------------------------------------------
(* Rates, and the timer *)

Rate(bytes, msecs) == [bytes |-> bytes, msecs |-> msecs]
Zero  == Rate(0, 1)
Rates == [bytes : 0 .. MaxBytes, msecs : Nat]

\* a > b as floats
Greater(a, b) == a.bytes * b.msecs > b.bytes * a.msecs
IsFinite(a)   == a.msecs > 0

\* static_cast<float>(bytes - nLastBytes) / timer->interval(), pushed in front
Pushed(queue, bytes) == Cons(Rate(bytes, timer.interval), queue)

\* if (f > tmax) tmax = f
Higher(tmax, f) == IF Greater(f, tmax) THEN f ELSE tmax

\* Faulty variants: the queues are never trimmed; tmax starts from the old
\* fMax; the second loop is missing; the last readings are never moved on.
Untrimmed(queue)        == queue
LargestFromOld(in, out) == FoldLeft(Higher, fMax, in \o out)
LargestOfIn(in, out)    == FoldLeft(Higher, Zero, in)
ReadNothing             == UNCHANGED last

\* while (size() > DESIRED_SAMPLES) pop_back()
Trimmed(queue) == SubSeq(queue, 1, Min({Len(queue), DESIRED_SAMPLES}))

\* tmax after the two loops of updateRates
Largest(in, out) == FoldLeft(Higher, Zero, in \o out)

\* duration_cast<milliseconds>(m_range) / DESIRED_SAMPLES
MsecsPerSample(range) == (MSECS_PER_MIN * range) \div DESIRED_SAMPLES

\* timer->start(): the countdown begins again from the interval
Started(interval) == [active |-> TRUE, interval |-> interval, remaining |-> interval]

\* The timer is due; it is a repeating timer and starts its next round.
Timeout == timer.active /\ timer.remaining = 0 /\ timer' = Started(timer.interval)

\* nLastBytesIn = getTotalBytesRecv(); nLastBytesOut = getTotalBytesSent()
ReadCounters ==
    nLastBytesIn' = totalBytesRecv /\ nLastBytesOut' = totalBytesSent /\ elapsed' = 0

\* The body of clear(), with the interval the timer has when it runs.
ClearAt(interval) ==
    /\ timer' = Started(interval)
    /\ vSamplesIn' = <<>> /\ vSamplesOut' = <<>> /\ fMax' = Zero
    /\ IF clientModel # NoModel THEN ReadCounters ELSE UNCHANGED last

-----------------------------------------------------------------------------
(* Painting *)

h == Height - 2 * YMARGIN
w == Width - 2 * XMARGIN

\* (int)(h * 1.0 * (fToggle ? pow(f, 0.3) / pow(fMax, 0.3) : f / fMax)) for
\* finite rates: the largest k with k <= h * (f / fMax)^(3/10), respectively
\* k <= h * f / fMax.  Looked for up to h + 1, one above the graph.
Bar(f) ==
    LET n == f.bytes * fMax.msecs
        d == f.msecs * fMax.bytes
    IN  IF fToggle THEN Max({k \in 0 .. h + 1 : k^10 * d^3 <= h^10 * n^3})
                   ELSE Min({(h * n) \div d, h + 1})

\* The points of the path: moveTo, a lineTo per sample, the closing lineTo.
PaintPath(queue) ==
    LET x(i) == XMARGIN + w - (w * i) \div DESIRED_SAMPLES
    IN  IF queue # <<>> /\ Greater(fMax, Zero)
        THEN <<<<XMARGIN + w, YMARGIN + h>>>>
             \o [i \in DOMAIN queue |-> <<x(i - 1), YMARGIN + h - Bar(queue[i])>>]
             \o <<<<x(Len(queue) - 1), YMARGIN + h>>>>
        ELSE <<>>

\* What paintEvent draws from the state it finds.  The grid lines and their
\* label are a function of fMax and fToggle and stand as that pair.  With an
\* infinite fMax the conversions of lines 56 and 85 are undefined (a grid
\* loop that does not end, points anywhere).
Blank(what) == [what |-> what, grid |-> <<>>, in |-> <<>>, out |-> <<>>]

Picture ==
    IF ~Greater(fMax, Zero) THEN Blank("black")
    ELSE IF \E f \in {fMax} \cup ToSet(vSamplesIn \o vSamplesOut) : ~IsFinite(f)
         THEN Blank("undefined")
         ELSE [what |-> "graph", grid |-> <<fMax, fToggle>>,
               in |-> PaintPath(vSamplesIn), out |-> PaintPath(vSamplesOut)]

-----------------------------------------------------------------------------
(* Faulty variants of the functions below, used to show that the         *)
(* properties tell the code from a plausible wrong version of it.        *)

\* setGraphRange that changes the interval and keeps the samples.
SetGraphRangeWithoutClear(new_range) ==
    /\ m_range' = new_range
    /\ timer' = Started(MsecsPerSample(new_range))
    /\ UNCHANGED <<fToggle, samples, last, clientModel, screen, node>>

\* mousePressEvent that stops the timer and does not start it again.
MousePressEventWithoutStart ==
    /\ fToggle' = ~fToggle
    /\ timer' = [timer EXCEPT !.active = FALSE]
    /\ UNCHANGED <<m_range, samples, last, clientModel, screen, node>>

-----------------------------------------------------------------------------
(* The widget *)

\* The constructor: the timer exists, with QTimer's interval of 0, and is
\* not started.  fToggle has no initialiser in this file.
Init ==
    /\ timer = [active |-> FALSE, interval |-> 0, remaining |-> 0]
    /\ m_range = 0
    /\ fToggle \in BOOLEAN
    /\ fMax = Zero /\ vSamplesIn = <<>> /\ vSamplesOut = <<>>
    /\ nLastBytesIn = 0 /\ nLastBytesOut = 0
    /\ clientModel = NoModel
    /\ update_pending = FALSE /\ painted = Blank("nothing")
    /\ totalBytesRecv = 0 /\ totalBytesSent = 0 /\ elapsed = 0

SetClientModel(model) ==
    /\ clientModel' = model
    /\ IF model # NoModel THEN ReadCounters ELSE UNCHANGED last
    /\ UNCHANGED <<timer, m_range, fToggle, samples, screen, node>>

\* Stops the timer, gives it the interval it has, and starts it.
MousePressEvent ==
    /\ fToggle' = ~fToggle
    /\ timer' = Started(timer.interval)
    /\ UNCHANGED <<m_range, samples, last, clientModel, screen, node>>

\* The window system, or a pending update(), has the widget paint itself.
PaintEvent ==
    /\ painted' = Picture
    /\ update_pending' = FALSE
    /\ UNCHANGED <<timer, m_range, fToggle, samples, last, clientModel, node>>

\* The timer's timeout without a model: updateRates returns at once.
UpdateRatesNoModel ==
    /\ Timeout /\ clientModel = NoModel
    /\ UNCHANGED <<m_range, fToggle, samples, last, clientModel, screen, node>>

\* The timer's timeout with a model.
UpdateRates ==
    /\ Timeout /\ clientModel # NoModel
    /\ vSamplesIn' = Trimmed(Pushed(vSamplesIn, totalBytesRecv - nLastBytesIn))
    /\ vSamplesOut' = Trimmed(Pushed(vSamplesOut, totalBytesSent - nLastBytesOut))
    /\ fMax' = Largest(vSamplesIn', vSamplesOut')
    /\ ReadCounters /\ update_pending' = TRUE
    /\ UNCHANGED <<m_range, fToggle, clientModel, painted, node>>

SetGraphRange(new_range) ==
    /\ m_range' = new_range
    /\ ClearAt(MsecsPerSample(new_range))
    /\ UNCHANGED <<fToggle, clientModel, screen, node>>

Clear ==
    /\ ClearAt(timer.interval)
    /\ UNCHANGED <<m_range, fToggle, clientModel, screen, node>>

-----------------------------------------------------------------------------
(* The timer's clock and the node *)

\* One millisecond passes.  A timer that is due fires before the next.
Tick ==
    /\ timer.active => timer.remaining > 0
    /\ timer' = IF timer.active THEN [timer EXCEPT !.remaining = @ - 1] ELSE timer
    /\ elapsed' = Min({elapsed + 1, MaxElapsed})
    /\ UNCHANGED <<m_range, fToggle, samples, nLastBytesIn, nLastBytesOut,
                   clientModel, screen, node>>

Receive ==
    /\ totalBytesRecv < MaxBytes
    /\ totalBytesRecv' = totalBytesRecv + 1
    /\ UNCHANGED <<timer, m_range, fToggle, samples, last, clientModel, screen,
                   totalBytesSent>>

Send ==
    /\ totalBytesSent < MaxBytes
    /\ totalBytesSent' = totalBytesSent + 1
    /\ UNCHANGED <<timer, m_range, fToggle, samples, last, clientModel, screen,
                   totalBytesRecv>>

\* What the user, or the window that owns the widget, does to it.
UserInput ==
    \/ \E model \in {NoModel, Model} : SetClientModel(model)
    \/ MousePressEvent
    \/ \E new_range \in GraphRanges : SetGraphRange(new_range)
    \/ Clear

Next ==
    \/ UserInput
    \/ PaintEvent
    \/ UpdateRatesNoModel
    \/ UpdateRates
    \/ Tick
    \/ Receive
    \/ Send

Spec == Init /\ [][Next]_vars

\* The event loop of the GUI thread: time passes, a timer that is due fires,
\* and a repaint that update() asked for is delivered.  What the user does,
\* and how much traffic there is, is under no obligation.
FairSpec ==
    /\ Spec
    /\ WF_vars(Tick) /\ WF_vars(UpdateRates) /\ WF_vars(UpdateRatesNoModel)
    /\ WF_vars(update_pending /\ PaintEvent)

-----------------------------------------------------------------------------
(* Properties *)

AllSamples == ToSet(vSamplesIn \o vSamplesOut)

TypeOK ==
    /\ timer \in [active : BOOLEAN, interval : Nat, remaining : Nat]
    /\ timer.remaining <= timer.interval
    /\ m_range \in GraphRanges \cup {0}
    /\ fToggle \in BOOLEAN /\ update_pending \in BOOLEAN
    /\ fMax \in Rates
    /\ vSamplesIn \in Seq(Rates) /\ vSamplesOut \in Seq(Rates)
    /\ Len(vSamplesIn) = Len(vSamplesOut)
    /\ Len(vSamplesIn) <= DESIRED_SAMPLES
    /\ nLastBytesIn \in 0 .. MaxBytes /\ nLastBytesOut \in 0 .. MaxBytes
    /\ clientModel \in {NoModel, Model}
    /\ totalBytesRecv \in 0 .. MaxBytes /\ totalBytesSent \in 0 .. MaxBytes
    /\ elapsed \in 0 .. MaxElapsed

\* paintEvent scales every sample by fMax and paintPath divides by it
\* (lines 56, 77-112): whatever was pushed, dropped or cleared since, fMax
\* is a sample that is still in one of the two queues and none of them is
\* greater, or it is 0.
FMaxIsLargestSample ==
    /\ \A f \in AllSamples : ~Greater(f, fMax)
    /\ fMax = Zero \/ fMax \in AllSamples

\* Every rate on display was divided by the interval the timer has now, so
\* the samples of one graph are on one scale: setGraphRange, which changes
\* the interval, drops the samples of the old one, those taken with the
\* constructor's interval of 0 among them (line 167 against clear() at 169).
SamplesShareTimerInterval ==
    \A f \in AllSamples \cup ({fMax} \ {Zero}) : f.msecs = timer.interval

\* No byte is counted twice: the bytes the samples of a direction stand for
\* add up to no more than the counter read last, across timeouts, clears,
\* range changes and re-attached models (the readings at lines 40-41,
\* 141-142 and 181-182 against the differences at 137-138).
CountedBytesWereReceived ==
    /\ FoldLeft(LAMBDA sum, f : sum + f.bytes, 0, vSamplesIn) <= nLastBytesIn
    /\ FoldLeft(LAMBDA sum, f : sum + f.bytes, 0, vSamplesOut) <= nLastBytesOut

\* Once setGraphRange has run, whatever paintEvent finds it can draw, and
\* paintPath (lines 47-61) keeps both paths between the margins: no sample
\* stands left of XMARGIN (the queues hold at most DESIRED_SAMPLES) and none
\* rises above YMARGIN (none is greater than fMax), in either scale.
PathStaysInGraph ==
    m_range # 0 =>
        /\ Picture.what # "undefined"
        /\ \A p \in ToSet(Picture.in \o Picture.out) :
              /\ p[1] \in XMARGIN .. XMARGIN + w
              /\ p[2] \in YMARGIN .. YMARGIN + h

\* in_rate_kilobytes_per_sec (line 137) is a number of kilobytes per second,
\* and the grid loop of paintEvent (line 108) counts up to fMax: every
\* sample and fMax are finite.  The timer is created with an interval of 0,
\* only setGraphRange gives it another, and mousePressEvent and clear start
\* it with the one it has.
RatesAreFinite ==
    \A f \in AllSamples \cup {fMax} : IsFinite(f)

\* in_rate_kilobytes_per_sec (line 137) is bytes divided by the timer's
\* interval, so it is the rate only if the bytes are those of one interval:
\* while the timer runs for an attached model, the time since the last
\* reading and the time to the next timeout add up to no more than the
\* interval.
SampleCoversOneInterval ==
    (timer.active /\ timer.interval > 0 /\ clientModel # NoModel)
        => elapsed + timer.remaining <= timer.interval

\* mousePressEvent, setGraphRange and clear change what the widget should
\* show and none of them calls update(); mousePressEvent and clear restart
\* the timer (lines 67-69, 174-184).  The screen still catches up with the
\* widget again and again, by the timer alone, in every run in which a range
\* was set, a model stays attached and the user's input comes to an end:
\* every one of these handlers leaves the timer running, and every timeout
\* asks for a repaint.
ScreenFollowsState ==
    \/ []<>(painted = Picture)
    \/ []<><<UserInput>>_vars
    \/ []<>(clientModel = NoModel \/ m_range = 0)

=============================================================================
