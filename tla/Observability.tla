--------------------------- MODULE Observability ---------------------------
(***************************************************************************)
(* The tracer and the metrics registry.  Spans nest along a context        *)
(* variable that every asyncio task has a copy of; a finished span is      *)
(* retained, and its duration observed into a histogram whose samples are  *)
(* a ring.  Threads update the registry under a lock, after a check of the *)
(* declared kind outside it.                                               *)
(***************************************************************************)
EXTENDS Integers, Sequences, FiniteSets, FiniteSetsExt, SequencesExt

CONSTANTS
    TraceTasks,                  \* asyncio tasks; the first is there at the start
    FirstTask,
    MaxRetainedSpans,
    Threads, Metrics,            \* threads that update, metric names
    HistogramCapacity,
    Values,                      \* what is observed
    FloatLimit,                  \* where a running total stops being finite
    MaxSpans, MaxUpdates         \* bounds

ASSUME ObservabilityAssumption ==
    /\ FirstTask \in TraceTasks /\ MaxRetainedSpans \in Nat /\ FloatLimit \in Nat
    /\ HistogramCapacity \in Nat \ {0} /\ Values \subseteq Nat /\ Metrics # {}
    /\ MaxSpans \in Nat /\ MaxUpdates \in Nat

VARIABLES
    enabled,
    spans,      \* sequence of [trace, parent, opener, status]; a span's id is its place
    context,    \* [TraceTasks -> [live, inherited, open]]
    finished,   \* ids retained, oldest first
    ended,      \* ids in the order they finished since clear()
    specs,      \* [Metrics -> declared kind]
    redeclared, \* metrics whose kind was changed
    counters, gauges,
    histograms, \* [metrics that have one -> histogram]
    observed,   \* [Metrics -> observations accepted since reset()]
    pending,    \* [Threads -> update whose kind was checked]
    updates

spanVars == <<enabled, spans, context, finished, ended>>
metricVars == <<specs, redeclared, counters, gauges, histograms, observed, pending, updates>>
observeVars == <<spanVars, metricVars>>

NoSpan == 0
SpanMetric == CHOOSE m \in Metrics : TRUE   \* span_duration_ms

-----------------------------------------------------------------------------
(* Histogram *)
NewHistogram == [samples |-> <<>>, cursor |-> 1, count |-> 0, total |-> 0, low |-> -1, high |-> -1]

\* A full buffer overwrites its oldest sample.
Included(h, v) ==
    LET full == Len(h.samples) = HistogramCapacity IN
    [samples |-> IF full THEN [h.samples EXCEPT ![h.cursor] = v] ELSE Append(h.samples, v),
     cursor |-> IF full THEN (h.cursor % HistogramCapacity) + 1 ELSE h.cursor,
     count |-> h.count + 1, total |-> h.total + v,
     low |-> IF h.count = 0 THEN v ELSE Min({h.low, v}), high |-> Max({h.high, v})]

\* Four times the quantile in quarters: interpolated between two neighbours.
percentile(sorted, quarters) ==
    LET rank == (Len(sorted) - 1) * quarters
        below == sorted[(rank \div 4) + 1]
        above == sorted[Min({(rank \div 4) + 2, Len(sorted)})]
    IN  (below * (4 - (rank % 4))) + (above * (rank % 4))

-----------------------------------------------------------------------------
(* MetricsRegistry *)
HistogramOf(m) == IF m \in DOMAIN histograms THEN histograms[m] ELSE NewHistogram

WithHistogram(m, h) == [x \in DOMAIN histograms \union {m} |-> IF x = m THEN h ELSE histograms[x]]

_check_kind(m, kind_) == specs[m] \in {"undeclared", kind_}

\* The series is there from the first call, its observation perhaps refused: a
\* total that would not be finite could not be written as JSON.
Observe(m, v) ==
    LET h == HistogramOf(m) IN
    IF h.total + v > FloatLimit
    THEN histograms' = WithHistogram(m, h) /\ observed' = observed
    ELSE /\ histograms' = WithHistogram(m, Included(h, v))
         /\ observed' = [observed EXCEPT ![m] = Append(@, v)]

register(m, kind_) ==
    /\ updates < MaxUpdates /\ updates' = updates + 1
    /\ specs[m] # kind_ /\ specs' = [specs EXCEPT ![m] = kind_]
    /\ redeclared' = redeclared \union {m}
    /\ UNCHANGED <<counters, gauges, histograms, observed, pending>>

\* counter(), gauge() and observe() check first and take the lock then.
CheckKind(x, m, kind_, v) ==
    /\ pending[x].kind = "none" /\ updates < MaxUpdates /\ updates' = updates + 1
    /\ pending' = IF _check_kind(m, kind_)
                  THEN [pending EXCEPT ![x] = [kind |-> kind_, metric |-> m, value |-> v]]
                  ELSE pending
    /\ UNCHANGED <<specs, redeclared, counters, gauges, histograms, observed>>

UpdateSeries(x) ==
    LET p == pending[x] IN
    /\ p.kind # "none"
    /\ pending' = [pending EXCEPT ![x] = [kind |-> "none"]]
    /\ CASE p.kind = "counter" ->
              /\ LET total == Max({counters[p.metric], 0}) + p.value IN
                   counters' = IF total > FloatLimit THEN counters
                               ELSE [counters EXCEPT ![p.metric] = total]
              /\ UNCHANGED <<gauges, histograms, observed>>
         [] p.kind = "gauge" ->
              gauges' = [gauges EXCEPT ![p.metric] = p.value] /\ UNCHANGED <<counters, histograms, observed>>
         [] OTHER -> Observe(p.metric, p.value) /\ UNCHANGED <<counters, gauges>>
    /\ UNCHANGED <<specs, redeclared, updates>>

\* Every series goes; the declarations stay.
reset ==
    /\ counters' = [m \in Metrics |-> -1] /\ gauges' = [m \in Metrics |-> -1]
    /\ histograms' = [m \in {} |-> {}] /\ observed' = [m \in Metrics |-> <<>>]
    /\ UNCHANGED <<specs, redeclared, pending, updates>>

-----------------------------------------------------------------------------
(* Tracer *)
current_span(t) == IF context[t].open = <<>> THEN context[t].inherited ELSE Last(context[t].open)

\* create_task copies the context of the task that calls it.
Spawn(t, u) ==
    /\ context[t].live /\ ~context[u].live
    /\ context' = [context EXCEPT ![u] = [live |-> TRUE, inherited |-> current_span(t), open |-> <<>>]]
    /\ UNCHANGED <<enabled, spans, finished, ended>>

TraceOf(p, id) == IF p = NoSpan THEN id ELSE spans[p].trace

BeginSpan_Shared(t) ==
    LET p == IF spans = <<>> \/ spans[Len(spans)].status # "UNSET" THEN NoSpan ELSE Len(spans)
        id == Len(spans) + 1
    IN  /\ context[t].live /\ id <= MaxSpans
        /\ spans' = Append(spans, [trace |-> TraceOf(p, id), parent |-> p, opener |-> t, status |-> "UNSET"])
        /\ context' = [context EXCEPT ![t].open = Append(@, id)]
        /\ UNCHANGED <<enabled, finished, ended>>

\* span(): the parent is the innermost span of this task, or of the task that
\* created it.
BeginSpan(t) ==
    LET p == current_span(t)
        id == Len(spans) + 1
    IN  /\ context[t].live /\ id <= MaxSpans
        /\ spans' = Append(spans, [trace |-> TraceOf(p, id), parent |-> p, opener |-> t, status |-> "UNSET"])
        /\ context' = [context EXCEPT ![t].open = Append(@, id)]
        /\ UNCHANGED <<enabled, finished, ended>>

Retained(seq) == SubSeq(seq, Max({1, Len(seq) - MaxRetainedSpans + 1}), Len(seq))

\* The block is left, by an exception or not: mark, reset the context, finish.
\* What the registry or an exporter raises is swallowed.
Finish(t, status_, v) ==
    /\ context[t].open # <<>>
    /\ LET id == Last(context[t].open) IN
         /\ spans' = [spans EXCEPT ![id].status = status_]
         /\ context' = [context EXCEPT ![t].open = Front(@)]
         /\ finished' = IF enabled THEN Retained(Append(finished, id)) ELSE finished
         /\ ended' = IF enabled THEN Append(ended, id) ELSE ended
    /\ IF enabled /\ _check_kind(SpanMetric, "histogram") THEN Observe(SpanMetric, v)
       ELSE UNCHANGED <<histograms, observed>>
    /\ UNCHANGED <<enabled, specs, redeclared, counters, gauges, pending, updates>>

clear == finished # <<>> /\ finished' = <<>> /\ ended' = <<>> /\ UNCHANGED <<enabled, spans, context>>

-----------------------------------------------------------------------------
ObserveInit ==
    /\ enabled \in BOOLEAN /\ spans = <<>> /\ finished = <<>> /\ ended = <<>>
    /\ context = [t \in TraceTasks |-> [live |-> t = FirstTask, inherited |-> NoSpan, open |-> <<>>]]
    /\ specs \in [Metrics -> {"undeclared", "counter", "histogram"}] /\ redeclared = {}
    /\ counters = [m \in Metrics |-> -1] /\ gauges = [m \in Metrics |-> -1]
    /\ histograms = [m \in {} |-> {}] /\ observed = [m \in Metrics |-> <<>>]
    /\ pending = [x \in Threads |-> [kind |-> "none"]] /\ updates = 0

TraceNext ==
    \/ /\ \/ \E t, u \in TraceTasks : Spawn(t, u)
          \/ \E t \in TraceTasks : BeginSpan(t)
          \/ clear
       /\ UNCHANGED metricVars
    \/ \E t \in TraceTasks, status_ \in {"OK", "ERROR"}, v \in Values : Finish(t, status_, v)

MeasureNext ==
    /\ \/ \E m \in Metrics, kind_ \in {"counter", "gauge"} : register(m, kind_)
       \/ \E x \in Threads : UpdateSeries(x)
       \/ \E x \in Threads, m \in Metrics, kind_ \in {"counter", "gauge", "histogram"}, v \in Values :
            CheckKind(x, m, kind_, v)
       \/ reset
    /\ UNCHANGED spanVars

-----------------------------------------------------------------------------
\* "Two concurrent tasks sharing one Tracer must not adopt each other's spans":
\* a span is of its parent's trace, and unless its own task opened the parent,
\* the parent is the one its task was created under.
SpansNest ==
    \A i \in 1..Len(spans) :
        LET p == spans[i].parent IN
        p # NoSpan => /\ p < i /\ spans[p].trace = spans[i].trace
                      /\ spans[p].opener = spans[i].opener \/ p = context[spans[i].opener].inherited

\* The retained spans are the last that finished, in the order they did.
LatestAreRetained ==
    /\ Len(finished) = Min({Len(ended), MaxRetainedSpans})
    /\ finished = SubSeq(ended, Len(ended) - Len(finished) + 1, Len(ended))

\* Smallest first, equals as they came.
Sorted(seq) ==
    LET places == 1..Len(seq)
        before == {p \in places \X places : \/ seq[p[1]] < seq[p[2]]
                                            \/ seq[p[1]] = seq[p[2]] /\ p[1] < p[2]}
    IN  [k \in places |->
            seq[CHOOSE e \in places : Cardinality({d \in places : <<d, e>> \in before}) = k - 1]]

TotalOf(seq) ==
    LET sum[k \in 0..Len(seq)] == IF k = 0 THEN 0 ELSE sum[k - 1] + seq[k] IN sum[Len(seq)]

\* The ring holds the latest observations and the totals cover all of them,
\* round after round; a percentile of the window lies between its ends and does
\* not fall as the quantile rises.
HistogramsAreTrue ==
    \A m \in DOMAIN histograms :
        LET h == histograms[m]
            n == Len(h.samples)
            seen == observed[m]
            inOrder == SubSeq(h.samples, h.cursor, n) \o SubSeq(h.samples, 1, h.cursor - 1)
        IN  /\ h.count = Len(seen) /\ h.total = TotalOf(seen)
            /\ n = Min({Len(seen), HistogramCapacity})
            /\ inOrder = SubSeq(seen, Len(seen) - n + 1, Len(seen))
            /\ seen # <<>> => h.low = Min(Range(seen)) /\ h.high = Max(Range(seen))
            /\ n > 0 => \A q \in 0..4 :
                 /\ 4 * h.low <= percentile(Sorted(h.samples), q)
                 /\ percentile(Sorted(h.samples), q) <= 4 * h.high
                 /\ q > 0 => percentile(Sorted(h.samples), q - 1) <= percentile(Sorted(h.samples), q)

\* A metric whose declaration stood has series of that kind only, whatever
\* thread updates it: one question, one answer.
OneAnswerPerMetric ==
    \A m \in Metrics \ redeclared :
        specs[m] # "undeclared" =>
            /\ counters[m] # -1 => specs[m] = "counter"
            /\ gauges[m] # -1 => specs[m] = "gauge"
            /\ m \in DOMAIN histograms => specs[m] = "histogram"

ObservabilitySound == SpansNest /\ LatestAreRetained /\ HistogramsAreTrue /\ OneAnswerPerMetric
=============================================================================
