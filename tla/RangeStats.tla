----------------------------- MODULE RangeStats -----------------------------
(* compute_range_stats: what happened between two times, by name.  Spans     *)
(* count with the part that lies in the range; samples count in [start, end),*)
(* once for every function of their stack.                                   *)
EXTENDS TraceIndex, FiniteSetsExt

Add(f, key, value, Joined(_, _)) ==
  IF key \in DOMAIN f THEN [f EXCEPT ![key] = Joined(@, value)] ELSE key :> value @@ f

NoStats == [duration |-> 0, events |-> 0, spans |-> 0, samples |-> 0, byName |-> <<>>, byFunction |-> <<>>]

ContributionWhole(e, start, end) == e.dur
Contribution(e, start, end) == Min({End(e), end}) - Max({e.ts, start})

\* The longest is the event that lasts longest, however much of it is in range.
JoinSpans(m, a, b) ==
  [count |-> a.count + 1, total |-> a.total + b.total,
   min |-> Min({a.min, b.total}), max |-> Max({a.max, b.total}),
   longest |-> IF m.events[b.longest].dur > m.events[a.longest].dur THEN b.longest ELSE a.longest]

CountSpan(m, stats, i, part) ==
  LET e == m.events[i]
      one == [count |-> 1, total |-> part, min |-> part, max |-> part, longest |-> i]
  IN [stats EXCEPT !.events = @ + (IF e.kind = "Measured" THEN 1 ELSE 0),
                   !.spans = @ + (IF e.kind = "Measured" THEN 0 ELSE 1),
                   !.byName = Add(@, <<e.kind, e.name>>, one, LAMBDA a, b : JoinSpans(m, a, b))]

StackNames(m, i) ==
  LET stack == SampleStack(m, i) IN
  IF stack = <<>> THEN <<m.events[i].name>> ELSE [k \in DOMAIN stack |-> m.frames[stack[k]].name]

JoinSamples(a, b) ==
  [a EXCEPT !.inclusive = @ + 1, !.exclusive = @ + b.exclusive, !.weighted = @ + b.weighted,
            !.cpu = @ + b.cpu, !.selfCpu = @ + b.selfCpu]

CountSample(m, stats, i) ==
  LET names == StackNames(m, i)
      cpu == m.events[i].cpu
      One(n) ==
        LET leaf == n = Last(names) IN
        [inclusive |-> 1, exclusive |-> IF leaf THEN 1 ELSE 0, weighted |-> IF cpu >= 0 THEN 1 ELSE 0,
         cpu |-> Max({0, cpu}), selfCpu |-> IF leaf THEN Max({0, cpu}) ELSE 0, event |-> i]
  IN [stats EXCEPT !.samples = @ + 1,
                   !.byFunction = FoldSet(LAMBDA n, f : Add(f, n, One(n), JoinSamples), @, ToSet(names))]

CountOne(m, stats, i, start, end) ==
  LET e == m.events[i]
      part == Contribution(e, start, end)
  IN IF e.kind = "Sample"
     THEN IF start <= e.ts /\ e.ts < end THEN CountSample(m, stats, i) ELSE stats
     ELSE IF e.dur > 0 /\ part > 0 THEN CountSpan(m, stats, i, part) ELSE stats

ComputeRangeStats(m, start, end) ==
  FoldLeft(LAMBDA stats, i : CountOne(m, stats, i, start, end),
           [NoStats EXCEPT !.duration = end - start],
           FlattenSeq(SetToSeq({Visible(m, th, start, end) : th \in DOMAIN m.order})))
=============================================================================
