----------------------------- MODULE ViewState -----------------------------
(* ViewState: the viewport, the selection, the range, the filters and the    *)
(* search that all panels share.  Times are whole microseconds, divisions    *)
(* round down.  0 stands for the code's index -1, except for searchCurrent.  *)
EXTENDS TraceIndex

CONSTANTS MinPad,    \* the least room around an event that is jumped to, 100 us
          SearchPad  \* the same for a search result, 1000 us

ASSUME PadAssumption == MinPad \in Nat /\ SearchPad \in Nat

View0 == [start |-> 0, end |-> 1000, min |-> 0, max |-> 0, bounded |-> FALSE,
          sel |-> None, pending |-> None,
          ranged |-> FALSE, selecting |-> FALSE, rangeStart |-> 0, rangeEnd |-> 0,
          pids |-> {}, tids |-> {}, cats |-> {},
          query |-> "", results |-> <<>>, current |-> -1]

Width(v) == v.end - v.start

SetTraceBounds(v, min, max) == [v EXCEPT !.min = min, !.max = max, !.bounded = TRUE]

\* A view wider than the trace is centred, any other one is pushed inside.
ClampToBounds(v) ==
  LET pad == (v.max - v.min) \div 50
      lo == v.min - pad
      hi == v.max + pad
      At(start) == [v EXCEPT !.start = start, !.end = start + Width(v)]
  IN IF ~v.bounded THEN v
     ELSE IF Width(v) >= hi - lo THEN At((v.min + v.max) \div 2 - Width(v) \div 2)
     ELSE IF v.end > hi THEN At(hi - Width(v))
     ELSE IF v.start < lo THEN At(lo)
     ELSE v

SetViewRange(v, start, end) == ClampToBounds([v EXCEPT !.start = start, !.end = end])
Shift(v, by) == SetViewRange(v, v.start + by, v.end + by)

ZoomToFit(v, min, max) ==
  LET pad == (max - min) \div 50 IN [v EXCEPT !.start = min - pad, !.end = max + pad]

Select(v, i) == [v EXCEPT !.sel = i]

\* The room is twice the event's duration or half of it.
NavigateTo(v, m, i, halves, least) ==
  LET e == m.events[i]
      pad == Max({(e.dur * halves) \div 2, least})
  IN [Select(v, i) EXCEPT !.pending = i, !.start = e.ts - pad, !.end = End(e) + pad]

Jump(v, m, i) == NavigateTo(v, m, i, 1, MinPad)
JumpToResult(v, m, i) == NavigateTo(v, m, i, 4, SearchPad)

SetRangeSelection(v, a, b) ==
  [v EXCEPT !.ranged = TRUE, !.rangeStart = Min({a, b}), !.rangeEnd = Max({a, b})]
ClearRange(v) ==
  [v EXCEPT !.ranged = FALSE, !.selecting = FALSE, !.rangeStart = 0, !.rangeEnd = 0]

\* Shown and hidden by turns: a check box of the filters.
Toggle(S, x) == IF x \in S THEN S \ {x} ELSE S \cup {x}

(* The filter panel. *)
FilterInputs(m) ==
  [is : {"process"}, what : {th[1] : th \in DOMAIN m.order}]
  \cup [is : {"thread"}, what : {th[2] : th \in DOMAIN m.order}]
  \cup [is : {"category"}, what : m.cats]
  \cup [is : {"all categories", "no categories"}, what : {None}]

FilterFrame(m, v, in) ==
  CASE in.is = "process" -> [v EXCEPT !.pids = Toggle(@, in.what)]
    [] in.is = "thread" -> [v EXCEPT !.tids = Toggle(@, in.what)]
    [] in.is = "category" -> [v EXCEPT !.cats = Toggle(@, in.what)]
    [] in.is = "all categories" -> [v EXCEPT !.cats = {}]
    [] in.is = "no categories" -> [v EXCEPT !.cats = @ \cup m.cats]
    [] OTHER -> v
=============================================================================
