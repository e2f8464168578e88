------------------------------ MODULE Timeline ------------------------------
(* TimelineView::render: the input of a frame, then the tracks, then the     *)
(* scrolling.  x and y are pixels, counted from the left end of the tracks   *)
(* and from below the ruler.  Not drawn: labels, counters, flows, tooltips.  *)
EXTENDS ViewState, FiniteSetsExt

CONSTANTS
  TrackWidth,    \* pixels for the width of the view
  VisibleHeight, \* pixels for the tracks, below the ruler
  HeaderHeight,  \* of a process
  RowHeight,     \* of one depth
  TrackPadding,  \* below a track
  MinRange,      \* what zooming with the wheel stops at: 1 ns in the code
  Near           \* clicks may miss by 3 pixels

ASSUME PixelAssumption ==
  /\ TrackWidth \in Nat \ {0} /\ RowHeight \in Nat \ {0} /\ VisibleHeight \in Nat /\ VisibleHeight >= RowHeight
  /\ {HeaderHeight, TrackPadding, MinRange, Near} \subseteq Nat

Timeline0 == [scroll |-> 0, layouts |-> <<>>, content |-> 0, dragging |-> FALSE, from |-> 0, mouse |-> 0]

\* Instants and samples are marked, however long they are.
Marked(e) == e.ph = "i" \/ e.ph = "P"
MergePx == 2
Far == -1000000

XAt(v, ts) == ((ts - v.start) * TrackWidth) \div Width(v)
TimeAt(v, x) == v.start + (x * Width(v)) \div TrackWidth

DepthOf(m, th) == Max({0} \cup {m.events[i].depth : i \in ToSet(m.order[th])})
NumDepths(m, th) == (DepthOf(m, th) + 1) % (MaxDepth + 1)
TrackHeight(m, th) == (DepthOf(m, th) + 1) * RowHeight + TrackPadding

Pids(m) == InOrder({th[1] : th \in DOMAIN m.order}, LAMBDA a, b : a < b)
Tids(m, pid) == InOrder({th[2] : th \in {o \in DOMAIN m.order : o[1] = pid}}, LAMBDA a, b : a < b)

(* render_tracks: where each track is, and the height of all. *)
PlaceThread(m, v, acc, th) ==
  IF th[2] \in v.tids THEN acc
  ELSE [y |-> acc.y + TrackHeight(m, th),
        layouts |-> Append(acc.layouts, [th |-> th, y |-> acc.y, height |-> TrackHeight(m, th)])]

PlaceProcess(m, v, acc, pid) ==
  IF pid \in v.pids THEN acc
  ELSE Through(LAMBDA a, tid : PlaceThread(m, v, a, <<pid, tid>>), [acc EXCEPT !.y = @ + HeaderHeight], Tids(m, pid))

Place(m, v, scroll) ==
  LET all == Through(LAMBDA acc, pid : PlaceProcess(m, v, acc, pid), [y |-> -scroll, layouts |-> <<>>], Pids(m))
  IN [layouts |-> all.layouts, content |-> all.y + scroll]

LayOut(m, v, t) ==
  LET placed == Place(m, v, t.scroll) IN [t EXCEPT !.layouts = placed.layouts, !.content = placed.content]

(* What is drawn of a track: slices of two pixels and more, marks, and runs  *)
(* of what is thinner.  A block that is thinner as a whole is not opened: it *)
(* adds to the runs of the depths in its mask.                               *)
NoRun == [x1 |-> Far, x2 |-> Far]

\* The runs are reset, and drawn at the end, for as many depths as 8 bits can
\* count: in a track of 256 depths that is none, and the array holds what was on
\* the stack, such as nothing or a run of a track drawn before.
Leftover(m, th) == {NoRun} \cup IF NumDepths(m, th) = 0 THEN {[x1 |-> 0, x2 |-> TrackWidth]} ELSE {}

\* Thinner than what gets a bar of its own, where it is in view.
Thin(v, from, to) == Min({XAt(v, to), TrackWidth}) - Max({XAt(v, from), 0}) < MergePx
IsMerged(v, block) == Thin(v, block.minTs, block.localEnd) /\ block.count > 1

ExtendRunLast(acc, depth, x1, x2) ==
  LET run == acc.runs[depth] IN
  IF x1 <= run.x2 + MergePx
  THEN [acc EXCEPT !.runs[depth].x2 = Max({@, x2})]
  ELSE [acc EXCEPT !.runs[depth] = [x1 |-> x1, x2 |-> Max({x2, x1 + 1})]]
ExtendRun(acc, depth, x1, x2) ==
  LET run == acc.runs[depth] IN
  IF x1 <= run.x2 + MergePx
  THEN [acc EXCEPT !.runs[depth].x2 = Max({@, x2})]
  ELSE [acc EXCEPT !.runs[depth] = [x1 |-> x1, x2 |-> Max({x2, x1 + 1})],
                   !.done = IF run.x2 = Far THEN @ ELSE @ \cup {run @@ [depth |-> depth]}]

DrawEvent(m, v, acc, i) ==
  LET e == m.events[i]
      x1 == Max({XAt(v, e.ts), 0})
      x2 == Min({XAt(v, End(e)), TrackWidth})
  IN IF e.ts > v.end \/ End(e) < v.start THEN acc
     ELSE IF Marked(e) THEN [acc EXCEPT !.marks = @ \cup {[event |-> i, x |-> XAt(v, e.ts)]}]
     ELSE IF e.cat \in v.cats THEN acc
     ELSE IF Thin(v, e.ts, End(e)) THEN ExtendRun(acc, e.depth, x1, x2)
     ELSE [acc EXCEPT !.slices = @ \cup {[event |-> i, x1 |-> x1, x2 |-> x2]}]

DrawBlock(m, v, th, acc, b) ==
  LET x1 == Max({XAt(v, b.minTs), 0})
      x2 == Min({XAt(v, b.localEnd), TrackWidth})
  IN IF IsMerged(v, b)
     THEN FoldSet(LAMBDA depth, a : ExtendRun(a, depth, x1, x2), acc, b.depths)
     ELSE FoldLeft(LAMBDA a, i : DrawEvent(m, v, a, i), acc,
                   SubSeq(m.order[th], b.start, b.start + b.count - 1))

Draw(m, v, th, leftover) ==
  LET blocks == m.blocks[th]
      first == FirstBlock(blocks, v.start)
      late == {b \in first..Len(blocks) : blocks[b].minTs > v.end}
      upto == IF late = {} THEN Len(blocks) ELSE Min(late) - 1
      drawn == FoldLeft(LAMBDA a, b : DrawBlock(m, v, th, a, b),
                        [runs |-> [d \in 0..MaxDepth |-> IF d < NumDepths(m, th) THEN NoRun ELSE leftover],
                         done |-> {}, slices |-> {}, marks |-> {}],
                        SubSeq(blocks, first, upto))
      open == {d \in 0..NumDepths(m, th) - 1 : drawn.runs[d].x2 # Far}
  IN [slices |-> drawn.slices, marks |-> drawn.marks,
      runs |-> drawn.done \cup {drawn.runs[d] @@ [depth |-> d] : d \in open}]

(* hit_test: the shortest event around the place that was clicked. *)
SelectBest(m, v, candidates, depth, time, tolerance) ==
  LET near == SelectSeq(candidates,
                LAMBDA i : /\ m.events[i].cat \notin v.cats
                           /\ m.events[i].depth = depth
                           /\ m.events[i].ts - tolerance <= time
                           /\ time <= End(m.events[i]) + tolerance)
      least == Min({m.events[i].dur : i \in ToSet(near)})
  IN IF near = <<>> THEN None
     ELSE near[Min({k \in DOMAIN near : m.events[near[k]].dur = least})]

HitTest(m, v, layouts, x, y) ==
  LET on == {k \in DOMAIN layouts : layouts[k].y <= y /\ y < layouts[k].y + layouts[k].height}
      layout == layouts[Min(on)]
      row == y - layout.y
      time == TimeAt(v, x)
      tolerance == (Near * Width(v)) \div TrackWidth
  IN IF on = {} \/ x < 0 THEN None
     ELSE IF row >= (DepthOf(m, layout.th) + 1) * RowHeight THEN None
     ELSE SelectBest(m, v, Visible(m, layout.th, time - tolerance, time + tolerance),
                     row \div RowHeight, time, tolerance)

(* The input of a frame. *)
MaxScroll(t) == Max({0, t.content - VisibleHeight})
ScrollTo(t, y) == [t EXCEPT !.scroll = Max({0, Min({y, MaxScroll(t)})})]

\* On the ruler, or with shift in the tracks.  While the button is down every
\* frame sets the range again, as the mouse and the view are by then.
Press(v, t, x) ==
  [v |-> ClearRange(v), t |-> [t EXCEPT !.dragging = TRUE, !.from = TimeAt(v, x), !.mouse = x]]

Held(v, t) ==
  LET now == TimeAt(v, t.mouse) IN
  IF ~t.dragging \/ now = t.from THEN v
  ELSE SetRangeSelection([v EXCEPT !.selecting = TRUE], t.from, now)

ZoomAround(v, time, num, den) ==
  LET start == time + ((v.start - time) * num) \div den
      end == time + ((v.end - time) * num) \div den
  IN IF end - start > MinRange THEN SetViewRange(v, start, end) ELSE v

\* The keys have no such minimum.
ZoomKey(v, num, den) ==
  LET center == (v.start + v.end) \div 2
      half == (Width(v) * num) \div den
  IN SetViewRange(v, center - half, center + half)

FitSelection(m, v) ==
  IF v.ranged THEN ZoomToFit(v, v.rangeStart, v.rangeEnd)
  ELSE IF v.sel # None THEN Jump(v, m, v.sel)
  ELSE IF m.minTs < m.maxTs THEN ZoomToFit(v, m.minTs, m.maxTs)
  ELSE v

ClearSelection(v) == IF v.ranged THEN ClearRange(v) ELSE Select(v, None)

Walk(m, v, target) == IF target = None THEN v ELSE Jump(v, m, target)
Relatives == {"parent", "longest child", "previous sibling", "next sibling"}
Relative(m, i, which) ==
  CASE which = "parent" -> m.events[i].parent
    [] which = "longest child" -> LongestChild(m, i)
    [] which = "previous sibling" -> PrevSibling(m, i)
    [] which = "next sibling" -> NextSibling(m, i)

\* The bar below the tracks: a jump to a place, or a move, by pixels.
TotalTime(m) == IF m.minTs < m.maxTs THEN m.maxTs - m.minTs ELSE 1
BarJump(m, v, x) ==
  LET start == m.minTs + (x * (TotalTime(m) - Width(v))) \div TrackWidth IN
  SetViewRange(v, start, start + Width(v))
BarDrag(m, v, dx) == Shift(v, (dx * (TotalTime(m) - Width(v))) \div TrackWidth)

TimelineInputs(Xs, Ys, Times) ==
  [is : {"press", "drag"}, x : Xs]
  \cup [is : {"release", "fit", "clear", "no room"}]
  \cup [is : {"wheel", "shift wheel", "sideways wheel", "pan key", "scroll key", "zoom key"}, by : {-1, 1}]
  \cup [is : {"pan"}, x : {-5, 5}, y : {-2, 2}]
  \cup [is : {"click"}, x : Xs, y : Ys]
  \cup [is : {"walk"}, to : Relatives]
  \cup [is : {"go to"}, ts : Times]
  \cup [is : {"scroll bar"}, by : {-3, 3}]
  \cup [is : {"bar jump"}, x : Xs]
  \cup [is : {"bar drag"}, by : {-5, 5}]
  \cup [is : {"bar wheel"}, by : {-1, 1}]

\* The mouse that drags does nothing else.
ByKeys == {"fit", "clear", "pan key", "scroll key", "zoom key", "walk", "go to", "no room"}
CanDo(t, in) == in.is \in ByKeys \/ (t.dragging <=> in.is \in {"drag", "release"})

\* A button that is held or let go comes before what else the frame brings.
Released(v0, t, in) == IF in.is = "release" THEN [v0 EXCEPT !.selecting = FALSE] ELSE Held(v0, t)
Mouse(t, in) == [t EXCEPT !.dragging = @ /\ in.is # "release", !.mouse = IF in.is = "drag" THEN in.x ELSE @]

ViewHandled(m, v, t, in) ==
  CASE in.is = "wheel" -> ZoomAround(v, TimeAt(v, TrackWidth \div 4), IF in.by > 0 THEN 4 ELSE 5, IF in.by > 0 THEN 5 ELSE 4)
    [] in.is = "sideways wheel" -> Shift(v, -((in.by * Width(v)) \div 20))
    [] in.is = "pan" -> Shift(v, -((in.x * Width(v)) \div TrackWidth))
    [] in.is = "click" -> ClearRange(Select(v, HitTest(m, v, t.layouts, in.x, in.y)))
    [] in.is = "pan key" -> Shift(v, in.by * (Width(v) \div 10))
    [] in.is = "zoom key" -> ZoomKey(v, IF in.by > 0 THEN 2 ELSE 5, IF in.by > 0 THEN 5 ELSE 8)
    [] in.is = "fit" -> FitSelection(m, v)
    [] in.is = "clear" -> ClearSelection(v)
    [] in.is = "walk" -> IF v.sel = None THEN v ELSE Walk(m, v, Relative(m, v.sel, in.to))
    [] in.is = "go to" -> SetViewRange(v, in.ts - Width(v) \div 2, in.ts + Width(v) \div 2)
    [] OTHER -> v

ScrollHandled(t, in) ==
  CASE in.is = "shift wheel" -> ScrollTo(t, t.scroll - in.by * RowHeight * 3)
    [] in.is = "scroll key" /\ in.by < 0 -> [t EXCEPT !.scroll = Max({0, @ - RowHeight * 3})]
    [] in.is = "scroll key" /\ in.by > 0 -> ScrollTo(t, t.scroll + RowHeight * 3)
    [] in.is = "pan" -> ScrollTo(t, t.scroll - in.y)
    [] OTHER -> t

Handled(m, v, t, in) ==
  IF in.is = "press" THEN Press(v, t, in.x)
  ELSE [v |-> ViewHandled(m, v, t, in), t |-> ScrollHandled(t, in)]

\* The bars are handled after the tracks have been drawn.
BarHandled(m, v, t, in) ==
  CASE in.is = "scroll bar" /\ t.content > VisibleHeight ->
         [v |-> v, t |-> [t EXCEPT !.scroll = Max({0, Min({@ + in.by, Max({1, t.content - VisibleHeight})})})]]
    [] in.is = "bar jump" /\ Width(v) < TotalTime(m) -> [v |-> BarJump(m, v, in.x), t |-> t]
    [] in.is = "bar drag" /\ Width(v) < TotalTime(m) -> [v |-> BarDrag(m, v, in.by), t |-> t]
    [] in.is = "bar wheel" -> [v |-> Shift(v, -((in.by * Width(v)) \div 10)), t |-> t]
    [] OTHER -> [v |-> v, t |-> t]

\* The row of an event, counted from the top of all tracks.
RowOfDrawn(m, t, layout, i) == layout.y + m.events[i].depth * RowHeight
RowOf(m, t, layout, i) == layout.y + t.scroll + m.events[i].depth * RowHeight

ShowPending(m, v, t) ==
  LET on == {k \in DOMAIN t.layouts : t.layouts[k].th = ThreadOf(m.events[v.pending])} IN
  IF v.pending \notin DOMAIN m.events THEN [v |-> v, t |-> t]
  ELSE [v |-> [v EXCEPT !.pending = None],
        t |-> IF on = {} THEN t
              ELSE ScrollTo(t, RowOf(m, t, t.layouts[Min(on)], v.pending) - (VisibleHeight - RowHeight) \div 2)]

\* Input, tracks, the event to scroll to, the bars: each sees what the one
\* before it has done.  In a window that leaves no room for the tracks nothing
\* of it is done, and what is asked for waits.
Limited(t) == [t EXCEPT !.scroll = Min({@, Max({1, t.content - VisibleHeight})})]
TimelineFrame(m, v0, t0, in) ==
  LET Input(t) == Handled(m, Released(v0, t, in), t, in)
      Tracks(s) == ShowPending(m, s.v, LayOut(m, s.v, s.t))
      Bars(s) == BarHandled(m, s.v, Limited(s.t), in)
  IN IF in.is = "no room" THEN [v |-> v0, t |-> t0] ELSE Bars(Tracks(Input(Mouse(t0, in))))
=============================================================================
