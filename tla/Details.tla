------------------------------ MODULE Details ------------------------------
(* DetailPanel::render: the range's statistics, and the children, the call   *)
(* stack and the descendants of the selected event, each kept until the code *)
(* notices a change.  The order of the rows on the screen is left out.       *)
EXTENDS ViewState, RangeStats

CONSTANTS Texts,  \* what may be typed into a filter or the search
          Holding \* <<name, text>>: the name contains the text

Has(name, text) == text = "" \/ <<name, text>> \in Holding

Details0 ==
  [rangeStart |-> 0, rangeEnd |-> 0, stats |-> NoStats, closed |-> FALSE,
   event |-> None, all |-> FALSE, allCached |-> FALSE, dirty |-> FALSE,
   group |-> FALSE, groupCached |-> FALSE, text |-> "",
   children |-> {}, shown |-> {}, groups |-> <<>>, shownGroups |-> {}, self |-> 0,
   tab |-> "children", stackEvent |-> None, stack |-> <<>>, under |-> <<>>, collapsed |-> {}, parents |-> {}]

(* The range, while its header is open. *)
RangeRows(d) ==
  {d.stats.byName[k].longest : k \in DOMAIN d.stats.byName}
  \cup {d.stats.byFunction[k].event : k \in DOMAIN d.stats.byFunction}

RangeFrame(m, v, d, in) ==
  LET stale == ~v.selecting /\ (d.rangeStart # v.rangeStart \/ d.rangeEnd # v.rangeEnd)
      kept == IF stale
              THEN [d EXCEPT !.rangeStart = v.rangeStart, !.rangeEnd = v.rangeEnd,
                             !.stats = ComputeRangeStats(m, v.rangeStart, v.rangeEnd)]
              ELSE d
      rows == RangeRows(kept)
  IN IF ~v.ranged \/ d.closed THEN [v |-> v, d |-> d]
     ELSE [d |-> kept,
           v |-> IF v.selecting THEN v
                 ELSE CASE in.is = "zoom to range" -> ZoomToFit(v, v.rangeStart, v.rangeEnd)
                        [] in.is = "clear range" -> ClearRange(v)
                        [] in.is = "range row" /\ in.event \in rows -> Jump(v, m, in.event)
                        [] OTHER -> v]

(* The tab of the children, found by depth and by time. *)
ChildrenOf(m, i, all) ==
  LET e == m.events[i] IN
  {c \in ToSet(m.order[ThreadOf(e)]) :
     /\ m.events[c].kind = e.kind
     /\ m.events[c].depth > e.depth
     /\ m.events[c].ts >= e.ts /\ End(m.events[c]) <= End(e)
     /\ m.events[c].dur > 0
     /\ all \/ m.events[c].depth = e.depth + 1}

RebuildChildren(m, v, d) ==
  IF d.event = v.sel /\ d.allCached = d.all THEN d
  ELSE [d EXCEPT !.event = v.sel, !.allCached = d.all, !.dirty = TRUE,
                 !.children = ChildrenOf(m, v.sel, d.all), !.self = m.events[v.sel].self]

GroupOf(m, S) ==
  LET durs == {m.events[c].dur : c \in S}
      longest == {c \in S : m.events[c].dur = Max(durs)}
      first == CHOOSE c \in longest : \A o \in longest :
                 m.events[c].ts < m.events[o].ts \/ (m.events[c].ts = m.events[o].ts /\ c <= o)
  IN [count |-> Cardinality(S), total |-> MapThenSumSet(LAMBDA c : m.events[c].dur, S),
      min |-> Min(durs), max |-> Max(durs), longest |-> first]

RebuildGroups(m, d) ==
  LET Name(c) == m.events[c].name IN
  [n \in {Name(c) : c \in d.children} |-> GroupOf(m, {c \in d.children : Name(c) = n})]

RebuildFilter(m, d) ==
  [d EXCEPT !.shown = {c \in d.children : Has(m.events[c].name, d.text)},
            !.shownGroups = {n \in DOMAIN d.groups : Has(n, d.text)}]

\* The tables' filters and groups follow when the children have changed.
FollowNever(m, d) == IF d.groupCached # d.group THEN RebuildFilter(m, [d EXCEPT !.groupCached = d.group]) ELSE d
Follow(m, d) ==
  IF d.groupCached # d.group \/ d.dirty
  THEN RebuildFilter(m, [d EXCEPT !.groupCached = d.group, !.groups = IF d.group THEN RebuildGroups(m, d) ELSE @])
  ELSE d

(* The table of the tab: drawing it sorts the rows, which are then clean. *)
TableRows(d) ==
  IF d.group THEN {d.groups[n].longest : n \in d.shownGroups} ELSE d.shown

ChildrenTab(m, v, d, in) ==
  LET marked == CASE in.is = "descendants" -> [d EXCEPT !.all = ~@]
                  [] in.is = "group" -> [d EXCEPT !.group = ~@]
                  [] in.is = "filter text" -> RebuildFilter(m, [d EXCEPT !.text = in.text])
                  [] OTHER -> d
  IN IF d.children = {} \/ d.tab # "children" THEN [v |-> v, d |-> d]
     ELSE [d |-> [marked EXCEPT !.dirty = FALSE],
           v |-> IF in.is = "child row" /\ in.event \in TableRows(marked) THEN Jump(v, m, in.event) ELSE v]

(* The call stack.  What lies below is taken from the event that was selected *)
(* when the panel began to be drawn.                                         *)
Below(m, i) ==
  LET e == m.events[i] IN
  IF e.dur <= 0 THEN <<>>
  ELSE SelectSeq(m.order[ThreadOf(e)],
                 LAMBDA c : /\ m.events[c].ts < End(e)
                            /\ m.events[c].kind = e.kind
                            /\ m.events[c].depth > e.depth
                            /\ m.events[c].ts >= e.ts /\ End(m.events[c]) <= End(e)
                            /\ m.events[c].dur > 0)

FollowStack(m, v, d, i) ==
  LET below == Below(m, i)
      parents == {m.events[c].parent : c \in ToSet(below)} \ {None}
  IN IF d.stackEvent = v.sel THEN d
     ELSE [d EXCEPT !.stackEvent = v.sel, !.stack = CallStack(m, v.sel), !.under = below,
                    !.parents = parents, !.collapsed = parents]

\* The rows that no collapsed row hides, read off the depths alone.
VisibleRows(m, d) ==
  LET One(acc, i) ==
        LET depth == m.events[i].depth
            hidden == acc.over # None /\ depth > acc.over - 1
        IN IF hidden THEN acc
           ELSE [rows |-> Append(acc.rows, i), over |-> IF i \in d.collapsed THEN depth + 1 ELSE None]
  IN FoldLeft(One, [rows |-> <<>>, over |-> None], d.under).rows

\* Neighbours of the same name and parent share a row, without an arrow.
SameRow(m, a, b) ==
  /\ m.events[a].name = m.events[b].name
  /\ m.events[a].depth = m.events[b].depth
  /\ m.events[a].parent = m.events[b].parent

StackRows(m, d) ==
  LET rows == VisibleRows(m, d)
      starts == {k \in DOMAIN rows : k = 1 \/ ~SameRow(m, rows[k - 1], rows[k])}
      Alone(k) == k = Len(rows) \/ k + 1 \in starts
  IN {[event |-> rows[k], arrow |-> Alone(k) /\ rows[k] \in d.parents] : k \in starts}

StackTab(m, v, d, i, in) ==
  LET rows == StackRows(m, d) IN
  IF d.tab # "stack" \/ (m.events[i].depth = 0 /\ d.under = <<>>) THEN [v |-> v, d |-> d]
  ELSE CASE in.is = "fold" /\ [event |-> in.event, arrow |-> TRUE] \in rows ->
              [v |-> v, d |-> [d EXCEPT !.collapsed = Toggle(@, in.event)]]
         [] in.is = "stack row" /\ in.event \in ToSet(d.stack) \cup {r.event : r \in rows} ->
              [v |-> Jump(v, m, in.event), d |-> d]
         [] OTHER -> [v |-> v, d |-> d]

(* A frame of the panel. *)
SampleFrame(m, v, d) ==
  IF d.stackEvent = v.sel THEN d
  ELSE [d EXCEPT !.stackEvent = v.sel, !.stack = SampleStack(m, v.sel)]

EventFrame(m, v0, d0, in) ==
  LET i == v0.sel
      eager == IF m.events[i].dur > 0 THEN RebuildChildren(m, v0, d0) ELSE d0
      up == m.events[i].parent
      v == IF in.is = "parent" /\ m.events[i].depth > 0 /\ up # None THEN Jump(v0, m, up) ELSE v0
      followed == IF m.events[v.sel].dur > 0 THEN Follow(m, RebuildChildren(m, v, eager)) ELSE eager
      tab == ChildrenTab(m, v, followed, in)
      stack == FollowStack(m, tab.v, tab.d, i)
  IN IF m.events[i].kind = "Sample" THEN [v |-> v0, d |-> SampleFrame(m, v0, eager)]
     ELSE StackTab(m, tab.v, stack, i, in)

DetailsFrame(m, v0, d0, in) ==
  LET opened == CASE in.is = "tab" -> [d0 EXCEPT !.tab = in.tab]
                  [] in.is = "range header" /\ v0.ranged -> [d0 EXCEPT !.closed = ~@]
                  [] OTHER -> d0
      range == RangeFrame(m, v0, opened, in) IN
  IF range.v.sel = None \/ range.v.sel > Len(m.events) THEN range
  ELSE EventFrame(m, range.v, range.d, in)

DetailsInputs(m, v, d) ==
  [is : {"tab"}, tab : {"children", "stack"} \ {d.tab}]
  \cup
  IF d.tab = "children"
  THEN [is : {"range header", "zoom to range", "clear range", "descendants", "group", "parent"}]
       \cup [is : {"range row"}, event : RangeRows(d)]
       \cup [is : {"filter text"}, text : Texts]
       \cup [is : {"child row"}, event : TableRows(d)]
  ELSE [is : {"stack row"}, event : ToSet(d.stack) \cup {r.event : r \in StackRows(m, d)}]
       \cup [is : {"fold"}, event : {r.event : r \in {x \in StackRows(m, d) : x.arrow}}]
=============================================================================
