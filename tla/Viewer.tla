------------------------------- MODULE Viewer -------------------------------
(* The panels of a loaded trace, drawn one after the other in every frame of *)
(* App::render, on one thread.  They meet in the view state: what one panel  *)
(* changes, those drawn before it see a frame later.  The memory, source,    *)
(* statistics and diagnostics panels are not here.                           *)
EXTENDS Timeline, FlameGraph

CONSTANTS
  Traces,    \* the traces that may be loaded: events and stack frames
  Xs, Ys,    \* where the mouse may be
  Times,     \* what "go to time" may be given
  Uses,      \* what the user does in one run: sets of inputs
  MaxInputs  \* bound: inputs of a run, loads included

ASSUME TracesAssumption ==
  \A t \in DOMAIN Traces :
    LET events == Traces[t].events IN
    /\ Len(events) \in Nat /\ DOMAIN events = 1..Len(events)
    /\ \A i \in DOMAIN events : IsTimed(events[i]) /\ events[i].pid \in Int /\ events[i].tid \in Int

VARIABLES
  trace,   \* the trace that is shown
  model,   \* its index
  view,    \* the shared view state
  timeline, details, search, instances, flame, \* the panels
  use,     \* the inputs of this run
  inputs,  \* their number so far
  last     \* what came last: "load", "input" or "idle", a frame without input

panels == <<timeline, details, search, instances, flame>>
vars == <<trace, model, view, panels, use, inputs, last>>

ModelOf(t) == BuildIndex(Traces[t].events, Traces[t].frames)

\* finish_load: the timeline is not told, nor is an event yet to be scrolled to.
\* The bounds stay when the new trace has no length.
Loaded(v, m) ==
  LET fresh == [View0 EXCEPT !.pending = v.pending, !.min = v.min, !.max = v.max, !.bounded = v.bounded] IN
  IF m.minTs < m.maxTs THEN ZoomToFit(SetTraceBounds(fresh, m.minTs, m.maxTs), m.minTs, m.maxTs) ELSE fresh

Init ==
  /\ trace \in DOMAIN Traces /\ use \in Uses
  /\ model = ModelOf(trace)
  /\ view = Loaded(View0, model)
  /\ timeline = Timeline0 /\ details = Details0 /\ search = Search0
  /\ instances = Instances0 /\ flame = Flame0
  /\ inputs = 0 /\ last = "load"

\* What the user may do with what is on the screen; nothing is before the
\* first frame of a trace has been drawn.
Drawn == last # "load"
Offered ==
  IF ~Drawn \/ inputs = MaxInputs THEN {}
  ELSE {in \in TimelineInputs(Xs, Ys, Times) : CanDo(timeline, in)}
       \cup DetailsInputs(model, view, details) \cup SearchInputs(search) \cup FilterInputs(model)
       \cup InstancesInputs(instances) \cup FlameInputs(flame)

Idle == [is |-> "idle"]
Frame ==
  \E in \in {Idle} \cup {i \in Offered : i.is \in use} :
  \E a \in {TimelineFrame(model, view, timeline, in)} :
  \E b \in {DetailsFrame(model, a.v, details, in)} :
  \E c \in {SearchFrame(model, b.v, search, in)} :
  \E d \in {InstancesFrame(model, FilterFrame(model, c.v, in), instances, in)} :
  \E e \in {FlameFrame(model, d.v, flame, in)} :
     /\ view' = e.v
     /\ timeline' = a.t /\ details' = b.d /\ search' = c.q /\ instances' = d.s /\ flame' = e.f
     /\ last' = IF in = Idle THEN "idle" ELSE "input"
     /\ inputs' = IF in = Idle THEN inputs ELSE inputs + 1
     /\ UNCHANGED <<trace, model, use>>

FinishLoad ==
  /\ "load" \in use /\ inputs < MaxInputs
  /\ \E t \in DOMAIN Traces \ {trace} : trace' = t
  /\ model' = ModelOf(trace') /\ view' = Loaded(view, model')
  /\ details' = [Details0 EXCEPT !.tab = details.tab, !.closed = details.closed] /\ search' = [Search0 EXCEPT !.column = search.column]
  /\ instances' = [Instances0 EXCEPT !.column = instances.column] /\ flame' = Flame0
  /\ inputs' = inputs + 1 /\ last' = "load" /\ UNCHANGED <<timeline, use>>

Next == Frame \/ FinishLoad

Spec == Init /\ [][Next]_vars

-----------------------------------------------------------------------------
(* Properties.  A frame without input lets every panel catch up with what    *)
(* those drawn after it have changed.                                        *)
Settled == last = "idle"
Ev(i) == model.events[i]
Lasting == {i \in DOMAIN model.events : Ev(i).kind # "Sample" /\ Ev(i).dur > 0}
NothingHidden == view.pids = {} /\ view.tids = {} /\ view.cats = {}

\* The details panel finds children by depth and by time: they are the events
\* whose parent is the selected one, or all below it, and self time, filter and
\* groups are theirs, whatever was selected, toggled and typed before.
\* (detail_panel.cpp: rebuild_children, rebuild_aggregated, rebuild_filter)
Above(c) == ToSet(Front(CallStack(model, c)))
Under(i) == {c \in Lasting : i \in Above(c)}
Children(i) == {c \in Lasting : Ev(c).parent = i}
SumOf(S) == MapThenSumSet(LAMBDA c : Ev(c).dur, S)
DetailsMatchSelection ==
  Settled /\ view.sel \in Lasting =>
    LET rows == IF details.all THEN Under(view.sel) ELSE Children(view.sel) IN
    /\ details.children = rows
    /\ details.self = Ev(view.sel).dur - SumOf(Children(view.sel))
    /\ details.stack = CallStack(model, view.sel)
    /\ details.shown = {c \in rows : Has(Ev(c).name, details.text)}
    /\ details.group =>
         /\ DOMAIN details.groups = {Ev(c).name : c \in rows}
         /\ details.shownGroups = {Ev(c).name : c \in details.shown}
         /\ \A n \in DOMAIN details.groups :
              LET same == {c \in rows : Ev(c).name = n} IN
              /\ details.groups[n].count = Cardinality(same) /\ details.groups[n].total = SumOf(same)
              /\ Ev(details.groups[n].longest).dur = Max({Ev(c).dur : c \in same})

\* Two panels count one range, each in its own way: the statistics by name, the
\* flame graph by the path of names, also after the header above the statistics
\* was closed for a while.  A function of a sample counts where it is not below
\* itself.  (range_stats.cpp, detail_panel.cpp:160-170, flame_graph_panel.cpp: rebuild)
Nodes == UNION {{flame.trees[k].nodes[p] @@ [kind |-> flame.trees[k].kind, path |-> p, tree |-> k] :
                   p \in DOMAIN flame.trees[k].nodes} : k \in DOMAIN flame.trees}
Named(kind, n) == {node \in Nodes : node.kind = kind /\ Last(node.path)[1] = n}
Total(S, F(_)) == MapThenSumSet(F, S)
OutermostOf(S) == {node \in S : \A k \in 1..Len(node.path) - 1 : node.path[k][1] # Last(node.path)[1]}
PanelsAgree ==
  Settled /\ view.ranged /\ ~view.selecting /\ ~details.closed /\ NothingHidden =>
    /\ \A node \in Nodes : node.calls + node.spans > 0 =>
         <<node.kind, Last(node.path)[1]>> \in DOMAIN details.stats.byName
    /\ \A key \in DOMAIN details.stats.byName :
         LET own == {node \in Named(key[1], key[2]) : node.calls + node.spans > 0} IN
         /\ Total(own, LAMBDA node : node.calls + node.spans) = details.stats.byName[key].count
         /\ Total(own, LAMBDA node : node.total) = details.stats.byName[key].total
    /\ \A n \in DOMAIN details.stats.byFunction :
         /\ Total(OutermostOf(Named("Sample", n)), LAMBDA node : node.samples) = details.stats.byFunction[n].inclusive
         /\ Total(Named("Sample", n), LAMBDA node : node.selfSamples) = details.stats.byFunction[n].exclusive

\* The bars of the flame graph lie inside each other: what is below a bar is not
\* longer than the bar, the self times of a tree add up to it, a bar selects the
\* longest of the events that bear its name, and the zoom leads to a bar.
\* (flame_graph_panel.cpp: compute_self_times, touch_node, render_icicle)
FlameFits ==
  /\ \A k \in DOMAIN flame.trees :
       LET nodes == flame.trees[k].nodes IN
       /\ flame.zoom[k] = NoPath \/ flame.zoom[k] \in DOMAIN nodes
       /\ \A p \in DOMAIN nodes :
            /\ Total(ChildPaths(nodes, p), LAMBDA c : nodes[c].total) <= nodes[p].total
            /\ Total(ChildPaths(nodes, p), LAMBDA c : nodes[c].samples) <= nodes[p].samples
            /\ nodes[p].calls + nodes[p].spans > 0 => Ev(nodes[p].event).name = Last(p)[1]
       /\ Total(DOMAIN nodes, LAMBDA p : nodes[p].self) = flame.trees[k].total
       /\ Total(DOMAIN nodes, LAMBDA p : nodes[p].selfSamples) = flame.trees[k].samples
  /\ flame.menuTree # None => flame.menuTree \in DOMAIN flame.trees /\ flame.menu \in DOMAIN flame.trees[flame.menuTree].nodes

\* What the lists have kept is what they would find now: the flame graph's trees
\* for this range and these filters, the instances of the selected name, the
\* rows of the search, each once.  An event without a name has no instances.
\* (flame_graph_panel.cpp:37-64, instance_panel.cpp:59-75, search_panel.cpp:76-100)
Browsed(e) == e.name # "" /\ ~e.ended /\ e.ph \notin {"M", "C"}
ListsAreCurrent ==
  Settled =>
    /\ flame.trees = Trees(model, Scope(view))
    /\ view.sel \in DOMAIN model.events /\ Browsed(Ev(view.sel)) =>
         /\ ToSet(instances.rows) = {i \in DOMAIN model.events : Ev(i).name = Ev(view.sel).name /\ Listed(model.events, i)}
         /\ instances.cursor <= Len(instances.rows)
    /\ \A i \in ToSet(search.rows) : i \in ToSet(view.results)
    /\ \A i \in ToSet(view.results) : \E j \in ToSet(search.rows) : Ev(j).name = Ev(i).name /\ (search.unique \/ i = j)
    /\ Cardinality(ToSet(search.rows)) = Len(search.rows)

\* What is in view and not hidden is a slice, a mark or part of a run of its
\* depth.  Two things are drawn nowhere, and only these: what lies too deep for
\* the mask of a block that is drawn as a whole, and what is thin in a track with
\* as many depths as 8 bits can count.  A click on a slice selects an event of
\* that row which is not hidden and no longer than it.
\* (timeline_view.cpp: render_tracks, hit_test)
InView(i) == Ev(i).ts <= view.end /\ End(Ev(i)) >= view.start
InRun(drawn, i) ==
  \E run \in drawn.runs : /\ run.depth = Ev(i).depth /\ run.x1 <= Max({0, XAt(view, Ev(i).ts)})
                          /\ Min({TrackWidth, XAt(view, End(Ev(i)))}) <= run.x2
IsDrawn(drawn, i) ==
  \/ \E slice \in drawn.slices : slice.event = i
  \/ \E mark \in drawn.marks : mark.event = i
  \/ InRun(drawn, i)
Unmasked(th, k) ==
  /\ Ev(model.order[th][k]).depth >= MaskDepths
  /\ \E b \in ToSet(model.blocks[th]) : k \in b.start..b.start + b.count - 1 /\ IsMerged(view, b)
Uncounted(th, i) == NumDepths(model, th) = 0 /\ Thin(view, Ev(i).ts, End(Ev(i)))
PictureIsWhole ==
  Settled => \A n \in DOMAIN timeline.layouts :
    LET layout == timeline.layouts[n]
        order == model.order[layout.th]
    IN \A leftover \in Leftover(model, layout.th) : \A drawn \in {Draw(model, view, layout.th, leftover)} :
      /\ \A k \in DOMAIN order : InView(order[k]) /\ Ev(order[k]).cat \notin view.cats =>
           IsDrawn(drawn, order[k]) \/ Unmasked(layout.th, k) \/ Uncounted(layout.th, order[k])
      /\ \A slice \in drawn.slices : \A x \in {slice.x1, slice.x2 - 1} :
           LET hit == HitTest(model, view, timeline.layouts, x, layout.y + Ev(slice.event).depth * RowHeight) IN
           /\ hit # None /\ ThreadOf(Ev(hit)) = layout.th /\ Ev(hit).depth = Ev(slice.event).depth
           /\ Ev(hit).cat \notin view.cats /\ Ev(hit).dur <= Ev(slice.event).dur

\* Whoever asks for an event, the next frame shows it, if it has room for tracks:
\* the view holds it and they are scrolled to its row, unless its thread is hidden.
\* (view_state.h:180-187, timeline_view.cpp:698-714)
AskedForIsShown ==
  last' = "idle" /\ view.pending \in DOMAIN model.events /\ view.pending = view.sel =>
    /\ view'.start <= Ev(view.sel).ts /\ End(Ev(view.sel)) <= view'.end
    /\ \A k \in DOMAIN timeline'.layouts : timeline'.layouts[k].th = ThreadOf(Ev(view.sel)) =>
         LET top == timeline'.layouts[k].y + timeline.scroll + Ev(view.sel).depth * RowHeight IN
         timeline'.scroll <= top /\ top + RowHeight <= timeline'.scroll + VisibleHeight
JumpShowsEvent == [][AskedForIsShown]_vars
=============================================================================
