----------------------------- MODULE FlameGraph -----------------------------
(* FlameGraphPanel: per thread and kind a tree of the names on the way to an *)
(* event.  A node is the path of names and categories that leads to it.      *)
EXTENDS Lists

NoPath == <<>>

Flame0 == [trees |-> <<>>, count |-> 0, ranged |-> FALSE, rangeStart |-> 0, rangeEnd |-> 0,
           hidden |-> <<>>, zoom |-> <<>>, chosen |-> 1, menuTree |-> None, menu |-> NoPath]

\* What a tree is built from besides the events.
Scope(v) ==
  [pids |-> v.pids, tids |-> v.tids, cats |-> v.cats, ranged |-> v.ranged,
   rangeStart |-> IF v.ranged THEN v.rangeStart ELSE 0, rangeEnd |-> IF v.ranged THEN v.rangeEnd ELSE 0]

\* The hash of the hidden sets, taken to be exact.
Hidden(v) == <<v.pids, v.tids, v.cats>>

KeptForTimes(v, f, count) ==
  /\ f.count = count
  /\ ~v.ranged \/ (f.rangeStart = v.rangeStart /\ f.rangeEnd = v.rangeEnd)
KeptForRange(v, f, count) ==
  /\ f.count = count
  /\ f.ranged = v.ranged
  /\ ~v.ranged \/ (f.rangeStart = v.rangeStart /\ f.rangeEnd = v.rangeEnd)
NeedsRebuild(v, f, count) ==
  ~KeptForRange(v, f, count) \/ f.hidden # <<Hidden(v)>>

Cached(v, f, count) ==
  [f EXCEPT !.count = count, !.ranged = v.ranged, !.rangeStart = v.rangeStart, !.rangeEnd = v.rangeEnd,
            !.hidden = <<Hidden(v)>>]

(* What an event adds, and where. *)
PathOf(m, v, i) ==
  LET e == m.events[i]
      Names(seq) == [k \in DOMAIN seq |-> <<seq[k].name, seq[k].cat>>]
      frames == LET stack == SampleStack(m, i) IN [k \in DOMAIN stack |-> m.frames[stack[k]]]
      above == LET chain == CallStack(m, i) IN [k \in DOMAIN chain |-> m.events[chain[k]]]
      shown == SelectSeq(IF e.kind # "Sample" THEN SelectSeq(above, LAMBDA p : p.kind = e.kind)
                         ELSE IF e.frame = None THEN <<e>> ELSE frames,
                         LAMBDA p : p.cat \notin v.cats)
  IN Names(shown)

PartOf(v, e) ==
  IF e.kind = "Sample" THEN Max({0, e.cpu})
  ELSE IF v.ranged THEN Min({End(e), v.rangeEnd}) - Max({e.ts, v.rangeStart})
  ELSE e.dur

Countable(v, e) ==
  IF e.kind = "Sample" THEN ~v.ranged \/ (v.rangeStart <= e.ts /\ e.ts < v.rangeEnd)
  ELSE /\ e.ph \in {"X", "B"}
       /\ e.dur > 0 /\ e.cat \notin v.cats
       /\ PartOf(v, e) > 0

NewNode == [total |-> 0, calls |-> 0, spans |-> 0, samples |-> 0, weighted |-> 0, event |-> None]

TouchLatest(m, node, i) ==
  LET seen == [node EXCEPT !.event = i] IN
  IF m.events[i].kind # "Sample" THEN seen ELSE [seen EXCEPT !.samples = @ + 1]
\* Every node on the way remembers the longest event; a sample counts in all.
Touch(m, node, i) ==
  LET e == m.events[i]
      kept == node.event # None /\ m.events[node.event].dur >= e.dur
      seen == [node EXCEPT !.event = IF kept THEN @ ELSE i]
  IN IF e.kind # "Sample" THEN seen
     ELSE [seen EXCEPT !.samples = @ + 1, !.total = @ + Max({0, e.cpu}),
                       !.weighted = @ + (IF e.cpu >= 0 THEN 1 ELSE 0)]

Spend(node, e, part) ==
  CASE e.kind = "Sample" -> node
    [] e.kind = "Measured" -> [node EXCEPT !.total = @ + part, !.calls = @ + 1]
    [] e.kind = "SampledSpan" -> [node EXCEPT !.total = @ + part, !.spans = @ + 1]

Grow(m, v, nodes, i) ==
  LET path == PathOf(m, v, i)
      e == m.events[i]
      At(p) == IF p \in DOMAIN nodes THEN nodes[p] ELSE NewNode
      way == {SubSeq(path, 1, k) : k \in 1..Len(path)}
  IN IF path = <<>> THEN nodes
     ELSE [p \in way |-> LET seen == Touch(m, At(p), i) IN
                         IF p = path THEN Spend(seen, e, PartOf(v, e)) ELSE seen] @@ nodes

ChildPaths(nodes, p) == {c \in DOMAIN nodes : Len(c) = Len(p) + 1 /\ SubSeq(c, 1, Len(p)) = p}

(* compute_self_times, from the leaves up: a node that no event ended in is  *)
(* as long as its children together.                                         *)
SelfTimes(nodes) ==
  LET Empty(n) == n.calls = 0 /\ n.spans = 0 /\ n.samples = 0
      WithSelf(acc, p) ==
        LET below == ChildPaths(nodes, p)
            sum == MapThenSumSet(LAMBDA c : acc[c].total, below)
            samples == MapThenSumSet(LAMBDA c : acc[c].samples, below)
            total == IF Empty(acc[p]) THEN sum ELSE acc[p].total
        IN [self |-> Max({0, total - sum}), selfSamples |-> acc[p].samples - Min({acc[p].samples, samples})]
           @@ [acc[p] EXCEPT !.total = total]
      deepest == Max({0} \cup {Len(p) : p \in DOMAIN nodes})
  IN FoldLeft(LAMBDA acc, k : [p \in {q \in DOMAIN nodes : Len(q) = deepest + 1 - k} |-> WithSelf(acc, p)] @@ acc,
              nodes, [k \in 1..deepest |-> k])

Tree(kind, th, nodes) ==
  LET roots == ChildPaths(nodes, NoPath) IN
  [kind |-> kind, th |-> th, nodes |-> nodes,
   total |-> MapThenSumSet(LAMBDA r : nodes[r].total, roots),
   samples |-> MapThenSumSet(LAMBDA r : nodes[r].samples, roots)]

TreeOf(m, v, th, kind) ==
  LET counted == SelectSeq(m.order[th], LAMBDA i : m.events[i].kind = kind /\ Countable(v, m.events[i])) IN
  Tree(kind, th, SelfTimes(FoldLeft(LAMBDA nodes, i : Grow(m, v, nodes, i), <<>>, counted)))

Kinds == <<"Measured", "Sample", "SampledSpan">>
Rank(kind) == CHOOSE k \in DOMAIN Kinds : Kinds[k] = kind

\* One tree per thread and kind, if anything is in it.
AddTree(m, v, shown, trees, k) ==
  LET tree == TreeOf(m, v, shown[(k + 2) \div 3], Kinds[1 + ((k + 2) % 3)]) IN
  IF tree.total > 0 \/ tree.samples > 0 THEN Append(trees, tree) ELSE trees

TreesFound(m, v) ==
  LET shown == SetToSeq({th \in DOMAIN m.order : th[1] \notin v.pids /\ th[2] \notin v.tids})
  IN Through(LAMBDA trees, k : AddTree(m, v, shown, trees, k), <<>>, [k \in 1..3 * Len(shown) |-> k])

\* By kind, the largest first.
SizeOf(t) == IF t.kind = "Sample" THEN t.samples ELSE t.total
Ahead(a, b) == Rank(a.kind) < Rank(b.kind) \/ (a.kind = b.kind /\ SizeOf(a) > SizeOf(b))
Trees(m, v) == StableSort(TreesFound(m, v), Ahead)

WithTrees(trees, f) ==
  [f EXCEPT !.trees = trees, !.zoom = [k \in DOMAIN trees |-> NoPath], !.menuTree = None,
            !.chosen = IF @ > Len(trees) THEN 1 ELSE @]
Rebuilt(m, v, f) == WithTrees(Trees(m, Scope(v)), Cached(v, f, Len(m.events)))

(* The chart: what is drawn under the root that is zoomed to. *)
Bars(f) ==
  IF f.chosen \notin DOMAIN f.trees THEN {}
  ELSE LET zoom == f.zoom[f.chosen] nodes == f.trees[f.chosen].nodes IN
       {p \in DOMAIN nodes : Len(p) > Len(zoom) /\ SubSeq(p, 1, Len(zoom)) = zoom}

Chosen(f) == f.trees[f.chosen].nodes
Selected(v, f, p) == Select(v, Chosen(f)[p].event)

IcicleFrame(v, f, in) ==
  LET k == f.chosen
      zoomed == f.zoom[k] # NoPath
      onMenu == f.menuTree = k /\ f.menu \in DOMAIN Chosen(f)
      Zoom(p) == [v |-> v, f |-> [f EXCEPT !.zoom[k] = p]]
  IN CASE in.is = "crumb" /\ zoomed -> Zoom(SubSeq(f.zoom[k], 1, Min({in.length, Len(f.zoom[k])})))
       [] in.is = "bar" /\ in.path \in Bars(f) -> [v |-> Selected(v, f, in.path), f |-> f]
       [] in.is = "menu" /\ in.path \in Bars(f) ->
            [v |-> v, f |-> [f EXCEPT !.menuTree = k, !.menu = in.path]]
       [] in.is = "zoom in" /\ onMenu /\ ChildPaths(Chosen(f), f.menu) # {} -> Zoom(f.menu)
       [] in.is = "zoom out" /\ onMenu /\ zoomed -> Zoom(Front(f.zoom[k]))
       [] in.is = "reset zoom" /\ onMenu /\ zoomed -> Zoom(NoPath)
       [] in.is = "hide category" /\ onMenu -> [v |-> [v EXCEPT !.cats = @ \cup {Last(f.menu)[2]}], f |-> f]
       [] in.is = "show in instances" /\ onMenu -> [v |-> Selected(v, f, f.menu), f |-> f]
       [] OTHER -> [v |-> v, f |-> f]

ChartFrame(v, f, in) ==
  IF f.trees = <<>> THEN [v |-> v, f |-> f]
  ELSE IcicleFrame(v, IF in.is = "tree" /\ in.tree \in DOMAIN f.trees THEN [f EXCEPT !.chosen = in.tree] ELSE f, in)

FlameFrame(m, v, f, in) ==
  IF m.events = <<>> THEN [v |-> v, f |-> f]
  ELSE ChartFrame(v, IF NeedsRebuild(v, f, Len(m.events)) THEN Rebuilt(m, v, f) ELSE f, in)

FlameInputs(f) ==
  [is : {"tree"}, tree : DOMAIN f.trees]
  \cup [is : {"bar", "menu"}, path : Bars(f)]
  \cup [is : {"crumb"}, length : 0..1]
  \cup [is : {"zoom in", "zoom out", "reset zoom", "hide category", "show in instances"}]
=============================================================================
