------------------------------- MODULE Lists -------------------------------
(* The search panel and the instances panel: two lists of events, each with  *)
(* a cursor of its own that moves the selection.                             *)
EXTENDS Details

Search0 == [text |-> "", unique |-> TRUE, rows |-> <<>>, stats |-> <<>>, column |-> "time"]
Instances0 == [name |-> "", rows |-> <<>>, cursor |-> 0, last |-> None, dirty |-> FALSE, column |-> "longest"]

\* Sorting keeps the order of equals; std::sort may not.
StableSort(seq, Before(_, _)) ==
  LET at == InOrder(DOMAIN seq, LAMBDA a, b : \/ Before(seq[a], seq[b])
                                              \/ ~Before(seq[b], seq[a]) /\ a < b)
  IN [k \in DOMAIN at |-> seq[at[k]]]

KeyOf(e, column) ==
  CASE column = "time" -> e.ts
    [] column = "duration" -> e.dur
    [] OTHER -> -e.dur

SortedRows(m, rows, column) ==
  StableSort(rows, LAMBDA i, j : KeyOf(m.events[i], column) < KeyOf(m.events[j], column))

(* Search. *)
Hits(m, text) ==
  InOrder({i \in DOMAIN m.events : /\ ~m.events[i].ended /\ m.events[i].ph # "M"
                                   /\ text # ""
                                   /\ Has(m.events[i].name, text) \/ Has(m.events[i].cat, text)},
          LAMBDA i, j : i < j)

UniqueByName(m, rows) ==
  Kept(rows, {k \in DOMAIN rows : \A j \in 1..k - 1 : m.events[rows[j]].name # m.events[rows[k]].name})

NameStats(m, rows) ==
  LET Of(name, kind) == {i \in ToSet(rows) : m.events[i].name = name /\ m.events[i].kind = kind} IN
  [n \in {m.events[i].name : i \in ToSet(rows)} |->
     [count |-> Cardinality(Of(n, "Measured")), samples |-> Cardinality(Of(n, "Sample")),
      spans |-> Cardinality(Of(n, "SampledSpan")),
      total |-> MapThenSumSet(LAMBDA i : m.events[i].dur, Of(n, "Measured"))]]

\* The sort of one frame: the table is drawn, and sorted, when it has rows.
Reread(m, v, q) ==
  [q EXCEPT !.rows = SortedRows(m, IF q.unique THEN UniqueByName(m, v.results) ELSE v.results, q.column)]

SearchFor(m, v, q) ==
  LET w == [v EXCEPT !.query = q.text, !.results = Hits(m, q.text), !.current = -1] IN
  [v |-> w, q |-> Reread(m, w, [q EXCEPT !.stats = NameStats(m, w.results)])]

\* Positions count from 0, as in the code.
StepTo(m, v, q, at) ==
  LET moved == [v EXCEPT !.current = at] IN
  IF q.rows = <<>> THEN v
  ELSE IF at < Len(q.rows) THEN JumpToResult(moved, m, q.rows[at + 1]) ELSE moved

SearchFrame(m, v, q, in) ==
  CASE in.is = "find" -> SearchFor(m, v, [q EXCEPT !.text = in.text])
    [] in.is = "unique" -> [v |-> v, q |-> Reread(m, v, [q EXCEPT !.unique = ~@])]
    [] in.is = "sort results" -> [v |-> v, q |-> [q EXCEPT !.column = in.column, !.rows = SortedRows(m, @, in.column)]]
    [] in.is = "previous result" /\ v.current > 0 -> [v |-> StepTo(m, v, q, v.current - 1), q |-> q]
    [] in.is = "next result" -> [v |-> StepTo(m, v, q, Min({v.current, Len(q.rows) - 2}) + 1), q |-> q]
    [] in.is = "result row" -> [v |-> JumpToResult(v, m, in.event), q |-> q]
    [] OTHER -> [v |-> v, q |-> q]

SearchInputs(q) ==
  [is : {"find"}, text : Texts]
  \cup [is : {"unique", "previous result", "next result"}]
  \cup [is : {"sort results"}, column : {"time", "duration"}]
  \cup [is : {"result row"}, event : ToSet(q.rows)]

(* Instances: all events that bear the selected one's name. *)
SelectFunction(m, s, name) ==
  [s EXCEPT !.name = name, !.cursor = 0, !.rows = IF name \in DOMAIN m.byName THEN m.byName[name] ELSE <<>>]

FollowSelection(m, v, s) ==
  LET e == m.events[v.sel]
      named == IF e.ended \/ e.ph \in {"M", "C"} \/ s.name = e.name THEN s
               ELSE [SelectFunction(m, s, e.name) EXCEPT !.dirty = TRUE]
  IN IF v.sel = None THEN [s EXCEPT !.last = None]
     ELSE IF v.sel = s.last THEN s
     ELSE [named EXCEPT !.last = v.sel]

\* The cursor is looked for again only when the rows are sorted.
SortInstances(m, v, s) ==
  LET rows == SortedRows(m, s.rows, s.column)
      at == {k \in DOMAIN rows : rows[k] = v.sel}
  IN [s EXCEPT !.rows = rows, !.dirty = FALSE,
               !.cursor = IF v.sel = None THEN @ ELSE IF at = {} THEN 0 ELSE Min(at)]

ToInstance(m, v, s, k) == [v |-> Jump(v, m, s.rows[k]), s |-> [s EXCEPT !.cursor = k]]

InstancesFrame(m, v, s0, in) ==
  LET s == FollowSelection(m, v, s0)
      stepped == CASE in.is = "previous instance" /\ s.cursor > 1 -> ToInstance(m, v, s, s.cursor - 1)
                   [] in.is = "next instance" /\ s.cursor < Len(s.rows) -> ToInstance(m, v, s, s.cursor + 1)
                   [] OTHER -> [v |-> v, s |-> s]
      picked == IF in.is = "sort instances" THEN [stepped.s EXCEPT !.column = in.column, !.dirty = TRUE]
                ELSE stepped.s
      sorted == IF picked.dirty THEN SortInstances(m, stepped.v, picked) ELSE picked
  IN IF m.events = <<>> THEN [v |-> v, s |-> s0]
     ELSE IF s.name = "" \/ s.rows = <<>> THEN [v |-> v, s |-> s]
     ELSE IF in.is = "instance row" /\ in.row \in DOMAIN sorted.rows THEN ToInstance(m, stepped.v, sorted, in.row)
     ELSE [v |-> stepped.v, s |-> sorted]

InstancesInputs(s) ==
  [is : {"previous instance", "next instance"}]
  \cup [is : {"sort instances"}, column : {"time", "longest"}]
  \cup [is : {"instance row"}, row : DOMAIN s.rows]
=============================================================================
