---------------------------- MODULE MCTraceFile ----------------------------
EXTENDS TraceFile

MCNumeral == "7" :> 7

MCKeysOf ==
  [top |-> {"traceEvents", "stackFrames"}, event |-> {"ph", "ts", "args"}, args |-> {"k", "ts"}, inArgs |-> {"k"},
   frames |-> {"1"}, frame |-> {"name", "parent"}, other |-> {"ph"}]

MCScalarsOf ==
  [traceEvents |-> {}, stackFrames |-> {}, item |-> {Number(1)}, ph |-> {String("X"), String("C")}, ts |-> {Number(3)},
   args |-> {}, k |-> {String("7"), [is |-> "bare"]}, name |-> {String("f"), [is |-> "bare"]},
   parent |-> {String("1")}] @@ ("1" :> {})

MCMaxSize ==
  [top |-> 2, list |-> 2, event |-> 2, args |-> 2, inArgs |-> 1, frames |-> 1, frame |-> 2, other |-> 1]

Draft(ph, ts, dur) == [NoEvent EXCEPT !.ph = ph, !.ts = ts, !.dur = dur, !.sf = IF ph = "P" THEN "1" ELSE Absent]
MCDrafts ==
  {Draft("X", ts, dur) : ts \in 0..2, dur \in 1..2} \cup {Draft("X", 1, 0)} \cup {Draft(ph, ts, 0) : ph \in {"B", "E"}, ts \in 0..2}
  \cup {Draft("P", 1, 2)}

Frame(id, parent, valid) == [NoFrame EXCEPT !.id = id, !.parentId = parent, !.valid = valid]
MCFrameSets ==
  {<<Frame("1", "2", TRUE), Frame("2", parent, TRUE), Frame("3", "1", TRUE)>> : parent \in {NoId, "1", "3", "4"}}
  \cup {<<Frame("1", "2", TRUE), Frame("2", NoId, FALSE), Frame("3", "1", TRUE)>>}
=============================================================================
