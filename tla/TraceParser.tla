---------------------------- MODULE TraceParser ----------------------------
(* SaxHandler: what each event of the JSON reader does to the handler and to *)
(* the model it fills.  A handler is a record h; a string of the document is *)
(* a member of a small set, a number is a small integer, and Numeral gives   *)
(* the number a string of digits stands for.  An "args" text is kept as the  *)
(* members written into it, and bad once something that is no member went in.*)
EXTENDS Integers, Sequences, SequencesExt

CONSTANT Numeral  \* the strings that read as numbers, and their numbers

Absent == "absent"
Blank == ""  \* the empty string

NoArgs == [given |-> FALSE, members |-> <<>>, bad |-> FALSE]

NoEvent ==
  [ph |-> "?", name |-> Blank, cat |-> Blank, ts |-> 0, dur |-> 0, pid |-> 0, tid |-> 0, id |-> 0,
   sf |-> Absent, weight |-> -1, unit |-> Blank, cpu |-> -1, kind |-> "Measured", args |-> NoArgs,
   frame |-> 0, parent |-> 0, depth |-> 0, self |-> 0, ended |-> FALSE]

NoFrame == [id |-> Absent, parentId |-> Absent, parent |-> 0, name |-> Blank, cat |-> Blank, valid |-> TRUE]

EmptyModel ==
  [events |-> <<>>, frames |-> <<>>, series |-> <<>>, flows |-> <<>>, labels |-> <<>>,
   processes |-> {}, threads |-> {}]

Handler ==
  [state |-> "TopLevel", skipReturn |-> "TopLevel", skipDepth |-> 0, key |-> Blank,
   event |-> NoEvent, args |-> NoArgs, argsDepth |-> 0, counters |-> <<>>,
   frame |-> NoFrame, hasName |-> FALSE, model |-> EmptyModel]

Raw(v) == ToString(v)
NoToken == [is |-> "none"]

Put(f, k, v) == [x \in DOMAIN f \cup {k} |-> IF x = k THEN v ELSE f[x]]
AddTo(f, k, v) == IF k \in DOMAIN f THEN [f EXCEPT ![k] = Append(@, v)] ELSE Put(f, k, <<v>>)

Skip(h) == [h EXCEPT !.skipReturn = h.state, !.state = "Skipping", !.skipDepth = 1]

UnskipAtOnce(h) == [h EXCEPT !.skipDepth = @ - 1, !.state = h.skipReturn]
Unskip(h) ==
  [h EXCEPT !.skipDepth = @ - 1, !.state = IF h.skipDepth = 1 THEN h.skipReturn ELSE @]

\* A frame's name or parent that is no string (or, for the parent, no number).
Blemish(h) ==
  IF h.state = "InStackFrame" /\ h.key \in {"parent", "name"} THEN [h EXCEPT !.frame.valid = FALSE] ELSE h

-----------------------------------------------------------------------------
(* finish_event *)
UnitScale(unit) ==
  CASE unit = "ns" -> 1 [] unit = "us" -> 1000 [] unit = "ms" -> 1000000 [] unit = "s" -> 1000000000 [] OTHER -> -1

Kinded(e) ==
  IF e.ph = "P"
  THEN [e EXCEPT !.kind = "Sample", !.dur = 0,
          !.cpu = IF e.weight >= 0 /\ UnitScale(e.unit) > 0 THEN e.weight * UnitScale(e.unit) ELSE @]
  ELSE IF e.ph \in {"B", "E", "X"} /\ e.cat = "sampleEvent" THEN [e EXCEPT !.kind = "SampledSpan"] ELSE e

\* A counter with several values is a series for each.
Plotted(series, e, counters) ==
  LET after[k \in 0..Len(counters)] ==
        IF k = 0 THEN series
        ELSE AddTo(after[k - 1], <<e.pid, e.name, IF Len(counters) > 1 THEN counters[k].key ELSE Blank>>,
                   <<e.ts, counters[k].value>>)
  IN after[Len(counters)]

\* The member of args that json::parse would find: none in a text it refuses.
ArgOf(args, k) ==
  LET found == IF args.bad THEN {} ELSE {i \in DOMAIN args.members : args.members[i].key = k}
  IN IF found = {} THEN NoToken ELSE args.members[Max(found)].token

LabelOf == ("process_name" :> "name") @@ ("thread_name" :> "name")
           @@ ("process_sort_index" :> "sort_index") @@ ("thread_sort_index" :> "sort_index")

\* A name must be a string and a sort index a number, or get<> throws and nothing is set.
Fits(what, token) == token.is = IF what \in {"process_name", "thread_name"} THEN "string" ELSE "number"

Metadata(h) ==
  LET e == h.event
      ofThread == e.name \in {"thread_name", "thread_sort_index"}
      target == IF ofThread THEN <<e.name, e.pid, e.tid>> ELSE <<e.name, e.pid>>
      value == IF e.name \in DOMAIN LabelOf THEN ArgOf(h.args, LabelOf[e.name]) ELSE NoToken
  IN [h EXCEPT !.args = NoArgs,
               !.model.processes = @ \cup {e.pid},
               !.model.threads = IF ofThread THEN @ \cup {<<e.pid, e.tid>>} ELSE @,
               !.model.labels = IF e.name \in DOMAIN LabelOf /\ Fits(e.name, value) THEN Put(@, target, value) ELSE @]

FinishEvent(h) ==
  LET e == [Kinded(h.event) EXCEPT !.args = h.args]
      index == Len(h.model.events) + 1
  IN IF e.ph = "M" THEN Metadata([h EXCEPT !.event = Kinded(@)])
     ELSE [h EXCEPT
             !.event = e, !.args = NoArgs,
             !.counters = IF e.ph = "C" THEN <<>> ELSE @,
             !.model.series = IF e.ph = "C" THEN Plotted(@, e, h.counters) ELSE @,
             !.model.flows = IF e.ph \in {"s", "t", "f"} THEN AddTo(@, e.id, index) ELSE @,
             !.model.events = Append(@, e),
             !.model.processes = IF e.ph = "C" THEN @ \cup {e.pid} ELSE @]

-----------------------------------------------------------------------------
(* One operator for each callback of the reader. *)
OnKey(h, k) ==
  IF h.state = "Skipping" \/ (h.state = "InArgs" /\ h.argsDepth > 0) THEN h ELSE [h EXCEPT !.key = k]

\* null and boolean are written into args without their key.
OnBare(h) == IF h.state = "InArgs" THEN [h EXCEPT !.args.bad = TRUE] ELSE Blemish(h)

Argument(h, token) ==
  IF h.argsDepth > 0 THEN h ELSE [h EXCEPT !.args.members = Append(@, [key |-> h.key, token |-> token])]

CountedAnywhere(h, v) ==
  IF h.event.ph = "C" THEN [h EXCEPT !.counters = Append(@, [key |-> h.key, value |-> v])] ELSE h
Counted(h, v) ==
  IF h.argsDepth = 0 /\ h.event.ph = "C" THEN [h EXCEPT !.counters = Append(@, [key |-> h.key, value |-> v])] ELSE h

NumberFields == {"ts", "dur", "pid", "tid", "id"}

Number(v) == [is |-> "number", value |-> v]
String(v) == [is |-> "string", value |-> v]

OnNumber(h, v) ==
  CASE h.state = "InArgs" -> Counted(Argument(h, Number(v)), v)
    [] h.state = "InStackFrame" /\ h.key = "parent" -> [h EXCEPT !.frame.parentId = Raw(v)]
    [] h.state = "InStackFrame" /\ h.key = "name" -> [h EXCEPT !.frame.valid = FALSE]
    [] h.state = "InEvent" /\ h.key \in NumberFields -> [h EXCEPT !.event[h.key] = v]
    [] h.state = "InEvent" /\ h.key = "sf" -> [h EXCEPT !.event.sf = Raw(v)]
    [] h.state = "InEvent" /\ h.key = "weight" /\ v >= 0 -> [h EXCEPT !.event.weight = v]
    [] OTHER -> h

\* An id that starts with 0x and is no hex number throws (296), which ends the
\* load as FileLoader.Throws does; the ids of the documents here are numbers.
OnString(h, v) ==
  CASE h.state = "InArgs" ->
         IF v \in DOMAIN Numeral THEN Counted(Argument(h, String(v)), Numeral[v]) ELSE Argument(h, String(v))
    [] h.state = "InStackFrame" /\ h.key = "name" -> [h EXCEPT !.frame.name = v, !.hasName = TRUE]
    [] h.state = "InStackFrame" /\ h.key = "category" -> [h EXCEPT !.frame.cat = v]
    [] h.state = "InStackFrame" /\ h.key = "parent" -> [h EXCEPT !.frame.parentId = v]
    [] h.state = "InEvent" /\ h.key \in {"name", "cat", "sf"} -> [h EXCEPT !.event[h.key] = v]
    [] h.state = "InEvent" /\ h.key = "ph" /\ v # Blank -> [h EXCEPT !.event.ph = v]
    [] h.state = "InEvent" /\ h.key = "weightUnit" -> [h EXCEPT !.event.unit = v]
    [] h.state = "InEvent" /\ h.key = "id" /\ v \in DOMAIN Numeral -> [h EXCEPT !.event.id = Numeral[v]]
    [] OTHER -> h

OnStartObject(h) ==
  CASE h.state = "Skipping" -> [h EXCEPT !.skipDepth = @ + 1]
    [] h.state = "TopLevel" -> [h EXCEPT !.state = "InTopObject"]
    [] h.state = "InTopObject" /\ h.key = "stackFrames" -> [h EXCEPT !.state = "InStackFrames"]
    [] h.state = "InStackFrames" ->
         [h EXCEPT !.state = "InStackFrame", !.frame = [NoFrame EXCEPT !.id = h.key], !.hasName = FALSE]
    [] h.state = "InTraceEvents" ->
         [h EXCEPT !.state = "InEvent", !.event = NoEvent, !.args = NoArgs, !.counters = <<>>]
    [] h.state = "InEvent" /\ h.key = "args" ->
         [h EXCEPT !.state = "InArgs", !.argsDepth = 0, !.args = [NoArgs EXCEPT !.given = TRUE]]
    [] h.state = "InArgs" -> [h EXCEPT !.argsDepth = @ + 1, !.args.bad = TRUE]
    [] OTHER -> Skip(Blemish(h))

OnEndObject(h) ==
  CASE h.state = "Skipping" -> Unskip(h)
    [] h.state = "InStackFrame" ->
         [h EXCEPT !.state = "InStackFrames",
            !.model.frames = Append(@, [h.frame EXCEPT !.valid = @ /\ h.hasName])]
    [] h.state = "InStackFrames" -> [h EXCEPT !.state = "InTopObject"]
    [] h.state = "InArgs" -> IF h.argsDepth > 0 THEN [h EXCEPT !.argsDepth = @ - 1] ELSE [h EXCEPT !.state = "InEvent"]
    [] h.state = "InEvent" -> [FinishEvent(h) EXCEPT !.state = "InTraceEvents"]
    [] h.state = "InTopObject" -> [h EXCEPT !.state = "TopLevel"]
    [] OTHER -> h

OnStartArray(h) ==
  CASE h.state = "Skipping" -> [h EXCEPT !.skipDepth = @ + 1]
    [] h.state = "TopLevel" \/ (h.state = "InTopObject" /\ h.key = "traceEvents") ->
         [h EXCEPT !.state = "InTraceEvents"]
    [] h.state = "InArgs" -> [h EXCEPT !.argsDepth = @ + 1, !.args.bad = TRUE]
    [] h.state \in {"InEvent", "InStackFrame", "InStackFrames"} \/ (h.state = "InTopObject" /\ h.key # "traceEvents") ->
         Skip(Blemish(h))
    [] OTHER -> h

OnEndArray(h) ==
  CASE h.state = "Skipping" -> Unskip(h)
    [] h.state = "InArgs" -> IF h.argsDepth > 0 THEN [h EXCEPT !.argsDepth = @ - 1] ELSE h
    [] h.state = "InTraceEvents" -> [h EXCEPT !.state = "InTopObject"]
    [] OTHER -> h

Handle(h, token) ==
  CASE token.is = "key" -> OnKey(h, token.value)
    [] token.is = "number" -> OnNumber(h, token.value)
    [] token.is = "string" -> OnString(h, token.value)
    [] token.is = "bare" -> OnBare(h)
    [] token.is = "startObject" -> OnStartObject(h)
    [] token.is = "endObject" -> OnEndObject(h)
    [] token.is = "startArray" -> OnStartArray(h)
    [] token.is = "endArray" -> OnEndArray(h)
=============================================================================
