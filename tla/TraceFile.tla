----------------------------- MODULE TraceFile -----------------------------
(* From a file to an indexed trace.  The file is the program's own trace,    *)
(* written by several threads (Tracer), or any JSON document, read token by  *)
(* token (TraceParser); or the events come from another reader (add_event).  *)
(* In the end the model is indexed (TraceIndex).                             *)
EXTENDS Tracer, TraceParser, TraceIndex

CONSTANTS
  Sources,     \* which of "self", "document", "reader" the events come from
  KeysOf,      \* the keys an object may have, by its role in the document
  ScalarsOf,   \* the scalar values a key may have
  MaxNesting,  \* bound: containers inside each other
  MaxContainers, \* bound: containers in the document
  MaxSize,     \* bound: members of an object, items of an array, by role
  Drafts,      \* the events a reader may add
  MaxDrafts,   \* bound: their number
  FrameSets    \* the stack frames a reader may add

ObjectRoles == {"top", "event", "args", "inArgs", "frames", "frame", "other"}
IsScalar(t) == t.is = "bare" \/ (t = Number(t.value) /\ t.value \in Int) \/ t = String(t.value)
\* A reader calls an event a sample only with phase P (profile_io asks for both or neither).
IsDraft(e) ==
  /\ e = [x \in DOMAIN NoEvent |-> e[x]] /\ e.ts \in Int /\ e.dur \in Int
  /\ e.kind = "Sample" => e.ph = "P"
IsFrame(f) == f = [x \in DOMAIN NoFrame |-> f[x]] /\ f.valid \in BOOLEAN

ASSUME DocumentAssumption ==
  /\ \A t \in ScalarsOf["item"] : IsScalar(t)
  /\ \A role \in ObjectRoles : \A k \in KeysOf[role] : \A t \in ScalarsOf[k] : IsScalar(t)

ASSUME ReaderAssumption ==
  /\ \A e \in Drafts : IsDraft(e)
  /\ \A frames \in FrameSets : /\ frames = [f \in 1..Len(frames) |-> frames[f]]
                              /\ Len(frames) \in Nat /\ \A f \in 1..Len(frames) : IsFrame(frames[f])

VARIABLES
  source,  \* where the events come from
  phase,   \* "filling", "indexed", "refused"
  h,       \* the SAX handler and the model it fills
  path,    \* the containers of the document that are open
  meant,   \* what the document says, kept to be compared with h.model
  index    \* the index, once built

docVars == <<path, meant>>
vars == <<tracerVars, source, phase, h, docVars, index>>

NoIndex == [empty |-> TRUE]
Meaning == [events |-> <<>>, frames |-> <<>>, plain |-> TRUE, event |-> NoEvent, phLast |-> FALSE, numbers |-> 0,
            points |-> 0, frame |-> NoFrame, named |-> FALSE, opened |-> 0, done |-> FALSE]

Init ==
  /\ TracerInit
  /\ source \in Sources
  /\ phase = "filling"
  /\ h = Handler
  /\ path = <<>> /\ meant = Meaning
  /\ index = NoIndex

-----------------------------------------------------------------------------
(* The documents: every well-formed one within the bounds; no object gives  *)
(* the same key twice.                                                       *)
RoleOf(up, is, under) ==
  CASE up = "document" -> IF is = "object" THEN "top" ELSE "list"
    [] up = "top" /\ is = "array" /\ under = "traceEvents" -> "list"
    [] up = "top" /\ is = "object" /\ under = "stackFrames" -> "frames"
    [] up = "list" /\ is = "object" -> "event"
    [] up = "event" /\ is = "object" /\ under = "args" -> "args"
    [] up \in {"args", "inArgs"} -> "inArgs"
    [] up = "frames" /\ is = "object" -> "frame"
    [] OTHER -> "other"

Inner == path[Len(path)]
Here == IF path = <<>> THEN "document" ELSE Inner.role
AtMember == path # <<>> /\ Inner.is = "object" /\ Inner.key = Blank
AtValue == IF path = <<>> THEN ~meant.done
           ELSE IF Inner.is = "object" THEN Inner.key # Blank ELSE Inner.size < MaxSize["list"]
KeyHere == IF path = <<>> THEN Blank ELSE Inner.key

\* A value ends the member, or the item.
Further(c) == [c EXCEPT !.key = Blank, !.size = @ + 1]
Counting(p) == IF p = <<>> THEN p ELSE [p EXCEPT ![Len(p)] = Further(@)]

Feed(token) == h' = Handle(h, token) /\ UNCHANGED <<tracerVars, source, phase, index>>
Reading == source = "document" /\ phase = "filling"

Keyed(c, k) == [c EXCEPT !.key = k, !.keys = @ \cup {k}]

Key ==
  /\ Reading /\ AtMember /\ Inner.size < MaxSize[Here]
  /\ \E k \in KeysOf[Here] \ Inner.keys :
       /\ Feed([is |-> "key", value |-> k])
       /\ path' = [path EXCEPT ![Len(path)] = Keyed(@, k)]
  /\ UNCHANGED meant

\* What a scalar says: a member of an event, of its args, or of a frame.
EventSaid(e, k, t) ==
  CASE t.is = "number" /\ (k \in NumberFields \/ (k = "weight" /\ t.value >= 0)) -> [e EXCEPT ![k] = t.value]
    [] t.is = "number" /\ k = "sf" -> [e EXCEPT !.sf = Raw(t.value)]
    [] t.is = "string" /\ (k \in {"name", "cat", "sf"} \/ (k = "ph" /\ t.value # Blank)) -> [e EXCEPT ![k] = t.value]
    [] t.is = "string" /\ k = "weightUnit" -> [e EXCEPT !.unit = t.value]
    [] t.is = "string" /\ k = "id" /\ t.value \in DOMAIN Numeral -> [e EXCEPT !.id = Numeral[t.value]]
    [] OTHER -> e

FrameSaid(f, k, t) ==
  CASE k = "name" -> IF t.is = "string" THEN [f EXCEPT !.name = t.value] ELSE [f EXCEPT !.valid = FALSE]
    [] k = "category" /\ t.is = "string" -> [f EXCEPT !.cat = t.value]
    [] k = "parent" /\ t.is = "number" -> [f EXCEPT !.parentId = Raw(t.value)]
    [] k = "parent" /\ t.is = "string" -> [f EXCEPT !.parentId = t.value]
    [] k = "parent" /\ t.is = "bare" -> [f EXCEPT !.valid = FALSE]
    [] OTHER -> f

ArgSaid(args, k, t) ==
  IF t.is = "bare" THEN [args EXCEPT !.bad = TRUE] ELSE [args EXCEPT !.members = Append(@, [key |-> k, token |-> t])]
Numeric(t) == t.is = "number" \/ (t.is = "string" /\ t.value \in DOMAIN Numeral)
PhSaid(k, t) == k = "ph" /\ t.is = "string" /\ t.value # Blank
NameSaid(k, t) == k = "name" /\ t.is = "string"

Said(m, t) ==
  CASE Here = "event" -> [m EXCEPT !.event = EventSaid(@, KeyHere, t),
                                   !.phLast = IF PhSaid(KeyHere, t) THEN m.event.args.given ELSE @]
    [] Here = "args" -> [m EXCEPT !.event.args = ArgSaid(@, KeyHere, t), !.numbers = IF Numeric(t) THEN @ + 1 ELSE @]
    [] Here = "inArgs" -> [m EXCEPT !.event.args.bad = TRUE]
    [] Here = "frame" -> [m EXCEPT !.frame = FrameSaid(@, KeyHere, t), !.named = @ \/ NameSaid(KeyHere, t)]
    [] OTHER -> m

Scalar ==
  /\ Reading /\ path # <<>> /\ AtValue
  /\ \E t \in ScalarsOf[IF Inner.is = "array" THEN "item" ELSE Inner.key] :
       Feed(t) /\ meant' = Said(meant, t)
  /\ path' = Counting(path)

\* A container opens: it may start an event, an event's args or a frame.
Opened(m, new) ==
  CASE new = "event" -> [m EXCEPT !.event = NoEvent, !.phLast = FALSE, !.numbers = 0]
    [] new = "args" -> [m EXCEPT !.event.args = [NoArgs EXCEPT !.given = TRUE]]
    [] new = "inArgs" -> [m EXCEPT !.event.args.bad = TRUE]
    [] new = "frame" -> [m EXCEPT !.frame = [NoFrame EXCEPT !.id = KeyHere], !.named = FALSE]
    [] new = "other" /\ Here = "frame" /\ KeyHere \in {"name", "parent"} -> [m EXCEPT !.frame.valid = FALSE]
    [] new = "other" /\ Here = "list" -> [m EXCEPT !.plain = FALSE]
    [] OTHER -> m

Open(is) ==
  /\ Reading /\ AtValue /\ Len(path) < MaxNesting /\ meant.opened < MaxContainers
  /\ Feed([is |-> IF is = "object" THEN "startObject" ELSE "startArray"])
  /\ LET new == RoleOf(Here, is, KeyHere) IN
       /\ path' = Append(path, [is |-> is, role |-> new, key |-> Blank, keys |-> {}, size |-> 0])
       /\ meant' = Opened([meant EXCEPT !.opened = @ + 1], new)

\* A container ends, and with it an event, a frame or the document.
Ended(m) ==
  CASE Here = "event" /\ m.event.ph # "M" ->
         [m EXCEPT !.events = Append(@, m.event), !.plain = @ /\ ~(m.event.ph = "C" /\ m.phLast),
                   !.points = IF m.event.ph = "C" THEN @ + m.numbers ELSE @]
    [] Here = "frame" -> [m EXCEPT !.frames = Append(@, [m.frame EXCEPT !.valid = @ /\ m.named])]
    [] OTHER -> [m EXCEPT !.done = Len(path) = 1]

Shut ==
  /\ Reading /\ path # <<>> /\ Inner.key = Blank
  /\ Feed([is |-> IF Inner.is = "object" THEN "endObject" ELSE "endArray"])
  /\ path' = Counting(Front(path))
  /\ meant' = Ended(meant)

-----------------------------------------------------------------------------
(* The program's own trace, read after the process is over. *)
Records(f) == Kept(f, {k \in DOMAIN f : f[k].what = "record"})

Member(k, t) == <<[is |-> "key", value |-> k], t>>
ArgMember(k) == Member(k, IF k \in {"line", "value"} THEN Number(1) ELSE String("x"))

TokensOf(r) ==
  <<[is |-> "startObject"]>> \o Member("ph", String(r.ph)) \o Member("name", String("scope")) \o Member("cat", String("app"))
  \o Member("ts", Number(r.ts)) \o (IF r.ph = "X" THEN Member("dur", Number(r.dur)) ELSE <<>>)
  \o Member("pid", Number(1)) \o Member("tid", Number(r.tid))
  \o <<[is |-> "key", value |-> "args"], [is |-> "startObject"]>>
  \o Through(LAMBDA tokens, k : tokens \o ArgMember(k), <<>>, r.args)
  \o <<[is |-> "endObject"], [is |-> "endObject"]>>

FileTokens ==
  <<[is |-> "startObject"], [is |-> "key", value |-> "traceEvents"], [is |-> "startArray"]>>
  \o Through(LAMBDA tokens, r : tokens \o TokensOf(r), <<>>, Records(file))
  \o <<[is |-> "endArray"]>> \o Member("displayTimeUnit", String("us")) \o <<[is |-> "endObject"]>>

AfterAll(tokens) ==
  LET after[k \in 0..Len(tokens)] == IF k = 0 THEN Handler ELSE Handle(after[k - 1], tokens[k])
  IN after[Len(tokens)]

\* TraceParser::parse on it: a text that is no JSON document is refused.
ReadSelf ==
  /\ source = "self" /\ phase = "filling" /\ process = "over"
  /\ IF Complete(file)
     THEN /\ h' = AfterAll(FileTokens) /\ phase' = "indexed"
          /\ index' = BuildIndex(h'.model.events, h'.model.frames)
     ELSE h' = Handler /\ phase' = "refused" /\ UNCHANGED index
  /\ UNCHANGED <<tracerVars, source, docVars>>

\* The document ends; or it is cut short, and parse reports an error.
Finish ==
  /\ Reading /\ path = <<>> /\ meant.done
  /\ phase' = "indexed" /\ index' = BuildIndex(h.model.events, h.model.frames)
  /\ UNCHANGED <<tracerVars, source, h, docVars>>

CutShort ==
  /\ Reading /\ path # <<>>
  /\ phase' = "refused"
  /\ UNCHANGED <<tracerVars, source, h, docVars, index>>

(* Another reader (a profile, a session) adds events and frames. *)
AddEvent ==
  /\ source = "reader" /\ phase = "filling" /\ Len(h.model.events) < MaxDrafts
  /\ \E e \in Drafts : h' = [h EXCEPT !.model.events = Append(@, e)]
  /\ UNCHANGED <<tracerVars, source, phase, docVars, index>>

BuildAll ==
  /\ source = "reader" /\ phase = "filling"
  /\ \E frames \in FrameSets :
       /\ h' = [h EXCEPT !.model.frames = frames]
       /\ index' = BuildIndex(h.model.events, frames)
  /\ phase' = "indexed"
  /\ UNCHANGED <<tracerVars, source, docVars>>

\* native_symbol_resolver: names are set in the frames and the model is indexed
\* again, the E events taken out being put back and paired again.
Rebuild ==
  /\ phase = "indexed" /\ source = "reader"
  /\ index' = BuildIndex(index.events, [f \in DOMAIN index.frames |-> SetSymbol(index.frames[f], "symbol")])
  /\ UNCHANGED <<tracerVars, source, phase, h, docVars>>

Next ==
  \/ source = "self" /\ TracerNext /\ UNCHANGED <<source, phase, h, docVars, index>>
  \/ Key \/ Scalar \/ Open("object") \/ Open("array") \/ Shut \/ Finish \/ CutShort
  \/ ReadSelf \/ AddEvent \/ BuildAll \/ Rebuild

Spec == Init /\ [][Next]_vars

-----------------------------------------------------------------------------
(* Properties. *)
StateFor ==
  [document |-> "TopLevel", top |-> "InTopObject", list |-> "InTraceEvents", event |-> "InEvent", args |-> "InArgs",
   inArgs |-> "InArgs", frames |-> "InStackFrames", frame |-> "InStackFrame", other |-> "Skipping"]
Depth(role) == Cardinality({k \in 1..Len(path) : path[k].role = role})

\* The callbacks carry only a state and two counts, yet at every token they know
\* the place in the document: no value is taken for another's, and what is
\* skipped ends where it should (SaxHandler).  A list of events that holds an
\* array is excluded: its end is taken for the list's.
HandlerKnowsPlace ==
  Reading /\ path # <<>> /\ meant.plain =>
    /\ h.state = StateFor[Here]
    /\ Here = "other" => h.skipDepth = Depth("other")
    /\ Here \in {"args", "inArgs"} => h.argsDepth = Depth("inArgs")

Points(series) == UNION {{s} \X DOMAIN series[s] : s \in DOMAIN series}

\* Each event object of the document is one event of the model with the values
\* written last, whatever the order of its keys and whatever lies between them;
\* a frame is valid when all its names and parents were good; each number of a
\* counter is a point, if "ph" came before "args" (finish_event, end_object).
ReadAsWritten ==
  source = "document" /\ meant.plain =>
    /\ Len(h.model.events) = Len(meant.events)
    /\ \A i \in DOMAIN meant.events : h.model.events[i] = Kinded(meant.events[i])
    /\ h.model.frames = meant.frames
    /\ Cardinality(Points(h.model.series)) = meant.points

Indexed == phase = "indexed"
Ev(i) == index.events[i]
Begins(i) == Ev(i).ph = "B"
Matched(th) == \A i \in DOMAIN index.events :
  ThreadOf(Ev(i)) = th /\ Begins(i) =>
    Cardinality({j \in DOMAIN index.events : Begins(j) /\ Track(Ev(j)) = Track(Ev(i)) /\ ThreadOf(Ev(j)) = th})
      = Cardinality({j \in DOMAIN index.events : Ev(j).ended /\ Track(Ev(j)) = Track(Ev(i)) /\ ThreadOf(Ev(j)) = th})

Spans(th) == Kept(index.order[th], {k \in DOMAIN index.order[th] : Ev(index.order[th][k]).kind # "Sample"})

Overlap(a, b) == a.ts < End(b) /\ b.ts < End(a)
WellNested(th) ==
  \A i, j \in Range(Spans(th)) :
    Track(Ev(i)) = Track(Ev(j)) /\ Overlap(Ev(i), Ev(j)) =>
      (Ev(i).ts <= Ev(j).ts /\ End(Ev(j)) <= End(Ev(i))) \/ (Ev(j).ts <= Ev(i).ts /\ End(Ev(i)) <= End(Ev(j)))

\* The parent of an event is the last one before it, in the order by start and
\* then by length, that lasts and covers it; so walking up ends at a root, as
\* build_call_stack and the flame graph need.  Of a B this is true only where
\* spans do not partly overlap: the B open around it is preferred to a later
\* span that covers it and is less deep.  Only where every B has its E: the walk
\* of a thread with a B left open may never end.
NestingIsContainment ==
  Indexed => \A th \in DOMAIN index.order : Matched(th) =>
    \A k \in DOMAIN Spans(th) :
      LET i == Spans(th)[k]
          covering == {j \in 1..k - 1 : LET p == Ev(Spans(th)[j]) IN
                         /\ Track(p) = Track(Ev(i)) /\ p.dur > 0
                         /\ p.ts <= Ev(i).ts /\ Ev(i).ts < End(p) /\ End(Ev(i)) <= End(p)}
      IN /\ Begins(i) => ChainEnds(index, i)
         /\ ~Begins(i) \/ (Ev(i).dur > 0 /\ WellNested(th)) =>
              Ev(i).parent = IF covering = {} THEN None ELSE Spans(th)[Max(covering)]

\* In a thread whose spans are disjoint or inside each other no time is counted
\* twice or lost: the self times add up to the durations of the roots (the sums
\* the statistics and the flame graph show).  A negative duration counts as none.
SelfTimesAddUp ==
  Indexed => \A th \in DOMAIN index.order : Matched(th) /\ WellNested(th) =>
    Added([k \in DOMAIN Spans(th) |-> Ev(Spans(th)[k]).self])
      = Added([k \in DOMAIN Spans(th) |->
                 IF Ev(Spans(th)[k]).parent = None THEN Max({0, Ev(Spans(th)[k]).dur}) ELSE 0])

\* The block index finds exactly the events of the thread that touch the window,
\* although it starts by halving and stops early (BlockIndex::query).
IndexLosesNothing ==
  Indexed => \A th \in DOMAIN index.order :
    \A start \in index.minTs..index.maxTs, end \in index.minTs..index.maxTs :
      start <= end => Touching(index, th, start, end)
                        = {k \in DOMAIN index.order[th] : LET e == Ev(index.order[th][k]) IN e.ts <= end /\ End(e) >= start}

Known(f) == index.frames[f].parentId = NoId \/ FrameOf(index.frames, index.frames[f].parentId) # None

\* A sample is named after its leaf, and shows its stack only if the frames lead from leaf to root without a
\* gap, a bad frame or a cycle, however they share ancestors (resolve_stack_frames).
StacksAreWhole ==
  Indexed =>
   /\ \A i \in DOMAIN index.events : Ev(i).ph = "P" /\ Ev(i).frame # None =>
        /\ Ev(i).name = index.frames[Ev(i).frame].name
        /\ SampleStack(index, i) # <<>> /\ index.frames[SampleStack(index, i)[1]].parent = None
   /\ \A f \in DOMAIN index.frames :
    LET up == Ups(index.frames, f)
        walked == {up[k] : k \in 0..Len(index.frames)} \ {None}
    IN index.frames[f].valid <=> /\ up[Len(index.frames)] = None
                                 /\ \A g \in walked : h.model.frames[g].valid /\ Known(g)

Intervals(tid) == {k \in DOMAIN Records(file) : Records(file)[k].tid = tid /\ Records(file)[k].ph = "X"}
Distinct(tid) ==
  \A i, j \in Intervals(tid) :
    LET a == Records(file)[i] b == Records(file)[j] IN a.dur > 0 /\ (i # j => <<a.ts, a.dur>> # <<b.ts, b.dur>>)

\* In the program's own trace, read back, a scope lies inside the scope that was
\* open around it, although records are written as scopes end, the inner before
\* the outer and the threads' mixed, and although scopes that ended after close
\* are missing.  Scopes of the same microseconds cannot be told apart.
ScopesNest ==
  source = "self" /\ Indexed => \A tid \in Writers : Distinct(tid) =>
    LET written == Records(file)
        known == {written[k].id : k \in DOMAIN written}
    IN \A k \in Intervals(tid) :
         Ev(k).parent = IF written[k].inside \in known
                        THEN CHOOSE p \in DOMAIN written : written[p].id = written[k].inside ELSE None
=============================================================================
