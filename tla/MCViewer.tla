------------------------------ MODULE MCViewer ------------------------------
EXTENDS Viewer

Span(pid, tid, name, cat, ts, dur) ==
  [ph |-> "X", kind |-> "Measured", ts |-> ts, dur |-> dur, pid |-> pid, tid |-> tid,
   name |-> name, cat |-> cat, sf |-> NoId, cpu |-> -1,
   id |-> 0, weight |-> 0, unit |-> "", args |-> <<>>,
   frame |-> None, parent |-> None, depth |-> 0, self |-> 0, ended |-> FALSE]
Sampled(e) == [e EXCEPT !.kind = "SampledSpan"]
Instant(e) == [e EXCEPT !.ph = "i", !.dur = 0]
Sample(e, sf, cpu) == [e EXCEPT !.ph = "P", !.kind = "Sample", !.dur = 0, !.sf = sf, !.cpu = cpu]
Begin(e) == [e EXCEPT !.ph = "B", !.dur = 0]
Ended(e) == [e EXCEPT !.ph = "E", !.dur = 0]
StackFrame(id, parent, name, cat) ==
  [id |-> id, parentId |-> parent, parent |-> None, valid |-> TRUE, name |-> name, cat |-> cat]

\* Spans within spans, a run of thin ones, and another process.
Nest ==
  << Span(1, 1, "a", "u", 0, 1000), Span(1, 1, "b", "v", 100, 400), Span(1, 1, "c", "u", 150, 100),
     Span(1, 1, "c", "u", 300, 150), Span(1, 1, "d", "v", 600, 200), Span(1, 1, "c", "u", 700, 60), Span(1, 1, "c", "u", 820, 4),
     Span(1, 1, "b", "u", 830, 5), Span(2, 1, "b", "v", 500, 500) >>

\* Samples and sampled spans beside measured ones, and an instant.
Profile ==
  << Span(1, 1, "a", "u", 0, 1000), Sample(Span(1, 1, "?", "u", 250, 0), "2", 7),
     Sample(Span(1, 1, "?", "u", 450, 0), "3", -1), Sampled(Span(1, 1, "a", "u", 200, 600)),
     Sampled(Span(1, 1, "b", "v", 400, 200)), Begin(Span(1, 2, "a", "v", 350, 0)),
     Instant(Span(1, 2, "c", "u", 500, 0)), Ended(Span(1, 2, "", "", 650, 0)) >>
ProfileFrames == << StackFrame("1", NoId, "a", "u"), StackFrame("2", "1", "b", "v"), StackFrame("3", "2", "b", "v") >>

\* A scope and three in each other at the middle of it, too short to be seen: in
\* blocks of two, the second block holds depths two and three.
Deep == << Span(1, 1, "a", "u", 0, 1000), Span(1, 1, "b", "v", 500, 3), Span(1, 1, "b", "v", 500, 2), Span(1, 1, "b", "v", 500, 1) >>

MCTraces ==
  << [events |-> Nest, frames |-> <<>>], [events |-> Profile, frames |-> ProfileFrames],
     [events |-> << Instant(Span(1, 1, "c", "u", 5, 0)) >>, frames |-> <<>>],
     [events |-> Deep, frames |-> <<>>] >>

MCHolding == {<<"b", "b">>, <<"v", "b">>}

\* What one run may use: each set reaches what a row of panels can do to each other.
Searching == {"find", "next result", "result row", "previous result", "unique", "sort results", "walk", "load"}
Ranging == {"press", "drag", "release", "range header", "zoom to range", "clear range", "clear", "range row", "category",
            "process", "load"}
Looking == {"wheel", "shift wheel", "sideways wheel", "zoom key", "pan key", "scroll key", "pan", "click", "walk", "fit",
            "go to", "scroll bar", "bar jump", "bar drag", "bar wheel", "no room"}
Reading == {"click", "tab", "descendants", "group", "filter text", "child row", "parent", "stack row", "fold"}
Burning == {"tree", "bar", "menu", "crumb", "zoom in", "zoom out", "reset zoom", "hide category", "show in instances",
            "all categories", "press", "release"}
Listing == {"click", "bar", "previous instance", "next instance", "instance row", "sort instances", "thread", "category",
            "no categories"}
Crossing == {"press", "release", "click", "bar", "child row", "result row", "find", "next instance", "hide category", "menu",
             "thread", "walk"}
MCUses == {Searching, Ranging, Looking, Reading, Burning, Listing, Crossing}
=============================================================================
