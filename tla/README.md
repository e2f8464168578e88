# TraceRender in TLA+

Specifications, TLC models and TLAPS proofs for TraceRender, the desktop viewer
for Chrome traces and diagnostics sessions in `src/`.  The modules describe the
code as it is; where the code and what its documentation says of it disagree,
a run shows it (see *Disagreements found*).

## The system

| Component | State it keeps | Operations | Talks to | What makes it correct |
| --- | --- | --- | --- | --- |
| `model/query_db` | SQLite connection, query thread, index thread, atomics `query_running_`, `query_done_`, `query_cancel_`, `async_result_` | `load`, `create_indexes_async`, `execute`, `execute_async`, `cancel_query`, `take_result`, destructor | called by the loader thread and by the UI thread | the announced result is the newest query's and of one trace; tables are replaced alone; joins end |
| `platform/file_loader_desktop` | loader thread, atomics `loading`, `finished`, `cancelled`, the model under construction | `load_file`, `load_buffer`, `cancel`, `poll_finished`, `join`, `take_model` | parser, symbol resolver, `QueryDb::load`; polled by `App` | complete or nothing; cancellation honoured; every load ends |
| `ui/stats_panel` | tabs with their query, result and running flag | run, cancel, clear, add, close, select, Use & Run, schema browser | `QueryDb` | results go once, to the tab that asked; Cancel brings a tab back |
| `app`, `main` | model on show, `has_trace_`, frame loop | `open_file`, `finish_load`, `update`, `shutdown` | all of the above, all panels | what is shown together is of one trace; shutdown ends with no thread left |
| `platform_desktop` | one pending file, save message, under a mutex | drop, dialog callback (a thread of its own), take | `App::update` | the last file chosen is the one opened |
| `ui/view_state` | selection, scroll target, viewport, range, filters, search | setters, `navigate_to_event`, clamping | all panels | indexes point into the model on show; viewport stays in bounds |
| `ui/timeline_view` | layout of the tracks, scroll, drags | `render`: layout, slices, marks, merged runs, hit test, mouse and keys | view state, model | nothing in view goes undrawn, but for two limits of depth; a click selects what was drawn there; a jump shows its event |
| `ui/detail_panel`, `ui/range_stats` | children, groups, filter, call stack, descendants, statistics, each a cache with a key | `render`, `rebuild_*` | view state, model | a cache is never used for another key or model |
| `ui/flame_graph_panel` | trees for a key of nine parts, zoom, menu | `render`, `rebuild` | view state, model | bars lie inside each other; counts agree with the range statistics |
| `ui/search_panel`, `ui/instance_panel`, `ui/filter_panel` | rows, cursors, hidden sets | `render`, sorting, previous / next | view state, model | the rows are what a new search would find |
| `ui/source_panel`, `ui/memory_panel` | caches keyed by selection or time | `render`, `on_model_changed` | view state, model | as above |
| `model/trace_model`, `block_index` | events, threads, parents, depths, self times | `build_index`, navigation queries | parser, panels | nesting is what the intervals say; self times add up; the block index loses nothing |
| `model/memory_index` | lifetimes sorted by start | `build`, `query` | memory panel | totals at a time are the sum of what lives then; no overflow |
| `parser/native_heap`, `managed_allocations`, `managed_methods` | replay of heap, GC and JIT records | `build_*`, `find` | importer | ends are only claimed when the records prove them |
| `parser/trace_parser`, `diagsession_*`, `etl_reader`, `xpress_huffman`, `profile_io`, `managed_snapshot` | parser state | `parse`, `parse_buffer` | loader thread | a malformed file gives an error, not a trace |
| `symbols/native_symbol_resolver` | LLVM contexts | `resolve_profile` | loader thread | wraps LLVM |
| `tracing.h` | output file, `enabled_`, mutex | `set_output`, `write_*`, `close` | every thread | the file stays well formed with concurrent writers and a close |
| `file_loader_wasm`, `platform_wasm` | chunked load on one thread | as the desktop loader | browser | as the desktop loader |
| filter, toolbar, diagnostics, key bindings, counters, flows, formatting, export, settings | little | drawing, formatting | | |

### What is hard here

* Four threads use one SQLite connection, and the flags that connect them are
  separate atomics set one after the other.
* The loader thread replaces the tables of a database the UI may be querying.
* Cancellation is a flag that is looked at in some places only: for a query by
  a callback that belongs to the connection, for a load before and after work
  that cannot be undone.
* Every panel keeps indexes into a model that a load replaces.
* Shutdown can come at any moment of all this.
* A recording reuses heap handles and addresses, starts late, and loses
  records; what the import derives from it must say no more than the records
  prove.
* The program traces itself while its threads come and go, and the file must be
  complete when the process is not.
* A SAX handler gets tokens and no places; what it skips may nest to any depth.
* Nesting, self times and stacks are computed from times that may be equal,
  zero, unpaired or overlapping, and from frames that may be wrong.
* A dozen caches, each with a key of its own, are filled at different lines of
  one frame, while clicks in the same frame change what they are keyed by.

`PROJECT.json` lists these hazards line by line with the properties about them.

## Modules

| Module | Role |
| --- | --- |
| `AsyncQuery` | abstract: one question at a time, the answer on offer answers the last question |
| `QueryDb` | `query_db.cpp` with its four threads |
| `StatsPanel` | extends `QueryDb`: the SQL tabs |
| `LoadService` | abstract: one load at a time, ends with the trace asked for or with none |
| `FileLoader` | `file_loader_desktop.cpp` |
| `App` | extends `FileLoader`: `main`, the frame loop, `finish_load`, pending files, selection and panel caches |
| `NativeHeap` | `native_heap.cpp`: one operator per kind of record, and the ends of the replay |
| `MemoryIndex` | which allocations `MemoryIndex::query` counts at a time, and which it calls known |
| `NativeMemory` | extends both: the recorded process, the session that loses records, the replay, the queries |
| `Tracer` | `tracing.h`: scopes and counters of every thread, the mutex, the file |
| `TraceParser` | `trace_parser.cpp`: the SAX handler as a function of its state and a token |
| `TraceIndex` | `trace_model.cpp`, `block_index.h`: `build_index` and the queries, as functions |
| `TraceFile` | extends the three: the program's own trace, any document or another reader's events, read and indexed |
| `ViewState` | `view_state.h`, `filter_panel.cpp`: the state all panels share |
| `RangeStats` | `range_stats.cpp` as a function |
| `Details`, `Lists`, `FlameGraph`, `Timeline` | one panel each (`Lists`: search and instances): what one frame makes of its state, the view state and an input |
| `Viewer` | composes the panels in the order of `App::render`, with loads in between |
| `MC*` | give TLC the modules with the constants of their `.cfg` |
| `QueryDbProofs` | theorems about `QueryDb`, and about `StatsPanel` on top of it |
| `NativeMemoryProofs` | theorems about `NativeMemory` |
| `AppProofs` | theorems about the loader and the application |
| `TraceIndexProofs` | theorems about the operators of `TraceIndex` |
| `NestingProofs` | extends it: pairing and nesting |
| `TraceFileProofs` | theorems about writing, reading and indexing a trace |
| `ScopeProofs` | extends it: the program's own trace keeps the nesting of the scopes |
| `ViewerProofs` | theorems about the viewport, the lists of the panels and jumps to an event |

### QueryDb

One action per call, and per statement of a thread that another thread can see.
`qpc` is the position of the query thread: install the progress handler,
prepare, step row by row, remove the handler, publish the result, clear
`query_running_`, set `query_done_`.  `sqlite3_step` is two actions
(`StepBegin`, and `StepRow`, `StepStop` or `StepInterrupted`), because it holds
the connection's mutex for its whole duration and may last without end.
`SQLITE_OPEN_FULLMUTEX` makes every other call of SQLite atomic.  `ipc` is the
next `CREATE INDEX` of the index thread, `lpc` the position of `load()`, or of
the destructor, and `ui` says whether the UI thread sits inside the synchronous
`execute()`.  `join` is a guard: the action waits for the thread's last
assignment.  Data: a row is the number of the trace it was read from, a query
the number of its request; `result_mutex_` is not needed, because no action
reads half a result.  `query_rows_`, `query_steps_` and `indexing_progress_`
only feed a progress text and are left out.

`shown` stands for `has_trace_ && !loader_.is_loading()`: panels, and with
them every call from the UI, run only then.

### StatsPanel

Tabs are identities.  The code knows them by position, and so does ImGui, so
after a close any remaining tab may come to the front.  Only the selected tab
is rendered and polls.  A frame polls before it runs, but the query thread may
set its flags between the two, so polling and running are separate actions.
`askedBy` is history: which tab made which request.

### FileLoader and App

A file is a number and its trace has the same number, so "the wrong trace" is
visible.  `tpc` is the position of the loader thread.  Every look at
`cancelled` is a step of its own: inside parsing and symbol resolution
(`Throws`), after parsing (`CheckCanceled`), after the database was filled
(`RecheckCanceled`).  `fail()` is two steps: what is offered is taken back
(`Fail`), and only then `finished` is stored (`FinishFailed`), which is what
another thread looks at.  What parsing and resolving compute is abstracted to
whether they succeed; `load_file` and `load_buffer` differ only in where the
bytes come from and are one action.

`App` runs the frame as a sequence `poll`, `pending`, `timeline`, `details`,
`panels`, with the loader thread, the window and the dialog's thread
interleaved.  An event index carries the trace it was taken from, which the
code does not know: `NoStalePanel` is about it.  `DetailPanel` stands for the
panels with a cache keyed by the selected index; the others reset theirs at the
same place (`finish_load`).

`QueryDb` and `FileLoader` meet in `QueryDb::load`.  Each module has the whole
of it from its own side: `QueryDb` all the joins and no parsing, `FileLoader`
all the looks at the cancel flag and no query.

### NativeHeap, MemoryIndex and NativeMemory

The replay of `build_native_allocations` is a function of a list of records,
and the question is what that list says of the process that produced it.  So
the process is in the model: `block` has every generation of every block with
the times of its birth and death, which the replay never sees.  Each operation
of the process (`CreateHeap`, `AllocateBlock`, `FreeBlock`, `ResizeBlock`, the
three records of a moving realloc, `NullCall`, `DestroyHeap`) writes one record,
and `Observed` says what becomes of it: not recorded yet, lost or skipped by
the decoder, omitted by the checks of `native_heap.cpp:42-66`, or replayed by
the operator of `NativeHeap` for its kind.  In the code all of the replay runs
after the session, over the records in their order; replaying each record in
the step that writes it gives the same result, because the replay reads nothing
but earlier records and `process.end_ts`, which `ReplayEnds` gets at
`StopRecording`, as in the code.

The process, the session and the clock are not in `src/`; they are modelled
from what the decoder and the replay expect of them and marked external: an
address has one live block per heap, a freed block is not freed again, a
realloc that moves writes three records between which other threads may write
theirs, records may carry equal times, and a process that is not seen to exit
lives on.  The blocks of different processes and heaps share no state in the
replay, so there is one process.

`open`, `active` and `allocations` are `process_heaps`, `HeapState::active` and
`profile.allocations`; `heaps` has the ends in `profile.heaps`, and `complete`
is `complete_event_stream`, which at the end becomes
`!allocation_history_gaps`.  `CountedAt` and `KnownAt` are the sets whose sizes
`query` adds up.  `excused` is history: something happened that the replay may
take for a gap, although no record was lost.

### Tracer, TraceParser, TraceIndex and TraceFile

`Tracer` has one action per statement that another thread can see.  A scope
takes its start when it is entered and looks at `enabled_` without the mutex;
as it ends, `write_complete` looks again, takes the mutex (`Locked`), looks at
`file_`, prints a comma unless it is the first record (`Separate`), and the
record (`PrintRecord`).  `CouldRead` is what the plain read of `enabled_` may
return: after `close` a thread may see either value.  The file is a sequence of
what the calls print.  `Exit` and `Killed` end the process and leave the file.

`TraceParser` is the SAX handler: `Handle(h, token)` is the callback for the
token, a function of `state_`, the counters `skip_depth_` and `args_depth_`,
the event, args and frame under construction and the model so far.  A string is
a member of a small set; `Numeral` says which strings `strtod` reads as numbers.

`TraceIndex` is `build_index` in its order: pair `B` with `E` events per thread
and category, sort, walk the stack of open events for depth, parent and self
time, build the blocks of `BlockIndex` with their latest ends, resolve the stack
frames and name the samples.  `Visible` is `BlockIndex::query`; `CallStack`,
`LongestChild` and the like are the navigation queries the panels call.  A
loop is `Through`, a recursive function of the position, and a sort is
`InOrder`, which takes the least member again and again: proofs may use both.

`TraceFile` has the three sources of events.  *self*: the tracer runs, ends, and
its file is parsed (`ReadSelf`); a file that is no complete document is refused.
*document*: the environment writes any well-formed document within the bounds,
one token per step, and the handler answers each; `meant` is what the document
says, kept apart by the containers that are open (`path`), and never read by the
handler.  `CutShort` is the document that ends early.  *reader*: a profile or
session importer adds events and frames directly, and the symbol resolver may
name frames and index once more (`Rebuild`).  Such an event is a sample only if its
phase is `P` (`IsDraft`; `profile_io.cpp:380` asks for it, the session importer sets
both).

Some of the properties have a condition that is the code's own.  An array inside
`traceEvents` ends the list of events for the handler (`meant.plain`).  A thread
with a `B` event without its `E` is not sorted by containment (`Matched`).  And
where spans partly overlap, a `B` can lie in a later and longer span and still
get the `B` open around it as its parent, because a span that is less deep than
that one is passed over (`trace_model.cpp:88-89`); `B` 0 to 10, `B` 1 to 9, `X` 2 to
20, `B` 5 to 8 is such a thread, and larger than the bounds below.  So
`NestingIsContainment` speaks of a `B` only in a thread without partial overlaps
(`WellNested`).

### ViewState, the panels and Viewer

A frame is one step: `App::render` runs on one thread without a callback in
between.  Each panel's module gives `...Frame(model, view, panel, input)`, the
view state and the panel's state after its part of the frame; `Viewer.Frame`
chains them in the order of the code, so a panel sees in the same frame what
those before it changed and a frame later what those after it did.  An input
goes to one panel; what it may be is `...Inputs`, and a click is on something
that the last frame has drawn.  `last = "idle"` is a frame without input: it is
the moment at which every panel has seen every change, and the properties speak
of it.

`Timeline.Draw` keeps the widths that the picture depends on.  A block notes the
depths of its events in a mask of `MaskDepths` bits (32), and a block that is
thinner than two pixels as a whole adds to the runs of these depths only.  A
depth has 8 bits, and so has the number of depths: `NumDepths` of a track is 0
when its deepest event has depth `MaxDepth` (255), and then the runs are neither
reset nor drawn at the end; what the array holds is `Leftover`.  `PictureIsWhole`
names these two cases (`Unmasked`, `Uncounted`) and demands the picture in all
others.

A frame without input has room for the tracks and the statistics' header as it
was left.  `no room` is a frame in a window smaller than 50 pixels
(`timeline_view.cpp:435`), in which the timeline returns early and a request
waits; nothing else is done in it.  `range header` folds the header away, behind
which the statistics are not renewed (`detail_panel.cpp:304`).

`FinishLoad` is the part of `finish_load` that touches the view: selection,
range, filters and search are reset, panels get `on_model_changed`; the timeline
is not told and a pending scroll target is kept.  `Drawn` leaves out inputs to
tracks that were laid out for the trace before.

Details abstracted: the rows of a table are a set, but the ones a key or a
cursor moves over are a sequence (search, instances); a pixel is a whole number
and `TrackWidth` pixels wide; a name contains what `Holding` says.  Sort orders
other than by time and duration, widths, labels, colours, counters, flows, the
ruler, the arguments tab and bars narrower than a pixel are left out.

## Runs

| Run | Shows |
| --- | --- |
| `querydb` | result announced is current; one trace per result; tables replaced alone; handler only during a query; cancelled queries end; joins end; refines `AsyncQuery` |
| `stats_panel` | results are handed out once; a tab that asks alone stays current; Cancel brings it back |
| `app` | complete or nothing; shown together belongs together; no stale panel; loader used as it requires; refines `LoadService` with its fairness; loads are collected; shutdown ends with no thread left |
| `trace_file` | the file is well formed at any moment; the handler knows its place and events are as written; parents, self times, block index and stacks are what intervals and frames say; scopes of the program's own trace nest |
| `viewer` | details, statistics, flame graph, lists are those of the selection, range and filters; two panels that count one range agree; nothing in view is undrawn, except too deep for a mask or in a track of 256 depths, or clicked wrongly; a jump shows its event |
| `native_memory` | what the replay calls freed is dead; live blocks are counted; known amounts are exact; gaps have a cause |
| `querydb_truncation`, `querydb_index_lost`, `querydb_schema_freeze`, `stats_misdelivery`, `app_stale_scroll`, `native_memory_false_gap` | the disagreements below |

### Bounds

* `RowLimit` 2 (10000 in the code): results below, at and beyond the limit, and
  one with two rows that could differ in trace.  1 in `stats_panel`, where rows
  do not matter.
* `NumIndexes` 2 (4 in the code; 4 in `querydb_index_lost`): a query can come
  before, between and after the statements.
* `MaxRequests` 2, `MaxLoads` 2: a query after a query and after a load, a load
  during a query of the trace before.  The hazards involve one old and one new
  query or trace; the proofs are for all values.
* `Tabs` two: one that asks, one that takes.
* `MaxFiles` 3: a trace on show, a load in progress, and a file waiting.
* `EventIndexes` {1, 2}: the same index in two traces, and another one.
* `Blocks` three, `Addresses` two, `Handles` one: an address and a handle are
  used again, also between the records of a move; `MaxHeaps` 2: the heap before
  and after.  Which handle a block has matters only to the proofs, which are
  for any number.  `Sizes` one: sizes are only compared, and without losses
  they agree.  `Times` 1 to 3: before, at and after an end.

* `trace_file`: `Writers` two and `MaxScopes` 3 in `MaxClock` 2 microseconds: a
  scope in a scope beside another thread's, on both sides of `close`, with equal
  times and zero lengths.  `MaxNesting` 5, `MaxContainers` 6, and the keys and
  scalars of `MCTraceFile`: every place in a document has a container in it that
  does not belong there, each key also appears where it means something else.
  `MaxDrafts` 3 of 17 events at times 0 to 2: parents, siblings, touching ends,
  equal starts, partial overlaps, pairs and halves of pairs.  `MCFrameSets`:
  chains, a cycle, a missing and a bad parent.  `BlockSize` 2 (256 in the code):
  three events are a full and a partial block.  `MaxDepth` is 255 and
  `MaskDepths` 32 as in the code, and not reached.
* `viewer`: `MaxInputs` 4 in a run, loads included: one to set a cache up, two
  to change what it is keyed by in different panels, one to look.  `MCUses`
  splits the inputs into seven sets, of which a run uses one; each has the
  inputs that can disturb each other, and `Crossing` one of every panel.
  Four traces: nested spans with a run of thin ones, samples with frames, a
  single instant, and spans four deep of which three are too short to be seen.
  `TrackWidth` 40 pixels, so that the thin spans merge; `BlockSize` 2; two places
  for the mouse in each direction.  `MaxDepth` 3 (255 in the code) and
  `MaskDepths` 2 (32): the fourth trace reaches both, and without either
  exception `PictureIsWhole` fails there.

The counters `requests`, `loads` and `drops` are cut by these bounds in the
guards of `ExecuteAsync`, `BeginLoad`, `ChooseFile` and `OpenArgument`;
`Times` bounds the clock of `NativeMemory` and `MaxHeaps` its `CreateHeap`.
Nothing else in the modules is bounded.  Only `native_memory` uses symmetry, of
blocks and of addresses: they are only compared, and its properties are
invariants.

### Fairness

* Every thread runs: weak fairness of the steps of the query, index and loader
  threads, of the destructor, of the frame loop.  They are operating-system
  threads that wait only in joins and for the connection's mutex.
* A statement need not stop: `StepRow` and `StepStop` have no fairness.  Only
  `StepInterrupted` has, because SQLite calls the progress handler every 1000
  instructions.
* Parsing ends: weak fairness of the loader thread includes `ParseReturns`; a
  file is finite.
* The user owes nothing: no fairness for calls, clicks, drops or window events.
  `LoadIsCollected` therefore excepts a window that stays minimised.
* `TraceFile` and `Viewer` state no fairness and have safety properties only.

## Proofs

`tlapm` checks all theorems for every value of the constants, from the named
assumptions in the modules only: `RowLimit`, `NumIndexes`, `BlockSize` and
`MaxDepth` positive, `MaskDepths` and bounds natural, indexes, times and threads
positive numbers; the scalars of a document are tokens of a scalar with numbers
that are whole (`DocumentAssumption`), and what another reader adds has the
fields of an event or a frame, with whole times, and is a sample only with phase
`P` (`ReaderAssumption`).  The events of `Viewer`'s traces have such fields and
times (`TracesAssumption`).

**QueryDb.**  The announced result can be shown current only together with
where the thread is.  `DbInv` is the conjunction of

* `TypeOK`;
* `FlagsFollowThread`: `running` is exactly "the thread has not reached
  `clearRunning`'s end", and a working thread is not `done`;
* `ResultIsCurrent`: the thread works on the newest request and
  `async_result_` is that request's from `Publish` on;
* `HandlerOnlyInQuery`;
* `LoadIsAlone`: past a join the joined thread is gone, and nothing is shown,
  so the UI cannot start another;
* `RowsFollowTables`, `RowsOfOneTrace`: rows read so far are of the tables
  there are.

`DbInv` is inductive (one step per action).  From it follow
`AnnouncedResultIsCurrent`, `ResultsAreOfOneTrace`, `LoadWorksAlone`,
`HandlerIsRemoved`, and `ImplementsAsyncQuery`: under the refinement mapping
`ExecuteAsync` is `Ask`, `SetDone` is `Answer`, `TakeResult` is `Take` and all
else stutters.  That a load which joins a finished query does not take away its
answer, and that `ClearRunning` is invisible, is what the mapping needs
`FlagsFollowThread` for.

**StatsPanel.**  `PanelUsesDb` proves that the tabs call the database only as it
may be called, so `DbInv` and all that follows hold with the panel on top.
`OneTaker` alone is not inductive: a tab that polls would take an answer that
another one could already show.  `PanelInv` adds `AnswersAreOld`: while a result
is being made or waits to be taken, no tab shows it.  With `DbInv`'s "a result
on offer is the newest request's" this gives `ResultsAreTakenOnce` and
`SoleAskerSeesItsAnswer`.

**Tracer.**  `TracerInv` ties the file to the thread inside the mutex:
`OneWrites` (one thread is past the lock, and holds it), and `FileGrows`: a head,
records at even places, separators at odd ones; the length is even, or the file
has its head only and `first_event_` is set, unless the thread inside has
printed its separator and not yet its record.  `Printed` says once what
`Append` does to such a file.  `TraceStaysWellFormed` is proved of the whole of
`TraceFile`, whose other actions leave the tracer alone.

**TraceParser.**  A callback sees one state, one key and two counts, and must know
from them where in the document it is.  `PlaceInv` says what the open containers
can be and what the handler holds for them: what lies in what (`Nesting`); what is
skipped, and what lies inside a member of `args`, reaches to the top of the stack
(`Inward`), so that a count is enough; the state, the key and the count are the
ones of the innermost container (`StateIn`, `KeyIn`); and where the skipping ends
the state to return to is the one of the container around it (`WayBack`), which
one variable can hold because of `Inward`.  There is one lemma per callback, for
one container opened or closed.  `PlaceIsKnown` follows.

`ReadInv` compares what was gathered with what the document says: events and
frames so far are equal one by one, an event under construction is what the
document has of it up to its `args`, which the handler keeps apart (`SameEvent`),
a frame's names are its own, and the points of all counters are as many as the
numbers in `args` that followed a `ph` (`SameNumbers`, `SameModel`).
`ReadIsFaithful` is this at every token.

**TraceIndex.**  These theorems are about functions of data and not about steps,
and the data are of any size.  The library's induction theorems cannot be used
(see below), so each recursive function gets what it needs from two lemmas of
set theory: `UpTo`, that a set with 0 which is closed under "next, up to n" has
all of 0 to n; and `FoldExists`, that a fold is a function with the equation it
is defined by.  On these rest what a sort returns, what pairing and nesting leave
alone, and:

* `FoundIsAll`: halving and then scanning finds exactly the events that touch a
  window, for blocks of any size and any order by start.  The blocks carry the
  latest end of all blocks up to them, so these ends never fall; halving keeps
  "every block before is over" (`LeftBehind`), and a scan that stops at a late
  block leaves only later ones.
* `FramesResolved`: after the walks a frame is valid exactly if its parents are
  known and valid up to a root.  `Good` says that of a frame by its own walk,
  `GoodStep` that it is good if it is valid and its parent good, and what the
  walks have seen is closed under parents and marked by `Good` (`Marks`): so a
  walk that meets a frame seen before may take over its mark, and one that comes
  round is of frames none of which is good (`RoundIsBad`).

**Pairing and nesting.**  `IndexLies` says of `build_index` what
`NestingIsContainment` says of an index.  The code finds parents with two stacks and
comparisons of ends; the property speaks of all earlier spans.  What joins them is
an invariant of each loop, for one thread, in terms of functions of the events
(times, lengths, tracks):

* Pairing (`PairStep`).  The open `B` events of a track rise in the order in which
  they were read; of two that are read one after the other, the first is over
  when the second starts, or the second lies in it and was opened in it or in one
  further inside (`Inside`, `Apart`); what is still open has no end yet.  As many
  are open as are not ended (`PairCounted`), so in a thread where every `B` has
  its `E` none is left.  Pairing alone thus gives that `B` spans never partly
  overlap each other.
* Nesting (`NestStep`).  Spans come in order by start and then by length
  (`Ahead`).  Each span met so far that lasts is on the stack of its track, or is
  over, or one that stands on the stack outlives it and started no earlier than it
  (`HeldIn`, `Outlived`): so the last span that covers the next one is still
  there, and all above it do not reach over it (`InnerFound`).  Therefore the top
  of the stack after popping is the innermost span around an event.  For a `B` the
  code may take the `B` open around it instead; where no spans partly overlap that
  is the same span, or one that is less deep than the top (`ParentIsInner`).
* Parents are ahead of their children (`Belongs`), so the walk up is shorter than
  the thread and ends (`ParentsEnd`).
* Self times.  Children of one parent that last do not overlap (`SiblingsApart`),
  and they are taken in order of their start.  What the steps keep (`SelfHolds`) is that
  a parent has left at least the time from the end of its last child so far to its
  own end (`RoomLeft`); the next child lies in that time (`ChildFits`), so the
  code's `max(0, ...)` never cuts, and each step takes from the sum of the self times
  what the child keeps for its own subtree (`Untaken`, `SelfTaken`).  At the end the
  sum is that of the roots (`SelfAdds`).
* Self times and other threads change neither times nor parents
  (`SubtractedIs`, `NestedTouches`, `OthersStay`), and self times of other
  threads stay (`SubtractedSelf`), so the threads add up (`EventsNest`).

For a `B` in a thread with partly overlapping spans nothing is proved of which span
is its parent, because the property is false there (see above); that the walk ends
is.

**TraceFile.**  The first two theorems hold in every state only if what is indexed has
the form they ask for.  `WritesInv` and `FilledInv` are that form, of the tracer's
records and of the reader's model.  With them `NothingIsLost` states
`IndexLosesNothing` of the specification, for all three sources of events, and
`StackedInv`, that the frames of an index are the frames that were read, resolved,
gives `StacksHold`.  `StackedInv` must say it of an index that was built again
after the symbol resolver had named its frames (`Rebuild`): frames that are
resolved already keep their marks, because the marks of good frames are what the
walks would find.

`NestingIsTrue` is `NestingIsContainment` of the specification.  `IndexLies` asks
that a sample is always a point: a `Sample` that is a `B` would be paired and then
not nested.  `NestedInv` carries this through the parser: an event under
construction is `Measured`, also while its `args` are read or a value in it is
skipped, and `finish_event` makes a `Sample` of a `P` only (`Kinds`, one lemma per
callback); and it holds of an index, which is what `Rebuild` starts from.

`SelfTimesAreTrue` is `SelfTimesAddUp`, from the same invariant.  Both sums are
taken along the thread's spans, so that two spans of the same length count twice.
A span with a negative length, which a trace may name, has self time 0
(`trace_model.cpp:94`) and counts as none on the other side too: with its
own length there the equation would be false.

`ScopesAreNested` is `ScopesNest`, from the clock of the tracer to the index built
from its file.  `RecordsLie` is the invariant of the writing side.  Of the records
in the file it says that of two scopes of a thread the one that began first either
was over when the other began or holds it, and that it holds it only if the scope
the other was opened in (`inside`) began no earlier than it and is in the file
(`SitsIn`).  That is not inductive for the file alone, since a record is written
after its scope ended and the mutex may be taken by another thread in between:
`Lively` says the same of the scopes still open and of the record a call holds,
and that no identity is used twice.  It is kept only while the program runs; after
`close` nothing is added to the file, whatever threads still see in `enabled_`.
On the reading side `FileRead` follows the file's tokens through the callbacks to
one event for each record, with its phase, times and thread (`Tells`), and
`PlainNests` says what indexing makes of events that are all X or C: their
times are kept, and each lies in the innermost X around it.  `ShownAre` joins the
two: where the scopes of a thread last and differ in their times, what is innermost
around a record is the record of the scope it was opened in, and without that record
nothing is around it.

**ViewState.**  `ClampMovesOnly` is a theorem about one operator, for all traces
and views: clamping keeps the width, a view that fits lands inside the margins,
a wider one holds the trace.

**Viewer.**  `ListsStayCurrent` is `ListsAreCurrent` for all traces, pixels and
inputs.  The three lists are kept, each by a key of its own, while the panels
before them move the selection and those after them the filters.  `ListsInv` says
what a list holds at any moment, current or not: the search rows are those of the
results, one of each name if they are to be unique (`RowsOf`); the instances are
all events of the name that is kept, and that name is the one of the event that
was selected last (`RowsOfName`, `NamedLast`); the trees are those of the scope
that the cache's key stands for (`FlameHolds`, `ScopeKept`).  Two more parts, of a
frame without input, say that the last event is the selected one and the scope
that of the view.  There are lemmas per panel: the timeline, the details and the
filters leave the results alone (`Keeps`), a list's own inputs keep what it holds,
and a sort returns each row once (`Enumerates`).  What a tree consists of plays no
part: that two builds from the same scope agree is enough.

`JumpsAreShown` is `JumpShowsEvent`, an action property of two frames.  `AskedInv`
is what the first leaves to the second: the timeline forgets what it has scrolled
to, so after it nothing is asked for (`Quiet`); a panel drawn later that asks for
an event selects it and makes the view hold it (`HoldsChoice`, `NavigateAsks`); the
panels after that one neither select nor move the view in the same frame, because
one frame has one input (`Led`, one lemma per panel); a frame without room for the
tracks keeps the request and the view; and a load selects nothing,
so that a request which outlives it is not for the selection (`LoadedAsks`).  For
the second frame, the layout must have room for the row.  An event lies no deeper
than the deepest event of its track (`Tracked`, from the index: what has a depth is
listed in the order of its thread); tracks are laid out one below the other, each
once, from the scroll position on (`Layout`, `Placed`, by the steps of the two
loops); so the row lies inside the content, and the limits of the scroll position
do not move it out of sight (`RowInSight`).

**FileLoader.**  `LoaderInv` ties `loading` and `finished` to the thread
(`FlagsFollowLoad`) and the model, the tables and the outcome to its position
(`ProgressOfLoad`).  It gives `LoadIsCompleteOrNothing` and
`ImplementsLoadService`, the safety part of the refinement.

**App.**  `AppInv` adds that selection and cache are of the trace on show
(`PanelsFollowTrace`), and the types (`AppTypesHold`).  `AppUsesLoader` proves that the application satisfies
`LoaderSpec`, so the theorems about the loader hold in the application.
`ShownTraceIsWhole`, `PanelsAreFresh` and `CloseAfterLoader` follow.

**NativeMemory.**  `MemoryInv` compares the replay with the process at every
step, on three levels:

* `ProcessInv`, of the process alone: one live block per address, live blocks
  in existing heaps, deaths after births, a move's two blocks;
* `ReplayInv`, whatever is lost: an allocation is the block the process
  allocated (`SameBlock`); a recorded live block is still active
  (`LiveIsActive`); open heaps have no end, one handle each, and only that
  handle's allocations (`ActiveIsOpen`, `HeapsApart`); no end, of an allocation
  or of its heap, is earlier than the death (`FreedIsDead`, `DeadByHeapEnd`);
* `GapInv`, while `complete` holds: active allocations are exactly the recorded
  live blocks, ends are the deaths, nothing since the start is missing
  (`ExactSoFar`); and while nothing was lost or excused, `complete` does hold
  (`NoGapYet`).

`LiveIsCounted` and `KnownIsExact` speak of the time after the import only and
say nothing of the state before; the invariant carries what they need.  The
records that change allocations all have one shape, `Edits`: some active
allocations are released, some leave `active`, some are new.  `HeapRecord` and
`HeapRecordExact` prove that shape sound and exact once, and each kind of
record is an instance; `Create` and `Destroy`, which end heaps, have lemmas of
their own.  `HeapsApart` is needed only with two handles and so only by the
proof.

**Model-checked only.**

* Liveness, which is out of the prover's reach: `CancelEndsQuery`, `JoinsEnd`,
  `CancelSettlesTab`, `ShutdownEnds`, `LoadIsCollected`, and the fairness part of
  `KeepsLoadPromise`.
* `DetailsMatchSelection`, `PanelsAgree`, `FlameFits` and `PictureIsWhole` of
  `viewer`: the panels' sums are over sets of rows, and what a walk returns is a
  sequence that only induction over its steps describes.

## Disagreements found

* `querydb_truncation`: a result of exactly 10000 rows is called truncated
  (`query_db.cpp:315`, and `:252`).
* `querydb_index_lost`: a query cancelled while indexes are built can interrupt
  `CREATE INDEX`, whose return code is not looked at; the index is missing
  while `indexing_` says the work is done.
* `querydb_schema_freeze`: the schema browser waits on the UI thread for the
  background query's current step.
* `stats_misdelivery`: a tab can take another tab's result.
* `app_stale_scroll`: a scroll target set in the last frame before a load is
  used in the first frame of the next trace.
* `native_memory_false_gap`: a moving realloc whose old address another thread
  gets before the summary is written makes the whole capture uncertain, with a
  warning that records are missing.

Four more were met and have no run of their own:

* `detail_panel.cpp:497` says "Collect all descendants of the selected event".
  After a click on a child's row or on Parent, `ev` is still the event before
  when the call stack's cache is filled for the new one (`:493-516`), so the
  Call Stack tab shows the descendants of the event before until another one is
  selected.  `FollowStack` of `Details` has it; `DetailsMatchSelection` says
  nothing of them.
* `README.md:223` says "Slices narrower than 1px merged into thin lines
  per-depth", and `timeline_view.cpp:189` "extend merge runs for all depths".
  Slices at depth 32 and deeper, in a block that is thinner than two pixels, are
  drawn nowhere: the mask of the block has no bit for them (`block_index.h:40`,
  `timeline_view.cpp:190`).  This is the exception `Unmasked` of `PictureIsWhole`.
* In a track with 256 depths `num_depths` is 0 (`timeline_view.cpp:153`): the runs
  are read without having been reset, and the loop under "Flush remaining active
  merge runs" (`:305`) draws none of them.  Thin slices of such a track are drawn,
  if at all, by chance.  This is the exception `Uncounted`; in the run `viewer`
  both are needed.
* `timeline_view.cpp:532` says "Minimum range: 1 ns"; it holds for the wheel,
  and the zoom key (`:600`) has no minimum.

Where the behaviour is odd but nothing says otherwise, the model has it and no
run is about it.

* Database and application: a statement that fails is reported as ok
  (`StepStop`), a file chosen during a load is forgotten (`ForgetPending`), a
  second file replaces the first (`ChooseFile`).
* View and timeline: bounds stay when the new trace has no length; a pending
  scroll target and a drag survive a load, and tracks are laid out for the old
  trace until the first frame is drawn; zooming to the range may leave the
  trace; samples and instants of a hidden category are drawn and cannot be
  clicked.
* Panels: selecting an event without duration leaves the children of the one
  before; a check box shows one frame of old rows; the instances' cursor stays
  where it was when another event of the name is selected elsewhere, and the
  search's when "unique" is toggled; the flame graph's choice of a tree is kept
  by index; range statistics count lasting events of any phase, the flame graph
  only spans.
* Trace index: depth stops at 255, where the search for the longest child wraps to 0;
  partial overlaps belong to neither; a
  `B` without its `E` may lead to a cycle of parents, which `build_call_stack`
  would follow for ever.
* Parser: an array in `traceEvents` is taken for its end; null, boolean and
  nested values in `args` take the other keys with them.

## Not modelled

Drawing, colours and labels, SQL, the text of JSON and the binary formats,
symbol resolution, the settings file: no state that outlives the call.  Within
modelled components: the order of most tables, counters and flows on the
timeline, the thread filter of the flame graph (it hides list entries only), the
hash of the hidden sets (taken as exact), the key of a stack function, for which
name and category stand, the time unit of the parser, the exception of an id
that starts with `0x` and is no hex number (it ends the load as `Throws` does), the
times of a memory profile in the trace's range, and what the schema browser's
`execute()` returns to its popup.  The memory, source and diagnostics panels, the
managed replays and the browser's loader are not modelled yet.  `PROJECT.json`
names every component with its status.

## Plan

In this order, the first ones carrying most of the program's own logic:

1. `ManagedGc`, `ManagedMethods`: the other replays, in the way of
   `NativeMemory`: the garbage collector as an external process, survival and
   moves as records, an end claimed only when the records prove it; proofs.
2. `MemoryIndex`: the rest of it, with totals against the plain sum, overflow,
   block skipping and the birth filter, and the memory panel on top of it.
3. `WasmLoader`: the chunked loader as a second implementation of
   `LoadService`.
4. `StatsPanel` composed with `App`: results that outlive their trace.
5. Proofs: the managed replay.
