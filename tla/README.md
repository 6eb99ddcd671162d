# Verification of the Hall C Analyzer

TLA+ models of the Hall C event analyzer (the replay and online program of
Jefferson Lab's Hall C, in Fortran and C), checked by TLC on small instances and,
for several components, proved with TLAPS for every value of their constants.

The analyzer reads the events of a data acquisition run from a CODA file, sorts
them by type, reconstructs the physics events and sums the hardware scalers that
they are normalized to. What is done with each event, and what can be asked of the
program while it runs, is not compiled in: the CTP package reads setup files with
parameters, test expressions and histograms, compiles them and executes them. Most of
the 120,000 lines are numerical code that maps one event to its results. What can go
wrong over a *sequence* of events and commands is elsewhere, and is modelled here: the
event file, its searches and its byte swapping; the filter that decides which intervals
of a run can be trusted; the loop of the engine, which sorts events by what earlier
events said of them; the scaler sums; the remote calls that an event display makes to a
running engine; the segments of a run and the decoding of its raw words to hits; and of
CTP the registry of variables, the parameter lines, the compiler and the stack machine of
the test expressions, the reading of setup files, and the life of the blocks that are
booked, executed and loaded again.

1. [Inventory](#1-inventory)
2. [Modules](#2-modules)
3. [How the models correspond to the code](#3-how-the-models-correspond-to-the-code)
4. [Runs](#4-runs)
5. [Fairness](#5-fairness)
6. [Proofs](#6-proofs)
7. [Disagreements with comments and documents](#7-disagreements-with-comments-and-documents)
8. [What is left out](#8-what-is-left-out)
9. [Plan](#9-plan)

To check a run: `tlc -config X.cfg M`, with the module and configuration of
section 4. To check the proofs: `tlapm EvioProofs.tla`, and so on.

## 1. Inventory

| component | code | state | operations | talks to |
|---|---|---|---|---|
| CODA event I/O | `CODA/evio.c` | per handle: block buffer, position in it, words left, block and event number | `evOpen evWrite evFlush evRead evGetNewBuffer evClose` | files, and pipes whose other end is another program |
| CODA searches and byte order | `CODA/evio.c`, `CODA/swap_util.c` | where the last event was found, words left in the block; the stack of containers of an event | `evOpenSearch evSearch evSearchWithinBlock copySingleEvent`, `swapped_memcpy` | files |
| Synchronization filter | `SYNCFILTER/syncfilter.c` | `really_big_buffer`, `endpointer`, `outofsync`, segment and handle, three sets of counters | one loop over events: hold, pass on under a flag, count | evio at both ends; the engine obeys its flag events |
| Engine event loops | `ENGINE/engine.f`, `g_get_next_event.f`, `g_write_event.f`, `g_examine_*.f` | counts by type, totals, `insync`, `syncfilter_on`, `ave_current_bcm`, `skip_events`, the scaler sums | one iteration of the loop, a different one for each type of event | evio, decoding, reconstruction, scalers, RPC |
| Scaler sums | `ENGINE/g_analyze_scaler_bank.f`, `g_analyze_scalers_by_banks.f`, `g_scaler_reset_event.f` | per channel: last value, rollovers, lost counts, `gscaler`, `gscaler_change` | a reading, an event without the channel, reset | hardware counters, engine |
| Segmented input | `ENGINE/g_get_next_event.f`, `g_open_source.f` | segment number, data source opened | open, read, switch | evio |
| CTP remote procedure calls | `CTP/daVarRpcProc.c`, `daVarServ.c`, `thClient.c`, `daVarRpc.x`, `ONEEV/revdis_getev.f` | server: the list of pending requests, `rpc_pend`, `rpc_control`; client: `pending_arg`, `pending_flag`, `callback_result` | request, callback, service of calls, timeout | two programs over TCP |
| CTP variable registry | `CTP/daVarRegister.c`, `daVarHashLib.c`, `daVarHandlers.c`, `thParm.c`, `thUtils.c` | a hash table from names to variables, their memory, the position of the last parameter line | register, look up, list, read, write; set, extend and redeclare by parameter lines | everything below, RPC |
| CTP test expressions | `CTP/thTestParse.c`, `thTestExecute.c` | operator and type stacks, what the last token was, the code; the machine's stack | compile a line, execute a block, evaluate at once | registry |
| CTP setup files | `CTP/thLoad.c`, `thUtils.c` | the stack of open files, the array of group names, titles and groups | load, include, register a block | registry |
| CTP tests and histograms | `CTP/thGroup.c`, `thTest.c`, `thHist.c`, `thHandlers.c`, `ENGINE/g_keep_results.f` | the blocks and their lists, flags and scalers, histogram identifiers and definitions, the bins last asked for | book, execute, count, fill, clear, read | registry, expressions, HBOOK |
| CTP gethits, reports | `CTP/thGethit.c`, `thReport.c` | of a gethit block its compiled lines, which outlive an event | book, find and copy hits; format text | registry, hit lists |
| CTP trees | `CTP/thTree.c`, `thRootStuff.cpp` | ROOT files | book, fill, close | ROOT |
| Registration code | `CTP/makereg*.c` | that of a line | translate include files to calls | registry |
| Raw data decoding | `ENGINE/g_decode_event_by_banks.f`, `g_decode_fb_bank.f`, `g_decode_fb_detector.f`, `g_decode_config.f`, `g_decode_clear.f` | the tables of the map file; hit lists of the detectors, never cleared | read the map; walk through banks and words, store hits | engine |
| Results and ntuples | `ENGINE/g_keep_results.f`, `*_ntuple_*.f`, `UTILSUBS/g_io_control.f` | logical units, open ntuples, events in each | open, keep, change, close | HBOOK |
| Track reconstruction | `HTRACKING STRACKING BTRACKING TRACKING` | that of one event | fits, clusters, optics | decoding |
| SANE, SEM, F1 detectors | `SANE SEM F1TRIGGER` | that of one event | as above | decoding |
| Event display, online | `ONEEV ONLINE` | pictures | draw, ask the engine for an event | RPC |
| Utilities | `UTILSUBS PORT HACK INCLUDE` | common blocks | strings, bits, hooks | all |

**What is hard.** The engine is one thread, but it is seldom alone. The filter and
the engine run at once, joined by a pipe, so the reader sees the writer's blocks
one by one, can outlive it, and must be told the end. An event spans blocks, and
every limit (the caller's buffer, a block, `really_big_buffer`, a register of 32
bits) meets it at an off-by-one. The engine's verdict on an event depends on the
last flag and the last reading that came *before* it in the file, while both are
about intervals that end *after* it: the filter exists to put them in the right
order. A dozen ways through the loop keep ten counters that are meant to add up.
The RPC client and the server both block, each can give up on the other, and the
answer of one call arrives during another. In CTP the difficulty is state that outlives
what it was for: statics that stay from one line, block or search to the next, pointers
to arrays that have moved, lists and identifiers of a block that was loaded again.

**What makes each component correct.** *Event I/O*: a reader gets the events that
were written, whole, in order, each once, and is told the end only at the end.
*Searches*: they return, with the event that was asked for and every byte in its place,
or because there is none. *Filter*: nothing held is lost or doubled; the flag an event is
passed under tells the truth about its interval. *Engine*: each event read is accounted
for once; the limits of the run control hold; each reading goes to one sum. *Filter and
engine*: no suspect event is analyzed; the events analyzed and the charge they are
normalized to are those of the same intervals, and each reading is in the sum that its
interval deserves. *Scalers*: sums follow the hardware
through rollovers and clears. *RPC*: the answer is that of the first event that passes
the test, comes once and in time; neither program waits for the other for ever.
*Registry*: a name finds the variable it was registered with; a value that was given is
the value that is read, whatever the array has gone through since. *Expressions*: a line
that is accepted computes what it says. *Setup files*: including a file is the same as
having its lines. *Tests and histograms*: scalers and histograms hold what the present
definition makes of the events since it was booked. *Segments*: the engine
sees their events in order, each once. *Decoding*: each word becomes a hit of the
counter that the map file says, no header or report does, lists are sorted and fit their
arrays. *Gethits*: a variable holds what its title asks of this event's hits.

`PROJECT.json` lists the hazards line by line, with the properties that watch them.

## 2. Modules

| module | models | builds on |
|---|---|---|
| `EventQueue` | what the event file promises: a queue whose last events are lost if the writer dies | |
| `EvFile` | `CODA/evio.c`: blocks, headers, a writer and a reader | refines `EventQueue` |
| `EvioProofs` | proofs about `EvFile` and `EvSearch` | `EvFile`, `EvSearch` |
| `EvSwap` | `CODA/swap_util.c`: the walk through the banks of an event | |
| `EvSearch` | the searches of `CODA/evio.c` over the blocks of a file | |
| `SyncFilter` | `SYNCFILTER/syncfilter.c`, the whole program | |
| `Engine` | both loops of `ENGINE/engine.f` | |
| `EngineProofs` | proofs about `Engine` | `Engine` |
| `FilteredReplay` | filter and engine joined by an event file | `SyncFilter`, instance of `Engine` |
| `FilteredReplayProofs` | proofs about `SyncFilter`, and about the two together | `FilteredReplay` |
| `Scaler` | a scaler channel: hardware, reading, sums | |
| `ScalerProofs` | proofs about `Scaler` | `Scaler` |
| `RpcCallback` | an RPC client and the engine as its server | |
| `RpcCallbackProofs` | proofs about the server of `RpcCallback` | `RpcCallback` |
| `Bindings` | what the registry promises: a name is bound once, for ever, to a variable of its own | |
| `DaVar` | the hash table, registration, parameter lines, remote reads and writes | refines `Bindings` |
| `DaVarProofs` | the proof of that refinement, that values are kept and that answers are right | `DaVar` |
| `TestExpr` | the compiler and the stack machine of test expressions | |
| `CtpLoad` | `thLoad`: files, includes, blocks, groups | |
| `CtpBlocks` | tests and histograms: booking, execution, clearing, loading again | |
| `CtpProofs` | proofs about `CtpBlocks` and `CtpLoad` | `CtpBlocks`, `CtpLoad` |
| `Segments` | opening a run, and going from segment to segment | |
| `Decoder` | the map file, the walk through the banks of an event, the hit lists | |
| `Gethit` | gethit blocks: booking, booking again, execution | |
| `EventPath` | the way of an event from its file to the variables of CTP | `Decoder`, instances of `Segments` and `Gethit` |
| `EventPathProofs` | proofs about `Decoder`, `Segments`, `Gethit` and the way through them | `EventPath` |
| `MC...` | values of constants for TLC, and in `MCTestExpr` and `MCEvSearch` a reference definition that the algorithm is compared with | the module they name |

Each module has its properties at the end. Operators marked *Slip* are not part of
the specification: each is a plausible error in the definition that follows it,
kept to show that the property it is paired with in `PROJECT.json` notices it.

## 3. How the models correspond to the code

`PROJECT.json` maps every definition to its lines. The correspondence in general:

**EvFile.** `written` to `file` are the writer's `EVFILE` structure and the blocks it
has passed to `fwrite`; `rstate` to `results` are the reader's. A word is modelled by
the event it belongs to and its offset, so that a length can be read from the wrong
place, as in the code. `evWrite` is its entry; each iteration of its loop is
`evWriteRest` (the rest fits) or `evWriteFill` (the block is filled and flushed).
`evRead` begins a read, `evReadPart` is an iteration that needs another block,
`evReadReturn` the last one; `evGetNewBuffer` and `evGetNewBufferEof` are that
function's two outcomes, called when `rleft <= 0` (`NeedsBlock`). The interleaving of
the two programs is between iterations, the only places where blocks change hands.
`WriterDies` is the death of the writer's process between two of its steps; the
reader of a pipe then sees the end of the file.

**SyncFilter.** `OpenFirst`, `SwitchSegment` and `EndOfInput` are `GetNextEvent` when it
does more than read. Each action on an event is an iteration of `main`'s loop, with
all that it writes: `HoldGo`, `Hold` and `HoldEnd` append to the buffer,
`SyncAfterProblem` and `SyncInStep` are the two ways in which a synchronization event
empties it, `Overflow` is `appendevent`'s `exit`, `FlushRest` and `Close` the end of
`main`. `problems()` scans the words of an event for two codes in the data of a ROC;
it is modelled by the number of the ROC that has one, since only ROCs 1 to 4 are
looked at. Events are numbered by their place in the input.

**Engine.** An action is an iteration of a loop, with everything it changes; its
guard is the conjunction of the conditions on the way to it. `RunInfo` is the first
loop. `ScalerEvent` decodes the banks of a scaler event (`Reading`), updates the beam
current and sorts the reading into the sums (`SortReading`). The ways of a trigger
event are `SkipBeforeScaler`, `SkipDisabled`, `SkipBadSync`, `SkipLowCurrent`,
`SkipToStart` and `Analyze`; other events are `OtherEvent` and `ControlEvent`. Sums are
modelled by the set of the readings that were added to them. `phase` tells which
loop runs; `LoopEnds` is the condition at its end.

**FilteredReplay.** The engine reads the sequence `out` that the filter passes to
`evWrite`. That the events arrive whole, once and in this order is
`EvFile!QueueSpec`, which is proved; after an `exit` without `evClose` the last ones
may not arrive, as the words that evio has not flushed are lost (`EvFile!FlushedSurvive`
says what is not), and the engine may find the end anywhere. So
`OverflowWithholdsOneInterval` speaks of what was handed to `evWrite`, and not of what
reaches the file. The specification takes `Engine` by `INSTANCE`, with the flag events
added to its events. `NumberAt` finds the number under which a reading is in the sums:
it counts back from the last one.

**Scaler.** `Tick` and `Clear` are the hardware, and external. `Read` is one pass of the
loop in `g_analyze_scaler_bank` over the channel, `ReadOthers` a scaler event in which
no bank has it, both with the sort of the change into `gscaler_saved` or
`gscaler_skipped` in `engine.f`. `Signed` is the conversion of the 32 bits to an
`integer*4`; a difference of two of these that does not fit is a choice of both
outcomes of the comparison (`MayExceed`), as the overflow is undefined.

**RpcCallback.** The client is the event display (`ONEEV/revdis_getev.f`), which opens a
port, calls `thGetList_test` and closes the port. `Call` to `WaitEnds` are the phases of
that call; `Serve(k)` is `svc_getreqset` serving *k* callbacks before `pending_flag` is
looked at again. The server is the check of `engine.f` after each event: `Analyze`
is all that happens up to it, `ServeCalls`, `ServeWrite` and `ServeNothing` are what
`thservone` can do, `WaitsOn`, `CallsBack` and `CalledBack` an iteration of the loop in
`daVarCallBack` (the callback is a call of its own, during which the client runs),
and `ScanEnds` is its return and the condition to block again. Timeouts are choices:
time passes without a bound between any two steps. The connection is TCP, so calls
are neither repeated nor reordered; what is lost is lost because the port is closed.

**EvSearch, EvSwap.** A file is a sequence of events, each with its number, where it begins
and how many words it has (`FileWritten`). `evOpenSearch` looks at the last block only. `evSearch`
sets the range of the bisection from where the last event was found, `Probe` is one turn
of its loop: `evFindEventBlockNum` goes to the next block with the beginning of an event
that passes for a physics event, `Within` is `evSearchWithinBlock`, `copySingleEvent` the
copy of an event over several blocks. `left` is `a->left`, which outlives a call and
decides where a type is read (`TypeMisread`); what is read there is a choice (`g`). A
found event is swapped: `MCEvSearch` gives each event a tree of banks, and
`swapped_memcpy` is the walk of `swap_util.c` in half words, with
its stack of containers, its header and its data states.

**DaVar.** `chains` and `names` are the hash table, the structures numbered in the order
of their creation; `var` is the rest of `daVarStruct`, `heap` the memory it points to, in
blocks that are never given out again so that a use of a freed one shows; `pv` is the
globals `thParmVar...` that a continuation line goes on from. `regvar` is a call of
`regint` and its like, before any parameter is read; `thParmLineSet` a line with a name
(`ParmLine`), without (`ContinuationLine`) or with a number for a name; `thSpecial` the
lines `#integer`, `#real`; `daVarReadVar`, `daVarWriteVar` and `daVarList` a request of a
client. A value is twice the number, so that halves exist and conversions round. `meant`
is a history variable: what was given last to each element. What the C code does with
memory it does not own sets `undefined`, and the model claims nothing after it.

**TestExpr.** A line is a sequence of tokens; the step `PushOperand`, `Operator`,
`UnmatchedParen` or `EndLine` is one turn of `thBookaTest`'s loop with the pops of the
operator stack it leads to (`Reduced`). An operand that is missing after a `+` is 0. `lasttoktype` and `lastop` are the statics of
`thGetTok`, which no line resets. `typstack` is the stack of types, which can be popped
below its bottom. The code is that of `thTestParse.c`, instruction by instruction; an
`Exec...` step is one case of the switch in `thExecuteCode`, the operands on the stack
carrying the type they were pushed with, so that a pop of another kind shows
(`ExecUndefined`). A job is a list of lines of one block with expressions for
`thEvalImed` between them.

**CtpLoad.** `stack` is `thFdListP`, `mode` where `thLoad` and `getblock` are: looking for a
`begin` (`Scan...`), inside a block (`Body...`), or with a complete block (`Register`).
`groups` is the static array of group names, `titles` and `lists` what `Register` leaves in
the registry. Reading a line when no file is open is `crashed`.

**CtpBlocks.** `Load` is `thLoad` for one block, `thBookGroup` the booking of the next block
that is not booked, by the hook of its class, `Booked` the end of `thBook`.
`ExecuteTests`, `IncrementScalers` and `ExecuteHists` are the calls that
`g_keep_results` makes for an event, in this order (`phase`). The clears are the
routines `thtstclrg`, `thtstclsg` and `thhstclrg`, of which the engine calls the first two
at its start (`g_initialize.f:381-382`); `thHistRHandler` is a client that reads a
histogram. `hvar` is the variable `hist.NAME` with the identifier and the compiled
definition, `specs` the opaque pointer of the block to its list, which can dangle.
`dueS` and `dueH` are history: what scalers and histograms should hold, computed from the
titles; `taken` has the lines of a block whose source or test was registered when it was
booked. A test line with a source that is not is compiled all the same, with the number 0
for the source, after its result was registered and cleared (`WithZero`). `shared` has the names that two blocks define at a time, of which nothing is
claimed. HBOOK is external: a set of identifiers with their entries.

**Segments.** A file is the sequence of its events and the name of a run is its last
character, which decides whether segments are tried (`TriesSegments`). `g_open_source` has
the three ways of opening, `ReadEvent`, `NextSegment` and `NoMore` are the ways through
`g_get_next_event`: any error ends a segment, the next one is opened and read from at
once, and an error there ends the run.

**Decoder.** `Map` is `g_decode_config` over the lines of the map file, with the tables by
slot and channel and what a line leaves for the next (`BSUB`, `MODULE`, ...). A word is a
record of its fields. `NextBank` to `LastBank` are `g_decode_event_by_banks`; `BankWord` is
a turn of the loop in `g_decode_fb_bank`, which finds the detector of a word or skips it;
`SkipReport`, `SkipHeader`, `DetectorWord` are turns of the loop in
`g_decode_fb_detector`, which has its own idea of the word's channel. `BankSubadd` and
`DetectorSubadd` are the two, and whether they agree is what `DecodeEnds` watches.
`StoreHit` is the search from the end of the list, the shift of the hits behind and the
store. Each word of the model says which ROC it really came from (`of`), which only the
properties look at; they compare the lists with the wiring that the map file describes.

**Gethit.** `Load`, `Book` and `Booked` are as in `CtpBlocks`; `thBookGethits` goes through
the lines of a block, of which a refused one may have created its variables; a setting behind
the first line that asks for a hit is `Late`, and the line after it can end the program
(`phase` is `"crashed"`). `Execute` is
`thExecuteaGethitBlock` for all booked blocks: it looks for a hit with the coordinates of
each line, resets or sets the test, and copies the value of the first such hit, converted to
the type of the variable (`Store`); a flag is stored as an integer whatever the variable is
(`SetFlag`). `due` is history: what the titles have asked of the hits of the events
(`AskedBy`), by the lines of the titles and the hits in `given` alone.

**EventPath.** One thread: the source is opened (`engine.f:454`) before `g_initialize`
books the blocks (592); then, for each event, it is read, cleared and decoded
(`DecodeEvent`), the hodoscope keeps the hits with good times and subtracts pedestals
(`h_strip_scin`), and the gethit blocks are executed (`KeepResults`). Of the reconstruction
only `h_strip_scin` stands between the lists and the blocks. The arrays that blocks may
name are the lists of `Decoder`, numbered from 0; `given` is what they should hold,
computed from the words of the event alone.

## 4. Runs

Twelve runs; the one that expects a violation is a finding (section 7).

| run | module, config | properties | states |
|---|---|---|---|
| `evfile` | `EvFile`, `EvFile.cfg` | `OnlyLastBlockShort EndIsComplete FlushedSurvive`, refinement `QueueSpec`, liveness `ReaderEnds` | 10,284 |
| `evsearch` | `MCEvSearch`, `EvSearch.cfg` | `FoundIsNative NotFoundIsAbsent`, liveness `SearchReturns` | 165,985 |
| `engine` | `MCEngine`, `Engine.cfg` | `Accounted RangeRespected ReadingsSorted` | 185,462 |
| `replay` | `MCFilteredReplay`, `FilteredReplay.cfg` | `CopiedOnce FlagsAreRight OrderKept OverflowWithholdsOneInterval AnalyzedAsCharged ChargeIsSound` | 1,807,998 |
| `replay_earlyend` | `MCFilteredReplay`, `FilteredReplayEarlyEnd.cfg` | `SuspectNeverAnalyzed` (violated) | |
| `scaler` | `Scaler`, `Scaler.cfg` | `RolloversRecorded SumsRight` | 872,359 |
| `rpc` | `MCRpcCallback`, `RpcCallback.cfg` | `FirstMatch WaitBounded OneAnswer NeverBlocksWaiter`, action property `BlocksOnRpc`, liveness `ClientReturns` | 757,739 |
| `davar` | `MCDaVar`, `DaVar.cfg` | `ValuesKept AnswersRight`, refinement `RegistrySpec` | 270,081 |
| `tests` | `MCTestExpr`, `TestExpr.cfg` | `ResultsAreRight CodeFits` | 323,447 |
| `ctpload` | `MCCtpLoad`, `CtpLoad.cfg` | `LoadedIsFlat GroupsInOrder` | 1,317,323 |
| `ctpblocks` | `MCCtpBlocks`, `CtpBlocks.cfg` | `ScalersCount HistogramsCount ReadsAreCurrent` | 1,685,781 |
| `decode` | `MCEventPath`, `EventPath.cfg` | `HitListsSorted AllDecoded ValuesFollowTitles SegmentsInOrder`, liveness `DecodeEnds` | 323,648 |

Bounds, and why they are enough:

- `evfile`: a block of 5 words with a header of 2 holds 3 words of data. Events are
  2, 3 and 5 words long, that is shorter than a block's data, exactly as long, and
  spanning two or three blocks; with four events an event can begin at every offset
  and end before, at and after the end of a block, and a file has up to 7 blocks. The
  reader's buffer is longer than every event (for the case that it is not, see 7).
- `evsearch`: the header has its 8 words, as the code reads the words of a header for
  those of an event; a block has 8 words of data. Up to four events of 5, 10 and 17
  words and special ones of 3 give blocks with several beginnings, one and none, also
  two in a row; event numbers have a gap or not. Two searches are a first one and one
  that starts where it ended. One event of each shape is enough for the swapper, which
  starts anew at each: banks of segments of packets, of every width, empty ones and ones
  that end together, which is as deep as the code goes.
- `engine`: six events are enough for the run information, two readings, a flag and
  an event that passes them, or for the first event to be passed over and the second
  to be the last. Readings are below, at and above the threshold, late, without the
  BCM and faulty.
- `replay`: five events are a GO event, a first reading, an event of a later interval
  and the reading (or flag) that ends it. A buffer of 7 words takes three short events, or
  one long and one short, so that the overflow is met at the first and at later intervals
  and with room for exactly the last event; there are events with a problem in a ROC that
  is looked at, in one that is not, and in a reading; readings are above, at and below the
  threshold, late and without a current. Three segments are one more than two
  `Digits` can name. `RunsAreSmall`, a constraint on the input and not on what is done
  with it, leaves out runs in segments of more than three events, and synchronizations
  by time other than the second event of a run.
- `scaler`: a register of 4 bits and `FalseClear` 4 keep the proportions of 32 bits and
  2^25 as far as the code tells them apart (`2 * MaxDelta < W`, `MaxDelta <= FalseClear`,
  both assumptions of the proof); five readings pass the range once or twice. A clear is
  held to cost no more than what is counted between two readings (`ClearCostsLittle`).
- `rpc`: two requests are one whose answer can be late and one it can be late for;
  three events and waits of 0 and 2 events give an answer at once, one that waits for
  two more events and one that the end of the run overtakes. `rpc_control` starts and
  is written at -1, 0 and 1 (which counts down to 0).
- `davar`: two chains for six names in two spellings, with and without the class, make
  names that share a chain and names of which one is the beginning of another; three
  lines are one that makes an array, one that lets it grow or turn to floats, and one
  that goes on with it, on top of up to two registrations and followed by a request.
- `tests`: every pair of 16 binary operators in both groupings, and every unary
  operator with them, over operands of the three types, among them array elements by
  either bracket, a function and nested assignments; every line of up to three of ten
  tokens with an assignment, and every `x =` with up to four more; every `n =` with up to
  five more of fifteen, both brackets among them, in which operands and operators
  alternate; assignments at the beginning of an index and of an argument; a `+` with and
  without an operand; every refused line of a few kinds before lines that are right. Integers of 8 bits keep the bit operations
  small; numbers are fractions, so no value depends on rounding.
- `ctpload`: all files of up to four lines that include, at any place, one of up to two;
  that is enough for a block to begin, be continued and be ended in either file, and for
  a second block, or a second load, to meet the first one's groups. Three files, the
  first of which includes the second and that the third, for includes that are nested.
- `ctpblocks`: two blocks of tests, two of histograms, one of user's histograms; four
  loads book each kind once and one of them again, with two events before, between or
  after.
- `decode`: two detectors, one with a single signal and one with four, lists of 3 and 2
  hits, two Fastbus ROCs with modules with and without headers, an F1 TDC, a slot that is
  not in the map. Three kinds of runs, of which each gives one part all its cases: every
  first event of a few kinds before every event of up to three words in one slot and two
  in another, with reports of errors at any place, two linked banks, overflows and headers
  of the TDC; two events with three loads of blocks of two lines each, before, between and
  after, with lines that are refused; and runs of 1, 3, 12 and 102 segments, with empty
  and missing ones and events that are too long, under names that end in a letter, in 0
  and in another digit. 12 and 102 pass 9, 10 and 99.

Runs, loads and requests come to an end in most of these systems, which is no deadlock
(`CHECK_DEADLOCK FALSE`, with a comment in the configuration); that they stop only when
they should is what the liveness properties say. `EvSearch`, `TestExpr` and `CtpLoad`
have a `Done` step where they may stop, and TLC checks that they stop nowhere else.

## 5. Fairness

- `EvFile!FairSpec`: weak fairness of an `evWrite` once it has begun, and of the reader.
  Both are loops that only `fwrite` and `fread` can hold up, and the reader's caller
  reads until a status that is not success; on a pipe a read waits for the writer.
  Nothing makes the writer write another event, close the file or die; the property
  starts when it has closed the file or died.
- `EvSearch!SearchFairness`: weak fairness of the turns of the search, a loop of one thread over
  a file on disk. Nobody has to call it. `SearchReturns` excludes files in which a block
  has no beginning of a physics event, over which it may turn for ever (section 7).
- `RpcCallback!FairSpec`: weak fairness of the client once it is in a call, as
  `clnt_call` and `select` return at the latest when their time is up (25 s for a
  call, `max_time_wait` + 10 s for the wait); and of the server, whose loop goes on by
  itself except in `thservone(-1)`. Nobody has to make a request or to write a variable.

- `EventPath!PathSpec`: weak fairness of the decoding, two nested loops of one thread
  over the words of an event in memory. Nothing is assumed of the reading of events.

The other modules are sequential programs without a liveness property.

## 6. Proofs

| theorem | says | for |
|---|---|---|
| `EvioProofs!TypeCorrect` | `Spec => []TypeOK` | any block size, buffer, lengths, number of events |
| `EvioProofs!FullBlocks` | `Spec => []OnlyLastBlockShort` | the same |
| `EvioProofs!CompleteAtEnd` | `Spec => []EndIsComplete` | the same |
| `EvioProofs!FlushedAreRead` | `Spec => []FlushedSurvive` | the same |
| `EvioProofs!ImplementsQueue` | `Fits => (Spec => QueueSpec)` | every event shorter than the reader's buffer (`Fits`) |
| `EvioProofs!AbsentIfNotFound` | `SearchSpec => []NotFoundIsAbsent` | any files, size of the blocks and searches; events one after another, physics events numbered in order (`SearchParameters`) |
| `EvioProofs!WholeWhenFound` | `SearchSpec => []FoundIsWhole` | the same |
| `FilteredReplayProofs!TypeCorrect` | `Spec => []TypeInv` | any input, size of the buffer and number of segments |
| `FilteredReplayProofs!EveryEventOnce` | `Spec => []CopiedOnce` | the same |
| `FilteredReplayProofs!FlagsTellTheTruth` | `Spec => []FlagsAreRight` | the same |
| `FilteredReplayProofs!OneIntervalWithheld` | `Spec => []OverflowWithholdsOneInterval` | the same |
| `FilteredReplayProofs!OrderIsKept` | `Spec => []OrderKept` | the same |
| `FilteredReplayProofs!AnalyzedIsAsCharged` | `ReplaySpec => []AnalyzedAsCharged` | the same, any enabled types and threshold, data not filtered before (`ReplayAssumption`) |
| `FilteredReplayProofs!ChargeIsOfSoundIntervals` | `ReplaySpec => []ChargeIsSound` | the same |
| `FilteredReplayProofs!FilterIsFree` | `ReplaySpec => Spec` | the same |
| `EngineProofs!TypeCorrect` | `Spec => []TypeOK` | any set of events, enabled types, threshold and run control |
| `EngineProofs!AllAccounted` | `Spec => []Accounted` | the same |
| `EngineProofs!EachReadingSorted` | `Spec => []ReadingsSorted` | the same |
| `EngineProofs!RangeKept` | `Spec => []RangeRespected` | the same |
| `ScalerProofs!TypeCorrect` | `Spec => []TypeOK` | a register of any even range |
| `ScalerProofs!RolloversFollowed` | `Timely => (Spec => []RolloversRecorded)` | the same, read often enough (`Timely`) |
| `ScalerProofs!SumsAlwaysAddUp` | `Spec => []SumsAddUp` | the same, without `Timely` |
| `ScalerProofs!ClearsCorrected` | `Corrected => (Spec => []SumsRight)` | the same, with the correction on and a channel that counts between two readings (`Corrected`) |
| `RpcCallbackProofs!NeverBlocksWaiterHolds` | `Spec => []NeverBlocksWaiter` | any number of requests and events, any waits and values of `rpc_control` |
| `RpcCallbackProofs!FirstMatchHolds` | `Spec => []FirstMatch` | the same |
| `RpcCallbackProofs!WaitBoundedHolds` | `Spec => []WaitBounded` | the same |
| `RpcCallbackProofs!BlocksOnRpcHolds` | `Spec => BlocksOnRpc` | the same |
| `RpcCallbackProofs!OneAnswerHolds` | `Spec => []OneAnswer` | the same |
| `DaVarProofs!ImplementsRegistry` | `Spec => RegistrySpec` | any names, hash function, number of chains, registrations, lines and requests |
| `DaVarProofs!ValuesAreKept` | `Spec => []ValuesKept` | the same |
| `DaVarProofs!AnswersAreRight` | `Spec => []AnswersRight` | the same |
| `CtpProofs!BlocksInvariant` | `Spec => []IInv` | any blocks, titles and inputs of tests |
| `CtpProofs!ReadsCurrent` | `Spec => []ReadsAreCurrent` | the same |
| `CtpProofs!ScalersAsTitled` | `Spec => []ScalersCount` | the same |
| `CtpProofs!HistogramsAsTitled` | `Spec => []HistogramsCount` | the same |
| `CtpProofs!TitlesAsWritten` | `LoadSpec => []LoadedIsFlat` | any files that do not include themselves (`FilesAssumption`), loaded in any order |
| `CtpProofs!GroupsAsNamed` | `LoadSpec => []GroupsInOrder` | the same, begin lines with fewer names than the array has room for (`GroupsAssumption`) |
| `EventPathProofs!TypeCorrect` | `Spec => []TypeInv` | any map file, detectors, sizes of lists and events |
| `EventPathProofs!ListsSorted` | `Spec => []HitListsSorted` | the same |
| `EventPathProofs!MapIsTrue` | `TrueMap => Slots(Map, Channels) /\ Tables(Map, Channels)` | any map file that keeps the rules (`TrueMap`) |
| `EventPathProofs!WordsDecoded` | `Spec => []AllDecoded` | the same, events that keep theirs (`TrueEvent`) |
| `EventPathProofs!PathIsDecoding` | `PathSpec => Spec` (of `Decoder`) | any map file, events, runs, blocks and titles |
| `EventPathProofs!PathListsSorted` | `PathSpec => []HitListsSorted` | the same |
| `EventPathProofs!PathWordsDecoded` | `PathSpec => []AllDecoded` | the same, under `TrueMap` and `TrueEvent` |
| `EventPathProofs!AllSegmentsInOrder` | `PathSpec => []SegmentsInOrder` | any runs, in which a file is a sequence of events (`EventPathAssumption`) |
| `EventPathProofs!TitlesFollowed` | `PathSpec => []ValuesFollowTitles` | any map, events, runs and blocks, under `TrueMap`, `TrueEvent` and `TrueTitles` |

The type invariants are proved and not run. The theorems rest on the named assumptions
about the constants in each module (`SizesAssumption` etc.), on the library theorems
about sequences, finite sets and well-founded relations, and on nothing else.

**The event file.** Its properties are not inductive: that the reader gets event *n*
whole says nothing of where it is in the block. The invariant, of `TypeOK`, `WriterInv`,
`TilingInv`, `FileInv`, `ClosedInv` and `ReaderInv`, relates everything to one *stream*,
the data words of all blocks laid end to end. `begin[n]` is where event *n* begins in it
(a history variable); `StreamPos(i, k)` is where word *k* of block *i* lies when the
blocks before it are full. `InPlace` says that every word of a block is the one that
belongs at its position; `TilingInv` that events follow each other without a gap and
that the writer is where the last one has got to; `FileInv` that every block but the
last of a closed file is full and numbered; `ReaderInv` that the reader's position is
that of the next word it owes to its caller. Two words of one event at one position are
the same word (`PositionUnique`), so the word the reader takes for a length *is* the
length of the next event (`ExpectedWord`), and what it copies is the event. The proof
goes through the writer first (`WriterStep`), which does not depend on the reader, then
through the reader given the writer (`ReaderStep`). `ImplementsQueue` maps `file`,
`results` and the writer's state to `EventQueue`; `evWrite` maps to `Send`,
`evReadReturn` to `Deliver`, the statuses to `Finish`, and all else to stutters.

`FlushedAreRead` is about a writer that died: the reader is told the end exactly when its
next event has a word missing in the file. An event is whole when its last word is in a
block (`Whole`); as the stream has no gaps, the whole events are the first ones, up to
where the reader has stopped (`SurviveInv`). Nothing is written or read after that.

**The searches.** `AbsentIfNotFound` says that the bisection passes no block by in which
the event begins. The invariant `SearchInv` has four parts: the end of the search is the last block and
no physics event has a higher number than `evOpenSearch` returned; what the last call
left, `found_bk` and `found_evn`, is true of the file; while a search goes on, the event
begins in no block outside `start .. end`; and after a search that failed the file has no
such event. As physics events are numbered in order, blocks are too (`BlocksAre`,
`PhysicsOrder`), and one comparison with the first physics event of a block decides about all
blocks on one side, which is why it does not matter how far away from the middle
`evFindEventBlockNum` found a block, nor that it may lie outside the range. Each of
the conditions of `NotFoundIsAbsent` has its place in the proof: `EndIsKnown` in
`OpenStep`, a type that was misread in `FirstIsPhysics`, an event that did not fit
in `ProbeIs`. `WholeWhenFound` is about the words: `ReadOnIs` works out the loop of
`copySingleEvent` over the blocks, by induction over its turns, and `CopyIs` joins what it
copies with the part in the first block. That the swapped copy is right too
(`FoundIsNative`, of which `FoundIsWhole` is the first half) is model-checked.

**The filter.** The invariant is `IInv`. `HeldInv` says that what is held is a tail of
the input without gaps (up to the last event read, or the one before it if the filter has
stopped); `CopiedInv` that the output has the events before it, each once; `IntervalInv`
what makes the flags right: no synchronization event is held; while the filter reads,
the event before the first held one is a synchronization event; `outofsync` is set
exactly when an event that is held has a problem; an END event is the last one held;
and the last flag is that of a run in step. `FlagsAreRight` is itself a part of the
invariant. The proof is in lemmas about sequences of copies and flags, first that copies
of different events can be put together (`CopiesConcat`) and that a flag is in force up
to the next one (`UnderKept`, `UnderQuiet`, `UnderFlag`, `RightFlag`, `RightBlock`), then
that the interval of an event that was passed on does not change as the input goes on
(`PastIsPast`, `OneInterval`); then there is one lemma for each kind of step.

`OrderIsKept` looks at two copies in the output at a time (`Before`). What is appended at
a step is put together of parts, each in order and each after what was there (`Ordered`,
`Within`): the event that ends an interval, the events that were held, or one after the
other. That a scaler event may overtake the events of its own interval and no others
follows from where `HeldInv` says that the held ones are.

**Filter and engine.** `AnalyzedAsCharged` relates the engine's results to the readings of
the original run, of which neither program knows more than what has passed. The invariant
`ReplayInv` is in two halves. `OutputInv` adds to what is proved of the filter that a flag
lies between a synchronization event and whatever is under OUTSYNC after it (`Fenced`), and
that no synchronization event is lost. `EngineInv(S)` knows nothing of the filter: it is
about an engine that has read the first events of any sequence `S`. `StartInv` and
`InsyncInv` say that `insync` is the last flag, or 0 if that came before the GO event,
when the main loop does not look at flags yet; so the first INSYNC of the file switches the
filter on and sets nothing, and an OUTSYNC before the GO event is missed.
`ReadingInv` says that the last reading with a current is in force and its charge counted;
`ResultsInv` that nothing was analyzed under an OUTSYNC after the GO event, nor without
the charge of the last reading being counted; `KeptInv` that what was due was analyzed.
There is one lemma for each way through the loop (`ProcessCases` has five). The filter
appends to the sequence that the engine reads, which changes nothing of what was read
(`SameEvents`).

At the end the two halves are put together in one state: by `Ordered`, the last
reading before an event in the output is the one that ends its interval in the run
(`ReadingComesFirst`), a first GO event and reading come before it too
(`FirstReadingRead`), the reading is as suspect as the events (`ReadingIsSuspect`), and
under the right flags the engine is in step when it reads it (`InStepThere`). `Fenced` is what an
event of a suspect interval needs: the OUTSYNC over it came after the GO event, so the engine
has seen it (`ResultNotSuspect`).

`ChargeIsSound` is about the sums themselves. A reading has no name in them but the number of
readings before it, so `SumsInv` finds it by counting back from the last one (`Later`), which
every event changes by one on both sides or not at all. It says of each reading that follows a
first one: read in step, it is in the sum that its current and its length deserve; read out of
step, it is skipped and charges nothing (`SummedAs`). A reading of a sound interval is read in
step (`InStepThere`), and one of a suspect interval out of step, because the OUTSYNC before it is
the last flag (`OutOfStepThere`).

**The engine.** `AllAccounted` needs no invariant beyond the types of the totals: every
iteration changes them by one event on both sides or not at all (`StepOfTotals`).
`EachReadingSorted` needs that nothing is summed before the main loop begins, and that
the filter cannot be switched on in the main loop; only a scaler event reads
(`OnlyScalerEventReads`). `RangeKept` needs that the loop ends in the iteration in which
the last event is analyzed (`Beam < StoppingEvent` while it goes on), and that an event
is analyzed only after `StartingEvent` others.

**The scaler.** `RolloversRecorded` is inductive together with what relates the register
to the counts (`AfterFirst`): it has rolled over at most once since it was last read,
and `gscaler_nroll` is right up to that. The code takes a value for a rollover when it
is below the *sum* since the first event. `Timely` is exactly what makes this right: the
counts before the first reading and those between two readings are together less than
the range.

With random clears the register no longer says what was counted. `Corrected` sets no limit
to the number of clears; `ClearInv` says, up to half the range, that the last value and
the values before the clears that were seen add up to the sum (`Summed`), that the register
is the last value and what came since, or was cleared and has only what came since
(`InStep`), and that what is missing is at most what is counted between two readings for
every clear (`Loss`). A clear that was not yet read is one that is paid for at the next
reading; a value that falls is taken for a clear and never for a rollover (`FallIsClear`).
That the two sums of the engine add up (`AddUpInv`) needs none of this.

**The requests.** What the client does reaches the server only through `calls`, so the
invariant `ServerInv` is about the server alone. An entry says how long it has waited
only together with the place that the scan has got to: one that `daVarCallBack` has seen
at this event (`Seen`) has counted it, the others have not, and removing an entry moves
the unseen ones up to where the scan is (`RemoveAtElements`). With that, `ListInv` says
that what is left of an entry's wait is `max_event_wait` less the events since the
request, none of which has passed: `WaitBounded` and `FirstMatch` follow, the latter
through `SentInv`. `BlockInv` says that `pending` is the number of entries passed over and
that between two checks `rpc_pend` is 0 exactly when the list is empty, which is why a
result of 0 at the end of a scan means that nobody waits (`ResultEmpty`);
`NeverBlocksWaiter` and `BlocksOnRpc` follow.

`OneAnswer` counts the places where a request is. `OnceInv` says instead that no two calls,
no two entries and no two callbacks are for the same request, and that each request is at
one of the three stages - or at two, while its client is being called back and the entry
waits to be removed. The numbers follow at the end, each set having one element or none.

**The registry.** `RegistrySpec` says of a lookup that it finds, for ever, the structure that
the name was bound to, which no other name finds. This does not follow from what it says:
a lookup returns the *first* entry of a chain that has the name, so an entry put at the
head could hide another. `RegistryInv` adds that the entries of a chain are structures
that exist, and that no two entries of the same chain have the same name up to case.
`FindHit`, `FindMiss` and `FindRange` say what a lookup returns under it, `AddOne` that
registering keeps it; `BindStep` that registering a name changes the bindings of its
spellings, from none to the new structure, and of no other (`FindIs`), and `OnlyBind`
that no other operation touches chains or names.

**The values of the variables.** That a value is still there says nothing of where the next
one goes. `MemoryInv` adds to `ValuesKept` that every block has the type and the elements that
its one structure says (`Held`), that an index for which a value was given is one of the
variable's (`Means`), and what the globals that a line leaves are good for (`Continues`): they
point to the structure and the block where a line without a name goes on, and `cursor` is the
element that it sets, or both are past the end of an array that cannot grow (`Follows`); or
the array was declared anew since, and its old block was freed, so that the next value is an
error (`Lost`); or the variable is a text. Before the first line nothing points anywhere, which is why the
program must register its variables before (`lines = 0`).

A line that gives values stores them one by one, and any of them may move the array: when it
is full (`Grow`), and when a fraction makes it one of floats (`ToFloat`). `Fill(s, t, args, i)`
says what `i` values have made of the state `s`: no other variable is touched, the elements from
the index on have the values, those below have what they had. It is kept by each of
`Store`, `Grow` and `ToFloat` (`StoreFill`, `GrowFill`, `FloatFill`), the last two by one
lemma about a variable that gets a new block (`MoveFill`), hence by a value (`NextFill`), hence
by a line (`SetNumbersFill`). This last step is an induction on the number of values: `SetNumbers`
is a recursive function over `0 .. Len(args)`, whose equation follows from the
well-foundedness of the naturals (`FilledNext`, by the least number for which it would fail).
`MeaningFill` compares what the line has done with what it means. The other operations give a
variable a new block, or write into the block of one (`HeldMove`, `HeldNew`, `HeldWrite`). For a
client's write the search for the attribute has to come to the variable with the longest
name that the path begins with (`AddressedIs`); it starts from the shortest.

**What a client is answered.** `MemoryInv` has every value in its place, and `RatrIs` that
`daVarRegRatr` reads it from there; the variable is the right one by `AddressedIs`, as for a
write. Of a list it has to be known that the walk comes to every structure and to none twice,
which the registry does not need: `Placed` says that a structure is in the chain of its name
and in no other. The walk is then followed entry by entry (`AmongNext`), chain by chain
(`ChainWalked`): what is in the list so far is each structure that matches in the chains
before and in the entries so far, once (`Each`). An answer is about the present values, as a
line that changes them clears it and nothing is registered after the first request
(`AnswersInv`).

**The setup files.** `LoadedIsFlat` compares what `thLoad` registers, line by line and with a
stack of open files, with what a reader makes of the flat text. The invariant `LoadInv`
splits the text of the file that is being loaded in two: `c`, what was read, and `t`,
what is `Ahead` in the open files, from the current line of each to its end (`ReadingInv`).
The block that is open, or was just completed, is what a reader of `c` has open (`Reading`), and
the titles are those of the blocks he has read (`TitlesAre`). A line moves from `t` to `c`
(`LineRead`); an include line replaces itself in `t` by the text of the file, which changes nothing
(`FileIncluded`); the end of a file takes the empty rest of it from `t` (`FileClosed`).
`Spliced`, `Flat`, `Reading` and `BlocksOf` are recursive functions on the
numbers up to a length, and are unfolded by `Recursion` and `SameRecursion`, which the induction over
the naturals of the library gives. `FilesAssumption` says that no file
includes itself: without it the text has no end, and `thLoad` does not return.

`GroupsInOrder` is about an array that is kept from block to block. `Begun` says that it has,
from the begin line of a block to its registration, just the names of this line up to the
first null pointer, if every `group` has its `=`. That follows from the scan of the tokens, by
induction over them (`ScannedSoFar`): the first `ig` names are those given so far, and none is null;
what the array had before is behind the null that the end of the scan puts at `ig`. `GroupsAre` says
of each list that it has the blocks put in the group so far, in the order of their first
time (`HasInOrder`), and `ListNext` that one block more keeps it so: a block that is in the
list stays where it is, and one that is not comes after all that are. `GroupsAssumption` stands for
the `realloc` of the array (520-527), which the model has at its full size.

**Tests and histograms.** What the properties say of a flag or a histogram depends on the
title of its block, on what the other blocks have registered before and on every event since.
`IInv` has four parts. `Structure` says what booking leaves: a booked block is in the list of
its class; its code and its list of results are those that its title gives, as far as the
sources were registered when it was booked, and read flags that exist (`TestsBooked`); the
identifiers of histograms are different and none is above the last one given (`NumbersOK`); the
lists of blocks name histograms that exist (`SpecsOK`). `TestInv` says that a name that two
booked blocks give is in `shared` (`FlagsApart`), so that the flag of any other name is written by
one block only, and that its scaler is what is due (`ScalersDue`). `HistInv` is the same of
histograms: the lists of two blocks have no name in common that is not shared (`HistsApart`), a
booked block has the names and the tests of its title (`HistsBooked`), and one whose names nobody
shares has its histograms in HBOOK (`InHbook`), since booking deletes those of its own
list only. `CacheOK` says that what the server keeps of the last histogram
is about the identifier that it has now, which is `ReadsAreCurrent`. The steps that run
through lists (`BookedTests`, `RunBlocks`, ...) are recursive functions, followed as `SetNumbers` is
above.

**The segments.** `SegmentsInOrder` is about the end of a run. While a segment is open,
`OpenInv` says that the segments before it were all there, that the open file is that of its
number (the name that is built for it is that of the segment, `NameOfSegment`, up to 99), and
that the engine has seen all they can give and a prefix of what the open one can give
(`SegmentsInv`). `ReadableIs` and `CanReadNext` say where a file ends for the engine;
`FlattenNext` that one segment more is appended to what the others gave. At each of the
three ways to the end - no next file, a next one that gives nothing, the hundredth - the
segments up to there are those that are `Used` (`UsedAre`).

**The decoding.** `SortedInv` says that of two hits of a list the first comes before the
second by plane and counter, or is of the same counter where a counter may have several.
It is inductive with the types, but only by what the search from the end of the list
finds (`PlaceDivides`): the hits behind the place come later than the new one, the hit at
it does not, and since hits are ordered linearly (`OrderIsLinear`) none up to it does
(`BeforePlace`). So making room there keeps the order (`InsertKeeps`), and storing a
signal with a hit, even with another counter's when there is no room, does not touch it
(`SignalKeeps`). `WalkInv` says that the walk stays within the words of the bank, for
which `EventsAssumption` is needed: the code believes the lengths that a front end sends.
The theorems are about `Decoder` alone; `PathIsDecoding` says that the whole path takes no other
steps with its variables, since what the segments give is an event (`PathStepDecodes`), so that
they hold of the path as well.

`AllDecoded` compares the lists with the lines of the map file, of which the decoder only has
the tables. That the tables say what the lines say (`MapIsTrue`) is an induction over the lines:
`Slots` says that each slot that has a channel so far has its own range of entries and that the
ranges are apart and below the next free entry, `Tables` that an entry is that of the line with its
channel. It needs that a slot has one `NSUB` and that its channels are below it: the code does
not check, and a channel beyond writes into the entries of the next slot. Then what the decoder makes
of a word of a true event is what the lines make of it (`EntryIsWire`, `DataWord`).

`WordsInv` is the invariant of the walk. `PartInv` says which part of a bank is being walked
through and that `roc` is its ROC. `SlotInv` is about `oslot`, by which a word is
taken for a header or not: it is the slot of a word before, since which no data of another slot
have come, or of the present word when the detector before has looked at it and left it.
`DoneInv` is `AllDecoded` for the words up to the cursor (`Holds`). A step moves the cursor over
a report, a header or a skipped word, which are nobody's (`WordsPassed`), or over one that
is stored, which is one word more for its detector and none for the others (`WordStored`,
`SignalStored`, `OthersKept`). For a list of single signals the proof carries the map from
hits to words along with the insertion; for one of several signals, a new counter always finds
room, as the list has each counter once and no more counters are wired than it has room
for (a pigeonhole argument with the cardinalities of the library).

`TrueMap` and `TrueEvent` are in `Decoder`, in terms of the lines of the map and of the banks,
and the run checks that its map and its events keep them (`MCTrue`). Most of what they exclude
makes the property false: data beyond the table of their slot, data that look like a report or
like a header, and a header that follows data of the same slot *number* of another ROC, which is
taken for data; a report of three words that lies across the end of a part; a map with more counters
than the arrays of their detector, whose signals go to other counters.

**The variables of the gethit blocks.** `ValuesFollowTitles` joins all of the path. Its invariant is
that of the decoding, and two more. `ScinInv` says that after the last bank the arrays of the
hodoscope hold the hits of its list with good times, in their order (`Stripped`, by induction over
the list), and that they do so until the blocks are executed. `GroupInv` is about the blocks: variables
of both classes have different names (`VarsOK`), which the order of the searches in `thVarResolve`
ensures; a booked block has the arrays of its title and a line for each that is well formed,
with the coordinates, the variable and the test of that line (`Settled`, `Listed`), which still
exist and are long enough, since variables only grow (`Grown`) when other blocks are booked; and
each value asked for so far is in the one variable of its name (`Agree`). Booking is followed line
by line (`BookStep`), execution too (`LineExecuted`). What connects the two is
`HitsAgree`: the first `nhits` entries of the arrays are the hits that the words of the event
give, in the order of their places, so that the first entry that matches is the first
hit that the title asks for (`FoundIs`). For the wires it comes from `EveryWordStored`, with an
argument about cardinalities for the words that found no room (`KeptIs`); for the
hodoscope from `EverySignalStored` and `ScinInv`.

`TrueTitles` excludes what makes it false, and the run checks that its titles keep it
(`MCTrue`): a setting behind the first line that asks for a hit (which is not looked at, and loses the end
of the list: `Crashes`), a title without number of hits or values (section 7), and a test
that names a variable with real values (section 7).

**Model-checked only.** Liveness and everything that depends on fairness, which is beyond
the prover. The byte order in `FoundIsNative` of `MCEvSearch`, and `ResultsAreRight` of
`MCTestExpr`: they compare an algorithm with a recursive definition over
trees or streams, and the prover has no `RECURSIVE` operators; induction is at
hand for recursive *functions* over numbers only, as for `SetNumbers` and `Reading` above.
`CodeFits` of `TestExpr` is not proved yet (section 9).

## 7. Disagreements with comments and documents

One is shown by a run (`findings` in `PROJECT.json`):

- `syncfilter.c:235` (`replay_earlyend`): suspect data of the last interval of a run without
  END event are passed on under a flag at which the engine analyzes them, where the comment
  at 8-9 has "all data back to the previous sync" suspect.

The others were met while modelling. The models do what the code does; where a property
has to exclude one of these cases, its comment says so.

*Event file and searches.*

- `evio.c:399`: an event exactly as long as the caller's buffer is reported truncated
  (the test is `nleft < buflen`, on the length with its length word), though it was
  delivered whole; `evfile.msg:31` speaks of an event truncated. `Fits` in the proofs is
  `<` for this reason.
- `evio.c:458`: the end of a properly closed file is reported as `UNXPTDEOF` when the last
  event fills its block; `evfile.msg:39` calls that an unexpected end. No event is lost
  (`EndIsComplete`).
- `evio.c:760`: a block without the beginning of an event ends a search with "return 1"
  when it is the last of the range, and otherwise can be looked at for ever.
  `SearchReturns` excludes it.
- `evio.c:1036`: `S_EVFILE_TRUNC` is positive, so that an event that is found and too long
  is "not found"; an event within a block is copied without regard to the buffer's length;
  the last block counts as 0 if it has special events only.
- `evio.c:1145`: `evGetEventType` looks at `a->left == 1`, which is what an earlier call
  left there.
- `swap_util.c`: of 64-bit data each half is swapped and the halves are not exchanged;
  events of an outer type other than 0x10 are left one word short; an unknown data type
  makes the walk loop.

*Filter, engine, scalers.*

- `syncfilter.c:95`: `infileext[1]++` runs past `'9'` after ten segments, so that a run of
  more is ended early, where the engine (`g_get_next_event.f:100`) handles two digits.
- `syncfilter.c:251`: after a run in segments without END event, `evClose` is called with
  a handle that is null or freed before the output is closed.
- `engine.f:887`: with the preprocessor on, a scaler event is written twice (828, 885).
- `engine.f:905`: events of types above 3 are analyzed before the first scaler reading;
  the comment at 1073 says that nothing is.
- `engine.f:869`: an event without a channel adds the last change of that channel to the
  sums once more.
- `g_analyze_scaler_bank.f:231`: a rollover is missed when the first reading is so high
  that the sum since then stays below the register.
- `g_analyze_scaler_bank.f:323` counts a current equal to the threshold as beam
  (`.ge.`), `gen_scalers.cmn:87-90` says "exceeded", and `engine.f:867` skips at `.le.`
- `g_analyze_scaler_bank.f:191`: the comment "Really saying < 2**31" is true but for 0.
- `g_analyze_scaler_bank.f:209`: the difference of a value just below and one just above
  2**31 overflows an `integer*4`; a clear there passes for a rollover (`SumsRight`
  excludes it).

*Segments and decoding.*

- `g_open_source.f:106` tests `.le.'0' .or. .ge.'9'` where 104-105 say "If filename doesn't
  end in a digit": names that end in 0 and 9 are tried with segments as well.
- `g_get_next_event.f:81-121`: any error, also that of an event that is too long, silently
  ends a segment; a new one whose first read fails ends the run but stays open.
- `g_decode_fb_detector.f:458`: with a full list of a detector with several signals, the
  signal of a counter that finds no room is stored with another counter's hit, or before
  the array, where 378 says "Don't overwrite arrays".
- `g_decode_fb_detector.f:339`: the test `subadd .lt. 255` is always true, though 242-243
  say of the header of an 1881 or 1876 that it "will have a subaddress of '7F' and later
  be discarded".
- `g_decode_fb_bank.f:360`: `lastslot` is not reset for the second of two ROCs, so that a
  header in the slot where the first has ended becomes a hit
  (`g_decode_fb_detector.f:240-242`: "must be discarded").
- The channel of a slot that is not in the map is the lowest 7 bits of the word, as
  `g_decode_clear` never sets `g_decode_subaddbit`; the comment at 328-333 says channel 16.
- `roc.ge.G_DECODE_MAXSLOTS` compares with the wrong limit; a channel beyond the `NSUB` of
  its slot reads the entries of the next slot; a report `DCAA` that is cut off at the end of
  the first of two banks would keep the loop over the banks from ending.

*Remote calls.*

- `thClient.c:588`: a client that has given up a request takes its late callback for the
  answer to the next one, and returns 0.
- `daVarRpcProc.c:398,408`: each callback connects to the client twice and closes one
  connection. The `_svc` wrappers (189, 254) pass on an uninitialized `clnt`; the model
  takes the dispatch of the classic `rpcgen -b`, which passes the request.

*Registry and parameter lines.* A negative index passes the check of a write's size if the
values reach the array, and for a text of Fortran always; the
flag `READONLY` is never looked at; `x =` without values makes an array of size 1 of no
memory; a line that goes on after a string parameter follows a null pointer, one that goes
on after a refused line goes on with the variable before; a dynamic array of doubles grows
in the branch for floats; a redeclaration with `#double` or `#string` writes through a
pointer that is not set; pointers that compiled tests keep go stale when an array moves;
the statuses for too many values and for an illegal conversion are exchanged for floats;
`daVarAttributeFind` leaves the name cut off at "("; wildcards alone are case-sensitive; an
argument that cannot be evaluated stores 0.

*Test expressions* (`thTestParse.c:720-721`: "S_SUCCESS = Line OK"). `--1`, `!!a` and
`a=b=1` are accepted and compiled to something else, as is `1 = x`; an indexed name that is
not registered leaves code that crashes; what a line with an unmatched `)` leaves in the
statics affects the next one; an index is not checked at run time (`thTestExecute.c:347`);
an assignment at the beginning of an index or of an argument is not listed among the results
(559-563; `AssignedAreListed` excludes it); where the operand after a `+` is missing, 0 is
taken for it (286, 379), and a bracket that follows indexes the number 0.

*Setup files.* `thLoad.c:557` ignores a group line without `=`, but keeps the name of the
line before; after a missing include file, or an end of file inside a block, a null file
is read; a block of another type under a known name (273) returns with its file still
open; an unknown type makes `thInitGroupOpaque` use a class that is not set; an indented
`#include` with an empty line behind it is included again.

*Tests and histograms.* A histogram that is moved to a block booked earlier loses its
HBOOK histogram when both blocks are loaded again; a histogram in two blocks is filled
twice; a new definition without a line that can be booked leaves a dangling list;
`thRemoveHists` compares bare names, so that blocks of both kinds with one name free each
other's list; `HRESET` uses the old title; `thGetHistID` has `=` for `==`; a flag of two
blocks is counted twice; executing a reloaded block before it is booked follows a null
pointer, which `thClearTestScalersV` does not check either.

*Gethits.* The missing value is parsed (`thGethit.c:47,82`) and never used; a source that a
line names (333, in the example at 54) is passed on unset; a refused match list leaves a
hole (165, 288); without a hit count (427) or a value list (341), or with a line without
colon after the first gethit line (181, 312) and another line behind it (`Crashes`), a null
pointer is followed; a destination
that is registered from Fortran is reallocated when it has to grow, and new elements have
any value until a hit is found; a test that names a variable with real values is set to the
number that the bits of the integer 1 are there (433-452, under the comment "Assume that test is
integer").

## 8. What is left out

Inside the modelled parts:

- of `evio.c`: `evIoctl`, `evWrite64`, failures of `fwrite`;
- in the engine: start-up and shutdown of the subsystems, the Monte Carlo branch, the
  remap of event types for runs 72532 to 72583, failures of the preprocessor's output;
  the event ID bank is taken to be present, the clock of a reading not to be 0, and
  reconstruction to return (its ABORT is a choice);
- in `FilteredReplay`: preprocessing, and the limits of the run control (0);
- in `Scaler`: the times and asymmetries, which are read from the sums; channels are
  independent, so one is modelled;
- in `RpcCallback`: `rpc_on` is taken to be set, without which the engine serves nobody;
  not modelled are the count of variables that could not be read, which a positive
  return value gives; other clients, but for their writes of `rpc_control`; the test
  expression, which is a choice at each event;
- in `DaVar`: writes to titles of blocks with the hooks they run (`thWHandler`), and the
  codes of a reply's status;
- in `TestExpr`: the lines of the first format, functions other than `abs`, overflow of
  integers, the limits of the stacks, rounding;
- in `CtpLoad`: the text of comments, keywords cut short, `thOBook`;
- in `CtpBlocks`: groups of blocks other than the default, `thWalkTree` and
  `thExecuteHists` from before the groups, the alias file, values and weights of fills;
- in `Segments`: the Monte Carlo sources;
- in `Decoder`: the masks of values, the banks of status and of Monte Carlo, the trigger
  bits of ROC 21, the decoders of SANE, F1TRIGGER and SEM, wrong lengths of events, and
  what a store before the first hit of a list overwrites;
- in `Gethit`: `thExecuteGethits`, which the engine does not call, a source named by a
  line, and the null pointers of titles without hit count or value list (section 7);
- in `EventPath`: the reconstruction but for `h_strip_scin`, groups other than the default.

Not modelled at all: `thReport`, which formats text; trees and ROOT output, ntuples, whose
work is done by libraries that are not in the repository; `makereg`, which translates
include files; the numerical code of the detectors and of the tracking, whose state is
that of one event and whose correctness is a matter of arithmetic with reals; graphics.

## 9. Plan

Done: the event file and its searches; filter, engine and their composition; scalers;
remote calls; the registry, test expressions, setup files, tests and histograms, gethits;
segments and decoding, and the way of an event through them; and the proofs of section 6.

To come, in the order of their importance:

1. `Ntuples`: logical units and the ntuples that are opened, cycled and closed with them;
   no unit is leaked or shared.
2. Pure algorithms against reference definitions: clusters, stubs, sorting.
3. Theorems: that `Decoder` ends, as far as it is safety: no word is left alone without
   progress, from the agreement of `BankSubadd` and `DetectorSubadd` about each word with data.
   That `CodeFits` is true of lines of any length, by an invariant that relates the pending
   operators, the types on `typstack` and what the code so far leaves on the stack; the grammar
   of the lines is in `TestExpr` (`Follows`), which has no `RECURSIVE` operator.
