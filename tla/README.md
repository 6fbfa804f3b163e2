# A TLA+ model of the Go EBML implementation

`src/impl/go` is an incremental EBML reader and writer: a push/pull parser, an
event cursor over it, a driver that owns an `io.Reader`, an assembler of Matroska
fragments and its readers (one of them for the GetMedia streams of Amazon Kinesis
Video Streams), an element tree with the tags and the registry read from it, a
writer, and two commands that print a stream. This directory models that code in
TLA+, checks the models with TLC and proves theorems about them with TLAPS. Paths
below are relative to `src/impl/go` unless they begin with `docs/`.

Contents: 1 the system, 2 the modules and the code, 3 the runs and their bounds,
4 liveness and fairness, 5 the proofs, 6 what is left out, 7 where the code and its
documentation disagree, 8 how to run it, 9 the plan.

## 1. The system

| Part | State it keeps | Operations | What makes it hard |
|---|---|---|---|
| `parser/parser.go`, `vint.go` | buffer, position, absolute offset, stack of masters, current element | Feed, Peek, ConsumeHeader, EnterMaster, LeaveMaster, CloseMaster, SkipPayload, ReadPayload, FinalizeEOF | every call may run out of bytes at any point; views alias a buffer that is trimmed and reallocated |
| `parser/cursor.go` | its own stack of open masters, the pending node and the decision on it, closes queued at the end of input, a latched error, a generation | Feed, Next, Finalize; Descend, Skip, Payload on nodes | two stacks moved by different calls; decisions carried out one call later; a Finalize with events still unreported |
| `parser/block.go`, `decode.go` | none | ParseSimpleBlock, Append; decoding of leaves | limits of VINT and delta widths, sizes that must add up |
| `stream/stream.go` | cursor, reader, drained flag | Nodes, Payload | the end of the reader, or a failure of it, may come in the middle of a Payload |
| `ext/fragment/assembler.go` | a cursor, the elements under construction, the fragment held back, a queue, the state of a recovery | Feed, Finalize, four options | a fragment is held until later metadata cannot reach it; a recovery looks for the next top-level ID across chunk borders |
| `ext/fragment/reader.go` | queue, sticky error | Fragments, Next | an error must come after the fragments before it |
| `ext/scope/scope.go` | the open masters of one scope | Observe, Finish, Current | closes what it was never told is closed, by the depth of what it is shown |
| `integrations/kvs/` | effective tags by SegmentUUID, sticky error | Next, Close, MetadataComplete, ClusterTimestamp, ParseTimestamp | metadata inherited and shared; a time that leaves int64 |
| `writer/` | frames of open masters, a size strategy each, a latched error | StartMaster, EndMaster, leaves, Flush, Close | sizes patched into nested buffers or the sink; checksums over what is not yet written |
| `tree/` | a tree of elements | Parse, Marshal, VerifyChecksum, edits | sizes measured anew but written in the width they had; verdicts that depend on what was elided or changed |
| `ext/tags/` | none; reads a tree that may still grow | Read, ReadFrom, Get, Values, All, Targets; the tree's navigation below them | a tag is in the tree before its text has arrived |
| `matroska/registry.go`, `classify.go` | own entries and names, the registry they fall back to | NewRegistry, Register, Override, lookups by ID and by name, LegalChildren, EndsUnknownSizeMaster, StreamBoundary | two maps that must name each other, along a chain of registries that goes on changing |
| `cmd/ebml/` | xml: a stack of end tags; the encoder | dump, xml | what is open must be closed after any failure, the encoder's own included; dump asks its writer for no error |
| `crc/` | none | Sum, Verify | a table |
| `internal/`, `examples/` | none | fixtures, conformance tooling, sample programs | tests |

A `Stream` feeds a `Cursor`, which calls its `Parser`; a fragment `Reader` feeds an
`Assembler`, which owns a `Cursor`; the KVS `Reader` owns a fragment `Reader`; a
`Tracker` is shown a cursor's nodes by its caller; the commands walk a `Stream`; the
cursor asks a registry what ends a master of unknown size; the tags are read from an
assembler's tree; `tree.Parse` drives a `Parser`
and `Marshal` uses the encoders of `writer`. Nothing here starts a goroutine: the
interleavings are those of calls (chunks fed, decisions taken, ends and failures of
the source, edits by the caller), all chosen by somebody else.

What each part must guarantee:

* parser and cursor: what is reported does not depend on how the input was cut; the
  two stacks name the same masters; truncation is never a clean end.
* stream: every byte of the source is reported, the iteration ends, a drained source
  never starves the cursor, and the leaf of a Payload stays valid across reads.
* assembler and readers: every complete fragment comes out once, in order, with the
  metadata that belongs to it, whatever failed after it; a failure is final; a
  recovery advances.
* scope: a scope holds what completed directly in the master, and ends where it ends.
* KVS reader: a fragment has the tags of its Segment over those of the same
  SegmentUUID before it, shared with nobody; ends are told from cuts.
* writer: the sink holds the document that was said, with every size and checksum
  over exactly what it covers, and only placeholders are ever overwritten.
* tree: Marshal after Parse gives the same bytes; after a change, a document that
  reads back as the changed tree; verdicts judge the document's bytes.
* tags: a view says what the elements linked so far state, and a value once seen does
  not change as the tree grows (but see section 7).
* registry: the two maps of a registry name each other, what it says itself comes before
  what it falls back to, a registration changes the answer for one ID only and, in the
  built-in registry, nothing.
* commands: what is printed is what was read, nested as it was; a document is closed
  after any failure; the result is how the stream ended.
* codecs: what is encoded reads back, in the fewest bytes, and a refusal is due.

## 2. The modules and the code

Bytes are abstracted in two ways. For what *reads* a stream, a document is a record
`[start, len, at]` that gives the header decoded at each offset where one begins
(`parseElementID`, `parseSize`); every offset, length and position is as in the code.
For what *writes*, a byte is a tuple naming what it is a part of (`Encode`), so that
two encodings are equal when their bytes are. `Tree` has both: its documents are
decoded from the bytes of `Encode` (`Decoded`). The readers take the
registry as the constants `KindOf` and `Boundary`, arbitrary in the theorems; `Registry`
models the thing itself.

| Module | Code | State and actions |
|---|---|---|
| `Parser` | `parser/parser.go`, `vint.go`, `errors.go` | a parser is a value `p`; each method `Op` is a pair, `OpResult(p)` (what is returned) and `Op(p)` (what is left) |
| `Cursor` | `parser/cursor.go` | `p`, `open`, `closes`, `pending`/`decision`/`held`, `err`, `finalized`, `eofRun`; one action for each way out of `next` (`NextAgain` ... `NextMalformed`, together `CursorNext`), `FeedChunk`, `FeedAfterFinalize`, `Finalize`, `Descend`, `SkipSubtree`, `SkipLeaf`, `Payload`; `events` is history |
| `CursorReference` | | the events of a whole input by recursive descent (a recursive function), without chunks, stacks or decisions carried over |
| `ParserBuffer` | `parser/parser.go`: Feed, trimBuffer, Payload views, Unconsumed | the cells of the slice, its length, capacity and `pos`; `Feed`, `ConsumeHeader`, `EnterMaster`, `Skip`, `ReadPayload`, `Payload`, `PayloadAgain`, `Restart` |
| `Stream` | `stream/stream.go` | EXTENDS `CursorReference`, with which `DeliversTheSource` compares; the loops of Nodes and Payload (`call`, `starved`) and `fill` (`FillReads`, `FillReadsNothing`, `FillFails`, `FillEnds`) |
| `Assembler` | `ext/fragment/assembler.go` | EXTENDS `Cursor`; `AsmFeed` and `AsmFinalize` begin a call, one action for each branch of the pull loop, `ScanFinds` and `ScanStarves` for a recovery, `FeedReturns`, `FeedRecovers`, `FeedFails`, `FinalizeReturns`, `FinalizeFails` |
| `AssemblerReference` | | which fragments a whole input holds, said of its list of events |
| `Delivery` | | the abstract machine of an iteration: items are made and given in order, each once, then one verdict for good |
| `FragmentReader` | `ext/fragment/reader.go` | EXTENDS `Assembler`; the steps of `next` and `fill`; `D` is `Delivery` under the refinement mapping (made: what was delivered and what is queued in either layer) |
| `Scope`, `Order` | `ext/scope/scope.go` | EXTENDS `Cursor`; the caller shows the tracker any choice of nodes: `ObserveMaster`, `ObserveLeaf`, `ObserveLeafFails`, `ObserveEnd`, `Finish`; `Order` lists a set of numbers in order |
| `Tags` | `ext/tags/tags.go`, the navigation of `tree/element.go` | a Segment's tree grows as an assembler grows it: `Attach` links an element by its header, `PayloadArrives` gives it its text; all else are operators on the tree |
| `Registry` | `matroska/registry.go`, `classify.go` | `base`, `entries`, `names` of every registry made; `NewRegistry`, `Register`, `Override`; the lookups are operators |
| `CommandLine` | `cmd/ebml/dump.go`, `xml.go` | EXTENDS `Stream`; `Open`, `AskNode`, `ShowMaster`, `ShowEnd`, `ShowHeader`, `AskValue`, `ShowValue`, `WalkEnds`, `WalkFails`, `ReadFails`, `Reading`, `Return`; xml's encoder may fail in any that emits, dump's writer may refuse any line (`ShowLine`) and nobody looks |
| `KvsReader` | `integrations/kvs/reader.go`, `kvs.go` | the fragment layer at the grain of complete elements (`Fill`), `NextFragment`, `NextFails`, `NextEnds`, `Close`, `CallerEdits` |
| `Encode`, `Writer` | `writer/` | `sink`, `off`, `open` (the frames, with their buffers), `cur`, `failure`; `StartMaster`, `LeafWith`, `EndReserved`, `EndUnknown`, `EndBuffered`, `Flush`, `Close` and their refusals; `said` is history |
| `WriterReference` | | the bytes of the document that was said, by recursion over its depth (`Encoded`), and of what masters still open have emitted (`Emitted`) |
| `Tree` | `tree/parse.go`, `marshal.go`, `checksum.go` and the edits of `element.go` | one action for each way through Parse's loop, then `AppendChild`, `ReplacePayload`, `Marshal`, `SinkFails`; elements are entries that name their parent |
| `SimpleBlock` | `parser/block.go` | a payload received byte by byte, `ReadBlock`, `Make`, `WriteBlock`; the byte has `OctetBits` bits |
| `Word`, `Ieee`, `Values` | `parser/decode.go`, `writer/encode.go`, the accessors of `tree.Element` | integers of `WordBits` bits that wrap as in Go, and IEEE 754 in few bits; `Receive`, `Elide`, `Read`, `Choose`, `Write`, `WriteFloat` |
| `Timeline` | `ext/fragment/fragment.go`, `integrations/kvs/time.go`, `putmedia.go`, `kvs.go` (ParseTimestamp) | `Stamp`, `Arrive`, `Block`, `Character`, `Parse` choose the inputs; the definitions are the arithmetic |

The proofs of a component are in a module of their own (section 5). An `MC` module gives
the constants their values; where components share no state one module puts several
side by side and a variable chooses the one at work: `MCParts` (`SimpleBlock`, `Values`,
`Timeline`, `ParserBuffer`, `Tags`, `KvsReader`), `MCConsumers` (`Scope`, `CommandLine`)
and `MCElements` (`Tree`, `Registry`).

`PROJECT.json` names, for every definition, the lines it stands for. A definition
commented *Mutant* is a plausible bug that no specification uses: put in the place
of the definition it follows it makes a property fail (`mutants` in `PROJECT.json`).

Abstractions worth knowing. Error values are told apart by their kind, their contexts
are left out. A checksum is the sequence of bytes it is taken of, so two checksums are
equal when what they cover is. A Go slice that is shared is modelled as shared where
the sharing can be seen: `ParserBuffer` (views), `KvsReader` (`maps`, the Segment tree
all its fragments show). `Assembler` runs one event at a time, because its calls return
in the middle of the loop.

## 3. The runs and their bounds

Eight runs pass; four show a property a comment states and the code does not have.
Every passing run's properties are in `PROJECT.json`, each with the mutant it catches.
Invariants that describe the same state are checked as one, named by what the part
relies on: `CursorInv` (with the types, `StackMirror`, `NoBookkeepingError`), `StreamSafe`,
`AsmInv`, `RdInv`, `SinkInv`, `ScopeInv`, `CliInv`, `KvsInv`, `TagsInv`, `TreeInv`, `RegInv`,
`BlockInv`, `ValInv`, `TimeInv` and `BufInv` are conjunctions of the type invariant and the parts the table gives in
brackets, each with a name and a comment of its own.

| Run | What it shows | Bounds, and why they suffice |
|---|---|---|
| `cursor` | `SplitInvariance`: in every chunking, under every decision and with Finalize at any point, the events are those of `CursorReference`. `CleanEOF`; `CursorInv` (`StackMirror`, `NoBookkeepingError` and the rest): what holds between any two calls | ten documents, each written for a case (boundaries, overruns, truncation, malformed headers, an "endmaster" kind), and every document of up to three elements over seven headers. Three elements make two nested masters with something in or after them: coinciding, overrun and overlapping ends all occur. 83,502 states |
| `stream` | `StreamSafe` (`NeverStarvedAtEnd`, `LeafStaysValid`), `DeliversTheSource`, `IterationEnds` over a reader that delivers any chunk, ends anywhere, and stutters or fails | the hand-written documents; one hiccup (`MaxHiccups`): a second comes in a state the first already reached. 15,309 states |
| `assembler` | `FragmentsAreTheInput`: the fragments handed over, by any chunking, are those `AssemblerReference` finds in the whole input. `AsmInv` (`OpenMirror`), `HeldBeforeOpen`, `RecoveryAdvances`, `CallsReturn`. `FailureIsFinal`: the answer of every whole call, however many steps it takes, after one that failed (`failed`, a history variable, is the first failure told) | nine streams (live, declared, two Segments, misplaced elements, damage before, in and after a fragment, false IDs, a recovery at the end) and five option sets. The IDs a recovery looks for take four bytes so that chunk borders cut them. 15,458 states |
| `fragment_reader` | `ReaderImplementsDelivery`: every behaviour is one of `Delivery` (in order, each once, the verdict last and final). `RdInv` (`NothingBetween`), `ReaderDelivers`, `AsksAreAnswered` | the same streams, three of the options, and a source that ends or fails anywhere, also with bytes in the same Read. 31,711 states |
| `writer` | `SinkInv` (`SinkIsDocument`): sink and buffers hold what `WriterReference` renders. `OpenPlaceholders`, `AppendOnly` | up to four elements at depth three, all strategies; size VINTs of one and two bytes hold sizes up to 2 and up to 14, so that payloads of 1, 11 and 15 fit, grow out of a reserved width, or exceed the largest size; the sink may fail at any byte. 880,931 states |
| `consumers` | two consumers of a cursor. `Scope`: `ScopesAreWhatWasSeen`, `ScopeInv` (`EndIsExact`), for a caller that shows the master a shown node stands in. `CommandLine`: `CliInv` (`TagsMirrorTheMasters`, `WellFormed`, `IndentedAsNested`, `SuccessIsOfTheWhole`, `ResultIsTrue`), for a reader that ends or fails anywhere, an encoder that fails at any token and a writer of dump's that refuses any line: what `ResultIsTrue` promises of dump is that each element was gone through, in order, not that each line arrived | for the tracker three documents: tracked masters nested and repeated, of unknown size at the top, and one whose declared end an element inside passes; for the commands also two that fail, an element that overruns its master and a leaf of unknown size, with and without `-max-binary`, and a reader that ends at any offset. 531,917 states |
| `elements` | `Tree`: `TreeInv` (`NestsAsDeclared`), `PrefixIsKept`, `ByteExact`, `VerdictIsTheDocuments`, `ChangedTreeReadsBack`. `Registry`: `RegInv` (`OwnNamesAreReported`, `ElementsAreWhatResolves`, `NamesInvert`, `NothingEndsEarlier`), `RegistrationIsContained` | every document of up to three elements over eleven headers (sizes wider than needed among them), whole and short of a byte, with payloads retained and elided; twelve documents with checksums and up to two changes (`MaxEdits`). Registries: chains and siblings of up to three (`MaxRegistries`), three calls (`MaxCalls`) of registrations that rename, retype, take another's name, or are invalid; a sink that takes any part of any root. 159,388 states |
| `parts` | six components that share no state, one at work in each behaviour: `SimpleBlock` (`BlockInv`: `FramesTileThePayload`, `ReadsBack`, `ReproducesCanonical`), `Values` (`ValInv`: `EncodedReadsBack`, `RoundedOnce`, `MinimalWidth`, `RefusalsAreDue`, `PaddingKeepsTheValue`), `Timeline` (`TimeInv`: `ClusterTimeInverts`, `BlocksAreWhereTheySay`, `SpanIsTrue`, `ParsedIsWhatItSays`), `ParserBuffer` (`BufInv`: `BufferIsTheInput`, `ExtentInv`; `ViewHolds`, `GarbageIsBounded`), `Tags` (`TagsInv`: `NavigationAgrees`, `ViewIsStated`; `StatedStays`), `KvsReader` (`KvsInv`: `MetadataIsTheStreams`, `NoMapIsShared`; `StreamErrorIsFinal`, `EndIsClean`) | blocks: bytes of six bits, frame sizes at the limits of one- and two-byte VINTs and deltas and of the Xiph run, payloads of eight bytes. Values: words of four two-bit bytes, every number, every second with the nanoseconds at the limits of the word, every float of eight bits (three of them fraction) and of six (two): subnormals, ties, infinities and NaNs of both kinds occur. Timeline: words of eight bits, timecodes of four, two blocks, tags of five characters over a base of three. Buffer: a threshold of three cells, chunks of 1, 2 and 4, headers of 2 and 3, payloads of 0 to 4, input to offset 16. Tags: Segments with targets, nested and repeated names, absent, empty and elided values. KVS: eight streams: of the KVS shape, up to three Segments with inherited and overwritten tags, an in-band error, a cut, a lost connection and a Cluster of unknown size; of others, two Clusters in a Segment and a token before other tags; one edit by the caller (`MaxEdits`). 163,857 states |
| `cursor_finalized`, `fragment_reader_last`, `kvs_read_size`, `tags_half` | section 7 | as above; for `kvs_read_size`, two Clusters in a Segment |

Widths are scaled down so that a carry, a sign, an overflow and the first value of the
next width all lie among few values; the properties are stated over the parameters.

`CHECK_DEADLOCK FALSE` is set where the system may stop: an input is finite, a document
written, a value read. The stream, the assembler and the readers may always be asked
again and are checked for deadlock.

There are two kinds of abstract specification. `Delivery` is a machine, and
`FragmentReader` is shown to implement it under a refinement mapping, by TLC and by
proof. The reference modules are
functions of the whole input (of the whole call history for the writer) rather than
machines, because what the code promises is that the chunking, the decisions and the
nesting of buffers leave *no* trace in the result; `SplitInvariance`, `DeliversTheSource`,
`FragmentsAreTheInput`, `ReaderDelivers` and `SinkIsDocument` compare every reachable
state with them.

## 4. Liveness and fairness

Three specifications assume fairness, each what a synchronous loop gives.

* `StreamSpec`: `WF(Calls)`, a call of Next or Payload that can go on goes on;
  `WF(Fill)`, a reader that can deliver, end or fail does so; `WF(AskNext)`, the
  consumer is a `for range` loop. Then `IterationEnds`. A reader may return (0, nil)
  or fail only `MaxHiccups` times; one that does so for ever keeps the code waiting too.
* `AsmSpec`: `WF(Running)`, a call in progress goes on. `CallsReturn`: every Feed and
  Finalize returns, whatever recoveries it makes. Nobody has to call again.
* `RdSpec`: `WF(Working)`, the loop of `next` goes on and a Read returns.
  `AsksAreAnswered`: every request is answered with a fragment, a failure or the end.

All other specifications are checked for safety only.

## 5. The proofs

Eight modules hold the theorems, for every value of the constants. The assumptions are
those the modules name, types of the parameters unless something is said here:
`DocumentsAssumption` (documents decode to headers of at most 4 and 8 bytes),
`HiccupsAssumption`, `OptionsAssumption`, `WriterAssumption` (a size VINT holds the size
of a CRC-32), `BufferAssumption`, `StreamsAssumption`, `TrackedAssumption`,
`BinaryAssumption`, `CommandAssumption` (the root tag is no element's), `WordAssumption`
(a second is at least two units and fits a word, which has two bits or more),
`TimelineAssumption` (a second is a whole number of digits), `RegistryAssumption` (the
generated table gives every ID a name of its own and every legacy name an ID) and
`TreeAssumption`. The last one has a convention of the model in it: `Decoded` begins a
header wherever the bytes of an ID stand, and the bytes of a payload are never those of
an ID, so no header begins inside of what another one covers (`ReachOf`); the code would
not look for one there. It also says that a header which the text has whole is made of
the bytes of its ID and of a size that fits its width (`HeaderBytes`, `SaysItsSize`),
which is all that a VINT of a width can say, and that a CRC-32 is a leaf, as the
registry has it.

* `Facts_proofs`: what all proofs share. The library's induction takes an operator as a
  parameter; here induction is stated of *sets* of numbers (`Induction`,
  `BoundedInduction`, `StrongInduction`, `DownwardInduction`), which the backends can use.
  From it: the recursive functions that the reference definitions are made of exist
  (`StepFunction`, `ChainFunction`, `LinkedFunction`), and what sequences are that grow,
  lose their end or change in one place. All that is proved below of a recursively defined
  function is proved by these.
* `Cursor_proofs`: `CursorCorrect` (`CursorInv`), and from it `StacksAgree`
  (`StackMirror`), `EOFIsClean` (`CleanEOF`) and `BookkeepingHolds`
  (`NoBookkeepingError`). `StackMirror` alone is not inductive: at the end of the input
  the parser drops every master at once while the cursor still has to report them, so
  the invariant says which masters are queued (`closes`), that the pending node is the
  parser's current element, or its innermost master, as its kind requires, and that
  nothing is left after an end that ran. One lemma for each way out of `next`.
  `InputIsReadAsAWhole` is `SplitInvariance`: the events are those of `CursorReference`,
  which reads the input at once and by recursive descent. The invariant (`ReadsInv`) looks
  ahead: for every set `S` of masters that may yet turn out to be skipped and every end
  the input may yet have (`Possible`), the events told, followed by what the recursion
  says from where the cursor stands with the masters it has open (`Pursues`), are what it
  says of the whole input; when nothing can follow, the events are that themselves
  (`HasTold`). A chunk changes which ends are possible and a decision which sets are, so
  each call only narrows the choice; each way out of `next` is one unfolding of the
  recursion.
* `Consumers_proofs`, of the stream: `StreamIsSafe` (`StreamSafe`), with
  `StreamNeverStarves` (`NeverStarvedAtEnd`) and `StreamLeafStaysValid`
  (`LeafStaysValid`). A step of the stream is a step of the cursor, so `CursorInv` is
  reused; added is that the stream is drained exactly when its cursor is finalized, that
  the end of the input then already ran, and that what starves has nothing to report.
  `StreamDeliversTheSource` (`DeliversTheSource`) is `ReadsInv` again with `SourceInv`: a
  stream finalizes its cursor at the source's end and feeds nothing then, so of the
  possible ends only that one is left.
* `Consumers_proofs`, of the commands: `CommandsTellTheStream` (`CliInv`), and parts of it
  as theorems of their own. `TagsFollowTheMasters` (`TagsMirrorTheMasters`) and
  `LinesFollowTheNesting` (`IndentedAsNested`, of the lines printed or lost) come from
  `WalkInv`: the loop has dealt with every event, or has one in hand that the cursor's
  masters already reflect, and the output is nested up to it. `SuccessIsComplete` (`SuccessIsOfTheWhole`) adds `EndInv`:
  every failure told has a reason, so a loop that ends without one was told the end, and a
  drained cursor moves no more, so the end it stands at is the reader's. `WellFormed` and
  `ResultIsTrue` fold over the output; `OutInv` says of it that it has begun and is not
  complete, with a reader inside of exactly the stack of tags (`Begun`), and that what was
  tried is what was told but for at most one element (`Showing`). `XmlKeeps` is the third
  part of `ResultIsTrue`: of xml no line is lost, a refused token ends it.
* `Scope_proofs`: `ScopeIsItsStacks` (`ScopeTypeOK`), from `Agree`:
  whatever the caller shows it (`CarelessSpec`), a scope is open exactly while masters
  are, and is what the lowest of them holds; `ScopeIsOfItsMasters` is the same of the
  careful caller. Of the careful caller:
  `ScopesHoldWhatWasShown` (`ScopesAreWhatWasSeen`). The property reads the scopes off
  the record of nodes shown (`Members`, `ShownElement`, `Openings`), the tracker builds
  them bottom up and looks only at depths, so the invariant (`FollowInv`) must say of every
  master on its stack what it has so far: `Stacked`, the stack is the chain of masters
  shown and not closed, each standing in the one below it, each with its children that
  are over. It needs of the cursor that depths grow by one into a master only
  (`ReportsNest`): without it a node would not stand in the innermost open one. An element
  that is over is never touched again (`OverStays`), which is what lets the tree of the
  longer record be compared with that of the shorter one; that the trees exist and are
  one is downward induction (`TreeExists`, `TreesAgree`).
  `ScopesEndWhereTheirMastersDo` (`ScopeInv`, for its part `EndIsExact`). Where a scope ends
  is decided by the tracker at the first node outside its master, whose position is the
  cursor's, so the invariant (`PlacesInv`) relates the parser's position to everything
  reported (`StandsAt`): what is over ends at the position or before it (`Before`), the
  end declared of a master that is open was not passed unless an element inside passes
  it too (`Reached`), and the masters still open are the frames of the parser's stack
  (`Framed`). Every node closes the masters it stands outside of at its own position
  (`EndsSay`). The exception was found this way: a child of an unknown-size master may
  reach past the declared end of the master around that one, so a scope ends where its
  header declared only when no element inside does (document `past` of `MCScope`).
* `FragmentReader_proofs`, first of the assembler alone: `NothingHeldInACluster`
  (`HeldBeforeOpen`; a recovery starts with nothing held, and a Cluster is open only in a
  Segment), and the invariant the rest needs. `OpenMirror` is not inductive, because the assembler moves its list of
  open elements only once it has looked at an event the cursor moved its own for:
  `Tracking` says that the two differ by the node in hand (`Entered`, `Met`), that what
  lies outside the Segment has no entry (`Mirrors`), and that offsets rise along the
  list (`Rising`), which is how an entry is told from another of the same ID.
  With it `OpenElementsAgree` (`AsmInv`),
  `RecoveriesMoveOn` (`RecoveryAdvances`), `FailuresAreFinal` (`FailureIsFinal`). A recovery
  replaces the cursor, so `FullInv` is kept by showing that a new cursor satisfies
  `CursorInv`; `Advancing` adds that the last recovery notified is where `lastResync`
  points. `FailuresAreFinal` speaks of whole calls, so its invariant (`LastWord`) speaks of
  every step of one: once a failure was told, it is latched (`Latched`) or was a recovery
  given up in a closed assembler (`GivenUp`), and either way no call gets to work, the
  assembler is idle for good and every call returns at once.
  Of the reader: `NothingFallsBetween` (`RdInv`) and the refinement
  `ReaderDeliversAsPromised` (`ReaderImplementsDelivery`). `ReaderInv` says for each stage
  of `next` what the assembler's call is at and what its last return was; the step that
  collects fragments maps to making items, that of an answer to giving one. Needed of
  the assembler is that what it released only grows.
* `Writer_proofs`: `PlaceholdersStay` (`OpenPlaceholders`) and `SinkOnlyGrows`
  (`AppendOnly`). The strengthening (`FramesOK`): every frame's target is a Buffered frame
  below it or the sink, and the placeholders in one target do not overlap and lie in the
  order of nesting, so that the patch of the last leaves the others. Proved over
  sequences of anything, since buffers have no set of all their values.
  `SinkHoldsTheDocument` (`SinkInv`): the bytes are those `WriterReference` renders of the
  document that was said. `SinkIsDocument` speaks of the targets as they are now, while a
  Reserved master's header is emitted with a size of zero and patched when the master
  ends, so the invariant (`DocumentOK`) says of every frame (`FrameHolds`) what waits for
  it where it goes back to, if it is kept (what the levels below it have emitted), and
  where among the bytes they emit its placeholder is, if it is patched. Ending a master then takes
  its level off and puts it, with its size and checksum, behind the children of the one
  around it, and the bytes are the same ones regrouped (`Regrouped`), only the placeholder
  aside. A failed write leaves a beginning of what was to be there (`Begun`).
* `Parts_proofs`, three components. The buffer: `BufferCorrect` (`BufInv`), and read off
  it `BufferHoldsTheInput`, `ViewStaysValid` and `BufferStaysSmall`; inductive with
  `ExtentInv`: the buffer is the input from its offset on, the extent handed out lies in
  the consumed part, and trimming is the only step that moves it and is not taken before
  the extent is stale. The KVS reader: `ErrorIsTheLast` (`StreamErrorIsFinal`, from
  `ErrorLatched`: a fragment with an in-band error is the last handed out and the error is
  set), `MetadataIsPrivate` (`NoMapIsShared`, from `MapsInv`), `TheEndIsTheStreams`
  (`EndIsClean`) and `MetadataIsAsStated` (`KvsInv`), from `KvsRead` and `Told`. `KvsRead`
  counts: the fragments delivered, queued, and held or open are as many as the Clusters
  read, each that of the Cluster of its number (`QueueOK`), and a fragment is released
  only when its Segment states no more (`Settled`), which is where the KVS shape is
  needed: the token has been read, or the next Segment begins, or another Cluster, which
  that shape has only in another Segment. `Told` adds that the history of a UUID is what
  the Segments with that UUID state whose Clusters were delivered (`Kin`), so that the
  tags of the next fragment are what its Segment states over what its kin do
  (`InheritedIsBefore`). Assumed of a stream is `IsNested` only: tags and Clusters are in
  a Segment, and a Cluster that begins is followed by its end, if by anything. The timeline:
  `TimesAreTrue` (`TimeInv`), which is arithmetic: the types of what was chosen, and what
  division, wrapping and positional notation give for every width and base.
* `Elements_proofs`, two components. The registry: `NamesAreReported`
  (`OwnNamesAreReported`) and `BuiltInStays`, from `NamesInv` - inductive are the two maps of
  every registry together, since a registration that takes a name over changes both;
  `RegistriesAreCoherent` (`RegInv`) and `RegistrationsAreContained`
  (`RegistrationIsContained`), which follow the chain of registries as functions of its
  length (`LookupIn`, `NameIn`): what is put in one is seen from another only where the
  chain passes it with the ID not yet found (`PutIsSeen`), and along a chain in which
  nothing was overridden names and IDs invert each other (`BothWays`). The tree:
  `TreesNestAsDeclared` (`TreeInv`) and `NothingReadIsLost` (`PrefixIsKept`), from
  `TreeStrong`: the parser's stack and Parse's own are the same masters, each the parent of
  the next (`StacksInv`), everything before the position is in an element that was kept
  (`ReadInv`), and a declared master that is no longer on the stack ends before it
  (`NestInv`).
  `TreesAreWrittenBack` (`ByteExact`) and `VerdictsAreTheDocuments`
  (`VerdictIsTheDocuments`) add to it `ExactInv` and `WriteInv`: every header is that of
  the text and every element begins where the one before it, or its master's header,
  stops (`AsRead`); while Parse is in its loop the position is just behind the last
  element, which is under all masters still open (`InTheLoop`); a result without an error
  has read the text to its end (`AtItsEnd`); and what Marshal has written is the encoding
  of the tree there is, or a prefix of it. In such a tree, if nothing runs past a declared
  end, the encoding of every element is the slice of the text it was read from
  (`EncodedAsRead`), by induction from the last element to the first: the encodings of the
  children are joined, one slice behind the other, to what is behind the header
  (`JoinedChildren`), whose size is then the declared one and whose width holds it. The
  encodings are recursive in the children, so that they exist is an induction of its own.
  The checksum covers the other children: the slices before it and behind it
  (`AroundGrows`, `CoveredIs`), which is the data as stored around it.

TLC only. Liveness. What is compared with a definition that uses RECURSIVE or folds over
a sequence of all that happened, about which these provers can be told nothing:
`FragmentsAreTheInput`, `ReaderDelivers`, `TagsInv` and `StatedStays`. `BlockInv` and
`ValInv`: the codecs fold over bytes and compare with powers. `ChangedTreeReadsBack`: its
theorem would be `TreesAreWrittenBack` once more for a text that nobody parsed, the one
written, with the headers in it found by where they were put.

## 6. What is left out

* `tree`: SetRegistry, which changes only how an element is named.
* `matroska/elements.go`: a generated table. Its entries, aliases and child lists are
  constants of `Registry`, and `Cursor` and `Assembler` hold for any answers it gives.
* `crc/`: the polynomial's arithmetic; sums are compared, never computed.
* `KvsReader` is not composed with `Assembler` by INSTANCE: the fragment layer is
  modelled again at the grain of complete elements, which is where the tags of a Segment
  are read. A failing read there discards what is held as in `FragmentReader`.
* `cmd/ebml`: how a value or a line is formatted, the flags and the files. dump looks at no
  error of its writer (dump.go:49, :64-80, :109) and returns nil (:118): a line it refused
  is in the output of the model as a `lost` one, so that a success of dump is one of the
  reading alone. `SuccessIsPrinted` (CommandLine), which nothing in the repository claims,
  is refuted when it is added to `consumers`. That the writer may take a part of a line it
  refuses is left out.
* `internal/`, `examples/`: fixtures, conformance tooling and sample programs.

## 7. Where the code and its documentation disagree

Four are runs of their own.

| Run | Property | What the code does | What it says |
|---|---|---|---|
| `cursor_finalized` | `FinalizedNeverNeedsMore` | `next` (cursor.go:650) returns NeedMoreData from a pending decision without looking at `finalized`: after Feed of a leaf header without its payload, Finalize returns nil and, once the leaf has been reported, Next answers NeedMoreData for ever. The truncation is never reported | cursor.go:830 and :841; cursor_test.go:177 |
| `fragment_reader_last` | `FailureComesLast` | a Read error other than io.EOF (reader.go:151) is made sticky without finalizing the assembler: the complete fragment held for its metadata is never delivered | ext/fragment/reader.go:77, repeated at integrations/kvs/reader.go:112 |
| `kvs_read_size` | `ReadSizeChangesNothing` | the tags of a fragment are read when it is taken out (integrations/kvs/reader.go:189) from a tree its Segment goes on filling: two Clusters in one read give the first the tags behind the second, a smaller read does not | integrations/kvs/reader.go:27, reader_test.go:75 |
| `tags_half` | `ValuesAreNotErased` | an element is linked into its parent when its header is read (assembler.go:558) and given its bytes when they have arrived, perhaps some Feeds later: a view taken in between reports a TagString as empty, and the last value winning, hides the one stated before | ext/tags/tags.go:46 |

The others are definitions of their modules, refuted when they are added to the run
named (as an INVARIANT of its cfg; `FailureIsFinalAlways` is a PROPERTY).

| Property | Run | What the code does | What it says |
|---|---|---|---|
| `DeclaredEndIsExact` (Cursor) | `cursor` | children of an unknown-size master run past the declared end of the master around it, which is then closed as "declared end", further on (cursor.go:721; parser.go:244 checks the innermost parent only) | cursor.go:238 and :262 |
| `FailureIsFinalAlways` (Assembler) | `assembler` | Finalize with a recovery pending returns the cause without latching it (assembler.go:396): the next Finalize returns nil, a Feed "already finalized" | assembler.go:320, :329 and :376 |
| `NoDescendantAmongChildren` (Scope), under `CarelessSpec` | `consumers` | Observe does not compare depths: a leaf shown without the master it stands in becomes a direct child (scope.go:85, :88) | docs/design-rules/layer-boundaries.md:161, README.md:620 |
| `FailureDiscardsNothing` (KvsReader) | `parts` | an in-band error seen in a shared Segment tree stops the pull at the fragment before it; a complete fragment behind is dropped (integrations/kvs/reader.go:151) | integrations/kvs/reader.go:112 |
| `NeverMissingMetadata` (KvsReader) | `parts` | a continuation token before another Tags element releases the fragment without those tags (kvs.go:75) | kvs.go:63 |
| `TwoWaysToDiffer` (SimpleBlock) | `parts` | a third way: a VINT of all ones reads as a value (127) that Append writes in two bytes (block.go:302) | block.go:186 |
| `ByteExactAlways` (Tree) | `elements` | an unknown-size master inside a declared one swallows what follows the declared end (parse.go:161): Marshal gives the outer one another size | marshal.go:40 |
| `ResolvedNamesAreReported` (Registry) | `elements` | an Override of an inherited element leaves its inherited name resolving, to an entry that reports another | matroska/registry.go:156 |
| `ReportedNamesResolve` (Registry) | `elements` | a name that was taken over is retired with the entry that had it first: its new bearer reports it and is not found by it | matroska/registry.go:121 |
| `WellFormedAlways` (CommandLine) | `consumers` | after a failure of the encoder itself the end tags are not written | cmd/ebml/xml.go:155 |
| `DateReadsBack` (Values) | `parts` | for one second of the year 1708 `sec*nsPerSec` (encode.go:360) wraps before it is compared: a date is written as one 584 years later | encode.go:332 |
| `BeforeTheEpochIsRejected` (Timeline) | `parts` | `UnixNano` wraps before the sign is tested (putmedia.go:92): an instant before 1677 may be stamped as one after 1970 | putmedia.go:85 |
| `BothHalvesAreDigits` (Timeline) | `parts` | the fraction is cut to nine characters before it is parsed (kvs.go:162): anything may follow the ninth | kvs.go:145 |

Where such a case would hide others, the property excludes exactly it and says so:
`EncodedReadsBack` and `RefusalsAreDue` except that second, `ByteExact` except documents
that run past a declared end. `FailureIsFinal` says what is told after that recovery
instead: the input is over, and nothing is released.

## 8. Running it

    tlc -workers 2 -config Cursor_all.cfg MCCursor.tla
    tlapm Cursor_proofs.tla

and so on for the pairs in `PROJECT.json`. The longest runs are `parts`, `writer`
and `elements`, a few minutes each; the longest proofs are those of the writer, the
elements and the scope tracker, up to ten minutes each from nothing.

## 9. The plan

Done: the inventory, the reading side from the parser to the two fragment readers, the
scope tracker, the tags, the registry, the commands, the writer, the tree and the
codecs; `FragmentReader` composed from `Assembler`, `Cursor` and `Parser`, and shown to
implement `Delivery`; the theorems of section 5.

Next, in this order.

1. Composition: `KvsReader` over `FragmentReader` instead of its own fragment layer; what
   `Writer` writes read by `Cursor` (the documents of `Tree` already go both ways).
2. Proofs: `BlockInv` and `ValInv` (what an encoder writes byte by byte reads back), with
   recursive functions as `WriterReference` and `CursorReference` have them;
   `ChangedTreeReadsBack`, with the slices of `EncodedAsRead` taken of what was written.
