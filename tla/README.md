# parshred: a TLA+ verification project

parshred is a C++20 XML library: SIMD scanners, three event parsers (SAX, fast SAX,
StAX pull), two DOM builders, a parallel DOM builder, a chunked ("pipeline") parser,
and on top of them XPath, XSD, DTD, namespaces and a writer.  The modules here model
the parts of it that keep state from call to call, across the boundaries of chunks
and blocks, or across threads, and the functions on finished trees (DTD, XSD, XPath)
whose rules interact: there a unit test hardly reaches.

Contents: 1 the system, 2 the modules and how they stand for the code, 3 the runs,
4 bounds, 5 fairness and deadlock, 6 the proofs, 7 what is model-checked only,
8 what is not modelled, 9 remarkable behaviours of the code, 10 the plan, 11 how to
run everything.

## 1. The system

Paths are those below `include/parshred/` or `src/`.

| component | state it keeps | operations | interacts with |
|---|---|---|---|
| pull parser (`pull_parser.hpp`) | position, current event with its payload, attributes (8 inline, the others spilled), `depth_`, `pending_self_close_`, `done_` | `next`, `read_element_text`, `skip_element` | the application pulls |
| flat DOM (`dom_fast.hpp`) | node array linked by 32-bit indices, values buffer, stack of 256 open elements, root | `fast_dom_parse`, the accessors of `FastDom` | the parallel builder, the writer, XPath, DTD |
| parallel DOM (`dom_fast.hpp`) | split points, one partial DOM per chunk, the merged DOM | `find_split_points`, `parallel_fast_dom_parse` | worker threads (shared input, own results) |
| arena DOM (`dom_parser*.hpp`, `dom.hpp`) | current node and its last child, 64 saved pairs | `dom_parse` | `NodePool`, `StringPool` |
| pools (`dom_pool.hpp`) | pages, cursor, counts | `allocate`, `reset`, `store`, moves, end of life | owned by a `DomParseResult` |
| fast SAX (`fast_sax*.hpp`, `fast_sax.cpp`) | depth, reference count, attribute buffer and its spill | `parse`, `parse_chunk` | a handler (callbacks); driven by the chunked parsers |
| chunked parsers (`pipeline*.hpp`) | read position, carried bytes, first chunk or not | `parse`, `find_safe_boundary` | fast SAX, one call per chunk |
| SAX (`sax_parser.cpp`, `tokenizer.cpp`, `simd_scanner.cpp`, `simd/`) | structural index with quote states, token list, depth, reference count | `simd_scan`, `tokenize`, `do_parse` | callbacks; the CPU's features select the scanner |
| writer, builder, modification (`writer.hpp`) | nodes, names and values apart, open elements | `DomBuilder`'s calls, `build`, `remove_child`, `remove_attribute`, `serialize` | `FastDom` |
| arena (`arena.*`) | blocks, cursor | `allocate`, `reset` | nobody in the library |
| namespaces (`namespace.hpp`) | bindings, scope starts | `push_scope`, `declare`, `process_declarations`, `resolve`, `resolve_name`, `pop_scope`, `reset` | a handler's start and end events |
| errors and positions (`error.hpp`) | line, column, offset, last byte was CR; the errors | `advance`, bulk `advance`, `reset`; `add_error`, `clear`, `format_error` | a text on its way through a parser |
| encodings (`encoding.hpp`) | none | detect, transcode, validate, normalise line ends | inputs |
| DTD (`dtd.hpp`) | declarations; for well-formedness, names of open tags | `parse_dtd`, `validate`, `check_wellformedness` | a finished tree; a document's text |
| XSD (`xsd.hpp`) | the declared elements and attributes | `add_element`, `add_attribute`, `validate_value`, `validate_document` | a finished tree; XPath's notion of content |
| XPath (`xpath.hpp`) | a compiled expression | `parse_xpath`, `evaluate` and its four relatives | a finished tree |
| file input (`mmap_reader.*`) | mapping or buffer, its size, open or not | `open`, `load_buffer`, `close`, moves, destruction | the operating system, other programs, `parse_file` |

What is hard in it, and what makes each part correct:

* **Sequences of calls.**  The pull parser's helpers share state with `next`; an
  exception leaves some of it written.  Depth, payload and attributes must always
  describe one event.
* **Nesting that is unbalanced or deeper than a fixed array.**  Both DOM parsers stop
  pushing when their array is full and go on popping.  The links must stay a tree
  (flat) or a forest (arena) all the same, and be the document's tree where the array
  suffices.
* **Input cut in pieces.**  The chunked parsers cut at a `<`, carry the rest, and must
  hide all that from the handler; the vector scanners carry the state of quotes
  from block to block; the parallel builder splits by a pre-scan, and moves indices
  and offsets when it merges.
* **Threads.**  Each parses a chunk into its own result; every result must be
  complete when it is merged, in whatever order threads end.
* **Limits.**  Depth, references and attributes are counted in members that live
  longer than a call: they have to hold for a document, over chunks but not over
  documents.
* **Ownership.**  The nodes and strings of a parse result move with it.  None may be
  handed out twice or be taken away.
* **The world outside.**  `open` is a sequence of system calls each of which may fail, a
  read may deliver less than asked for, and the file may change meanwhile; members
  that are assigned before a failure stay.
* **Bytes at boundaries.**  A CR LF or a character may be cut in two by a block, by a
  call or by the end of the input; overlong forms and surrogates lie next to valid
  characters, values next to the limits of their types.
* **A second reading of the same text.**  `check_wellformedness` scans tags on its own,
  `NsContext` follows the handler's events; both must agree with the parser on which
  elements are open, also in unbalanced documents.
* **Many small rules that compose.**  Declarations may repeat and come in any order;
  predicates filter what others left; a union sorts, an axis does not.
* **Names found again by counting.**  `DomBuilder::build` repoints names into another
  buffer by their order.

`PROJECT.json` lists each hazard at its line, with the properties that watch it.

## 2. Modules

### Pull parser

`XmlReader` has one action for a call of `next()` (`CallNext`, with an alternative for
each `parse_*` routine), one for the call of a helper (`CallHelper`) and one for an
iteration of a helper's loop (`HelperStep`), which is a call of `next()` with the
helper's own update.  Its variables are the members (`event`, `name`, `text`,
`inline`/`spill`, `depth`, `pending`, `done`).  An input is a sequence of lexical tokens;
a `string_view` is the number of the token it points into, since the properties only
ask where a view points.  A refused tag (`badstart`, `badtag`) throws at the place
where the code does: after the position and attributes were overwritten.
`XmlEventCursor` is what the reader promises: a cursor in a fixed sequence of events;
the last section of `XmlReader` maps the reader to it.

### DOM parsers

`NodeLinks` has the linked array both builders make, and what it is to be a tree;
`XmlTokens` the constructs their scanning loops tell apart.  `FastDom` gives
`fast_dom_parse`'s local state as a record and an operator for each branch of its loop,
so that three modules can use it: `FastDomParse` (one call, token by token),
`ParallelDom` and `XmlWriter`.  `ArenaDom` is `dom_parse`.  `XmlTree` is what both
promise: the visible constructs in document order, each the child of the element
open at its place, with its tag's attributes.  `FastDomParse` and `ArenaDom` map their node
arrays to that tree (`Tree`, `Built`): the visible nodes of the array in its order, and of
each one who holds it; `NodeLinks` has the operators for that.

`ParallelDom` follows the calling thread through `scan` (`find_split_points`, one
step), `launch`, `join` and `merge` (one chunk a step), next to the threads.
A thread's parse is one step: it reads the shared input, which nobody writes, and
writes a result nobody reads before the join.  What the pre-scan sees in attribute
values (`hides`) is part of a token.  A comment, CDATA section or DOCTYPE with a `>` before
its end is several tokens: the pre-scan leaves it at its first `>` (`bang`) and counts the tags
behind that, the parser leaves it at its end (`close`).  `Seen` is what the parser takes the
tokens for when it begins at one of them, perhaps inside such a construct: then its rest
is markup, and its end text.

`DomPools` is `NodePool` and `StringPool` with several results that own them: creation,
`allocate` (on the page, on the next one since a reset, on a new one), `reset`, `store`,
move construction, move assignment and destruction.  `heap` and `capacity` are the
pages that are allocated; `handed` and `views`, what the pools have given away.
Freed memory keeps its contents, so that the zeroing in `grow` and `reset` matters.

### SAX parsers

`FastSax` is `FastSaxParser::parse_chunk` on one buffer, a step for each construct with
its callbacks; `ChunkedParser` drives it and has one action for each phase of the loop
(`Call`, `Chunk`, `EndChunk`, `Rethrow`, `Return`).  Units stand for bytes: positions,
cuts and the look-back count them.  `ParallelParser::parse` is the same loop (it starts
no thread), so that the module stands for both.

`StructuralScan` is `select_best_scanner` and the four scanners (a block or a unit per
step), `Tokenizer` the walk along the index (a step for each entry looked at),
`SaxParser` the callbacks and limits (a step for each token, a tag with its attributes),
over several documents on one parser object.

### Writer

`DomBuilder` has an action for each call on a builder, for `build` and for both
removals.  `XmlWriter` has `serialize` as operators on the finished tree, the lexing of
what it writes, and the parse of that with `FastDom`.

### Input

`FileInput` is `MmapReader` on POSIX: several readers that open, load, close, move and
are destroyed.  `open` is taken apart at its system calls (`Open`, `Stat`, `Read`, `ReadAll`,
`Map`, and the failures of each), so that `Change`, another program's write to the file,
may come between any two.  `mem` is the regions that are mapped or allocated; `expect` is
what a reader ought to show, and says when that is uncertain.

`TextEncoding` has `encoding.hpp` as operators on bytes, with the tables of Unicode's
well-formed sequences and of UTF-16 as references.  `LineTracker` is the class of that name:
`AdvanceOne`, and the bulk call as a loop (`Begin`, `TakeBlock` on blocks without a CR,
`TakeOne` for the tail); `PlaceIn` is the reference, defined on all that was fed at once.
`TextInput` composes the three: load, detect and transcode, validate, normalise, track in
calls of any length, report an error anywhere (`Report`).

### Whole documents

`NsContext` is the stack of bindings and scopes; `scopes` beside it keeps what each open
element declared.  `Dtd` is `parse_dtd`, `validate` and the scan of `check_wellformedness`.
`CharStrings` is the vocabulary of strings that the next three use: characters are
numbers with the order of the code, so that comparison, digits and `stod` are computed.
`Xsd` has the built-in types, facets and declarations, and the walk over the tree.
`XPathParser` is the recursive descent parser on lexical tokens, with the loop of each level of
precedence; `XPath` evaluates what it returns, axis by axis, on the node array of `FastDom`,
so that the order and the duplicates of the code's node lists are the model's, too.

`DocumentChecks` composes them: one document is read construct by construct by
`fast_dom_parse` (`FastDom`'s operators), by the namespace context and by the
well-formedness scan at once; then one call is made on what results.  Its second half
says what a document, a declaration, a type and a query mean, in terms of the document's
constructs, sharing with the modelled code only the vocabulary of `CharStrings`, the
handling of white space and the names of errors.

Definitions whose comment begins with "Mutant:" are deliberately wrong variants of
the definition below them.  Nothing uses them; put in place of the right one, each
makes a property of a run fail (`mutants` in `PROJECT.json`).

## 3. Runs

| run | question | properties |
|---|---|---|
| `pull` | Does the reader, under every order of `next`, `skip_element` and `read_element_text` and with refused tags, behave as a cursor in the event sequence? | `DepthIsOpenElements`, `PayloadIsCurrent`, `AttrsFromOneTag`: depth, payload and attributes are of one event; `HelperStaysInside`: a helper never leaves its element; `ImplementsCursor`: refinement of `XmlEventCursor`; `Drained`: calling on reaches the end |
| `flatdom` | Is the node array of `fast_dom_parse` the document's tree?  Is the merged DOM of `parallel_fast_dom_parse` the serial one, whatever the splits and the order of threads?  (A behaviour of `MCFastDom` is a call of one of the two.) | `DomIsTree`: on any input each node is linked once; `ValuesAreTheInputs`: both storages, saturating lengths; `RootIsFirst`; `BuildsTheTree`: refinement of `XmlTree` while the stack suffices; `MergedIsTree`: at every moment of the merge; `MergedIsSerial` |
| `parallel_attrs` | Are values outside the values buffer the input's? | `SourceValuesKept`, violated |
| `parallel_cuts` | Can each chunk be parsed independently, as the comment says? | `SplitsAreSafe`, violated: a chunk begins inside a comment |
| `arena` | The same of `dom_parse`; and do nodes and strings of its pools stay distinct, in place and zeroed when handed out? | `DomIsForest`, `AttrsStay`: on any input; `BuildsTheTree`: on documents without stray end tags that nest no deeper than the array; `NodesOnce`; `FreeIsZeroed`; `ViewsKept` |
| `chunked` | Is chunking invisible? | `FedInOrder`: each byte once, in order; `EventsAreTheDocuments`; `LimitsOverAllChunks`; `ParseReturns` |
| `sax` | Are the callbacks the document's, with every scanner, wherever blocks begin, on a parser used before? | `TagsAreIndexed`; `EventsAreTheDocuments`; `LimitsHold` |
| `sax_quotes` | Does the index hold all unquoted structural characters, as the comment says? | `UnquotedAreIndexed`, violated |
| `writer` | Is the tree what was called for, and does it survive writing and reading? | `TreeIsAsCalled`; `ContentKept`; `RoundTrip`; `RemovesExactly` |
| `input` | Does a parser get the text that is in the file, and do errors name the right place in it? | `MemoryOwnedOnce`: whatever fails or is moved, each region has one owner that releases it; `SpanIsLoaded`; `TextIsTheSources`: transcoding, detection and normalisation lose nothing; `ValidationIsExact`: against Unicode's table; `PlaceIsTheReference`: however the text is cut; `ErrorsShowTheirSite` |
| `document` | Do the parts that work on whole documents agree with the document? | `IssuesAreMismatches`: the well-formedness scan and the parser have the same open elements; `InnermostBinding`: a prefix is bound by the innermost open element that declares it; `DtdErrorsExact`: one for one; `SchemaErrorsExact`: no invalid value passes, no valid one in shortest form is refused; `SelectsTheNodes`: an expression selects what it means |
| `xpath_axis` | Does a query that names the axis `following-sibling::` follow it? | `AxesAreFollowed`, violated |

A violated run is a disagreement of the code with a comment or a document of the
repository; `findings` in `PROJECT.json` quotes both sides.

Preconditions that the properties have, and why:

* `ImplementsCursor` and `HelperStaysInside` are checked with `Strict = TRUE`: the
  application calls a helper on a StartElement that `next` has just delivered.  With
  `Strict = FALSE` (the documented precondition is `event_type() == StartElement` only)
  a second helper call on a self-closing element runs into the parent's content.
* `BuildsTheTree` of `flatdom` holds while fewer elements are open than the stack has
  entries; that of `arena` also needs every end tag to close something.
* `MergedIsSerial` asks that no construct is lost or parsed twice where no chunk begins in a
  comment, CDATA section or DOCTYPE (`CutsOutside`; where one does, `parallel_cuts` shows what
  happens), and for the serial result's elements where the pre-scan is not misled by
  attribute values or by such constructs (`Honest`).  It compares the children of the document
  where each later chunk consists of one element, which is what the merge links.
  `MergedIsTree`, and that buffered values are kept, need no such condition.
* The inputs of `ParallelDom`: a tag within a comment, CDATA section or DOCTYPE is there as a
  whole (`WellLexed`), text does not stand right beside the end of such a construct (`WellDivided`),
  a construct inside another is of the same kind, so that the first end ends both, and
  attribute values hold no `<`.
* `EventsAreTheDocuments` of `chunked` needs markup no longer than the look-back and a
  chunk, without a `<` in comments, CDATA sections or DOCTYPEs.
* `TagsAreIndexed` and `EventsAreTheDocuments` of `sax` need quotes the chosen scanner can
  follow: closed within their construct, for the vector scanners by the very next quote.
* `RoundTrip` needs names (an empty one is miscounted) and no comment in an element
  without child elements (it is written as text).
* `SpanIsLoaded` asks for a file's bytes only while nobody wrote to it since `open` began;
  that a buffer shows what was read, and no more, it asks always.
* `PlaceIsTheReference` leaves out texts in which a call that begins with a whole block
  begins between CR and LF (`split`): the code counts that pair twice (section 9).
* `ErrorsShowTheirSite` asks for the caret only where the window is not cut off by an end
  of the text: `format_error` does not know the site and takes the middle.
* `IssuesAreMismatches` leaves out attribute values with a `/`, and those with a `>` in a
  self-closing tag (`TagsAreRead`): the scan ends the tag there.
* `DtdErrorsExact` needs each attribute declared once, with a type the parser has a case
  for (`OneDeclaration`).  The value of a `#FIXED` attribute is no fault in it, as the code
  never compares it (section 9).
* `SchemaErrorsExact` lets a valid value be refused that is not in the shortest form of
  its number, or is no `long long` (`Canonical`).  Which of the refused it covers, section 9
  says.
* `SelectsTheNodes` asks for document order, each node once, of unions and of paths
  without `//` and `..` (`Downward`); for the others, for the set only.  It leaves out queries
  that name an axis (`NamesAnAxis`), which `xpath_axis` is about.

## 4. Bounds

All models are finite: inputs come from a set of sequences, calls are counted.  The
array sizes of the code become small constants so that the cases at the limit happen.

| run | bounds | what they reach |
|---|---|---|
| `pull` | 5 tokens of 4 kinds, 3 of 16 kinds; 1 inline slot | nested elements with text between them below a helper; spilled attributes next to inline ones; a refused tag before, within and behind an element |
| `flatdom` | 5 constructs of 4 kinds, 3 of 7; stack of 3; lengths up to 2 saturate at 2 | nesting two levels beyond the stack and back; three attributes; an empty, an exact and an over-long value |
| `flatdom`, parallel | 5 pieces of 5 kinds, 4 of 6 with values that mislead the pre-scan, 5 of 5 with comments and tags in them; 1 to 4 threads | up to four chunks, three of them on threads; split points that are missing, too many, at the wrong depth or inside a comment |
| `arena` | 6 of 4 kinds, 3 of 8; array of 2 | the same as `flatdom`, and an overwritten `first_child` |
| `arena`, pools | 2 results, 3 pages of 2 nodes, 2 pages of 3 characters, lengths 1, 2, 4 | page changes, a reset with two pages, freed pages used again, moves onto full results, a string longer than a page |
| `chunked` | 3 constructs of 14 kinds, 4 of 4; chunks of 4, 6 and 7 units, look-back 6; 2 calls | several cuts in one document, chunks without a `<`, carried pieces carried again; a failed call before a good one |
| `sax` | 3 constructs of 24 kinds, 4 of 5; blocks of 3, 4 and 8 units; 2 calls | quotes that span a block, blocks that begin anywhere in a tag, the scalar tail behind blocks |
| `writer` | 4 calls of 5 kinds, 3 of 9 within an element; 2 removals | nesting, attributes between children, `end` without `start`, every escaped character, over-long texts, removal of first, middle and last |
| `input` | 2 readers, 1 file of up to 4 bytes that is written to once, 3 regions, `Threshold` 3; texts of up to 4 characters of line ends, and about 1400 at the edges of UTF-8, UTF-16 and declarations; blocks of 2, calls of 1 to 4 bytes; windows of 2 bytes, 1 error | moves onto full and empty readers, short and failing reads, a mapping; CR LF on and off every boundary of blocks and calls; every row of Unicode's table with the bytes beside it, cut off and followed by more; broken pairs; windows at both ends |
| `document` | all trees of up to 5 elements of 2 names; all sequences of up to 5 constructs of 7 kinds, balanced or not; roots with up to two children and texts; 4 DTDs, 7 schemas, 33 expressions, one of them with an axis; types of 3, 4, 5 and 6 bits, all 13 of them with 21 numbers and 6 numerals with leading zeros or signs, in an attribute and as an element's content | mismatches of every depth, scopes that are closed too often, shadowed prefixes, repeated and late declarations; for each width, signed and unsigned, the lower and upper limit and one beyond each (-33, -32, -17, -16, -9, -8, -5, -4, -1, 0, 3, 4, 7, 8, 15, 16, 31, 32, 63, 64), `+5` and `008`; bounds that a value meets exactly; each axis the parser can yield, each level of precedence, predicates after predicates, unions across levels |

In each pair of bounds the longer sequences are of the kinds that change the
structure (nesting), the shorter ones of all kinds, because the others do not change
what the following ones find.  What a tag does depends on the stack's top two entries,
its fullness and the tag's attributes: three nested tags with something before,
between and behind them show every combination.  Where the proofs of section 6 apply
no bound is needed at all.

`arena` and `input` use symmetry: results and pages, readers and regions are interchangeable
and the properties about them are invariants (`BuildsTheTree` of `arena` does not mention
them).  In `input` a text is read while one reader
exists and the file is empty and untouched: what a reader shows is `SpanIsLoaded`'s
question, and a text does not care where it came from.  The integers of `document` have
3 to 6 bits instead of 8 to 64: what a check does depends on the order of the limits, which
is kept.

## 5. Fairness and deadlock

* `pull`: `WF(HelperStep)` because a helper's loop runs on the thread that called it,
  and `WF(AppNext)` because `Drained` speaks of an application that goes on calling
  `next()`.  Nothing else is assumed; in particular no helper need ever be called.
* `chunked`: `WF(Running)`, the steps of a call of `parse` on its caller's thread, so
  that `ParseReturns` says that the loop ends.  Calls themselves are not fair.
* All other specifications are without fairness and have safety properties only.
  `flatdom` (for the parallel parser), `sax`, `chunked`, `pull` and `input` are checked for deadlock, so that
  together with their finite graphs every thread and every loop gets on until the
  call returns.  `arena`, `writer` and `document` read one input or script to its
  end and stop there: deadlock is not checked.

## 6. Proofs

The theorems hold for every value of the constants that the `ASSUME`s allow: any
inputs that scanning can yield (`WellLexed`), any sizes of arrays, pages, chunks and
look-back.  TLC evaluates the assumptions in every run.

* **`XmlReaderProofs`**: `TypeCorrect`, `DepthCorrect`, `PayloadCorrect`, `AttrsCorrect`,
  `HelperCorrect`.  The inductive invariant is `TypeInv` (types, and that a running helper
  stands on a StartElement) with `ReaderInv` (the three properties and that a
  StartElement just delivered is the innermost open element) and, under `Strict`,
  `HelperStaysInside`.  The last needs `ReaderInv`: that a helper is called on the
  innermost element is what lets it count to that element's end.  A call of `next()`
  is treated by one lemma for each part, and `HelperStepCalls` reduces a helper's
  iteration to such a call.
  `CursorImplemented` (under `Strict`, the refinement `ImplementsCursor`): the events of an
  input are the concatenation of its tokens' events (`StreamGrows`, `EventsAt`), so each outcome of
  `next()` is the event after those consumed (`DeliversNext`, `ThrowsNext`, `ExhaustsAll`).  The
  invariant `CursorInv` places an owed EndElement and a residue in the token before `pos`
  (`ReaderAt`) and says of a running helper that its counter is the number of elements left open by
  the events since its StartElement, that it met neither their end nor a refused tag, and that its
  result is the direct text among them (`HelperCounts`).  A helper's whole loop is then one step of
  the cursor, taken by its last iteration; the others stutter (`HelperIterates`).
* **`FastDomProofs`**: `TypeCorrect` and `TreeCorrect` (`DomIsTree`).  `DomIsTree` alone is
  not inductive: it has to be known that the last child that a stack entry remembers
  has no next sibling (`StackInv`), the last attribute none either (`AttrInv`), and that
  an element whose tag is being read has no children yet (`TagInv`).  `ChainedTree` is
  the step all operations share: a node chained where a chain ends keeps a tree.
  `ValuesCorrect` (`ValuesAreTheInputs`): the buffer of decoded values only grows, so each
  stored value stays where its node says (`ValuesInv`).  `RootCorrect` (`RootIsFirst`): there is
  a list of the document's children that ends where the bottom of the stack says, and the
  recorded root is the first element in it (`TopInv`); `ChainIs` of `RecursionProofs`
  makes that list what the walk of `root()` finds.
  The module also proves two theorems about `ParallelDom`.  `JoinCorrect`: when the merge
  begins no thread is parsing and every partial result is complete.  Its invariant says
  for each phase of the call which chunks are parsed or in the hands of a thread, and
  that the threads not joined yet are all that may be running (`Launching`, `Joining`,
  `Merging`).  `MergeCorrect` (`MergedIsTree`) rests on it: `SplitsAre` shows that, however
  the pre-scan is misled, split points are ends of tags in ascending order, in a comment or not, so
  that each chunk is a part of the input.  What the parser sees when it begins there cuts no tag
  (`TagHidden`, `SeenIs`: a tag is inside of a construct as a whole or not at all), and the loop of
  `fast_dom_parse`, with the invariant above, makes a tree of it (`ParsedTree`, `ChunkIsTree`).  The merged array is not a tree in the
  sense of `DomIsTree`: document nodes of later chunks are in it, with links to nodes that
  the merge links again.  What is inductive is `Tidy`: some set of nodes holds the document
  and the last child, is closed under links, and links to each of its members from one place at
  most (`Closed`).  A chunk adds to that set its root and what lies behind it, which its copied
  document node does not belong to (`LinkedTidy`).  `WalkInjective` concludes, by induction
  from the end of the array, that a walk meets no node twice.
  `MergeKeepsValues` (`BufferedValuesKept`, a conjunct of `MergedIsSerial`): that every buffered
  value reads as the input's is also an invariant of the loop of `fast_dom_parse` (`ValuesInv`),
  so it holds of every partial result, and `CopiesBuffered` moves it with the buffer.
  `TreeBuilt` (`BuildsTheTree`) is the refinement of `XmlTree`, on all inputs that never have more
  elements open than the stack has entries.  Its invariant `ShownInv` says that the array's
  lists are disjoint, go forward and hold the visible nodes (`WellLinked`), that the stack holds as
  many elements as the input leaves open, each with the last of its children
  (`StackShows`), and that in a tag its element is the tree's last node (`TagShows`).  The
  abstract tree numbers its nodes, so the mapping counts the visible ones (`OrdinalOf`); the lemmas
  of `RecursionProofs` say how a linked node changes lists, holders and numbers, and a lemma for
  each branch of the loop makes a step of `XmlTree`, or a stutter, of that.
* **`ArenaDomProofs`**: `TypeCorrect` and `ForestCorrect` (`DomIsForest`), with `InTagInv` (in
  a tag there is an element).  A forest is kept whatever link is overwritten because
  only new nodes, to which nothing links, are linked.  `AttrsCorrect` (`AttrsStay`): the
  attributes of a node are the nodes just behind it, made of the tokens just behind its
  own (`HasAttrs`), all of them once the tag is read (`Closed`), and no later link of the
  parser goes into that run.  `TreeBuilt` (`BuildsTheTree`) is the refinement of `XmlTree` on
  documents that nest no deeper than the array and whose end tags close something, with
  the same invariant about the saved pairs.  `PoolsTyped`, `NodesAreHandedOnce`, `AllocatedAreZeros` and
  `StoredStay` are about `DomPools`, which the arena parser allocates from.
  `NodeInv` relates each pool to what it has handed out: its pages differ, its cursor is
  on one of them, all nodes handed out lie before the cursor and are as many as counted,
  no written node lies behind it, and no page is in two pools.  A lemma for each way
  the cursor moves (one on, next page, new page, back to the start) keeps that;
  moves and destruction only permute or forget pools.  `StringInv` does the same for
  characters: the views of a pool lie on its pages, those on the current page before
  the place on it.
* **`DomBuilderProofs`**: `TreeFollowsCalls` (`TreeIsAsCalled`), `ContentAsCalled` (`ContentKept`) and
  `RemovalIsExact` (`RemovesExactly`), for any scripts, with any number of `end_element` too many
  and any removals.  `IInv` joins `TreeIsAsCalled` with what it rests on.  `StackIsOpen`: under the
  document lie the elements that the calls have left open (`OpenSince`: nothing since has closed
  them), each with the end of its list, so that the owner a call has by the definition of
  `OwnerCall` is the one on top (`OwnerIsTop`).  `MadeInOrder`: nodes come in the order of their
  calls, so that linking at the end is adding the latest call.  `TextsPlaced` and `OffsetsPlace`: texts
  and names lie where the node, or the list of offsets, says (`InPlace`), which appending does
  not disturb.  `NamesCounted`: the k-th node with a name has the k-th name.  Only together
  do they survive `build`, which counts and adds; behind it they are `NamesPlaced`.
  `UnlinkedLists` says of both removals at once that they take one member out of one list.
* **`ChunkedParserProofs`**: `EveryByteOnce` (`FedInOrder`) and `CarryIsBounded`.  The
  invariant says at the loop's head that what was fed and what is carried are the
  input up to `pos`, within the parser that the input up to `safe_end` was fed; the lemmas
  on slices and on `SafeBoundary` (the cut lies in the chunk, before a `<` within the
  look-back) do the rest.  The parser's own steps leave these variables alone.
  `LimitsCorrect` (`LimitsOverAllChunks`): until an exception, `depth` is the balance of the
  tags and `entity_count` the number of references in all events passed so far, over all
  chunks (`LimitInv`); only the first chunk resets, and before it nothing was passed.
* **`SaxParserProofs`**, limits: `LimitsCorrect` (`LimitsHold`), on every input, for every scanner and
  whatever the limits.  `SaxInv` has that each token lies within the input (`Walk`: so a callback says what
  stands there), and that while a document is read `depth` is the balance of the tags and
  `entity_count` the number of references in all callbacks so far, each of which kept to the
  limits (`Allowed`).  The names counted at the last value of a tag are all the attributes with a value that its
  callback shows (`Valued`, `TagBody`).  A recursive function yields the tokens of a text or of a
  tag; that they lie within the input follows by its rank.
* **`SaxParserProofs`**, index: `IndexCorrect` (`TagsAreIndexed`), for blocks of every length.  The quotes a
  document opens and closes are a function of its characters (`Follows`).  `IndexInv` says that at each
  block's edge the scanner's two bits, and in the scalar tail its character, are the quote that this
  function has there (`Tracked`), and that every structural character outside of quotes
  that it has passed is in the index (`Found`); that quotes close within each construct (`WellQuoted`)
  makes a tag's brackets such characters.
* **`SaxParserProofs`**, namespaces: `BindingCorrect` (`InnermostBinding`).  The invariant `NsInv` says that the
  array of bindings is the declarations of the open elements laid end to end, and that
  the scope starts are where each of them begins (`Laid`, by adjacent slices so that no fold
  is needed).  From that, the last binding of a prefix in the array lies in the innermost
  element that declares it.
* **`TextInputProofs`**, files: `OwnedOnce` (`MemoryOwnedOnce`) and `Loaded` (`SpanIsLoaded`).  `FilesInv` has,
  besides types: each reader's members fit together and with its region (`Sound`), no two
  own one (`Alone`), readers that do not exist own nothing, and, for a call of `open` under
  way, what its members are at each point and that the bytes read so far are the file's
  first (`Opening`).  `OneReplaced`, `OneShown` and `OneMoved` reduce every action to a change of one
  reader or an exchange between two; each action then has a lemma of its own.
* **`TextInputProofs`**, places: `PlaceCorrect` (`PlaceIsTheReference`), for every block size and every way to
  cut a text.  `TrackInv` adds that a call's remaining text does not begin between CR and LF when
  a block is about to be taken.  `OneMore` says how the reference changes with one byte more;
  `BlockMore` with a block without CR: its terminators are its line feeds, its last break
  the last of them.
* **`TextInputProofs`**, the whole way: `ValidationCorrect` (`ValidationIsExact`), `SitesCorrect` (`ErrorsShowTheirSite`),
  `TextCorrect` (`TextIsTheSources`), and `WayCorrect`, the first three properties again under the
  composed specification.  `TextInv` joins the invariants above with what the text is in each
  phase (`Prepared`), that nothing is tracked or reported before it is ready (`Advanced`), and that
  each report quotes the text as it still is (`Sited`).  What the recursive operators of
  `TextEncoding` compute is proved for sources of every length: the validator's scan stops at the
  first place that no row of Unicode's table fits; encoding code points as UTF-8 and reading
  them back gives them again; a UTF-16 source is cut into its units; and normalising keeps
  the number of lines and everything but the line ends (`Alike`).
* **`RecursionProofs`** has what these need of recursion.  The library's induction theorems take
  an operator as their parameter; `CountsTo` and `Recursion` say the same of a set of
  numbers, and of a recursive function whose calls lower a bounded rank.  From them
  follow `FlattenSeq` (`FlattenCons`, `FlattenAppend`; `FlattenHas`: where in the whole each part begins),
  how many members of a sequence are in a set (`NumberAppend`, `NumberConcat`), sequences built by steps (`StepByStep`)
  and the chains of `NodeLinks` (`ChainIs`: what the
  walk along `next_sibling` returns; `ChainKept` and `ChainAppended`: how a new node changes it).
  `LinksListed` says of a whole array that its lists are disjoint and go forward, `ListedMore` how a
  linked node changes them; `NumbersMore`, `HoldersMore`, `ItemsOfChild` and `ItemsOfAttr` how it
  changes the numbers and holders of the visible nodes, hence the tree they show.

## 7. Model-checked only

Liveness (`Drained`, `ParseReturns`), which the prover does not do.  Of the rest, by reason:

* What relates two readings of a document (`MergedIsSerial` but for its conjunct `BufferedValuesKept`, `EventsAreTheDocuments` in both
  parsers, `RoundTrip`): one of the two is a complete run of another machine, so a proof
  would need the invariant of that run as well.
* `DocumentChecks` (`IssuesAreMismatches`, `DtdErrorsExact`, `SchemaErrorsExact`, `SelectsTheNodes`), whose modules
  use `RECURSIVE` operators, which the prover does not take.

The types of the modules with theorems are proved (`TypeCorrect`, `PoolsTyped`, within the
invariants of `SaxParserProofs` and `TextInputProofs`) rather than checked by a run.

## 8. Not modelled

* `arena.*`: no parser uses it, only `parshred.hpp` includes it.
* Platform layer, vector primitives, Python bindings, command line, benchmarks, fuzz
  targets: macros and glue.  The searches in `simd_utils.hpp` are atomic steps of the models.
* Of file input: Windows, running out of memory, a buffer inside the reader's own memory.
* Of errors: exception types and the wording of messages, the 32 bits of line and column.
* Of encodings: the byte-wise search for `encoding=` in an XML declaration (which encoding is
  named is one byte in the model), `lookup_tables.hpp`.
* Of DTD: malformed declarations, content models (the code stores and never checks them).
* Of XSD: `Float`, `Double`, dates, times, durations and `pattern` (`std::regex` and floating point), the
  bounds of `Decimal`.
* Of XPath: fractions, `div`, infinity, `namespace-uri`, `id`, `lang`, `number()` without argument, and
  how characters become tokens where white space decides.
* Within modelled parts: characters below the level of tokens, statistics, the fields
  of XML declarations, failing allocations and thread creation.  `components` in
  `PROJECT.json` says so part by part.

## 9. Remarkable behaviours

What the models show or were built to include, besides the findings:

* `parallel_fast_dom_parse`'s pre-scan leaves a comment, CDATA section or DOCTYPE at its first `>`
  (`dom_fast.hpp:637`, against the comments at 609 and 619), so that a chunk may begin inside one;
  it takes `/>` in an attribute value for the end of the tag; with that in the root's tag, each of the root's children becomes a chunk at
  the document's level.
* The merge links only the first element of each later chunk to its predecessor: texts
  before it and, in a middle chunk, what follows it at document level are in the array
  but in no list.
* `find_safe_boundary` takes a `<` in a comment, CDATA section or DOCTYPE for a tag; the
  construct is cut, its first part dropped in silence, its rest parsed as markup.
* With `chunk_size = 0` the chunked parsers' loop does not advance.  `bytes_processed()`
  leaves out what is carried.  The code behind the loop of `ChunkedParser::parse` is never
  reached with something carried.
* `ParallelParser` starts no thread.
* The vector scanners take the quotes of both kinds apart: after `"it's"` they are within
  quotes, the scalar scanner is not, so that results depend on the processor.
* A `&` without `;` makes `Tokenizer::process_text` pass the text before it twice.  The token
  of an unterminated processing instruction ends two bytes behind the input.
* `SaxParser` counts attributes only where a value follows, and does not count the depth
  of self-closing tags.
* `DomBuilder` with an empty name gives all later nodes the names of others.  A comment in
  an element without child elements is written as text.  Line breaks in attribute
  values are written as they are and come back as blanks.
* `remove_child` of the root leaves `root_idx`: `root()` and `serialize` still show it.
* A moved-from `StringPool` keeps pointing to a page that belongs to the other, and a
  moved-onto one loses its pages without freeing them (`dom_pool.hpp:204`).
* `fast_dom_parse` makes no node of CDATA sections and comments, whatever the flags.
* `dom_parse` saves 64 pairs (`dom_parser_impl.hpp:386`), although `docs/conformance.md:148` speaks of a
  depth of 512: below, nodes are lost from the tree without an error.
* `find_safe_boundary` looks back 256 bytes only (`pipeline_impl.hpp:26`): a longer tag is cut,
  although the comment at `pipeline.hpp:76` says that tags are not.

Files, texts and places:

* After an `open` that failed behind `fstat`, `data()` is `{nullptr, n}` with `n > 0`
  (`mmap_reader.cpp:132`); the reader is not open, and the next call cleans up.  If the buffer
  cannot be allocated, the descriptor stays open.  `load_string` of a reader's own data reads
  what `close` has freed.
* A CR LF that is split between two calls is counted twice if the second call begins with
  a block without CR (`error.hpp:424`, against the comment at 359).
* `format_error`'s caret is the middle of the snippet, so it is off near both ends of a text.
* A UTF-8 mark is kept, as three characters, when the declaration names Latin-1.  A high surrogate
  before a unit that is no low one swallows that unit.  UTF-32 is detected and refused.

Namespaces, DTD, XSD:

* `resolve_name` gives an unprefixed attribute the default namespace.
* `check_wellformedness` takes the first `/` or `>` of a tag for its end, in values too.
* Of two declarations of an entity the last wins; parameter and general entities share
  a map.  `ENTITY`, `ENTITIES` and `NOTATION` are read as names of further attributes.  The
  value of a `#FIXED` attribute is never checked (`docs/conformance.md:64`: "`#REQUIRED` and
  `#IMPLIED` checked; `#FIXED` checked").
* An element's content always passes the facets' path, which needs a `long long`: an
  `Integer` or `UnsignedLong` beyond it, `+5` and a value with blanks around it are refused
  there and accepted as attributes.  `+5` is refused by all types that use `from_chars`, `-0` by
  `NonNegativeInteger`, leading zeros by `PositiveInteger`.

XPath:

* An explicit axis never parses: `read_name` (`xpath.hpp:684`) takes the colons for part of the
  name, so that `following-sibling::b` asks for an element of that name and selects
  nothing (`docs/conformance.md:175` lists the axis as supported).  An expression that is no path,
  as `count(//b)`, is read as a step of that name and selects nothing.
* What `//` reaches is neither in document order nor each node once (`//a//b` below
  nested `a`); `evaluate_count` counts the copies, and `evaluate_string`'s first match
  (`xpath.hpp:1626`) need not be the first in the document.
* `[@a]` is false of an empty value, `[@a != 'v']` true of a missing attribute, `[*]` always
  false; the rest of `[./a]` and `[../a]` is ignored; `[text() = 'v']` compares the content of the whole
  element; an attribute has no parent.
* A string that only begins with a number counts as that number.

## 10. Plan

Done, in this order: pull parser, flat DOM, arena DOM, parallel DOM, fast SAX with the
chunked parsers, builder and writer, SAX, pools; file input, line tracking, encodings,
namespaces, DTD, XSD, XPath; the proofs of section 6.

What would add most next:

1. Proofs: of `ParallelDom`, the rest of `MergedIsSerial`.
2. Abstract specifications for `ChunkedParser` (a parser fed the whole document) and for
   `DomPools` (a bag of cells), with step simulation proved where no fold is needed.
3. The text forms of numbers with fractions, for the rest of XSD and XPath.
4. `Arena`.

## 11. Running

    tlasany M.tla                               parse a module
    tlc -workers 2 -config C.cfg M              check a run (names in PROJECT.json)
    tlapm M.tla                                 check the proofs of a module

Each passing run ends within three minutes on two cores.
