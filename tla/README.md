# Verification of gr-flowgraph

gr-flowgraph turns a `.grc` document, as the GNU Radio Companion saves it, into
a running GNU Radio flowgraph: it parses the XML, makes a block for each entry,
wires the blocks and hands the caller a `FlowGraph` to start, stop and query.
This directory holds TLA+ modules translated from that code, the TLC
configurations that check them, and proofs that TLAPS checks.

## 1. Inventory

| Component | Source | State | Operations |
|---|---|---|---|
| Value conversion | `flowgraph_impl.h:55-266`, `exprtk_impl.cc` | none; an uninitialised local (`retval`) is part of the result | `convert_to`, `param_value`, `is_param_set`, `eval_param_value`, `eval_param_vector`, `eval_param_enum`, `evaluate_expression` |
| `GrcParser` | `flowgraph_impl.h:280-358`, `flowgraph_impl.cc:66-148` | the stream, `d_blocks`, `d_variables`, `d_connections`, `d_top_block`, `d_parsed` | `parse`, `collapse_variables`, readers |
| `BlockFactory` and 42 makers | `flowgraph_impl.cc:150-1344` | `handlers_b`, fixed after construction | `make_block`, `common_settings`, one `make` per maker |
| Picoscope configuration | `flowgraph_impl.cc:664-988` | the device | a sequence of setters between reads |
| `make_flowgraph` | `flowgraph_impl.cc:1346-1394` | locals: parser, graph, `disabled_blocks` | the call |
| `FlowGraph`, building | `flowgraph.h:116-158` | `d_block_map`, `d_top_block` | `add`, `connect` |
| `FlowGraph`, running | `flowgraph.h:169-199` | `d_started`, the state of `gr::top_block` | `start`, `stop`, `wait`, `was_started` |
| `FlowGraph`, sinks | `flowgraph.h:201-392` | reads `d_block_map` | `*_apply`, `get_*`, metadata |
| Timing events | `flowgraph.h:394-405` | queues inside the realignment blocks | `post_timing_event` |
| exprtk | `exprtk.hpp` (vendored), `exprtk_impl.cc` | symbol table, token list and parser of one evaluation | `add_constant`, `compile`, `value` |
| constants, example, tests | `constants.cc.in`, `examples/`, `test_*.cc` | none | I/O, one-thread client, evidence of intent |

**Interactions.** `make_flowgraph` owns a `GrcParser`, a `BlockFactory` and the
`FlowGraph` it is about to return: it calls `parse`, `collapse_variables`, then
for each block `make_block` and `FlowGraph::add`, then for each connection
`FlowGraph::connect`. The makers read parameters through `BlockInfo`, which
converts texts and calls exprtk with the *uncollapsed* variables of the parser;
those of the picoscopes open a device and configure it between two reads. An
exception at any point destroys all of it. The finished graph is used by the
threads of its owner; `start`, `stop` and `wait` forward to `gr::top_block`,
whose scheduler runs threads of its own, and `post_timing_event` fills queues
that those threads work off. There is no lock in `FlowGraph`.

**What is hard here.** Order and repetition in documents (variables that name
variables or share an id, blocks that share an id, entries that throw in the
middle); conversions at their boundaries (no digits, out of range, expressions
without a value, undefined casts); one faulty variable breaking blocks that do
not name it; a block that is disabled but still wired; a device half configured
when an exception comes; names of sinks that two blocks share; the two halves
of `start` and `stop`; `wait` on a graph that nobody stops; several event queues
of which one is full while two threads post; and in exprtk a lexer that looks
ahead, passes that rewrite the tokens, a parser that rewrites them again, and a
table that refuses names in silence. `PROJECT.json` lists each under `hazards`
at its line.

**What makes each part correct.**

* Conversion: a value is what its text denotes, or the call throws.
* Parser: its vectors are the document's blocks, enabled variables and
  connections, in order, once; a refused document is never marked as parsed.
* Factory: no argument of a block is invented; a document makes one block; a
  picoscope comes out configured as its parameters say, or not at all.
* `make_flowgraph`: a graph of exactly the enabled blocks and the connections
  between them, or an exception, and that only for a document with a fault.
* Running: the flag tells whether the graph runs; a stop ends it; `wait`
  returns.
* Sinks: what a visitor reports can be fetched by name.
* Timing events: the answer says whether every block took the event, and each
  takes it once.
* exprtk: an expression has the one meaning its text has, or none.

## 2. Modules

| Module | Models | Notes |
|---|---|---|
| `ParamValue` | conversion and expressions as the makers use them | operators; the outcome of a conversion is a *set* |
| `BlockFactory` | makers, `make_block` | a maker is the set of reads it does |
| `PicoscopeSetup` | the makers of the 3000a, 4000a and 6000 | extends `BlockFactory` with the order of reads and setters |
| `MakeBlock` | a call of `make_block` for any block and any variables | a picoscope step by step, any other block at once; the properties of what was made |
| `GrcDocument` | the entries of a document and what it says | shared by parser and abstract specification |
| `GrcParser` | `class GrcParser` | state machine, one action per loop iteration |
| `GraphOfDocument` | which graph a document describes, and which faults leave it without one | reference definition |
| `FlowgraphMeaning` | what `make_flowgraph` promises | abstract specification: one answer, by `GraphOfDocument` |
| `MakeFlowgraph` | `make_flowgraph`, `add`, `connect` | composes `GrcParser` and `BlockFactory`, refines `FlowgraphMeaning` |
| `FlowGraphControl` | `start`, `stop`, `wait`, `was_started` | state machine, threads |
| `SinkRegistry` | `add`, the visitors, the getters, the metadata | state machine; readers are operators |
| `EventBroadcast` | what `post_timing_event` promises | abstract specification |
| `TimingEvents` | `post_timing_event` by several threads | refines `EventBroadcast` |
| `ExprChars` | the classes of characters, capitals, names | operators |
| `ExprLexer` | exprtk's `lexer::generator` | state machine, one action per turn of its loop |
| `ExprTokens` | inserter, joiners, replacer, scanners | operators on token sequences |
| `ExprParser` | exprtk's `parser` | state machine; the C++ stack is a variable |
| `ExprGrammar` | what an expression means as it is written | reference definition: a set of meanings |
| `EvaluateExpression` | `evaluate_expression` | composes symbol table, `ExprLexer` and `ExprParser` |
| `*Proofs` (eight) | theorems | one module per component |
| `MC*` | documents, calls, graphs and texts for TLC | |

Definitions have the names of the source where there is one; `PROJECT.json`
(`map`) gives the lines each one translates. Operators marked *(fault)* are
plausible bugs that stand beside the definition they vary and are used by no
specification: substituting one for that definition makes the property named in
`PROJECT.json` (`mutants`) fail, which shows that the property can fail.

### Correspondence

*Texts.* For the makers a parameter is one of the shapes the code tells apart:
a number, a word, twice a variable (the one composite expression there),
`firdes.X`, a text in quotes, a bracketed list, the empty text, blanks only, a
pair of quotes. Numbers are counted in halves, so integer and decimal texts
differ. `int`, `unsigned` and `size_t` have the ranges that follow from
`MaxInt`, with the saturation of `operator>>` and the wrap-around of unsigned
reads; `float` and `double` are not told apart, and round and square brackets
are not. A name is looked up as exprtk does it: in any capitals, in a table that
keeps the first of the variables that differ in nothing else (`symbol_table`).
Which words are the same but for their capitals (`Lower`), in which order
`std::map` has them (`Less`), and which ones the table and the parser keep for
themselves (`ReservedSymbols`, `ParserWords`) are constants, since a word is a
value and has no letters; `MCWords` gives them. What exprtk makes of brackets and
every other expression is in `EvaluateExpression`, character by character because
its lexer reads characters.

*Outcomes.* `convert_to` and everything built on it return the set of possible
outcomes: empty for an exception, more than one where the code reads an
uninitialised variable, casts a number its type cannot hold, or follows
`find()` past the end of a map.

*Parser of documents.* `position` is the place of the `foreach` in `parse()`; an
action reads one entry whole, as the branch of the loop does, and `Throw` leaves
the vectors as they are. `result` is how the last call ended.
`collapse_variables` is one step: nothing can observe it half done. `IsRefused`
is the code's two reasons to throw: a node that `get<>` does not find or a port
that is no integer (`tag = "broken"`), and a variable whose `_enabled` cannot be
read. The owner may call the two operations in any order and repeatedly.

*Factory.* A maker does all its reads before the block can be seen by anyone, so
the order of reads decides only the wording of the exception and a maker is a
set. The arguments of a block are what each of its reads gave; a call may turn out
in every way the reads may (`Selections`), and in none if one of them throws. The exception is the picoscopes, which are devices: `PicoscopeSetup` has
one action per group of reads and the setters behind it. `present` and
`rejected` are the device's, external: whether it is there, and which setters it
refuses. A setter is its name and its channel; the values are those of the block
that `make_block` gives at the end (`ReturnDevice`), which is the same because
each parameter is read once. An exception of a setter, of a read, or of
`common_settings` after the maker has returned closes the device, as the last
shared pointer to it goes.

*`make_flowgraph`.* `phase` and `index` are the program counter. `Parse` takes
the steps of `GrcParser!parse`, so the composition is of the whole parser and
not of a summary. `AddBlock` is `make_block` followed by `FlowGraph::add`,
`Connect` is `FlowGraph::connect` followed by `gr::top_block::connect`. Of the
latter the model has what makes it throw: a port the block does not have, a
block wired to itself, two ports whose items differ in size, an input that is
taken. `Ports` is the same for every block, `Mismatched` has the connections whose
ends differ in item size (the sizes are those of gnuradio's blocks, external to
this code), and `Absent` names the blocks whose gnuradio constructor throws
because a device is missing; other constructors do not throw in the model.

*Control.* `start` and `stop` are two steps each: the call of the top block, and
the write of `d_started`. `was_started` is a read and no action: `WasStartedTells`
speaks of the flag in every state. `jobs` and `waited` stand for
`gr::top_block`, external to this repository: `start` throws when the block has
run and was not waited for, or when `gr` finds the graph incomplete; `stop`
only asks; `wait` returns when no thread runs. `complete` and `ends` are
properties of the graph, chosen at the start: whether all its ports are
connected, and whether its sources come to an end.

*Sinks.* A name is a sequence of words, and `id + "_" + signal` is concatenation,
so that different pairs may give one name. The type of an entry is the key its
block was made from, as `make_flowgraph` passes it. A visitor is the set of what
it hands to its callable; a getter is the set of the one sink it returns, or
empty for a null pointer. `Rank` is the order of `std::map`, which decides which
of several sinks a getter finds first.

*Timing events.* One action is one turn of the loop over the realignment blocks
(`Taken`, `Refused`), so loops of several callers interleave block by block and
with the blocks' own work (`WorkOff`). A block is external: it takes an event
while it has room for it. A repeated event is a call of its own.

*exprtk.* The lexer's state is its place `s_itr_` in the text and its token
list; each action is one turn of the loop in `process` with one of the functions
it calls, a failing one ending with `result = "false"`. Passes over the tokens
are one step each, since nothing sees them half done. The parser's recursion is
the variable `stack`: a frame has the function, where it goes on when its
callee returns, and its locals; `ret` is the returned node. `stack_depth`, which
each frame remembers, counts the frames that `stack_limit_handler` counts, which are
not those of `?:`. Every
variable of the flowgraph becomes a *constant* of the symbol table, so each node
is folded into a literal as soon as it is made and the parser's strength
reduction is out of reach: a node stands for its value, a term in which signs
are moved only as floating point allows exactly. `ExprGrammar` says what a text
means without the passes and without precedence climbing, from the split of the
tokens as they were written.

## 3. Runs

| Run | Question | Bounds |
|---|---|---|
| `parser` | Does the parser keep exactly what the document says, whatever is called when? | every document of up to 3 entries from a pool of 13 |
| `factory` | Is what a block is given what its texts denote, and does a picoscope come out as asked or not at all? | every supported key; each parameter left out or given 17 other texts; 8 lists of variables, with names set twice, to nothing, to blanks in quotes, with `Rate` beside `rate`, and with names that are exprtk's own (`True`, `If`, `default`); `MaxInt = 3`; for picoscopes every source and mode, each device missing, each setter rejected |
| `make` | Does `make_flowgraph` implement `FlowgraphMeaning`, and is nothing lost or invented on the way? | up to 3 free entries after the options, and up to 3 entries after two blocks |
| `one_controller` | Does `was_started` tell, `stop` end the graph, `wait` return? | one thread that starts and stops, two more that wait |
| `sinks` | Do visitors, getters and metadata agree on the sinks, for every graph and while it is built? | 4 ids and 3 signals that collide in each possible way, 9 kinds of block |
| `events` | Does the loop implement a broadcast when blocks fill up and threads interleave? | 2 callers, 3 calls, 2 blocks of capacity 1 |
| `evaluate` | Does `evaluate_expression` give a text the one meaning it has? | about 14000 texts with their variables (below); `max_stack_depth = 16` |
| `two_controllers` | The same flag with two threads that start and stop | violated |
| `variables_replaced` | "Replace all the variables with real numbers" | violated |
| `arguments_have_values` | Is an expression without a value an exception? | violated |
| `converted_as_written` | Is a number that is converted the number that was written? | violated |
| `brackets_taken_off` | Does a vector have the elements between its brackets? | violated |

*Why the bounds are enough to be of interest.* The parser treats entries one by
one, and its properties relate at most three: a variable, one that shadows or
names it, and a block; three entries hold each such triple in each order, with
an entry that throws before, between or after. For `make` the hazards need two
blocks and two connections into one input, or two blocks and a variable; the
second family of documents begins with two blocks and a missing variable so
that three more entries reach them. `MaxInt = 3` puts the limits of every type,
one beyond them and the sums of `Twice` into a range that `AnyValue` can
enumerate. In `factory` expressions name `rate` and `RATE` where a document has
`rate`, or `Rate` and `rate` with different values, and name words that the table or
the parser keeps for itself; the other names that are refused are in `evaluate`.

In `sinks` the name `a_b_c` is an id, the sink `b_c` of `a` and the sink `c` of
`a_b`, and blocks are added in every order. In `events` either block may be the
full one, and three calls of two callers hold both a pair that overlaps and a
pair that does not.

`evaluate` enumerates families, each over an alphabet of its own: for the lexer
all texts of up to five characters of numbers, of comments and of strings, up to
four of operators, up to three of a mixture, and single long ones (special
functions, escapes, exponents at the limit); for the parser all sequences of up
to four or five operands and operators of arithmetic, brackets, `?:`,
comparisons, logic and `;`, every two operators in a row, and nests of
each construct to beyond the stack limit, which is 16 in the run and 400 in the
code; for the symbol table up to three names that differ in capitals, are
prefixes of each other, hold dots or are reserved.

*Deadlock.* It is checked for the parser, which can always be called again. The
calls of the other runs end (`make_flowgraph`, `make_block`,
`evaluate_expression`, the calls of `events`, a full graph in `sinks`), and the
owner's threads may all wait for a graph that does not end by itself.

*Fairness.* `GrcParser`, `MakeFlowgraph` and `EvaluateExpression` are sequential:
a call that is under way goes on, hence weak fairness of the step inside a call,
and none of making a call. In `TimingEvents` a caller's loop goes on, and that
suffices for its answer: no fairness of the blocks is needed, because a full
block refuses and does not block. In `FlowGraphControl` a call whose answer is
ready returns, and the threads of the top block end once they are asked to or
their work is done (`gr` checks for the request in each iteration of a block's
thread). Nobody is obliged to call `stop`, so `WaitReturns` claims nothing of a
running graph.

## 4. What the runs found

* `two_controllers`: `d_started` is written after the top block has acted, with
  no lock. One thread stops the graph and is about to write `false`; the other
  waits, starts it again and writes `true`; then the first writes: the graph
  runs and `was_started()` answers `false` from then on (`flowgraph.h:169-191`).
* `variables_replaced`: one pass replaces a parameter by the text of a variable;
  if that is the name of another variable, the name stays
  (`flowgraph_impl.cc:131-148`).
* `arguments_have_values`: an expression that does not compile is NaN and the
  block is made with it; the exception the code has for that case is never
  thrown (`exprtk_impl.cc:25`, `flowgraph_impl.h:184`).
* `converted_as_written`: the test after `operator>>` is of `eof` only, so an
  empty text reads an uninitialised variable and a number out of range becomes
  the limit (`flowgraph_impl.h:73-78`).
* `brackets_taken_off`: `()` is a vector of one NaN (`flowgraph_impl.h:210-212`).

Where the lexer of exprtk differs from its own comments, without effect on what
is evaluated:

* The comment on symbols lists `abc.<eof>` as disallowed (`exprtk.hpp:2825-2828`);
  the code takes the dot into the symbol, because it looks behind the dot only if
  the text goes on. `SymbolsAreNames`, a part of `TokensAreWhole`, says so of the
  lexer.
* The comment on numbers lists its formats (`exprtk.hpp:2848-2865`); the lexer
  takes `1e+`, `1e2e3` and `1e2.5` for numbers as well (`NumbersAreOne`).

No such token gets further than the lexer's list: the table takes no name that
ends in a dot, and `string_to_real` refuses the numbers. `OperandsAsListed` says
that whatever compiles has only numbers and symbols of the listed formats. The
list of numbers has none like `123e4`, which the code reads as it is meant; the
property counts the dot as optional.

What else the passing runs record and a user of the code may not expect:

* Expressions are exprtk's, not Python's: `//` and `#` begin comments
  (`samp_rate//2` is `samp_rate`), `0x10` is `0*x10`, `**` is refused, and
  `samp_rate true` evaluates to 1, that of the second of two expressions.
* Of variables that differ in capitals only, the first in the order of their
  names is read for all of them. The table's reserved names are told apart by
  capitals while the parser's words are not: a variable `If` is taken by the
  table and is a statement to the parser.
* When the last two tokens are joined, `process_stride_2` leaves the last one in
  place as well; every such text is refused afterwards, so it does no harm.
* Three signs in a row are refused, and so is an expression with more nested
  parts than the stack limit, although each has a meaning.
* A block may hide a cascade's sink of the same composite name from
  `get_time_domain_sink`; the visitors still report it.
* An unknown acquisition mode of a picoscope is found out last, when the device
  has been opened and all of its channels set.

## 5. Proofs

TLAPS checks the following for every value of the constants, that is for every
set of documents of any length, every width of `int`, every choice of ports and
of missing devices, every set of threads, blocks and names, every capacity and
every text. The only assumptions are the named ones of the modules: `MaxInt` is
a natural number, the keys `options` and `note` are no variable keys, documents
are sequences of entries, controllers are threads, `Rank` and `Order` are
injective, plain sinks have one signal of their own kind, texts are sequences of
characters, a flowgraph has finitely many variables, `max_stack_depth` is a natural number. TLC evaluates them in every
run of a module that extends theirs.

| Theorem | States |
|---|---|
| `Typing`, `MakeTyping`, `ControlTyping`, `RegistryTyping`, `EventsTyping`, `LexerTyping` | the type invariants |
| `ParsedOnlyIfAccepted` | `ParsedMeansAccepted` |
| `VectorsFollow`, `VariableNamesReplaced` | `VectorsFollowDocument`, `OnlyVariableNamesReplaced` |
| `DocumentReadOnce` | `ReadAtMostOnce` |
| `NoBlockLost`, `NoBlockInvented` | `BlocksAccounted`, `BlocksJustified` |
| `WiringIsClosed` | `WiringClosed` |
| `NoConnectionLost` | `ConnectionsAccounted` |
| `GraphGrows` | `GraphOnlyGrows` |
| `AnswersAsMeant` | `make_flowgraph` refines `FlowgraphMeaning`, the safety part of `MeansTheDocument` |
| `AnswerAlwaysNears` | `AnswerNears`: each step of `make_flowgraph` leaves fewer of them |
| `ParsesAsParser` | `make_flowgraph` refines `GrcParser` |
| `OneControllerIsTold` | `WasStartedTells`, if one thread starts and stops |
| `GetterIsHonest`, `OnlyNamesHide` | `FetchedIsReported`, `HiddenOnlyByItsName` |
| `PostMortemAgreement`, `MetadataAgreement` | `PostMortemAgrees`, `MetadataOfTheVisited` |
| `NamesKeepTheirSinks` | `NamesStay` |
| `AnswersTell`, `CallsInTurn` | `AnswerTellsAll`, `InTurn` |
| `NoEventTwice` | `TakenOnce` |
| `LoopImplementsBroadcast` | `ImplementsBroadcast`, the refinement |
| `LexerAdvances` | `Advances` |
| `LexerLosesNothing`, `CommentsAreListed`, `TokensWhole` | `NothingLost`, `CommentsAsListed`, `TokensAreWhole` |
| `LexesAsLexer`, `ExpressionKept` | `evaluate_expression` refines the lexer; `NothingLost` of it |
| `FirstIsRead` | `FirstOfAKind` |
| `RecursionIsBounded` | `RecursionBounded` |
| `ReturnsAlwaysAwaited` | `ReturnsAreAwaited`: each frame waits for the one above it |
| `ParserAlwaysAdvances`, `EvaluationAlwaysAdvances` | `ParserAdvances`, `EvaluationAdvances`: each step leaves fewer of them |
| `ValuesAlwaysDerived` | `ValuesAreDerived`: what is compiled is what the grammar derives for the tokens |
| `NothingDefaulted`, `ArgumentsDenoted` | `NothingIsDefaulted`, `ArgumentsAreDenoted` |
| `SameBlock`, `FractionsStop` | `SameDocumentSameBlock`, `FractionStopsIntegers` |
| `ConfiguredOrClosed`, `ArmedLast`, `ThrowsOnlyForFaults` | `ReturnedAsWritten`, `ArmedWhenConfigured`, `ThrowsForItsFaults` |

*Along which argument: parser, make, control.* `Typed` is `TypeOK` with the
vectors as sequences of `BlockInfo`; it is inductive because a block info built
from an entry is one (`BlockInfoOfEntry`, which needs that the greatest index of
a name exists, `MaxIsMember`) and because replaced parameters are still texts
(`ValueTextsAreTexts`). `ParsedMeansAccepted` is not inductive: `AcceptedSoFar`
adds that no entry before `position` was refused, which `end_of_document` turns
into the whole document. `MakeTyped` adds to the types how far the two loops
may be (`index` is at most one past the end), so that leaving a loop means
having gone past everything. The wiring is closed because connections are made
only after all blocks are (`EmptyBeforeLoops`): a block that is disabled or
added later would break it. `NoBlockInvented` needs the other half of
`EmptyBeforeLoops`, that nothing is in the graph while `collapse_variables`
rewrites the blocks. `FlagFollows` says what the top block does while the one
controller is between the two halves of a call; it is what a second controller
breaks. The proofs use of `make_block`, `Enabled` and the conversions only that
they are functions of their arguments: the theorems hold however these answer.

*The parser against the document.* What a document says is stated by places: the
`k`-th block is at the place that has `k - 1` block places before it (`Nth`), so
that no definition by recursion over the document is needed. `ReadSoFar` is the
invariant: there is an entry up to which each vector is what the document says at
the places before it (`Until`), the one the loop is at, or where it stopped, or
the end if the document is parsed. Going past an entry adds its place to those of
its sort and is greater than all of them, so it becomes the last `Nth` and the
others stay, which is all an induction would have given. What is read so far is a
prefix of the whole, hence `VectorsFollowDocument`. While the loop is running the
blocks are those of the document; after it `collapse_variables` may have been
called any number of times, and `Replaced` is what it preserves: a parameter is
what it was, or was the id of a variable and is the value of one.

*`make_flowgraph` against the meaning of the document.* `Building` is the
invariant. `FollowsDocument`: before `collapse_variables` the blocks are those of
the document, then those with their variables replaced, and an exception has a
fault. `BlocksBuilt`: of the blocks the loop went past, the enabled ones are in the
graph under ids of their own, each made from its parameters, nothing else is, and
an id is remembered as disabled exactly if a disabled block has it. `WiresBuilt`:
the wires are the connections behind that touch no remembered id, each with both
ends and an input of its own. Each action is then a step that keeps the outcome
pending (`StepsBeforeAnswer`) or an answer (`StepsMean`): an exception needs
`Fault(document)`, and `Return` that there is none and that the graph is one of
the document (`ReturnedGraph`). That there is an answer at all rests on
`StepsToAnswer`, which falls with each step. While the document is read the
measure counts each entry twice, for the turn of `parse` and for the block or
connection that it may become; `OneForEachEntry` says that it becomes one at most,
and `collapse_variables` keeps their number.

*Sinks.* Beyond typing there is no inductive invariant: the properties follow
from the shape of the map in any typed state. `OnlyNamesHide` is a case split on
who owns the name; its last case needs that of the sinks called by one name the
getter's choice exists and is unique, which comes from `Rank` being injective
(a least rank exists, `LeastNat`, `FirstExists`). The same choice is what the
getter of `PostMortemAgrees` makes. `MetadataAgreement` says of each kind of
block which sinks are visited and which the metadata lists, and compares the two
block by block. `NamesStay` is an action property: a block that is added adds
only sinks it owns.

*Events.* `IInv` strengthens the four properties by what a loop in progress
knows: every block before `place` has the event or has refused it and no block
from `place` on has either, `success` is true exactly if no block behind has
refused, a call belongs to one caller and is unanswered, and a call that is
`before` another is answered, with nothing of it still to come. The refinement
maps `taken` to the pairs of the logs: a turn of the loop is a step of the
broadcast, `WorkOff` and nothing else stutters.

*Lexer.* `LoopStep` lists what a turn of the loop can be: blanks, one comment or
one token, each an interval that begins at the current place and ends in the
text. It holds because each scanning function is the *first* place from which
its condition fails (`First`), and that lies beyond the current character; the
property `Within` says the look-ahead of one and two characters stays in the
text. `NothingLost` is then that intervals are laid side by side. `LexesAsLexer`
shows that each step of `evaluate_expression` is a step of the lexer or leaves it alone, so what is proved of it holds of every expression that is evaluated.
`TokensAreWhole` is not inductive. `WholeInv` says of each token that it is whole
(`Whole`), that none is an error unless the lexer failed, and what is known of a
string while it is scanned (`SoFar`): the function flips a flag at each
backslash, and the property counts the backslashes before a quote, so the flag
must be the parity of the run (`RunExists`, `RunIsOne`, `BackslashesNext`,
`OddEven`). A number has one point because its scanning function stops at a second
one, but it may have several exponents; that those do not evaluate is
`OperandsAsListed`. What a token stops at is what `LongestTokens` asks for.

*Symbol table.* `FirstOfAKind` is not inductive: `TableInv` adds `KindsKnown`,
that for each variable already tried and acceptable the table has one that
differs from it in capitals only. With it, a name that is refused was refused
for one that comes before it in the map, since the loop goes through the
variables in order.

*Recursion of the parser.* `parse_ternary_conditional_statement` has no
`stack_limit_handler`, so the counter alone does not say how deep the C++ stack is.
`Counted` says of each frame that its counter is within the limit and that the
frames from it down are at most twice its counter, one less if it is counted
itself. A frame of `?:` keeps the counter and is called by an expression or a
branch only, never by another one of `?:`, which is where the factor comes from;
`StepsOnStack` reduces the 25 actions to six ways of changing the stack. The recursion
is at most `2 * max_stack_depth`, 800 in the code.

*Progress of the parser.* `parse_corpus` begins a new expression where the last one
has ended, `;` or not, and the parser puts products into the list that it reads, so
it is not plain that it ends. `StepsLeft` counts, for each token not yet read, a
product that may be put in before it and all the steps that a full stack may take
before it is read (the depth is bounded by `RecursionBounded`), and then the
steps that are pending on the stack. `ProgressInv` adds to the bound which function
waits for which at which place (`AwaitedCalls`), that a function without a value
to take stands where it goes on by itself (`ReadyPoints`), and that before the
parser there are sequences of tokens. The latter is a fact about the passes, which
are recursive functions. Each value is made of the value at one place of lower rank
(`IsRecursion`), so a place of least rank at which the function did not unfold, or
was not typed, would have a lower one (`LeastRank`, `RecursionTyped`): an induction
that needs no operator as a parameter. `EvaluationAdvances` orders the parts: names to add, turns of
the lexer, passes, steps of the parser.

*What the parser computes.* `ExprGrammar` has the grammar as rules on a relation `M`
between parts of the tokens, how tightly a part binds, and meanings (`IsGrammar`).
`ValuesAreDerived` says that the tokens are cut into parts, none left out, one for
each value the parser has made, and that each value is a meaning of its part in
*every* relation that satisfies the rules, hence in the least, where only what has
a derivation is. In this form nothing is defined by recursion, and the induction over
the derivation is the one over the steps of the parser. `DerivedInv` is the
invariant. By `TracedInv`, for each `M` that satisfies the rules for the tokens
read so far there is for each frame a place where its part of the tokens begins,
with which the frames fit together (`Linked`); what a frame holds already, a left
operand, a condition, a consequent, is a meaning in `M` of the part up to the
operator that it has read, at the level its `precedence` demands; and a value that is
being returned is a meaning of the part from where the function that returns it
began up to the current token, which, if an expression returns it, is no operator
that it should have taken (`Given`, `NextBelow`). What is
read is never changed by a product put in (`PartedMoves`), but the list grows behind
it, so the rules are asked of the part that was read and a larger relation is never
needed. That precedence climbing groups to the left, that `^` groups to the right and
binds tighter than the sign before it, and that `?:` takes the whole condition on
its left are the cases of the proof, not assumptions of it. The proof showed where the
grammar had to say more than a textbook one: where a product is put in between two
brackets the opening bracket is there twice, and the first is skipped (`PutIn`); and
a bracket may hold a `;` before it closes. `TracedInv` also needs that the tokens
do not end in an opening bracket, which is what `bracket_checker` is for.

*Picoscopes.* `SetBefore(phase, next)` says what has been set when the maker is
at a phase and a channel: the common settings, the enabled channels before
`next`, and so on until all that is `Wanted`. `SetupInv` states that the setters
called so far are exactly those, without repetition, that the device is open
meanwhile with the `auto_arm` of its mode, and that it is not open after an
exception. Each step adds setters that differ from all before it, because the
channels and ports of a device differ (`NotYetSet`) and the phases use different
setters (`SetterNames`). The acquisition is set from the last phase but one on
only, hence `ArmedWhenConfigured`; that its setter is the one that arms a device is
assumed of the digitizers' drivers, which are not in this repository. Nothing is used of what a parameter reads as
but that a text is one word (`WordsDiffer`). `ThrowsForItsFaults` needs what has been
read beside what has been set: `ReadBefore(phase, next)` are the reads done when
the maker is there; `ReadInv` says that they all gave a value, that no setter made
was rejected, and that an exception has a fault. Each group of reads is part of the
maker's (`PartsBelong`), so that a read that throws is a fault, and at the end
they are all of it, so that a device that is returned has none.

*Makers.* The theorems speak of any call of `make_block`: every block, every list
of variables, every device. `MadeInv` is all the induction there is: the document
does not change during the call, and the block returned is one `make_block` may
give, at the end of a picoscope's steps too. The rest is about operators. The
table `handlers_b` enters by one fact, `Known`: each read of each of its rows is of
one of six kinds and evaluates to a number type. By `ArgumentsRead` an argument is
an outcome of its read. `MapOf` says what the map of variables has for a name: what
the *last* variable of that name converts to, and that one value that does not
convert leaves no map at all, which is `FractionsStop`. `FoundIsMeant` says that
what the table finds for a name in any capitals is the first of its spellings,
and `SettingsOfMeant` which variables set that one. `NameEvaluates`,
`TermEvaluates` and `ExpressionEvaluates` go up from a name to a text: in each of the
maps of a type the text has the number it denotes, if the type can hold it, for which
`InRangeFacts` says that the conversion stores and the cast keeps a number in range,
and `HalfInRange` that a name under `Twice` is in range if the product is.
`ArgumentsDenoted` follows. `SameBlock` needs that a read that is `Determined` has one outcome
at most (`DeterminedOnce`, kind by kind; for vectors that each part has the same
value in every map), and that then the makers have one way to turn out
(`OneSelection`). What `Determined` excludes is where the code reads an uninitialised
variable or casts what cannot be cast: the theorem says that there is no other place.
The provers were of use before anything was proved: a `CASE` of `symbol_value` left
open which of two values a variable called `True` has, TLC took the first, and
`NameEvaluates` could not be proved until the arms were told apart.

*Model-checked only.* Liveness (`ParseEnds`, `StopEndsTheGraph`, `WaitReturns`,
`CallsAnswered`, `Evaluated`, that `make_flowgraph` answers) needs fairness and
`ENABLED`, which the prover does not handle. Of `Evaluated` and of the answer of
`make_flowgraph` the other half is proved, that the steps cannot go on for ever
(`EvaluationAlwaysAdvances`, `AnswerAlwaysNears`); that there is a step until then
is TLC's. `MeansWhatIsWritten` and `RefusedForAReason` compare with the `Meanings` of
the text as it is written, which are defined by recursion over it: what a recursive
definition computes needs an induction that the prover cannot instantiate. `OperandsAsListed`
is not proved either: it follows each token from the lexer through the passes, the
checks of numbers and the parser's look-up of names. Of `MeansWhatIsWritten`, `ValuesAlwaysDerived` proves the part that concerns the parser: its value is
*a* meaning of the tokens it has read. That those tokens mean what was written
before the passes, and that there is no other meaning, stay with TLC, and so does the
converse, that what has a meaning is not refused. Every other property of a run is
a theorem.

## 6. Not modelled

* *exprtk beyond expressions of a flowgraph*: `exprtk.hpp` is a vendored header
  of 46066 lines, of which `evaluate_expression` reaches the lexer, the passes,
  the parser and the symbol table. These are modelled for numbers, names,
  operators, brackets, `?:` and `;`. Function calls, statements, assignments,
  strings and vectors are lexed in the model and then end it with the outcome
  `"other"`: no expression in the repository's documents or tests has them. The
  node types, optimisations, generic functions and the rest of the header are
  code that constants alone never instantiate at run time. The share of source
  lines that the map covers is low for this reason; without the header it is
  most of the program.
* *Values of floating-point numbers*: a node stands for the computation; rounding
  is the processor's.
* *GNU Radio and the digitizer devices*: external; scheduler, blocks and devices
  appear as described above.
* *XML parsing*: external; `readable` says whether it succeeds.
* *Constants, example, tests, build files*: no state of their own; the example's
  sequence of start, stop and wait is among those of `FlowGraphControl`.

## 7. Plan

1. Calls of exprtk's functions of one and two arguments, whose parser shares
   `parse_expression` with the operators.
2. Proofs: of the passes, that an expression without products put in keeps its
   tokens, which would carry `ValuesAlwaysDerived` over to the text.
3. `ParamValue` on top of `EvaluateExpression` in place of `Twice`.
