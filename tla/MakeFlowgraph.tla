---------------------------- MODULE MakeFlowgraph ----------------------------
(***************************************************************************)
(* make_flowgraph (src/lib/flowgraph_impl.cc:1346-1394): the parser, the   *)
(* block factory and FlowGraph::add and connect put together.              *)
(*                                                                         *)
(* phase is where make_flowgraph is.  One step is one iteration of one of  *)
(* its loops, or one of the calls before them.  An exception ends the call *)
(* and destroys its locals, graph and parser included: nothing is returned *)
(* and no variable is looked at again.                                     *)
(***************************************************************************)
EXTENDS GrcParser, GraphOfDocument

VARIABLES
    phase,
    index,            \* of the two for loops
    title,
    disabled_blocks,
    d_block_map,      \* FlowGraph: id -> the block and its type
    wired             \* d_top_block: the connections made so far

graphVars == <<title, disabled_blocks, d_block_map, wired>>
vars      == <<parserVars, phase, index, graphVars>>

Phases == {"parse", "collapse", "title", "blocks", "connections", "returned", "exception"}

-----------------------------------------------------------------------------
MakeInit ==
    /\ Init
    /\ phase = "parse"
    /\ index = 0
    /\ title = Empty
    /\ disabled_blocks = <<>>
    /\ d_block_map = <<>>
    /\ wired = {}

Fail == phase' = "exception" /\ UNCHANGED <<parserVars, index, graphVars>>

Parse ==
    /\ phase = "parse"
    /\ parse
    /\ phase' = CASE result' = "exception" -> "exception"
                  [] d_parsed'             -> "collapse"
                  [] OTHER                 -> "parse"
    /\ UNCHANGED <<index, graphVars>>

Collapse ==
    /\ phase = "collapse"
    /\ collapse_variables
    /\ phase' = "title"
    /\ UNCHANGED <<index, graphVars>>

DefaultTitle == Word("My Flowgraph")

\* The graph is created with the title of the options, or a default one.
MakeGraph ==
    /\ phase = "title"
    /\ \E t \in param_value("string", d_top_block, "title") :
          title' = IF t = Empty THEN DefaultTitle ELSE t
    /\ phase' = "blocks"
    /\ index' = 1
    /\ UNCHANGED <<parserVars, disabled_blocks, d_block_map, wired>>

NoTitle ==
    /\ phase = "title"
    /\ param_value("string", d_top_block, "title") = {}
    /\ Fail

-----------------------------------------------------------------------------
(* The loop over the blocks *)

AtBlock == phase = "blocks" /\ index \in DOMAIN d_blocks
info    == d_blocks[index]

NextIndex == index' = index + 1 /\ UNCHANGED <<parserVars, phase>>

\* (fault) A disabled block is not remembered, or remembered by the whole info.
SkipDisabled_forgets == AtBlock /\ Disabled(info) /\ NextIndex /\ UNCHANGED graphVars
SkipDisabled_info ==
    /\ AtBlock /\ Disabled(info)
    /\ disabled_blocks' = Append(disabled_blocks, info)
    /\ NextIndex /\ UNCHANGED <<title, d_block_map, wired>>

SkipDisabled ==
    /\ AtBlock /\ Disabled(info)
    /\ disabled_blocks' = Append(disabled_blocks, info.id)
    /\ NextIndex /\ UNCHANGED <<title, d_block_map, wired>>

Makeable == info.id \notin Absent /\ make_block(info, d_variables) # {}

\* d_block_map with one more entry.
Added(id, made) ==
    [k \in DOMAIN d_block_map \cup {id} |-> IF k = id THEN made ELSE d_block_map[k]]

\* (fault) A disabled block is made; a block replaces the one of its id.
AddBlock_disabled ==
    /\ AtBlock /\ EnabledFlag(info) # {} /\ Makeable
    /\ info.id \notin DOMAIN d_block_map
    /\ \E block \in make_block(info, d_variables) :
          d_block_map' = Added(info.id, [block |-> block, type |-> info.key])
    /\ NextIndex /\ UNCHANGED <<title, disabled_blocks, wired>>
AddBlock_replaces ==
    /\ AtBlock /\ Enabled(info) /\ Makeable
    /\ \E block \in make_block(info, d_variables) :
          d_block_map' = Added(info.id, [block |-> block, type |-> info.key])
    /\ NextIndex /\ UNCHANGED <<title, disabled_blocks, wired>>

\* make_block, then FlowGraph::add, which refuses an id it already has.
AddBlock ==
    /\ AtBlock /\ Enabled(info) /\ Makeable
    /\ info.id \notin DOMAIN d_block_map
    /\ \E block \in make_block(info, d_variables) :
          d_block_map' = Added(info.id, [block |-> block, type |-> info.key])
    /\ NextIndex /\ UNCHANGED <<title, disabled_blocks, wired>>

BlockThrows ==
    /\ AtBlock
    /\ \/ EnabledFlag(info) = {}
       \/ Enabled(info) /\ (~Makeable \/ info.id \in DOMAIN d_block_map)
    /\ Fail

BlocksDone ==
    /\ phase = "blocks" /\ index \notin DOMAIN d_blocks
    /\ phase' = "connections"
    /\ index' = 1
    /\ UNCHANGED <<parserVars, graphVars>>

-----------------------------------------------------------------------------
(* The loop over the connections *)

AtConnection == phase = "connections" /\ index \in DOMAIN d_connections
con          == d_connections[index]

IsDisabled(id) == \E i \in DOMAIN disabled_blocks : disabled_blocks[i] = id

\* (fault) Only a connection between two disabled blocks is skipped.
TouchesDisabled_both(c) == IsDisabled(c.src_id) /\ IsDisabled(c.dst_id)

TouchesDisabled(c) == IsDisabled(c.src_id) \/ IsDisabled(c.dst_id)

SkipConnection ==
    /\ AtConnection /\ TouchesDisabled(con)
    /\ NextIndex /\ UNCHANGED graphVars

\* (fault) The destination is not looked up.
Found_source(c) == c.src_id \in DOMAIN d_block_map

\* FlowGraph::connect looks both ends up.
Found(c) == c.src_id \in DOMAIN d_block_map /\ c.dst_id \in DOMAIN d_block_map

\* gr::top_block::connect refuses a port the block does not have, a block wired
\* to itself, two ports whose items differ in size, and a second connection into
\* an input.
Accepts(c) ==
    /\ c.src_key \in Ports /\ c.dst_key \in Ports
    /\ c.src_id # c.dst_id
    /\ c \notin Mismatched
    /\ \A e \in wired : e.dst_id = c.dst_id => e.dst_key # c.dst_key

Connect ==
    /\ AtConnection /\ ~TouchesDisabled(con)
    /\ Found(con) /\ Accepts(con)
    /\ wired' = wired \cup {con}
    /\ NextIndex /\ UNCHANGED <<title, disabled_blocks, d_block_map>>

ConnectThrows ==
    /\ AtConnection /\ ~TouchesDisabled(con)
    /\ ~(Found(con) /\ Accepts(con))
    /\ Fail

\* (fault) The loop ends before the last connection.
Return_early ==
    /\ phase = "connections" /\ index + 1 \notin DOMAIN d_connections
    /\ phase' = "returned"
    /\ UNCHANGED <<parserVars, index, graphVars>>

Return ==
    /\ phase = "connections" /\ index \notin DOMAIN d_connections
    /\ phase' = "returned"
    /\ UNCHANGED <<parserVars, index, graphVars>>

-----------------------------------------------------------------------------
MakeNext ==
    \/ Parse \/ Collapse \/ MakeGraph \/ NoTitle
    \/ SkipDisabled \/ AddBlock \/ BlockThrows \/ BlocksDone
    \/ SkipConnection \/ Connect \/ ConnectThrows \/ Return

MakeSpec == MakeInit /\ [][MakeNext]_vars /\ WF_vars(MakeNext)

-----------------------------------------------------------------------------
(* Properties *)

MakeTypeOK ==
    /\ TypeOK
    /\ phase \in Phases
    /\ index \in Nat
    /\ title \in Text \cup {DefaultTitle}
    /\ disabled_blocks \in Seq(Text)
    /\ \A id \in DOMAIN d_block_map :
          id \in Text /\ d_block_map[id] \in [type : Key, block : {d_block_map[id].block}]
    /\ wired \subseteq ConnectionInfo

\* The blocks and connections the two loops have gone past.
BlockDone(i) ==
    \/ phase = "blocks" /\ i < index
    \/ phase \in {"connections", "returned"}

ConnectionDone(i) ==
    \/ phase = "connections" /\ i < index
    \/ phase = "returned"

\* No block is lost: each one the loop went past is in the graph under its id
\* and with its type, or was disabled and is remembered as such
\* (flowgraph_impl.cc:1365-1376).
BlocksAccounted ==
    \A i \in DOMAIN d_blocks : BlockDone(i) =>
        LET b == d_blocks[i] IN
        \/ Enabled(b) /\ b.id \in DOMAIN d_block_map /\ d_block_map[b.id].type = b.key
        \/ Disabled(b) /\ IsDisabled(b.id)

\* No block is invented: what is in the graph is an enabled block of the
\* document, and a remembered id is one of a disabled block.
BlocksJustified ==
    /\ \A id \in DOMAIN d_block_map : \E i \in DOMAIN d_blocks :
          /\ Enabled(d_blocks[i])
          /\ d_blocks[i].id = id /\ d_blocks[i].key = d_block_map[id].type
    /\ \A k \in DOMAIN disabled_blocks : \E i \in DOMAIN d_blocks :
          Disabled(d_blocks[i]) /\ d_blocks[i].id = disabled_blocks[k]

\* Both ends of everything that is wired are blocks of the graph, and neither is
\* the id of a disabled block (flowgraph_impl.cc:1380-1392, flowgraph.h:141-158).
WiringClosed ==
    \A c \in wired : \A id \in {c.src_id, c.dst_id} :
        id \in DOMAIN d_block_map /\ ~IsDisabled(id)

\* No connection is lost or invented: each one the loop went past is wired or
\* touches a disabled block, and only connections of the document are wired.
ConnectionsAccounted ==
    /\ \A i \in DOMAIN d_connections :
          ConnectionDone(i) => d_connections[i] \in wired \/ TouchesDisabled(d_connections[i])
    /\ \A c \in wired : \E i \in DOMAIN d_connections : d_connections[i] = c

\* A block of the graph is never replaced or removed, whatever ids the document
\* repeats, and no connection is undone (FlowGraph::add, flowgraph.h:125-136).
GraphOnlyGrows ==
    [][/\ \A id \in DOMAIN d_block_map :
             id \in DOMAIN d_block_map' /\ d_block_map'[id] = d_block_map[id]
       /\ wired \subseteq wired']_vars

\* How many steps the answer is away at most: the entries parse() has not read,
\* each of which may become a block or a connection of the two loops, then the
\* iterations that are left of them.
StepsToAnswer ==
    CASE phase = "parse"       -> 2 * Len(document) + 6 - position
      [] phase = "collapse"    -> Len(d_blocks) + Len(d_connections) + 4
      [] phase = "title"       -> Len(d_blocks) + Len(d_connections) + 3
      [] phase = "blocks"      -> Len(d_blocks) + Len(d_connections) + 3 - index
      [] phase = "connections" -> Len(d_connections) + 2 - index
      [] OTHER                 -> 0

\* Whatever the document repeats or leaves out, every step brings the answer
\* nearer: no loop starts again, and none takes an entry without moving on
\* (flowgraph_impl.cc:1346-1394).
AnswerNears == [][StepsToAnswer' \in Nat /\ StepsToAnswer' < StepsToAnswer]_vars

\* make_flowgraph answers with a graph of its document, or with an exception and
\* only when the document has a fault; it always answers.
Answered ==
    CASE phase = "exception" -> [kind |-> "exception"]
      [] phase = "returned"  -> [kind |-> "graph", title |-> title,
                                 blocks |-> d_block_map, wires |-> wired]
      [] OTHER               -> [kind |-> "pending"]

Meaning == INSTANCE FlowgraphMeaning WITH Documents <- Seq(Entry), outcome <- Answered

MeansTheDocument == Meaning!Spec

-----------------------------------------------------------------------------
(* What the comments of the code say and the code does not do *)

\* "Replace all the variables with real numbers" (flowgraph_impl.h:321): after
\* collapse_variables no parameter is the name of a variable that has a value.
AllVariablesReplaced ==
    phase \in {"title", "blocks", "connections", "returned"} =>
        \A i \in DOMAIN d_blocks : \A p \in DOMAIN d_blocks[i].params :
            d_blocks[i].params[p] \notin DOMAIN variable_value_map

\* "failed to evaluate parameter" (flowgraph_impl.h:184): an expression without
\* a value is an exception, so no block is made with one.
EveryArgumentHasAValue ==
    \A id \in DOMAIN d_block_map :
        LET args == d_block_map[id].block.args IN
        \A p \in DOMAIN args : args[p] # NaN
=============================================================================
