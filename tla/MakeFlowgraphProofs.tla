------------------------- MODULE MakeFlowgraphProofs -------------------------
(***************************************************************************)
(* Proofs about MakeFlowgraph, for every set of documents, whatever the    *)
(* ports of the blocks and whichever devices are missing: its typing, that *)
(* no block and no connection is lost, invented, replaced or undone, and   *)
(* that it answers as FlowgraphMeaning says, step by step, and that each   *)
(* step leaves fewer until it does.                                        *)
(***************************************************************************)
EXTENDS MakeFlowgraph, GrcParserProofs

-----------------------------------------------------------------------------
(* The graph and the steps that change it *)

\* A block is added under an id that was free, and everything else stays.
LEMMA AddedBlock ==
    ASSUME AddBlock
    PROVE  /\ AtBlock /\ Enabled(info) /\ info.id \notin DOMAIN d_block_map
           /\ DOMAIN d_block_map' = {info.id} \cup DOMAIN d_block_map
           /\ \E block : d_block_map'[info.id] = [block |-> block, type |-> info.key]
           /\ d_block_map'[info.id].type = info.key
           /\ \A id \in DOMAIN d_block_map : d_block_map'[id] = d_block_map[id]
           /\ index' = index + 1
           /\ UNCHANGED <<parserVars, phase, title, disabled_blocks, wired>>
<1>1. PICK block : d_block_map' = Added(info.id, [block |-> block, type |-> info.key])
  BY Zenon DEF AddBlock
<1>2. /\ AtBlock /\ Enabled(info) /\ info.id \notin DOMAIN d_block_map
      /\ NextIndex /\ UNCHANGED <<title, disabled_blocks, wired>>
  BY Zenon DEF AddBlock
<1>3. /\ DOMAIN d_block_map' = {info.id} \cup DOMAIN d_block_map
      /\ d_block_map'[info.id] = [block |-> block, type |-> info.key]
      /\ \A id \in DOMAIN d_block_map : d_block_map'[id] = d_block_map[id]
  BY <1>1, <1>2, Zenon DEF Added
<1>4. d_block_map'[info.id].type = info.key
  BY <1>3
<1> QED BY <1>2, <1>3, <1>4, Zenon DEF NextIndex

\* A step either builds the graph or leaves it alone.
LEMMA GraphSteps ==
    ASSUME [MakeNext]_vars
    PROVE  \/ SkipDisabled \/ AddBlock \/ Connect
           \/ UNCHANGED <<disabled_blocks, d_block_map, wired>>
BY Zenon DEF MakeNext, vars, graphVars, Parse, Collapse, MakeGraph, NoTitle, BlockThrows, BlocksDone,
   SkipConnection, ConnectThrows, Return, Fail, NextIndex

\* Every step of make_flowgraph is one of its parser or leaves the parser alone.
LEMMA ParserSteps ==
    ASSUME [MakeNext]_vars
    PROVE  [Next]_parserVars
BY Zenon DEF MakeNext, vars, graphVars, Parse, Collapse, MakeGraph, NoTitle, SkipDisabled, AddBlock,
   BlockThrows, BlocksDone, SkipConnection, Connect, ConnectThrows, Return, Fail, NextIndex, Next

\* A block of the graph is never replaced or removed, whatever ids the document
\* repeats, and no connection is undone (FlowGraph::add, flowgraph.h:125-136).
THEOREM GraphGrows == MakeSpec => GraphOnlyGrows
<1>1. [MakeNext]_vars =>
        [/\ \A id \in DOMAIN d_block_map :
               id \in DOMAIN d_block_map' /\ d_block_map'[id] = d_block_map[id]
         /\ wired \subseteq wired']_vars
  <2> SUFFICES ASSUME [MakeNext]_vars
               PROVE  /\ \A id \in DOMAIN d_block_map :
                            id \in DOMAIN d_block_map' /\ d_block_map'[id] = d_block_map[id]
                      /\ wired \subseteq wired'
    OBVIOUS
  <2>1. CASE SkipDisabled
    BY <2>1, Zenon DEF SkipDisabled
  <2>2. CASE AddBlock
    BY <2>2, AddedBlock, Zenon
  <2>3. CASE Connect
    BY <2>3, Zenon DEF Connect
  <2>4. CASE UNCHANGED <<disabled_blocks, d_block_map, wired>>
    BY <2>4, Zenon
  <2> QED BY <2>1, <2>2, <2>3, <2>4, GraphSteps
<1> QED BY <1>1, PTL DEF MakeSpec, GraphOnlyGrows

-----------------------------------------------------------------------------
(* Typing *)

\* The types, and how far the two loops may be.
MakeTyped ==
    /\ Typed
    /\ phase \in Phases
    /\ index \in Nat
    /\ title \in Text \cup {DefaultTitle}
    /\ disabled_blocks \in Seq(Text)
    /\ \A id \in DOMAIN d_block_map :
          id \in Text /\ d_block_map[id] \in [type : Key, block : {d_block_map[id].block}]
    /\ wired \subseteq ConnectionInfo
    /\ phase = "blocks" => index \in 1..Len(d_blocks) + 1
    /\ phase = "connections" => index \in 1..Len(d_connections) + 1

\* In the middle of a loop the index is one of the sequence, and stays in its
\* range when it moves on.
LEMMA BlockAtIndex ==
    ASSUME MakeTyped, AtBlock
    PROVE  /\ info \in BlockInfo
           /\ index \in 1..Len(d_blocks) /\ Len(d_blocks) \in Nat
           /\ DOMAIN d_blocks = 1..Len(d_blocks)
BY LenProperties, ElementOfSeq DEF MakeTyped, Typed, AtBlock, info

LEMMA ConnectionAtIndex ==
    ASSUME MakeTyped, AtConnection
    PROVE  /\ con \in ConnectionInfo
           /\ index \in 1..Len(d_connections) /\ Len(d_connections) \in Nat
           /\ DOMAIN d_connections = 1..Len(d_connections)
BY LenProperties, ElementOfSeq DEF MakeTyped, Typed, AtConnection, con

LEMMA MakeTypedInit == MakeInit => MakeTyped
<1> SUFFICES ASSUME MakeInit PROVE MakeTyped
  OBVIOUS
<1>1. Typed
  BY TypedInit, Zenon DEF MakeInit
<1>2. Empty \in Text
  BY DEF Text, Plain
<1>3. <<>> \in Seq(Text)
  BY EmptySeq
<1>4. d_block_map = <<>> /\ DOMAIN <<>> = {}
  BY DEF MakeInit
<1>5. /\ phase = "parse" /\ index = 0 /\ title = Empty
      /\ disabled_blocks = <<>> /\ wired = {}
  BY Zenon DEF MakeInit
<1> QED BY <1>1, <1>2, <1>3, <1>4, <1>5 DEF MakeTyped, Phases

\* Every step of make_flowgraph keeps the types.
LEMMA MakeTypedNext == MakeTyped /\ [MakeNext]_vars => MakeTyped'
<1> SUFFICES ASSUME MakeTyped, [MakeNext]_vars PROVE MakeTyped'
  OBVIOUS
<1>1. Typed'
  <2>1. [Next]_parserVars
    BY ParserSteps
  <2> QED BY <2>1, TypedNext, Zenon DEF MakeTyped
<1> USE <1>1
<1>2. CASE Parse
  <2>1. /\ phase' \in {"exception", "collapse", "parse"}
        /\ UNCHANGED <<index, title, disabled_blocks, d_block_map, wired>>
    BY <1>2, Zenon DEF Parse, graphVars
  <2> QED BY <2>1 DEF MakeTyped, Phases
<1>3. CASE Collapse
  <2>1. phase' = "title" /\ UNCHANGED <<index, title, disabled_blocks, d_block_map, wired>>
    BY <1>3, Zenon DEF Collapse, graphVars
  <2> QED BY <2>1 DEF MakeTyped, Phases
<1>4. CASE MakeGraph
  <2>1. PICK t \in param_value("string", d_top_block, "title") :
            title' = IF t = Empty THEN DefaultTitle ELSE t
    BY <1>4, Zenon DEF MakeGraph
  <2>2. t \in Text
    <3>1. "title" \in DOMAIN d_top_block.params /\ t = Unquote(d_top_block.params["title"])
      BY <2>1 DEF param_value, convert_to
    <3>2. d_top_block.params["title"] \in Text
      BY <3>1 DEF MakeTyped, Typed, BlockInfo
    <3> QED BY <3>1, <3>2, UnquoteText
  <2>3. /\ phase' = "blocks" /\ index' = 1
        /\ UNCHANGED <<d_blocks, disabled_blocks, d_block_map, wired>>
    BY <1>4, Zenon DEF MakeGraph, parserVars, vectors
  <2>4. 1 \in 1..Len(d_blocks) + 1
    BY LenProperties DEF MakeTyped, Typed
  <2>5. title' \in Text \cup {DefaultTitle}
    BY <2>1, <2>2, Zenon
  <2> QED BY <2>3, <2>4, <2>5 DEF MakeTyped, Phases
<1>5. CASE SkipDisabled
  <2>1. /\ AtBlock
        /\ disabled_blocks' = Append(disabled_blocks, info.id)
        /\ index' = index + 1
        /\ UNCHANGED <<phase, d_blocks, title, d_block_map, wired>>
    BY <1>5, Zenon DEF SkipDisabled, NextIndex, parserVars, vectors
  <2>2. info.id \in Text
    BY <2>1, BlockAtIndex DEF BlockInfo
  <2>3. disabled_blocks' \in Seq(Text)
    BY <2>1, <2>2, AppendProperties DEF MakeTyped
  <2>4. index' \in 1..Len(d_blocks) + 1 /\ index' \in Nat
    BY <2>1, BlockAtIndex
  <2>5. phase = "blocks"
    BY <2>1 DEF AtBlock
  <2> QED BY <2>1, <2>3, <2>4, <2>5 DEF MakeTyped
<1>6. CASE AddBlock
  <2>1. /\ AtBlock /\ index' = index + 1
        /\ UNCHANGED <<phase, d_blocks, title, disabled_blocks, wired>>
        /\ DOMAIN d_block_map' = {info.id} \cup DOMAIN d_block_map
        /\ \A id \in DOMAIN d_block_map : d_block_map'[id] = d_block_map[id]
    BY <1>6, AddedBlock, Zenon DEF parserVars, vectors
  <2>2. PICK block : d_block_map'[info.id] = [block |-> block, type |-> info.key]
    BY <1>6, AddedBlock
  <2>3. info.id \in Text /\ info.key \in Key
    BY <2>1, BlockAtIndex DEF BlockInfo
  <2>4. d_block_map'[info.id] \in [type : Key, block : {d_block_map'[info.id].block}]
    BY <2>2, <2>3
  <2>5. \A id \in DOMAIN d_block_map' :
          id \in Text /\ d_block_map'[id] \in [type : Key, block : {d_block_map'[id].block}]
    BY <2>1, <2>3, <2>4, Zenon DEF MakeTyped
  <2>6. index' \in 1..Len(d_blocks) + 1 /\ index' \in Nat
    BY <2>1, BlockAtIndex
  <2>7. phase = "blocks"
    BY <2>1 DEF AtBlock
  <2> QED BY <2>1, <2>5, <2>6, <2>7 DEF MakeTyped
<1>7. CASE BlocksDone
  <2>1. 1 \in 1..Len(d_connections) + 1
    BY LenProperties DEF MakeTyped, Typed
  <2>2. /\ phase' = "connections" /\ index' = 1
        /\ UNCHANGED <<d_connections, title, disabled_blocks, d_block_map, wired>>
    BY <1>7, Zenon DEF BlocksDone, parserVars, vectors, graphVars
  <2> QED BY <2>1, <2>2 DEF MakeTyped, Phases
<1>8. CASE SkipConnection \/ Connect
  <2>1. /\ AtConnection /\ index' = index + 1
        /\ UNCHANGED <<phase, d_connections, title, disabled_blocks, d_block_map>>
        /\ wired' \subseteq wired \cup {con}
    BY <1>8, Zenon DEF SkipConnection, Connect, NextIndex, parserVars, vectors, graphVars
  <2>2. index' \in 1..Len(d_connections) + 1 /\ index' \in Nat
    BY <2>1, ConnectionAtIndex
  <2>3. phase = "connections"
    BY <2>1 DEF AtConnection
  <2>4. wired' \subseteq ConnectionInfo
    BY <2>1, ConnectionAtIndex DEF MakeTyped
  <2> QED BY <2>1, <2>2, <2>3, <2>4 DEF MakeTyped
<1>9. CASE NoTitle \/ BlockThrows \/ ConnectThrows \/ Return
  <2>1. phase' \in {"exception", "returned"} /\ UNCHANGED <<index, title, disabled_blocks, d_block_map, wired>>
    BY <1>9, Zenon DEF NoTitle, BlockThrows, ConnectThrows, Return, Fail, graphVars
  <2> QED BY <2>1 DEF MakeTyped, Phases
<1>10. CASE UNCHANGED vars
  <2>1. UNCHANGED <<d_blocks, d_connections, phase, index, title, disabled_blocks, d_block_map, wired>>
    BY <1>10, Zenon DEF vars, graphVars, parserVars, vectors
  <2> QED BY <2>1 DEF MakeTyped
<1> QED BY <1>2, <1>3, <1>4, <1>5, <1>6, <1>7, <1>8, <1>9, <1>10, Zenon DEF MakeNext

LEMMA MakeTypedInvariant == MakeSpec => []MakeTyped
BY MakeTypedInit, MakeTypedNext, PTL DEF MakeSpec

\* The type invariant of make_flowgraph and of the parser in it.
THEOREM MakeTyping == MakeSpec => []MakeTypeOK
<1>1. MakeTyped => MakeTypeOK
  BY TypedIsTypeOK DEF MakeTyped, MakeTypeOK
<1> QED BY <1>1, MakeTypedInvariant, PTL

-----------------------------------------------------------------------------
(* The graph is empty until its loop begins *)

EmptyBeforeLoops ==
    /\ phase \in {"parse", "collapse", "title"} =>
          DOMAIN d_block_map = {} /\ DOMAIN disabled_blocks = {}
    /\ phase \notin {"connections", "returned", "exception"} => wired = {}

\* The steps by the part of make_flowgraph they belong to.
LEMMA EarlySteps ==
    ASSUME Parse \/ Collapse
    PROVE  /\ phase \in {"parse", "collapse"}
           /\ phase' \in {"parse", "collapse", "title", "exception"}
           /\ UNCHANGED <<index, title, disabled_blocks, d_block_map, wired>>
BY Zenon DEF Parse, Collapse, graphVars

LEMMA EndingSteps ==
    ASSUME NoTitle \/ BlockThrows \/ ConnectThrows
    PROVE  /\ phase' = "exception"
           /\ UNCHANGED <<d_blocks, d_connections, index, title, disabled_blocks, d_block_map, wired>>
BY Zenon DEF NoTitle, BlockThrows, ConnectThrows, Fail, graphVars, parserVars, vectors

LEMMA SkipDisabledStep ==
    ASSUME SkipDisabled
    PROVE  /\ AtBlock /\ Disabled(info)
           /\ disabled_blocks' = Append(disabled_blocks, info.id)
           /\ index' = index + 1
           /\ UNCHANGED <<d_blocks, d_connections, phase, title, d_block_map, wired>>
BY Zenon DEF SkipDisabled, NextIndex, parserVars, vectors

LEMMA PhaseSteps ==
    /\ MakeGraph  => /\ phase = "title" /\ phase' = "blocks" /\ index' = 1
                     /\ UNCHANGED <<d_blocks, d_connections, disabled_blocks, d_block_map, wired>>
    /\ BlocksDone => /\ phase = "blocks" /\ index \notin DOMAIN d_blocks
                     /\ phase' = "connections" /\ index' = 1
                     /\ UNCHANGED <<d_blocks, d_connections, disabled_blocks, d_block_map, wired>>
    /\ Return     => /\ phase = "connections" /\ index \notin DOMAIN d_connections
                     /\ phase' = "returned"
                     /\ UNCHANGED <<d_blocks, d_connections, disabled_blocks, d_block_map, wired>>
BY Zenon DEF MakeGraph, BlocksDone, Return, graphVars, parserVars, vectors

LEMMA ConnectionSteps ==
    ASSUME SkipConnection \/ Connect
    PROVE  /\ AtConnection /\ index' = index + 1
           /\ UNCHANGED <<d_blocks, d_connections, phase, title, disabled_blocks, d_block_map>>
           /\ \/ TouchesDisabled(con) /\ wired' = wired
              \/ ~TouchesDisabled(con) /\ Found(con) /\ wired' = wired \cup {con}
BY Zenon DEF SkipConnection, Connect, NextIndex, parserVars, vectors, graphVars

LEMMA NoStep ==
    ASSUME UNCHANGED vars
    PROVE  UNCHANGED <<d_blocks, d_connections, phase, index, title, disabled_blocks, d_block_map, wired>>
BY Zenon DEF vars, graphVars, parserVars, vectors

LEMMA EmptyNext == EmptyBeforeLoops /\ [MakeNext]_vars => EmptyBeforeLoops'
<1> SUFFICES ASSUME EmptyBeforeLoops, [MakeNext]_vars PROVE EmptyBeforeLoops'
  OBVIOUS
<1> USE DEF EmptyBeforeLoops
<1>1. CASE Parse \/ Collapse
  BY <1>1, EarlySteps
<1>2. CASE NoTitle \/ BlockThrows \/ ConnectThrows
  BY <1>2, EndingSteps
<1>3. CASE SkipDisabled
  BY <1>3, SkipDisabledStep DEF AtBlock
<1>4. CASE AddBlock
  <2>1. AtBlock /\ UNCHANGED <<phase, wired>>
    BY <1>4, AddedBlock
  <2> QED BY <2>1 DEF AtBlock
<1>5. CASE MakeGraph \/ BlocksDone \/ Return
  BY <1>5, PhaseSteps
<1>6. CASE SkipConnection \/ Connect
  <2>1. AtConnection /\ UNCHANGED phase
    BY <1>6, ConnectionSteps
  <2> QED BY <2>1 DEF AtConnection
<1>7. CASE UNCHANGED vars
  BY <1>7, NoStep
<1> QED BY <1>1, <1>2, <1>3, <1>4, <1>5, <1>6, <1>7, Zenon DEF MakeNext

LEMMA EmptyInvariant == MakeSpec => []EmptyBeforeLoops
<1>1. MakeInit => EmptyBeforeLoops
  <2> SUFFICES ASSUME MakeInit PROVE EmptyBeforeLoops
    OBVIOUS
  <2>1. d_block_map = <<>> /\ disabled_blocks = <<>> /\ wired = {} /\ DOMAIN <<>> = {}
    BY DEF MakeInit
  <2> QED BY <2>1, Zenon DEF EmptyBeforeLoops
<1> QED BY <1>1, EmptyNext, PTL DEF MakeSpec

-----------------------------------------------------------------------------
(* No block is lost or invented *)

\* A remembered id stays remembered, and the new one is remembered.
LEMMA RememberedIds ==
    ASSUME MakeTyped, SkipDisabled
    PROVE  /\ \A id : IsDisabled(id)' <=> IsDisabled(id) \/ id = info.id
           /\ \A k \in DOMAIN disabled_blocks' :
                 \/ k \in DOMAIN disabled_blocks /\ disabled_blocks'[k] = disabled_blocks[k]
                 \/ disabled_blocks'[k] = info.id
<1>1. disabled_blocks' = Append(disabled_blocks, info.id) /\ AtBlock
  BY SkipDisabledStep
<1>2. disabled_blocks \in Seq(Text) /\ info.id \in Text
  BY <1>1, BlockAtIndex DEF MakeTyped, BlockInfo
<1>3. /\ DOMAIN disabled_blocks = 1..Len(disabled_blocks)
      /\ DOMAIN disabled_blocks' = 1..Len(disabled_blocks) + 1
      /\ Len(disabled_blocks) \in Nat
  BY <1>1, <1>2, AppendProperties, LenProperties
<1>4. /\ \A k \in 1..Len(disabled_blocks) : disabled_blocks'[k] = disabled_blocks[k]
      /\ disabled_blocks'[Len(disabled_blocks) + 1] = info.id
  BY <1>1, <1>2, AppendProperties
<1>5. \A k \in DOMAIN disabled_blocks' :
         k \in DOMAIN disabled_blocks \/ k = Len(disabled_blocks) + 1
  BY <1>3
<1>6. Len(disabled_blocks) + 1 \in DOMAIN disabled_blocks' /\ DOMAIN disabled_blocks \subseteq DOMAIN disabled_blocks'
  BY <1>3
<1> QED BY <1>3, <1>4, <1>5, <1>6 DEF IsDisabled

\* The blocks a loop has gone past, before and after a step of it.
LEMMA BlocksAccountedNext ==
    MakeTyped /\ BlocksAccounted /\ [MakeNext]_vars => BlocksAccounted'
<1> SUFFICES ASSUME MakeTyped, BlocksAccounted, [MakeNext]_vars PROVE BlocksAccounted'
  OBVIOUS
<1>1. CASE Parse \/ Collapse
  BY <1>1, EarlySteps DEF BlocksAccounted, BlockDone
<1>2. CASE NoTitle \/ BlockThrows \/ ConnectThrows
  BY <1>2, EndingSteps DEF BlocksAccounted, BlockDone
<1>3. CASE SkipDisabled
  <2>1. /\ AtBlock /\ Disabled(info) /\ index' = index + 1
        /\ UNCHANGED <<d_blocks, phase, d_block_map>>
    BY <1>3, SkipDisabledStep
  <2>2. \A i \in DOMAIN d_blocks : i < index + 1 => i < index \/ d_blocks[i] = info
    BY <2>1, BlockAtIndex DEF info
  <2>3. \A id : IsDisabled(id) \/ id = info.id => IsDisabled(id)'
    BY <1>3, RememberedIds
  <2> QED BY <2>1, <2>2, <2>3 DEF BlocksAccounted, BlockDone, AtBlock, Enabled, Disabled
<1>4. CASE AddBlock
  <2>1. /\ AtBlock /\ Enabled(info) /\ index' = index + 1
        /\ UNCHANGED <<d_blocks, phase, disabled_blocks>>
        /\ DOMAIN d_block_map' = {info.id} \cup DOMAIN d_block_map
        /\ \A id \in DOMAIN d_block_map : d_block_map'[id] = d_block_map[id]
    BY <1>4, AddedBlock, Zenon DEF parserVars, vectors
  <2>2. d_block_map'[info.id].type = info.key
    BY <1>4, AddedBlock
  <2>3. \A i \in DOMAIN d_blocks : i < index + 1 => i < index \/ d_blocks[i] = info
    BY <2>1, BlockAtIndex DEF info
  <2>4. \A id : IsDisabled(id) => IsDisabled(id)'
    BY <2>1 DEF IsDisabled
  <2> QED BY <2>1, <2>2, <2>3, <2>4 DEF BlocksAccounted, BlockDone, AtBlock, Enabled, Disabled
<1>5. CASE MakeGraph
  <2>1. /\ phase' = "blocks" /\ index' = 1 /\ d_blocks' = d_blocks
    BY <1>5, PhaseSteps
  <2>2. \A i \in DOMAIN d_blocks : ~(i < 1)
    BY LenProperties DEF MakeTyped, Typed
  <2> QED BY <2>1, <2>2 DEF BlocksAccounted, BlockDone
<1>6. CASE BlocksDone
  <2>1. /\ phase = "blocks" /\ index \notin DOMAIN d_blocks
        /\ UNCHANGED <<d_blocks, disabled_blocks, d_block_map>>
    BY <1>6, PhaseSteps
  <2>2. \A i \in DOMAIN d_blocks : i < index
    BY <2>1, LenProperties DEF MakeTyped, Typed
  <2> QED BY <2>1, <2>2 DEF BlocksAccounted, BlockDone, IsDisabled, Enabled, Disabled
<1>7. CASE Return
  <2>1. /\ phase = "connections" /\ phase' = "returned"
        /\ UNCHANGED <<d_blocks, disabled_blocks, d_block_map>>
    BY <1>7, PhaseSteps
  <2> QED BY <2>1 DEF BlocksAccounted, BlockDone, IsDisabled, Enabled, Disabled
<1>8. CASE SkipConnection \/ Connect
  <2>1. /\ phase = "connections"
        /\ UNCHANGED <<phase, d_blocks, disabled_blocks, d_block_map>>
    BY <1>8, ConnectionSteps DEF AtConnection
  <2> QED BY <2>1 DEF BlocksAccounted, BlockDone, IsDisabled, Enabled, Disabled
<1>9. CASE UNCHANGED vars
  <2>1. UNCHANGED <<phase, index, d_blocks, disabled_blocks, d_block_map>>
    BY <1>9, NoStep
  <2> QED BY <2>1 DEF BlocksAccounted, BlockDone, IsDisabled, Enabled, Disabled
<1> QED BY <1>1, <1>2, <1>3, <1>4, <1>5, <1>6, <1>7, <1>8, <1>9, Zenon DEF MakeNext

\* No block is lost: make_flowgraph does not go past a block without adding it
\* or remembering it as disabled (flowgraph_impl.cc:1365-1376).
THEOREM NoBlockLost == MakeSpec => []BlocksAccounted
<1>1. MakeInit => BlocksAccounted
  <2> SUFFICES ASSUME MakeInit PROVE BlocksAccounted
    OBVIOUS
  <2>1. phase = "parse"
    BY Zenon DEF MakeInit
  <2> QED BY <2>1 DEF BlocksAccounted, BlockDone
<1> QED BY <1>1, BlocksAccountedNext, MakeTypedInvariant, PTL DEF MakeSpec

LEMMA BlocksJustifiedNext ==
    MakeTyped /\ EmptyBeforeLoops /\ BlocksJustified /\ [MakeNext]_vars => BlocksJustified'
<1> SUFFICES ASSUME MakeTyped, EmptyBeforeLoops, BlocksJustified, [MakeNext]_vars
             PROVE  BlocksJustified'
  OBVIOUS
<1>1. CASE Parse \/ Collapse
  <2>1. DOMAIN d_block_map' = {} /\ DOMAIN disabled_blocks' = {}
    BY <1>1, EarlySteps DEF EmptyBeforeLoops
  <2> QED BY <2>1 DEF BlocksJustified
<1>2. CASE SkipDisabled
  <2>1. AtBlock /\ Disabled(info) /\ UNCHANGED <<d_blocks, d_block_map>>
    BY <1>2, SkipDisabledStep
  <2>2. index \in DOMAIN d_blocks /\ info = d_blocks[index]
    BY <2>1 DEF AtBlock, info
  <2>3. \A k \in DOMAIN disabled_blocks' :
           \/ k \in DOMAIN disabled_blocks /\ disabled_blocks'[k] = disabled_blocks[k]
           \/ disabled_blocks'[k] = info.id
    BY <1>2, RememberedIds
  <2>4. \A k \in DOMAIN disabled_blocks' : \E i \in DOMAIN d_blocks :
            Disabled(d_blocks[i]) /\ d_blocks[i].id = disabled_blocks'[k]
    <3> SUFFICES ASSUME NEW k \in DOMAIN disabled_blocks'
                 PROVE  \E i \in DOMAIN d_blocks :
                            Disabled(d_blocks[i]) /\ d_blocks[i].id = disabled_blocks'[k]
      OBVIOUS
    <3>1. CASE disabled_blocks'[k] = info.id
      BY <2>1, <2>2, <3>1
    <3>2. CASE k \in DOMAIN disabled_blocks /\ disabled_blocks'[k] = disabled_blocks[k]
      BY <3>2 DEF BlocksJustified
    <3> QED BY <2>3, <3>1, <3>2
  <2> QED BY <2>1, <2>4 DEF BlocksJustified, Enabled, Disabled
<1>3. CASE AddBlock
  <2>1. /\ AtBlock /\ Enabled(info) /\ UNCHANGED <<d_blocks, disabled_blocks>>
        /\ DOMAIN d_block_map' = {info.id} \cup DOMAIN d_block_map
        /\ \A id \in DOMAIN d_block_map : d_block_map'[id] = d_block_map[id]
    BY <1>3, AddedBlock, Zenon DEF parserVars, vectors
  <2>2. d_block_map'[info.id].type = info.key
    BY <1>3, AddedBlock
  <2>3. index \in DOMAIN d_blocks /\ info = d_blocks[index]
    BY <2>1 DEF AtBlock, info
  <2> QED BY <2>1, <2>2, <2>3 DEF BlocksJustified, Enabled, Disabled
<1>4. CASE \/ NoTitle \/ BlockThrows \/ ConnectThrows \/ MakeGraph \/ BlocksDone \/ Return
           \/ SkipConnection \/ Connect \/ UNCHANGED vars
  <2>1. UNCHANGED <<d_blocks, disabled_blocks, d_block_map>>
    BY <1>4, EndingSteps, PhaseSteps, ConnectionSteps, NoStep, Zenon
  <2> QED BY <2>1, Zenon DEF BlocksJustified, Enabled, Disabled
<1> QED BY <1>1, <1>2, <1>3, <1>4, Zenon DEF MakeNext

\* No block is invented: what the graph has is an enabled block of the document
\* under its own id and type, and a remembered id is that of a disabled block.
THEOREM NoBlockInvented == MakeSpec => []BlocksJustified
<1>1. MakeInit /\ EmptyBeforeLoops => BlocksJustified
  <2> SUFFICES ASSUME MakeInit, EmptyBeforeLoops PROVE BlocksJustified
    OBVIOUS
  <2>1. phase = "parse"
    BY Zenon DEF MakeInit
  <2> QED BY <2>1 DEF EmptyBeforeLoops, BlocksJustified
<1> QED BY <1>1, BlocksJustifiedNext, EmptyInvariant, MakeTypedInvariant, PTL DEF MakeSpec

-----------------------------------------------------------------------------
(* The wiring is closed *)

LEMMA WiringClosedNext ==
    EmptyBeforeLoops /\ WiringClosed /\ [MakeNext]_vars => WiringClosed'
<1> SUFFICES ASSUME EmptyBeforeLoops, WiringClosed, [MakeNext]_vars PROVE WiringClosed'
  OBVIOUS
<1>1. CASE Parse \/ Collapse
  BY <1>1, EarlySteps DEF EmptyBeforeLoops, WiringClosed
<1>2. CASE SkipDisabled
  BY <1>2, SkipDisabledStep DEF AtBlock, EmptyBeforeLoops, WiringClosed
<1>3. CASE AddBlock
  <2>1. phase = "blocks" /\ wired' = wired
    BY <1>3, AddedBlock DEF AtBlock
  <2> QED BY <2>1 DEF EmptyBeforeLoops, WiringClosed
<1>4. CASE SkipConnection \/ Connect
  <2>1. /\ UNCHANGED <<disabled_blocks, d_block_map>>
        /\ \/ wired' = wired
           \/ ~TouchesDisabled(con) /\ Found(con) /\ wired' = wired \cup {con}
    BY <1>4, ConnectionSteps
  <2> QED BY <2>1 DEF WiringClosed, TouchesDisabled, Found, IsDisabled
<1>5. CASE NoTitle \/ BlockThrows \/ ConnectThrows \/ MakeGraph \/ BlocksDone \/ Return \/ UNCHANGED vars
  <2>1. UNCHANGED <<disabled_blocks, d_block_map, wired>>
    BY <1>5, EndingSteps, PhaseSteps, NoStep, Zenon
  <2> QED BY <2>1 DEF WiringClosed, IsDisabled
<1> QED BY <1>1, <1>2, <1>3, <1>4, <1>5, Zenon DEF MakeNext

\* No wire leads to a block the graph does not have or to a disabled one
\* (flowgraph_impl.cc:1380-1392, flowgraph.h:141-158).
THEOREM WiringIsClosed == MakeSpec => []WiringClosed
<1>1. MakeInit => WiringClosed
  <2> SUFFICES ASSUME MakeInit PROVE WiringClosed
    OBVIOUS
  <2>1. wired = {}
    BY Zenon DEF MakeInit
  <2> QED BY <2>1 DEF WiringClosed
<1> QED BY <1>1, WiringClosedNext, EmptyInvariant, PTL DEF MakeSpec

-----------------------------------------------------------------------------
(* No connection is lost or invented *)

LEMMA ConnectionsAccountedNext ==
    MakeTyped /\ EmptyBeforeLoops /\ ConnectionsAccounted /\ [MakeNext]_vars => ConnectionsAccounted'
<1> SUFFICES ASSUME MakeTyped, EmptyBeforeLoops, ConnectionsAccounted, [MakeNext]_vars
             PROVE  ConnectionsAccounted'
  OBVIOUS
<1>1. CASE Parse \/ Collapse
  <2>1. wired' = {} /\ phase' \notin {"connections", "returned"}
    BY <1>1, EarlySteps DEF EmptyBeforeLoops
  <2> QED BY <2>1 DEF ConnectionsAccounted, ConnectionDone
<1>2. CASE SkipDisabled \/ AddBlock
  <2>1. phase = "blocks" /\ UNCHANGED <<phase, wired>>
    BY <1>2, SkipDisabledStep, AddedBlock, Zenon DEF AtBlock
  <2>2. wired' = {}
    BY <2>1 DEF EmptyBeforeLoops
  <2> QED BY <2>1, <2>2 DEF ConnectionsAccounted, ConnectionDone
<1>3. CASE SkipConnection \/ Connect
  <2>1. /\ AtConnection /\ index' = index + 1
        /\ UNCHANGED <<d_connections, phase, disabled_blocks>>
        /\ \/ TouchesDisabled(con) /\ wired' = wired
           \/ wired' = wired \cup {con}
    BY <1>3, ConnectionSteps
  <2>2. \A i \in DOMAIN d_connections : i < index + 1 => i < index \/ d_connections[i] = con
    BY <2>1, ConnectionAtIndex DEF con
  <2>3. index \in DOMAIN d_connections /\ con = d_connections[index] /\ phase = "connections"
    BY <2>1 DEF AtConnection, con
  <2>4. \A c : TouchesDisabled(c)' <=> TouchesDisabled(c)
    BY <2>1 DEF TouchesDisabled, IsDisabled
  <2>5. \A i \in DOMAIN d_connections :
            i < index + 1 => d_connections[i] \in wired' \/ TouchesDisabled(d_connections[i])
    BY <2>1, <2>2, <2>3 DEF ConnectionsAccounted, ConnectionDone
  <2>6. \A c \in wired' : \E i \in DOMAIN d_connections : d_connections[i] = c
    BY <2>1, <2>3 DEF ConnectionsAccounted
  <2> QED BY <2>1, <2>3, <2>4, <2>5, <2>6 DEF ConnectionsAccounted, ConnectionDone, TouchesDisabled, IsDisabled
<1>4. CASE BlocksDone
  <2>1. \A i \in DOMAIN d_connections : ~(i < 1)
    BY LenProperties DEF MakeTyped, Typed
  <2> QED BY <1>4, <2>1, PhaseSteps DEF ConnectionsAccounted, ConnectionDone
<1>5. CASE Return
  <2>1. phase = "connections" /\ index \notin DOMAIN d_connections
    BY <1>5, PhaseSteps
  <2>2. \A i \in DOMAIN d_connections : i < index
    BY <2>1, LenProperties DEF MakeTyped, Typed
  <2> QED BY <1>5, <2>1, <2>2, PhaseSteps DEF ConnectionsAccounted, ConnectionDone, TouchesDisabled, IsDisabled
<1>6. CASE NoTitle \/ BlockThrows \/ ConnectThrows \/ MakeGraph
  BY <1>6, EndingSteps, PhaseSteps DEF ConnectionsAccounted, ConnectionDone
<1>7. CASE UNCHANGED vars
  BY <1>7, NoStep DEF ConnectionsAccounted, ConnectionDone, TouchesDisabled, IsDisabled
<1> QED BY <1>1, <1>2, <1>3, <1>4, <1>5, <1>6, <1>7, Zenon DEF MakeNext

\* No connection is lost or invented: one that is not wired touches a disabled
\* block, and a wire is a connection of the document (flowgraph_impl.cc:1380-1392).
THEOREM NoConnectionLost == MakeSpec => []ConnectionsAccounted
<1>1. MakeInit => ConnectionsAccounted
  <2> SUFFICES ASSUME MakeInit PROVE ConnectionsAccounted
    OBVIOUS
  <2>1. wired = {} /\ phase = "parse"
    BY Zenon DEF MakeInit
  <2> QED BY <2>1 DEF ConnectionsAccounted, ConnectionDone
<1> QED BY <1>1, ConnectionsAccountedNext, EmptyInvariant, MakeTypedInvariant, PTL DEF MakeSpec

-----------------------------------------------------------------------------
(* The document that is built from *)

\* The parser's invariants hold of the parser in make_flowgraph.
LEMMA ParserInvariant == MakeSpec => [](Typed /\ AcceptedSoFar /\ ReadSoFar)
<1>1. MakeInit => Typed /\ AcceptedSoFar /\ ReadSoFar
  BY TypedInit, AcceptedInit, ReadInit, Zenon DEF MakeInit
<1>2. Typed /\ AcceptedSoFar /\ ReadSoFar /\ [MakeNext]_vars => (Typed /\ AcceptedSoFar /\ ReadSoFar)'
  BY ParserSteps, TypedNext, AcceptedNext, ReadNext, Zenon
<1> QED BY <1>1, <1>2, PTL DEF MakeSpec

Built == {"title", "blocks", "connections", "returned"}

\* What each part of make_flowgraph knows of the document: parse() has left no
\* entry out and taken none twice, its variables are replaced, and the title is
\* that of the last options.  An exception has a cause.
FollowsDocument ==
    /\ phase = "parse" => (Idle /\ d_is = "open") \/ (~Idle /\ readable)
    /\ phase \in Built \cup {"collapse"} => readable /\ d_parsed
    /\ phase = "collapse" => d_blocks = BlocksOf(document)
    /\ phase \in Built => d_blocks = ResolvedBlocks(document)
    /\ phase \in Built \ {"title"} =>
          OptionPlaces(document) # {} /\ \E t \in Title(document) : title = Shown(t)
    /\ phase = "exception" => ~readable \/ Fault(document)

\* The blocks the loop has gone past: each said whether it is enabled, and the
\* enabled ones are in the graph, made from their parameters, each under an id of
\* its own; nothing else is, and the ids of the disabled ones are remembered.
BlocksPassed == {i \in DOMAIN d_blocks : BlockDone(i)}
BlocksUsed   == {i \in BlocksPassed : Enabled(d_blocks[i])}

BlocksBuilt ==
    phase \in {"blocks", "connections", "returned"} =>
        /\ \A i \in BlocksPassed : EnabledFlag(d_blocks[i]) # {}
        /\ \A i \in BlocksUsed :
              /\ d_blocks[i].id \in DOMAIN d_block_map \ Absent
              /\ d_block_map[d_blocks[i].id].type = d_blocks[i].key
              /\ d_block_map[d_blocks[i].id].block \in make_block(d_blocks[i], d_variables)
        /\ \A i, k \in BlocksUsed : i # k => d_blocks[i].id # d_blocks[k].id
        /\ \A id \in DOMAIN d_block_map : \E i \in BlocksUsed : d_blocks[i].id = id
        /\ \A id : IsDisabled(id) <=> \E i \in BlocksPassed : Disabled(d_blocks[i]) /\ d_blocks[i].id = id

\* The connections the loop has gone past: the ones that touch no disabled block
\* are wired, each into an input of its own.
ConnectionsPassed == {i \in DOMAIN d_connections : ConnectionDone(i)}
ConnectionsUsed   == {i \in ConnectionsPassed : ~TouchesDisabled(d_connections[i])}

Connectable(c) ==
    /\ Found(c) /\ c.src_key \in Ports /\ c.dst_key \in Ports
    /\ c.src_id # c.dst_id /\ c \notin Mismatched

WiresBuilt ==
    phase \in {"connections", "returned"} =>
        /\ wired = {d_connections[i] : i \in ConnectionsUsed}
        /\ \A i \in ConnectionsUsed : Connectable(d_connections[i])
        /\ \A i, k \in ConnectionsUsed :
              i # k => \/ d_connections[i].dst_id # d_connections[k].dst_id
                      \/ d_connections[i].dst_key # d_connections[k].dst_key

\* A parsed document is all in the vectors.
LEMMA ParsedDocument ==
    ASSUME Typed, AcceptedSoFar, ReadSoFar, d_parsed
    PROVE  /\ d_variables = VariablesOf(document) /\ d_connections = ConnectionsOf(document)
           /\ d_top_block = IF OptionPlaces(document) = {}
                            THEN [key |-> "", id |-> Empty, params |-> <<>>]
                            ELSE block_info(document[Max(OptionPlaces(document))])
           /\ \A i \in DOMAIN document : ~IsRefused(document[i])
<1>1. PICK n \in 1..Len(document) + 1 : ReadUntil(n)
  BY DEF ReadSoFar
<1>2. n = Len(document) + 1
  BY <1>1, Zenon DEF ReadUntil
<1>3. /\ d_variables = VariablesUntil(n) /\ d_connections = ConnectionsUntil(n) /\ d_top_block = TopUntil(n)
  BY <1>1 DEF ReadUntil
<1>4. Len(document) \in Nat
  BY PlacesOfDocument
<1>5. ASSUME NEW places, places \subseteq 1..Len(document) PROVE Until(places, n) = places
  <2>1. \A i \in places : i < n
    BY <1>2, <1>4, <1>5
  <2> QED BY <2>1 DEF Until
<1>6. \A i \in DOMAIN document : ~IsRefused(document[i])
  BY Zenon DEF AcceptedSoFar, ParsedMeansAccepted
<1>7. /\ Until(VariablePlaces(document), n) = VariablePlaces(document)
      /\ Until(ConnectionPlaces(document), n) = ConnectionPlaces(document)
      /\ Until(OptionPlaces(document), n) = OptionPlaces(document)
  BY <1>5, PlacesOfDocument
<1>8. d_variables = VariablesOf(document) /\ d_connections = ConnectionsOf(document)
  BY <1>3, <1>7 DEF VariablesUntil, VariablesOf, ConnectionsUntil, ConnectionsOf
<1> QED BY <1>3, <1>6, <1>7, <1>8, Zenon DEF TopUntil, OptionsUntil

\* collapse_variables replaces what the document means to be replaced.
LEMMA CollapseResolves ==
    ASSUME Typed, collapse_variables, d_blocks = BlocksOf(document), d_variables = VariablesOf(document)
    PROVE  d_blocks' = ResolvedBlocks(document)
<1>1. variable_value_map = ValueTexts(VariablesOf(document))
  BY DEF variable_value_map
<1> QED BY <1>1, Zenon DEF collapse_variables, collapsed, ResolvedBlocks

\* parse() in make_flowgraph: it goes on, has read everything, or has failed for
\* a fault of the document.
LEMMA ParseStep ==
    ASSUME Typed, AcceptedSoFar, ReadSoFar, FollowsDocument, Parse
    PROVE  /\ phase = "parse"
           /\ UNCHANGED <<document, readable, index, title, disabled_blocks, d_block_map, wired>>
           /\ \/ phase' = "parse" /\ ~Idle' /\ readable
              \/ phase' = "collapse" /\ readable /\ d_parsed' /\ d_blocks' = BlocksOf(document)
              \/ phase' = "exception" /\ (~readable \/ Fault(document))
<1>1. /\ phase = "parse" /\ parse
      /\ UNCHANGED <<index, title, disabled_blocks, d_block_map, wired>>
      /\ phase' = CASE result' = "exception" -> "exception"
                    [] d_parsed'             -> "collapse"
                    [] OTHER                 -> "parse"
  BY Zenon DEF Parse, graphVars
<1>2. PICK n \in 1..Len(document) + 1 : ReadUntil(n)
  BY DEF ReadSoFar
<1>3. Len(document) \in Nat /\ DOMAIN document = 1..Len(document)
  BY PlacesOfDocument
<1>4. ~d_parsed
  BY <1>1, <1>2, Zenon DEF FollowsDocument, ReadUntil
<1>5. CASE read_xml
  <2>1. UNCHANGED <<document, readable, d_parsed>> /\ Idle
    BY <1>5 DEF read_xml, stream
  <2>2. d_is = "open"
    BY <1>1, <2>1, Zenon DEF FollowsDocument
  <2>3. CASE readable
    <3>1. position' = 1 /\ result' = "none"
      BY <1>5, <2>2, <2>3, Zenon DEF read_xml
    <3>2. phase' = "parse" /\ ~Idle'
      <4>1. ~d_parsed' /\ result' # "exception"
        BY <1>4, <2>1, <3>1
      <4> QED BY <1>1, <3>1, <4>1 DEF Idle
    <3> QED BY <1>1, <2>1, <2>3, <3>2
  <2>4. CASE ~readable
    <3>1. result' = "exception"
      BY <1>5, <2>4, Zenon DEF read_xml
    <3>2. phase' = "exception"
      <4>1. ~d_parsed'
        BY <1>4, <2>1
      <4> QED BY <1>1, <3>1, <4>1
    <3> QED BY <1>1, <2>1, <2>4, <3>2
  <2> QED BY <2>3, <2>4
<1>6. CASE PassesEntry
  <2>1. Reading /\ NextEntry
    <3>1. Reading
      BY <1>6, Zenon DEF PassesEntry, read_options, read_variable, skip_note, read_block,
                         read_connection, skip_unknown
    <3> QED BY <1>6, <3>1, PassedIsAccepted, Zenon DEF PassesEntry
  <2>2. ~Idle
    BY <1>3, <2>1 DEF Reading, Idle
  <2>3. readable
    BY <1>1, <2>2, Zenon DEF FollowsDocument
  <2>4. position' = position + 1 /\ UNCHANGED <<document, readable, d_parsed, result>>
    BY <2>1 DEF NextEntry, stream
  <2>5. ~d_parsed' /\ result' # "exception" /\ ~Idle'
    <3>1. result = "none" /\ position \in Nat
      BY <1>2, <2>2, <1>3, <2>1 DEF ReadUntil, Reading
    <3> QED BY <1>4, <2>4, <3>1 DEF Idle
  <2>6. phase' = "parse"
    BY <1>1, <2>5
  <2> QED BY <1>1, <2>3, <2>4, <2>5, <2>6
<1>7. CASE read_variable_throws \/ read_broken
  <2>1. Reading /\ IsRefused(entry) /\ Throw
    BY <1>7, Zenon DEF read_variable_throws, read_broken, IsRefused
  <2>2. Fault(document)
    BY <2>1, Zenon DEF Reading, entry, Fault
  <2>3. result' = "exception" /\ UNCHANGED <<document, readable, d_parsed>>
    BY <2>1 DEF Throw, stream
  <2>4. phase' = "exception"
    <3>1. ~d_parsed'
      BY <1>4, <2>3
    <3> QED BY <1>1, <2>3, <3>1
  <2> QED BY <1>1, <2>2, <2>3, <2>4
<1>8. CASE end_of_document
  <2>1. ~Idle /\ position = Len(document) + 1
    BY <1>3, <1>8 DEF end_of_document, Reading, Idle, Typed
  <2>2. d_parsed' = TRUE /\ result' = "done" /\ UNCHANGED <<document, readable, d_blocks>>
    BY <1>8 DEF end_of_document, stream, vectors
  <2>3. readable
    BY <1>1, <2>1, Zenon DEF FollowsDocument
  <2>4. d_blocks = BlocksUntil(n) /\ n = Len(document) + 1
    BY <1>2, <2>1 DEF ReadUntil
  <2>5. d_blocks = BlocksOf(document)
    <3>1. BlockPlaces(document) \subseteq 1..Len(document)
      BY PlacesOfDocument
    <3>2. Until(BlockPlaces(document), n) = BlockPlaces(document)
      <4>1. \A i \in BlockPlaces(document) : i < n
        BY <1>3, <2>4, <3>1
      <4> QED BY <4>1 DEF Until
    <3> QED BY <2>4, <3>2 DEF BlocksUntil, BlocksOf
  <2>6. phase' = "collapse"
    <3>1. result' # "exception"
      BY <2>2
    <3> QED BY <1>1, <2>2, <3>1
  <2> QED BY <1>1, <2>2, <2>3, <2>5, <2>6
<1> QED BY <1>1, <1>5, <1>6, <1>7, <1>8, Zenon DEF parse, PassesEntry

\* A block that is refused is a fault of the document.
LEMMA ThrownBlockIsFault ==
    ASSUME Typed, AcceptedSoFar, ReadSoFar, FollowsDocument, BlocksBuilt, BlockThrows
    PROVE  Fault(document)
<1>1. /\ phase = "blocks" /\ index \in DOMAIN d_blocks /\ info = d_blocks[index]
      /\ \/ EnabledFlag(info) = {}
         \/ Enabled(info) /\ (~Makeable \/ info.id \in DOMAIN d_block_map)
  BY Zenon DEF BlockThrows, AtBlock, info
<1>2. d_blocks = ResolvedBlocks(document) /\ d_parsed
  BY <1>1 DEF FollowsDocument, Built
<1>3. d_variables = VariablesOf(document)
  BY <1>2, ParsedDocument
<1>4. BlockFault(document)
  <2>1. CASE EnabledFlag(info) = {}
    BY <1>1, <1>2, <2>1, Zenon DEF BlockFault
  <2>2. CASE Enabled(info) /\ ~Makeable
    <3>1. index \in InUse(document)
      BY <1>1, <1>2, <2>2 DEF InUse
    <3>2. make_block(info, VariablesOf(document)) = {} \/ info.id \in Absent
      BY <1>3, <2>2 DEF Makeable
    <3> QED BY <1>1, <1>2, <3>1, <3>2, Zenon DEF BlockFault
  <2>3. CASE Enabled(info) /\ info.id \in DOMAIN d_block_map
    <3>1. PICK i \in BlocksUsed : d_blocks[i].id = info.id
      BY <1>1, <2>3 DEF BlocksBuilt
    <3>2. i \in DOMAIN d_blocks /\ i < index /\ Enabled(d_blocks[i])
      BY <1>1, <3>1 DEF BlocksUsed, BlocksPassed, BlockDone
    <3>3. i # index
      <4>1. DOMAIN d_blocks = 1..Len(d_blocks) /\ Len(d_blocks) \in Nat
        BY LenProperties DEF Typed
      <4> QED BY <1>1, <3>2, <4>1
    <3>4. i \in InUse(document) /\ index \in InUse(document)
      BY <1>1, <1>2, <2>3, <3>2 DEF InUse
    <3> QED BY <1>1, <1>2, <3>1, <3>3, <3>4, Zenon DEF BlockFault
  <2> QED BY <1>1, <2>1, <2>2, <2>3
<1> QED BY <1>4, Zenon DEF Fault

\* Once its loop is over, the graph has the blocks that are in use, and the ids
\* of the disabled ones are remembered.
LEMMA AllBlocksBuilt ==
    ASSUME Typed, FollowsDocument, BlocksBuilt, phase \in {"connections", "returned"}
    PROVE  /\ d_blocks = ResolvedBlocks(document) /\ d_parsed
           /\ BlocksPassed = DOMAIN d_blocks /\ BlocksUsed = InUse(document)
           /\ DOMAIN d_block_map = UsedIds(document)
           /\ \A id : IsDisabled(id) <=> id \in DisabledIds(document)
<1>1. d_blocks = ResolvedBlocks(document) /\ d_parsed
  BY DEF FollowsDocument, Built
<1>2. BlocksPassed = DOMAIN d_blocks
  BY DEF BlocksPassed, BlockDone
<1>3. BlocksUsed = InUse(document)
  BY <1>1, <1>2 DEF BlocksUsed, InUse
<1>4. DOMAIN d_block_map = UsedIds(document)
  <2>1. UsedIds(document) = {d_blocks[i].id : i \in BlocksUsed}
    BY <1>1, <1>3 DEF UsedIds
  <2>2. /\ \A i \in BlocksUsed : d_blocks[i].id \in DOMAIN d_block_map
        /\ \A id \in DOMAIN d_block_map : \E i \in BlocksUsed : d_blocks[i].id = id
    BY DEF BlocksBuilt
  <2> QED BY <2>1, <2>2
<1>5. \A id : IsDisabled(id) <=> id \in DisabledIds(document)
  BY <1>1, <1>2 DEF BlocksBuilt, DisabledIds
<1> QED BY <1>1, <1>2, <1>3, <1>4, <1>5

\* The connections that touch no disabled block are the wanted ones.
LEMMA WantedConnections ==
    ASSUME Typed, AcceptedSoFar, ReadSoFar, FollowsDocument, BlocksBuilt,
           phase \in {"connections", "returned"}
    PROVE  /\ d_connections = ConnectionsOf(document)
           /\ Wanted(document) = {i \in DOMAIN d_connections : ~TouchesDisabled(d_connections[i])}
<1>1. d_connections = ConnectionsOf(document)
  BY AllBlocksBuilt, ParsedDocument
<1>2. \A c : ~TouchesDisabled(c) <=> {c.src_id, c.dst_id} \cap DisabledIds(document) = {}
  BY AllBlocksBuilt DEF TouchesDisabled
<1> QED BY <1>1, <1>2 DEF Wanted

\* A connection that is refused is a fault of the document.
LEMMA ThrownConnectionIsFault ==
    ASSUME Typed, AcceptedSoFar, ReadSoFar, FollowsDocument, BlocksBuilt, WiresBuilt, ConnectThrows
    PROVE  Fault(document)
<1>1. /\ phase = "connections" /\ index \in DOMAIN d_connections /\ con = d_connections[index]
      /\ ~TouchesDisabled(con) /\ ~(Found(con) /\ Accepts(con))
  BY Zenon DEF ConnectThrows, AtConnection, con
<1>2. /\ d_connections = ConnectionsOf(document)
      /\ Wanted(document) = {i \in DOMAIN d_connections : ~TouchesDisabled(d_connections[i])}
  BY <1>1, WantedConnections
<1>3. index \in Wanted(document) /\ con \in Wires(document)
  BY <1>1, <1>2 DEF Wires
<1>4. DOMAIN d_block_map = UsedIds(document)
  BY <1>1, AllBlocksBuilt
<1>5. WiringFault(document)
  <2>1. CASE ~Connectable(con)
    <3>1. \/ {con.src_id, con.dst_id} \ UsedIds(document) # {}
          \/ {con.src_key, con.dst_key} \ Ports # {}
          \/ con.src_id = con.dst_id
          \/ con \in Mismatched
      BY <1>4, <2>1 DEF Connectable, Found
    <3> QED BY <1>3, <3>1, Zenon DEF WiringFault
  <2>2. CASE Connectable(con)
    <3>1. PICK e \in wired : e.dst_id = con.dst_id /\ e.dst_key = con.dst_key
      BY <1>1, <2>2 DEF Connectable, Accepts
    <3>2. PICK i \in ConnectionsUsed : e = d_connections[i]
      BY <1>1, <3>1 DEF WiresBuilt
    <3>3. i \in Wanted(document) /\ i # index
      <4>1. DOMAIN d_connections = 1..Len(d_connections) /\ Len(d_connections) \in Nat
        BY LenProperties DEF Typed
      <4>2. i \in DOMAIN d_connections /\ ~TouchesDisabled(d_connections[i]) /\ i < index
        BY <1>1, <3>2 DEF ConnectionsUsed, ConnectionsPassed, ConnectionDone
      <4> QED BY <1>1, <1>2, <4>1, <4>2
    <3> QED BY <1>1, <1>2, <1>3, <3>1, <3>2, <3>3, Zenon DEF WiringFault
  <2> QED BY <2>1, <2>2
<1> QED BY <1>5, Zenon DEF Fault

\* What is known of the document stays true.
LEMMA FollowsNext ==
    Typed /\ AcceptedSoFar /\ ReadSoFar /\ FollowsDocument /\ BlocksBuilt /\ WiresBuilt /\ [MakeNext]_vars
        => FollowsDocument'
<1> SUFFICES ASSUME Typed, AcceptedSoFar, ReadSoFar, FollowsDocument, BlocksBuilt, WiresBuilt,
                    [MakeNext]_vars
             PROVE  FollowsDocument'
  OBVIOUS
<1>1. CASE Parse
  BY <1>1, ParseStep DEF FollowsDocument, Built
<1>2. CASE Collapse
  <2>1. /\ phase = "collapse" /\ phase' = "title" /\ collapse_variables
        /\ UNCHANGED <<document, readable, d_parsed>>
    BY <1>2 DEF Collapse, collapse_variables, stream
  <2>2. readable /\ d_parsed /\ d_blocks = BlocksOf(document)
    BY <2>1 DEF FollowsDocument, Built
  <2>3. d_blocks' = ResolvedBlocks(document)
    BY <2>1, <2>2, ParsedDocument, CollapseResolves
  <2> QED BY <2>1, <2>2, <2>3 DEF FollowsDocument, Built
<1>3. CASE MakeGraph
  <2>1. PICK t \in param_value("string", d_top_block, "title") :
            title' = IF t = Empty THEN DefaultTitle ELSE t
    BY <1>3, Zenon DEF MakeGraph
  <2>2. phase = "title" /\ phase' = "blocks" /\ UNCHANGED <<document, readable, d_parsed, d_blocks>>
    BY <1>3 DEF MakeGraph, parserVars, stream, vectors
  <2>3. readable /\ d_parsed /\ d_blocks = ResolvedBlocks(document)
    BY <2>2 DEF FollowsDocument, Built
  <2>4. OptionPlaces(document) # {}
    <3>1. "title" \in DOMAIN d_top_block.params
      BY <2>1 DEF param_value
    <3>2. d_top_block # [key |-> "", id |-> Empty, params |-> <<>>]
      <4>1. DOMAIN <<>> = {}
        OBVIOUS
      <4>2. CASE d_top_block = [key |-> "", id |-> Empty, params |-> <<>>]
        <5>1. d_top_block.params = <<>>
          BY <4>2
        <5> QED BY <3>1, <4>1, <5>1, Zenon
      <4> QED BY <4>2
    <3> QED BY <2>3, <3>2, ParsedDocument
  <2>5. t \in Title(document) /\ title' = Shown(t)
    BY <2>1, <2>3, <2>4, ParsedDocument DEF Title, Shown, DefaultTitle
  <2> QED BY <2>2, <2>3, <2>4, <2>5 DEF FollowsDocument, Built
<1>4. CASE NoTitle
  <2>1. phase = "title" /\ phase' = "exception" /\ param_value("string", d_top_block, "title") = {}
        /\ UNCHANGED <<document, readable>>
    BY <1>4 DEF NoTitle, Fail, parserVars, stream
  <2>2. d_parsed
    BY <2>1 DEF FollowsDocument, Built
  <2>3. OptionPlaces(document) = {} \/ Title(document) = {}
    BY <2>1, <2>2, ParsedDocument DEF Title
  <2>4. Fault(document)
    BY <2>3, Zenon DEF Fault
  <2> QED BY <2>1, <2>4 DEF FollowsDocument, Built
<1>5. CASE BlockThrows
  <2>1. phase = "blocks" /\ phase' = "exception" /\ UNCHANGED <<document, readable>>
    BY <1>5 DEF BlockThrows, AtBlock, Fail, parserVars, stream
  <2>2. Fault(document)
    BY <1>5, ThrownBlockIsFault, Zenon
  <2> QED BY <2>1, <2>2 DEF FollowsDocument, Built
<1>6. CASE ConnectThrows
  <2>1. phase = "connections" /\ phase' = "exception" /\ UNCHANGED <<document, readable>>
    BY <1>6 DEF ConnectThrows, AtConnection, Fail, parserVars, stream
  <2>2. Fault(document)
    BY <1>6, ThrownConnectionIsFault, Zenon
  <2> QED BY <2>1, <2>2 DEF FollowsDocument, Built
<1>7. CASE SkipDisabled \/ AddBlock \/ SkipConnection \/ Connect
  <2>1. UNCHANGED <<document, readable, d_parsed, d_blocks, phase, title>> /\ phase \in {"blocks", "connections"}
    BY <1>7, Zenon DEF SkipDisabled, AddBlock, SkipConnection, Connect, NextIndex, graphVars,
                       AtBlock, AtConnection, parserVars, stream, vectors
  <2> QED BY <2>1 DEF FollowsDocument, Built
<1>8. CASE BlocksDone \/ Return
  <2>1. /\ UNCHANGED <<document, readable, d_parsed, d_blocks, title>>
        /\ phase \in {"blocks", "connections"} /\ phase' \in {"connections", "returned"}
    BY <1>8, Zenon DEF BlocksDone, Return, graphVars, parserVars, stream, vectors
  <2> QED BY <2>1 DEF FollowsDocument, Built
<1>9. CASE UNCHANGED vars
  <2>1. UNCHANGED <<document, readable, d_is, d_parsed, d_blocks, phase, title, position>>
    BY <1>9, Zenon DEF vars, graphVars, parserVars, stream, vectors
  <2> QED BY <2>1 DEF FollowsDocument, Idle
<1> QED BY <1>1, <1>2, <1>3, <1>4, <1>5, <1>6, <1>7, <1>8, <1>9, Zenon DEF MakeNext

\* One more block is passed when its iteration ends.
LEMMA PassedBlock ==
    ASSUME MakeTyped, AtBlock, index' = index + 1, UNCHANGED <<d_blocks, phase>>
    PROVE  /\ BlocksPassed' = BlocksPassed \cup {index} /\ index \notin BlocksPassed
           /\ d_blocks[index] = info
           /\ BlocksUsed' = IF Enabled(info) THEN BlocksUsed \cup {index} ELSE BlocksUsed
<1>1. /\ phase = "blocks" /\ index \in 1..Len(d_blocks) /\ Len(d_blocks) \in Nat
      /\ DOMAIN d_blocks = 1..Len(d_blocks) /\ d_blocks[index] = info
  BY BlockAtIndex DEF AtBlock, info
<1>2. BlocksPassed = {i \in 1..Len(d_blocks) : i < index}
  BY <1>1 DEF BlocksPassed, BlockDone
<1>3. BlocksPassed' = {i \in 1..Len(d_blocks) : i < index + 1}
  BY <1>1 DEF BlocksPassed, BlockDone
<1>4. BlocksPassed' = BlocksPassed \cup {index} /\ index \notin BlocksPassed
  BY <1>1, <1>2, <1>3
<1>5. BlocksUsed' = {i \in BlocksPassed' : Enabled(d_blocks[i])}
  BY DEF BlocksUsed, Enabled
<1>6. BlocksUsed' = IF Enabled(info) THEN BlocksUsed \cup {index} ELSE BlocksUsed
  BY <1>1, <1>4, <1>5 DEF BlocksUsed
<1> QED BY <1>1, <1>4, <1>6

\* What is known of a block depends on nothing else.
LEMMA BlocksBuiltFrame ==
    ASSUME BlocksBuilt, phase \in {"blocks", "connections", "returned"},
           phase' \in {"blocks", "connections", "returned"}, BlocksPassed' = BlocksPassed,
           UNCHANGED <<d_blocks, d_variables, d_block_map, disabled_blocks>>
    PROVE  BlocksBuilt'
<1>1. BlocksUsed' = BlocksUsed
  BY DEF BlocksUsed, Enabled
<1>2. \A id : IsDisabled(id)' <=> IsDisabled(id)
  BY DEF IsDisabled
<1> QED BY <1>1, <1>2 DEF BlocksBuilt, Disabled

LEMMA BlocksBuiltNext ==
    MakeTyped /\ EmptyBeforeLoops /\ BlocksBuilt /\ [MakeNext]_vars => BlocksBuilt'
<1> SUFFICES ASSUME MakeTyped, EmptyBeforeLoops, BlocksBuilt, [MakeNext]_vars PROVE BlocksBuilt'
  OBVIOUS
<1>1. CASE Parse \/ Collapse \/ NoTitle \/ BlockThrows \/ ConnectThrows
  <2>1. phase' \notin {"blocks", "connections", "returned"}
    BY <1>1, EarlySteps, EndingSteps
  <2> QED BY <2>1 DEF BlocksBuilt
<1>2. CASE MakeGraph
  <2>1. /\ phase = "title" /\ phase' = "blocks" /\ index' = 1
        /\ UNCHANGED <<d_blocks, disabled_blocks, d_block_map>>
    BY <1>2, PhaseSteps
  <2>2. BlocksPassed' = {} /\ BlocksUsed' = {}
    <3>1. \A i \in DOMAIN d_blocks : ~(i < 1)
      BY LenProperties DEF MakeTyped, Typed
    <3> QED BY <2>1, <3>1 DEF BlocksPassed, BlocksUsed, BlockDone
  <2>3. DOMAIN d_block_map' = {} /\ \A id : ~IsDisabled(id)'
    BY <2>1 DEF EmptyBeforeLoops, IsDisabled
  <2> QED BY <2>2, <2>3 DEF BlocksBuilt
<1>3. CASE SkipDisabled
  <2>1. /\ AtBlock /\ Disabled(info) /\ index' = index + 1
        /\ UNCHANGED <<d_blocks, d_variables, phase, d_block_map>>
    BY <1>3, SkipDisabledStep DEF SkipDisabled, NextIndex, parserVars, vectors
  <2>2. ~Enabled(info) /\ EnabledFlag(info) # {}
    BY <2>1, TruthsDiffer DEF Enabled, Disabled
  <2>3. /\ BlocksPassed' = BlocksPassed \cup {index} /\ d_blocks[index] = info
        /\ BlocksUsed' = BlocksUsed
    BY <2>1, <2>2, PassedBlock
  <2>4. \A id : IsDisabled(id)' <=> IsDisabled(id) \/ id = info.id
    BY <1>3, RememberedIds
  <2>5. phase = "blocks"
    BY <2>1 DEF AtBlock
  <2>6. \A id : IsDisabled(id)' <=> \E i \in BlocksPassed' : Disabled(d_blocks[i]) /\ d_blocks[i].id = id
    BY <2>1, <2>3, <2>4, <2>5 DEF BlocksBuilt
  <2> QED BY <2>1, <2>2, <2>3, <2>5, <2>6 DEF BlocksBuilt, Disabled
<1>4. CASE AddBlock
  <2>1. /\ AtBlock /\ Enabled(info) /\ index' = index + 1 /\ info.id \notin DOMAIN d_block_map
        /\ UNCHANGED <<d_blocks, d_variables, phase, disabled_blocks>>
        /\ DOMAIN d_block_map' = {info.id} \cup DOMAIN d_block_map
        /\ \A id \in DOMAIN d_block_map : d_block_map'[id] = d_block_map[id]
    BY <1>4, AddedBlock, Zenon DEF parserVars, vectors
  <2>2. info.id \notin Absent /\ d_block_map'[info.id].type = info.key
        /\ d_block_map'[info.id].block \in make_block(info, d_variables)
    <3>1. PICK block \in make_block(info, d_variables) :
             d_block_map' = Added(info.id, [block |-> block, type |-> info.key])
      BY <1>4, Zenon DEF AddBlock
    <3>2. d_block_map'[info.id] = [block |-> block, type |-> info.key]
      BY <3>1 DEF Added
    <3>3. info.id \notin Absent
      BY <1>4, Zenon DEF AddBlock, Makeable
    <3> QED BY <3>1, <3>2, <3>3
  <2>3. /\ BlocksPassed' = BlocksPassed \cup {index} /\ d_blocks[index] = info
        /\ BlocksUsed' = BlocksUsed \cup {index}
    BY <2>1, PassedBlock
  <2>4. phase = "blocks" /\ ~Disabled(info) /\ EnabledFlag(info) # {}
    BY <2>1, TruthsDiffer DEF AtBlock, Enabled, Disabled
  <2>5. \A i \in BlocksPassed' : EnabledFlag(d_blocks[i]) # {}
    BY <2>3, <2>4 DEF BlocksBuilt
  <2>6. \A i \in BlocksUsed' :
              /\ d_blocks[i].id \in DOMAIN d_block_map' \ Absent
              /\ d_block_map'[d_blocks[i].id].type = d_blocks[i].key
              /\ d_block_map'[d_blocks[i].id].block \in make_block(d_blocks[i], d_variables)
    <3> SUFFICES ASSUME NEW i \in BlocksUsed'
                 PROVE  /\ d_blocks[i].id \in DOMAIN d_block_map' \ Absent
                        /\ d_block_map'[d_blocks[i].id].type = d_blocks[i].key
                        /\ d_block_map'[d_blocks[i].id].block \in make_block(d_blocks[i], d_variables)
      OBVIOUS
    <3>1. CASE i = index
      BY <2>1, <2>2, <2>3, <3>1
    <3>2. CASE i \in BlocksUsed
      BY <2>1, <2>4, <3>2 DEF BlocksBuilt
    <3> QED BY <2>3, <3>1, <3>2
  <2>7. \A i \in BlocksUsed : d_blocks[i].id # info.id
    BY <2>1, <2>4 DEF BlocksBuilt
  <2>8. \A i, k \in BlocksUsed' : i # k => d_blocks[i].id # d_blocks[k].id
    BY <2>3, <2>4, <2>7 DEF BlocksBuilt
  <2>9. \A id \in DOMAIN d_block_map' : \E i \in BlocksUsed' : d_blocks[i].id = id
    BY <2>1, <2>3, <2>4 DEF BlocksBuilt
  <2>10. \A id : IsDisabled(id)' <=> \E i \in BlocksPassed' : Disabled(d_blocks[i]) /\ d_blocks[i].id = id
    <3>1. \A id : IsDisabled(id)' <=> IsDisabled(id)
      BY <2>1 DEF IsDisabled
    <3> QED BY <2>3, <2>4, <3>1 DEF BlocksBuilt
  <2> QED BY <2>1, <2>5, <2>6, <2>8, <2>9, <2>10 DEF BlocksBuilt, Disabled
<1>5. CASE BlocksDone \/ Return
  <2>1. /\ UNCHANGED <<d_blocks, d_variables, disabled_blocks, d_block_map>>
        /\ phase' \in {"connections", "returned"}
        /\ phase = "connections" \/ (phase = "blocks" /\ index \notin DOMAIN d_blocks)
    BY <1>5, Zenon DEF BlocksDone, Return, graphVars, parserVars, vectors
  <2>2. BlocksPassed = DOMAIN d_blocks
    <3>1. phase = "blocks" => \A i \in DOMAIN d_blocks : i < index
      BY <2>1, LenProperties DEF MakeTyped, Typed
    <3> QED BY <2>1, <3>1 DEF BlocksPassed, BlockDone
  <2>3. BlocksPassed' = BlocksPassed
    BY <2>1, <2>2 DEF BlocksPassed, BlockDone
  <2> QED BY <2>1, <2>3, BlocksBuiltFrame
<1>6. CASE SkipConnection \/ Connect
  <2>1. /\ phase = "connections"
        /\ UNCHANGED <<phase, d_blocks, d_variables, disabled_blocks, d_block_map>>
    BY <1>6, Zenon DEF SkipConnection, Connect, AtConnection, NextIndex, graphVars, parserVars, vectors
  <2>2. BlocksPassed' = BlocksPassed
    BY <2>1 DEF BlocksPassed, BlockDone
  <2> QED BY <2>1, <2>2, BlocksBuiltFrame
<1>7. CASE UNCHANGED vars
  <2>1. UNCHANGED <<phase, index, d_blocks, d_variables, disabled_blocks, d_block_map>>
    BY <1>7, Zenon DEF vars, graphVars, parserVars, vectors
  <2>2. BlocksPassed' = BlocksPassed
    BY <2>1 DEF BlocksPassed, BlockDone
  <2>3. CASE phase \in {"blocks", "connections", "returned"}
    BY <2>1, <2>2, <2>3, BlocksBuiltFrame
  <2> QED BY <2>1, <2>3 DEF BlocksBuilt
<1> QED BY <1>1, <1>2, <1>3, <1>4, <1>5, <1>6, <1>7, Zenon DEF MakeNext

\* One more connection is passed when its iteration ends.
LEMMA PassedConnection ==
    ASSUME MakeTyped, AtConnection, index' = index + 1,
           UNCHANGED <<d_connections, phase, disabled_blocks>>
    PROVE  /\ index \notin ConnectionsUsed /\ d_connections[index] = con
           /\ ConnectionsUsed' = IF TouchesDisabled(con) THEN ConnectionsUsed
                                                         ELSE ConnectionsUsed \cup {index}
<1>1. /\ phase = "connections" /\ index \in 1..Len(d_connections) /\ Len(d_connections) \in Nat
      /\ DOMAIN d_connections = 1..Len(d_connections) /\ d_connections[index] = con
  BY ConnectionAtIndex DEF AtConnection, con
<1>2. ConnectionsPassed = {i \in 1..Len(d_connections) : i < index}
  BY <1>1 DEF ConnectionsPassed, ConnectionDone
<1>3. ConnectionsPassed' = {i \in 1..Len(d_connections) : i < index + 1}
  BY <1>1 DEF ConnectionsPassed, ConnectionDone
<1>4. ConnectionsPassed' = ConnectionsPassed \cup {index} /\ index \notin ConnectionsPassed
  BY <1>1, <1>2, <1>3
<1>5. ConnectionsUsed' = {i \in ConnectionsPassed' : ~TouchesDisabled(d_connections[i])}
  BY DEF ConnectionsUsed, TouchesDisabled, IsDisabled
<1>6. ConnectionsUsed' = IF TouchesDisabled(con) THEN ConnectionsUsed ELSE ConnectionsUsed \cup {index}
  BY <1>1, <1>4, <1>5 DEF ConnectionsUsed
<1> QED BY <1>1, <1>4, <1>6 DEF ConnectionsUsed

LEMMA WiresBuiltFrame ==
    ASSUME WiresBuilt, phase \in {"connections", "returned"}, ConnectionsUsed' = ConnectionsUsed,
           UNCHANGED <<d_connections, d_block_map, wired>>
    PROVE  WiresBuilt'
BY DEF WiresBuilt, Connectable, Found

LEMMA WiresBuiltNext ==
    MakeTyped /\ EmptyBeforeLoops /\ WiresBuilt /\ [MakeNext]_vars => WiresBuilt'
<1> SUFFICES ASSUME MakeTyped, EmptyBeforeLoops, WiresBuilt, [MakeNext]_vars PROVE WiresBuilt'
  OBVIOUS
<1>1. CASE Parse \/ Collapse \/ MakeGraph \/ NoTitle \/ BlockThrows \/ ConnectThrows
  <2>1. phase' \notin {"connections", "returned"}
    BY <1>1, EarlySteps, EndingSteps, PhaseSteps
  <2> QED BY <2>1 DEF WiresBuilt
<1>2. CASE SkipDisabled \/ AddBlock
  <2>1. phase = "blocks" /\ phase' = phase
    BY <1>2, SkipDisabledStep, AddedBlock, Zenon DEF AtBlock
  <2> QED BY <2>1 DEF WiresBuilt
<1>3. CASE BlocksDone
  <2>1. phase = "blocks" /\ phase' = "connections" /\ index' = 1 /\ UNCHANGED <<d_connections, wired>>
    BY <1>3, PhaseSteps
  <2>2. \A i \in DOMAIN d_connections : ~(i < 1)
    BY LenProperties DEF MakeTyped, Typed
  <2>3. ConnectionsUsed' = {}
    BY <2>1, <2>2 DEF ConnectionsUsed, ConnectionsPassed, ConnectionDone
  <2>4. wired' = {}
    BY <2>1 DEF EmptyBeforeLoops
  <2> QED BY <2>3, <2>4 DEF WiresBuilt
<1>4. CASE SkipConnection
  <2>1. /\ AtConnection /\ TouchesDisabled(con) /\ index' = index + 1
        /\ UNCHANGED <<d_connections, phase, disabled_blocks, d_block_map, wired>>
    BY <1>4, Zenon DEF SkipConnection, NextIndex, parserVars, vectors, graphVars
  <2>2. ConnectionsUsed' = ConnectionsUsed /\ phase = "connections"
    BY <2>1, PassedConnection DEF AtConnection
  <2> QED BY <2>1, <2>2, WiresBuiltFrame
<1>5. CASE Connect
  <2>1. /\ AtConnection /\ ~TouchesDisabled(con) /\ index' = index + 1
        /\ Found(con) /\ Accepts(con) /\ wired' = wired \cup {con}
        /\ UNCHANGED <<d_connections, phase, disabled_blocks, d_block_map>>
    BY <1>5, Zenon DEF Connect, NextIndex, parserVars, vectors
  <2>2. /\ ConnectionsUsed' = ConnectionsUsed \cup {index} /\ index \notin ConnectionsUsed
        /\ d_connections[index] = con /\ phase = "connections"
    BY <2>1, PassedConnection DEF AtConnection
  <2>3. wired = {d_connections[i] : i \in ConnectionsUsed}
    BY <2>2 DEF WiresBuilt
  <2>4. wired' = {d_connections[i] : i \in ConnectionsUsed'}
    BY <2>1, <2>2, <2>3
  <2>5. \A i \in ConnectionsUsed' : Connectable(d_connections[i])
    BY <2>1, <2>2 DEF WiresBuilt, Connectable, Accepts
  <2>6. \A i \in ConnectionsUsed : \/ d_connections[i].dst_id # con.dst_id
                                  \/ d_connections[i].dst_key # con.dst_key
    BY <2>1, <2>3 DEF Accepts
  <2>7. \A i, k \in ConnectionsUsed' :
              i # k => \/ d_connections[i].dst_id # d_connections[k].dst_id
                      \/ d_connections[i].dst_key # d_connections[k].dst_key
    BY <2>2, <2>6 DEF WiresBuilt
  <2> QED BY <2>1, <2>4, <2>5, <2>7 DEF WiresBuilt, Connectable, Found
<1>6. CASE Return
  <2>1. /\ phase = "connections" /\ phase' = "returned" /\ index \notin DOMAIN d_connections
        /\ UNCHANGED <<d_connections, disabled_blocks, d_block_map, wired>>
    BY <1>6, PhaseSteps
  <2>2. \A i \in DOMAIN d_connections : i < index
    BY <2>1, LenProperties DEF MakeTyped, Typed
  <2>3. ConnectionsUsed' = ConnectionsUsed
    BY <2>1, <2>2 DEF ConnectionsUsed, ConnectionsPassed, ConnectionDone, TouchesDisabled, IsDisabled
  <2> QED BY <2>1, <2>3, WiresBuiltFrame
<1>7. CASE UNCHANGED vars
  <2>1. UNCHANGED <<phase, index, d_connections, disabled_blocks, d_block_map, wired>>
    BY <1>7, NoStep
  <2>2. ConnectionsUsed' = ConnectionsUsed
    BY <2>1 DEF ConnectionsUsed, ConnectionsPassed, ConnectionDone, TouchesDisabled, IsDisabled
  <2>3. CASE phase \in {"connections", "returned"}
    BY <2>1, <2>2, <2>3, WiresBuiltFrame
  <2> QED BY <2>1, <2>3 DEF WiresBuilt
<1> QED BY <1>1, <1>2, <1>3, <1>4, <1>5, <1>6, <1>7, Zenon DEF MakeNext

-----------------------------------------------------------------------------
(* make_flowgraph answers with what its document means *)

\* All that is known in the middle of make_flowgraph.
Building ==
    /\ MakeTyped /\ EmptyBeforeLoops /\ Typed /\ AcceptedSoFar /\ ReadSoFar
    /\ FollowsDocument /\ BlocksBuilt /\ WiresBuilt

LEMMA BuildingInvariant == MakeSpec => []Building
<1>1. MakeInit => FollowsDocument /\ BlocksBuilt /\ WiresBuilt
  <2> SUFFICES ASSUME MakeInit PROVE FollowsDocument /\ BlocksBuilt /\ WiresBuilt
    OBVIOUS
  <2>1. phase = "parse" /\ position = 0 /\ d_is = "open"
    BY Zenon DEF MakeInit, Init
  <2> QED BY <2>1 DEF FollowsDocument, BlocksBuilt, WiresBuilt, Idle, Built
<1>2. MakeTyped /\ EmptyBeforeLoops /\ Typed /\ AcceptedSoFar /\ ReadSoFar
         /\ FollowsDocument /\ BlocksBuilt /\ WiresBuilt /\ [MakeNext]_vars
            => (FollowsDocument /\ BlocksBuilt /\ WiresBuilt)'
  BY FollowsNext, BlocksBuiltNext, WiresBuiltNext, Zenon
<1>3. MakeTyped /\ EmptyBeforeLoops /\ Typed /\ AcceptedSoFar /\ ReadSoFar
         /\ FollowsDocument /\ BlocksBuilt /\ WiresBuilt => Building
  BY DEF Building
<1> QED BY <1>1, <1>2, <1>3, MakeTypedInvariant, EmptyInvariant, ParserInvariant, PTL DEF MakeSpec

\* A graph is returned only of a document without a fault, and it is its graph.
LEMMA ReturnedGraph ==
    ASSUME Building, phase = "connections", index \notin DOMAIN d_connections, NEW g,
           g = [kind |-> "graph", title |-> title, blocks |-> d_block_map, wires |-> wired]
    PROVE  readable /\ ~Fault(document) /\ IsGraphOf(document, g)
<1>0. /\ MakeTyped /\ Typed /\ AcceptedSoFar /\ ReadSoFar
      /\ FollowsDocument /\ BlocksBuilt /\ WiresBuilt
  BY DEF Building
<1>1. /\ readable /\ OptionPlaces(document) # {}
      /\ \E t \in Title(document) : title = Shown(t)
  BY <1>0 DEF FollowsDocument, Built
<1>2. /\ d_blocks = ResolvedBlocks(document) /\ d_parsed
      /\ BlocksPassed = DOMAIN d_blocks /\ BlocksUsed = InUse(document)
      /\ DOMAIN d_block_map = UsedIds(document)
  BY <1>0, AllBlocksBuilt
<1>3. /\ d_variables = VariablesOf(document) /\ d_connections = ConnectionsOf(document)
      /\ \A i \in DOMAIN document : ~IsRefused(document[i])
  BY <1>0, <1>2, ParsedDocument
<1>4. ConnectionsUsed = Wanted(document)
  <2>1. \A i \in DOMAIN d_connections : i < index
    BY <1>0, LenProperties DEF MakeTyped, Typed
  <2>2. ConnectionsPassed = DOMAIN d_connections
    BY <2>1 DEF ConnectionsPassed, ConnectionDone
  <2> QED BY <1>0, <2>2, WantedConnections DEF ConnectionsUsed
<1>5. wired = Wires(document)
  BY <1>0, <1>3, <1>4 DEF WiresBuilt, Wires
<1>6. \A i \in InUse(document) :
         /\ d_blocks[i].id \in DOMAIN d_block_map \ Absent
         /\ d_block_map[d_blocks[i].id].type = d_blocks[i].key
         /\ d_block_map[d_blocks[i].id].block \in make_block(d_blocks[i], VariablesOf(document))
  BY <1>0, <1>2, <1>3 DEF BlocksBuilt
<1>7. ~BlockFault(document)
  <2>1. \A i \in DOMAIN d_blocks : EnabledFlag(d_blocks[i]) # {}
    BY <1>0, <1>2 DEF BlocksBuilt
  <2>2. \A i \in InUse(document) :
           make_block(d_blocks[i], VariablesOf(document)) # {} /\ d_blocks[i].id \notin Absent
    BY <1>6
  <2>3. \A i, k \in InUse(document) : i # k => d_blocks[i].id # d_blocks[k].id
    BY <1>0, <1>2 DEF BlocksBuilt
  <2> QED BY <1>2, <2>1, <2>2, <2>3, Zenon DEF BlockFault
<1>8. ~WiringFault(document)
  <2>1. \A i \in Wanted(document) : Connectable(d_connections[i])
    BY <1>0, <1>4 DEF WiresBuilt
  <2>2. \A c \in Wires(document) : /\ {c.src_id, c.dst_id} \ UsedIds(document) = {}
                                   /\ {c.src_key, c.dst_key} \ Ports = {}
                                   /\ c.src_id # c.dst_id /\ c \notin Mismatched
    BY <1>2, <1>3, <2>1 DEF Wires, Connectable, Found
  <2>3. \A i, k \in Wanted(document) :
              i # k => \/ d_connections[i].dst_id # d_connections[k].dst_id
                      \/ d_connections[i].dst_key # d_connections[k].dst_key
    BY <1>0, <1>4 DEF WiresBuilt
  <2> QED BY <1>3, <2>2, <2>3, Zenon DEF WiringFault
<1>9. ~Fault(document)
  BY <1>1, <1>3, <1>7, <1>8, Zenon DEF Fault
<1>10. IsGraphOf(document, g)
  <2>1. g.kind = "graph" /\ g.title = title /\ g.blocks = d_block_map /\ g.wires = wired
    OBVIOUS
  <2> QED BY <1>1, <1>2, <1>5, <1>6, <2>1, Zenon DEF IsGraphOf
<1> QED BY <1>1, <1>9, <1>10

\* No step changes the document, and none leaves from an answer.
LEMMA StreamStays ==
    ASSUME [Next]_parserVars
    PROVE  UNCHANGED <<document, readable>>
BY Zenon DEF Next, parse, read_xml, read_options, read_variable, read_variable_throws, skip_note, read_block,
   read_connection, skip_unknown, read_broken, end_of_document, collapse_variables, NextEntry, Throw,
   parserVars, stream

LEMMA StepsBeforeAnswer ==
    ASSUME MakeNext
    PROVE  /\ phase \notin {"returned", "exception"}
           /\ phase' = "returned" => Return
<1>1. CASE Parse
  <2>1. phase = "parse" /\ phase' \in {"exception", "collapse", "parse"}
    BY <1>1, Zenon DEF Parse
  <2> QED BY <2>1 DEF Return
<1>2. CASE Collapse \/ MakeGraph \/ NoTitle \/ BlocksDone
  <2>1. phase \in {"collapse", "title", "blocks"} /\ phase' \in {"title", "blocks", "exception", "connections"}
    BY <1>2, Zenon DEF Collapse, MakeGraph, NoTitle, BlocksDone, Fail
  <2> QED BY <2>1
<1>3. CASE SkipDisabled \/ AddBlock \/ SkipConnection \/ Connect
  <2>1. phase \in {"blocks", "connections"} /\ phase' = phase
    BY <1>3, Zenon DEF SkipDisabled, AddBlock, SkipConnection, Connect, AtBlock, AtConnection, NextIndex
  <2> QED BY <2>1
<1>4. CASE BlockThrows \/ ConnectThrows
  <2>1. phase \in {"blocks", "connections"} /\ phase' = "exception"
    BY <1>4, Zenon DEF BlockThrows, ConnectThrows, AtBlock, AtConnection, Fail
  <2> QED BY <2>1
<1>5. CASE Return
  <2>1. phase = "connections"
    BY <1>5, Zenon DEF Return
  <2> QED BY <1>5, <2>1
<1> QED BY <1>1, <1>2, <1>3, <1>4, <1>5, Zenon DEF MakeNext

\* Every step of make_flowgraph is a step of FlowgraphMeaning or changes nothing
\* of it.
LEMMA StepsMean ==
    ASSUME Building, [MakeNext]_vars
    PROVE  [Meaning!Answer]_(Meaning!meaningVars)
<1>0. FollowsDocument'
  BY FollowsNext, Zenon DEF Building
<1>1. UNCHANGED <<document, readable>>
  BY ParserSteps, StreamStays
<1>2. CASE MakeNext /\ phase' = "exception"
  <2>1. Answered = [kind |-> "pending"] /\ Answered' = [kind |-> "exception"]
    BY <1>2, StepsBeforeAnswer DEF Answered
  <2>2. ~readable \/ Fault(document)
    <3>1. (~readable \/ Fault(document))'
      BY <1>0, <1>2, Zenon DEF FollowsDocument
    <3> QED BY <1>1, <3>1, Zenon
  <2>3. Meaning!Answer
    BY <1>1, <2>1, <2>2, Zenon DEF Meaning!Answer, Meaning!Pending, Meaning!Exception
  <2> QED BY <2>3
<1>3. CASE MakeNext /\ phase' = "returned"
  <2>1. phase = "connections" /\ index \notin DOMAIN d_connections /\ UNCHANGED <<title, d_block_map, wired>>
    BY <1>3, StepsBeforeAnswer, Zenon DEF Return, graphVars
  <2>2. Answered = [kind |-> "pending"]
    BY <2>1 DEF Answered
  <2>3. Answered' = [kind |-> "graph", title |-> title, blocks |-> d_block_map, wires |-> wired]
    BY <1>3, <2>1 DEF Answered
  <2>4. readable /\ ~Fault(document) /\ IsGraphOf(document, Answered')
    BY <2>1, <2>3, ReturnedGraph
  <2>5. Meaning!Answer
    BY <1>1, <2>2, <2>4, Zenon DEF Meaning!Answer, Meaning!Pending
  <2> QED BY <2>5
<1>4. CASE MakeNext /\ phase' \notin {"returned", "exception"}
  <2>1. Answered' = Answered
    BY <1>4, StepsBeforeAnswer DEF Answered
  <2> QED BY <1>1, <2>1 DEF Meaning!meaningVars
<1>5. CASE UNCHANGED vars
  <2>1. UNCHANGED <<phase, title, d_block_map, wired>>
    BY <1>5, NoStep
  <2>2. Answered' = Answered
    BY <2>1, Zenon DEF Answered
  <2> QED BY <1>1, <2>2 DEF Meaning!meaningVars
<1> QED BY <1>2, <1>3, <1>4, <1>5, Zenon

\* What make_flowgraph answers is what the document means: an exception exactly
\* when the document has a fault, and otherwise the graph it describes, whatever
\* the document, the ports of its blocks and the missing devices
\* (flowgraph_impl.cc:1346-1394).  That it answers at all is checked by TLC.
THEOREM AnswersAsMeant == MakeSpec => Meaning!Init /\ [][Meaning!Answer]_(Meaning!meaningVars)
<1>1. MakeInit => Meaning!Init
  <2> SUFFICES ASSUME MakeInit PROVE Meaning!Init
    OBVIOUS
  <2>1. document \in Seq(Entry) /\ readable \in BOOLEAN /\ phase = "parse"
    BY DocumentsAssumption DEF MakeInit, Init
  <2>2. Answered = [kind |-> "pending"]
    BY <2>1 DEF Answered
  <2> QED BY <2>1, <2>2 DEF Meaning!Init, Meaning!Pending
<1>2. Building /\ [MakeNext]_vars => [Meaning!Answer]_(Meaning!meaningVars)
  BY StepsMean
<1> QED BY <1>1, <1>2, BuildingInvariant, PTL DEF MakeSpec

-----------------------------------------------------------------------------
(* make_flowgraph reads its document as the parser does *)

\* What is proved of the parser, for every order of its calls, holds of the one
\* in make_flowgraph, which is a parser whose owner calls parse() once and then
\* collapse_variables once (flowgraph_impl.cc:1353-1354).
THEOREM ParsesAsParser == MakeSpec => Init /\ [][Next]_parserVars
<1>1. MakeInit => Init
  BY Zenon DEF MakeInit
<1>2. [MakeNext]_vars => [Next]_parserVars
  BY ParserSteps
<1> QED BY <1>1, <1>2, PTL DEF MakeSpec

-----------------------------------------------------------------------------
(* The answer comes nearer *)

\* The measure is made of lengths and of places in the document.
MeasureTyped ==
    /\ Len(document) \in Nat /\ Len(d_blocks) \in Nat /\ Len(d_connections) \in Nat
    /\ position \in 0..Len(document) + 1
    /\ phase \in Phases
    /\ phase = "blocks" => index \in 1..Len(d_blocks) + 1
    /\ phase = "connections" => index \in 1..Len(d_connections) + 1

LEMMA MeasureIsTyped == MakeTyped => MeasureTyped
<1> SUFFICES ASSUME MakeTyped PROVE MeasureTyped
  OBVIOUS
<1>1. Len(document) \in Nat /\ Len(d_blocks) \in Nat /\ Len(d_connections) \in Nat
  BY LenProperties DEF MakeTyped, Typed
<1> QED BY <1>1 DEF MakeTyped, Typed, MeasureTyped

\* While it is read, a document gives at most one block or connection for every
\* entry that parse() has gone past.
OneForEachEntry ==
    phase = "parse" =>
        IF Idle THEN Len(d_blocks) = 0 /\ Len(d_connections) = 0
                ELSE Len(d_blocks) + Len(d_connections) <= position - 1

\* An entry that is passed gives at most one of them.
LEMMA EntryGivesOne ==
    ASSUME Typed, PassesEntry
    PROVE  /\ position \in 1..Len(document) /\ position' = position + 1
           /\ UNCHANGED <<document, result, d_parsed>>
           /\ Len(d_blocks') + Len(d_connections') <= Len(d_blocks) + Len(d_connections) + 1
<1>1. Reading /\ NextEntry
  BY Zenon, PassedIsAccepted DEF PassesEntry, read_options, read_variable, skip_note, read_block,
                                 read_connection, skip_unknown
<1>2. position \in 1..Len(document)
  BY <1>1, ReadingEntry
<1>3. position' = position + 1 /\ UNCHANGED <<document, result, d_parsed>>
  BY <1>1, Zenon DEF NextEntry, stream
<1>4. Len(d_blocks) \in Nat /\ Len(d_connections) \in Nat
  BY LenProperties DEF Typed
<1>5. CASE read_block
  <2>1. d_blocks' = Append(d_blocks, block_info(entry)) /\ UNCHANGED d_connections
    BY <1>5, Zenon DEF read_block
  <2>2. Len(d_blocks') = Len(d_blocks) + 1
    <3>1. entry \in Entry /\ IsBlock(entry)
      BY <1>1, <1>5, ReadingEntry, Zenon DEF read_block, IsProcessing
    <3>2. block_info(entry) \in BlockInfo
      BY <3>1, BlockInfoOfEntry
    <3> QED BY <2>1, <3>2, AppendProperties DEF Typed
  <2> QED BY <1>2, <1>3, <1>4, <2>1, <2>2
<1>6. CASE read_connection
  <2>1. d_connections' = Append(d_connections, connection_info(entry)) /\ UNCHANGED d_blocks
    BY <1>6, Zenon DEF read_connection
  <2>2. Len(d_connections') = Len(d_connections) + 1
    <3>1. entry \in Entry /\ IsConnection(entry)
      BY <1>1, <1>6, ReadingEntry, Zenon DEF read_connection
    <3>2. connection_info(entry) \in ConnectionInfo
      BY <3>1, ConnectionOfEntry
    <3> QED BY <2>1, <3>2, AppendProperties DEF Typed
  <2> QED BY <1>2, <1>3, <1>4, <2>1, <2>2
<1>7. CASE read_options \/ read_variable \/ skip_note \/ skip_unknown
  <2>1. UNCHANGED <<d_blocks, d_connections>>
    BY <1>7, Zenon DEF read_options, read_variable, skip_note, skip_unknown, vectors
  <2> QED BY <1>2, <1>3, <1>4, <2>1
<1> QED BY <1>5, <1>6, <1>7, Zenon DEF PassesEntry

\* A step of parse() in make_flowgraph opens the document, passes an entry, ends
\* with all of them passed, or throws.
LEMMA ParseMoves ==
    ASSUME Building, MeasureTyped, OneForEachEntry, Parse
    PROVE  /\ phase = "parse" /\ UNCHANGED document
           /\ \/ phase' = "exception"
              \/ /\ phase' = "parse" /\ position = 0 /\ position' = 1
                 /\ UNCHANGED <<d_blocks, d_connections>>
              \/ /\ phase' = "parse" /\ position' = position + 1 /\ position \in 1..Len(document)
                 /\ Len(d_blocks') + Len(d_connections') <= Len(d_blocks) + Len(d_connections) + 1
              \/ /\ phase' = "collapse" /\ position = Len(document) + 1
                 /\ UNCHANGED <<d_blocks, d_connections>>
<1>0. Typed /\ AcceptedSoFar /\ ReadSoFar /\ FollowsDocument
  BY DEF Building
<1>1. /\ phase = "parse" /\ UNCHANGED document
      /\ \/ phase' = "parse" /\ ~Idle'
         \/ phase' = "collapse" /\ d_parsed'
         \/ phase' = "exception"
  BY <1>0, ParseStep
<1>2. PICK n \in 1..Len(document) + 1 : ReadUntil(n)
  BY <1>0 DEF ReadSoFar
<1>3. ~d_parsed
  BY <1>0, <1>1, <1>2, Zenon DEF FollowsDocument, ReadUntil
<1>4. parse
  BY Zenon DEF Parse
<1>5. CASE read_xml
  <2>1. position = 0 /\ position' \in {0, 1} /\ UNCHANGED <<d_blocks, d_connections, d_parsed>>
    BY <1>5 DEF read_xml, Idle, vectors
  <2> QED BY <1>1, <1>3, <2>1 DEF Idle
<1>6. CASE PassesEntry
  <2>1. /\ position \in 1..Len(document) /\ position' = position + 1 /\ d_parsed' = d_parsed
        /\ Len(d_blocks') + Len(d_connections') <= Len(d_blocks) + Len(d_connections) + 1
    BY <1>0, <1>6, EntryGivesOne
  <2> QED BY <1>1, <1>3, <2>1
<1>7. CASE read_variable_throws \/ read_broken
  <2>1. position' = 0 /\ d_parsed' = d_parsed
    BY <1>7, Zenon DEF read_variable_throws, read_broken, Throw
  <2> QED BY <1>1, <1>3, <2>1 DEF Idle
<1>8. CASE end_of_document
  <2>1. ~Idle /\ ~Reading /\ position' = 0 /\ UNCHANGED <<d_blocks, d_connections>>
    BY <1>8, Zenon DEF end_of_document, vectors
  <2>2. DOMAIN document = 1..Len(document)
    BY <1>0, PlacesOfDocument
  <2>3. position = Len(document) + 1
    BY <2>1, <2>2 DEF Idle, Reading, MeasureTyped
  <2> QED BY <1>1, <2>1, <2>3 DEF Idle
<1> QED BY <1>4, <1>5, <1>6, <1>7, <1>8, Zenon DEF parse, PassesEntry

LEMMA OneForEachEntryNext ==
    ASSUME Building, MeasureTyped, OneForEachEntry, [MakeNext]_vars
    PROVE  OneForEachEntry'
<1>1. CASE Parse
  <2>1. Len(d_blocks') \in Nat /\ Len(d_connections') \in Nat
    <3>1. MakeTyped'
      BY MakeTypedNext DEF Building
    <3>2. d_blocks' \in Seq(BlockInfo) /\ d_connections' \in Seq(ConnectionInfo)
      BY <3>1 DEF MakeTyped, Typed
    <3> QED BY <3>2, LenProperties
  <2> QED BY <1>1, <2>1, ParseMoves DEF OneForEachEntry, MeasureTyped, Idle
<1>2. CASE ~Parse /\ ~UNCHANGED vars
  <2>1. phase' # "parse"
    <3>1. CASE Collapse \/ MakeGraph \/ NoTitle \/ BlocksDone \/ BlockThrows \/ ConnectThrows \/ Return
      BY <3>1, Zenon DEF Collapse, PhaseSteps, MakeGraph, NoTitle, BlocksDone, BlockThrows, ConnectThrows, Return, Fail
    <3>2. CASE SkipDisabled \/ AddBlock \/ SkipConnection \/ Connect
      BY <3>2, Zenon DEF SkipDisabled, AddBlock, SkipConnection, Connect, NextIndex, AtBlock, AtConnection
    <3> QED BY <1>2, <3>1, <3>2, Zenon DEF MakeNext
  <2> QED BY <2>1 DEF OneForEachEntry
<1>3. CASE UNCHANGED vars
  <2>1. UNCHANGED <<phase, position, d_blocks, d_connections>>
    BY <1>3, Zenon DEF vars, parserVars, vectors
  <2> QED BY <2>1 DEF OneForEachEntry, Idle
<1> QED BY <1>1, <1>2, <1>3

\* The steps after parse(): each moves on to the next part with no more to do
\* than was promised, or goes one place further in its loop.
LEMMA LaterSteps ==
    ASSUME Building, MakeNext, ~Parse
    PROVE  \/ phase \in {"collapse", "title", "blocks", "connections"} /\ phase' = "exception"
           \/ /\ phase = "collapse" /\ phase' = "title"
              /\ Len(d_blocks') = Len(d_blocks) /\ UNCHANGED d_connections
           \/ /\ phase = "title" /\ phase' = "blocks" /\ index' = 1
              /\ UNCHANGED <<d_blocks, d_connections>>
           \/ /\ phase = "blocks" /\ phase' = "blocks" /\ index' = index + 1
              /\ index \in DOMAIN d_blocks
              /\ UNCHANGED <<d_blocks, d_connections>>
           \/ /\ phase = "blocks" /\ phase' = "connections" /\ index' = 1
              /\ index \notin DOMAIN d_blocks /\ UNCHANGED d_connections
           \/ /\ phase = "connections" /\ phase' = "connections" /\ index' = index + 1
              /\ index \in DOMAIN d_connections /\ UNCHANGED d_connections
           \/ phase = "connections" /\ phase' = "returned"
<1>1. CASE Collapse
  <2>1. phase = "collapse" /\ phase' = "title" /\ collapse_variables /\ UNCHANGED d_connections
    BY <1>1, Zenon DEF Collapse, collapse_variables
  <2>2. Len(d_blocks') = Len(d_blocks)
    <3>1. /\ d_blocks' \in Seq(BlockInfo) /\ d_blocks \in Seq(BlockInfo)
          /\ DOMAIN d_blocks' = DOMAIN d_blocks
      BY <2>1, CollapsedBlocks DEF Building, Typed, collapse_variables
    <3> QED BY <3>1, LenProperties
  <2> QED BY <2>1, <2>2
<1>2. CASE NoTitle \/ BlockThrows \/ ConnectThrows
  BY <1>2, Zenon DEF NoTitle, BlockThrows, ConnectThrows, Fail, AtBlock, AtConnection
<1>3. CASE MakeGraph \/ BlocksDone \/ Return
  BY <1>3, PhaseSteps, Zenon
<1>4. CASE SkipDisabled \/ AddBlock
  BY <1>4, Zenon DEF SkipDisabled, AddBlock, AtBlock, NextIndex, parserVars, vectors
<1>5. CASE SkipConnection \/ Connect
  BY <1>5, Zenon DEF SkipConnection, Connect, AtConnection, NextIndex, parserVars, vectors
<1> QED BY <1>1, <1>2, <1>3, <1>4, <1>5, Zenon DEF MakeNext

\* Whatever the document, every step of make_flowgraph brings its answer nearer,
\* so it takes at most twice as many steps as there are entries, and six more
\* (flowgraph_impl.cc:1346-1394).
THEOREM AnswerAlwaysNears == MakeSpec => AnswerNears
<1>1. MakeInit => OneForEachEntry
  <2> SUFFICES ASSUME MakeInit PROVE OneForEachEntry
    OBVIOUS
  <2>1. Len(d_blocks) = 0 /\ Len(d_connections) = 0 /\ Idle
    <3>1. d_blocks = <<>> /\ d_connections = <<>> /\ position = 0
      BY Zenon DEF MakeInit, Init
    <3> QED BY <3>1, EmptySeq DEF Idle
  <2> QED BY <2>1 DEF OneForEachEntry
<1>2. Building => MeasureTyped
  BY MeasureIsTyped DEF Building
<1>3. Building /\ MeasureTyped /\ MeasureTyped' /\ OneForEachEntry /\ [MakeNext]_vars
         => [StepsToAnswer' \in Nat /\ StepsToAnswer' < StepsToAnswer]_vars
  <2> SUFFICES ASSUME Building, MeasureTyped, MeasureTyped', OneForEachEntry, MakeNext
               PROVE  StepsToAnswer' \in Nat /\ StepsToAnswer' < StepsToAnswer
    OBVIOUS
  <2>1. CASE Parse
    <3>1. StepsToAnswer = 2 * Len(document) + 6 - position /\ phase = "parse"
      BY <2>1, ParseMoves DEF StepsToAnswer
    <3>2. CASE phase' = "exception"
      BY <3>1, <3>2 DEF StepsToAnswer, MeasureTyped
    <3>3. CASE phase' = "parse"
      <4>1. StepsToAnswer' = 2 * Len(document) + 6 - position'
        BY <2>1, <3>3, ParseMoves DEF StepsToAnswer
      <4> QED BY <2>1, <3>1, <3>3, <4>1, ParseMoves DEF MeasureTyped
    <3>4. CASE phase' = "collapse"
      <4>1. /\ StepsToAnswer' = Len(d_blocks) + Len(d_connections) + 4
            /\ position = Len(document) + 1
        BY <2>1, <3>4, ParseMoves DEF StepsToAnswer
      <4>2. Len(d_blocks) + Len(d_connections) <= Len(document)
        BY <3>1, <4>1 DEF OneForEachEntry, Idle, MeasureTyped
      <4> QED BY <3>1, <4>1, <4>2 DEF MeasureTyped
    <3> QED BY <2>1, <3>2, <3>3, <3>4, ParseMoves
  <2>2. CASE ~Parse
    <3>1. DOMAIN d_blocks = 1..Len(d_blocks) /\ DOMAIN d_connections = 1..Len(d_connections)
      BY LenProperties DEF Building, MakeTyped, Typed
    <3>2. CASE phase' = "exception"
      BY <2>2, <3>2, LaterSteps DEF StepsToAnswer, MeasureTyped
    <3>3. CASE phase = "collapse" /\ phase' = "title"
      BY <2>2, <3>3, LaterSteps DEF StepsToAnswer, MeasureTyped
    <3>4. CASE phase = "title" /\ phase' = "blocks"
      BY <2>2, <3>4, LaterSteps DEF StepsToAnswer, MeasureTyped
    <3>5. CASE phase = "blocks" /\ phase' = "blocks"
      BY <2>2, <3>1, <3>5, LaterSteps DEF StepsToAnswer, MeasureTyped
    <3>6. CASE phase = "blocks" /\ phase' = "connections"
      <4>1. index = Len(d_blocks) + 1 /\ index' = 1 /\ UNCHANGED d_connections
        BY <2>2, <3>1, <3>6, LaterSteps DEF MeasureTyped
      <4>2. /\ StepsToAnswer = Len(d_blocks) + Len(d_connections) + 3 - index
            /\ StepsToAnswer' = Len(d_connections) + 2 - 1
        BY <3>6, <4>1 DEF StepsToAnswer
      <4> QED BY <4>1, <4>2 DEF MeasureTyped
    <3>7. CASE phase = "connections"
      <4>1. /\ StepsToAnswer = Len(d_connections) + 2 - index
            /\ index \in 1..Len(d_connections) + 1 /\ Len(d_connections) \in Nat
        BY <3>7 DEF StepsToAnswer, MeasureTyped
      <4>2. \/ phase' \in {"exception", "returned"}
            \/ /\ phase' = "connections" /\ index' = index + 1
               /\ index \in 1..Len(d_connections) /\ UNCHANGED d_connections
        BY <2>2, <3>1, <3>7, LaterSteps
      <4>3. CASE phase' \in {"exception", "returned"}
        <5>1. StepsToAnswer' = 0
          BY <4>3 DEF StepsToAnswer
        <5> QED BY <4>1, <5>1
      <4>4. CASE phase' = "connections"
        <5>1. StepsToAnswer' = Len(d_connections) + 2 - (index + 1)
          BY <4>2, <4>4 DEF StepsToAnswer
        <5> QED BY <4>1, <4>2, <4>4, <5>1
      <4> QED BY <4>2, <4>3, <4>4
    <3> QED BY <2>2, <3>2, <3>3, <3>4, <3>5, <3>6, <3>7, LaterSteps
  <2> QED BY <2>1, <2>2
<1>4. Building /\ OneForEachEntry /\ [MakeNext]_vars => OneForEachEntry'
  BY <1>2, OneForEachEntryNext
<1> QED BY <1>1, <1>2, <1>3, <1>4, BuildingInvariant, PTL DEF MakeSpec, AnswerNears
=============================================================================
