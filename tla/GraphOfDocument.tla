--------------------------- MODULE GraphOfDocument ---------------------------
(***************************************************************************)
(* What graph a document describes, independent of how it is built, and    *)
(* which faults leave it without one.  The comments this is taken from are *)
(* at src/include/flowgraph/flowgraph.h:413-425 and in make_flowgraph      *)
(* itself ("parse input and replace variables", "connect only if both ends *)
(* are enabled").                                                          *)
(***************************************************************************)
EXTENDS GrcDocument, BlockFactory

CONSTANTS
    Ports,       \* the ports every block has
    Absent,      \* ids of the blocks whose gnuradio constructor throws (no device)
    Mismatched   \* the connections whose two ports have items of different sizes

\* The blocks with every parameter that is the name of a variable replaced.
ResolvedBlocks(doc) ==
    LET texts      == ValueTexts(VariablesOf(doc))
        resolve(t) == IF t \in DOMAIN texts THEN texts[t] ELSE t
        blocks     == BlocksOf(doc)
    IN  [i \in DOMAIN blocks |->
            [blocks[i] EXCEPT !.params = [p \in DOMAIN @ |-> resolve(@[p])]]]

InUse(doc) ==
    LET blocks == ResolvedBlocks(doc) IN {i \in DOMAIN blocks : Enabled(blocks[i])}
UsedIds(doc) ==
    LET blocks == ResolvedBlocks(doc) IN {blocks[i].id : i \in InUse(doc)}
DisabledIds(doc) ==
    LET blocks == ResolvedBlocks(doc)
    IN  {blocks[i].id : i \in {k \in DOMAIN blocks : Disabled(blocks[k])}}

\* The last options of the document count.
Title(doc)   == param_value("string", block_info(doc[Max(OptionPlaces(doc))]), "title")
Shown(title) == IF title = Empty THEN Word("My Flowgraph") ELSE title

\* The connections that are to be wired: neither end is a disabled block.
Wanted(doc) ==
    LET connections == ConnectionsOf(doc)
        disabled    == DisabledIds(doc)
    IN  {i \in DOMAIN connections :
            {connections[i].src_id, connections[i].dst_id} \cap disabled = {}}

Wires(doc) ==
    LET connections == ConnectionsOf(doc) IN {connections[i] : i \in Wanted(doc)}

BlockFault(doc) ==
    LET blocks == ResolvedBlocks(doc) IN
    \/ \E i \in DOMAIN blocks : EnabledFlag(blocks[i]) = {}
    \/ \E i \in InUse(doc) : \/ make_block(blocks[i], VariablesOf(doc)) = {}
                             \/ blocks[i].id \in Absent
    \/ \E i, k \in InUse(doc) : i # k /\ blocks[i].id = blocks[k].id

WiringFault(doc) ==
    LET connections == ConnectionsOf(doc) IN
    \/ \E c \in Wires(doc) : \/ {c.src_id, c.dst_id} \ UsedIds(doc) # {}
                             \/ {c.src_key, c.dst_key} \ Ports # {}
                             \/ c.src_id = c.dst_id
                             \/ c \in Mismatched
    \/ \E i, k \in Wanted(doc) : /\ i # k
                                 /\ connections[i].dst_id = connections[k].dst_id
                                 /\ connections[i].dst_key = connections[k].dst_key

Fault(doc) ==
    \/ \E i \in DOMAIN doc : IsRefused(doc[i])
    \/ OptionPlaces(doc) = {}
    \/ Title(doc) = {}
    \/ BlockFault(doc)
    \/ WiringFault(doc)

\* g is a graph of doc: its blocks are the enabled ones, each made from its own
\* parameters, and its wires are the wanted connections.
IsGraphOf(doc, g) ==
    /\ g.kind = "graph"
    /\ \E t \in Title(doc) : g.title = Shown(t)
    /\ DOMAIN g.blocks = UsedIds(doc)
    /\ \A i \in InUse(doc) :
          LET info == ResolvedBlocks(doc)[i] IN
          /\ g.blocks[info.id].type = info.key
          /\ g.blocks[info.id].block \in make_block(info, VariablesOf(doc))
    /\ g.wires = Wires(doc)
=============================================================================
