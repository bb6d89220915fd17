----------------------------- MODULE GrcDocument -----------------------------
(***************************************************************************)
(* The entries of a .grc document as GrcParser::parse() of                 *)
(* src/lib/flowgraph_impl.cc tells them apart, and what a document holds:  *)
(* its processing blocks, its enabled variables and its connections.       *)
(*                                                                         *)
(* A document is the sequence of the children of its <flow_graph> node:    *)
(*   block       with its key and its <param> entries, in order            *)
(*   connection  with its four fields                                      *)
(*   broken      a block or connection without one of the nodes that       *)
(*               get<> asks for, or with a port that is no integer         *)
(*   other       anything else                                             *)
(***************************************************************************)
EXTENDS ParamValue

CONSTANT VariableKeys   \* the block keys that start with "variable"

ASSUME VariableKeysAssumption == {"options", "note"} \cap VariableKeys = {}

Entry ==
    [tag : {"block"}, key : Key, params : Seq([key : STRING, value : Text])]
        \cup [tag : {"connection"}, src_id : Text, dst_id : Text, src_key : Int, dst_key : Int]
        \cup [tag : {"broken", "other"}]

ConnectionInfo == [src_id : Text, dst_id : Text, src_key : Int, dst_key : Int]

\* BlockInfo of a block entry.  The last entry of a name counts; the id is kept
\* apart from the other parameters and is empty when there is none.
block_info(f) ==
    LET named(k) == {i \in DOMAIN f.params : f.params[i].key = k}
        value(k) == f.params[Max(named(k))].value
        keys     == {f.params[i].key : i \in DOMAIN f.params} \ {"id"}
    IN  [key    |-> f.key,
         id     |-> IF named("id") = {} THEN Empty ELSE value("id"),
         params |-> [k \in keys |-> value(k)]]

connection_info(f) ==
    [src_id |-> f.src_id, dst_id |-> f.dst_id, src_key |-> f.src_key, dst_key |-> f.dst_key]

\* The sorts of entries, in the order in which parse() asks.
IsBlock(f)      == f.tag = "block"
IsOptions(f)    == IsBlock(f) /\ f.key = "options"
IsVariable(f)   == IsBlock(f) /\ f.key \in VariableKeys
IsNote(f)       == IsBlock(f) /\ f.key = "note"
IsProcessing(f) == IsBlock(f) /\ f.key \notin VariableKeys \cup {"options", "note"}
IsConnection(f) == f.tag = "connection"

EnabledFlag(info) == param_value("bool", info, "_enabled")

Enabled(info)  == EnabledFlag(info) = {Truth(TRUE)}
Disabled(info) == EnabledFlag(info) = {Truth(FALSE)}

\* An entry at which parse() throws.
IsRefused(f) ==
    \/ f.tag = "broken"
    \/ IsVariable(f) /\ EnabledFlag(block_info(f)) = {}

-----------------------------------------------------------------------------
(* What a document says, independent of how it is read. *)

\* The places of the entries of a sort.
OptionPlaces(doc)     == {i \in DOMAIN doc : IsOptions(doc[i])}
BlockPlaces(doc)      == {i \in DOMAIN doc : IsProcessing(doc[i])}
VariablePlaces(doc)   == {i \in DOMAIN doc : IsVariable(doc[i]) /\ Enabled(block_info(doc[i]))}
ConnectionPlaces(doc) == {i \in DOMAIN doc : IsConnection(doc[i])}

\* The k-th of some places: k - 1 of them come before it.
Nth(places, k) == CHOOSE i \in places : Cardinality({j \in places : j < i}) = k - 1

\* What is made of the entries at some places, in the order of the document.
BlocksAt(doc, places) ==
    [k \in 1..Cardinality(places) |-> block_info(doc[Nth(places, k)])]
ConnectionsAt(doc, places) ==
    [k \in 1..Cardinality(places) |-> connection_info(doc[Nth(places, k)])]

BlocksOf(doc)      == BlocksAt(doc, BlockPlaces(doc))
VariablesOf(doc)   == BlocksAt(doc, VariablePlaces(doc))
ConnectionsOf(doc) == ConnectionsAt(doc, ConnectionPlaces(doc))

\* The text that stands for each variable with a value: the last one of an id,
\* without quotes.
ValueTexts(variables) ==
    LET setting == {i \in DOMAIN variables : is_param_set(variables[i], "value")}
        last(n) == Max({i \in setting : variables[i].id = n})
    IN  [n \in {variables[i].id : i \in setting} |-> Unquote(variables[last(n)].params["value"])]
=============================================================================
