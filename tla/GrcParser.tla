------------------------------ MODULE GrcParser ------------------------------
(***************************************************************************)
(* class GrcParser (src/lib/flowgraph_impl.h, .cc): reading a .grc         *)
(* document into blocks, variables and connections, and replacing the      *)
(* parameters that are the name of a variable.                             *)
(*                                                                         *)
(* parse() is one action per loop iteration, so that an exception leaves   *)
(* the vectors as they are in the middle of the loop.                      *)
(***************************************************************************)
EXTENDS GrcDocument

CONSTANT Documents   \* the documents an input stream may hold

ASSUME DocumentsAssumption == Documents \subseteq Seq(Entry)

VARIABLES
    document,       \* what the stream was opened on
    readable,       \* whether that is XML with a flow_graph node
    d_is,           \* "open" or "consumed"
    d_blocks,
    d_variables,
    d_connections,
    d_top_block,
    d_parsed,
    position,       \* of the foreach in parse(); 0 outside of it
    result          \* of the last call: "none", "done" or "exception"

vectors    == <<d_blocks, d_variables, d_connections>>
stream     == <<document, readable>>
parserVars == <<stream, d_is, vectors, d_top_block, d_parsed, position, result>>

-----------------------------------------------------------------------------
Init ==
    /\ document \in Documents
    /\ readable \in BOOLEAN
    /\ d_is = "open"
    /\ d_blocks = <<>> /\ d_variables = <<>> /\ d_connections = <<>>
    /\ d_top_block = [key |-> "", id |-> Empty, params |-> <<>>]
    /\ d_parsed = FALSE
    /\ position = 0
    /\ result = "none"

Idle    == position = 0
Reading == position \in DOMAIN document
entry   == document[position]

\* (fault) Every parse() starts at the beginning of the stream.
read_xml_rewinds ==
    /\ Idle
    /\ d_is' = "consumed"
    /\ IF readable THEN position' = 1 /\ result' = "none"
                   ELSE position' = 0 /\ result' = "exception"
    /\ UNCHANGED <<stream, vectors, d_top_block, d_parsed>>

\* read_xml and get_child("flow_graph"): the stream is read to its end, so a
\* second parse() finds no document in it.
read_xml ==
    /\ Idle
    /\ d_is' = "consumed"
    /\ IF d_is = "open" /\ readable
       THEN position' = 1 /\ result' = "none"
       ELSE position' = 0 /\ result' = "exception"
    /\ UNCHANGED <<stream, vectors, d_top_block, d_parsed>>

\* (fault) The loop steps over two entries.
NextEntry_twice == position' = position + 2 /\ UNCHANGED <<stream, d_is, d_parsed, result>>

NextEntry == position' = position + 1 /\ UNCHANGED <<stream, d_is, d_parsed, result>>

Throw == position' = 0 /\ result' = "exception"
            /\ UNCHANGED <<stream, d_is, vectors, d_top_block, d_parsed>>

read_options ==
    /\ Reading /\ IsOptions(entry)
    /\ d_top_block' = block_info(entry)
    /\ NextEntry /\ UNCHANGED vectors

\* (fault) Disabled variables are kept.
read_variable_disabled ==
    /\ Reading /\ IsVariable(entry)
    /\ EnabledFlag(block_info(entry)) # {}
    /\ d_variables' = Append(d_variables, block_info(entry))
    /\ NextEntry /\ UNCHANGED <<d_blocks, d_connections, d_top_block>>

\* A variable must say whether it is enabled.
read_variable ==
    /\ Reading /\ IsVariable(entry)
    /\ \E enabled \in EnabledFlag(block_info(entry)) :
          d_variables' = IF enabled = Truth(TRUE) THEN Append(d_variables, block_info(entry))
                                                  ELSE d_variables
    /\ NextEntry /\ UNCHANGED <<d_blocks, d_connections, d_top_block>>

read_variable_throws ==
    /\ Reading /\ IsVariable(entry)
    /\ EnabledFlag(block_info(entry)) = {}
    /\ Throw

skip_note ==
    /\ Reading /\ IsNote(entry)
    /\ NextEntry /\ UNCHANGED <<vectors, d_top_block>>

read_block ==
    /\ Reading /\ IsProcessing(entry)
    /\ d_blocks' = Append(d_blocks, block_info(entry))
    /\ NextEntry /\ UNCHANGED <<d_variables, d_connections, d_top_block>>

read_connection ==
    /\ Reading /\ IsConnection(entry)
    /\ d_connections' = Append(d_connections, connection_info(entry))
    /\ NextEntry /\ UNCHANGED <<d_blocks, d_variables, d_top_block>>

\* (fault) An unknown entry does not move the loop on.
skip_unknown_stays == Reading /\ entry.tag = "other" /\ UNCHANGED parserVars

skip_unknown ==
    /\ Reading /\ entry.tag = "other"
    /\ NextEntry /\ UNCHANGED <<vectors, d_top_block>>

\* (fault) A broken entry is skipped instead of refused.
read_broken_skips ==
    /\ Reading /\ entry.tag = "broken"
    /\ NextEntry /\ UNCHANGED <<vectors, d_top_block>>

read_broken ==
    /\ Reading /\ entry.tag = "broken"
    /\ Throw

end_of_document ==
    /\ ~Idle /\ ~Reading
    /\ d_parsed' = TRUE
    /\ position' = 0
    /\ result' = "done"
    /\ UNCHANGED <<stream, d_is, vectors, d_top_block>>

parse ==
    \/ read_xml \/ read_options \/ read_variable \/ read_variable_throws \/ skip_note
    \/ read_block \/ read_connection \/ skip_unknown \/ read_broken \/ end_of_document

-----------------------------------------------------------------------------
(* collapse_variables: one pass over the parameters of the blocks, each of
   which is replaced when the whole of its text is the id of a variable. *)

variable_value_map == ValueTexts(d_variables)

\* (fault) A variable is replaced inside of an expression.
collapsed_inside(t) ==
    LET name == IF t.kind = "twice" THEN Word(t.word) ELSE t IN
    IF name \in DOMAIN variable_value_map THEN variable_value_map[name] ELSE t

collapsed(t) == IF t \in DOMAIN variable_value_map THEN variable_value_map[t] ELSE t

collapse_variables ==
    /\ Idle
    /\ d_blocks' = [i \in DOMAIN d_blocks |->
                       [d_blocks[i] EXCEPT !.params =
                           [p \in DOMAIN d_blocks[i].params |-> collapsed(d_blocks[i].params[p])]]]
    /\ result' = "done"
    /\ UNCHANGED <<stream, d_is, d_variables, d_connections, d_top_block, d_parsed, position>>

\* The owner of a parser may call its two operations in any order.
Next == parse \/ collapse_variables

Spec == Init /\ [][Next]_parserVars /\ WF_parserVars(parse /\ ~Idle)
-----------------------------------------------------------------------------
(* Properties *)

TypeOK ==
    /\ document \in Seq(Entry)
    /\ readable \in BOOLEAN
    /\ d_is \in {"open", "consumed"}
    /\ \A i \in DOMAIN d_blocks : IsBlockInfo(d_blocks[i])
    /\ \A i \in DOMAIN d_variables : IsBlockInfo(d_variables[i])
    /\ d_connections \in Seq(ConnectionInfo)
    /\ IsBlockInfo(d_top_block)
    /\ d_parsed \in BOOLEAN
    /\ position \in 0..Len(document) + 1
    /\ result \in {"none", "done", "exception"}

IsPrefixOf(s, t) == Len(s) <= Len(t) /\ \A i \in DOMAIN s : s[i] = t[i]

Names(infos) == [i \in DOMAIN infos |-> <<infos[i].key, infos[i].id>>]

\* Whatever the calls and wherever parse() stopped, the vectors hold the first
\* blocks, enabled variables and connections of the document in its order, and
\* all of them once parse() has returned: nothing is lost, doubled, reordered
\* or taken for an entry of another sort (parse, flowgraph_impl.cc:66-129).
VectorsFollowDocument ==
    LET matches(s, t) == IF d_parsed THEN s = t ELSE IsPrefixOf(s, t) IN
    /\ matches(Names(d_blocks), Names(BlocksOf(document)))
    /\ matches(d_variables, VariablesOf(document))
    /\ matches(d_connections, ConnectionsOf(document))

\* top_block() serves a parser only when parse() went through the whole
\* document: d_parsed is never set when an entry was refused, also when parse()
\* is called again after the exception (flowgraph_impl.h:340-349).
ParsedMeansAccepted ==
    d_parsed => \A i \in DOMAIN document : ~IsRefused(document[i])

\* A parser reads its document at most once: after the first parse(), whether
\* it returned or threw, no call enters the loop over the entries again, adds an
\* entry or takes one away (flowgraph_impl.cc:69-72, d_is is left at its end).
ReadAtMostOnce ==
    [][d_is = "consumed" /\ Idle =>
          /\ Idle'
          /\ UNCHANGED <<d_variables, d_connections, d_top_block, d_parsed>>
          /\ Names(d_blocks') = Names(d_blocks)]_parserVars

\* collapse_variables, called any number of times, before or after parse(),
\* changes a parameter only if its text in the document is the id of an enabled
\* variable, and then to the value of some enabled variable; "samp_rate * 2"
\* and the ids of disabled variables stay (flowgraph_impl.cc:131-148).
OnlyVariableNamesReplaced ==
    LET original  == BlocksOf(document)
        variables == VariablesOf(document)
        setting   == {i \in DOMAIN variables : is_param_set(variables[i], "value")}
        ids       == {variables[i].id : i \in setting}
        values    == {Unquote(variables[i].params["value"]) : i \in setting}
    IN  \A i \in DOMAIN d_blocks :
           /\ DOMAIN d_blocks[i].params = DOMAIN original[i].params
           /\ \A p \in DOMAIN d_blocks[i].params :
                 LET now == d_blocks[i].params[p]  before == original[i].params[p] IN
                 now # before => before \in ids /\ now \in values

\* Every parse() ends, at the end of the document or with an exception.
ParseEnds == ~Idle ~> Idle
=============================================================================
