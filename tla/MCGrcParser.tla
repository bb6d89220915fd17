---------------------------- MODULE MCGrcParser ----------------------------
(***************************************************************************)
(* GrcParser on every document of at most MaxEntries entries taken from a  *)
(* pool that holds each sort of entry, variables that are disabled, do not *)
(* say, have no value, name each other or share an id, and blocks whose    *)
(* parameters name them.                                                   *)
(***************************************************************************)
EXTENDS GrcParser, MCWords

CONSTANT MaxEntries    \* the length of the longest document

Param(k, v) == [key |-> k, value |-> v]

Block(key, id, params) ==
    [tag |-> "block", key |-> key, params |-> <<Param("id", Word(id))>> \o params]

Yes == Param("_enabled", Word("True"))
No  == Param("_enabled", Word("False"))

Pool ==
    {Block("options", "top_block", <<Param("title", Empty)>>),
     Block("note", "note_0", <<Yes>>),
     Block("variable", "rate", <<Yes, Param("value", Number(2))>>),
     Block("variable", "rate", <<Yes, Param("value", Quoted(Word("fast")))>>),
     Block("variable", "alias", <<Param("value", Word("rate")), Yes>>),
     Block("variable", "rate", <<No, Param("value", Number(4))>>),
     Block("variable", "alias", <<Param("value", Number(4))>>),
     Block("variable_taps", "rate", <<Yes>>),
     Block("throttle", "a", <<Param("x", Word("rate")), Param("y", Word("alias")),
                              Param("x", Twice("rate"))>>),
     Block("throttle", "b", <<Param("x", Word("alias")), Param("id", Word("c")),
                              Param("y", Word("rate"))>>),
     [tag |-> "connection", src_id |-> Word("a"), dst_id |-> Word("b"),
      src_key |-> 0, dst_key |-> 0],
     [tag |-> "broken"],
     [tag |-> "other"]}

MCDocuments    == UNION {[1..n -> Pool] : n \in 0..MaxEntries}
MCVariableKeys == {"variable", "variable_taps"}
=============================================================================
