-------------------------- MODULE MCMakeFlowgraph --------------------------
(***************************************************************************)
(* MakeFlowgraph on small documents of real block types: every document of *)
(* at most MaxEntries entries after the options, and every way to follow   *)
(* two blocks with at most MaxEntries connections or further blocks.       *)
(***************************************************************************)
EXTENDS MakeFlowgraph, MCWords

CONSTANT MaxEntries    \* the number of freely chosen entries of a document

Param(k, v) == [key |-> k, value |-> v]

Block(key, id, params) ==
    [tag |-> "block", key |-> key, params |-> <<Param("id", Word(id))>> \o params]

Yes == Param("_enabled", Word("True"))
No  == Param("_enabled", Word("False"))

Wire(src, dst, port) ==
    [tag |-> "connection", src_id |-> Word(src), dst_id |-> Word(dst),
     src_key |-> 0, dst_key |-> port]

Rate(value)  == Block("variable", "rate", <<Yes, Param("value", value)>>)
Demux(id, t) == Block("digitizers_block_demux", id, <<Yes, Param("bit_to_keep", t)>>)
Mag(id, t)   == Block("blocks_complex_to_mag", id, <<Yes, Param("vlen", t)>>)

Options == Block("options", "top_block", <<Param("title", Word("Big Flowgraph"))>>)

Pool ==
    {Block("options", "top_block", <<Yes>>),
     Rate(Number(2)), Rate(Quoted(Number(3))),
     Block("variable", "alias", <<Yes, Param("value", Word("rate"))>>),
     Demux("a", Word("alias")), Demux("b", Twice("rate")), Mag("b", Word("rate")),
     Block("blocks_complex_to_mag", "a", <<No>>),
     Block("digitizers_wr_receiver_f", "c", <<Yes, Param("minoutbuf", Number(4))>>),
     Block("digitizers_wr_receiver_f", "gone", <<Yes>>),
     Block("digitizers_wr_receiver_f", "a", <<>>),
     Block("uhd_usrp_source", "d", <<Yes>>),
     Wire("a", "b", 0),
     [tag |-> "broken"]}

Follow ==
    {Wire("a", "b", 0), Wire("b", "a", 0), Wire("a", "b", 1), Wire("a", "b", 2),
     Wire("a", "a", 0), Wire("c", "b", 0), Wire("rate", "b", 1),
     Block("digitizers_wr_receiver_f", "c", <<Yes>>),
     Block("digitizers_wr_receiver_f", "c", <<No>>),
     Block("note", "a", <<>>), [tag |-> "other"], Rate(Number(1))}

UpTo(n, S) == UNION {[1..k -> S] : k \in 0..n}

MCDocuments ==
    {<<Options>> \o s : s \in UpTo(MaxEntries, Pool)}
        \cup {s \o <<Block("options", "t", <<Param("title", Empty)>>)>> : s \in UpTo(1, Pool)}
        \cup {<<Options, Demux("a", Word("rate")), Mag("b", Number(2))>> \o s :
                 s \in UpTo(MaxEntries, Follow)}

MCVariableKeys == {"variable"}
MCAbsent       == {Word("gone")}

MCMismatched ==
    {[src_id |-> Word("c"), dst_id |-> Word("b"), src_key |-> 0, dst_key |-> 0]}
=============================================================================
