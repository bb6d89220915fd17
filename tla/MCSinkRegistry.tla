--------------------------- MODULE MCSinkRegistry ---------------------------
(***************************************************************************)
(* SinkRegistry with ids and signals that give the same composite name in  *)
(* each possible way: a_b_c is an id, the sink b_c of a and the sink c of  *)
(* a_b.  Blocks are added in every order, until each id is taken.          *)
(***************************************************************************)
EXTENDS SinkRegistry

b   == <<"b">>
c   == <<"c">>
b_c == <<"b", "c">>

MCSignals == {b, c, b_c}

\* In the order of std::map: "a" < "a_b" < "a_b_c" < "a_c".
MCNames == {<<"a">>, <<"a", "b">>, <<"a", "b", "c">>, <<"a", "c">>}
MCRank  == [n \in MCNames |-> CASE n = <<"a">> -> 1 [] n = <<"a", "b">> -> 2
                                [] n = <<"a", "b", "c">> -> 3 [] n = <<"a", "c">> -> 4]

Cascade(time, freq, pm) == [class |-> cascade_sink_key, time |-> time, freq |-> freq, pm |-> pm]
NoSinks(class)          == [class |-> class, time |-> <<>>, freq |-> <<>>, pm |-> <<>>]

MCBlocks ==
    {Cascade(<<b, b_c>>, <<b>>, <<b_c>>), Cascade(<<c>>, <<c>>, <<c, b>>), Cascade(<<>>, <<>>, <<>>),
     [NoSinks(time_domain_sink_key) EXCEPT !.time = <<b>>],
     [NoSinks(freq_sink_f_key) EXCEPT !.freq = <<c>>],
     [NoSinks(post_mortem_sink_key) EXCEPT !.pm = <<c>>],
     [NoSinks(post_mortem_sink_key) EXCEPT !.pm = <<b>>],
     NoSinks("digitizers_picoscope_6000"), NoSinks("blocks_null_sink")}
=============================================================================
