---------------------------- MODULE SinkRegistry ----------------------------
(***************************************************************************)
(* What a FlowGraph tells of its blocks: the visitors, the getters by name *)
(* and the metadata (src/include/flowgraph/flowgraph.h:201-392).           *)
(*                                                                         *)
(* d_block_map is filled by add, and read by everything else; a reader     *)
(* changes nothing and is an operator.  An id or a signal name is a        *)
(* sequence of words, joined by "_" in the code: the name of a sink inside *)
(* a cascade, id + "_" + signal, is id \o signal, and two different pairs  *)
(* may well give the same name.                                            *)
(*                                                                         *)
(* A block is its class and the signal names of the sinks it has of each   *)
(* kind; a plain sink has one of its own kind.  The type of an entry is    *)
(* the key its block was made from, so the casts of the visitors succeed.  *)
(* A visitor is the set of what it hands to its callable; a shared pointer *)
(* is the set of the one thing it points to, and {} if it is null.         *)
(***************************************************************************)
EXTENDS Naturals, Sequences

CONSTANTS
    Names,      \* ids of blocks and names that callers ask for
    Signals,    \* signal names
    Blocks,     \* what make_block makes: [class, time, freq, pm]
    Rank        \* the place of an id in the order of std::map

digitizer_keys ==
    {"digitizers_picoscope_3000a", "digitizers_picoscope_4000a", "digitizers_picoscope_6000"}

time_domain_sink_key == "digitizers_time_domain_sink"
freq_sink_f_key      == "digitizers_freq_sink_f"
post_mortem_sink_key == "digitizers_post_mortem_sink"
cascade_sink_key     == "digitizers_cascade_sink"

Kinds == {"time", "freq", "pm"}

ASSUME RankAssumption ==
    /\ Rank \in [Names -> Nat]
    /\ \A a, b \in Names : Rank[a] = Rank[b] => a = b

ASSUME SignalsAssumption == Signals \subseteq Seq(STRING) /\ Names \subseteq Seq(STRING)

ASSUME BlocksAssumption ==
    \A b \in Blocks :
        /\ b \in [class : STRING, time : Seq(Signals), freq : Seq(Signals), pm : Seq(Signals)]
        /\ b.class = time_domain_sink_key => Len(b.time) = 1 /\ b.freq = <<>> /\ b.pm = <<>>
        /\ b.class = freq_sink_f_key => Len(b.freq) = 1 /\ b.time = <<>> /\ b.pm = <<>>
        /\ b.class = post_mortem_sink_key => Len(b.pm) = 1 /\ b.time = <<>> /\ b.freq = <<>>

VARIABLE d_block_map

Init == d_block_map = <<>>

\* (fault) A second block of an id replaces the first.
add_replaces(block, id, type) ==
    d_block_map' = [k \in DOMAIN d_block_map \cup {id} |->
                       IF k = id THEN [block |-> block, type |-> type] ELSE d_block_map[k]]

\* FlowGraph::add; an id that is taken is an exception and changes nothing.
add(block, id, type) ==
    /\ id \notin DOMAIN d_block_map
    /\ d_block_map' = [k \in DOMAIN d_block_map \cup {id} |->
                          IF k = id THEN [block |-> block, type |-> type] ELSE d_block_map[k]]

Next == \E id \in Names, block \in Blocks : add(block, id, block.class)

Spec == Init /\ [][Next]_d_block_map

-----------------------------------------------------------------------------
(* The sinks of the graph *)

IdsOf(types) == {id \in DOMAIN d_block_map : d_block_map[id].type \in types}

\* The sinks of one kind inside a block: which one it is, and of what signal.
SinksIn(id, kind) ==
    LET signals == d_block_map[id].block[kind] IN
    {[owner |-> id, kind |-> kind, at |-> n, signal |-> signals[n]] : n \in DOMAIN signals}

SinksOf(types, kind) == UNION {SinksIn(id, kind) : id \in IdsOf(types)}

\* (fault) A cascade reports its sinks under their signal alone.
CompositeName_signal(sink) == sink.signal

CompositeName(sink) == sink.owner \o sink.signal

\* What a visitor reports of the plain sinks, and of the cascades.
Visited(key, kind) ==
    {[name |-> s.owner, sink |-> s] : s \in SinksOf({key}, kind)}
        \cup {[name |-> CompositeName(s), sink |-> s] : s \in SinksOf({cascade_sink_key}, kind)}

time_domain_sinks_apply == Visited(time_domain_sink_key, "time")
freq_sinks_apply        == Visited(freq_sink_f_key, "freq")
post_mortem_sinks_apply == Visited(post_mortem_sink_key, "pm")

digitizers_apply       == IdsOf(digitizer_keys)
time_realignment_apply == IdsOf({"digitizers_time_realignment_ff"})
interlock_apply        == IdsOf({"digitizers_interlock_generation_ff"})

\* (fault) The sinks of cascades are forgotten.
getAllChannelMetaData_plain ==
    SinksOf({time_domain_sink_key}, "time") \cup SinksOf({freq_sink_f_key}, "freq")
        \cup SinksOf({post_mortem_sink_key}, "pm")

\* The sinks whose metadata is returned: of a cascade only the time domain ones.
getAllChannelMetaData ==
    SinksOf({cascade_sink_key, time_domain_sink_key}, "time")
        \cup SinksOf({freq_sink_f_key}, "freq") \cup SinksOf({post_mortem_sink_key}, "pm")

\* (fault) The post mortem sinks of cascades are not returned.
post_mortem_sinks_plain == SinksOf({post_mortem_sink_key}, "pm")

post_mortem_sinks == SinksOf({post_mortem_sink_key, cascade_sink_key}, "pm")

-----------------------------------------------------------------------------
(* Fetching by name *)

\* Of some sinks the one that the loop over d_block_map comes to first.
IsFirst(s, sinks) ==
    \A t \in sinks : Rank[s.owner] < Rank[t.owner] \/ (s.owner = t.owner /\ s.at <= t.at)

First(sinks) == {s \in sinks : IsFirst(s, sinks)}

\* The classes a dynamic cast to class succeeds for.
Subclasses(class) ==
    IF class = "digitizer_block"
    THEN {"digitizers_picoscope_3000a", "digitizers_picoscope_4000a", "digitizers_picoscope_6000"}
    ELSE {class}

get_block(id, class) ==
    {b \in {id} \cap DOMAIN d_block_map : d_block_map[b].block.class \in Subclasses(class)}

\* The getter builds the composite name a second time, to compare with.
IsCalled(s, id) == s.owner \o s.signal = id

\* (fault) The id is not looked up first: a cascade's sink goes before a block.
get_time_domain_sink_cascades(id) ==
    LET inside == {s \in SinksOf({cascade_sink_key}, "time") : IsCalled(s, id)} IN
    IF inside # {} THEN First(inside)
    ELSE UNION {SinksIn(b, "time") : b \in get_block(id, time_domain_sink_key)}

\* A block of that id decides, even if it is no time domain sink; only then
\* are the cascades searched.
get_time_domain_sink(id) ==
    IF id \in DOMAIN d_block_map
    THEN UNION {SinksIn(b, "time") : b \in get_block(id, time_domain_sink_key)}
    ELSE First({s \in SinksOf({cascade_sink_key}, "time") : IsCalled(s, id)})

get_post_mortem_sink(signal_name) == First({s \in post_mortem_sinks : s.signal = signal_name})

-----------------------------------------------------------------------------
(* Properties *)

Sink == [owner : Names, kind : Kinds, at : Nat, signal : Signals]

TypeOK ==
    /\ DOMAIN d_block_map \subseteq Names
    /\ \A id \in DOMAIN d_block_map :
          d_block_map[id] \in [block : Blocks, type : {d_block_map[id].block.class}]

\* What get_time_domain_sink answers is what the visitor reports under that name
\* (flowgraph.h:242-257 against 315-336), and it is one sink.
FetchedIsReported ==
    \A n \in Names : \A s, t \in get_time_domain_sink(n) :
        s = t /\ [name |-> n, sink |-> s] \in time_domain_sinks_apply

\* A sink that the visitor reports is fetched by its name; only a sink inside a
\* cascade may be hidden, and only because its name is not its own: a block has it
\* for its id, or another sink is reported under it too.
HiddenOnlyByItsName ==
    \A r \in time_domain_sinks_apply :
        \/ get_time_domain_sink(r.name) = {r.sink}
        \/ /\ r.sink.owner \in IdsOf({cascade_sink_key})
           /\ \/ r.name \in DOMAIN d_block_map
              \/ \E q \in time_domain_sinks_apply : q.name = r.name /\ q.sink # r.sink

\* A name goes on to mean the same sink while the graph is built, unless the block
\* that is added claims the name: by its id, or as a cascade by one of its sinks.
NamesStay ==
    [][\A n \in Names : get_time_domain_sink(n) # {} =>
          \/ get_time_domain_sink(n)' = get_time_domain_sink(n)
          \/ \E id \in DOMAIN d_block_map' \ DOMAIN d_block_map :
                id = n \/ \E r \in time_domain_sinks_apply' : r.name = n /\ r.sink.owner = id]_d_block_map

\* The three ways to post mortem sinks agree: the visitor and the list have the
\* same sinks, and the getter finds a signal if and only if one of them is of it
\* (flowgraph.h:276-291, 350-392).
PostMortemAgrees ==
    /\ {r.sink : r \in post_mortem_sinks_apply} = post_mortem_sinks
    /\ \A name \in Signals :
          LET found == get_post_mortem_sink(name) IN
          /\ \A s, t \in found : s = t /\ s \in post_mortem_sinks /\ s.signal = name
          /\ found = {} => \A s \in post_mortem_sinks : s.signal # name

\* Every sink that can be visited has its metadata returned, but for the frequency
\* and post mortem sinks inside cascades (flowgraph.h:201-231).
MetadataOfTheVisited ==
    LET visited == {r.sink : r \in time_domain_sinks_apply \cup freq_sinks_apply
                                       \cup post_mortem_sinks_apply}
    IN  getAllChannelMetaData = {s \in visited : s.kind = "time" \/ s.owner \notin IdsOf({cascade_sink_key})}
=============================================================================
