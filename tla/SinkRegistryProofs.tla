------------------------- MODULE SinkRegistryProofs -------------------------
(***************************************************************************)
(* Proofs about SinkRegistry, for every set of ids, signals and blocks:    *)
(* what a getter and a visitor say of a sink agrees.                       *)
(***************************************************************************)
EXTENDS SinkRegistry, WellFoundedInduction, TLAPS

BlockType == [class : STRING, time : Seq(Signals), freq : Seq(Signals), pm : Seq(Signals)]

\* A block that is not a cascade and has a sink of a kind has one.
LEMMA BlockShape ==
    ASSUME NEW b \in Blocks
    PROVE  /\ b \in BlockType
           /\ b.class = time_domain_sink_key => Len(b.time) = 1 /\ b.freq = <<>> /\ b.pm = <<>>
           /\ b.class = freq_sink_f_key => Len(b.freq) = 1 /\ b.time = <<>> /\ b.pm = <<>>
           /\ b.class = post_mortem_sink_key => Len(b.pm) = 1 /\ b.time = <<>> /\ b.freq = <<>>
BY BlocksAssumption DEF BlockType

LEMMA AddTyped ==
    ASSUME TypeOK, NEW id \in Names, NEW block \in Blocks, add(block, id, block.class)
    PROVE  TypeOK'
BY DEF TypeOK, add

\* The registry holds blocks under their ids, each with its class for its type.
THEOREM RegistryTyping == Spec => []TypeOK
<1>1. Init => TypeOK
  BY DEF Init, TypeOK
<1>2. TypeOK /\ [Next]_d_block_map => TypeOK'
  <2> SUFFICES ASSUME TypeOK, [Next]_d_block_map PROVE TypeOK'
    OBVIOUS
  <2>1. CASE Next
    BY <2>1, AddTyped DEF Next
  <2>2. CASE UNCHANGED d_block_map
    BY <2>2 DEF TypeOK
  <2> QED BY <2>1, <2>2
<1> QED BY <1>1, <1>2, PTL DEF Spec

-----------------------------------------------------------------------------
(* The sinks *)

\* An entry of the registry and the sinks it has of a kind.
LEMMA SinksTyped ==
    ASSUME TypeOK, NEW id \in DOMAIN d_block_map, NEW kind \in Kinds
    PROVE  /\ d_block_map[id].block \in Blocks
           /\ d_block_map[id].type = d_block_map[id].block.class
           /\ d_block_map[id].block[kind] \in Seq(Signals)
           /\ SinksIn(id, kind) \subseteq Sink
<1>1. d_block_map[id] \in [block : Blocks, type : {d_block_map[id].block.class}]
  BY DEF TypeOK
<1>2. d_block_map[id].block \in BlockType
  BY <1>1, BlockShape
<1>3. d_block_map[id].block[kind] \in Seq(Signals)
  BY <1>2 DEF BlockType, Kinds
<1>4. id \in Names
  BY DEF TypeOK
<1>5. SinksIn(id, kind) \subseteq Sink
  BY <1>3, <1>4 DEF SinksIn, Sink
<1> QED BY <1>1, <1>3, <1>5

\* A sink knows the entry it is in.
LEMMA SinkOwner ==
    ASSUME NEW types, NEW kind \in Kinds
    PROVE  /\ \A s \in SinksOf(types, kind) : s.owner \in IdsOf(types) /\ s \in SinksIn(s.owner, kind)
           /\ \A id \in IdsOf(types) : SinksIn(id, kind) \subseteq SinksOf(types, kind)
BY DEF SinksOf, SinksIn, IdsOf

\* Where a sink is tells which it is.
LEMMA SinkByPlace ==
    ASSUME NEW id, NEW kind, NEW s \in SinksIn(id, kind), NEW t \in SinksIn(id, kind), s.at = t.at
    PROVE  s = t
BY DEF SinksIn

\* A time domain sink has one sink, itself.
LEMMA OneSink ==
    ASSUME TypeOK, NEW id \in IdsOf({time_domain_sink_key})
    PROVE  \A s, t \in SinksIn(id, "time") : s = t
<1>1. id \in DOMAIN d_block_map /\ d_block_map[id].type = time_domain_sink_key
  BY DEF IdsOf
<1>2. Len(d_block_map[id].block.time) = 1 /\ d_block_map[id].block.time \in Seq(Signals)
  BY <1>1, SinksTyped, BlockShape DEF Kinds
<1>3. DOMAIN d_block_map[id].block.time = {1}
  BY <1>2
<1>4. SinksIn(id, "time") = {[owner |-> id, kind |-> "time", at |-> n,
                             signal |-> d_block_map[id].block.time[n]] : n \in {1}}
  BY <1>3 DEF SinksIn
<1> QED BY <1>4

\* There is at most one first sink, among sinks of one kind.
LEMMA FirstIsOne ==
    ASSUME TypeOK, NEW types, NEW kind \in Kinds, NEW sinks, sinks \subseteq SinksOf(types, kind),
           NEW s \in First(sinks), NEW t \in First(sinks)
    PROVE  s = t
<1>1. s \in sinks /\ t \in sinks /\ IsFirst(s, sinks) /\ IsFirst(t, sinks)
  BY DEF First
<1>2. s \in SinksIn(s.owner, kind) /\ t \in SinksIn(t.owner, kind)
  BY <1>1, SinkOwner
<1>3. s.owner \in DOMAIN d_block_map /\ t.owner \in DOMAIN d_block_map
  BY <1>1, SinkOwner DEF IdsOf
<1>4. s \in Sink /\ t \in Sink
  BY <1>2, <1>3, SinksTyped
<1>5. Rank[s.owner] \in Nat /\ Rank[t.owner] \in Nat /\ s.at \in Nat /\ t.at \in Nat
  BY <1>4, RankAssumption DEF Sink
<1>6. Rank[s.owner] < Rank[t.owner] \/ (s.owner = t.owner /\ s.at <= t.at)
  BY <1>1 DEF IsFirst
<1>7. Rank[t.owner] < Rank[s.owner] \/ (t.owner = s.owner /\ t.at <= s.at)
  BY <1>1 DEF IsFirst
<1>8. s.owner = t.owner /\ s.at = t.at
  BY <1>5, <1>6, <1>7
<1> QED BY <1>2, <1>8, SinkByPlace

\* Of one sink the first is that one.
LEMMA FirstOfOne ==
    ASSUME TypeOK, NEW s \in Sink
    PROVE  First({s}) = {s}
<1>1. s.at \in Nat
  BY DEF Sink
<1>2. IsFirst(s, {s})
  BY <1>1 DEF IsFirst
<1> QED BY <1>2 DEF First

-----------------------------------------------------------------------------
(* Names *)

\* What the visitor of the time domain sinks reports.
LEMMA Reported ==
    /\ \A s \in SinksOf({time_domain_sink_key}, "time") :
          [name |-> s.owner, sink |-> s] \in time_domain_sinks_apply
    /\ \A s \in SinksOf({cascade_sink_key}, "time") :
          [name |-> s.owner \o s.signal, sink |-> s] \in time_domain_sinks_apply
    /\ \A r \in time_domain_sinks_apply :
          \/ r.sink \in SinksOf({time_domain_sink_key}, "time") /\ r.name = r.sink.owner
          \/ r.sink \in SinksOf({cascade_sink_key}, "time") /\ r.name = r.sink.owner \o r.sink.signal
<1> DEFINE P == SinksOf({time_domain_sink_key}, "time")
           C == SinksOf({cascade_sink_key}, "time")
<1>1. time_domain_sinks_apply =
         {[name |-> s.owner, sink |-> s] : s \in P} \cup {[name |-> s.owner \o s.signal, sink |-> s] : s \in C}
  BY DEF time_domain_sinks_apply, Visited, CompositeName
<1> HIDE DEF P, C
<1>2. \A r \in time_domain_sinks_apply :
         \/ r.sink \in P /\ r.name = r.sink.owner
         \/ r.sink \in C /\ r.name = r.sink.owner \o r.sink.signal
  <2> SUFFICES ASSUME NEW r \in time_domain_sinks_apply
               PROVE  \/ r.sink \in P /\ r.name = r.sink.owner
                      \/ r.sink \in C /\ r.name = r.sink.owner \o r.sink.signal
    OBVIOUS
  <2>1. CASE \E s \in P : r = [name |-> s.owner, sink |-> s]
    <3>1. PICK s \in P : r = [name |-> s.owner, sink |-> s]
      BY <2>1
    <3>2. r.sink = s /\ r.name = s.owner
      BY <3>1
    <3> QED BY <3>2
  <2>2. CASE \E s \in C : r = [name |-> s.owner \o s.signal, sink |-> s]
    <3>1. PICK s \in C : r = [name |-> s.owner \o s.signal, sink |-> s]
      BY <2>2
    <3>2. r.sink = s /\ r.name = s.owner \o s.signal
      BY <3>1
    <3> QED BY <3>2
  <2>3. \/ \E s \in P : r = [name |-> s.owner, sink |-> s]
        \/ \E s \in C : r = [name |-> s.owner \o s.signal, sink |-> s]
    BY <1>1, Zenon
  <2> QED BY <2>1, <2>2, <2>3
<1>3. \A s \in P : [name |-> s.owner, sink |-> s] \in time_domain_sinks_apply
  BY <1>1
<1>4. \A s \in C : [name |-> s.owner \o s.signal, sink |-> s] \in time_domain_sinks_apply
  BY <1>1
<1> QED BY <1>2, <1>3, <1>4 DEF P, C

\* The sinks inside cascades that the getter compares with a name.
Matching(n) == {s \in SinksOf({cascade_sink_key}, "time") : IsCalled(s, n)}

LEMMA GetterByBlock ==
    ASSUME NEW n \in DOMAIN d_block_map
    PROVE  get_time_domain_sink(n) =
              IF d_block_map[n].block.class = time_domain_sink_key THEN SinksIn(n, "time") ELSE {}
<1>1. Subclasses(time_domain_sink_key) = {time_domain_sink_key}
  BY DEF Subclasses, time_domain_sink_key
<1>2. get_block(n, time_domain_sink_key) =
         IF d_block_map[n].block.class = time_domain_sink_key THEN {n} ELSE {}
  BY <1>1 DEF get_block
<1> QED BY <1>2 DEF get_time_domain_sink

LEMMA GetterByCascade ==
    ASSUME NEW n, n \notin DOMAIN d_block_map
    PROVE  get_time_domain_sink(n) = First(Matching(n))
BY DEF get_time_domain_sink, Matching

LEMMA FetchedIsReportedFromTyping == TypeOK => FetchedIsReported
<1> SUFFICES ASSUME TypeOK, NEW n \in Names,
                    NEW s \in get_time_domain_sink(n), NEW t \in get_time_domain_sink(n)
             PROVE  s = t /\ [name |-> n, sink |-> s] \in time_domain_sinks_apply
  BY DEF FetchedIsReported
<1>1. CASE n \in DOMAIN d_block_map
  <2>1. d_block_map[n].block.class = time_domain_sink_key
    BY <1>1, GetterByBlock
  <2>2. s \in SinksIn(n, "time") /\ t \in SinksIn(n, "time")
    BY <1>1, <2>1, GetterByBlock
  <2>3. n \in IdsOf({time_domain_sink_key})
    BY <1>1, <2>1, SinksTyped DEF IdsOf, Kinds
  <2>4. s \in SinksOf({time_domain_sink_key}, "time") /\ s.owner = n
    BY <2>2, <2>3, SinkOwner DEF Kinds, SinksIn
  <2> QED BY <2>2, <2>3, <2>4, OneSink, Reported
<1>2. CASE n \notin DOMAIN d_block_map
  <2>1. s \in First(Matching(n)) /\ t \in First(Matching(n))
    BY <1>2, GetterByCascade
  <2>2. Matching(n) \subseteq SinksOf({cascade_sink_key}, "time")
    BY DEF Matching
  <2>3. s = t
    BY <2>1, <2>2, FirstIsOne DEF Kinds
  <2>4. s \in SinksOf({cascade_sink_key}, "time") /\ s.owner \o s.signal = n
    BY <2>1 DEF First, Matching, IsCalled
  <2> QED BY <2>3, <2>4, Reported
<1> QED BY <1>1, <1>2

LEMMA HiddenOnlyByItsNameFromTyping == TypeOK => HiddenOnlyByItsName
<1> SUFFICES ASSUME TypeOK, NEW r \in time_domain_sinks_apply,
                    get_time_domain_sink(r.name) # {r.sink}
             PROVE  /\ r.sink.owner \in IdsOf({cascade_sink_key})
                    /\ \/ r.name \in DOMAIN d_block_map
                       \/ \E q \in time_domain_sinks_apply : q.name = r.name /\ q.sink # r.sink
  BY DEF HiddenOnlyByItsName
<1>1. r.sink \notin SinksOf({time_domain_sink_key}, "time") \/ r.name # r.sink.owner
  <2> SUFFICES ASSUME r.sink \in SinksOf({time_domain_sink_key}, "time"), r.name = r.sink.owner
               PROVE  FALSE
    OBVIOUS
  <2>1. r.name \in IdsOf({time_domain_sink_key}) /\ r.sink \in SinksIn(r.name, "time")
    BY SinkOwner DEF Kinds
  <2>2. r.name \in DOMAIN d_block_map /\ d_block_map[r.name].block.class = time_domain_sink_key
    BY <2>1, SinksTyped DEF IdsOf, Kinds
  <2>3. get_time_domain_sink(r.name) = SinksIn(r.name, "time")
    BY <2>2, GetterByBlock
  <2>4. \A s \in SinksIn(r.name, "time") : s = r.sink
    BY <2>1, OneSink
  <2> QED BY <2>1, <2>3, <2>4
<1>2. r.sink \in SinksOf({cascade_sink_key}, "time") /\ r.name = r.sink.owner \o r.sink.signal
  BY <1>1, Reported
<1>3. r.sink.owner \in IdsOf({cascade_sink_key}) /\ r.sink \in SinksIn(r.sink.owner, "time")
  BY <1>2, SinkOwner DEF Kinds
<1>4. ASSUME r.name \notin DOMAIN d_block_map,
             \A q \in time_domain_sinks_apply : q.name = r.name => q.sink = r.sink
      PROVE  FALSE
  <2>1. r.sink \in Sink
    BY <1>3, SinksTyped DEF Kinds, IdsOf
  <2>2. r.sink \in Matching(r.name)
    BY <1>2 DEF Matching, IsCalled
  <2>3. \A s \in Matching(r.name) : s = r.sink
    <3> SUFFICES ASSUME NEW s \in Matching(r.name) PROVE s = r.sink
      OBVIOUS
    <3>1. s \in SinksOf({cascade_sink_key}, "time") /\ s.owner \o s.signal = r.name
      BY DEF Matching, IsCalled
    <3>2. [name |-> r.name, sink |-> s] \in time_domain_sinks_apply
      BY <3>1, Reported
    <3> QED BY <1>4, <3>2
  <2>4. Matching(r.name) = {r.sink}
    BY <2>2, <2>3
  <2>5. get_time_domain_sink(r.name) = {r.sink}
    BY <1>4, <2>1, <2>4, GetterByCascade, FirstOfOne
  <2> QED BY <2>5
<1> QED BY <1>3, <1>4

\* What the getter answers is what the visitor reports.
THEOREM GetterIsHonest == Spec => []FetchedIsReported
BY RegistryTyping, FetchedIsReportedFromTyping, PTL

\* A sink can be hidden from the getter by nothing but a second claim to its name.
THEOREM OnlyNamesHide == Spec => []HiddenOnlyByItsName
BY RegistryTyping, HiddenOnlyByItsNameFromTyping, PTL

-----------------------------------------------------------------------------
(* Names while the graph is built *)

\* A sink of an entry is the same sink after another entry has been added.
LEMMA SinksInStay ==
    ASSUME NEW id, NEW block, NEW type, add(block, id, type), NEW n \in DOMAIN d_block_map, NEW kind
    PROVE  /\ n \in DOMAIN d_block_map' /\ d_block_map'[n] = d_block_map[n]
           /\ SinksIn(n, kind)' = SinksIn(n, kind)
<1>1. n \in DOMAIN d_block_map' /\ d_block_map'[n] = d_block_map[n]
  BY DEF add
<1> QED BY <1>1 DEF SinksIn

\* A name that belongs to a block belongs to it afterwards.
LEMMA BlockNameStays ==
    ASSUME NEW id, NEW block, NEW type, add(block, id, type), NEW n \in DOMAIN d_block_map
    PROVE  get_time_domain_sink(n)' = get_time_domain_sink(n)
<1>1. n \in DOMAIN d_block_map' /\ d_block_map'[n] = d_block_map[n] /\ SinksIn(n, "time")' = SinksIn(n, "time")
  BY SinksInStay
<1>2. get_block(n, time_domain_sink_key)' = get_block(n, time_domain_sink_key)
  BY <1>1 DEF get_block
<1>3. get_time_domain_sink(n)' = UNION {SinksIn(b, "time")' : b \in get_block(n, time_domain_sink_key)'}
  BY <1>1 DEF get_time_domain_sink
<1>4. get_time_domain_sink(n) = UNION {SinksIn(b, "time") : b \in get_block(n, time_domain_sink_key)}
  BY DEF get_time_domain_sink
<1>5. get_block(n, time_domain_sink_key) \subseteq {n}
  BY DEF get_block
<1>6. \A b \in get_block(n, time_domain_sink_key) : SinksIn(b, "time")' = SinksIn(b, "time")
  BY <1>1, <1>5
<1> QED BY <1>2, <1>3, <1>4, <1>6

\* A sink of a cascade that was there is there afterwards.
LEMMA CascadeSinks ==
    ASSUME TypeOK, NEW id, NEW block, NEW type, add(block, id, type),
           NEW s
    PROVE  s \in SinksOf({cascade_sink_key}, "time")' <=>
              \/ s \in SinksOf({cascade_sink_key}, "time")
              \/ type = cascade_sink_key /\ s \in SinksIn(id, "time")'
<1>1. DOMAIN d_block_map' = DOMAIN d_block_map \cup {id} /\ id \notin DOMAIN d_block_map
  BY DEF add
<1>2. d_block_map'[id].type = type
  BY DEF add
<1>3. \A n \in DOMAIN d_block_map : d_block_map'[n] = d_block_map[n] /\ SinksIn(n, "time")' = SinksIn(n, "time")
  BY SinksInStay
<1>4. s \in SinksOf({cascade_sink_key}, "time")' <=>
         \E n \in DOMAIN d_block_map' : d_block_map'[n].type = cascade_sink_key /\ s \in SinksIn(n, "time")'
  BY DEF SinksOf, IdsOf
<1>5. s \in SinksOf({cascade_sink_key}, "time") <=>
         \E n \in DOMAIN d_block_map : d_block_map[n].type = cascade_sink_key /\ s \in SinksIn(n, "time")
  BY DEF SinksOf, IdsOf
<1> QED BY <1>1, <1>2, <1>3, <1>4, <1>5

\* Without a claim to it by the block that is added, a name keeps its sink.
LEMMA NameStays ==
    ASSUME TypeOK, NEW id, NEW block, NEW type, add(block, id, type), NEW n, n # id,
           ~\E r \in time_domain_sinks_apply' : r.name = n /\ r.sink.owner = id
    PROVE  get_time_domain_sink(n)' = get_time_domain_sink(n)
<1>1. CASE n \in DOMAIN d_block_map
  BY <1>1, BlockNameStays
<1>2. CASE n \notin DOMAIN d_block_map
  <2>1. n \notin DOMAIN d_block_map'
    BY <1>2 DEF add
  <2>2. \A s \in SinksIn(id, "time")' : s.owner = id
    BY DEF SinksIn
  <2>3. \A s : s \in SinksOf({cascade_sink_key}, "time")' =>
                  [name |-> s.owner \o s.signal, sink |-> s] \in time_domain_sinks_apply'
    BY DEF time_domain_sinks_apply, Visited, CompositeName
  <2>4. \A s \in SinksIn(id, "time")' : type = cascade_sink_key => s.owner \o s.signal # n
    <3> SUFFICES ASSUME NEW s \in SinksIn(id, "time")', type = cascade_sink_key, s.owner \o s.signal = n
                 PROVE  FALSE
      OBVIOUS
    <3>1. s \in SinksOf({cascade_sink_key}, "time")'
      BY CascadeSinks
    <3> DEFINE r == [name |-> s.owner \o s.signal, sink |-> s]
    <3>2. r \in time_domain_sinks_apply' /\ r.name = n /\ r.sink.owner = id
      BY <2>2, <2>3, <3>1
    <3> QED BY <3>2
  <2>5. Matching(n)' = Matching(n)
    <3>1. \A s : s \in Matching(n) <=> s \in SinksOf({cascade_sink_key}, "time") /\ s.owner \o s.signal = n
      BY DEF Matching, IsCalled
    <3>2. \A s : s \in Matching(n)' <=> s \in SinksOf({cascade_sink_key}, "time")' /\ s.owner \o s.signal = n
      BY DEF Matching, IsCalled
    <3>3. \A s : s \in Matching(n)' <=> s \in Matching(n)
      <4> SUFFICES ASSUME NEW s PROVE s \in Matching(n)' <=> s \in Matching(n)
        OBVIOUS
      <4>1. s \in SinksOf({cascade_sink_key}, "time")' <=>
               \/ s \in SinksOf({cascade_sink_key}, "time")
               \/ type = cascade_sink_key /\ s \in SinksIn(id, "time")'
        BY CascadeSinks
      <4> QED BY <2>4, <3>1, <3>2, <4>1
    <3> QED BY <3>3
  <2>6. get_time_domain_sink(n) = First(Matching(n))
    BY <1>2, GetterByCascade
  <2>7. get_time_domain_sink(n)' = First(Matching(n)')
    BY <2>1 DEF get_time_domain_sink, Matching, First, IsFirst
  <2> QED BY <2>5, <2>6, <2>7
<1> QED BY <1>1, <1>2

\* While a graph is built, a name changes its meaning only if the added block
\* claims it.
THEOREM NamesKeepTheirSinks == Spec => NamesStay
<1> DEFINE Stays == \A n \in Names : get_time_domain_sink(n) # {} =>
          \/ get_time_domain_sink(n)' = get_time_domain_sink(n)
          \/ \E id \in DOMAIN d_block_map' \ DOMAIN d_block_map :
                id = n \/ \E r \in time_domain_sinks_apply' : r.name = n /\ r.sink.owner = id
<1>1. TypeOK /\ [Next]_d_block_map => [Stays]_d_block_map
  <2> SUFFICES ASSUME TypeOK, Next, NEW n \in Names
               PROVE  \/ get_time_domain_sink(n)' = get_time_domain_sink(n)
                      \/ \E id \in DOMAIN d_block_map' \ DOMAIN d_block_map :
                            id = n \/ \E r \in time_domain_sinks_apply' : r.name = n /\ r.sink.owner = id
    OBVIOUS
  <2>1. PICK id \in Names, block \in Blocks : add(block, id, block.class)
    BY DEF Next
  <2>2. id \in DOMAIN d_block_map' \ DOMAIN d_block_map
    BY <2>1 DEF add
  <2>3. CASE n = id \/ \E r \in time_domain_sinks_apply' : r.name = n /\ r.sink.owner = id
    BY <2>2, <2>3
  <2>4. CASE n # id /\ ~\E r \in time_domain_sinks_apply' : r.name = n /\ r.sink.owner = id
    BY <2>1, <2>4, NameStays
  <2> QED BY <2>3, <2>4
<1> QED BY <1>1, RegistryTyping, PTL DEF Spec, NamesStay

-----------------------------------------------------------------------------
(* Post mortem sinks and metadata *)

\* Some natural numbers have a least one.
LEMMA LeastNat ==
    ASSUME NEW T, T \subseteq Nat, T # {}
    PROVE  \E m \in T : \A t \in T : m <= t
<1>1. PICK m \in T : \A t \in T : ~(<<t, m>> \in OpToRel(<, Nat))
  BY NatLessThanWellFounded, WFMin
<1>2. \A t \in T : ~(t < m)
  BY <1>1 DEF OpToRel
<1>3. \A t \in T : m <= t
  BY <1>2
<1> QED BY <1>3

\* The loop over the map comes to one of the sinks first.
LEMMA FirstExists ==
    ASSUME TypeOK, NEW types, NEW kind \in Kinds, NEW sinks, sinks \subseteq SinksOf(types, kind),
           sinks # {}
    PROVE  First(sinks) # {}
<1> DEFINE ranks == {Rank[s.owner] : s \in sinks}
<1>1. \A s \in sinks : s.owner \in Names /\ Rank[s.owner] \in Nat /\ s.at \in Nat
  <2> SUFFICES ASSUME NEW s \in sinks
               PROVE  s.owner \in Names /\ Rank[s.owner] \in Nat /\ s.at \in Nat
    OBVIOUS
  <2>1. s.owner \in IdsOf(types) /\ s \in SinksIn(s.owner, kind)
    BY SinkOwner
  <2>2. s \in Sink
    BY <2>1, SinksTyped DEF IdsOf
  <2> QED BY <2>2, RankAssumption DEF Sink
<1>2. ranks \subseteq Nat /\ ranks # {}
  BY <1>1
<1>3. PICK r \in ranks : \A q \in ranks : r <= q
  <2> HIDE DEF ranks
  <2> QED BY <1>2, LeastNat
<1>4. PICK s \in sinks : Rank[s.owner] = r
  OBVIOUS
<1> DEFINE here   == {t \in sinks : t.owner = s.owner}
           places == {t.at : t \in here}
<1>5. places \subseteq Nat /\ places # {}
  BY <1>1
<1>6. PICK a \in places : \A b \in places : a <= b
  <2> HIDE DEF places
  <2> QED BY <1>5, LeastNat
<1>7. PICK t \in here : t.at = a
  OBVIOUS
<1>8. IsFirst(t, sinks)
  <2> SUFFICES ASSUME NEW u \in sinks
               PROVE  Rank[t.owner] < Rank[u.owner] \/ (t.owner = u.owner /\ t.at <= u.at)
    BY DEF IsFirst
  <2>1. CASE u.owner = t.owner
    BY <1>6, <1>7, <2>1
  <2>2. CASE u.owner # t.owner
    <3>1. Rank[u.owner] # Rank[t.owner]
      BY <1>1, <1>7, <2>2, RankAssumption
    <3>2. Rank[t.owner] <= Rank[u.owner]
      BY <1>3, <1>4, <1>7
    <3> QED BY <1>1, <1>7, <3>1, <3>2
  <2> QED BY <2>1, <2>2
<1> QED BY <1>7, <1>8 DEF First

\* What a visitor reports, without the names.
LEMMA VisitedSinks ==
    \A key, kind : {r.sink : r \in Visited(key, kind)} = SinksOf({key, cascade_sink_key}, kind)
<1> SUFFICES ASSUME NEW key, NEW kind
             PROVE  {r.sink : r \in Visited(key, kind)} = SinksOf({key, cascade_sink_key}, kind)
  OBVIOUS
<1> DEFINE P == SinksOf({key}, kind)
           C == SinksOf({cascade_sink_key}, kind)
           plain(s) == [name |-> s.owner, sink |-> s]
           inside(s) == [name |-> CompositeName(s), sink |-> s]
<1>1. Visited(key, kind) = {plain(s) : s \in P} \cup {inside(s) : s \in C}
  BY DEF Visited
<1>2. \A s : plain(s).sink = s /\ inside(s).sink = s
  OBVIOUS
<1> HIDE DEF P, C, plain, inside
<1>3. {r.sink : r \in Visited(key, kind)} = P \cup C
  <2>1. \A x \in P \cup C : \E r \in Visited(key, kind) : x = r.sink
    BY <1>1, <1>2
  <2>2. \A r \in Visited(key, kind) : r.sink \in P \cup C
    BY <1>1, <1>2
  <2> QED BY <2>1, <2>2
<1>4. SinksOf({key, cascade_sink_key}, kind) = P \cup C
  BY DEF P, C, SinksOf, IdsOf
<1> QED BY <1>3, <1>4, Zenon

\* The three ways to the post mortem sinks of a graph agree, whatever it is built of.
THEOREM PostMortemAgreement == Spec => []PostMortemAgrees
<1>1. TypeOK => PostMortemAgrees
  <2> SUFFICES ASSUME TypeOK PROVE PostMortemAgrees
    OBVIOUS
  <2>1. {r.sink : r \in post_mortem_sinks_apply} = post_mortem_sinks
    BY VisitedSinks DEF post_mortem_sinks_apply, post_mortem_sinks
  <2>2. ASSUME NEW name \in Signals
        PROVE  /\ \A s, t \in get_post_mortem_sink(name) :
                     s = t /\ s \in post_mortem_sinks /\ s.signal = name
               /\ get_post_mortem_sink(name) = {} => \A s \in post_mortem_sinks : s.signal # name
    <3> DEFINE sinks == {s \in post_mortem_sinks : s.signal = name}
    <3>1. get_post_mortem_sink(name) = First(sinks)
      BY DEF get_post_mortem_sink
    <3>2. sinks \subseteq SinksOf({post_mortem_sink_key, cascade_sink_key}, "pm")
      BY DEF post_mortem_sinks
    <3>3. "pm" \in Kinds
      BY DEF Kinds
    <3>4. \A s \in First(sinks) : s \in sinks
      BY DEF First
    <3>5. \A s \in sinks : s \in post_mortem_sinks /\ s.signal = name
      OBVIOUS
    <3>6. sinks = {} => \A s \in post_mortem_sinks : s.signal # name
      OBVIOUS
    <3> HIDE DEF sinks
    <3>7. First(sinks) = {} => sinks = {}
      BY <3>2, <3>3, FirstExists
    <3>8. \A s, t \in First(sinks) : s = t
      BY <3>2, <3>3, FirstIsOne
    <3> QED BY <3>1, <3>4, <3>5, <3>6, <3>7, <3>8
  <2> QED BY <2>1, <2>2 DEF PostMortemAgrees
<1> QED BY <1>1, RegistryTyping, PTL

\* The metadata of a graph is that of what can be visited, but for the frequency and
\* post mortem sinks inside cascades, whatever it is built of.
THEOREM MetadataAgreement == Spec => []MetadataOfTheVisited
<1>1. TypeOK => MetadataOfTheVisited
  <2> SUFFICES ASSUME TypeOK PROVE MetadataOfTheVisited
    OBVIOUS
  <2> DEFINE T == SinksOf({time_domain_sink_key}, "time")
             F == SinksOf({freq_sink_f_key}, "freq")
             P == SinksOf({post_mortem_sink_key}, "pm")
             CT == SinksOf({cascade_sink_key}, "time")
             CF == SinksOf({cascade_sink_key}, "freq")
             CP == SinksOf({cascade_sink_key}, "pm")
             cascades == IdsOf({cascade_sink_key})
             visited == {r.sink : r \in time_domain_sinks_apply \cup freq_sinks_apply
                                            \cup post_mortem_sinks_apply}
  <2>1. getAllChannelMetaData = T \cup CT \cup F \cup P
    <3>1. SinksOf({cascade_sink_key, time_domain_sink_key}, "time") = CT \cup T
      BY DEF SinksOf, IdsOf
    <3> HIDE DEF T, CT, F, P
    <3>2. getAllChannelMetaData =
             SinksOf({cascade_sink_key, time_domain_sink_key}, "time") \cup F \cup P
      BY Zenon DEF getAllChannelMetaData, F, P
    <3> QED BY <3>1, <3>2
  <2>2. visited = T \cup CT \cup F \cup CF \cup P \cup CP
    <3>0. /\ SinksOf({time_domain_sink_key, cascade_sink_key}, "time") = T \cup CT
          /\ SinksOf({freq_sink_f_key, cascade_sink_key}, "freq") = F \cup CF
          /\ SinksOf({post_mortem_sink_key, cascade_sink_key}, "pm") = P \cup CP
      BY DEF SinksOf, IdsOf
    <3>1. /\ {r.sink : r \in time_domain_sinks_apply} = T \cup CT
          /\ {r.sink : r \in freq_sinks_apply} = F \cup CF
          /\ {r.sink : r \in post_mortem_sinks_apply} = P \cup CP
      BY <3>0, VisitedSinks, Zenon
         DEF time_domain_sinks_apply, freq_sinks_apply, post_mortem_sinks_apply
    <3>2. visited = {r.sink : r \in time_domain_sinks_apply} \cup {r.sink : r \in freq_sinks_apply}
                        \cup {r.sink : r \in post_mortem_sinks_apply}
      OBVIOUS
    <3> QED BY <3>1, <3>2
  <2>3. /\ \A s \in T \cup CT : s.kind = "time"
        /\ \A s \in F \cup CF : s.kind = "freq"
        /\ \A s \in P \cup CP : s.kind = "pm"
    BY DEF SinksOf, SinksIn
  <2>4. \A s \in CF \cup CP : s.owner \in cascades
    BY SinkOwner DEF Kinds
  <2>5. \A s \in F \cup P : s.owner \notin cascades
    <3>1. \A s \in F : s.owner \in IdsOf({freq_sink_f_key})
      BY SinkOwner DEF Kinds
    <3>2. \A s \in P : s.owner \in IdsOf({post_mortem_sink_key})
      BY SinkOwner DEF Kinds
    <3> QED BY <3>1, <3>2 DEF IdsOf, freq_sink_f_key, post_mortem_sink_key, cascade_sink_key
  <2>6. MetadataOfTheVisited =
           (getAllChannelMetaData = {s \in visited : s.kind = "time" \/ s.owner \notin cascades})
    BY DEF MetadataOfTheVisited
  <2> HIDE DEF T, F, P, CT, CF, CP, cascades, visited
  <2> QED BY <2>1, <2>2, <2>3, <2>4, <2>5, <2>6
<1> QED BY <1>1, RegistryTyping, PTL
=============================================================================
