--------------------------- MODULE GrcParserProofs ---------------------------
(***************************************************************************)
(* Proofs about GrcParser, for every set of documents: its typing, that a  *)
(* parsed document is an accepted one, that a document is read once, that  *)
(* the vectors are what the document says up to the place of the loop, and *)
(* that nothing but the name of a variable is ever replaced in them.       *)
(***************************************************************************)
EXTENDS GrcParser, SequenceTheorems, FiniteSetTheorems, WellFoundedInduction, TLAPS

\* The set of the infos, for proofs; IsBlockInfo is what TLC evaluates.
BlockInfo == [key : Key, id : Text, params : UNION {[P -> Text] : P \in SUBSET STRING}]

-----------------------------------------------------------------------------
(* Lemmas about the operators of the documents *)

\* The greatest of some indices is one of them.
LEMMA MaxIsMember ==
    ASSUME NEW n \in Nat, NEW S, S \subseteq 1..n, S # {}
    PROVE  Max(S) \in S /\ \A y \in S : Max(S) >= y
<1> DEFINE T == {n - x : x \in S}
<1>1. T \subseteq Nat
  <2> SUFFICES ASSUME NEW t \in T PROVE t \in Nat
    OBVIOUS
  <2>1. PICK x \in S : t = n - x
    OBVIOUS
  <2>2. x \in 1..n
    BY <2>1
  <2> QED BY <2>1, <2>2
<1>2. T # {}
  <2>1. PICK x \in S : TRUE
    OBVIOUS
  <2>2. n - x \in T
    BY <2>1
  <2> QED BY <2>2
<1>3. PICK m \in T : \A t \in T : ~(<<t, m>> \in OpToRel(<, Nat))
  <2> HIDE DEF T
  <2> QED BY <1>1, <1>2, NatLessThanWellFounded, WFMin
<1>4. \A t \in T : ~(t < m)
  <2> TAKE t \in T
  <2>1. t \in Nat /\ m \in Nat
    BY <1>1
  <2> QED BY <1>3, <2>1 DEF OpToRel
<1>5. PICK x \in S : m = n - x
  OBVIOUS
<1>6. \A y \in S : x >= y
  <2> TAKE y \in S
  <2>1. n - y \in T /\ x \in 1..n /\ y \in 1..n
    OBVIOUS
  <2>2. ~(n - y < n - x)
    BY <1>4, <1>5, <2>1
  <2> QED BY <2>1, <2>2
<1> QED BY <1>6 DEF Max

\* Quotes come off a text, and what is left is a text.
LEMMA UnquoteText ==
    ASSUME NEW t \in Text
    PROVE  Unquote(t) \in Text
BY DEF Unquote, Text, Plain, Empty, Blank, Quotes

\* What BlockInfo is built from a block entry.
LEMMA BlockInfoOfEntry ==
    ASSUME NEW f \in Entry, IsBlock(f)
    PROVE  /\ block_info(f) \in BlockInfo
           /\ block_info(f).key = f.key
<1> DEFINE named(k) == {i \in DOMAIN f.params : f.params[i].key = k}
           value(k) == f.params[Max(named(k))].value
           keys     == {f.params[i].key : i \in DOMAIN f.params} \ {"id"}
<1>1. f.key \in Key /\ f.params \in Seq([key : STRING, value : Text])
  BY DEF Entry, IsBlock
<1>2. DOMAIN f.params = 1..Len(f.params) /\ Len(f.params) \in Nat
  BY <1>1, LenProperties
<1>3. \A i \in DOMAIN f.params : f.params[i] \in [key : STRING, value : Text]
  BY <1>1, <1>2, ElementOfSeq
<1>4. ASSUME NEW k, named(k) # {} PROVE value(k) \in Text
  <2>1. Max(named(k)) \in named(k)
    BY <1>2, <1>4, MaxIsMember
  <2> QED BY <2>1, <1>3
<1>5. \A k \in keys : named(k) # {}
  OBVIOUS
<1>6. keys \subseteq STRING
  BY <1>3
<1>7. Empty \in Text
  BY DEF Text, Plain
<1>8. (IF named("id") = {} THEN Empty ELSE value("id")) \in Text
  BY <1>4, <1>7
<1>9. [k \in keys |-> value(k)] \in [keys -> Text]
  BY <1>4, <1>5
<1> DEFINE id == IF named("id") = {} THEN Empty ELSE value("id")
           ps == [k \in keys |-> value(k)]
<1>10. block_info(f) = [key |-> f.key, id |-> id, params |-> ps]
  BY DEF block_info
<1> HIDE DEF id, ps, keys
<1>11. ps \in UNION {[P -> Text] : P \in SUBSET STRING}
  BY <1>6, <1>9 DEF ps
<1>12. id \in Text
  BY <1>8 DEF id
<1> QED BY <1>1, <1>10, <1>11, <1>12 DEF BlockInfo

\* The members of BlockInfo are the infos of the type invariant.
LEMMA BlockInfoIsInfo ==
    ASSUME NEW b \in BlockInfo
    PROVE  IsBlockInfo(b)
BY DEF BlockInfo, IsBlockInfo

\* Every variable stands for a text.
LEMMA ValueTextsAreTexts ==
    ASSUME NEW variables \in Seq(BlockInfo)
    PROVE  \A n \in DOMAIN ValueTexts(variables) : ValueTexts(variables)[n] \in Text
<1> DEFINE setting == {i \in DOMAIN variables : is_param_set(variables[i], "value")}
           of(n)   == {i \in setting : variables[i].id = n}
           names   == {variables[i].id : i \in setting}
           text(n) == Unquote(variables[Max(of(n))].params["value"])
<1>1. ValueTexts(variables) = [n \in names |-> text(n)]
  BY DEF ValueTexts
<1>2. ASSUME NEW n \in names PROVE text(n) \in Text
  <2>1. of(n) \subseteq 1..Len(variables) /\ of(n) # {} /\ Len(variables) \in Nat
    BY LenProperties
  <2>2. Max(of(n)) \in of(n)
    BY <2>1, MaxIsMember
  <2>3. PICK i \in 1..Len(variables) : i = Max(of(n)) /\ is_param_set(variables[i], "value")
    BY <2>1, <2>2
  <2>4. variables[i] \in BlockInfo
    BY ElementOfSeq
  <2>5. variables[i].params["value"] \in Text
    <3>1. "value" \in DOMAIN variables[i].params
      BY <2>3 DEF is_param_set
    <3>2. PICK P \in SUBSET STRING : variables[i].params \in [P -> Text]
      BY <2>4 DEF BlockInfo
    <3> QED BY <3>1, <3>2
  <2> QED BY <2>3, <2>5, UnquoteText
<1> HIDE DEF names, text
<1> QED BY <1>1, <1>2

-----------------------------------------------------------------------------
(* Typing *)

\* TypeOK with the vectors as sequences.
Typed ==
    /\ document \in Seq(Entry)
    /\ readable \in BOOLEAN
    /\ d_is \in {"open", "consumed"}
    /\ d_blocks \in Seq(BlockInfo)
    /\ d_variables \in Seq(BlockInfo)
    /\ d_connections \in Seq(ConnectionInfo)
    /\ d_top_block \in BlockInfo
    /\ d_parsed \in BOOLEAN
    /\ position \in 0..Len(document) + 1
    /\ result \in {"none", "done", "exception"}

\* What the type invariant says of the loop's place in the document.
LEMMA ReadingEntry ==
    ASSUME Typed, Reading
    PROVE  /\ position \in 1..Len(document)
           /\ entry \in Entry
           /\ position + 1 \in 1..Len(document) + 1
<1>1. document \in Seq(Entry)
  BY DEF Typed
<1>2. position \in 1..Len(document) /\ Len(document) \in Nat
  BY <1>1, LenProperties DEF Reading
<1> QED BY <1>1, <1>2, ElementOfSeq DEF entry

\* Only one reading action takes an entry of a tag, and the connection it keeps
\* is one.
LEMMA ConnectionOfEntry ==
    ASSUME NEW f \in Entry, IsConnection(f)
    PROVE  connection_info(f) \in ConnectionInfo
BY DEF Entry, IsConnection, connection_info, ConnectionInfo

\* Replacing parameters keeps the names, ids and types.
LEMMA CollapsedBlocks ==
    ASSUME Typed, collapse_variables
    PROVE  /\ d_blocks' \in Seq(BlockInfo)
           /\ Names(d_blocks') = Names(d_blocks)
<1> DEFINE new(b) == [b EXCEPT !.params = [p \in DOMAIN b.params |-> collapsed(b.params[p])]]
<1>1. \A t \in Text : collapsed(t) \in Text
  BY ValueTextsAreTexts DEF Typed, collapsed, variable_value_map
<1>2. ASSUME NEW b \in BlockInfo
      PROVE  new(b) \in BlockInfo /\ new(b).key = b.key /\ new(b).id = b.id
  <2>1. PICK P \in SUBSET STRING : b.params \in [P -> Text]
    BY DEF BlockInfo
  <2>2. [p \in DOMAIN b.params |-> collapsed(b.params[p])] \in [P -> Text]
    BY <1>1, <2>1
  <2> QED BY <2>1, <2>2 DEF BlockInfo
<1>3. /\ Len(d_blocks) \in Nat
      /\ DOMAIN d_blocks = 1..Len(d_blocks)
      /\ \A i \in 1..Len(d_blocks) : d_blocks[i] \in BlockInfo
  BY LenProperties, ElementOfSeq DEF Typed
<1>4. d_blocks' = [i \in 1..Len(d_blocks) |-> new(d_blocks[i])]
  BY <1>3 DEF collapse_variables
<1> HIDE DEF new
<1>5. \A i \in 1..Len(d_blocks) : new(d_blocks[i]) \in BlockInfo
  BY <1>2, <1>3
<1>6. d_blocks' \in Seq(BlockInfo)
  BY <1>3, <1>4, <1>5, IsASeq
<1>7. Names(d_blocks') = Names(d_blocks)
  BY <1>2, <1>3, <1>4 DEF Names
<1> QED BY <1>6, <1>7

LEMMA TypedInit == Init => Typed
<1> SUFFICES ASSUME Init PROVE Typed
  OBVIOUS
<1>1. document \in Seq(Entry)
  BY DocumentsAssumption DEF Init
<1>2. 0 \in 0..Len(document) + 1
  BY <1>1, LenProperties
<1>3. \A S : <<>> \in Seq(S)
  BY EmptySeq
<1>4. [key |-> "", id |-> Empty, params |-> <<>>] \in BlockInfo
  <2>1. <<>> \in [{} -> Text]
    OBVIOUS
  <2>2. Empty \in Text
    BY DEF Text, Plain
  <2>3. <<>> \in UNION {[P -> Text] : P \in SUBSET STRING}
    BY <2>1, {} \in SUBSET STRING, Zenon
  <2>4. "" \in Key
    BY Zenon DEF Key
  <2> HIDE DEF Empty
  <2> QED BY <2>2, <2>3, <2>4, Zenon DEF BlockInfo
<1> QED BY <1>1, <1>2, <1>3, <1>4 DEF Init, Typed

\* Every step of the parser keeps the types.
LEMMA TypedNext == Typed /\ [Next]_parserVars => Typed'
<1> SUFFICES ASSUME Typed, [Next]_parserVars PROVE Typed'
  OBVIOUS
<1> USE DEF stream, vectors
<1>1. document \in Seq(Entry) /\ Len(document) \in Nat
  BY LenProperties DEF Typed
<1>2. CASE read_xml
  <2>1. position' \in 0..Len(document) + 1
    BY <1>1, <1>2 DEF read_xml
  <2> QED BY <1>2, <2>1 DEF Typed, read_xml
<1>3. CASE read_options
  <2>1. block_info(entry) \in BlockInfo
    BY <1>3, ReadingEntry, BlockInfoOfEntry DEF read_options, IsOptions
  <2> QED BY <1>3, <2>1, ReadingEntry DEF Typed, read_options, NextEntry
<1>4. CASE read_variable
  <2>1. block_info(entry) \in BlockInfo
    BY <1>4, ReadingEntry, BlockInfoOfEntry DEF read_variable, IsVariable
  <2>2. d_variables' \in {d_variables, Append(d_variables, block_info(entry))}
    BY <1>4, Zenon DEF read_variable
  <2>3. d_variables' \in Seq(BlockInfo)
    <3>1. d_variables \in Seq(BlockInfo)
      BY Zenon DEF Typed
    <3>2. Append(d_variables, block_info(entry)) \in Seq(BlockInfo)
      BY <2>1, <3>1, AppendProperties, Zenon
    <3> QED BY <2>2, <3>1, <3>2, Zenon
  <2>4. /\ UNCHANGED <<d_blocks, d_connections, d_top_block>>
        /\ NextEntry /\ Reading
    BY <1>4, Zenon DEF read_variable
  <2> QED BY <2>3, <2>4, ReadingEntry DEF Typed, NextEntry
<1>5. CASE skip_note
  BY <1>5, ReadingEntry DEF Typed, skip_note, NextEntry
<1>6. CASE read_block
  <2>1. block_info(entry) \in BlockInfo
    BY <1>6, ReadingEntry, BlockInfoOfEntry DEF read_block, IsProcessing
  <2>2. d_blocks' \in Seq(BlockInfo)
    BY <1>6, <2>1, AppendProperties DEF Typed, read_block
  <2> QED BY <1>6, <2>2, ReadingEntry DEF Typed, read_block, NextEntry
<1>7. CASE read_connection
  <2>1. connection_info(entry) \in ConnectionInfo
    BY <1>7, ReadingEntry, ConnectionOfEntry DEF read_connection
  <2>2. d_connections' \in Seq(ConnectionInfo)
    BY <1>7, <2>1, AppendProperties DEF Typed, read_connection
  <2> QED BY <1>7, <2>2, ReadingEntry DEF Typed, read_connection, NextEntry
<1>8. CASE skip_unknown
  BY <1>8, ReadingEntry DEF Typed, skip_unknown, NextEntry
<1>9. CASE read_variable_throws \/ read_broken
  BY <1>1, <1>9 DEF Typed, read_variable_throws, read_broken, Throw
<1>10. CASE end_of_document
  BY <1>1, <1>10 DEF Typed, end_of_document
<1>11. CASE collapse_variables
  BY <1>11, CollapsedBlocks DEF Typed, collapse_variables
<1>12. CASE UNCHANGED parserVars
  BY <1>12 DEF Typed, parserVars
<1> QED BY <1>2, <1>3, <1>4, <1>5, <1>6, <1>7, <1>8, <1>9, <1>10, <1>11, <1>12 DEF Next, parse

\* The types as an invariant of the parser.
LEMMA TypedInvariant == Spec => []Typed
BY TypedInit, TypedNext, PTL DEF Spec

LEMMA TypedIsTypeOK == Typed => TypeOK
<1> SUFFICES ASSUME Typed PROVE TypeOK
  OBVIOUS
<1>1. \A i \in DOMAIN d_blocks : d_blocks[i] \in BlockInfo
  BY LenProperties, ElementOfSeq DEF Typed
<1>2. \A i \in DOMAIN d_variables : d_variables[i] \in BlockInfo
  BY LenProperties, ElementOfSeq DEF Typed
<1> QED BY <1>1, <1>2, BlockInfoIsInfo DEF Typed, TypeOK

\* The type invariant: whatever document is read and whatever calls are made,
\* the vectors hold what their types say (flowgraph_impl.h:352-358).
THEOREM Typing == Spec => []TypeOK
BY TypedInvariant, TypedIsTypeOK, PTL

-----------------------------------------------------------------------------
(* A parsed document is an accepted one *)

\* The strengthening: what the loop went past was not refused.
AcceptedSoFar ==
    /\ \A i \in DOMAIN document : i < position => ~IsRefused(document[i])
    /\ ParsedMeansAccepted

\* An entry the loop goes past is not one it throws at.
LEMMA PassedIsAccepted ==
    read_options \/ read_variable \/ skip_note \/ read_block \/ read_connection \/ skip_unknown
        => ~IsRefused(entry) /\ NextEntry /\ UNCHANGED document
<1> USE VariableKeysAssumption DEF IsRefused
<1>1. read_options => ~IsRefused(entry) /\ NextEntry
  BY DEF read_options, IsOptions, IsBlock, IsVariable
<1>2. read_variable => ~IsRefused(entry) /\ NextEntry
  <2> SUFFICES ASSUME read_variable PROVE ~IsRefused(entry) /\ NextEntry
    OBVIOUS
  <2>1. /\ \E enabled \in EnabledFlag(block_info(entry)) : TRUE
        /\ IsVariable(entry) /\ NextEntry
    BY Zenon DEF read_variable
  <2> QED BY <2>1 DEF IsVariable, IsBlock
<1>3. skip_note => ~IsRefused(entry) /\ NextEntry
  BY DEF skip_note, IsNote, IsBlock, IsVariable
<1>4. read_block => ~IsRefused(entry) /\ NextEntry
  BY DEF read_block, IsProcessing, IsBlock, IsVariable
<1>5. read_connection => ~IsRefused(entry) /\ NextEntry
  BY DEF read_connection, IsConnection, IsBlock, IsVariable
<1>6. skip_unknown => ~IsRefused(entry) /\ NextEntry
  BY DEF skip_unknown, IsBlock, IsVariable
<1> QED BY <1>1, <1>2, <1>3, <1>4, <1>5, <1>6 DEF NextEntry, stream

LEMMA AcceptedInit == Init => AcceptedSoFar
<1> SUFFICES ASSUME Init PROVE AcceptedSoFar
  OBVIOUS
<1>1. document \in Seq(Entry)
  BY DocumentsAssumption DEF Init
<1>2. DOMAIN document = 1..Len(document)
  BY <1>1, LenProperties
<1>3. position = 0 /\ d_parsed = FALSE
  BY Zenon DEF Init
<1> QED BY <1>2, <1>3 DEF AcceptedSoFar, ParsedMeansAccepted

LEMMA AcceptedNext == Typed /\ AcceptedSoFar /\ [Next]_parserVars => AcceptedSoFar'
<1> SUFFICES ASSUME Typed, AcceptedSoFar, [Next]_parserVars PROVE AcceptedSoFar'
  OBVIOUS
<1> USE DEF stream, vectors
<1>1. DOMAIN document = 1..Len(document) /\ Len(document) \in Nat
  BY LenProperties DEF Typed
<1>2. position \in 0..Len(document) + 1
  BY DEF Typed
<1>3. CASE read_options \/ read_variable \/ skip_note \/ read_block \/ read_connection \/ skip_unknown
  <2>1. ~IsRefused(document[position]) /\ position' = position + 1 /\ UNCHANGED <<document, d_parsed>>
    BY <1>3, PassedIsAccepted DEF NextEntry, entry
  <2> HIDE DEF IsRefused
  <2>2. \A i \in DOMAIN document : i < position + 1 => i < position \/ i = position
    BY <1>1, <1>2
  <2> QED BY <2>1, <2>2 DEF AcceptedSoFar, ParsedMeansAccepted
<1>4. CASE read_xml
  <2>1. \A i \in DOMAIN document : ~(i < position')
    BY <1>1, <1>4 DEF read_xml
  <2> QED BY <1>4, <2>1 DEF read_xml, AcceptedSoFar, ParsedMeansAccepted
<1>5. CASE read_variable_throws \/ read_broken
  <2>1. position' = 0 /\ UNCHANGED <<document, d_parsed>>
    BY <1>5 DEF read_variable_throws, read_broken, Throw
  <2> QED BY <1>1, <2>1 DEF AcceptedSoFar, ParsedMeansAccepted
<1>6. CASE end_of_document
  <2>1. position = Len(document) + 1 /\ position' = 0 /\ UNCHANGED document
    BY <1>1, <1>2, <1>6 DEF end_of_document, Idle, Reading
  <2> QED BY <1>1, <2>1 DEF AcceptedSoFar, ParsedMeansAccepted
<1>7. CASE collapse_variables
  BY <1>7 DEF collapse_variables, AcceptedSoFar, ParsedMeansAccepted
<1>8. CASE UNCHANGED parserVars
  BY <1>8 DEF parserVars, AcceptedSoFar, ParsedMeansAccepted
<1> QED BY <1>3, <1>4, <1>5, <1>6, <1>7, <1>8 DEF Next, parse

\* A document of which one entry is refused is never marked as parsed, however
\* often parse() is called on it (flowgraph_impl.cc:66-129).
THEOREM ParsedOnlyIfAccepted == Spec => []ParsedMeansAccepted
<1>1. AcceptedSoFar => ParsedMeansAccepted
  BY DEF AcceptedSoFar
<1> QED BY <1>1, AcceptedInit, AcceptedNext, TypedInvariant, PTL DEF Spec

-----------------------------------------------------------------------------
(* A document is read once *)

\* Between two calls only the calls themselves are possible, and a parse() of a
\* stream that was read throws at once.
LEMMA NothingIsReadAgain ==
    ASSUME Typed, Next, d_is = "consumed", Idle
    PROVE  /\ Idle'
           /\ UNCHANGED <<d_variables, d_connections, d_top_block, d_parsed>>
           /\ Names(d_blocks') = Names(d_blocks)
<1>1. ~Reading
  <2>1. DOMAIN document = 1..Len(document)
    BY LenProperties DEF Typed
  <2> QED BY <2>1 DEF Idle, Reading
<1>2. read_xml \/ collapse_variables
  BY <1>1 DEF Next, parse, read_options, read_variable, read_variable_throws, skip_note,
              read_block, read_connection, skip_unknown, read_broken, end_of_document
<1>3. CASE read_xml
  BY <1>3 DEF read_xml, vectors, Idle
<1>4. CASE collapse_variables
  BY <1>4, CollapsedBlocks DEF collapse_variables, Idle
<1> QED BY <1>2, <1>3, <1>4

\* Calling parse() again, after it returned or threw, adds nothing to what the
\* first call read (flowgraph_impl.cc:69-72).
THEOREM DocumentReadOnce == Spec => ReadAtMostOnce
<1>1. Typed /\ [Next]_parserVars =>
        [d_is = "consumed" /\ Idle =>
            /\ Idle'
            /\ UNCHANGED <<d_variables, d_connections, d_top_block, d_parsed>>
            /\ Names(d_blocks') = Names(d_blocks)]_parserVars
  BY NothingIsReadAgain
<1> QED BY <1>1, TypedInvariant, PTL DEF Spec, ReadAtMostOnce

-----------------------------------------------------------------------------
(* Places of a document *)

LEMMA PlacesAreFinite ==
    ASSUME NEW n \in Nat, NEW S, S \subseteq 1..n
    PROVE  IsFiniteSet(S) /\ Cardinality(S) \in Nat
<1>1. IsFiniteSet(1..n)
  BY FS_Interval
<1>2. IsFiniteSet(S)
  BY <1>1, FS_Subset
<1> QED BY <1>2, FS_CardinalityType

\* The first of some places are counted as if there were no others.
LEMMA NthOfPart ==
    ASSUME NEW n \in Nat, NEW all, all \subseteq 1..n, NEW part, part \subseteq all,
           \A i \in part : \A j \in all \ part : i < j
    PROVE  /\ Cardinality(part) <= Cardinality(all)
           /\ \A k \in 1..Cardinality(part) : Nth(part, k) = Nth(all, k)
<1>1. /\ IsFiniteSet(all) /\ Cardinality(all) \in Nat
      /\ IsFiniteSet(part) /\ Cardinality(part) \in Nat
  BY PlacesAreFinite
<1>2. Cardinality(part) <= Cardinality(all)
  BY <1>1, FS_Subset
<1>3. ASSUME NEW i \in part PROVE {j \in all : j < i} = {j \in part : j < i}
  <2>1. \A j \in all \ part : ~(j < i)
    BY <1>3
  <2> QED BY <2>1
<1>4. ASSUME NEW i \in all \ part PROVE Cardinality({j \in all : j < i}) >= Cardinality(part)
  <2>1. part \subseteq {j \in all : j < i}
    BY <1>4
  <2>2. {j \in all : j < i} \subseteq 1..n
    OBVIOUS
  <2>3. IsFiniteSet({j \in all : j < i}) /\ Cardinality({j \in all : j < i}) \in Nat
    BY <2>2, PlacesAreFinite
  <2> QED BY <1>1, <2>1, <2>3, FS_Subset
<1>5. ASSUME NEW k \in 1..Cardinality(part) PROVE Nth(part, k) = Nth(all, k)
  <2>1. ASSUME NEW i
        PROVE  (i \in part /\ Cardinality({j \in part : j < i}) = k - 1)
                  <=> (i \in all /\ Cardinality({j \in all : j < i}) = k - 1)
    <3>1. CASE i \in part
      BY <1>3, <3>1
    <3>2. CASE i \in all \ part
      <4>1. {j \in all : j < i} \subseteq 1..n
        OBVIOUS
      <4>2. Cardinality({j \in all : j < i}) \in Nat /\ k - 1 < Cardinality(part)
        BY <1>1, <4>1, PlacesAreFinite
      <4> QED BY <1>1, <1>4, <3>2, <4>2
    <3>3. CASE i \notin all
      BY <3>3
    <3> QED BY <3>1, <3>2, <3>3
  <2> QED BY <2>1 DEF Nth
<1> QED BY <1>2, <1>5

\* A place behind all others is counted last.
LEMMA NthOfLast ==
    ASSUME NEW n \in Nat, NEW part, part \subseteq 1..n, NEW p \in 1..n, \A i \in part : i < p
    PROVE  /\ Cardinality(part \cup {p}) = Cardinality(part) + 1
           /\ \A k \in 1..Cardinality(part) : Nth(part \cup {p}, k) = Nth(part, k)
           /\ Nth(part \cup {p}, Cardinality(part) + 1) = p
<1> DEFINE all  == part \cup {p}
           rank(i) == Cardinality({j \in all : j < i})
<1>1. p \notin part /\ all \subseteq 1..n /\ \A i \in part : \A j \in all \ part : i < j
  OBVIOUS
<1>2. IsFiniteSet(part) /\ Cardinality(part) \in Nat /\ IsFiniteSet(all)
  BY <1>1, PlacesAreFinite
<1>3. Cardinality(all) = Cardinality(part) + 1
  BY <1>1, <1>2, FS_AddElement
<1>4. \A k \in 1..Cardinality(part) : Nth(all, k) = Nth(part, k)
  <2> HIDE DEF all
  <2> QED BY <1>1, NthOfPart DEF all
<1>5. {j \in all : j < p} = part
  <2>1. ~(p < p) /\ \A j \in all : j \in part \/ j = p
    OBVIOUS
  <2> QED BY <2>1
<1>6. ASSUME NEW i \in part PROVE rank(i) # Cardinality(part)
  <2> DEFINE before == {j \in all : j < i}
  <2>1. before \subseteq part /\ i \notin before
    BY <1>1
  <2> HIDE DEF before
  <2>2. Cardinality(before) = Cardinality(part) => part = before
    BY <1>2, <2>1, FS_Subset
  <2>3. Cardinality(before) # Cardinality(part)
    BY <1>6, <2>1, <2>2
  <2> QED BY <2>3 DEF before
<1>7. Nth(all, Cardinality(part) + 1) = p
  <2> DEFINE last == Cardinality(part) + 1
  <2>1. last - 1 = Cardinality(part)
    BY <1>2
  <2>2. \A i \in all : rank(i) = last - 1 <=> i = p
    BY <1>5, <1>6, <2>1
  <2>3. p \in all
    OBVIOUS
  <2> HIDE DEF all, last
  <2>4. Nth(all, last) = p
    BY <2>2, <2>3 DEF Nth
  <2> QED BY <2>4 DEF last
<1> QED BY <1>3, <1>4, <1>7

\* The places before entry n.
Until(places, n) == {i \in places : i < n}

LEMMA UntilFacts ==
    ASSUME NEW m \in Nat, NEW places, places \subseteq 1..m, NEW n \in 1..m + 1
    PROVE  /\ Until(places, 1) = {} /\ Until(places, m + 1) = places
           /\ Until(places, n) \subseteq 1..m /\ Until(places, n) \subseteq places
           /\ \A i \in Until(places, n) : i < n
           /\ \A i \in Until(places, n) : \A j \in places \ Until(places, n) : i < j
           /\ Until(places, n + 1) = IF n \in places THEN Until(places, n) \cup {n} ELSE Until(places, n)
<1>0. \A i \in places : i \in Int /\ ~(i < 1) /\ i < m + 1
  OBVIOUS
<1>1. Until(places, 1) = {} /\ Until(places, m + 1) = places
  BY <1>0 DEF Until
<1>2. /\ Until(places, n) \subseteq 1..m /\ Until(places, n) \subseteq places
      /\ \A i \in Until(places, n) : i < n
  BY DEF Until
<1>3. \A i \in Until(places, n) : \A j \in places \ Until(places, n) : i < j
  BY DEF Until
<1>4. Until(places, n + 1) = IF n \in places THEN Until(places, n) \cup {n} ELSE Until(places, n)
  <2>1. \A i \in places : i < n + 1 <=> i < n \/ i = n
    BY <1>0
  <2> QED BY <2>1 DEF Until
<1> QED BY <1>1, <1>2, <1>3, <1>4

\* A sequence with one more element is the other one with that element appended.
LEMMA AppendIs ==
    ASSUME NEW S, NEW s \in Seq(S), NEW x \in S, NEW n \in Nat, DOMAIN s = 1..n,
           NEW t, t = [k \in 1..n + 1 |-> t[k]], \A k \in 1..n : t[k] = s[k], t[n + 1] = x
    PROVE  t = Append(s, x)
<1>1. Len(s) = n
  BY LenProperties
<1>2. /\ Append(s, x) \in Seq(S) /\ Len(Append(s, x)) = n + 1
      /\ \A k \in 1..n : Append(s, x)[k] = s[k]
      /\ Append(s, x)[n + 1] = x
  BY <1>1, AppendProperties
<1>3. \A k \in 1..n + 1 : k \in 1..n \/ k = n + 1
  OBVIOUS
<1>4. \A k \in 1..n + 1 : s[k] \in S \/ k = n + 1
  BY <1>1, <1>3, ElementOfSeq
<1>5. \A k \in 1..n + 1 : t[k] \in S
  BY <1>3, <1>4
<1>6. [k \in 1..n + 1 |-> t[k]] \in Seq(S)
  BY <1>5, IsASeq
<1>7. t \in Seq(S) /\ DOMAIN t = 1..n + 1
  BY <1>6
<1>8. Len(t) = n + 1
  BY <1>7, LenProperties
<1>9. \A k \in 1..n + 1 : t[k] = Append(s, x)[k]
  BY <1>2, <1>3
<1> QED BY <1>2, <1>7, <1>8, <1>9, SeqEqual

\* What is made of the entries before the next one.
LEMMA OneMoreEntry ==
    ASSUME NEW doc, NEW m \in Nat, NEW places, places \subseteq 1..m, NEW n \in 1..m, NEW S
    PROVE  /\ n \notin places => Until(places, n + 1) = Until(places, n)
           /\ (n \in places /\ BlocksAt(doc, Until(places, n)) \in Seq(S) /\ block_info(doc[n]) \in S)
                 => BlocksAt(doc, Until(places, n + 1)) =
                       Append(BlocksAt(doc, Until(places, n)), block_info(doc[n]))
           /\ (n \in places /\ ConnectionsAt(doc, Until(places, n)) \in Seq(S)
                    /\ connection_info(doc[n]) \in S)
                 => ConnectionsAt(doc, Until(places, n + 1)) =
                       Append(ConnectionsAt(doc, Until(places, n)), connection_info(doc[n]))
<1>1. n \in 1..m + 1
  OBVIOUS
<1>2. Until(places, n + 1) = IF n \in places THEN Until(places, n) \cup {n} ELSE Until(places, n)
  BY <1>1, UntilFacts
<1> DEFINE part == Until(places, n)
           c    == Cardinality(part)
<1>3. part \subseteq 1..m /\ (\A i \in part : i < n) /\ c \in Nat
  <2>1. part \subseteq 1..m /\ \A i \in part : i < n
    BY <1>1, UntilFacts
  <2> QED BY <2>1, PlacesAreFinite
<1> HIDE DEF part
<1>4. /\ Cardinality(part \cup {n}) = c + 1
      /\ \A k \in 1..c : Nth(part \cup {n}, k) = Nth(part, k)
      /\ Nth(part \cup {n}, c + 1) = n
  BY <1>3, NthOfLast
<1> HIDE DEF c
<1>5. \A k \in 1..c : k \in 1..c + 1
  BY <1>3
<1>6. c + 1 \in 1..c + 1
  BY <1>3
<1>7. ASSUME BlocksAt(doc, part) \in Seq(S), block_info(doc[n]) \in S
      PROVE  BlocksAt(doc, part \cup {n}) = Append(BlocksAt(doc, part), block_info(doc[n]))
  <2> DEFINE t == BlocksAt(doc, part \cup {n})
  <2>1. t = [k \in 1..c + 1 |-> block_info(doc[Nth(part \cup {n}, k)])]
    BY <1>4 DEF BlocksAt
  <2>2. DOMAIN BlocksAt(doc, part) = 1..c /\ \A k \in 1..c : BlocksAt(doc, part)[k] = block_info(doc[Nth(part, k)])
    BY DEF BlocksAt, c
  <2>3. t = [k \in 1..c + 1 |-> t[k]]
    BY <2>1
  <2>4. (\A k \in 1..c : t[k] = BlocksAt(doc, part)[k]) /\ t[c + 1] = block_info(doc[n])
    BY <1>4, <1>5, <1>6, <2>1, <2>2
  <2> HIDE DEF t
  <2>5. t = Append(BlocksAt(doc, part), block_info(doc[n]))
    BY <1>3, <1>7, <2>2, <2>3, <2>4, AppendIs
  <2> QED BY <2>5 DEF t
<1>8. ASSUME ConnectionsAt(doc, part) \in Seq(S), connection_info(doc[n]) \in S
      PROVE  ConnectionsAt(doc, part \cup {n}) = Append(ConnectionsAt(doc, part), connection_info(doc[n]))
  <2> DEFINE t == ConnectionsAt(doc, part \cup {n})
  <2>1. t = [k \in 1..c + 1 |-> connection_info(doc[Nth(part \cup {n}, k)])]
    BY <1>4 DEF ConnectionsAt
  <2>2. /\ DOMAIN ConnectionsAt(doc, part) = 1..c
        /\ \A k \in 1..c : ConnectionsAt(doc, part)[k] = connection_info(doc[Nth(part, k)])
    BY DEF ConnectionsAt, c
  <2>3. t = [k \in 1..c + 1 |-> t[k]]
    BY <2>1
  <2>4. (\A k \in 1..c : t[k] = ConnectionsAt(doc, part)[k]) /\ t[c + 1] = connection_info(doc[n])
    BY <1>4, <1>5, <1>6, <2>1, <2>2
  <2> HIDE DEF t
  <2>5. t = Append(ConnectionsAt(doc, part), connection_info(doc[n]))
    BY <1>3, <1>8, <2>2, <2>3, <2>4, AppendIs
  <2> QED BY <2>5 DEF t
<1> QED BY <1>2, <1>7, <1>8 DEF part

-----------------------------------------------------------------------------
(* What has been read *)

\* The sorts of entries exclude each other.
LEMMA SortsDiffer ==
    ASSUME NEW f
    PROVE  /\ IsOptions(f) \/ IsNote(f) \/ f.tag = "other"
                 => ~IsProcessing(f) /\ ~IsVariable(f) /\ ~IsConnection(f)
           /\ IsVariable(f) => ~IsProcessing(f) /\ ~IsConnection(f)
           /\ IsProcessing(f) => ~IsVariable(f) /\ ~IsConnection(f)
           /\ IsConnection(f) => ~IsVariable(f) /\ ~IsProcessing(f)
           /\ IsNote(f) \/ f.tag = "other" \/ IsVariable(f) \/ IsProcessing(f) \/ IsConnection(f)
                 => ~IsOptions(f)
BY VariableKeysAssumption DEF IsOptions, IsNote, IsProcessing, IsVariable, IsConnection, IsBlock

\* A flag has one value at most.
LEMMA FlagIsOne ==
    \A info : \A v \in EnabledFlag(info) :
        EnabledFlag(info) = {v} /\ v \in {Truth(TRUE), Truth(FALSE)}
<1>1. \A t : \A v \in convert_bool(t) : convert_bool(t) = {v} /\ v \in {Truth(TRUE), Truth(FALSE)}
  BY DEF convert_bool
<1> QED BY <1>1 DEF EnabledFlag, param_value, convert_to

LEMMA TruthsDiffer == Truth(TRUE) # Truth(FALSE)
BY DEF Truth

\* What the entries before entry n hold.
BlocksUntil(n)      == BlocksAt(document, Until(BlockPlaces(document), n))
VariablesUntil(n)   == BlocksAt(document, Until(VariablePlaces(document), n))
ConnectionsUntil(n) == ConnectionsAt(document, Until(ConnectionPlaces(document), n))

\* The last options before entry n, or none.
OptionsUntil(n) == Until(OptionPlaces(document), n)
TopUntil(n) ==
    IF OptionsUntil(n) = {}
    THEN [key |-> "", id |-> Empty, params |-> <<>>]
    ELSE block_info(document[Max(OptionsUntil(n))])

WithValue(variables) == {i \in DOMAIN variables : is_param_set(variables[i], "value")}
Ids(variables)       == {variables[i].id : i \in WithValue(variables)}
Values(variables)    == {Unquote(variables[i].params["value"]) : i \in WithValue(variables)}

\* A text is still what it was, or it was the id of a variable and now is the
\* value of one.
ReplacedText(now, before, variables) ==
    now = before \/ (before \in Ids(variables) /\ now \in Values(variables))

\* Some blocks are still what they were, but for parameters that were the id of
\* a variable.
Replaced(now, before, variables) ==
    /\ DOMAIN now = DOMAIN before
    /\ \A i \in DOMAIN before :
          /\ now[i].key = before[i].key /\ now[i].id = before[i].id
          /\ DOMAIN now[i].params = DOMAIN before[i].params
          /\ \A p \in DOMAIN before[i].params :
                ReplacedText(now[i].params[p], before[i].params[p], variables)

\* The entries before entry n have been read, and no others: while parse() is reading n
\* is where it is, and afterwards where it stopped.
ReadUntil(n) ==
    /\ ~Idle => /\ n = position /\ d_blocks = BlocksUntil(n)
                /\ d_is = "consumed" /\ ~d_parsed /\ result = "none"
    /\ d_is = "open" => n = 1 /\ ~d_parsed
    /\ d_parsed => n = Len(document) + 1
    /\ d_variables = VariablesUntil(n)
    /\ d_connections = ConnectionsUntil(n)
    /\ d_top_block = TopUntil(n)
    /\ Replaced(d_blocks, BlocksUntil(n), d_variables)

ReadSoFar == \E n \in 1..Len(document) + 1 : ReadUntil(n)

LEMMA PlacesOfDocument ==
    ASSUME Typed
    PROVE  /\ Len(document) \in Nat /\ DOMAIN document = 1..Len(document)
           /\ BlockPlaces(document) \subseteq 1..Len(document)
           /\ VariablePlaces(document) \subseteq 1..Len(document)
           /\ ConnectionPlaces(document) \subseteq 1..Len(document)
           /\ OptionPlaces(document) \subseteq 1..Len(document)
BY LenProperties DEF Typed, BlockPlaces, VariablePlaces, ConnectionPlaces, OptionPlaces

LEMMA NothingYet ==
    ASSUME Typed
    PROVE  /\ BlocksUntil(1) = <<>> /\ VariablesUntil(1) = <<>> /\ ConnectionsUntil(1) = <<>>
           /\ TopUntil(1) = [key |-> "", id |-> Empty, params |-> <<>>]
<1>1. /\ Until(BlockPlaces(document), 1) = {} /\ Until(VariablePlaces(document), 1) = {}
      /\ Until(ConnectionPlaces(document), 1) = {} /\ OptionsUntil(1) = {}
  <2>1. 1 \in 1..Len(document) + 1
    BY PlacesOfDocument
  <2> QED BY <2>1, PlacesOfDocument, UntilFacts DEF OptionsUntil
<1>2. 1..Cardinality({}) = {}
  BY FS_EmptySet
<1>3. BlocksAt(document, {}) = <<>> /\ ConnectionsAt(document, {}) = <<>>
  BY <1>2 DEF BlocksAt, ConnectionsAt
<1> QED BY <1>1, <1>3 DEF BlocksUntil, VariablesUntil, ConnectionsUntil, TopUntil

\* Blocks that nothing was replaced in.
LEMMA NothingReplaced ==
    ASSUME NEW blocks, NEW variables
    PROVE  Replaced(blocks, blocks, variables)
BY DEF Replaced, ReplacedText

\* The last options before the next entry.
LEMMA NextOptions ==
    ASSUME Typed, NEW n \in 1..Len(document)
    PROVE  TopUntil(n + 1) = IF IsOptions(document[n]) THEN block_info(document[n]) ELSE TopUntil(n)
<1>1. /\ OptionsUntil(n) \subseteq 1..Len(document) /\ Len(document) \in Nat
      /\ \A i \in OptionsUntil(n) : i < n
      /\ OptionsUntil(n + 1) = IF IsOptions(document[n]) THEN OptionsUntil(n) \cup {n} ELSE OptionsUntil(n)
  <2>1. n \in 1..Len(document) + 1 /\ OptionPlaces(document) \subseteq 1..Len(document) /\ Len(document) \in Nat
    BY PlacesOfDocument
  <2>2. n \in OptionPlaces(document) <=> IsOptions(document[n])
    BY PlacesOfDocument DEF OptionPlaces
  <2> QED BY <2>1, <2>2, UntilFacts DEF OptionsUntil
<1>2. Max(OptionsUntil(n) \cup {n}) = n
  <2> DEFINE last == Max(OptionsUntil(n) \cup {n})
  <2>1. /\ last \in OptionsUntil(n) \cup {n}
        /\ \A y \in OptionsUntil(n) \cup {n} : last >= y
    BY <1>1, MaxIsMember
  <2> HIDE DEF last
  <2>2. last >= n /\ last \in 1..Len(document)
    BY <1>1, <2>1
  <2>3. last \notin OptionsUntil(n)
    BY <1>1, <2>2
  <2>4. last = n
    BY <2>1, <2>3
  <2> QED BY <2>4 DEF last
<1> QED BY <1>1, <1>2 DEF TopUntil

\* The steps of parse() past an entry.
PassesEntry ==
    read_options \/ read_variable \/ skip_note \/ read_block \/ read_connection \/ skip_unknown

\* Each vector gets what the entry that is passed holds of its sort.
LEMMA EntryIsRead ==
    ASSUME Typed, PassesEntry, ReadUntil(position)
    PROVE  /\ position \in 1..Len(document) /\ NextEntry
           /\ d_blocks' = BlocksUntil(position + 1)
           /\ d_variables' = VariablesUntil(position + 1)
           /\ d_connections' = ConnectionsUntil(position + 1)
           /\ d_top_block' = TopUntil(position + 1)
<1> DEFINE n == position
<1>1. Reading
  BY Zenon DEF PassesEntry, read_options, read_variable, skip_note, read_block, read_connection, skip_unknown
<1>2. n \in 1..Len(document) /\ n \in DOMAIN document /\ entry = document[n] /\ entry \in Entry
  BY <1>1, ReadingEntry DEF Reading, entry
<1>3. NextEntry
  BY PassedIsAccepted DEF PassesEntry
<1>4. /\ d_blocks = BlocksUntil(n) /\ d_variables = VariablesUntil(n)
      /\ d_connections = ConnectionsUntil(n) /\ d_top_block = TopUntil(n)
  BY <1>2 DEF ReadUntil, Idle
<1>5. /\ n \in BlockPlaces(document) <=> IsProcessing(entry)
      /\ n \in VariablePlaces(document) <=> IsVariable(entry) /\ Enabled(block_info(entry))
      /\ n \in ConnectionPlaces(document) <=> IsConnection(entry)
  BY <1>2 DEF BlockPlaces, VariablePlaces, ConnectionPlaces
<1>6. /\ d_blocks \in Seq(BlockInfo) /\ d_variables \in Seq(BlockInfo)
      /\ d_connections \in Seq(ConnectionInfo)
  BY DEF Typed
<1>7. /\ ~IsProcessing(entry) => BlocksUntil(n + 1) = d_blocks
      /\ ~(IsVariable(entry) /\ Enabled(block_info(entry))) => VariablesUntil(n + 1) = d_variables
      /\ ~IsConnection(entry) => ConnectionsUntil(n + 1) = d_connections
  BY <1>2, <1>4, <1>5, PlacesOfDocument, OneMoreEntry DEF BlocksUntil, VariablesUntil, ConnectionsUntil
<1>8. IsProcessing(entry) => BlocksUntil(n + 1) = Append(d_blocks, block_info(entry))
  <2> SUFFICES ASSUME IsProcessing(entry) PROVE BlocksUntil(n + 1) = Append(d_blocks, block_info(entry))
    OBVIOUS
  <2>1. block_info(entry) \in BlockInfo
    BY <1>2, BlockInfoOfEntry DEF IsProcessing
  <2> QED BY <1>2, <1>4, <1>5, <1>6, <2>1, PlacesOfDocument, OneMoreEntry DEF BlocksUntil
<1>9. IsVariable(entry) /\ Enabled(block_info(entry)) =>
         VariablesUntil(n + 1) = Append(d_variables, block_info(entry))
  <2> SUFFICES ASSUME IsVariable(entry), Enabled(block_info(entry))
               PROVE  VariablesUntil(n + 1) = Append(d_variables, block_info(entry))
    OBVIOUS
  <2>1. block_info(entry) \in BlockInfo
    BY <1>2, BlockInfoOfEntry DEF IsVariable
  <2> QED BY <1>2, <1>4, <1>5, <1>6, <2>1, PlacesOfDocument, OneMoreEntry DEF VariablesUntil
<1>10. IsConnection(entry) => ConnectionsUntil(n + 1) = Append(d_connections, connection_info(entry))
  <2> SUFFICES ASSUME IsConnection(entry)
               PROVE  ConnectionsUntil(n + 1) = Append(d_connections, connection_info(entry))
    OBVIOUS
  <2>1. connection_info(entry) \in ConnectionInfo
    BY <1>2, ConnectionOfEntry
  <2> QED BY <1>2, <1>4, <1>5, <1>6, <2>1, PlacesOfDocument, OneMoreEntry DEF ConnectionsUntil
<1> HIDE DEF n
<1>11. /\ d_blocks' = BlocksUntil(n + 1) /\ d_variables' = VariablesUntil(n + 1)
       /\ d_connections' = ConnectionsUntil(n + 1)
  <2>1. CASE read_options \/ skip_note \/ skip_unknown
    <3>1. (IsOptions(entry) \/ IsNote(entry) \/ entry.tag = "other") /\ UNCHANGED vectors
      BY <2>1, Zenon DEF read_options, skip_note, skip_unknown
    <3>2. ~IsProcessing(entry) /\ ~IsVariable(entry) /\ ~IsConnection(entry)
      BY <3>1, SortsDiffer, Zenon
    <3> QED BY <1>7, <3>1, <3>2 DEF vectors
  <2>2. CASE read_variable
    <3>1. PICK enabled \in EnabledFlag(block_info(entry)) :
             d_variables' = IF enabled = Truth(TRUE) THEN Append(d_variables, block_info(entry))
                                                     ELSE d_variables
      BY <2>2, Zenon DEF read_variable
    <3>2. IsVariable(entry) /\ UNCHANGED <<d_blocks, d_connections>>
      BY <2>2, Zenon DEF read_variable
    <3>3. enabled = Truth(TRUE) <=> Enabled(block_info(entry))
      BY <3>1, FlagIsOne DEF Enabled
    <3>4. ~IsProcessing(entry) /\ ~IsConnection(entry)
      BY <3>2, SortsDiffer, Zenon
    <3>5. d_variables' = VariablesUntil(n + 1)
      <4>1. CASE Enabled(block_info(entry))
        BY <1>9, <3>1, <3>2, <3>3, <4>1, Zenon
      <4>2. CASE ~Enabled(block_info(entry))
        BY <1>7, <3>1, <3>3, <4>2, Zenon
      <4> QED BY <4>1, <4>2
    <3> QED BY <1>7, <3>2, <3>4, <3>5
  <2>3. CASE read_block
    <3>1. /\ IsProcessing(entry)
          /\ d_blocks' = Append(d_blocks, block_info(entry))
          /\ UNCHANGED <<d_variables, d_connections>>
      BY <2>3, Zenon DEF read_block
    <3>2. ~IsVariable(entry) /\ ~IsConnection(entry)
      BY <3>1, SortsDiffer, Zenon
    <3> QED BY <1>7, <1>8, <3>1, <3>2
  <2>4. CASE read_connection
    <3>1. /\ IsConnection(entry)
          /\ d_connections' = Append(d_connections, connection_info(entry))
          /\ UNCHANGED <<d_blocks, d_variables>>
      BY <2>4, Zenon DEF read_connection
    <3>2. ~IsVariable(entry) /\ ~IsProcessing(entry)
      BY <3>1, SortsDiffer, Zenon
    <3> QED BY <1>7, <1>10, <3>1, <3>2
  <2> QED BY <2>1, <2>2, <2>3, <2>4 DEF PassesEntry
<1>12. d_top_block' = TopUntil(n + 1)
  <2>1. CASE read_options
    <3>1. IsOptions(entry) /\ d_top_block' = block_info(entry)
      BY <2>1, Zenon DEF read_options
    <3> QED BY <1>2, <3>1, NextOptions
  <2>2. CASE ~read_options
    <3>1. ~IsOptions(entry) /\ UNCHANGED d_top_block
      <4>1. CASE read_variable
        BY <4>1, SortsDiffer, Zenon DEF read_variable
      <4>2. CASE skip_note
        BY <4>2, SortsDiffer, Zenon DEF skip_note
      <4>3. CASE read_block
        BY <4>3, SortsDiffer, Zenon DEF read_block
      <4>4. CASE read_connection
        BY <4>4, SortsDiffer, Zenon DEF read_connection
      <4>5. CASE skip_unknown
        BY <4>5, SortsDiffer, Zenon DEF skip_unknown
      <4> QED BY <2>2, <4>1, <4>2, <4>3, <4>4, <4>5, Zenon DEF PassesEntry
    <3> QED BY <1>2, <1>4, <3>1, NextOptions
  <2> QED BY <2>1, <2>2
<1> QED BY <1>2, <1>3, <1>11, <1>12 DEF n

\* A text stays or is the id of a variable, and then the value of one takes its place.
LEMMA CollapsedText ==
    ASSUME Typed, NEW t
    PROVE  ReplacedText(collapsed(t), t, d_variables)
<1> DEFINE of(n)   == {i \in WithValue(d_variables) : d_variables[i].id = n}
           text(n) == Unquote(d_variables[Max(of(n))].params["value"])
<1>1. variable_value_map = [n \in Ids(d_variables) |-> text(n)]
  BY DEF variable_value_map, ValueTexts, Ids, WithValue
<1>2. ASSUME t \in Ids(d_variables) PROVE text(t) \in Values(d_variables)
  <2>1. of(t) \subseteq 1..Len(d_variables) /\ Len(d_variables) \in Nat
    BY LenProperties DEF Typed, WithValue
  <2>2. of(t) # {}
    BY <1>2 DEF Ids
  <2>3. Max(of(t)) \in of(t)
    BY <2>1, <2>2, MaxIsMember
  <2> QED BY <2>3 DEF Values
<1> HIDE DEF text
<1> QED BY <1>1, <1>2 DEF collapsed, ReplacedText

\* Whatever was replaced before, another pass over the parameters replaces ids
\* of variables by values of variables.
LEMMA CollapseReplaces ==
    ASSUME Typed, collapse_variables, NEW before, Replaced(d_blocks, before, d_variables)
    PROVE  Replaced(d_blocks', before, d_variables)
<1> DEFINE params(i) == [p \in DOMAIN d_blocks[i].params |-> collapsed(d_blocks[i].params[p])]
<1>1. /\ DOMAIN d_blocks' = DOMAIN d_blocks
      /\ \A i \in DOMAIN d_blocks : d_blocks'[i] = [d_blocks[i] EXCEPT !.params = params(i)]
  BY DEF collapse_variables
<1>2. \A i \in DOMAIN d_blocks :
         d_blocks[i] = [key |-> d_blocks[i].key, id |-> d_blocks[i].id, params |-> d_blocks[i].params]
  <2>1. \A i \in DOMAIN d_blocks : d_blocks[i] \in BlockInfo
    BY LenProperties, ElementOfSeq DEF Typed
  <2> QED BY <2>1 DEF BlockInfo
<1> HIDE DEF params
<1>3. \A i \in DOMAIN d_blocks :
         /\ d_blocks'[i].key = d_blocks[i].key /\ d_blocks'[i].id = d_blocks[i].id
         /\ d_blocks'[i].params = params(i)
  BY <1>1, <1>2
<1>4. ASSUME NEW i \in DOMAIN before
      PROVE  /\ d_blocks'[i].key = before[i].key /\ d_blocks'[i].id = before[i].id
             /\ DOMAIN d_blocks'[i].params = DOMAIN before[i].params
             /\ \A p \in DOMAIN before[i].params :
                   ReplacedText(d_blocks'[i].params[p], before[i].params[p], d_variables)
  <2>1. /\ i \in DOMAIN d_blocks
        /\ d_blocks[i].key = before[i].key /\ d_blocks[i].id = before[i].id
        /\ DOMAIN d_blocks[i].params = DOMAIN before[i].params
        /\ \A p \in DOMAIN before[i].params :
              ReplacedText(d_blocks[i].params[p], before[i].params[p], d_variables)
    BY DEF Replaced
  <2>2. d_blocks'[i].params = [p \in DOMAIN before[i].params |-> collapsed(d_blocks[i].params[p])]
    BY <1>3, <2>1 DEF params
  <2>3. ASSUME NEW p \in DOMAIN before[i].params
        PROVE  ReplacedText(d_blocks'[i].params[p], before[i].params[p], d_variables)
    <3>1. d_blocks'[i].params[p] = collapsed(d_blocks[i].params[p])
      BY <2>2
    <3>2. /\ ReplacedText(d_blocks[i].params[p], before[i].params[p], d_variables)
          /\ ReplacedText(collapsed(d_blocks[i].params[p]), d_blocks[i].params[p], d_variables)
      BY <2>1, CollapsedText
    <3> QED BY <3>1, <3>2 DEF ReplacedText
  <2> QED BY <1>3, <2>1, <2>2, <2>3
<1>5. DOMAIN d_blocks' = DOMAIN before
  BY <1>1 DEF Replaced
<1> QED BY <1>4, <1>5 DEF Replaced

LEMMA ReadInit == Init => ReadSoFar
<1> SUFFICES ASSUME Init PROVE ReadSoFar
  OBVIOUS
<1>1. Typed
  BY TypedInit
<1>2. /\ position = 0 /\ d_parsed = FALSE
      /\ d_blocks = <<>> /\ d_variables = <<>> /\ d_connections = <<>>
      /\ d_top_block = [key |-> "", id |-> Empty, params |-> <<>>]
  BY Zenon DEF Init
<1>3. ReadUntil(1)
  BY <1>1, <1>2, NothingYet, NothingReplaced DEF ReadUntil, Idle
<1>4. 1 \in 1..Len(document) + 1
  BY <1>1, PlacesOfDocument
<1> QED BY <1>3, <1>4 DEF ReadSoFar

\* Every step keeps the vectors in accord with the document: it reads the next
\* entry, stops for good, or replaces ids of variables.
LEMMA ReadNext == Typed /\ ReadSoFar /\ [Next]_parserVars => ReadSoFar'
<1> SUFFICES ASSUME Typed, ReadSoFar, [Next]_parserVars PROVE ReadSoFar'
  OBVIOUS
<1>1. PICK n \in 1..Len(document) + 1 : ReadUntil(n)
  BY DEF ReadSoFar
<1>2. Len(document) \in Nat /\ DOMAIN document = 1..Len(document)
  BY PlacesOfDocument
<1>3. CASE read_xml
  <2>1. UNCHANGED <<document, d_blocks, d_variables, d_connections, d_top_block, d_parsed>> /\ d_is' = "consumed"
    BY <1>3 DEF read_xml, stream, vectors
  <2>2. CASE d_is = "open" /\ readable
    <3>1. position' = 1 /\ n = 1 /\ ~d_parsed /\ result' = "none"
      BY <1>1, <1>3, <2>2 DEF read_xml, ReadUntil
    <3>2. d_blocks = BlocksUntil(n)
      <4>1. BlocksUntil(1) = <<>>
        BY NothingYet
      <4>2. DOMAIN d_blocks = {}
        BY <1>1, <3>1, <4>1 DEF ReadUntil, Replaced
      <4>3. d_blocks \in Seq(BlockInfo)
        BY DEF Typed
      <4> QED BY <3>1, <4>1, <4>2, <4>3
    <3>3. ReadUntil(n)'
      BY <1>1, <2>1, <3>1, <3>2 DEF ReadUntil, BlocksUntil, VariablesUntil, ConnectionsUntil, TopUntil, OptionsUntil
    <3> QED BY <1>1, <2>1, <3>3 DEF ReadSoFar
  <2>3. CASE ~(d_is = "open" /\ readable)
    <3>1. position' = 0
      BY <1>3, <2>3 DEF read_xml
    <3>2. ReadUntil(n)'
      BY <1>1, <2>1, <3>1 DEF ReadUntil, Idle, BlocksUntil, VariablesUntil, ConnectionsUntil, TopUntil, OptionsUntil
    <3> QED BY <1>1, <2>1, <3>2 DEF ReadSoFar
  <2> QED BY <2>2, <2>3
<1>4. CASE PassesEntry
  <2>1. Reading /\ ~Idle
    <3>1. Reading
      BY <1>4, Zenon DEF PassesEntry, read_options, read_variable, skip_note, read_block,
                         read_connection, skip_unknown
    <3> QED BY <1>2, <3>1 DEF Reading, Idle
  <2>2. n = position
    BY <1>1, <2>1 DEF ReadUntil
  <2>3. /\ position \in 1..Len(document) /\ NextEntry
        /\ d_blocks' = BlocksUntil(position + 1)
        /\ d_variables' = VariablesUntil(position + 1)
        /\ d_connections' = ConnectionsUntil(position + 1)
        /\ d_top_block' = TopUntil(position + 1)
    BY <1>1, <1>4, <2>2, EntryIsRead
  <2>4. /\ position' = position + 1 /\ UNCHANGED <<document, d_is, d_parsed, result>>
        /\ position + 1 \in 1..Len(document) + 1
    BY <1>2, <2>3 DEF NextEntry, stream
  <2>5. ~d_parsed /\ d_is # "open" /\ result = "none"
    BY <1>1, <2>1 DEF ReadUntil
  <2>6. PICK k \in 1..Len(document) + 1 : k = position + 1
    BY <2>4
  <2>7. /\ d_blocks' = BlocksUntil(k)' /\ d_variables' = VariablesUntil(k)'
        /\ d_connections' = ConnectionsUntil(k)' /\ d_top_block' = TopUntil(k)'
    BY <2>3, <2>4, <2>6 DEF BlocksUntil, VariablesUntil, ConnectionsUntil, TopUntil, OptionsUntil
  <2>8. ReadUntil(k)'
    <3>1. Replaced(d_blocks, BlocksUntil(k), d_variables)'
      BY <2>7, NothingReplaced
    <3>2. k = position' /\ d_is' = "consumed" /\ ~d_parsed' /\ d_is' # "open" /\ result' = "none"
      <4>1. /\ k = position' /\ d_is' = d_is /\ d_parsed' = d_parsed /\ d_is = "consumed"
            /\ result' = "none"
        BY <1>1, <2>1, <2>4, <2>6 DEF ReadUntil
      <4> QED BY <2>5, <4>1, Zenon
    <3> QED BY <2>7, <3>1, <3>2, Zenon DEF ReadUntil
  <2> QED BY <2>4, <2>8 DEF ReadSoFar
<1>5. CASE read_variable_throws \/ read_broken
  <2>1. Reading /\ Throw
    BY <1>5, Zenon DEF read_variable_throws, read_broken
  <2>2. ~Idle
    BY <1>2, <2>1 DEF Reading, Idle
  <2>3. position' = 0 /\ UNCHANGED <<document, d_is, d_blocks, d_variables, d_connections, d_top_block, d_parsed>>
    BY <2>1 DEF Throw, stream, vectors
  <2>4. ReadUntil(n)'
    BY <1>1, <2>2, <2>3 DEF ReadUntil, Idle, BlocksUntil, VariablesUntil, ConnectionsUntil, TopUntil, OptionsUntil
  <2> QED BY <2>3, <2>4 DEF ReadSoFar
<1>6. CASE end_of_document
  <2>1. ~Idle /\ position = Len(document) + 1
    BY <1>2, <1>6 DEF end_of_document, Reading, Idle, Typed
  <2>2. /\ position' = 0 /\ d_parsed' = TRUE
        /\ UNCHANGED <<document, d_is, d_blocks, d_variables, d_connections, d_top_block>>
    BY <1>6 DEF end_of_document, stream, vectors
  <2>3. ReadUntil(n)'
    BY <1>1, <2>1, <2>2 DEF ReadUntil, Idle, BlocksUntil, VariablesUntil, ConnectionsUntil, TopUntil, OptionsUntil
  <2> QED BY <2>2, <2>3 DEF ReadSoFar
<1>7. CASE collapse_variables
  <2>1. /\ Idle /\ UNCHANGED <<document, d_is, d_variables, d_connections, d_top_block, d_parsed, position>>
    BY <1>7 DEF collapse_variables, stream
  <2>2. Replaced(d_blocks', BlocksUntil(n), d_variables)
    BY <1>1, <1>7, CollapseReplaces DEF ReadUntil
  <2>3. ReadUntil(n)'
    BY <1>1, <2>1, <2>2 DEF ReadUntil, Idle, BlocksUntil, VariablesUntil, ConnectionsUntil, TopUntil, OptionsUntil
  <2> QED BY <2>1, <2>3 DEF ReadSoFar
<1>8. CASE UNCHANGED parserVars
  <2>1. UNCHANGED <<document, d_is, d_blocks, d_variables, d_connections, d_top_block, d_parsed, position, result>>
    BY <1>8 DEF parserVars, stream, vectors
  <2>2. ReadUntil(n)'
    BY <1>1, <2>1 DEF ReadUntil, Idle, BlocksUntil, VariablesUntil, ConnectionsUntil, TopUntil, OptionsUntil
  <2> QED BY <2>1, <2>2 DEF ReadSoFar
<1> QED BY <1>3, <1>4, <1>5, <1>6, <1>7, <1>8 DEF Next, parse, PassesEntry

LEMMA ReadSoFarHolds == Spec => []ReadSoFar
BY TypedInvariant, ReadInit, ReadNext, PTL DEF Spec

\* The first entries of some places, in the two forms that VectorsFollowDocument
\* asks for.
LEMMA ReadIsPrefix ==
    ASSUME Typed, NEW places, places \subseteq 1..Len(document), NEW n \in 1..Len(document) + 1
    PROVE  LET blocks(p)      == BlocksAt(document, p)
               connections(p) == ConnectionsAt(document, p)
               part           == Until(places, n)
           IN  /\ n = Len(document) + 1 => part = places
               /\ IsPrefixOf(blocks(part), blocks(places))
               /\ IsPrefixOf(Names(blocks(part)), Names(blocks(places)))
               /\ IsPrefixOf(connections(part), connections(places))
<1> DEFINE part == Until(places, n)
<1>0. Len(document) \in Nat
  BY PlacesOfDocument
<1>1. n = Len(document) + 1 => part = places
  BY <1>0, UntilFacts
<1> DEFINE m == Len(document)
<1>8. /\ m \in Nat /\ places \subseteq 1..m /\ part \subseteq places
      /\ \A i \in part : \A j \in places \ part : i < j
  BY <1>0, UntilFacts
<1> HIDE DEF part, m
<1>2. /\ Cardinality(part) \in Nat /\ Cardinality(places) \in Nat
      /\ Cardinality(part) <= Cardinality(places)
      /\ \A k \in 1..Cardinality(part) :
            /\ BlocksAt(document, part)[k] = BlocksAt(document, places)[k]
            /\ ConnectionsAt(document, part)[k] = ConnectionsAt(document, places)[k]
  <2>1. part \subseteq 1..m
    BY <1>8
  <2>2. /\ Cardinality(part) \in Nat /\ Cardinality(places) \in Nat
        /\ Cardinality(part) <= Cardinality(places)
        /\ \A k \in 1..Cardinality(part) : Nth(part, k) = Nth(places, k)
    BY <1>8, <2>1, NthOfPart, PlacesAreFinite
  <2>3. \A k \in 1..Cardinality(part) : k \in 1..Cardinality(places)
    BY <2>2
  <2> QED BY <2>2, <2>3 DEF BlocksAt, ConnectionsAt
<1>3. \A k \in 1..Cardinality(part) : k \in 1..Cardinality(places)
  BY <1>2
<1>4. \A q \in {part, places} :
         /\ Cardinality(q) \in Nat
         /\ DOMAIN BlocksAt(document, q) = 1..Cardinality(q) /\ Len(BlocksAt(document, q)) = Cardinality(q)
         /\ DOMAIN ConnectionsAt(document, q) = 1..Cardinality(q)
         /\ Len(ConnectionsAt(document, q)) = Cardinality(q)
         /\ DOMAIN Names(BlocksAt(document, q)) = 1..Cardinality(q)
         /\ Len(Names(BlocksAt(document, q))) = Cardinality(q)
  BY <1>2 DEF BlocksAt, ConnectionsAt, Names
<1>5. IsPrefixOf(BlocksAt(document, part), BlocksAt(document, places))
  BY <1>2, <1>4 DEF IsPrefixOf
<1>6. IsPrefixOf(ConnectionsAt(document, part), ConnectionsAt(document, places))
  BY <1>2, <1>4 DEF IsPrefixOf
<1>7. IsPrefixOf(Names(BlocksAt(document, part)), Names(BlocksAt(document, places)))
  <2>1. \A k \in 1..Cardinality(part) :
           Names(BlocksAt(document, part))[k] = Names(BlocksAt(document, places))[k]
    BY <1>2, <1>3, <1>4 DEF Names
  <2> QED BY <1>2, <1>4, <2>1 DEF IsPrefixOf
<1> QED BY <1>1, <1>5, <1>6, <1>7 DEF part

LEMMA ReadFollowsDocument == Typed /\ ReadSoFar => VectorsFollowDocument
<1> SUFFICES ASSUME Typed, ReadSoFar PROVE VectorsFollowDocument
  OBVIOUS
<1>1. PICK n \in 1..Len(document) + 1 : ReadUntil(n)
  BY DEF ReadSoFar
<1>2. Names(d_blocks) = Names(BlocksUntil(n))
  BY <1>1 DEF ReadUntil, Replaced, Names
<1>3. /\ d_variables = VariablesUntil(n) /\ d_connections = ConnectionsUntil(n)
      /\ d_parsed => n = Len(document) + 1
  BY <1>1 DEF ReadUntil
<1>4. /\ IsPrefixOf(Names(d_blocks), Names(BlocksOf(document)))
      /\ n = Len(document) + 1 => BlocksUntil(n) = BlocksOf(document)
  BY <1>2, PlacesOfDocument, ReadIsPrefix DEF BlocksUntil, BlocksOf
<1>5. /\ IsPrefixOf(d_variables, VariablesOf(document))
      /\ n = Len(document) + 1 => VariablesUntil(n) = VariablesOf(document)
  BY <1>3, PlacesOfDocument, ReadIsPrefix DEF VariablesUntil, VariablesOf
<1>6. /\ IsPrefixOf(d_connections, ConnectionsOf(document))
      /\ n = Len(document) + 1 => ConnectionsUntil(n) = ConnectionsOf(document)
  BY <1>3, PlacesOfDocument, ReadIsPrefix DEF ConnectionsUntil, ConnectionsOf
<1> QED BY <1>2, <1>3, <1>4, <1>5, <1>6, Zenon DEF VectorsFollowDocument

\* The vectors are what the document holds up to where reading it stopped, in
\* its order, whatever document it is and whatever calls are made
\* (flowgraph_impl.cc:66-129).
THEOREM VectorsFollow == Spec => []VectorsFollowDocument
BY TypedInvariant, ReadSoFarHolds, ReadFollowsDocument, PTL

LEMMA ReadReplacesIds == Typed /\ ReadSoFar => OnlyVariableNamesReplaced
<1> SUFFICES ASSUME Typed, ReadSoFar PROVE OnlyVariableNamesReplaced
  OBVIOUS
<1> DEFINE original  == BlocksOf(document)
           variables == VariablesOf(document)
<1>1. PICK n \in 1..Len(document) + 1 : ReadUntil(n)
  BY DEF ReadSoFar
<1>2. d_variables = VariablesUntil(n) /\ Replaced(d_blocks, BlocksUntil(n), d_variables)
  BY <1>1 DEF ReadUntil
<1>3. IsPrefixOf(d_variables, variables) /\ IsPrefixOf(BlocksUntil(n), original)
  BY <1>2, PlacesOfDocument, ReadIsPrefix DEF VariablesUntil, VariablesOf, BlocksUntil, BlocksOf
<1>4. Ids(d_variables) \subseteq Ids(variables) /\ Values(d_variables) \subseteq Values(variables)
  <2>1. \A i \in WithValue(d_variables) : i \in WithValue(variables) /\ d_variables[i] = variables[i]
    <3>1. DOMAIN d_variables = 1..Len(d_variables) /\ Len(d_variables) \in Nat
      BY LenProperties DEF Typed
    <3>2. DOMAIN variables = 1..Len(variables) /\ Len(variables) \in Nat
      <4>1. Cardinality(VariablePlaces(document)) \in Nat
        BY PlacesOfDocument, PlacesAreFinite
      <4> QED BY <4>1 DEF VariablesOf, BlocksAt
    <3> HIDE DEF variables
    <3> QED BY <1>3, <3>1, <3>2 DEF IsPrefixOf, WithValue
  <2> HIDE DEF variables
  <2> QED BY <2>1 DEF Ids, Values
<1> HIDE DEF original, variables
<1>5. ASSUME NEW i \in DOMAIN d_blocks
      PROVE  /\ DOMAIN d_blocks[i].params = DOMAIN original[i].params
             /\ \A p \in DOMAIN d_blocks[i].params :
                   LET now == d_blocks[i].params[p]  before == original[i].params[p] IN
                   now # before => before \in Ids(variables) /\ now \in Values(variables)
  <2>1. i \in DOMAIN BlocksUntil(n) /\ BlocksUntil(n)[i] = original[i]
    BY <1>2, <1>3 DEF Replaced, IsPrefixOf
  <2>2. /\ DOMAIN d_blocks[i].params = DOMAIN original[i].params
        /\ \A p \in DOMAIN original[i].params :
              ReplacedText(d_blocks[i].params[p], original[i].params[p], d_variables)
    BY <1>2, <2>1 DEF Replaced
  <2> QED BY <1>4, <2>2 DEF ReplacedText
<1> QED BY <1>5 DEF OnlyVariableNamesReplaced, Ids, Values, WithValue, original, variables

\* A parameter is only replaced when it is the id of an enabled variable, however
\* often collapse_variables is called and whenever (flowgraph_impl.cc:131-148).
THEOREM VariableNamesReplaced == Spec => []OnlyVariableNamesReplaced
BY TypedInvariant, ReadSoFarHolds, ReadReplacesIds, PTL
=============================================================================
