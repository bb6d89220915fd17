--------------------------- MODULE MCBlockFactory ---------------------------
(***************************************************************************)
(* Calls of BlockFactory::make_block: for every supported key, a block     *)
(* with everything its maker reads, the same with one parameter left out   *)
(* or given another text, and an unsupported key; each with several lists  *)
(* of variables.  The makers of the picoscopes are called for every mode   *)
(* and trigger too, with a channel off, something left out, no device or a *)
(* setting that the device rejects.  The answer to a call is a block or an *)
(* exception.                                                              *)
(***************************************************************************)
EXTENDS MakeBlock, MCWords

-----------------------------------------------------------------------------
(* The calls *)

\* A text each read accepts.
Sample(r) ==
    CASE r.how = "one of"   -> IF Word("ccc") \in r.texts THEN Word("ccc")
                               ELSE CHOOSE t \in r.texts : TRUE
      [] r.how = "waveform" -> Word("analog.GR_SIN_WAVE")
      [] r.how = "enum"     -> Window("WIN_HANN")
      [] r.how = "vector"   -> List(<<Number(2), Word("rate")>>)
      [] r.type = "bool"    -> Word("True")
      [] r.type = "string"  -> IF r.param = "taps" THEN Word("taps") ELSE Word("Digital")
      [] OTHER              -> Number(2)

\* A block with a text for everything the maker reads of it; three rounds reach
\* the reads that hang on other reads.
Given(b) ==
    LET reads == MakerReads(b) IN
    [b EXCEPT !.params = @ @@ [p \in {r.param : r \in reads} |->
                                  Sample(CHOOSE r \in reads : r.param = p)]]

Whole(key) == Given(Given(Given([key |-> key, id |-> Word("block"), params |-> <<>>])))

With(b, p, t) == [b EXCEPT !.params = (p :> t) @@ @]

\* With everything that one or another call for the key reads.
Everything(key) ==
    LET b == Whole(key)
        with(p, t) == Given(With(b, p, Word(t))).params
    IN [b EXCEPT !.params = @ @@ with("acquisition_mode", "Streaming") @@ with("acquisition_mode", "Rapid Block")
                              @@ with("trigger_source", "A") @@ with("trigger_source", "Digital")]

Without(b, p) == [b EXCEPT !.params = [q \in DOMAIN @ \ {p} |-> @[q]]]

Others ==
    {Number(3), Number(2 * MaxInt + 2), Number(-2 * MaxInt - 2), Word("rate"), Word("RATE"), Word("ghost"),
     Twice("rate"), Empty, Blank, Quoted(Number(2)), Quotes, List(<<>>),
     List(<<Number(1)>>), Word("True"), Window("WIN_FOO"), Word("None"), Word("ccf")}

\* Names that the parser or the symbol table has a say in.
OddTexts == {Word("If"), Word("default"), Word("DEFAULT"), Twice("Default")}

Calls ==
    {[key |-> "uhd_usrp_source", id |-> Word("block"), params |-> <<>>]} \cup
    UNION {LET b == Whole(key) IN
           {b} \cup {Without(b, p) : p \in DOMAIN b.params}
               \cup {With(b, p, t) : p \in DOMAIN b.params, t \in Others}
               \cup {With(b, p, t) : p \in {"affinity", "minoutbuf", "maxoutbuf"},
                                     t \in Others} : key \in DOMAIN handlers_b}

Named(w, t) == [key |-> "variable", id |-> Word(w), params |-> "value" :> t]
Rate(t)     == Named("rate", t)
Taps    == [key |-> "variable_band_pass_filter_taps", id |-> Word("taps"),
            params |-> [p \in {r.param : r \in BandPassFilter("taps_complex")} |->
                           Sample(CHOOSE r \in BandPassFilter("taps_complex") : r.param = p)]]

VariableLists ==
    {<<Taps>>, <<Taps, Rate(Number(2))>>, <<Rate(Number(3)), Taps>>,
     <<Rate(Number(2)), Taps, Rate(Quoted(Number(4)))>>, <<Rate(Empty)>>,
     <<Rate(Number(2)), Named("Rate", Number(4)), Taps>>}

\* A name that is set to blanks, and names that are exprtk's, in capitals or not.
OddCalls ==
    /\ \E key \in {k \in DOMAIN handlers_b : \A r \in handlers_b[k] : r.how # "vector"} :
          LET b == Whole(key) IN
          info \in {b} \cup {With(b, p, t) : p \in DOMAIN b.params, t \in Others \cup OddTexts}
    /\ variables \in {<<Rate(Quoted(Blank)), Named("True", Number(4)), Taps>>,
                      <<Named("If", Number(4)), Named("default", Number(4)), Named("Default", Number(2)), Taps>>}

-----------------------------------------------------------------------------
(* Calls for a device *)

Picoscopes == {key \in DOMAIN handlers_b : IsPicoscope(key)}

\* Everything is given, for any mode and trigger; channel d may be off.
Devices ==
    {With(With(With(Everything(key), "acquisition_mode", Word(mode)), "trigger_source", Word(source)),
          "enable_ai_d", Word(on)) :
        key \in Picoscopes, mode \in {"Streaming", "Rapid Block", "Block"},
        source \in {"None", "Digital", "A"}, on \in {"True", "False"}}

Rejected ==
    {<<"set_downsampling">>, <<"set_aichan", "d">>, <<"set_diport", "1">>, <<"set_di_trigger">>,
     <<"set_aichan_trigger">>, <<"set_streaming">>, <<"set_samples">>}

\* At most one fault of the document or of the device.
DeviceInit ==
    /\ \E d \in Devices :
          \/ info \in {Without(d, p) : p \in DOMAIN d.params} /\ present = TRUE /\ rejected = {}
          \/ info = d /\ present = FALSE /\ rejected = {}
          \/ info = d /\ present = TRUE /\ rejected \in {{}} \cup {{r} : r \in Rejected}
    /\ variables = <<Rate(Number(2))>>

Init ==
    /\ \/ /\ (info \in Calls /\ variables \in VariableLists) \/ OddCalls
          /\ present = TRUE /\ rejected = {}
       \/ DeviceInit
    /\ IsDocument /\ SetupBegins

Spec == Init /\ [][CallNext]_setupVars /\ WF_setupVars(CallNext)

-----------------------------------------------------------------------------
(* What the comments of the code say and the code does not do *)

\* "failed to convert the whole string" (flowgraph_impl.h:76) is an exception, so
\* a converted number is the one that was written.
ConvertedAsWritten ==
    WasMade => \A r \in MakerReads(info) :
        r.how = "value" /\ r.type \in Integral \cup Real => Args[r] = TextOf(info, r.param)

\* "get rid of () or []" (flowgraph_impl.h:210): a vector has the elements
\* between the brackets.
BracketsTakenOff ==
    WasMade => \A r \in MakerReads(info) :
        r.how = "vector" /\ TextOf(info, r.param).kind = "list"
            => Len(Args[r].items) = Len(TextOf(info, r.param).items)
=============================================================================
