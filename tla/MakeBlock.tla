------------------------------ MODULE MakeBlock ------------------------------
(***************************************************************************)
(* A call of BlockFactory::make_block (src/lib/flowgraph_impl.cc:1327-1344)*)
(* for any block and any variables of a document: a picoscope is made step *)
(* by step (PicoscopeSetup), any other block at once.  The answer is a     *)
(* block or an exception.                                                  *)
(*                                                                         *)
(* The properties say what a made block was given, of the texts of the     *)
(* document alone: no conversion and no map of values is part of them.     *)
(***************************************************************************)
EXTENDS PicoscopeSetup

IsDocument ==
    /\ IsBlockInfo(info)
    /\ variables \in Seq(ItemsOf(variables))
    /\ \A i \in DOMAIN variables : IsBlockInfo(variables[i])

Make ==
    /\ phase = "other" /\ answer = None
    /\ \E block \in make_block(info, variables) : answer' = Made(block)
    /\ UNCHANGED <<call_, setup_>>

MakeThrows ==
    /\ phase = "other" /\ answer = None
    /\ make_block(info, variables) = {}
    /\ answer' = Thrown
    /\ UNCHANGED <<call_, setup_>>

CallNext == Make \/ MakeThrows \/ SetupNext

\* Any call of make_block, on any device.
CallSpec == IsDocument /\ SetupBegins /\ [][CallNext]_setupVars

-----------------------------------------------------------------------------
(* What the texts of the document mean *)

WasMade == answer.kind = "block"
Args    == answer.block.args

\* The text param_value hands on, without quotes.
TextOf(b, p) == Unquote(b.params[p])

IsSet(i) == is_param_set(variables[i], "value")

\* The names of variables with a value that differ from a name in capitals at most, and
\* the first of them, which is the one that is meant.
Spellings(w) ==
    {m \in {variables[i].id : i \in {j \in DOMAIN variables : IsSet(j)}} :
        m.kind = "word" /\ m.word \notin ReservedSymbols /\ Lower(m.word) = Lower(w)}
Meant(w) == {m \in Spellings(w) : \A k \in Spellings(w) : ~Less(k.word, m.word)}

\* The variables that set that name, and what the last of them is set to.
Setting(w) == {i \in DOMAIN variables : /\ Meant(w) # {} /\ IsSet(i)
                                        /\ variables[i].id = CHOOSE m \in Meant(w) : TRUE}
SetTo(w)   == Unquote(variables[Max(Setting(w))].params["value"])

\* The number a name stands for; NaN when it stands for none.
NameDenotes(w) ==
    CASE Lower(w) = "true"  -> Number(2)
      [] Lower(w) = "false" -> Number(0)
      [] OTHER -> IF /\ w \notin ReservedSymbols /\ Lower(w) \notin ParserWords
                     /\ Setting(w) # {} /\ SetTo(w).kind = "number"
                  THEN SetTo(w) ELSE NaN

TermDenotes(t) ==
    CASE t.kind = "number" -> t
      [] t.kind = "word"   -> NameDenotes(t.word)
      [] t.kind = "twice"  -> IF NameDenotes(t.word) = NaN THEN NaN
                              ELSE Number(2 * NameDenotes(t.word).half)
      [] OTHER -> NaN

\* What a text is to an expression; one element in brackets is that element.
Denotes(t) == TermDenotes(IF t.kind = "list" /\ Len(t.items) = 1 THEN t.items[1] ELSE t)

InRange(T, v) == v.half \div 2 \in Least(T)..Greatest(T) /\ v.half % 2 = 0

Terms(t) == IF t.kind = "list" THEN ItemsOf(t.items) ELSE {t}

\* A name in the text is set to blanks in quotes: is_param_set takes them for a value,
\* and the conversion reads nothing from them.
NamesBlank(t) ==
    \E u \in Terms(t) :
        u.kind \in {"word", "twice"} /\ Setting(u.word) # {} /\ SetTo(u.word) = Blank

\* A text from which a read takes an uninitialised or undefined value.
Undefined(b, r) ==
    LET t == TextOf(b, r.param)  meant == Denotes(t) IN
    CASE r.how = "value"    -> r.type \in Integral \cup Real /\ t \in {Empty, Blank}
      [] r.how = "eval"     -> \/ r.type \in Integral /\ (meant = NaN \/ ~InRange(r.type, meant))
                               \/ NamesBlank(t)
      [] r.how = "vector"   -> r.type \in Integral \/ NamesBlank(t)
      [] r.how = "waveform" -> t \notin enum_repr
      [] OTHER              -> FALSE

\* Every parameter that is read is there and has a value of its type.
Determined(b, reads) == \A r \in reads : r.param \in DOMAIN b.params /\ ~Undefined(b, r)

-----------------------------------------------------------------------------
(* Properties *)

\* No parameter has a default: a block exists only if the document gives every
\* parameter that its maker reads (param_value, flowgraph_impl.h:121-126).
NothingIsDefaulted ==
    WasMade => \A r \in MakerReads(info) : r.param \in DOMAIN info.params

\* An evaluated parameter is the number its text denotes with the variables of
\* the document, for every maker and type, when there is such a number and the type
\* can hold it (eval_param_value, flowgraph_impl.h:168-187).  A name is that of a
\* variable in any capitals; of the variables it may mean it means the first in
\* the order of the map (exprtk_impl.cc:16-20).
ArgumentsAreDenoted ==
    WasMade => \A r \in MakerReads(info) :
        LET meant == Denotes(TextOf(info, r.param)) IN
        r.how = "eval" /\ meant # NaN /\ (r.type \in Real \/ InRange(r.type, meant))
            => Args[r] = meant

\* The same document makes the same block: another is possible only where a parameter
\* of the block, or of the taps it names, has no value of its type.
SameDocumentSameBlock ==
    /\ WasMade
    /\ Determined(info, MakerReads(info))
    /\ info.key = "freq_xlating_fir_filter_xxx" =>
          Determined(TapsOf(info, variables), BandPassFilter(TapsType(info)))
    /\ {"affinity", "minoutbuf", "maxoutbuf"} \cap DOMAIN info.params = {}
    => make_block(info, variables) = {answer.block}

\* One variable with a fractional value, or with one that is no number, stops every
\* block that evaluates an integer, whether the block names that variable or not
\* (flowgraph_impl.h:173-177).
FractionStopsIntegers ==
    LET integers == {r \in MakerReads(info) : r.how = "eval" /\ r.type \in Integral} IN
    WasMade /\ integers # {} => \A i \in DOMAIN variables :
        is_param_set(variables[i], "value") =>
            LET value == Unquote(variables[i].params["value"]) IN
            value = Blank \/ (value.kind = "number" /\ value.half % 2 = 0)
=============================================================================
