---------------------------- MODULE BlockFactory ----------------------------
(***************************************************************************)
(* class BlockFactory and the BlockMakers of src/lib/flowgraph_impl.cc.    *)
(*                                                                         *)
(* A maker is the set of the reads it does: which parameter, how and as    *)
(* what type.  A maker reads everything before the block exists or throws  *)
(* the half configured block away, so the order of its reads shows only in *)
(* the wording of the exception.  A made block is the key it was made for, *)
(* what each read gave it and the settings applied to it.                  *)
(***************************************************************************)
EXTENDS ParamValue, TLC

-----------------------------------------------------------------------------
(* The reads *)

Get(T, p)    == [how |-> "value", type |-> T, param |-> p]   \* param_value<T>
GetText(p)   == Get("string", p)
Eval(T, p)   == [how |-> "eval", type |-> T, param |-> p]    \* eval_param_value<T>
Vector(T, p) == [how |-> "vector", type |-> T, param |-> p]  \* eval_param_vector<T>
Enum(p)      == [how |-> "enum", type |-> "int", param |-> p]
OneOf(p, S)  == [how |-> "one of", type |-> "string", param |-> p, texts |-> S]
Waveform(p)  == [how |-> "waveform", type |-> "string", param |-> p]

Words(S) == {Word(w) : w \in S}

\* getSizeOfType
SizeOf(p) == OneOf(p, Words({"complex", "float", "int", "short", "byte"}))

enum_repr == Words({"analog.GR_CONST_WAVE", "analog.GR_SIN_WAVE", "analog.GR_COS_WAVE",
                    "analog.GR_SQR_WAVE", "analog.GR_TRI_WAVE", "analog.GR_SAW_WAVE"})

\* SigSourceMaker::lexical_cast follows find() without looking: for a name that
\* is not in the map it returns whatever lies behind it.
lexical_cast(t) == IF t \in enum_repr THEN {t} ELSE enum_repr \cup {Word("no waveform")}

read_outcomes(r, info, variables) ==
    CASE r.how = "value"    -> param_value(r.type, info, r.param)
      [] r.how = "eval"     -> eval_param_value(r.type, info, r.param, variables)
      [] r.how = "vector"   -> eval_param_vector(r.type, info, r.param, variables)
      [] r.how = "enum"     -> eval_param_enum(info, r.param)
      [] r.how = "one of"   -> param_value("string", info, r.param) \cap r.texts
      [] r.how = "waveform" -> UNION {lexical_cast(t) : t \in param_value("string", info, r.param)}

\* The functions that take each value from the set of its argument.  Most sets have one
\* member: only the arguments with a choice are enumerated.
Selections(S) ==
    LET free    == {r \in DOMAIN S : \E v, w \in S[r] : v # w}
        chosen  == {f \in [free -> UNION {S[r] : r \in free}] : \A r \in free : f[r] \in S[r]}
        only(r) == CHOOSE v \in S[r] : TRUE
    IN  IF \E r \in DOMAIN S : S[r] = {} THEN {}
        ELSE {[r \in DOMAIN S |-> IF r \in free THEN f[r] ELSE only(r)] : f \in chosen}

\* Every way the reads of a maker can turn out; none when one of them throws.
Arguments(reads, info, variables) ==
    Selections([r \in reads |-> read_outcomes(r, info, variables)])

-----------------------------------------------------------------------------
(* gnuradio blocks *)

NullSinkMaker          == {SizeOf("type"), Eval("int", "vlen")}
NullSourceMaker        == {SizeOf("type"), Eval("int", "vlen")}
UcharToFloatMaker      == {}
VectorToStreamMaker    == {SizeOf("type"), Eval("int", "num_items"), Eval("int", "vlen")}
VectorToStreamsMaker   == {SizeOf("type"), Eval("int", "num_streams"), Eval("int", "vlen")}
ComplexToMagMaker      == {Eval("int", "vlen")}
ComplexToMagPhaseMaker == {Eval("int", "vlen")}
StreamToVectorMaker    == {SizeOf("type"), Eval("int", "num_items"), Eval("int", "vlen")}
ComplexToFloatMaker    == {Eval("int", "vlen")}
FloatToComplexMaker    == {Eval("int", "vlen")}
SigSourceMaker         == {Eval("double", "samp_rate"), Eval("double", "freq"),
                           Eval("double", "amp"), Eval("double", "offset"), Waveform("waveform")}
ThrottleMaker          == {SizeOf("type"), Eval("double", "samples_per_second"),
                           Get("bool", "ignoretag")}
TagShareMaker          == {SizeOf("io_type"), SizeOf("share_type"), Eval("int", "vlen")}
TagDebugMaker          == {SizeOf("type"), GetText("name"), GetText("filter"),
                           Eval("int", "vlen"), Get("bool", "display")}

-----------------------------------------------------------------------------
(* digitizer blocks *)

AggregationMaker ==
    {Eval("int", "alg_id"), Eval("int", "decim"), Eval("int", "delay"),
     Vector("float", "fir_taps"), Eval("double", "low_freq"), Eval("double", "up_freq"),
     Eval("double", "tr_width"), Vector("double", "fb_user_taps"),
     Vector("double", "fw_user_taps"), Eval("double", "samp_rate")}

AmplitudeAndPhaseMaker ==
    {Eval("double", "samp_rate"), Eval("double", "delay"), Eval("int", "decim"),
     Eval("double", "gain"), Eval("double", "cutoff"), Eval("double", "tr_width"),
     Eval("int", "hil_win")}

FrequencyEstimatorMaker ==
    {Eval("double", "samp_rate"), Eval("int", "sig_window_size"),
     Eval("int", "freq_window_size"), Eval("int", "decim")}

ComplexToMagDegMaker == {Eval("int", "vec_size")}
DemuxMaker           == {Eval("double", "bit_to_keep")}
ScalingOffsetMaker   == {Eval("double", "scale"), Eval("double", "offset")}

SpectralPeaksMaker ==
    {Eval("double", "samp_rate"), Eval("int", "fft_win"), Eval("int", "med_n"),
     Eval("int", "avg_n"), Eval("int", "prox_n")}

CascadeSinkMaker ==
    {Eval("int", "alg_id"), Eval("int", "delay"), Vector("float", "fir_taps"),
     Eval("double", "low_freq"), Eval("double", "up_freq"), Eval("double", "tr_width"),
     Vector("double", "fb_user_taps"), Vector("double", "fw_user_taps"),
     Eval("double", "samp_rate"), Eval("float", "pm_buffer"),
     GetText("signal_name"), GetText("signal_unit"),
     Get("bool", "streaming_sinks_enabled"), Get("bool", "triggered_sinks_enabled"),
     Get("bool", "frequency_sinks_enabled"), Get("bool", "postmortem_sinks_enabled"),
     Get("bool", "interlocks_enabled"), Eval("int", "pre_trigger_samples_raw"),
     Eval("int", "post_trigger_samples_raw")}

ChiSquareFitMaker ==
    {Eval("int", "num_samps"), GetText("function"), Eval("double", "fun_u"),
     Eval("double", "fun_l"), Eval("int", "num_params"), GetText("par_names"),
     Vector("double", "param_init"), Vector("double", "param_err"),
     Vector("int", "param_fit"), Vector("double", "par_sp_l"),
     Vector("double", "par_sp_u"), Eval("double", "chi_sq")}

DecimateAndAdjustTimebaseMaker ==
    {Eval("int", "decimation"), Eval("double", "delay"), Eval("float", "samp_rate")}

EdgeTriggerMaker ==
    {Eval("float", "sampling"), Eval("float", "timeout"), Eval("float", "lo"),
     Eval("float", "hi"), Eval("float", "initial_state"), Get("bool", "send_udp"),
     GetText("host_list")}

EdgeTriggerReceiverMaker == {GetText("addr"), Eval("int", "port")}

ExtractorMaker ==
    {Eval("unsigned", "pre_trigger_window"), Eval("unsigned", "post_trigger_window")}

FreqSinkMaker ==
    {Eval("int", "acquisition_type"), GetText("signal_name"), Eval("float", "samp_rate"),
     Eval("int", "nbins"), Eval("int", "nmeasurements"), Eval("int", "nbuffers")}

FunctionMaker ==
    {Eval("int", "decimation"), Vector("float", "time"), Vector("float", "reference"),
     Vector("float", "min"), Vector("float", "max")}

InterlockGenerationMaker == {Eval("double", "max_max"), Eval("double", "max_min")}

PostMortemSinkMaker ==
    {GetText("signal_name"), GetText("signal_unit"), Eval("float", "samp_rate"),
     Get("int", "buffer_size")}

SignalAveragerMaker ==
    {Eval("int", "window_size"), Eval("int", "n_ports"), Eval("float", "samp_rate")}

StftAlgorithmsMaker ==
    {Eval("double", "samp_rate"), Eval("double", "delta_t"), Eval("int", "alg_id"),
     Eval("int", "win_size"), Enum("win_type"), Eval("double", "fq_low"),
     Eval("double", "fq_hi"), Eval("int", "nbins")}

StftGoertzlDynamicMaker ==
    {Eval("double", "samp_rate"), Eval("double", "delta_t"), Eval("int", "win_size"),
     Eval("int", "nbins"), Eval("int", "bound_decim")}

TimeDomainSinkMaker ==
    {GetText("signal_name"), GetText("signal_unit"), Eval("double", "samp_rate"),
     Eval("size_t", "output_package_size"), Eval("int", "pre_samples"),
     Eval("int", "post_samples"), Get("int", "acquisition_type")}

TimeRealignmentMaker ==
    {Eval("float", "user_delay"), Eval("float", "triggerstamp_matching_tolerance"),
     Eval("float", "max_buffer_time")}

WrReceiverMaker == {}

AmplitudePhaseAdjusterMaker ==
    {Eval("float", "ampl_cal"), Eval("float", "phi_usr"), Eval("float", "phi_fq_usr")}

-----------------------------------------------------------------------------
(* The picoscopes: which reads follow depends on the texts already read. *)

Reads(info, p, t) == param_value("string", info, p) = {t}

PicoscopeMaker ==
    {GetText("serial_number"), Get("bool", "trigger_once"), Eval("double", "samp_rate"),
     Get("int", "downsampling_mode"), Eval("int", "downsampling_factor"),
     OneOf("acquisition_mode", Words({"Streaming", "Rapid Block"}))}

AnalogChannel(info, c) ==
    {Get("bool", "enable_ai_" \o c)} \cup
    IF param_value("bool", info, "enable_ai_" \o c) = {Truth(TRUE)}
    THEN {Get("double", "range_ai_" \o c), Get("int", "coupling_ai_" \o c),
          Get("double", "offset_ai_" \o c)}
    ELSE {}

DigitalPort(d) == {Get("bool", "enable_di_" \o d), Get("double", "thresh_di_" \o d)}

Trigger(info, digital) ==
    {GetText("trigger_source")} \cup
    CASE Reads(info, "trigger_source", Word("None")) -> {}
      [] Reads(info, "trigger_source", Word("Digital")) /\ digital ->
             {Get("unsigned", "pin_number"), Get("int", "trigger_direction")}
      [] OTHER ->
             {Get("int", "trigger_direction"), Get("double", "trigger_threshold")}

Acquisition(info) ==
    IF Reads(info, "acquisition_mode", Word("Streaming"))
    THEN {Eval("int", "buff_size"), Eval("float", "poll_rate")}
    ELSE {Eval("int", "nr_waveforms"), Eval("int", "pre_samples"), Eval("int", "post_samples")}

Ps3000aMaker(info) ==
    Trigger(info, TRUE) \cup Acquisition(info)
        \cup DigitalPort("0") \cup DigitalPort("1")
        \cup UNION {AnalogChannel(info, c) : c \in {"a", "b", "c", "d"}}

Ps4000aMaker(info) ==
    Trigger(info, TRUE) \cup Acquisition(info)
        \cup UNION {AnalogChannel(info, c) : c \in {"a", "b", "c", "d", "e", "f", "g", "h"}}

Ps6000Maker(info) ==
    Trigger(info, FALSE) \cup Acquisition(info)
        \cup UNION {AnalogChannel(info, c) : c \in {"a", "b", "c", "d"}}

-----------------------------------------------------------------------------
(* The translating filter: its taps are read from the variable it names. *)

FreqXlatingFirFilterMaker ==
    {Eval("int", "decim"), GetText("taps"), Eval("double", "center_freq"),
     Eval("double", "samp_rate"),
     OneOf("type", Words({"ccc", "ccf", "fcc", "fcf", "scc", "scf"}))}

\* makeBandPassFilterFloat and makeBandPassFilterComplex
BandPassFilter(type) ==
    {OneOf("type", {Word(type)}), Eval("float", "gain"), Eval("float", "samp_rate"),
     Eval("float", "low_cutoff_freq"), Eval("float", "high_cutoff_freq"),
     Eval("float", "width"), Enum("win"), Eval("float", "beta")}

TapsNamed(info, variables) == {i \in DOMAIN variables : Reads(info, "taps", variables[i].id)}
TapsOf(info, variables)    == variables[Max(TapsNamed(info, variables))]

TapsType(info) ==
    IF \E t \in Words({"ccc", "fcc", "scc"}) : Reads(info, "type", t)
    THEN "taps_complex" ELSE "taps_real"

\* The taps of a filter: those of the last variable of the name, and none when
\* there is no such variable or it is no band pass filter.
FilterTaps(info, variables) ==
    LET taps == TapsOf(info, variables) IN
    IF TapsNamed(info, variables) # {} /\ taps.key = "variable_band_pass_filter_taps"
    THEN Arguments(BandPassFilter(TapsType(info)), taps, variables)
    ELSE {}

-----------------------------------------------------------------------------
(* BlockFactory *)

handlers_b ==
    [blocks_null_sink |-> NullSinkMaker,
     blocks_null_source |-> NullSourceMaker,
     blocks_uchar_to_float |-> UcharToFloatMaker,
     blocks_vector_to_stream |-> VectorToStreamMaker,
     blocks_stream_to_vector |-> StreamToVectorMaker,
     blocks_vector_to_streams |-> VectorToStreamsMaker,
     blocks_complex_to_mag |-> ComplexToMagMaker,
     blocks_complex_to_magphase |-> ComplexToMagPhaseMaker,
     analog_sig_source_x |-> SigSourceMaker,
     blocks_throttle |-> ThrottleMaker,
     blocks_tag_share |-> TagShareMaker,
     blocks_tag_debug |-> TagDebugMaker,
     blocks_complex_to_float |-> ComplexToFloatMaker,
     blocks_float_to_complex |-> FloatToComplexMaker,
     digitizers_block_aggregation |-> AggregationMaker,
     digitizers_block_amplitude_and_phase |-> AmplitudeAndPhaseMaker,
     digitizers_block_complex_to_mag_deg |-> ComplexToMagDegMaker,
     digitizers_block_demux |-> DemuxMaker,
     digitizers_block_scaling_offset |-> ScalingOffsetMaker,
     digitizers_block_spectral_peaks |-> SpectralPeaksMaker,
     digitizers_freq_estimator |-> FrequencyEstimatorMaker,
     digitizers_cascade_sink |-> CascadeSinkMaker,
     digitizers_chi_square_fit |-> ChiSquareFitMaker,
     digitizers_decimate_and_adjust_timebase |-> DecimateAndAdjustTimebaseMaker,
     digitizers_edge_trigger_ff |-> EdgeTriggerMaker,
     digitizers_edge_trigger_receiver_f |-> EdgeTriggerReceiverMaker,
     digitizers_demux_ff |-> ExtractorMaker,
     digitizers_freq_sink_f |-> FreqSinkMaker,
     digitizers_function_ff |-> FunctionMaker,
     digitizers_interlock_generation_ff |-> InterlockGenerationMaker,
     digitizers_picoscope_3000a |-> PicoscopeMaker,
     digitizers_picoscope_4000a |-> PicoscopeMaker,
     digitizers_picoscope_6000 |-> PicoscopeMaker,
     digitizers_post_mortem_sink |-> PostMortemSinkMaker,
     digitizers_signal_averager |-> SignalAveragerMaker,
     digitizers_stft_algorithms |-> StftAlgorithmsMaker,
     digitizers_stft_goertzl_dynamic |-> StftGoertzlDynamicMaker,
     digitizers_time_domain_sink |-> TimeDomainSinkMaker,
     digitizers_time_realignment_ff |-> TimeRealignmentMaker,
     digitizers_wr_receiver_f |-> WrReceiverMaker,
     digitizers_amplitude_phase_adjuster |-> AmplitudePhaseAdjusterMaker,
     freq_xlating_fir_filter_xxx |-> FreqXlatingFirFilterMaker]

supported_block_type(key) == key \in DOMAIN handlers_b

MakerReads(info) ==
    handlers_b[info.key] \cup
    CASE info.key = "digitizers_picoscope_3000a" -> Ps3000aMaker(info)
      [] info.key = "digitizers_picoscope_4000a" -> Ps4000aMaker(info)
      [] info.key = "digitizers_picoscope_6000"  -> Ps6000Maker(info)
      [] OTHER -> {}

\* What stands for the read of the taps among the arguments.
FilterRead == [how |-> "taps", type |-> "vector", param |-> "taps"]

make(info, variables) ==
    LET reads == MakerReads(info)  arguments == Arguments(reads, info, variables) IN
    IF info.key = "freq_xlating_fir_filter_xxx"
    THEN {[r \in reads \cup {FilterRead} |-> IF r = FilterRead THEN taps ELSE args[r]] :
             taps \in FilterTaps(info, variables), args \in arguments}
    ELSE arguments

\* An output buffer bound is applied when it is set and positive.
BufferBound(info, p, variables) ==
    IF ~is_param_set(info, p) THEN {<<>>}
    ELSE {IF v.half > 0 THEN p :> v ELSE <<>> : v \in eval_param_value("int", info, p, variables)}

Affinity(info) ==
    IF ~is_param_set(info, "affinity") THEN {<<>>}
    ELSE {"affinity" :> v : v \in param_value("int", info, "affinity")}

common_settings(info, variables) ==
    {a @@ lo @@ hi : a \in Affinity(info), lo \in BufferBound(info, "minoutbuf", variables),
                     hi \in BufferBound(info, "maxoutbuf", variables)}

make_block(info, variables) ==
    IF ~supported_block_type(info.key) THEN {}
    ELSE {[key |-> info.key, args |-> args, settings |-> settings] :
             args \in make(info, variables), settings \in common_settings(info, variables)}
=============================================================================
