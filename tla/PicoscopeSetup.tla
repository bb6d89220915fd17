--------------------------- MODULE PicoscopeSetup ---------------------------
(***************************************************************************)
(* The makers of the picoscopes (src/lib/flowgraph_impl.cc:664-988), whose *)
(* blocks are devices: BlockFactory says what they read, this module in    *)
(* which order a device is opened and configured meanwhile.                *)
(*                                                                         *)
(* A step reads some parameters and then calls some setters.  A parameter  *)
(* that cannot be read, or a setter that the device rejects, is an         *)
(* exception: it leaves make_block, and the shared pointer destroys the    *)
(* device, whatever was configured.  The device is external: it is there   *)
(* or not, and rejects some settings.  A setter is a tuple of its name and *)
(* the channel or port it is about; its other arguments are those of the   *)
(* block that is made in the end, since every parameter is read once.      *)
(***************************************************************************)
EXTENDS BlockFactory

VARIABLES
    info,       \* the block that make_block is called for
    variables,  \* the variables of its document
    answer,     \* None, a block or an exception
    present,    \* whether there is such a device
    rejected,   \* the setters it refuses
    phase,      \* where make is
    next,       \* the channel or port it comes to next
    device,     \* "none", "open" or "closed"
    auto_arm,   \* what the device was opened with
    setters     \* the setters called on the device, in order

call_  == <<info, variables, present, rejected>>
setup_ == <<phase, next, device, auto_arm, setters>>

setupVars == <<call_, answer, setup_>>

None    == [kind |-> "none"]
Thrown  == [kind |-> "exception"]
Made(b) == [kind |-> "block", block |-> b]

Channels ==
    IF info.key = "digitizers_picoscope_4000a"
    THEN <<"a", "b", "c", "d", "e", "f", "g", "h">> ELSE <<"a", "b", "c", "d">>

Ports == IF info.key = "digitizers_picoscope_3000a" THEN <<"0", "1">> ELSE <<>>

IsPicoscope(key) ==
    key \in {"digitizers_picoscope_3000a", "digitizers_picoscope_4000a", "digitizers_picoscope_6000"}

SetupBegins ==
    /\ answer = None
    /\ phase = IF IsPicoscope(info.key) THEN "common" ELSE "other"
    /\ next = 1
    /\ device = "none"
    /\ auto_arm = TRUE
    /\ setters = <<>>

-----------------------------------------------------------------------------
(* Reading and setting *)

Readable(reads)  == \A r \in reads : read_outcomes(r, info, variables) # {}
Accepted(called) == \A i \in DOMAIN called : called[i] \notin rejected

Mode(m)   == Reads(info, "acquisition_mode", Word(m))
Source(s) == Reads(info, "trigger_source", Word(s))

Fail ==
    /\ answer' = Thrown /\ phase' = "exception"
    /\ device' = IF device = "open" THEN "closed" ELSE device
    /\ UNCHANGED <<call_, next, auto_arm, setters>>

\* Some reads, and then the setters; make is at phase to afterwards, unless it throws.
Do(reads, called, to, n) ==
    \/ /\ Readable(reads) /\ Accepted(called)
       /\ setters' = setters \o called
       /\ phase' = to /\ next' = n
       /\ UNCHANGED <<call_, answer, device, auto_arm>>
    \/ ~(Readable(reads) /\ Accepted(called)) /\ Fail

-----------------------------------------------------------------------------
\* The mode may be any text yet.
CommonReads == {r \in PicoscopeMaker : r.param # "acquisition_mode"} \cup {GetText("acquisition_mode")}

ReadCommon == phase = "common" /\ Do(CommonReads, <<>>, "open", next)

\* (fault) A device that streams is armed as well.
Open_armed ==
    /\ phase = "open" /\ present
    /\ device' = "open" /\ auto_arm' = TRUE /\ phase' = "settings"
    /\ UNCHANGED <<call_, answer, next, setters>>

Open ==
    /\ phase = "open" /\ present
    /\ device' = "open"
    /\ auto_arm' = ~Mode("Streaming")
    /\ phase' = "settings"
    /\ UNCHANGED <<call_, answer, next, setters>>

NoDevice == phase = "open" /\ ~present /\ Fail

SetCommon ==
    /\ phase = "settings"
    /\ Do({}, <<<<"set_trigger_once">>, <<"set_samp_rate">>, <<"set_downsampling">>>>, "channels", 1)

AtChannel  == phase = "channels" /\ next <= Len(Channels)
channel    == Channels[next]
Enabled(c) == param_value("bool", info, "enable_ai_" \o c) = {Truth(TRUE)}

\* One channel after another; in the code the channels are written out.
SetChannel ==
    /\ AtChannel
    /\ Do(AnalogChannel(info, channel),
          IF Enabled(channel) THEN <<<<"set_aichan", channel>>>> ELSE <<>>, "channels", next + 1)

ChannelsDone == phase = "channels" /\ ~AtChannel /\ Do({}, <<>>, "ports", 1)

AtPort == phase = "ports" /\ next <= Len(Ports)
port   == Ports[next]

\* A port is set even if it is not enabled.
SetPort == AtPort /\ Do(DigitalPort(port), <<<<"set_diport", port>>>>, "ports", next + 1)

PortsDone == phase = "ports" /\ ~AtPort /\ Do({GetText("trigger_source")}, <<>>, "trigger", next)

NoTrigger == phase = "trigger" /\ Source("None") /\ Do({}, <<>>, "acquisition", next)

\* Only the makers of the 3000a and the 4000a know a digital trigger; for the 6000
\* "Digital" is the name of a channel like any other.
IsDigital == Source("Digital") /\ info.key # "digitizers_picoscope_6000"

DigitalTrigger ==
    /\ phase = "trigger" /\ IsDigital
    /\ Do({Get("unsigned", "pin_number"), Get("int", "trigger_direction")}, <<<<"set_di_trigger">>>>,
          "acquisition", next)

\* The source is not looked up among the channels, enabled or not.
ChannelTrigger ==
    /\ phase = "trigger" /\ ~Source("None") /\ ~IsDigital
    /\ Do({Get("int", "trigger_direction"), Get("double", "trigger_threshold")},
          <<<<"set_aichan_trigger">>>>, "acquisition", next)

SetStreaming ==
    /\ phase = "acquisition" /\ Mode("Streaming")
    /\ Do({Eval("int", "buff_size"), Eval("float", "poll_rate")},
          <<<<"set_buffer_size">>, <<"set_streaming">>>>, "returned", next)

\* (fault) The number of samples is not set.
SetRapidBlock_only ==
    /\ phase = "acquisition" /\ Mode("Rapid Block")
    /\ Do({Eval("int", "nr_waveforms")}, <<<<"set_rapid_block">>>>, "returned", next)

SetRapidBlock ==
    /\ phase = "acquisition" /\ Mode("Rapid Block")
    /\ Do({Eval("int", "nr_waveforms")}, <<<<"set_rapid_block">>>>, "samples", next)

SetSamples ==
    /\ phase = "samples"
    /\ Do({Eval("int", "pre_samples"), Eval("int", "post_samples")}, <<<<"set_samples">>>>, "returned", next)

UnknownMode == phase = "acquisition" /\ ~Mode("Streaming") /\ ~Mode("Rapid Block")

\* (fault) A mode that is not known is not refused.
RefuseMode_returns == UnknownMode /\ Do({}, <<>>, "returned", next)

\* Found out only here, when the device has been opened and configured.
RefuseMode == UnknownMode /\ Fail

\* make_block goes on with the device that the maker returned.
ReturnDevice ==
    /\ phase = "returned"
    /\ \E block \in make_block(info, variables) : answer' = Made(block)
    /\ phase' = "done"
    /\ UNCHANGED <<call_, next, device, auto_arm, setters>>

SettingsThrow == phase = "returned" /\ common_settings(info, variables) = {} /\ Fail

SetupNext ==
    \/ ReadCommon \/ Open \/ NoDevice \/ SetCommon
    \/ SetChannel \/ ChannelsDone \/ SetPort \/ PortsDone
    \/ NoTrigger \/ DigitalTrigger \/ ChannelTrigger
    \/ SetStreaming \/ SetRapidBlock \/ SetSamples \/ RefuseMode
    \/ ReturnDevice \/ SettingsThrow

-----------------------------------------------------------------------------
(* What a document asks for, whatever the order *)

ItemsOf(s) == {s[i] : i \in DOMAIN s}

Wanted ==
    {<<"set_trigger_once">>, <<"set_samp_rate">>, <<"set_downsampling">>}
        \cup {<<"set_aichan", c>> : c \in {d \in ItemsOf(Channels) : Enabled(d)}}
        \cup {<<"set_diport", p>> : p \in ItemsOf(Ports)}
        \cup (CASE Source("None") -> {}
                [] IsDigital -> {<<"set_di_trigger">>}
                [] OTHER -> {<<"set_aichan_trigger">>})
        \cup IF Mode("Streaming") THEN {<<"set_buffer_size">>, <<"set_streaming">>}
             ELSE {<<"set_rapid_block">>, <<"set_samples">>}

\* make fails: there is no such device, it rejects what is wanted, or something that is
\* read cannot be, in whatever order it is read.
Faulty == ~present \/ Wanted \cap rejected # {} \/ ~Readable(MakerReads(info))

-----------------------------------------------------------------------------
(* Properties *)

\* make_block throws for a fault that matters, and only then: a parameter of a channel
\* that is off, of another trigger or of another mode may be anything, and the order of
\* the reads and of what the device rejects decides nothing (flowgraph_impl.cc:664-988).
ThrowsForItsFaults ==
    /\ phase \in {"returned", "done"} => ~Faulty
    /\ phase = "exception" => Faulty \/ common_settings(info, variables) = {}

\* The device that is returned is open and configured as the document says, each
\* setting made once; a device that is not returned is not left open.
ReturnedAsWritten ==
    /\ phase \in {"returned", "done"} =>
          /\ device = "open"
          /\ ItemsOf(setters) = Wanted
          /\ \A i, j \in DOMAIN setters : setters[i] = setters[j] => i = j
    /\ answer = Thrown => device # "open"

\* The device is armed by itself exactly if it does not stream, and everything that
\* describes channels and triggers is set before the acquisition is: what arms the
\* device finds it configured (flowgraph_impl.cc:678-682, 750-764).  That it is the
\* setter of the acquisition that arms a device is assumed of the drivers.
ArmedWhenConfigured ==
    /\ ItemsOf(setters) \cap {<<"set_rapid_block">>, <<"set_streaming">>} # {} =>
          Wanted \ ItemsOf(setters) \subseteq {<<"set_samples">>}
    /\ <<"set_rapid_block">> \in ItemsOf(setters) => auto_arm
    /\ <<"set_streaming">> \in ItemsOf(setters) => ~auto_arm
=============================================================================
