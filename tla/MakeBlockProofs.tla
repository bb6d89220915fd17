-------------------------- MODULE MakeBlockProofs --------------------------
(* What is proved of a call of make_block: of the makers of the picoscopes, for every device,
   whatever its parameters read as and whatever it rejects; then of every maker, for every
   document and every list of variables. *)
EXTENDS MakeBlock, SequenceTheorems, WellFoundedInduction, TLAPS

-----------------------------------------------------------------------------
(* What is read and set, by the phase of make *)

CommonSetters == {<<"set_trigger_once">>, <<"set_samp_rate">>, <<"set_downsampling">>}

Analog(k)  == {<<"set_aichan", Channels[i]>> : i \in {j \in 1..k - 1 : Enabled(Channels[j])}}
Digital(k) == {<<"set_diport", Ports[i]>> : i \in 1..k - 1}

AllAnalog  == Analog(Len(Channels) + 1)
AllDigital == Digital(Len(Ports) + 1)

TriggerSetters ==
    CASE Source("None") -> {}
      [] IsDigital -> {<<"set_di_trigger">>}
      [] OTHER -> {<<"set_aichan_trigger">>}

AcquisitionSetters ==
    IF Mode("Streaming") THEN {<<"set_buffer_size">>, <<"set_streaming">>}
    ELSE {<<"set_rapid_block">>, <<"set_samples">>}

\* What has been set when make is at a phase.
SetBefore(at, k) ==
    CASE at = "channels" -> CommonSetters \cup Analog(k)
      [] at = "ports" -> CommonSetters \cup AllAnalog \cup Digital(k)
      [] at = "trigger" -> CommonSetters \cup AllAnalog \cup AllDigital
      [] at = "acquisition" -> CommonSetters \cup AllAnalog \cup AllDigital \cup TriggerSetters
      [] at = "samples" -> CommonSetters \cup AllAnalog \cup AllDigital \cup TriggerSetters
                               \cup {<<"set_rapid_block">>}
      [] at \in {"returned", "done"} -> Wanted
      [] OTHER -> {}

Opened == {"settings", "channels", "ports", "trigger", "acquisition", "samples", "returned", "done"}

-----------------------------------------------------------------------------
(* Lemmas about channels, ports and setters *)

LEMMA ChannelFacts ==
    /\ Len(Channels) \in Nat /\ DOMAIN Channels = 1..Len(Channels)
    /\ \A i, j \in 1..Len(Channels) : Channels[i] = Channels[j] => i = j
<1>1. CASE info.key = "digitizers_picoscope_4000a"
  <2>1. Channels = <<"a", "b", "c", "d", "e", "f", "g", "h">>
    BY <1>1 DEF Channels
  <2>2. Len(Channels) = 8 /\ DOMAIN Channels = 1..8
    BY <2>1
  <2>3. /\ Channels[1] = "a" /\ Channels[2] = "b" /\ Channels[3] = "c" /\ Channels[4] = "d"
        /\ Channels[5] = "e" /\ Channels[6] = "f" /\ Channels[7] = "g" /\ Channels[8] = "h"
    BY <2>1
  <2>4. \A i \in 1..8 : i \in {1, 2, 3, 4, 5, 6, 7, 8}
    OBVIOUS
  <2> QED BY <2>2, <2>3, <2>4
<1>2. CASE info.key # "digitizers_picoscope_4000a"
  <2>1. Channels = <<"a", "b", "c", "d">>
    BY <1>2 DEF Channels
  <2>2. Len(Channels) = 4 /\ DOMAIN Channels = 1..4
    BY <2>1
  <2>3. /\ Channels[1] = "a" /\ Channels[2] = "b" /\ Channels[3] = "c" /\ Channels[4] = "d"
    BY <2>1
  <2>4. \A i \in 1..4 : i \in {1, 2, 3, 4}
    OBVIOUS
  <2> QED BY <2>2, <2>3, <2>4
<1> QED BY <1>1, <1>2

LEMMA PortFacts ==
    /\ Len(Ports) \in Nat /\ DOMAIN Ports = 1..Len(Ports)
    /\ \A i, j \in 1..Len(Ports) : Ports[i] = Ports[j] => i = j
<1>1. CASE info.key = "digitizers_picoscope_3000a"
  <2>1. Ports = <<"0", "1">>
    BY <1>1 DEF Ports
  <2>2. Len(Ports) = 2 /\ DOMAIN Ports = 1..2 /\ Ports[1] = "0" /\ Ports[2] = "1"
    BY <2>1
  <2>3. \A i \in 1..2 : i \in {1, 2}
    OBVIOUS
  <2> QED BY <2>2, <2>3
<1>2. CASE info.key # "digitizers_picoscope_3000a"
  <2>1. Ports = <<>>
    BY <1>2 DEF Ports
  <2> QED BY <2>1
<1> QED BY <1>1, <1>2

\* The parts of what is wanted.
LEMMA WantedParts ==
    Wanted = CommonSetters \cup AllAnalog \cup AllDigital \cup TriggerSetters \cup AcquisitionSetters
<1>1. AllAnalog = {<<"set_aichan", c>> : c \in {d \in ItemsOf(Channels) : Enabled(d)}}
  BY ChannelFacts DEF AllAnalog, Analog, ItemsOf
<1>2. AllDigital = {<<"set_diport", p>> : p \in ItemsOf(Ports)}
  BY PortFacts DEF AllDigital, Digital, ItemsOf
<1> QED BY <1>1, <1>2 DEF Wanted, CommonSetters, TriggerSetters, AcquisitionSetters

\* A text reads as one word only.
LEMMA WordsDiffer ==
    /\ ~(Source("None") /\ IsDigital)
    /\ ~(Mode("Streaming") /\ Mode("Rapid Block"))
<1>1. Word("None") # Word("Digital") /\ Word("Streaming") # Word("Rapid Block")
  BY DEF Word
<1> QED BY <1>1 DEF Source, IsDigital, Mode, Reads

LEMMA SetterNames ==
    /\ \A s \in CommonSetters : s[1] \in {"set_trigger_once", "set_samp_rate", "set_downsampling"}
    /\ \A k : \A s \in Analog(k) : s[1] = "set_aichan"
    /\ \A k : \A s \in Digital(k) : s[1] = "set_diport"
    /\ \A s \in TriggerSetters : s[1] \in {"set_di_trigger", "set_aichan_trigger"}
    /\ \A s \in AcquisitionSetters :
          s[1] \in {"set_buffer_size", "set_streaming", "set_rapid_block", "set_samples"}
<1>1. \A s \in CommonSetters : s[1] \in {"set_trigger_once", "set_samp_rate", "set_downsampling"}
  BY DEF CommonSetters
<1>2. \A k : \A s \in Analog(k) : s[1] = "set_aichan"
  BY DEF Analog
<1>3. \A k : \A s \in Digital(k) : s[1] = "set_diport"
  BY DEF Digital
<1>4. \A s \in TriggerSetters : s[1] \in {"set_di_trigger", "set_aichan_trigger"}
  BY DEF TriggerSetters
<1>5. \A s \in AcquisitionSetters :
          s[1] \in {"set_buffer_size", "set_streaming", "set_rapid_block", "set_samples"}
  BY DEF AcquisitionSetters
<1> QED BY <1>1, <1>2, <1>3, <1>4, <1>5

-----------------------------------------------------------------------------
(* Sequences without repetition *)

Distinct(s) == \A i, j \in DOMAIN s : s[i] = s[j] => i = j

LEMMA ItemsOfBoth ==
    ASSUME NEW S, NEW s \in Seq(S), NEW t \in Seq(S)
    PROVE  ItemsOf(s \o t) = ItemsOf(s) \cup ItemsOf(t)
<1> DEFINE u == s \o t
<1>1. /\ u \in Seq(S) /\ Len(u) = Len(s) + Len(t)
      /\ \A i \in 1..Len(s) + Len(t) : u[i] = IF i <= Len(s) THEN s[i] ELSE t[i - Len(s)]
  BY ConcatProperties
<1>2. /\ DOMAIN u = 1..Len(u) /\ DOMAIN s = 1..Len(s) /\ DOMAIN t = 1..Len(t)
      /\ Len(s) \in Nat /\ Len(t) \in Nat
  BY <1>1, LenProperties
<1> HIDE DEF u
<1>3. \A i \in DOMAIN s : i \in DOMAIN u /\ u[i] = s[i]
  BY <1>1, <1>2
<1>4. \A i \in DOMAIN t : i + Len(s) \in DOMAIN u /\ u[i + Len(s)] = t[i]
  BY <1>1, <1>2
<1>5. \A i \in DOMAIN u : i \in DOMAIN s \/ i - Len(s) \in DOMAIN t
  BY <1>1, <1>2
<1>6. ItemsOf(u) = ItemsOf(s) \cup ItemsOf(t)
  BY <1>1, <1>2, <1>3, <1>4, <1>5 DEF ItemsOf
<1> QED BY <1>6 DEF u

LEMMA ConcatFacts ==
    ASSUME NEW S, NEW s \in Seq(S), NEW t \in Seq(S), Distinct(s), Distinct(t),
           ItemsOf(s) \cap ItemsOf(t) = {}
    PROVE  /\ s \o t \in Seq(S) /\ Distinct(s \o t)
           /\ ItemsOf(s \o t) = ItemsOf(s) \cup ItemsOf(t)
<1> DEFINE u == s \o t
<1>1. /\ u \in Seq(S) /\ Len(u) = Len(s) + Len(t)
      /\ \A i \in 1..Len(s) + Len(t) : u[i] = IF i <= Len(s) THEN s[i] ELSE t[i - Len(s)]
  BY ConcatProperties
<1>2. /\ DOMAIN u = 1..Len(u) /\ DOMAIN s = 1..Len(s) /\ DOMAIN t = 1..Len(t)
      /\ Len(s) \in Nat /\ Len(t) \in Nat
  BY <1>1, LenProperties
<1> HIDE DEF u
<1>3. \A i \in DOMAIN s : i \in DOMAIN u /\ u[i] = s[i]
  BY <1>1, <1>2
<1>5. \A i \in DOMAIN u : i \in DOMAIN s \/ i - Len(s) \in DOMAIN t
  BY <1>1, <1>2
<1>6. ItemsOf(u) = ItemsOf(s) \cup ItemsOf(t)
  BY ItemsOfBoth DEF u
<1>7. \A i \in DOMAIN u \ DOMAIN s : u[i] \in ItemsOf(t)
  BY <1>1, <1>2, <1>5 DEF ItemsOf
<1>8. Distinct(u)
  <2> SUFFICES ASSUME NEW i \in DOMAIN u, NEW j \in DOMAIN u, u[i] = u[j]
               PROVE  i = j
    BY DEF Distinct
  <2>1. CASE i \in DOMAIN s /\ j \in DOMAIN s
    BY <1>3, <2>1 DEF Distinct
  <2>2. CASE i \notin DOMAIN s /\ j \notin DOMAIN s
    BY <1>1, <1>2, <1>5, <2>2 DEF Distinct
  <2>3. CASE i \in DOMAIN s /\ j \notin DOMAIN s
    <3>1. u[i] \in ItemsOf(s)
      BY <1>3, <2>3 DEF ItemsOf
    <3>2. u[j] \in ItemsOf(t)
      BY <1>7, <2>3
    <3> QED BY <3>1, <3>2
  <2>4. CASE i \notin DOMAIN s /\ j \in DOMAIN s
    <3>1. u[j] \in ItemsOf(s)
      BY <1>3, <2>4 DEF ItemsOf
    <3>2. u[i] \in ItemsOf(t)
      BY <1>7, <2>4
    <3> QED BY <3>1, <3>2
  <2> QED BY <2>1, <2>2, <2>3, <2>4
<1> QED BY <1>1, <1>6, <1>8 DEF u

LEMMA EmptyFacts == \A S : <<>> \in Seq(S) /\ Distinct(<<>>) /\ ItemsOf(<<>>) = {}
BY DEF Distinct, ItemsOf

LEMMA SingleFacts ==
    ASSUME NEW S, NEW x \in S
    PROVE  <<x>> \in Seq(S) /\ Distinct(<<x>>) /\ ItemsOf(<<x>>) = {x}
BY DEF Distinct, ItemsOf

LEMMA PairFacts ==
    ASSUME NEW S, NEW x \in S, NEW y \in S, x # y
    PROVE  <<x, y>> \in Seq(S) /\ Distinct(<<x, y>>) /\ ItemsOf(<<x, y>>) = {x, y}
<1>1. DOMAIN <<x, y>> = 1..2 /\ <<x, y>>[1] = x /\ <<x, y>>[2] = y /\ <<x, y>> \in Seq(S)
  OBVIOUS
<1>2. 1..2 = {1, 2}
  OBVIOUS
<1> QED BY <1>1, <1>2 DEF Distinct, ItemsOf

LEMMA TripleFacts ==
    ASSUME NEW S, NEW x \in S, NEW y \in S, NEW z \in S, x # y, x # z, y # z
    PROVE  <<x, y, z>> \in Seq(S) /\ Distinct(<<x, y, z>>) /\ ItemsOf(<<x, y, z>>) = {x, y, z}
<1>1. /\ DOMAIN <<x, y, z>> = 1..3 /\ <<x, y, z>> \in Seq(S)
      /\ <<x, y, z>>[1] = x /\ <<x, y, z>>[2] = y /\ <<x, y, z>>[3] = z
  OBVIOUS
<1>2. 1..3 = {1, 2, 3}
  OBVIOUS
<1> QED BY <1>1, <1>2 DEF Distinct, ItemsOf

-----------------------------------------------------------------------------
(* The inductive invariant of what is set *)

Phases ==
    {"other", "common", "open", "settings", "channels", "ports", "trigger", "acquisition",
     "samples", "returned", "done", "exception"}

\* Where make is.
PlaceInv ==
    /\ phase \in Phases
    /\ next \in Nat \ {0}
    /\ phase = "channels" => next <= Len(Channels) + 1
    /\ phase = "ports" => next <= Len(Ports) + 1
    /\ phase = "samples" => Mode("Rapid Block")
    /\ answer = Thrown => phase \in {"exception", "other"}

DeviceInv ==
    /\ phase \in Opened => device = "open" /\ auto_arm = ~Mode("Streaming")
    /\ phase \in {"exception", "other"} => device # "open"

SettersInv ==
    /\ setters \in Seq(Wanted) /\ Distinct(setters)
    /\ phase # "exception" => ItemsOf(setters) = SetBefore(phase, next)

SetupInv == PlaceInv /\ DeviceInv /\ SettersInv /\ ArmedWhenConfigured

-----------------------------------------------------------------------------
(* The parameters of the call stay as they are *)

LEMMA ParametersStay ==
    ASSUME UNCHANGED call_
    PROVE  /\ Channels' = Channels /\ Ports' = Ports /\ IsDigital' = IsDigital
           /\ \A c : Enabled(c)' = Enabled(c)
           /\ \A t : Source(t)' = Source(t) /\ Mode(t)' = Mode(t)
BY DEF call_, Channels, Ports, IsDigital, Enabled, Source, Mode

LEMMA WantedStays ==
    ASSUME UNCHANGED call_
    PROVE  /\ \A at, k : SetBefore(at, k)' = SetBefore(at, k)
           /\ Wanted' = Wanted
<1>1. \A k : Analog(k)' = Analog(k)
  BY ParametersStay DEF Analog
<1>2. \A k : Digital(k)' = Digital(k)
  BY ParametersStay DEF Digital
<1>3. AllAnalog' = AllAnalog /\ AllDigital' = AllDigital
  BY ParametersStay, <1>1, <1>2 DEF AllAnalog, AllDigital
<1>4. TriggerSetters' = TriggerSetters
  BY ParametersStay DEF TriggerSetters
<1>5. AcquisitionSetters' = AcquisitionSetters
  BY ParametersStay DEF AcquisitionSetters
<1>6. Wanted' = Wanted
  <2>1. (Wanted = CommonSetters \cup AllAnalog \cup AllDigital \cup TriggerSetters \cup AcquisitionSetters)'
    BY WantedParts, PTL
  <2> QED BY <2>1, WantedParts, <1>3, <1>4, <1>5 DEF CommonSetters
<1>7. \A at, k : SetBefore(at, k)' = SetBefore(at, k)
  BY <1>1, <1>2, <1>3, <1>4, <1>6 DEF SetBefore, CommonSetters
<1> QED BY <1>6, <1>7

-----------------------------------------------------------------------------
(* What is set, phase by phase *)

LEMMA SetBeforeAt ==
    \A k : /\ \A at \in {"other", "common", "open", "settings"} : SetBefore(at, k) = {}
           /\ SetBefore("channels", k) = CommonSetters \cup Analog(k)
           /\ SetBefore("ports", k) = CommonSetters \cup AllAnalog \cup Digital(k)
           /\ SetBefore("trigger", k) = CommonSetters \cup AllAnalog \cup AllDigital
           /\ SetBefore("acquisition", k) =
                 CommonSetters \cup AllAnalog \cup AllDigital \cup TriggerSetters
           /\ SetBefore("samples", k) =
                 CommonSetters \cup AllAnalog \cup AllDigital \cup TriggerSetters
                     \cup {<<"set_rapid_block">>}
           /\ SetBefore("returned", k) = Wanted /\ SetBefore("done", k) = Wanted
BY DEF SetBefore

LEMMA AnalogGrows ==
    /\ Analog(1) = {} /\ Digital(1) = {}
    /\ \A k \in Nat \ {0} :
          /\ Analog(k + 1) = Analog(k) \cup (IF Enabled(Channels[k]) THEN {<<"set_aichan", Channels[k]>>} ELSE {})
          /\ Digital(k + 1) = Digital(k) \cup {<<"set_diport", Ports[k]>>}
<1>1. \A k \in Nat \ {0} : 1..k + 1 - 1 = (1..k - 1) \cup {k}
  OBVIOUS
<1>2. \A k \in Nat \ {0} : Digital(k + 1) = Digital(k) \cup {<<"set_diport", Ports[k]>>}
  BY <1>1 DEF Digital
<1>3. \A k \in Nat \ {0} :
          Analog(k + 1) = Analog(k) \cup (IF Enabled(Channels[k]) THEN {<<"set_aichan", Channels[k]>>} ELSE {})
  BY <1>1 DEF Analog
<1>4. Analog(1) = {} /\ Digital(1) = {}
  BY DEF Analog, Digital
<1> QED BY <1>2, <1>3, <1>4

\* A channel that is off, or a port, has not been set yet.
LEMMA NotYetSet ==
    /\ \A k \in 1..Len(Channels) : <<"set_aichan", Channels[k]>> \notin Analog(k)
    /\ \A k \in 1..Len(Ports) : <<"set_diport", Ports[k]>> \notin Digital(k)
<1>1. ASSUME NEW k \in 1..Len(Channels), <<"set_aichan", Channels[k]>> \in Analog(k) PROVE FALSE
  <2>1. PICK i \in 1..k - 1 : <<"set_aichan", Channels[k]>> = <<"set_aichan", Channels[i]>>
    BY <1>1 DEF Analog
  <2>2. Channels[k] = Channels[i]
    BY <2>1
  <2> QED BY <2>2, ChannelFacts
<1>2. ASSUME NEW k \in 1..Len(Ports), <<"set_diport", Ports[k]>> \in Digital(k) PROVE FALSE
  <2>1. PICK i \in 1..k - 1 : <<"set_diport", Ports[k]>> = <<"set_diport", Ports[i]>>
    BY <1>2 DEF Digital
  <2>2. Ports[k] = Ports[i]
    BY <2>1
  <2> QED BY <2>2, PortFacts
<1> QED BY <1>1, <1>2

LEMMA AllSet ==
    /\ AllAnalog \subseteq Wanted /\ AllDigital \subseteq Wanted
    /\ CommonSetters \subseteq Wanted /\ TriggerSetters \subseteq Wanted
    /\ AcquisitionSetters \subseteq Wanted
    /\ \A k \in 1..Len(Channels) : Enabled(Channels[k]) => <<"set_aichan", Channels[k]>> \in AllAnalog
    /\ \A k \in 1..Len(Ports) : <<"set_diport", Ports[k]>> \in AllDigital
<1>1. \A k \in 1..Len(Channels) : Enabled(Channels[k]) => <<"set_aichan", Channels[k]>> \in AllAnalog
  BY ChannelFacts DEF AllAnalog, Analog
<1>2. \A k \in 1..Len(Ports) : <<"set_diport", Ports[k]>> \in AllDigital
  BY PortFacts DEF AllDigital, Digital
<1> QED BY <1>1, <1>2, WantedParts

\* The mode is what is set last, and the device arms itself only if it does not stream.
LEMMA ArmedByPhase ==
    ASSUME PlaceInv, DeviceInv, SettersInv, phase # "exception"
    PROVE  ArmedWhenConfigured
<1> DEFINE rapid == <<"set_rapid_block">>
           streaming == <<"set_streaming">>
<1>1. rapid[1] = "set_rapid_block" /\ streaming[1] = "set_streaming"
  OBVIOUS
<1> HIDE DEF rapid, streaming
<1>2. CASE phase \in {"other", "common", "open", "settings", "channels", "ports", "trigger", "acquisition"}
  <2>1. rapid \notin ItemsOf(setters) /\ streaming \notin ItemsOf(setters)
    BY <1>1, <1>2, SetBeforeAt, SetterNames DEF SettersInv, AllAnalog, AllDigital
  <2> QED BY <2>1 DEF ArmedWhenConfigured, rapid, streaming
<1>3. CASE phase = "samples"
  <2>1. Mode("Rapid Block") /\ ~Mode("Streaming")
    BY <1>3, WordsDiffer DEF PlaceInv
  <2>2. auto_arm = TRUE
    BY <1>3, <2>1 DEF DeviceInv, Opened
  <2>3. streaming \notin ItemsOf(setters)
    BY <1>1, <1>3, SetBeforeAt, SetterNames DEF SettersInv, AllAnalog, AllDigital, rapid
  <2>4. Wanted \ ItemsOf(setters) \subseteq {<<"set_samples">>}
    <3>1. AcquisitionSetters = {<<"set_rapid_block">>, <<"set_samples">>}
      BY <2>1 DEF AcquisitionSetters
    <3>2. ItemsOf(setters) = SetBefore("samples", next)
      BY <1>3 DEF SettersInv
    <3> QED BY <3>1, <3>2, SetBeforeAt, WantedParts
  <2> QED BY <2>2, <2>3, <2>4 DEF ArmedWhenConfigured, streaming
<1>4. CASE phase \in {"returned", "done"}
  <2>1. ItemsOf(setters) = Wanted
    BY <1>4, SetBeforeAt DEF SettersInv
  <2>2. rapid \in Wanted => ~Mode("Streaming")
    BY <1>1, WantedParts, SetterNames DEF AllAnalog, AllDigital, AcquisitionSetters
  <2>3. streaming \in Wanted => Mode("Streaming")
    BY <1>1, WantedParts, SetterNames DEF AllAnalog, AllDigital, AcquisitionSetters
  <2>4. auto_arm = ~Mode("Streaming")
    BY <1>4 DEF DeviceInv, Opened
  <2> QED BY <2>1, <2>2, <2>3, <2>4 DEF ArmedWhenConfigured, rapid, streaming
<1> QED BY <1>2, <1>3, <1>4 DEF PlaceInv, Phases

-----------------------------------------------------------------------------
(* Steps *)

LEMMA FailKeeps ==
    ASSUME SetupInv, Fail
    PROVE  SetupInv'
<1>1. /\ UNCHANGED <<call_, next, setters, auto_arm>> /\ phase' = "exception"
      /\ device' # "open"
  BY DEF Fail
<1>2. Wanted' = Wanted
  BY <1>1, WantedStays
<1>3. PlaceInv'
  BY <1>1 DEF SetupInv, PlaceInv, Phases
<1>4. DeviceInv'
  BY <1>1 DEF DeviceInv, Opened
<1>5. SettersInv'
  BY <1>1, <1>2 DEF SetupInv, SettersInv, Distinct
<1>6. ArmedWhenConfigured'
  BY <1>1, <1>2 DEF SetupInv, ArmedWhenConfigured, ItemsOf
<1> QED BY <1>3, <1>4, <1>5, <1>6 DEF SetupInv

\* Some setters are called, and make goes on where they belong to what has been set.
LEMMA DoKeeps ==
    ASSUME SetupInv, NEW reads, NEW called, NEW to, NEW n, Do(reads, called, to, n),
           phase # "exception", phase # "done", phase # "other",
           to \in Opened \/ (to = "open" /\ phase = "common"), to # "done",
           to \in Opened => phase \in Opened,
           n \in Nat \ {0}, to = "channels" => n <= Len(Channels) + 1,
           to = "ports" => n <= Len(Ports) + 1, to = "samples" => Mode("Rapid Block"),
           called \in Seq(Wanted), Distinct(called), ItemsOf(called) \cap SetBefore(phase, next) = {},
           SetBefore(to, n) = SetBefore(phase, next) \cup ItemsOf(called)
    PROVE  SetupInv'
<1>1. CASE Fail
  BY <1>1, FailKeeps
<1>2. CASE /\ setters' = setters \o called /\ phase' = to /\ next' = n
           /\ UNCHANGED <<call_, answer, device, auto_arm>>
  <2>1. /\ UNCHANGED call_ /\ UNCHANGED answer /\ UNCHANGED device /\ UNCHANGED auto_arm
        /\ phase' = to /\ next' = n /\ phase' # "exception"
    BY <1>2 DEF Opened
  <2>2. /\ Channels' = Channels /\ Ports' = Ports /\ \A m : Mode(m)' = Mode(m)
        /\ Wanted' = Wanted /\ SetBefore(phase, next)' = SetBefore(to, n)
    <3>1. \A at, k : SetBefore(at, k)' = SetBefore(at, k)
      BY <2>1, WantedStays
    <3>2. SetBefore(phase, next)' = SetBefore(phase', next')
      BY <2>1, <3>1
    <3> QED BY <2>1, <3>1, <3>2, ParametersStay, WantedStays
  <2>3. PlaceInv'
    BY <2>1, <2>2 DEF SetupInv, PlaceInv, Phases, Opened
  <2>4. DeviceInv'
    BY <2>1, <2>2 DEF SetupInv, DeviceInv, Opened
  <2>5. SettersInv'
    <3>1. /\ setters \in Seq(Wanted) /\ Distinct(setters)
          /\ ItemsOf(setters) = SetBefore(phase, next)
      BY DEF SetupInv, SettersInv
    <3>0. ItemsOf(setters) \cap ItemsOf(called) = {}
      BY <3>1
    <3>2. /\ setters \o called \in Seq(Wanted) /\ Distinct(setters \o called)
          /\ ItemsOf(setters \o called) = ItemsOf(setters) \cup ItemsOf(called)
      BY <3>0, <3>1, ConcatFacts, Zenon
    <3>3. setters' = setters \o called
      BY <1>2
    <3> QED BY <2>2, <3>1, <3>2, <3>3 DEF SettersInv, Distinct, ItemsOf
  <2>6. ArmedWhenConfigured'
    <3>1. (PlaceInv /\ DeviceInv /\ SettersInv /\ phase # "exception" => ArmedWhenConfigured)'
      BY ArmedByPhase, PTL
    <3> QED BY <2>1, <2>3, <2>4, <2>5, <3>1
  <2> QED BY <2>3, <2>4, <2>5, <2>6 DEF SetupInv
<1> QED BY <1>1, <1>2 DEF Do

LEMMA CommonSteps ==
    ASSUME SetupInv, ReadCommon \/ NoDevice \/ SetCommon
    PROVE  SetupInv'
<1>1. CASE ReadCommon
  <2>1. phase = "common" /\ Do(CommonReads, <<>>, "open", next) /\ next \in Nat \ {0}
    BY <1>1 DEF ReadCommon, SetupInv, PlaceInv
  <2>2. SetBefore("open", next) = SetBefore(phase, next) \cup ItemsOf(<<>>)
    BY <2>1, SetBeforeAt, EmptyFacts
  <2> QED BY <2>1, <2>2, EmptyFacts, DoKeeps DEF Opened
<1>2. CASE NoDevice
  BY <1>2, FailKeeps DEF NoDevice
<1>3. CASE SetCommon
  <2> DEFINE called == <<<<"set_trigger_once">>, <<"set_samp_rate">>, <<"set_downsampling">>>>
  <2>1. phase = "settings" /\ Do({}, called, "channels", 1)
    BY <1>3 DEF SetCommon
  <2>2. /\ <<"set_trigger_once">> # <<"set_samp_rate">> /\ <<"set_samp_rate">> # <<"set_downsampling">>
        /\ <<"set_trigger_once">> # <<"set_downsampling">>
    OBVIOUS
  <2>3. called \in Seq(Wanted) /\ Distinct(called) /\ ItemsOf(called) = CommonSetters
    BY <2>2, AllSet, TripleFacts DEF CommonSetters
  <2> HIDE DEF called
  <2>4. SetBefore(phase, next) = {} /\ SetBefore("channels", 1) = CommonSetters
    <3>1. SetBefore("settings", next) = {} /\ SetBefore("channels", 1) = CommonSetters \cup Analog(1)
      BY SetBeforeAt
    <3>2. Analog(1) = {}
      BY AnalogGrows
    <3> QED BY <2>1, <3>1, <3>2, Zenon
  <2>5. Len(Channels) \in Nat /\ 1 <= Len(Channels) + 1 /\ 1 \in Nat \ {0}
    BY ChannelFacts
  <2> QED BY <2>1, <2>3, <2>4, <2>5, DoKeeps DEF Opened
<1> QED BY <1>1, <1>2, <1>3

LEMMA OpenKeeps ==
    ASSUME SetupInv, Open
    PROVE  SetupInv'
<1>1. /\ phase = "open" /\ phase' = "settings" /\ device' = "open" /\ auto_arm' = ~Mode("Streaming")
      /\ UNCHANGED call_ /\ UNCHANGED answer /\ UNCHANGED next /\ UNCHANGED setters
  BY DEF Open
<1>2. /\ Channels' = Channels /\ Ports' = Ports /\ \A m : Mode(m)' = Mode(m)
      /\ Wanted' = Wanted /\ SetBefore("settings", next)' = SetBefore("settings", next)
  BY <1>1, ParametersStay, WantedStays
<1>3. PlaceInv'
  BY <1>1 DEF SetupInv, PlaceInv, Phases
<1>4. DeviceInv'
  BY <1>1, <1>2 DEF DeviceInv
<1>5. SettersInv'
  <2>1. ItemsOf(setters) = {}
    BY <1>1, SetBeforeAt DEF SetupInv, SettersInv
  <2>2. SetBefore(phase, next)' = {}
    BY <1>1, <1>2, SetBeforeAt
  <2> QED BY <1>1, <1>2, <2>1, <2>2 DEF SetupInv, SettersInv, Distinct, ItemsOf
<1>6. (PlaceInv /\ DeviceInv /\ SettersInv /\ phase # "exception" => ArmedWhenConfigured)'
  BY ArmedByPhase, PTL
<1> QED BY <1>1, <1>3, <1>4, <1>5, <1>6 DEF SetupInv

LEMMA ChannelSteps ==
    ASSUME SetupInv, SetChannel \/ ChannelsDone
    PROVE  SetupInv'
<1>0. next \in Nat \ {0}
  BY DEF SetupInv, PlaceInv
<1>1. CASE SetChannel
  <2> DEFINE x == <<"set_aichan", channel>>
             called == IF Enabled(channel) THEN <<x>> ELSE <<>>
  <2>1. phase = "channels" /\ Do(AnalogChannel(info, channel), called, "channels", next + 1)
    BY <1>1 DEF SetChannel, AtChannel
  <2>2. next \in 1..Len(Channels) /\ channel = Channels[next] /\ Len(Channels) \in Nat
    BY <1>0, <1>1, ChannelFacts DEF SetChannel, AtChannel, channel
  <2>3. x \notin CommonSetters /\ x \notin Analog(next)
    BY <2>2, NotYetSet, SetterNames
  <2>4. Enabled(channel) => x \in Wanted
    BY <2>2, AllSet
  <2> HIDE DEF x
  <2>5. /\ called \in Seq(Wanted) /\ Distinct(called)
        /\ ItemsOf(called) = IF Enabled(channel) THEN {x} ELSE {}
    <3>1. CASE Enabled(channel)
      BY <2>4, <3>1, SingleFacts
    <3>2. CASE ~Enabled(channel)
      BY <3>2, EmptyFacts
    <3> QED BY <3>1, <3>2
  <2> HIDE DEF called
  <2>6. SetBefore(phase, next) = CommonSetters \cup Analog(next)
    BY <2>1, SetBeforeAt
  <2>7. SetBefore("channels", next + 1) = CommonSetters \cup Analog(next + 1)
    BY SetBeforeAt
  <2>8. Analog(next + 1) = Analog(next) \cup ItemsOf(called)
    BY <1>0, <2>2, <2>5, AnalogGrows DEF x
  <2>9. next + 1 \in Nat \ {0} /\ next + 1 <= Len(Channels) + 1
    BY <2>2
  <2>10. ItemsOf(called) \cap SetBefore(phase, next) = {}
    BY <2>3, <2>5, <2>6
  <2>11. SetBefore("channels", next + 1) = SetBefore(phase, next) \cup ItemsOf(called)
    BY <2>6, <2>7, <2>8
  <2>12. /\ phase \in Opened /\ "channels" \in Opened /\ "channels" # "done" /\ "channels" # "ports"
         /\ "channels" # "samples" /\ phase # "exception" /\ phase # "done" /\ phase # "other"
    BY <2>1 DEF Opened
  <2> QED BY <2>1, <2>5, <2>9, <2>10, <2>11, <2>12, DoKeeps, Zenon
<1>2. CASE ChannelsDone
  <2>1. phase = "channels" /\ Do({}, <<>>, "ports", 1)
    BY <1>2 DEF ChannelsDone
  <2>2. next = Len(Channels) + 1
    BY <1>0, <1>2, ChannelFacts DEF ChannelsDone, AtChannel, SetupInv, PlaceInv
  <2>3. SetBefore("ports", 1) = SetBefore(phase, next) \cup ItemsOf(<<>>)
    BY <2>1, <2>2, SetBeforeAt, AnalogGrows, EmptyFacts DEF AllAnalog
  <2>4. 1 \in Nat \ {0} /\ 1 <= Len(Ports) + 1
    BY PortFacts
  <2> QED BY <2>1, <2>3, <2>4, EmptyFacts, DoKeeps DEF Opened
<1> QED BY <1>1, <1>2

LEMMA PortSteps ==
    ASSUME SetupInv, SetPort \/ PortsDone
    PROVE  SetupInv'
<1>0. next \in Nat \ {0}
  BY DEF SetupInv, PlaceInv
<1>1. CASE SetPort
  <2> DEFINE x == <<"set_diport", port>>
             called == <<x>>
  <2>1. phase = "ports" /\ Do(DigitalPort(port), called, "ports", next + 1)
    BY <1>1 DEF SetPort, AtPort
  <2>2. next \in 1..Len(Ports) /\ port = Ports[next] /\ Len(Ports) \in Nat
    BY <1>0, <1>1, PortFacts DEF SetPort, AtPort, port
  <2>3. x \notin CommonSetters /\ x \notin AllAnalog /\ x \notin Digital(next)
    BY <2>2, NotYetSet, SetterNames DEF AllAnalog
  <2>4. x \in Wanted
    BY <2>2, AllSet
  <2>5. called \in Seq(Wanted) /\ Distinct(called) /\ ItemsOf(called) = {x}
    <3> HIDE DEF x
    <3> QED BY <2>4, SingleFacts
  <2>6. Digital(next + 1) = Digital(next) \cup {x}
    BY <1>0, <2>2, AnalogGrows
  <2> HIDE DEF x, called
  <2>7. SetBefore(phase, next) = CommonSetters \cup AllAnalog \cup Digital(next)
    BY <2>1, SetBeforeAt
  <2>8. SetBefore("ports", next + 1) = CommonSetters \cup AllAnalog \cup Digital(next + 1)
    BY SetBeforeAt
  <2>9. next + 1 \in Nat \ {0} /\ next + 1 <= Len(Ports) + 1
    BY <2>2
  <2>10. /\ ItemsOf(called) \cap SetBefore(phase, next) = {}
         /\ SetBefore("ports", next + 1) = SetBefore(phase, next) \cup ItemsOf(called)
    BY <2>3, <2>5, <2>6, <2>7, <2>8
  <2>11. /\ phase \in Opened /\ "ports" \in Opened /\ "ports" # "done" /\ "ports" # "channels"
         /\ "ports" # "samples" /\ phase # "exception" /\ phase # "done" /\ phase # "other"
    BY <2>1 DEF Opened
  <2> QED BY <2>1, <2>5, <2>9, <2>10, <2>11, DoKeeps, Zenon
<1>2. CASE PortsDone
  <2>1. phase = "ports" /\ Do({GetText("trigger_source")}, <<>>, "trigger", next)
    BY <1>2 DEF PortsDone
  <2>2. next = Len(Ports) + 1
    BY <1>0, <1>2, PortFacts DEF PortsDone, AtPort, SetupInv, PlaceInv
  <2>3. SetBefore("trigger", next) = SetBefore(phase, next) \cup ItemsOf(<<>>)
    BY <2>1, <2>2, SetBeforeAt, EmptyFacts DEF AllDigital
  <2>4. ItemsOf(<<>>) \cap SetBefore(phase, next) = {}
    BY EmptyFacts
  <2>5. /\ phase \in Opened /\ "trigger" \in Opened /\ "trigger" # "done" /\ "trigger" # "channels"
        /\ "trigger" # "ports" /\ "trigger" # "samples"
        /\ phase # "exception" /\ phase # "done" /\ phase # "other"
    BY <2>1 DEF Opened
  <2> QED BY <1>0, <2>1, <2>3, <2>4, <2>5, EmptyFacts, DoKeeps, Zenon
<1> QED BY <1>1, <1>2

LEMMA TriggerSteps ==
    ASSUME SetupInv, NoTrigger \/ DigitalTrigger \/ ChannelTrigger
    PROVE  SetupInv'
<1>0. /\ next \in Nat \ {0} /\ phase = "trigger"
      /\ SetBefore(phase, next) = CommonSetters \cup AllAnalog \cup AllDigital
      /\ SetBefore("acquisition", next) = SetBefore(phase, next) \cup TriggerSetters
  BY SetBeforeAt DEF SetupInv, PlaceInv, NoTrigger, DigitalTrigger, ChannelTrigger
<1>1. TriggerSetters \cap SetBefore(phase, next) = {}
  BY <1>0, SetterNames DEF AllAnalog, AllDigital
<1>2. ASSUME NEW reads, NEW called, Do(reads, called, "acquisition", next),
             called \in Seq(Wanted), Distinct(called), ItemsOf(called) = TriggerSetters
      PROVE  SetupInv'
  BY <1>0, <1>1, <1>2, DoKeeps DEF Opened
<1>3. CASE NoTrigger
  <2>1. TriggerSetters = {}
    BY <1>3, WordsDiffer DEF NoTrigger, TriggerSetters
  <2> QED BY <1>2, <1>3, <2>1, EmptyFacts DEF NoTrigger
<1>4. CASE DigitalTrigger
  <2>1. TriggerSetters = {<<"set_di_trigger">>}
    BY <1>4, WordsDiffer DEF DigitalTrigger, TriggerSetters
  <2>2. <<"set_di_trigger">> \in Wanted
    BY <2>1, AllSet
  <2> QED BY <1>2, <1>4, <2>1, <2>2, SingleFacts DEF DigitalTrigger
<1>5. CASE ChannelTrigger
  <2>1. TriggerSetters = {<<"set_aichan_trigger">>}
    BY <1>5 DEF ChannelTrigger, TriggerSetters
  <2>2. <<"set_aichan_trigger">> \in Wanted
    BY <2>1, AllSet
  <2> QED BY <1>2, <1>5, <2>1, <2>2, SingleFacts DEF ChannelTrigger
<1> QED BY <1>3, <1>4, <1>5

LEMMA AcquisitionSteps ==
    ASSUME SetupInv, SetStreaming \/ SetRapidBlock \/ SetSamples \/ RefuseMode
    PROVE  SetupInv'
<1> DEFINE before == CommonSetters \cup AllAnalog \cup AllDigital \cup TriggerSetters
<1>1. next \in Nat \ {0}
  BY DEF SetupInv, PlaceInv
<1>2. AcquisitionSetters \cap before = {} /\ Wanted = before \cup AcquisitionSetters
  BY WantedParts, SetterNames DEF AllAnalog, AllDigital
<1>3. SetBefore("acquisition", next) = before /\ SetBefore("returned", next) = Wanted
  BY SetBeforeAt
<1>4. SetBefore("samples", next) = before \cup {<<"set_rapid_block">>}
  BY SetBeforeAt
<1> HIDE DEF before
<1>5. CASE SetStreaming
  <2> DEFINE called == <<<<"set_buffer_size">>, <<"set_streaming">>>>
  <2>1. /\ phase = "acquisition" /\ Mode("Streaming")
        /\ Do({Eval("int", "buff_size"), Eval("float", "poll_rate")}, called, "returned", next)
    BY <1>5 DEF SetStreaming
  <2>2. AcquisitionSetters = {<<"set_buffer_size">>, <<"set_streaming">>}
    BY <2>1 DEF AcquisitionSetters
  <2>3. <<"set_buffer_size">> # <<"set_streaming">>
    OBVIOUS
  <2>4. called \in Seq(Wanted) /\ Distinct(called) /\ ItemsOf(called) = AcquisitionSetters
    BY <2>2, <2>3, AllSet, PairFacts
  <2> HIDE DEF called
  <2>5. /\ ItemsOf(called) \cap SetBefore(phase, next) = {}
        /\ SetBefore("returned", next) = SetBefore(phase, next) \cup ItemsOf(called)
    BY <1>2, <1>3, <2>1, <2>4
  <2>6. /\ phase \in Opened /\ "returned" \in Opened /\ "returned" # "done"
        /\ "returned" # "channels" /\ "returned" # "ports" /\ "returned" # "samples"
        /\ phase # "exception" /\ phase # "done" /\ phase # "other"
    BY <2>1 DEF Opened
  <2> QED BY <1>1, <2>1, <2>4, <2>5, <2>6, DoKeeps, Zenon
<1>6. CASE SetRapidBlock
  <2> DEFINE called == <<<<"set_rapid_block">>>>
  <2>1. /\ phase = "acquisition" /\ Mode("Rapid Block")
        /\ Do({Eval("int", "nr_waveforms")}, called, "samples", next)
    BY <1>6 DEF SetRapidBlock
  <2>2. AcquisitionSetters = {<<"set_rapid_block">>, <<"set_samples">>}
    BY <2>1, WordsDiffer DEF AcquisitionSetters
  <2>3. called \in Seq(Wanted) /\ Distinct(called) /\ ItemsOf(called) = {<<"set_rapid_block">>}
    BY <2>2, AllSet, SingleFacts
  <2> HIDE DEF called
  <2>4. /\ ItemsOf(called) \cap SetBefore(phase, next) = {}
        /\ SetBefore("samples", next) = SetBefore(phase, next) \cup ItemsOf(called)
    BY <1>2, <1>3, <1>4, <2>1, <2>2, <2>3
  <2> QED BY <1>1, <2>1, <2>3, <2>4, DoKeeps DEF Opened
<1>7. CASE SetSamples
  <2> DEFINE called == <<<<"set_samples">>>>
  <2>1. /\ phase = "samples" /\ Mode("Rapid Block")
        /\ Do({Eval("int", "pre_samples"), Eval("int", "post_samples")}, called, "returned", next)
    BY <1>7 DEF SetSamples, SetupInv, PlaceInv
  <2>2. AcquisitionSetters = {<<"set_rapid_block">>, <<"set_samples">>}
    BY <2>1, WordsDiffer DEF AcquisitionSetters
  <2>3. called \in Seq(Wanted) /\ Distinct(called) /\ ItemsOf(called) = {<<"set_samples">>}
    BY <2>2, AllSet, SingleFacts
  <2>4. <<"set_samples">> # <<"set_rapid_block">>
    OBVIOUS
  <2> DEFINE x == <<"set_samples">>
             y == <<"set_rapid_block">>
  <2> HIDE DEF called, x, y
  <2>5. /\ ItemsOf(called) \cap SetBefore(phase, next) = {}
        /\ SetBefore("returned", next) = SetBefore(phase, next) \cup ItemsOf(called)
    <3>1. AcquisitionSetters = {y, x} /\ ItemsOf(called) = {x} /\ x # y
      BY <2>2, <2>3, <2>4 DEF x, y
    <3>2. SetBefore(phase, next) = before \cup {y}
      BY <1>4, <2>1 DEF y
    <3>3. x \notin before
      BY <1>2, <3>1
    <3>4. SetBefore("returned", next) = before \cup {y, x}
      BY <1>2, <1>3, <3>1
    <3> QED BY <3>1, <3>2, <3>3, <3>4
  <2> QED BY <1>1, <2>1, <2>3, <2>5, DoKeeps DEF Opened
<1>8. CASE RefuseMode
  BY <1>8, FailKeeps DEF RefuseMode
<1> QED BY <1>5, <1>6, <1>7, <1>8

LEMMA LastSteps ==
    ASSUME SetupInv, ReturnDevice \/ SettingsThrow
    PROVE  SetupInv'
<1>1. CASE ReturnDevice
  <2>1. PICK block : answer' = Made(block)
    BY <1>1 DEF ReturnDevice
  <2>2. /\ phase = "returned" /\ phase' = "done" /\ answer' # Thrown
        /\ UNCHANGED call_ /\ UNCHANGED next /\ UNCHANGED device
        /\ UNCHANGED auto_arm /\ UNCHANGED setters
    BY <1>1, <2>1 DEF ReturnDevice, Made, Thrown
  <2>3. /\ Wanted' = Wanted /\ SetBefore(phase, next)' = Wanted /\ \A m : Mode(m)' = Mode(m)
    BY <2>2, ParametersStay, WantedStays, SetBeforeAt
  <2>4. PlaceInv'
    BY <2>2 DEF SetupInv, PlaceInv, Phases, Thrown
  <2>5. DeviceInv'
    BY <2>2, <2>3 DEF SetupInv, DeviceInv, Opened
  <2>6. SettersInv'
    BY <2>2, <2>3, SetBeforeAt DEF SetupInv, SettersInv, Distinct, ItemsOf
  <2>7. (PlaceInv /\ DeviceInv /\ SettersInv /\ phase # "exception" => ArmedWhenConfigured)'
    BY ArmedByPhase, PTL
  <2> QED BY <2>2, <2>4, <2>5, <2>6, <2>7 DEF SetupInv
<1>2. CASE SettingsThrow
  BY <1>2, FailKeeps DEF SettingsThrow
<1> QED BY <1>1, <1>2

LEMMA SetupInvHolds == CallSpec => []SetupInv
<1>1. SetupBegins => SetupInv
  <2> SUFFICES ASSUME SetupBegins PROVE SetupInv
    OBVIOUS
  <2>1. PlaceInv
    BY DEF SetupBegins, PlaceInv, Phases, None, Thrown
  <2>2. DeviceInv
    BY DEF SetupBegins, DeviceInv, Opened
  <2>3. SettersInv
    BY EmptyFacts, SetBeforeAt DEF SetupBegins, SettersInv
  <2>4. phase # "exception"
    BY DEF SetupBegins
  <2> QED BY <2>1, <2>2, <2>3, <2>4, ArmedByPhase DEF SetupInv
<1>2. SetupInv /\ [CallNext]_setupVars => SetupInv'
  <2> SUFFICES ASSUME SetupInv, [CallNext]_setupVars PROVE SetupInv'
    OBVIOUS
  <2>1. CASE Make \/ MakeThrows \/ UNCHANGED setupVars
    <3>1. /\ UNCHANGED call_ /\ UNCHANGED <<phase, next, device, auto_arm, setters>>
          /\ UNCHANGED answer \/ phase = "other"
      BY <2>1 DEF setupVars, setup_, Make, MakeThrows
    <3>2. /\ Channels' = Channels /\ Ports' = Ports /\ (\A m : Mode(m)' = Mode(m))
          /\ Wanted' = Wanted /\ SetBefore(phase, next)' = SetBefore(phase, next)
      BY <3>1, ParametersStay, WantedStays
    <3>3. PlaceInv' /\ DeviceInv'
      BY <3>1, <3>2 DEF SetupInv, PlaceInv, DeviceInv
    <3>4. SettersInv' /\ ArmedWhenConfigured'
      BY <3>1, <3>2 DEF SetupInv, SettersInv, Distinct, ItemsOf, ArmedWhenConfigured
    <3> QED BY <3>3, <3>4 DEF SetupInv
  <2> QED BY <2>1, CommonSteps, OpenKeeps, ChannelSteps, PortSteps, TriggerSteps,
             AcquisitionSteps, LastSteps DEF CallNext, SetupNext
<1> QED BY <1>1, <1>2, PTL DEF CallSpec

\* A picoscope that is returned is open and has each setting its document asks for made
\* once, and one that is not returned is not left open, wherever make throws.
THEOREM ConfiguredOrClosed == CallSpec => []ReturnedAsWritten
<1>1. SetupInv => ReturnedAsWritten
  BY SetBeforeAt DEF SetupInv, PlaceInv, DeviceInv, SettersInv, Opened, Distinct, ReturnedAsWritten
<1> QED BY <1>1, SetupInvHolds, PTL

\* What starts the acquisition finds the channels and the trigger set, and the device was
\* opened to arm itself exactly if it does not stream.
THEOREM ArmedLast == CallSpec => []ArmedWhenConfigured
<1>1. SetupInv => ArmedWhenConfigured
  BY DEF SetupInv
<1> QED BY <1>1, SetupInvHolds, PTL

-----------------------------------------------------------------------------
(* What has been read, phase by phase *)

ModeRead == OneOf("acquisition_mode", Words({"Streaming", "Rapid Block"}))

FixedReads == {r \in PicoscopeMaker : r.param # "acquisition_mode"}

AnalogReads(k)  == UNION {AnalogChannel(info, Channels[i]) : i \in 1..k - 1}
DigitalReads(k) == UNION {DigitalPort(Ports[i]) : i \in 1..k - 1}

TriggerReads ==
    CASE Source("None") -> {}
      [] IsDigital -> {Get("unsigned", "pin_number"), Get("int", "trigger_direction")}
      [] OTHER -> {Get("int", "trigger_direction"), Get("double", "trigger_threshold")}

\* What is read of the channels and the ports, and of the source of the trigger.
ChannelReads == CommonReads \cup AnalogReads(Len(Channels) + 1)
PortReads    == ChannelReads \cup DigitalReads(Len(Ports) + 1)
SourceReads  == PortReads \cup {GetText("trigger_source")}

\* What has been read when make is at a phase.
ReadBefore(at, k) ==
    CASE at \in {"open", "settings"} -> CommonReads
      [] at = "channels" -> CommonReads \cup AnalogReads(k)
      [] at = "ports" -> ChannelReads \cup DigitalReads(k)
      [] at = "trigger" -> SourceReads
      [] at = "acquisition" -> SourceReads \cup TriggerReads
      [] at = "samples" -> SourceReads \cup TriggerReads \cup {Eval("int", "nr_waveforms")}
      [] at \in {"returned", "done"} -> SourceReads \cup TriggerReads \cup Acquisition(info)
      [] OTHER -> {}

LEMMA ReadBeforeAt ==
    \A k : /\ ReadBefore("common", k) = {}
           /\ ReadBefore("open", k) = CommonReads /\ ReadBefore("settings", k) = CommonReads
           /\ ReadBefore("channels", k) = CommonReads \cup AnalogReads(k)
           /\ ReadBefore("ports", k) = ChannelReads \cup DigitalReads(k)
           /\ ReadBefore("trigger", k) = SourceReads
           /\ ReadBefore("acquisition", k) = SourceReads \cup TriggerReads
           /\ ReadBefore("samples", k) = SourceReads \cup TriggerReads \cup {Eval("int", "nr_waveforms")}
           /\ ReadBefore("returned", k) = SourceReads \cup TriggerReads \cup Acquisition(info)
           /\ ReadBefore("done", k) = SourceReads \cup TriggerReads \cup Acquisition(info)
BY DEF ReadBefore

LEMMA ReadsGrow ==
    /\ AnalogReads(1) = {} /\ DigitalReads(1) = {}
    /\ \A k \in Nat \ {0} : /\ AnalogReads(k + 1) = AnalogReads(k) \cup AnalogChannel(info, Channels[k])
                            /\ DigitalReads(k + 1) = DigitalReads(k) \cup DigitalPort(Ports[k])
<1>1. \A k \in Nat \ {0} : 1..k + 1 - 1 = (1..k - 1) \cup {k}
  OBVIOUS
<1>2. \A k \in Nat \ {0} : AnalogReads(k + 1) = AnalogReads(k) \cup AnalogChannel(info, Channels[k])
  BY <1>1 DEF AnalogReads
<1>3. \A k \in Nat \ {0} : DigitalReads(k + 1) = DigitalReads(k) \cup DigitalPort(Ports[k])
  BY <1>1 DEF DigitalReads
<1>4. AnalogReads(1) = {} /\ DigitalReads(1) = {}
  BY DEF AnalogReads, DigitalReads
<1> QED BY <1>2, <1>3, <1>4

\* The channels of a device as a set, and what is read of them.
LEMMA ChannelsRead ==
    /\ AnalogReads(Len(Channels) + 1) = UNION {AnalogChannel(info, c) : c \in ItemsOf(Channels)}
    /\ DigitalReads(Len(Ports) + 1) = UNION {DigitalPort(p) : p \in ItemsOf(Ports)}
<1>1. AnalogReads(Len(Channels) + 1) = UNION {AnalogChannel(info, c) : c \in ItemsOf(Channels)}
  BY ChannelFacts DEF AnalogReads, ItemsOf
<1>2. DigitalReads(Len(Ports) + 1) = UNION {DigitalPort(p) : p \in ItemsOf(Ports)}
  BY PortFacts DEF DigitalReads, ItemsOf
<1> QED BY <1>1, <1>2

LEMMA ItemsOfDevice ==
    /\ ItemsOf(Channels) = IF info.key = "digitizers_picoscope_4000a"
                           THEN {"a", "b", "c", "d", "e", "f", "g", "h"} ELSE {"a", "b", "c", "d"}
    /\ ItemsOf(Ports) = IF info.key = "digitizers_picoscope_3000a" THEN {"0", "1"} ELSE {}
<1>1. CASE info.key = "digitizers_picoscope_4000a"
  <2>1. Channels = <<"a", "b", "c", "d", "e", "f", "g", "h">> /\ Ports = <<>>
    BY <1>1 DEF Channels, Ports
  <2>2. DOMAIN Channels = 1..8
    BY <2>1
  <2>3. /\ Channels[1] = "a" /\ Channels[2] = "b" /\ Channels[3] = "c" /\ Channels[4] = "d"
        /\ Channels[5] = "e" /\ Channels[6] = "f" /\ Channels[7] = "g" /\ Channels[8] = "h"
    BY <2>1
  <2>4. 1..8 = {1, 2, 3, 4, 5, 6, 7, 8}
    OBVIOUS
  <2>5. ItemsOf(Channels) = {"a", "b", "c", "d", "e", "f", "g", "h"}
    BY <2>2, <2>3, <2>4 DEF ItemsOf
  <2> QED BY <1>1, <2>1, <2>5, EmptyFacts
<1>2. CASE info.key # "digitizers_picoscope_4000a"
  <2>1. Channels = <<"a", "b", "c", "d">>
    BY <1>2 DEF Channels
  <2>2. DOMAIN Channels = 1..4
    BY <2>1
  <2>3. /\ Channels[1] = "a" /\ Channels[2] = "b" /\ Channels[3] = "c" /\ Channels[4] = "d"
    BY <2>1
  <2>4. 1..4 = {1, 2, 3, 4}
    OBVIOUS
  <2>5. ItemsOf(Channels) = {"a", "b", "c", "d"}
    BY <2>2, <2>3, <2>4 DEF ItemsOf
  <2>6. CASE info.key = "digitizers_picoscope_3000a"
    <3>1. Ports = <<"0", "1">>
      BY <2>6 DEF Ports
    <3>2. DOMAIN Ports = 1..2 /\ Ports[1] = "0" /\ Ports[2] = "1"
      BY <3>1
    <3>3. 1..2 = {1, 2}
      OBVIOUS
    <3>4. ItemsOf(Ports) = {"0", "1"}
      BY <3>2, <3>3 DEF ItemsOf
    <3> QED BY <1>2, <2>5, <2>6, <3>4
  <2>7. CASE info.key # "digitizers_picoscope_3000a"
    <3>1. Ports = <<>>
      BY <2>7 DEF Ports
    <3> QED BY <1>2, <2>5, <2>7, <3>1, EmptyFacts
  <2> QED BY <2>6, <2>7
<1> QED BY <1>1, <1>2

LEMMA TriggerOf ==
    Trigger(info, info.key # "digitizers_picoscope_6000") = {GetText("trigger_source")} \cup TriggerReads
BY DEF Trigger, TriggerReads, Source, IsDigital

LEMMA PicoscopeMakerParts == PicoscopeMaker = FixedReads \cup {ModeRead}
<1>1. /\ GetText("serial_number").param # "acquisition_mode"
      /\ Get("bool", "trigger_once").param # "acquisition_mode"
      /\ Eval("double", "samp_rate").param # "acquisition_mode"
      /\ Get("int", "downsampling_mode").param # "acquisition_mode"
      /\ Eval("int", "downsampling_factor").param # "acquisition_mode"
      /\ ModeRead.param = "acquisition_mode"
  BY DEF GetText, Get, Eval, ModeRead, OneOf
<1>2. PicoscopeMaker = {GetText("serial_number"), Get("bool", "trigger_once"), Eval("double", "samp_rate"),
                        Get("int", "downsampling_mode"), Eval("int", "downsampling_factor"), ModeRead}
  BY Zenon DEF PicoscopeMaker, ModeRead
<1> QED BY <1>1, <1>2 DEF FixedReads

\* Everything that the maker of a picoscope reads.
LEMMA MakerReadsParts ==
    ASSUME IsPicoscope(info.key)
    PROVE  MakerReads(info) =
              FixedReads \cup {ModeRead} \cup AnalogReads(Len(Channels) + 1)
                  \cup DigitalReads(Len(Ports) + 1) \cup {GetText("trigger_source")}
                  \cup TriggerReads \cup Acquisition(info)
<1> DEFINE analog  == UNION {AnalogChannel(info, c) : c \in ItemsOf(Channels)}
           digital == UNION {DigitalPort(p) : p \in ItemsOf(Ports)}
<1>1. CASE info.key = "digitizers_picoscope_3000a"
  <2>1. handlers_b[info.key] = PicoscopeMaker
    BY <1>1 DEF handlers_b
  <2>2. MakerReads(info) = PicoscopeMaker \cup Ps3000aMaker(info)
    BY <1>1, <2>1 DEF MakerReads
  <2>3. analog = UNION {AnalogChannel(info, c) : c \in {"a", "b", "c", "d"}}
    BY <1>1, ItemsOfDevice
  <2>4. digital = DigitalPort("0") \cup DigitalPort("1")
    BY <1>1, ItemsOfDevice
  <2>5. Trigger(info, TRUE) = {GetText("trigger_source")} \cup TriggerReads
    BY <1>1, TriggerOf
  <2> HIDE DEF analog, digital
  <2>6. Ps3000aMaker(info) =
           {GetText("trigger_source")} \cup TriggerReads \cup Acquisition(info) \cup analog \cup digital
    <3> DEFINE zero == DigitalPort("0")
               one  == DigitalPort("1")
    <3>1. Ps3000aMaker(info) = Trigger(info, TRUE) \cup Acquisition(info) \cup zero \cup one \cup analog
      BY <2>3 DEF Ps3000aMaker
    <3>2. digital = zero \cup one
      BY <2>4
    <3> HIDE DEF zero, one
    <3> QED BY <2>5, <3>1, <3>2
  <2> QED BY <2>2, <2>6, PicoscopeMakerParts, ChannelsRead DEF analog, digital
<1>2. CASE info.key = "digitizers_picoscope_4000a"
  <2>1. handlers_b[info.key] = PicoscopeMaker
    BY <1>2 DEF handlers_b
  <2>2. MakerReads(info) = PicoscopeMaker \cup Ps4000aMaker(info)
    BY <1>2, <2>1 DEF MakerReads
  <2>3. analog = UNION {AnalogChannel(info, c) : c \in {"a", "b", "c", "d", "e", "f", "g", "h"}}
    BY <1>2, ItemsOfDevice
  <2>4. digital = {}
    BY <1>2, ItemsOfDevice
  <2>5. Trigger(info, TRUE) = {GetText("trigger_source")} \cup TriggerReads
    BY <1>2, TriggerOf
  <2> HIDE DEF analog, digital
  <2>6. Ps4000aMaker(info) =
           {GetText("trigger_source")} \cup TriggerReads \cup Acquisition(info) \cup analog
    BY <2>3, <2>5 DEF Ps4000aMaker
  <2> QED BY <2>2, <2>4, <2>6, PicoscopeMakerParts, ChannelsRead DEF analog, digital
<1>3. CASE info.key = "digitizers_picoscope_6000"
  <2>1. handlers_b[info.key] = PicoscopeMaker
    BY <1>3 DEF handlers_b
  <2>2. MakerReads(info) = PicoscopeMaker \cup Ps6000Maker(info)
    BY <1>3, <2>1 DEF MakerReads
  <2>3. analog = UNION {AnalogChannel(info, c) : c \in {"a", "b", "c", "d"}}
    BY <1>3, ItemsOfDevice
  <2>4. digital = {}
    BY <1>3, ItemsOfDevice
  <2>5. Trigger(info, FALSE) = {GetText("trigger_source")} \cup TriggerReads
    BY <1>3, TriggerOf
  <2> HIDE DEF analog, digital
  <2>6. Ps6000Maker(info) =
           {GetText("trigger_source")} \cup TriggerReads \cup Acquisition(info) \cup analog
    BY <2>3, <2>5 DEF Ps6000Maker
  <2> QED BY <2>2, <2>4, <2>6, PicoscopeMakerParts, ChannelsRead DEF analog, digital
<1> QED BY <1>1, <1>2, <1>3 DEF IsPicoscope

\* The mode reads as one of its two texts exactly if it is one of the two modes.
LEMMA ModeReadable ==
    /\ read_outcomes(ModeRead, info, variables) # {} <=> Mode("Streaming") \/ Mode("Rapid Block")
    /\ read_outcomes(ModeRead, info, variables) # {} =>
          read_outcomes(GetText("acquisition_mode"), info, variables) # {}
<1> DEFINE texts == param_value("string", info, "acquisition_mode")
<1>1. \/ texts = {}
      \/ \E t : texts = {t}
  BY DEF param_value, convert_to
<1>2. read_outcomes(GetText("acquisition_mode"), info, variables) = texts
  BY DEF read_outcomes, GetText, Get
<1>3. read_outcomes(ModeRead, info, variables) = texts \cap {Word("Streaming"), Word("Rapid Block")}
  <2>1. ModeRead.how = "one of" /\ ModeRead.param = "acquisition_mode"
        /\ ModeRead.texts = Words({"Streaming", "Rapid Block"})
    BY DEF ModeRead, OneOf
  <2>2. Words({"Streaming", "Rapid Block"}) = {Word("Streaming"), Word("Rapid Block")}
    BY DEF Words
  <2>3. read_outcomes(ModeRead, info, variables) = texts \cap ModeRead.texts
    BY <2>1 DEF read_outcomes
  <2> QED BY <2>1, <2>2, <2>3
<1>4. /\ Mode("Streaming") <=> texts = {Word("Streaming")}
      /\ Mode("Rapid Block") <=> texts = {Word("Rapid Block")}
  BY DEF Mode, Reads
<1> HIDE DEF texts
<1> QED BY <1>1, <1>2, <1>3, <1>4

-----------------------------------------------------------------------------
(* Why make throws *)

ReadInv ==
    /\ phase = "other" \/ IsPicoscope(info.key)
    /\ phase \in Opened => present
    /\ phase \in Opened \cup {"open"} => Readable(ReadBefore(phase, next))
    /\ phase \in {"returned", "done"} => Mode("Streaming") \/ Mode("Rapid Block")
    /\ ItemsOf(setters) \cap rejected = {}
    /\ phase = "exception" => Faulty \/ common_settings(info, variables) = {}

LEMMA ReadsStay ==
    ASSUME UNCHANGED call_
    PROVE  /\ \A at, k : ReadBefore(at, k)' = ReadBefore(at, k)
           /\ \A reads : Readable(reads)' <=> Readable(reads)
           /\ UNCHANGED <<info, variables, present, rejected>>
           /\ Faulty' <=> Faulty
<1>1. UNCHANGED <<info, variables, present, rejected>>
  BY DEF call_
<1>2. \A reads : Readable(reads)' <=> Readable(reads)
  BY <1>1 DEF Readable
<1>3. /\ \A k : AnalogReads(k)' = AnalogReads(k) /\ DigitalReads(k)' = DigitalReads(k)
      /\ TriggerReads' = TriggerReads
  BY <1>1, ParametersStay DEF AnalogReads, DigitalReads, TriggerReads
<1>4. SourceReads' = SourceReads /\ ChannelReads' = ChannelReads
  BY <1>3, ParametersStay DEF SourceReads, PortReads, ChannelReads
<1>5. \A at, k : ReadBefore(at, k)' = ReadBefore(at, k)
  BY <1>1, <1>3, <1>4 DEF ReadBefore
<1>6. Faulty' <=> Faulty
  <2>1. Wanted' = Wanted
    BY WantedStays
  <2>2. Readable(MakerReads(info))' <=> Readable(MakerReads(info))
    BY <1>1 DEF Readable
  <2> QED BY <1>1, <2>1, <2>2 DEF Faulty
<1> QED BY <1>1, <1>2, <1>5, <1>6

LEMMA FailFaulty ==
    ASSUME ReadInv, Fail, phase # "other", Faulty \/ common_settings(info, variables) = {}
    PROVE  ReadInv'
<1>1. /\ UNCHANGED call_ /\ UNCHANGED setters /\ phase' = "exception"
  BY DEF Fail
<1>2. UNCHANGED <<info, variables, rejected>> /\ (Faulty' <=> Faulty)
  BY <1>1, ReadsStay
<1> QED BY <1>1, <1>2 DEF ReadInv, Opened, ItemsOf

\* What is read is among what a fault is about.
Belongs(reads) == Readable(MakerReads(info)) => Readable(reads)

\* A step of make that reads and sets.
LEMMA DoReads ==
    ASSUME SettersInv, ReadInv, NEW reads, NEW called, NEW to, NEW n, Do(reads, called, to, n),
           phase \in Opened \cup {"common"}, phase # "exception", phase # "other",
           to \in Opened \cup {"open"}, to \in Opened => phase \in Opened,
           called \in Seq(Wanted), Belongs(reads),
           ReadBefore(to, n) = ReadBefore(phase, next) \cup reads,
           to \in {"returned", "done"} => Mode("Streaming") \/ Mode("Rapid Block")
    PROVE  ReadInv'
<1>1. CASE ~(Readable(reads) /\ Accepted(called)) /\ Fail
  <2>1. Faulty
    <3>1. CASE ~Readable(reads)
      BY <3>1 DEF Belongs, Faulty
    <3>2. CASE ~Accepted(called)
      <4>1. PICK i \in DOMAIN called : called[i] \in rejected
        BY <3>2 DEF Accepted
      <4>2. called[i] \in Wanted
        BY <4>1, ElementOfSeq, LenProperties
      <4> QED BY <4>1, <4>2 DEF Faulty
    <3> QED BY <1>1, <3>1, <3>2
  <2> QED BY <1>1, <2>1, FailFaulty
<1>2. CASE /\ Readable(reads) /\ Accepted(called)
           /\ setters' = setters \o called /\ phase' = to /\ next' = n
           /\ UNCHANGED <<call_, answer, device, auto_arm>>
  <2>1. UNCHANGED call_
    BY <1>2
  <2>2. UNCHANGED <<info, variables, present, rejected>> /\ phase' # "other" /\ phase' # "exception"
    BY <1>2, <2>1, ReadsStay DEF Opened
  <2>3. ItemsOf(setters)' = ItemsOf(setters) \cup ItemsOf(called)
    <3>1. ItemsOf(setters \o called) = ItemsOf(setters) \cup ItemsOf(called)
      BY ItemsOfBoth DEF SettersInv
    <3> QED BY <1>2, <3>1 DEF ItemsOf
  <2>4. ItemsOf(called) \cap rejected = {}
    BY <1>2 DEF Accepted, ItemsOf
  <2>5. Readable(ReadBefore(to, n))
    <3>1. Readable(ReadBefore(phase, next))
      <4>1. CASE phase = "common"
        <5>1. ReadBefore(phase, next) = {}
          BY <4>1, ReadBeforeAt
        <5> QED BY <5>1 DEF Readable
      <4>2. CASE phase \in Opened
        BY <4>2 DEF ReadInv
      <4> QED BY <4>1, <4>2
    <3> QED BY <1>2, <3>1 DEF Readable
  <2>6. Readable(ReadBefore(phase, next))'
    <3>1. ReadBefore(phase, next)' = ReadBefore(to, n)
      <4>1. \A at, k : ReadBefore(at, k)' = ReadBefore(at, k)
        BY <2>1, ReadsStay
      <4>2. ReadBefore(phase, next)' = ReadBefore(phase', next')
        BY <2>1, <4>1
      <4> QED BY <1>2, <4>1, <4>2
    <3> QED BY <2>1, <2>2, <2>5, <3>1 DEF Readable
  <2>7. \A m : Mode(m)' = Mode(m)
    BY <2>1, ParametersStay
  <2> QED BY <1>2, <2>2, <2>3, <2>4, <2>6, <2>7 DEF ReadInv, Opened
<1> QED BY <1>1, <1>2 DEF Do

\* What is read in all is read part by part.
LEMMA PartsBelong ==
    ASSUME IsPicoscope(info.key)
    PROVE  /\ Belongs(CommonReads) /\ Belongs({ModeRead}) /\ Belongs({GetText("trigger_source")})
           /\ \A k \in 1..Len(Channels) : Belongs(AnalogChannel(info, Channels[k]))
           /\ \A k \in 1..Len(Ports) : Belongs(DigitalPort(Ports[k]))
           /\ \A reads : reads \subseteq TriggerReads \cup Acquisition(info) => Belongs(reads)
<1>1. /\ FixedReads \cup {ModeRead, GetText("trigger_source")} \subseteq MakerReads(info)
      /\ AnalogReads(Len(Channels) + 1) \subseteq MakerReads(info)
      /\ DigitalReads(Len(Ports) + 1) \subseteq MakerReads(info)
      /\ TriggerReads \cup Acquisition(info) \subseteq MakerReads(info)
  BY MakerReadsParts
<1>2. \A reads : reads \subseteq MakerReads(info) => Belongs(reads)
  BY DEF Belongs, Readable
<1>3. \A k \in 1..Len(Channels) : AnalogChannel(info, Channels[k]) \subseteq AnalogReads(Len(Channels) + 1)
  BY ChannelFacts DEF AnalogReads
<1>4. \A k \in 1..Len(Ports) : DigitalPort(Ports[k]) \subseteq DigitalReads(Len(Ports) + 1)
  BY PortFacts DEF DigitalReads
<1>5. Belongs(CommonReads)
  <2>1. CommonReads = FixedReads \cup {GetText("acquisition_mode")}
    BY DEF CommonReads, FixedReads
  <2>2. Belongs(FixedReads) /\ Belongs({ModeRead})
    BY <1>1, <1>2
  <2> QED BY <2>1, <2>2, ModeReadable DEF Belongs, Readable
<1> QED BY <1>1, <1>2, <1>3, <1>4, <1>5

LEMMA FirstReads ==
    ASSUME SetupInv, ReadInv, ReadCommon \/ Open \/ NoDevice \/ SetCommon
    PROVE  ReadInv'
<1>0. SettersInv /\ <<>> \in Seq(Wanted)
  BY EmptyFacts DEF SetupInv
<1>1. CASE ReadCommon
  <2>1. phase = "common" /\ Do(CommonReads, <<>>, "open", next)
    BY <1>1 DEF ReadCommon
  <2>2. Belongs(CommonReads)
    BY <2>1, PartsBelong DEF ReadInv
  <2>3. ReadBefore("open", next) = ReadBefore(phase, next) \cup CommonReads
    BY <2>1, ReadBeforeAt
  <2> QED BY <1>0, <2>1, <2>2, <2>3, DoReads DEF Opened
<1>2. CASE Open
  <2>1. /\ phase = "open" /\ present /\ phase' = "settings"
        /\ UNCHANGED call_ /\ UNCHANGED next /\ UNCHANGED setters
    BY <1>2 DEF Open
  <2>2. /\ UNCHANGED <<info, variables, present, rejected>>
        /\ Readable(ReadBefore("settings", next))' <=> Readable(CommonReads)
    BY <2>1, ReadsStay, ReadBeforeAt
  <2>3. Readable(ReadBefore(phase, next))'
    BY <2>1, <2>2, ReadBeforeAt DEF ReadInv
  <2> QED BY <2>1, <2>2, <2>3 DEF ReadInv, Opened, ItemsOf
<1>3. CASE NoDevice
  BY <1>3, FailFaulty DEF NoDevice, Faulty
<1>4. CASE SetCommon
  <2> DEFINE called == <<<<"set_trigger_once">>, <<"set_samp_rate">>, <<"set_downsampling">>>>
  <2>1. phase = "settings" /\ Do({}, called, "channels", 1)
    BY <1>4 DEF SetCommon
  <2>2. called \in Seq(Wanted)
    BY AllSet DEF CommonSetters
  <2> HIDE DEF called
  <2>3. ReadBefore("channels", 1) = ReadBefore(phase, next) \cup {}
    BY <2>1, ReadBeforeAt, ReadsGrow
  <2>4. Belongs({})
    BY DEF Belongs, Readable
  <2> QED BY <1>0, <2>1, <2>2, <2>3, <2>4, DoReads DEF Opened
<1> QED BY <1>1, <1>2, <1>3, <1>4

LEMMA InputReads ==
    ASSUME SetupInv, ReadInv, SetChannel \/ ChannelsDone \/ SetPort \/ PortsDone
    PROVE  ReadInv'
<1>0. /\ SettersInv /\ <<>> \in Seq(Wanted) /\ next \in Nat \ {0} /\ Belongs({})
      /\ phase \in {"channels", "ports"} => IsPicoscope(info.key)
  BY EmptyFacts DEF SetupInv, PlaceInv, ReadInv, Belongs, Readable
<1>1. CASE SetChannel
  <2> DEFINE called == IF Enabled(channel) THEN <<<<"set_aichan", channel>>>> ELSE <<>>
             reads  == AnalogChannel(info, channel)
  <2>1. phase = "channels" /\ Do(reads, called, "channels", next + 1)
    BY <1>1 DEF SetChannel, AtChannel
  <2>2. next \in 1..Len(Channels) /\ channel = Channels[next]
    BY <1>0, <1>1, ChannelFacts DEF SetChannel, AtChannel, channel
  <2>3. called \in Seq(Wanted)
    BY <1>0, <2>2, AllSet
  <2>4. Belongs(reads)
    BY <1>0, <2>1, <2>2, PartsBelong
  <2>5. ReadBefore("channels", next + 1) = ReadBefore(phase, next) \cup reads
    BY <1>0, <2>1, <2>2, ReadBeforeAt, ReadsGrow
  <2> HIDE DEF called, reads
  <2> QED BY <1>0, <2>1, <2>3, <2>4, <2>5, DoReads DEF Opened
<1>2. CASE ChannelsDone
  <2>1. phase = "channels" /\ Do({}, <<>>, "ports", 1)
    BY <1>2 DEF ChannelsDone
  <2>2. next = Len(Channels) + 1
    BY <1>0, <1>2, ChannelFacts DEF ChannelsDone, AtChannel, SetupInv, PlaceInv
  <2>3. ReadBefore("ports", 1) = ReadBefore(phase, next) \cup {}
    BY <2>1, <2>2, ReadBeforeAt, ReadsGrow DEF ChannelReads
  <2> QED BY <1>0, <2>1, <2>3, DoReads DEF Opened
<1>3. CASE SetPort
  <2> DEFINE called == <<<<"set_diport", port>>>>
             reads  == DigitalPort(port)
  <2>1. phase = "ports" /\ Do(reads, called, "ports", next + 1)
    BY <1>3 DEF SetPort, AtPort
  <2>2. next \in 1..Len(Ports) /\ port = Ports[next]
    BY <1>0, <1>3, PortFacts DEF SetPort, AtPort, port
  <2>3. called \in Seq(Wanted)
    BY <1>0, <2>2, AllSet
  <2>4. Belongs(reads)
    BY <1>0, <2>1, <2>2, PartsBelong
  <2>5. ReadBefore("ports", next + 1) = ReadBefore(phase, next) \cup reads
    BY <1>0, <2>1, <2>2, ReadBeforeAt, ReadsGrow
  <2> HIDE DEF called, reads
  <2> QED BY <1>0, <2>1, <2>3, <2>4, <2>5, DoReads DEF Opened
<1>4. CASE PortsDone
  <2>1. phase = "ports" /\ Do({GetText("trigger_source")}, <<>>, "trigger", next)
    BY <1>4 DEF PortsDone
  <2>2. next = Len(Ports) + 1
    BY <1>0, <1>4, PortFacts DEF PortsDone, AtPort, SetupInv, PlaceInv
  <2>3. ReadBefore("trigger", next) = ReadBefore(phase, next) \cup {GetText("trigger_source")}
    BY <2>1, <2>2, ReadBeforeAt DEF SourceReads, PortReads
  <2>4. Belongs({GetText("trigger_source")})
    BY <1>0, <2>1, PartsBelong
  <2> QED BY <1>0, <2>1, <2>3, <2>4, DoReads DEF Opened
<1> QED BY <1>1, <1>2, <1>3, <1>4

LEMMA TriggersRead ==
    ASSUME SetupInv, ReadInv, NoTrigger \/ DigitalTrigger \/ ChannelTrigger
    PROVE  ReadInv'
<1>0. /\ SettersInv /\ phase = "trigger" /\ Belongs(TriggerReads)
      /\ ReadBefore("acquisition", next) = ReadBefore(phase, next) \cup TriggerReads
  BY PartsBelong, ReadBeforeAt DEF SetupInv, ReadInv, NoTrigger, DigitalTrigger, ChannelTrigger
<1>1. ASSUME NEW called, called \in Seq(Wanted), Do(TriggerReads, called, "acquisition", next)
      PROVE  ReadInv'
  BY <1>0, <1>1, DoReads DEF Opened
<1>2. CASE NoTrigger
  <2>1. TriggerReads = {}
    BY <1>2, WordsDiffer DEF NoTrigger, TriggerReads
  <2> QED BY <1>1, <1>2, <2>1, EmptyFacts DEF NoTrigger
<1>3. CASE DigitalTrigger
  <2>1. /\ TriggerReads = {Get("unsigned", "pin_number"), Get("int", "trigger_direction")}
        /\ TriggerSetters = {<<"set_di_trigger">>}
    BY <1>3, WordsDiffer DEF DigitalTrigger, TriggerReads, TriggerSetters
  <2>2. <<<<"set_di_trigger">>>> \in Seq(Wanted)
    BY <2>1, AllSet
  <2> QED BY <1>1, <1>3, <2>1, <2>2 DEF DigitalTrigger
<1>4. CASE ChannelTrigger
  <2>1. /\ TriggerReads = {Get("int", "trigger_direction"), Get("double", "trigger_threshold")}
        /\ TriggerSetters = {<<"set_aichan_trigger">>}
    BY <1>4 DEF ChannelTrigger, TriggerReads, TriggerSetters
  <2>2. <<<<"set_aichan_trigger">>>> \in Seq(Wanted)
    BY <2>1, AllSet
  <2> QED BY <1>1, <1>4, <2>1, <2>2 DEF ChannelTrigger
<1> QED BY <1>2, <1>3, <1>4

LEMMA AcquisitionReads ==
    ASSUME SetupInv, ReadInv, SetStreaming \/ SetRapidBlock \/ SetSamples \/ RefuseMode
    PROVE  ReadInv'
<1>0. SettersInv /\ phase \in {"acquisition", "samples"} /\ IsPicoscope(info.key)
  BY DEF SetupInv, ReadInv, SetStreaming, SetRapidBlock, SetSamples, RefuseMode, UnknownMode
<1>1. CASE SetStreaming
  <2> DEFINE called == <<<<"set_buffer_size">>, <<"set_streaming">>>>
             reads  == {Eval("int", "buff_size"), Eval("float", "poll_rate")}
  <2>1. phase = "acquisition" /\ Mode("Streaming") /\ Do(reads, called, "returned", next)
    BY <1>1 DEF SetStreaming
  <2>2. Acquisition(info) = reads
    BY <2>1 DEF Acquisition, Mode
  <2>3. AcquisitionSetters = {<<"set_buffer_size">>, <<"set_streaming">>}
    BY <2>1 DEF AcquisitionSetters
  <2>4. called \in Seq(Wanted)
    BY <2>3, AllSet
  <2> HIDE DEF called, reads
  <2>5. Belongs(reads) /\ ReadBefore("returned", next) = ReadBefore(phase, next) \cup reads
    BY <1>0, <2>1, <2>2, PartsBelong, ReadBeforeAt
  <2> QED BY <1>0, <2>1, <2>4, <2>5, DoReads DEF Opened
<1>2. CASE SetRapidBlock
  <2> DEFINE called == <<<<"set_rapid_block">>>>
             reads  == {Eval("int", "nr_waveforms")}
  <2>1. phase = "acquisition" /\ ~Mode("Streaming") /\ Do(reads, called, "samples", next)
    BY <1>2, WordsDiffer DEF SetRapidBlock
  <2>2. reads \subseteq Acquisition(info)
    BY <2>1 DEF Acquisition, Mode
  <2>3. AcquisitionSetters = {<<"set_rapid_block">>, <<"set_samples">>}
    BY <2>1 DEF AcquisitionSetters
  <2>4. called \in Seq(Wanted)
    BY <2>3, AllSet
  <2>5. ReadBefore("samples", next) = ReadBefore(phase, next) \cup reads
    BY <2>1, ReadBeforeAt
  <2> HIDE DEF called, reads
  <2>6. Belongs(reads)
    BY <1>0, <2>2, PartsBelong
  <2> QED BY <1>0, <2>1, <2>4, <2>5, <2>6, DoReads DEF Opened
<1>3. CASE SetSamples
  <2> DEFINE called == <<<<"set_samples">>>>
             reads  == {Eval("int", "pre_samples"), Eval("int", "post_samples")}
  <2>1. phase = "samples" /\ Mode("Rapid Block") /\ Do(reads, called, "returned", next)
    BY <1>3 DEF SetSamples, SetupInv, PlaceInv
  <2>2. Acquisition(info) = {Eval("int", "nr_waveforms")} \cup reads
    BY <2>1, WordsDiffer DEF Acquisition, Mode
  <2>3. AcquisitionSetters = {<<"set_rapid_block">>, <<"set_samples">>}
    BY <2>1, WordsDiffer DEF AcquisitionSetters
  <2>4. called \in Seq(Wanted)
    BY <2>3, AllSet
  <2> HIDE DEF called, reads
  <2>5. Belongs(reads) /\ ReadBefore("returned", next) = ReadBefore(phase, next) \cup reads
    BY <1>0, <2>1, <2>2, PartsBelong, ReadBeforeAt
  <2> QED BY <1>0, <2>1, <2>4, <2>5, DoReads DEF Opened
<1>4. CASE RefuseMode
  <2>1. Fail /\ ~Mode("Streaming") /\ ~Mode("Rapid Block") /\ phase # "other"
    BY <1>0, <1>4 DEF RefuseMode, UnknownMode
  <2>2. ~Readable({ModeRead})
    BY <2>1, ModeReadable DEF Readable
  <2>3. Faulty
    BY <1>0, <2>2, PartsBelong DEF Belongs, Faulty
  <2> QED BY <2>1, <2>3, FailFaulty
<1> QED BY <1>1, <1>2, <1>3, <1>4

LEMMA LastReads ==
    ASSUME ReadInv, ReturnDevice \/ SettingsThrow
    PROVE  ReadInv'
<1>1. CASE ReturnDevice
  <2>1. phase = "returned" /\ phase' = "done" /\ UNCHANGED call_ /\ UNCHANGED next /\ UNCHANGED setters
    BY <1>1 DEF ReturnDevice
  <2>2. /\ UNCHANGED <<info, variables, present, rejected>> /\ \A m : Mode(m)' = Mode(m)
        /\ Readable(ReadBefore("done", next))' <=> Readable(ReadBefore("returned", next))
    BY <2>1, ReadsStay, ReadBeforeAt, ParametersStay
  <2>3. Readable(ReadBefore(phase, next))'
    BY <2>1, <2>2 DEF ReadInv, Opened
  <2> QED BY <2>1, <2>2, <2>3 DEF ReadInv, Opened, ItemsOf
<1>2. CASE SettingsThrow
  BY <1>2, FailFaulty DEF SettingsThrow
<1> QED BY <1>1, <1>2

LEMMA ReadInvHolds == CallSpec => []ReadInv
<1>1. SetupBegins => ReadInv
  BY EmptyFacts DEF SetupBegins, ReadInv, Opened
<1>2. SetupInv /\ ReadInv /\ [CallNext]_setupVars => ReadInv'
  <2> SUFFICES ASSUME SetupInv, ReadInv, [CallNext]_setupVars PROVE ReadInv'
    OBVIOUS
  <2>1. CASE Make \/ MakeThrows \/ UNCHANGED setupVars
    <3>1. UNCHANGED call_ /\ UNCHANGED phase /\ UNCHANGED next /\ UNCHANGED setters
      BY <2>1 DEF setupVars, setup_, Make, MakeThrows
    <3>2. /\ UNCHANGED <<info, variables, present, rejected>> /\ (Faulty' <=> Faulty)
          /\ \A m : Mode(m)' = Mode(m)
      BY <3>1, ReadsStay, ParametersStay
    <3>3. Readable(ReadBefore(phase, next))' <=> Readable(ReadBefore(phase, next))
      BY <3>1, ReadsStay
    <3> QED BY <3>1, <3>2, <3>3 DEF ReadInv, ItemsOf
  <2> QED BY <2>1, FirstReads, InputReads, TriggersRead, AcquisitionReads, LastReads DEF CallNext, SetupNext
<1> QED BY <1>1, <1>2, SetupInvHolds, PTL DEF CallSpec

\* The maker of a picoscope returns the device exactly if nothing that its document makes it
\* read or set is at fault, for every order in which the device refuses and parameters fail;
\* what it throws for is what is wanted, or the settings every block has.
THEOREM ThrowsOnlyForFaults == CallSpec => []ThrowsForItsFaults
<1>1. SetupInv /\ ReadInv => ThrowsForItsFaults
  <2> SUFFICES ASSUME SetupInv, ReadInv, phase \in {"returned", "done"} PROVE ~Faulty
    BY DEF ReadInv, ThrowsForItsFaults
  <2>1. present /\ IsPicoscope(info.key)
    BY DEF ReadInv, Opened
  <2>2. Wanted \cap rejected = {}
    <3>1. ItemsOf(setters) = Wanted
      BY SetBeforeAt DEF SetupInv, SettersInv
    <3> QED BY <3>1 DEF ReadInv
  <2>3. Readable(MakerReads(info))
    <3>1. Readable(SourceReads \cup TriggerReads \cup Acquisition(info))
      BY ReadBeforeAt DEF ReadInv, Opened
    <3>2. Readable({ModeRead})
      BY ModeReadable DEF ReadInv, Readable
    <3>3. /\ FixedReads \subseteq SourceReads /\ AnalogReads(Len(Channels) + 1) \subseteq SourceReads
          /\ DigitalReads(Len(Ports) + 1) \subseteq SourceReads /\ GetText("trigger_source") \in SourceReads
      BY DEF SourceReads, PortReads, ChannelReads, CommonReads, FixedReads
    <3>4. MakerReads(info) \subseteq {ModeRead} \cup SourceReads \cup TriggerReads \cup Acquisition(info)
      BY <2>1, <3>3, MakerReadsParts
    <3> QED BY <3>1, <3>2, <3>4 DEF Readable
  <2> QED BY <2>1, <2>2, <2>3 DEF Faulty
<1> QED BY <1>1, SetupInvHolds, ReadInvHolds, PTL
-----------------------------------------------------------------------------
(* What a maker may read *)

KnownRead(r) ==
    /\ r.how \in {"value", "eval", "vector", "enum", "one of", "waveform"}
    /\ r.how = "value" => r.type \in Integral \cup Real \cup {"string", "bool"}
    /\ r.how \in {"eval", "vector"} => r.type \in Integral \cup Real

Known(reads) == \A r \in reads : KnownRead(r)

LEMMA ReadForms ==
    /\ \A T \in Integral \cup Real \cup {"string", "bool"} : \A p : KnownRead(Get(T, p))
    /\ \A p : KnownRead(GetText(p)) /\ KnownRead(Enum(p)) /\ KnownRead(Waveform(p)) /\ KnownRead(SizeOf(p))
    /\ \A T \in Integral \cup Real : \A p : KnownRead(Eval(T, p)) /\ KnownRead(Vector(T, p))
    /\ \A p, texts : KnownRead(OneOf(p, texts))
BY DEF KnownRead, Get, GetText, Eval, Vector, Enum, OneOf, Waveform, SizeOf

LEMMA TypesKnown == \A T \in {"int", "unsigned", "size_t", "float", "double"} : T \in Integral \cup Real
BY DEF Integral, Real

LEMMA MakersKnown ==
    /\ Known(NullSinkMaker)
    /\ Known(NullSourceMaker)
    /\ Known(UcharToFloatMaker)
    /\ Known(VectorToStreamMaker)
    /\ Known(StreamToVectorMaker)
    /\ Known(VectorToStreamsMaker)
    /\ Known(ComplexToMagMaker)
    /\ Known(ComplexToMagPhaseMaker)
    /\ Known(SigSourceMaker)
    /\ Known(ThrottleMaker)
    /\ Known(TagShareMaker)
    /\ Known(TagDebugMaker)
    /\ Known(ComplexToFloatMaker)
    /\ Known(FloatToComplexMaker)
    /\ Known(AggregationMaker)
    /\ Known(AmplitudeAndPhaseMaker)
    /\ Known(ComplexToMagDegMaker)
    /\ Known(DemuxMaker)
    /\ Known(ScalingOffsetMaker)
    /\ Known(SpectralPeaksMaker)
    /\ Known(FrequencyEstimatorMaker)
    /\ Known(CascadeSinkMaker)
    /\ Known(ChiSquareFitMaker)
    /\ Known(DecimateAndAdjustTimebaseMaker)
    /\ Known(EdgeTriggerMaker)
    /\ Known(EdgeTriggerReceiverMaker)
    /\ Known(ExtractorMaker)
    /\ Known(FreqSinkMaker)
    /\ Known(FunctionMaker)
    /\ Known(InterlockGenerationMaker)
    /\ Known(PicoscopeMaker)
    /\ Known(PostMortemSinkMaker)
    /\ Known(SignalAveragerMaker)
    /\ Known(StftAlgorithmsMaker)
    /\ Known(StftGoertzlDynamicMaker)
    /\ Known(TimeDomainSinkMaker)
    /\ Known(TimeRealignmentMaker)
    /\ Known(WrReceiverMaker)
    /\ Known(AmplitudePhaseAdjusterMaker)
    /\ Known(FreqXlatingFirFilterMaker)
<1>1. Known(NullSinkMaker)
  BY ReadForms, TypesKnown DEF Known, NullSinkMaker
<1>2. Known(NullSourceMaker)
  BY ReadForms, TypesKnown DEF Known, NullSourceMaker
<1>3. Known(UcharToFloatMaker)
  BY ReadForms, TypesKnown DEF Known, UcharToFloatMaker
<1>4. Known(VectorToStreamMaker)
  BY ReadForms, TypesKnown DEF Known, VectorToStreamMaker
<1>5. Known(StreamToVectorMaker)
  BY ReadForms, TypesKnown DEF Known, StreamToVectorMaker
<1>6. Known(VectorToStreamsMaker)
  BY ReadForms, TypesKnown DEF Known, VectorToStreamsMaker
<1>7. Known(ComplexToMagMaker)
  BY ReadForms, TypesKnown DEF Known, ComplexToMagMaker
<1>8. Known(ComplexToMagPhaseMaker)
  BY ReadForms, TypesKnown DEF Known, ComplexToMagPhaseMaker
<1>9. Known(SigSourceMaker)
  BY ReadForms, TypesKnown DEF Known, SigSourceMaker
<1>10. Known(ThrottleMaker)
  BY ReadForms, TypesKnown DEF Known, ThrottleMaker
<1>11. Known(TagShareMaker)
  BY ReadForms, TypesKnown DEF Known, TagShareMaker
<1>12. Known(TagDebugMaker)
  BY ReadForms, TypesKnown DEF Known, TagDebugMaker
<1>13. Known(ComplexToFloatMaker)
  BY ReadForms, TypesKnown DEF Known, ComplexToFloatMaker
<1>14. Known(FloatToComplexMaker)
  BY ReadForms, TypesKnown DEF Known, FloatToComplexMaker
<1>15. Known(AggregationMaker)
  BY ReadForms, TypesKnown DEF Known, AggregationMaker
<1>16. Known(AmplitudeAndPhaseMaker)
  BY ReadForms, TypesKnown DEF Known, AmplitudeAndPhaseMaker
<1>17. Known(ComplexToMagDegMaker)
  BY ReadForms, TypesKnown DEF Known, ComplexToMagDegMaker
<1>18. Known(DemuxMaker)
  BY ReadForms, TypesKnown DEF Known, DemuxMaker
<1>19. Known(ScalingOffsetMaker)
  BY ReadForms, TypesKnown DEF Known, ScalingOffsetMaker
<1>20. Known(SpectralPeaksMaker)
  BY ReadForms, TypesKnown DEF Known, SpectralPeaksMaker
<1>21. Known(FrequencyEstimatorMaker)
  BY ReadForms, TypesKnown DEF Known, FrequencyEstimatorMaker
<1>22. Known(CascadeSinkMaker)
  BY ReadForms, TypesKnown DEF Known, CascadeSinkMaker
<1>23. Known(ChiSquareFitMaker)
  BY ReadForms, TypesKnown DEF Known, ChiSquareFitMaker
<1>24. Known(DecimateAndAdjustTimebaseMaker)
  BY ReadForms, TypesKnown DEF Known, DecimateAndAdjustTimebaseMaker
<1>25. Known(EdgeTriggerMaker)
  BY ReadForms, TypesKnown DEF Known, EdgeTriggerMaker
<1>26. Known(EdgeTriggerReceiverMaker)
  BY ReadForms, TypesKnown DEF Known, EdgeTriggerReceiverMaker
<1>27. Known(ExtractorMaker)
  BY ReadForms, TypesKnown DEF Known, ExtractorMaker
<1>28. Known(FreqSinkMaker)
  BY ReadForms, TypesKnown DEF Known, FreqSinkMaker
<1>29. Known(FunctionMaker)
  BY ReadForms, TypesKnown DEF Known, FunctionMaker
<1>30. Known(InterlockGenerationMaker)
  BY ReadForms, TypesKnown DEF Known, InterlockGenerationMaker
<1>31. Known(PicoscopeMaker)
  BY ReadForms, TypesKnown DEF Known, PicoscopeMaker
<1>32. Known(PostMortemSinkMaker)
  BY ReadForms, TypesKnown DEF Known, PostMortemSinkMaker
<1>33. Known(SignalAveragerMaker)
  BY ReadForms, TypesKnown DEF Known, SignalAveragerMaker
<1>34. Known(StftAlgorithmsMaker)
  BY ReadForms, TypesKnown DEF Known, StftAlgorithmsMaker
<1>35. Known(StftGoertzlDynamicMaker)
  BY ReadForms, TypesKnown DEF Known, StftGoertzlDynamicMaker
<1>36. Known(TimeDomainSinkMaker)
  BY ReadForms, TypesKnown DEF Known, TimeDomainSinkMaker
<1>37. Known(TimeRealignmentMaker)
  BY ReadForms, TypesKnown DEF Known, TimeRealignmentMaker
<1>38. Known(WrReceiverMaker)
  BY ReadForms, TypesKnown DEF Known, WrReceiverMaker
<1>39. Known(AmplitudePhaseAdjusterMaker)
  BY ReadForms, TypesKnown DEF Known, AmplitudePhaseAdjusterMaker
<1>40. Known(FreqXlatingFirFilterMaker)
  BY ReadForms, TypesKnown DEF Known, FreqXlatingFirFilterMaker
<1> QED BY <1>1, <1>2, <1>3, <1>4, <1>5, <1>6, <1>7, <1>8, <1>9, <1>10, <1>11, <1>12, <1>13,
           <1>14, <1>15, <1>16, <1>17, <1>18, <1>19, <1>20, <1>21, <1>22, <1>23, <1>24, <1>25,
           <1>26, <1>27, <1>28, <1>29, <1>30, <1>31, <1>32, <1>33, <1>34, <1>35, <1>36, <1>37,
           <1>38, <1>39, <1>40

LEMMA HandlersKnown == \A key \in DOMAIN handlers_b : Known(handlers_b[key])
BY MakersKnown DEF handlers_b

LEMMA ReadsKnown ==
    ASSUME NEW b, supported_block_type(b.key)
    PROVE  Known(MakerReads(b))
<1>1. Known(handlers_b[b.key])
  BY HandlersKnown DEF supported_block_type
<1>2. /\ \A c : Known(AnalogChannel(b, c)) /\ Known(DigitalPort(c))
      /\ \A digital : Known(Trigger(b, digital))
      /\ Known(Acquisition(b))
  <2>1. \A c : Known(AnalogChannel(b, c))
    BY ReadForms, TypesKnown DEF Known, AnalogChannel
  <2>2. \A c : Known(DigitalPort(c))
    BY ReadForms, TypesKnown DEF Known, DigitalPort
  <2>3. \A digital : Known(Trigger(b, digital))
    BY ReadForms, TypesKnown DEF Known, Trigger
  <2>4. Known(Acquisition(b))
    BY ReadForms, TypesKnown DEF Known, Acquisition
  <2> QED BY <2>1, <2>2, <2>3, <2>4
<1>3. Known(Ps3000aMaker(b)) /\ Known(Ps4000aMaker(b)) /\ Known(Ps6000Maker(b))
  <2>1. \A C : Known(UNION {AnalogChannel(b, c) : c \in C})
    BY <1>2 DEF Known
  <2> QED BY <1>2, <2>1 DEF Known, Ps3000aMaker, Ps4000aMaker, Ps6000Maker
<1> QED BY <1>1, <1>3 DEF Known, MakerReads

\* What each read gives.
LEMMA OutcomesOf ==
    ASSUME NEW r, KnownRead(r), NEW b, NEW list
    PROVE  read_outcomes(r, b, list) =
              CASE r.how = "value"    -> param_value(r.type, b, r.param)
                [] r.how = "eval"     -> eval_param_value(r.type, b, r.param, list)
                [] r.how = "vector"   -> eval_param_vector(r.type, b, r.param, list)
                [] r.how = "enum"     -> eval_param_enum(b, r.param)
                [] r.how = "one of"   -> param_value("string", b, r.param) \cap r.texts
                [] r.how = "waveform" -> UNION {lexical_cast(t) : t \in param_value("string", b, r.param)}
BY DEF read_outcomes

LEMMA TextRead ==
    ASSUME NEW b, NEW p, p \in DOMAIN b.params
    PROVE  param_value("string", b, p) = {TextOf(b, p)}
BY DEF param_value, convert_to, TextOf

\* There is nothing to read from a parameter that is not there.
LEMMA ReadNeedsParameter ==
    ASSUME NEW r, KnownRead(r), NEW b, NEW list, read_outcomes(r, b, list) # {}
    PROVE  r.param \in DOMAIN b.params
<1> SUFFICES ASSUME r.param \notin DOMAIN b.params PROVE read_outcomes(r, b, list) = {}
  OBVIOUS
<1>1. \A T : param_value(T, b, r.param) = {}
  BY DEF param_value
<1>2. \A T : eval_param_value(T, b, r.param, list) = {} /\ eval_param_vector(T, b, r.param, list) = {}
  BY <1>1 DEF eval_param_value, eval_param_vector
<1>3. eval_param_enum(b, r.param) = {}
  BY <1>1 DEF eval_param_enum
<1>4. UNION {lexical_cast(t) : t \in param_value("string", b, r.param)} = {}
  BY <1>1
<1> QED BY <1>1, <1>2, <1>3, <1>4, OutcomesOf DEF KnownRead

-----------------------------------------------------------------------------
(* The ways in which the reads of a maker can turn out *)

LEMMA SelectionFacts ==
    ASSUME NEW S, NEW args \in Selections(S)
    PROVE  args = [r \in DOMAIN S |-> args[r]] /\ \A r \in DOMAIN S : args[r] \in S[r]
<1> DEFINE free    == {r \in DOMAIN S : \E v, w \in S[r] : v # w}
           chosen  == {f \in [free -> UNION {S[r] : r \in free}] : \A r \in free : f[r] \in S[r]}
           only(r) == CHOOSE v \in S[r] : TRUE
           all(f)  == [r \in DOMAIN S |-> IF r \in free THEN f[r] ELSE only(r)]
<1>1. \A r \in DOMAIN S : S[r] # {}
  BY DEF Selections
<1>2. PICK f \in chosen : args = all(f)
  BY <1>1 DEF Selections
<1>3. \A r \in DOMAIN S : only(r) \in S[r]
  BY <1>1
<1>4. \A r \in free : f[r] \in S[r]
  OBVIOUS
<1> HIDE DEF free, chosen, only
<1> QED BY <1>2, <1>3, <1>4

LEMMA OneSelection ==
    ASSUME NEW S, \A r \in DOMAIN S : \A v, w \in S[r] : v = w,
           NEW a \in Selections(S), NEW b \in Selections(S)
    PROVE  a = b
<1>1. a = [r \in DOMAIN S |-> a[r]] /\ b = [r \in DOMAIN S |-> b[r]] /\ \A r \in DOMAIN S : a[r] = b[r]
  BY SelectionFacts
<1> QED BY <1>1

-----------------------------------------------------------------------------
(* The block that is returned is one of those make_block may return *)

MadeInv ==
    /\ IsDocument
    /\ WasMade => answer.block \in make_block(info, variables)

LEMMA AnswerOfStep ==
    ASSUME [CallNext]_setupVars
    PROVE  /\ UNCHANGED <<info, variables>>
           /\ \/ answer' = answer \/ answer' = Thrown
              \/ \E block \in make_block(info, variables) : answer' = Made(block)
<1> DEFINE Kept == UNCHANGED call_ /\ (answer' = answer \/ answer' = Thrown)
<1>1. Fail => Kept
  BY DEF Fail
<1>2. \A reads, called, to, n : Do(reads, called, to, n) => Kept
  BY <1>1 DEF Do
<1>3. CASE Make \/ MakeThrows \/ UNCHANGED setupVars \/ ReturnDevice
  BY <1>3 DEF Make, MakeThrows, setupVars, ReturnDevice, call_
<1>4. CASE NoDevice \/ RefuseMode \/ SettingsThrow \/ Open
  BY <1>4, <1>1 DEF NoDevice, RefuseMode, SettingsThrow, Open, call_
<1>5. CASE ReadCommon \/ SetCommon \/ SetChannel \/ ChannelsDone \/ SetPort \/ PortsDone
  <2> HIDE DEF Kept
  <2>1. Kept
    BY <1>2, <1>5 DEF ReadCommon, SetCommon, SetChannel, ChannelsDone, SetPort, PortsDone
  <2> QED BY <2>1 DEF Kept, call_
<1>6. CASE NoTrigger \/ DigitalTrigger \/ ChannelTrigger \/ SetStreaming \/ SetRapidBlock \/ SetSamples
  <2> HIDE DEF Kept
  <2>1. Kept
    BY <1>2, <1>6 DEF NoTrigger, DigitalTrigger, ChannelTrigger, SetStreaming, SetRapidBlock, SetSamples
  <2> QED BY <2>1 DEF Kept, call_
<1> QED BY <1>3, <1>4, <1>5, <1>6 DEF CallNext, SetupNext

LEMMA MadeInvHolds == CallSpec => []MadeInv
<1>1. IsDocument /\ SetupBegins => MadeInv
  BY DEF SetupBegins, MadeInv, WasMade, None
<1>2. MadeInv /\ [CallNext]_setupVars => MadeInv'
  <2> SUFFICES ASSUME MadeInv, [CallNext]_setupVars PROVE MadeInv'
    OBVIOUS
  <2>1. IsDocument'
    BY AnswerOfStep DEF MadeInv, IsDocument, ItemsOf
  <2>2. make_block(info, variables)' = make_block(info, variables)
    BY AnswerOfStep
  <2> QED BY <2>1, <2>2, AnswerOfStep DEF MadeInv, WasMade, Made, Thrown
<1> QED BY <1>1, <1>2, PTL DEF CallSpec

\* What a block was given is what the reads of its maker may give.
LEMMA ArgumentsRead ==
    ASSUME MadeInv, WasMade
    PROVE  /\ supported_block_type(info.key) /\ Known(MakerReads(info))
           /\ \A r \in MakerReads(info) : Args[r] \in read_outcomes(r, info, variables)
<1>1. supported_block_type(info.key) /\ Args \in make(info, variables)
  BY DEF MadeInv, make_block, Args
<1>2. Known(MakerReads(info))
  BY <1>1, ReadsKnown
<1>3. ASSUME NEW args \in Arguments(MakerReads(info), info, variables), NEW r \in MakerReads(info)
      PROVE  args[r] \in read_outcomes(r, info, variables)
  BY <1>3, SelectionFacts DEF Arguments
<1>4. CASE info.key = "freq_xlating_fir_filter_xxx"
  <2>1. PICK taps \in FilterTaps(info, variables), args \in Arguments(MakerReads(info), info, variables) :
            Args = [r \in MakerReads(info) \cup {FilterRead} |-> IF r = FilterRead THEN taps ELSE args[r]]
    BY <1>1, <1>4 DEF make
  <2>2. \A r \in MakerReads(info) : r # FilterRead
    <3>1. FilterRead.how = "taps"
      BY DEF FilterRead
    <3>2. \A r \in MakerReads(info) : r.how # "taps"
      BY <1>2 DEF Known, KnownRead
    <3> QED BY <3>1, <3>2
  <2> QED BY <1>1, <1>2, <1>3, <2>1, <2>2
<1>5. CASE info.key # "freq_xlating_fir_filter_xxx"
  BY <1>1, <1>2, <1>3, <1>5 DEF make
<1> QED BY <1>4, <1>5

\* No parameter has a default, whatever the maker, the document and its variables are.
THEOREM NothingDefaulted == CallSpec => []NothingIsDefaulted
<1>1. MadeInv => NothingIsDefaulted
  BY ArgumentsRead, ReadNeedsParameter DEF NothingIsDefaulted, Known
<1> QED BY <1>1, MadeInvHolds, PTL

-----------------------------------------------------------------------------
(* What the variables of a document convert to *)

ValueAt(i) == Unquote(variables[i].params["value"])

\* A value that is set is never empty, and a number has a size.
LEMMA SetText ==
    ASSUME NEW t \in Text, t \notin {Empty, Blank}
    PROVE  /\ Unquote(t) # Empty
           /\ Unquote(t).kind = "number" => Unquote(t).half \in Int /\ Unquote(t) = Number(Unquote(t).half)
<1>1. CASE t.kind = "quoted"
  BY <1>1 DEF Text, Plain, Unquote, Number, Empty, Blank, Quotes
<1>2. CASE t.kind # "quoted"
  BY <1>2 DEF Text, Plain, Unquote, Number, Empty, Blank, Quotes
<1> QED BY <1>1, <1>2

LEMMA SetValue ==
    ASSUME IsDocument, NEW i \in DOMAIN variables, is_param_set(variables[i], "value")
    PROVE  /\ "value" \in DOMAIN variables[i].params
           /\ ValueAt(i) # Empty
           /\ ValueAt(i).kind = "number" => ValueAt(i).half \in Int /\ ValueAt(i) = Number(ValueAt(i).half)
<1>1. /\ "value" \in DOMAIN variables[i].params
      /\ variables[i].params["value"] \notin {Empty, Blank}
  BY DEF is_param_set
<1>2. variables[i].params["value"] \in Text
  BY <1>1 DEF IsDocument, IsBlockInfo
<1> QED BY <1>1, <1>2, SetText DEF ValueAt

\* What converts to a number is one, or is blank.
LEMMA ConvertsToNumber ==
    ASSUME NEW T \in Integral \cup Real, NEW t, t # Empty, t # Blank, convert_to(T, t) # {}
    PROVE  t.kind = "number" /\ (T \in Integral => t.half % 2 # 1)
<1>1. T \notin {"string", "bool"}
  BY DEF Integral, Real
<1>2. convert_to(T, t) = convert_number(T, t)
  BY <1>1 DEF convert_to
<1>3. T \in Integral => T \notin Real
  BY DEF Integral, Real
<1> QED BY <1>2, <1>3 DEF convert_number

\* If there is a map, every value that is set converts.
LEMMA ValuesConvert ==
    ASSUME IsDocument, NEW T \in Integral \cup Real, NEW map \in variable_map(T, variables),
           NEW i \in DOMAIN variables, is_param_set(variables[i], "value"), ValueAt(i) # Blank
    PROVE  /\ ValueAt(i).kind = "number" /\ ValueAt(i).half \in Int
           /\ ValueAt(i) = Number(ValueAt(i).half)
           /\ T \in Integral => ValueAt(i).half % 2 = 0
<1>1. param_value(T, variables[i], "value") # {}
  BY DEF variable_map
<1>2. convert_to(T, ValueAt(i)) # {}
  BY <1>1, SetValue DEF param_value, ValueAt
<1>3. ValueAt(i).kind = "number" /\ (T \in Integral => ValueAt(i).half % 2 # 1)
  BY <1>2, SetValue, ConvertsToNumber
<1>4. ValueAt(i).half \in Int /\ ValueAt(i) = Number(ValueAt(i).half)
  BY <1>3, SetValue
<1>5. \A h \in Int : h % 2 # 1 => h % 2 = 0
  OBVIOUS
<1> QED BY <1>3, <1>4, <1>5

\* Whatever the block names: a block that evaluates an integer needs every variable of
\* the document to be one.
THEOREM FractionsStop == CallSpec => []FractionStopsIntegers
<1>1. MadeInv => FractionStopsIntegers
  <2> SUFFICES ASSUME MadeInv, WasMade, NEW r \in MakerReads(info), r.how = "eval", r.type \in Integral,
                      NEW i \in DOMAIN variables, is_param_set(variables[i], "value"), ValueAt(i) # Blank
               PROVE  ValueAt(i).kind = "number" /\ ValueAt(i).half % 2 = 0
    BY DEF FractionStopsIntegers, ValueAt
  <2>1. Args[r] \in eval_param_value(r.type, info, r.param, variables)
    BY ArgumentsRead, OutcomesOf DEF Known
  <2>2. PICK map \in variable_map(r.type, variables) : TRUE
    BY <2>1 DEF eval_param_value
  <2> QED BY <2>2, ValuesConvert DEF MadeInv
<1> QED BY <1>1, MadeInvHolds, PTL

-----------------------------------------------------------------------------
(* The numbers of an instance *)

LEMMA WidthFacts ==
    ASSUME NEW T \in Integral
    PROVE  Least(T) \in Int /\ Least(T) <= 0 /\ Greatest(T) \in Nat
<1>1. MaxInt \in Nat
  BY MaxIntAssumption
<1>2. (2 * MaxInt + 2) * (2 * MaxInt + 2) - 1 \in Nat
  <2>1. \A k \in Nat : k >= 1 => k * k \in Nat /\ k * k >= 1
    OBVIOUS
  <2> QED BY <1>1, <2>1
<1> QED BY <1>1, <1>2 DEF Integral, Least, Greatest

LEMMA StoredInRange ==
    ASSUME NEW T \in Integral, NEW i \in Least(T)..Greatest(T)
    PROVE  Stored(T, i) = i
<1>1. Least(T) \in Int /\ Least(T) <= 0 /\ Greatest(T) \in Nat
  BY WidthFacts
<1>2. CASE T = "int"
  BY <1>1, <1>2 DEF Stored
<1>3. CASE T # "int"
  <2>1. Least(T) = 0
    BY <1>3 DEF Least
  <2>2. \A m, j \in Nat : j < m => j % m = j
    OBVIOUS
  <2>3. i \in Nat /\ i < Greatest(T) + 1 /\ Greatest(T) + 1 \in Nat
    BY <1>1, <2>1
  <2>4. i % (Greatest(T) + 1) = i
    BY <2>2, <2>3
  <2> QED BY <1>1, <1>3, <2>3, <2>4 DEF Stored
<1> QED BY <1>2, <1>3

\* An even number of halves in the range of T is stored and cast as it is.
LEMMA InRangeFacts ==
    ASSUME NEW T \in Integral, NEW h \in Int, InRange(T, Number(h))
    PROVE  /\ h % 2 = 0 /\ h \div 2 \in Least(T)..Greatest(T) /\ 2 * (h \div 2) = h
           /\ convert_number(T, Number(h)) = {Number(h)}
           /\ static_cast(T, Number(h)) = {Number(h)}
<1>1. h % 2 = 0 /\ h \div 2 \in Least(T)..Greatest(T)
  BY DEF InRange, Number
<1>2. 2 * (h \div 2) = h
  BY <1>1
<1>3. T \notin Real
  BY DEF Integral, Real
<1>4. convert_number(T, Number(h)) = {Number(h)}
  <2>1. Number(h).kind = "number" /\ Number(h).half = h /\ Number(h) \notin {Empty, Blank}
    BY DEF Number, Empty, Blank
  <2> QED BY <1>1, <1>2, <1>3, <2>1, StoredInRange DEF convert_number
<1>5. static_cast(T, Number(h)) = {Number(h)}
  <2>1. Number(h) # NaN /\ Number(h).half = h
    BY DEF Number, NaN
  <2>2. (IF h >= 0 THEN h \div 2 ELSE -((-h) \div 2)) = h \div 2
    BY <1>1
  <2> QED BY <1>1, <1>2, <1>3, <2>1, <2>2 DEF static_cast
<1> QED BY <1>1, <1>2, <1>4, <1>5

\* So is half of a number in the range, if it is whole.
LEMMA HalfInRange ==
    ASSUME NEW T \in Integral, NEW h \in Int, h % 2 = 0, InRange(T, Number(2 * h))
    PROVE  InRange(T, Number(h))
<1>1. h \in Least(T)..Greatest(T)
  <2>1. (2 * h) \div 2 = h
    OBVIOUS
  <2> QED BY <2>1 DEF InRange, Number
<1>2. h \div 2 \in Least(T)..Greatest(T)
  BY <1>1, WidthFacts
<1> QED BY <1>2 DEF InRange, Number

-----------------------------------------------------------------------------
(* What a text evaluates to is what it denotes *)

\* The greatest of some indices is one of them.
LEMMA GreatestIndex ==
    ASSUME NEW n \in Nat, NEW S, S \subseteq 1..n, S # {}
    PROVE  Max(S) \in S
<1> DEFINE T == {n - x : x \in S}
<1>1. T \subseteq Nat /\ T # {}
  <2>1. \A x \in S : n - x \in Nat
    OBVIOUS
  <2>2. PICK x \in S : TRUE
    OBVIOUS
  <2> QED BY <2>1, <2>2
<1>2. PICK m \in T : \A t \in T : ~(<<t, m>> \in OpToRel(<, Nat))
  <2> HIDE DEF T
  <2> QED BY <1>1, NatLessThanWellFounded, WFMin
<1>3. PICK x \in S : m = n - x
  OBVIOUS
<1>4. \A y \in S : x >= y
  <2> TAKE y \in S
  <2>1. n - y \in T /\ n - y \in Nat /\ m \in Nat /\ x \in 1..n /\ y \in 1..n
    BY <1>1
  <2>2. ~(n - y < m)
    BY <1>2, <2>1 DEF OpToRel
  <2> QED BY <1>3, <2>1, <2>2
<1> QED BY <1>4 DEF Max

\* Of the names in the map the table has, in any capitals, the one that is meant.
LEMMA FoundIsMeant ==
    ASSUME NEW T, NEW map \in variable_map(T, variables), NEW w
    PROVE  /\ DOMAIN map = {variables[i].id : i \in {j \in DOMAIN variables : IsSet(j)}}
           /\ {m \in symbol_table(map) : Lower(m.word) = Lower(w)} = Meant(w)
<1> DEFINE names == {m \in DOMAIN map : m.kind = "word" /\ m.word \notin ReservedSymbols}
<1>1. DOMAIN map = {variables[i].id : i \in {j \in DOMAIN variables : IsSet(j)}}
  BY DEF variable_map, IsSet
<1>2. Spellings(w) = {m \in names : Lower(m.word) = Lower(w)}
  BY <1>1 DEF Spellings
<1>3. symbol_table(map) = {m \in names : \A k \in names : Lower(k.word) = Lower(m.word) => ~Less(k.word, m.word)}
  BY DEF symbol_table
<1> HIDE DEF names
<1>4. ASSUME NEW m \in names, Lower(m.word) = Lower(w)
      PROVE  (\A k \in names : Lower(k.word) = Lower(m.word) => ~Less(k.word, m.word))
                <=> (\A k \in Spellings(w) : ~Less(k.word, m.word))
  BY <1>2, <1>4
<1> QED BY <1>1, <1>2, <1>3, <1>4 DEF Meant

\* The variables that set a name are those of the name that is meant, if there is one.
LEMMA SettingsOfMeant ==
    ASSUME NEW w, NEW n, n = CHOOSE m \in Meant(w) : TRUE
    PROVE  /\ Setting(w) # {} <=> Meant(w) # {}
           /\ Meant(w) # {} => Setting(w) = {i \in DOMAIN variables : IsSet(i) /\ variables[i].id = n}
<1>1. CASE Meant(w) = {}
  BY <1>1 DEF Setting
<1>2. CASE Meant(w) # {}
  <2>1. Setting(w) = {i \in DOMAIN variables : IsSet(i) /\ variables[i].id = n}
    BY <1>2 DEF Setting
  <2>2. n \in Spellings(w)
    BY <1>2 DEF Meant
  <2>3. PICK i \in {j \in DOMAIN variables : IsSet(j)} : variables[i].id = n
    BY <2>2 DEF Spellings
  <2> QED BY <1>2, <2>1, <2>3
<1> QED BY <1>1, <1>2

\* The map has the name that is meant, if there is one, with what its last variable
\* converts to.
LEMMA MapOf ==
    ASSUME IsDocument, NEW T \in Integral \cup Real, NEW map \in variable_map(T, variables), NEW w,
           NEW n, n = CHOOSE m \in Meant(w) : TRUE
    PROVE  Setting(w) # {} =>
                 /\ map[n] \in convert_to(T, SetTo(w))
                 /\ SetTo(w) # Blank => /\ SetTo(w).kind = "number" /\ SetTo(w).half \in Int
                                        /\ SetTo(w) = Number(SetTo(w).half)
                                        /\ T \in Integral => SetTo(w).half % 2 = 0
<1> DEFINE setting  == {i \in DOMAIN variables : is_param_set(variables[i], "value")}
           value(i) == param_value(T, variables[i], "value")
           names    == {variables[i].id : i \in setting}
           last(k)  == Max({i \in setting : variables[i].id = k})
<1>1. map \in [names -> UNION {value(i) : i \in setting}] /\ \A k \in names : map[k] \in value(last(k))
  BY DEF variable_map
<1> SUFFICES ASSUME Setting(w) # {}
             PROVE  /\ map[n] \in convert_to(T, SetTo(w))
                    /\ SetTo(w) # Blank => /\ SetTo(w).kind = "number" /\ SetTo(w).half \in Int
                                           /\ SetTo(w) = Number(SetTo(w).half)
                                           /\ T \in Integral => SetTo(w).half % 2 = 0
  OBVIOUS
<1>2. Setting(w) = {i \in setting : variables[i].id = n}
  BY SettingsOfMeant DEF IsSet
<1>3. n \in names
  BY <1>2
<1> DEFINE k == Max(Setting(w))
<1>4. k \in Setting(w)
  <2>1. Setting(w) \subseteq 1..Len(variables) /\ Len(variables) \in Nat
    BY DEF Setting, IsDocument
  <2> QED BY <2>1, GreatestIndex
<1>5. k \in DOMAIN variables /\ is_param_set(variables[k], "value") /\ SetTo(w) = ValueAt(k)
  BY <1>2, <1>4 DEF SetTo, ValueAt
<1>6. map[n] \in value(k)
  <2>1. last(n) = k
    BY <1>2
  <2> HIDE DEF last, value, names
  <2> QED BY <1>1, <1>3, <2>1
<1>7. value(k) = convert_to(T, SetTo(w))
  BY <1>5, SetValue DEF param_value, ValueAt
<1> HIDE DEF k, value
<1> QED BY <1>5, <1>6, <1>7, ValuesConvert

LEMMA NumberNotNaN == \A h : Number(h) # NaN /\ Number(h).half = h /\ Number(h).kind = "number"
BY DEF Number, NaN

\* A name that exprtk has the value of.
IsTruth(w) == Lower(w) \in {"true", "false"}

\* The number of a name, once it has one.
LEMMA NameNumber ==
    ASSUME IsDocument, NEW w, NameDenotes(w) # NaN,
           NEW T \in Integral \cup Real, NEW map \in variable_map(T, variables)
    PROVE  /\ NameDenotes(w).half \in Int /\ NameDenotes(w) = Number(NameDenotes(w).half)
           /\ T \in Integral => NameDenotes(w).half % 2 = 0
<1>1. CASE IsTruth(w)
  <2>1. NameDenotes(w) = Number(2) \/ NameDenotes(w) = Number(0)
    BY <1>1 DEF NameDenotes, IsTruth
  <2> QED BY <2>1, NumberNotNaN
<1>2. CASE ~IsTruth(w)
  <2>1. NameDenotes(w) = SetTo(w) /\ Setting(w) # {} /\ SetTo(w).kind = "number"
    BY <1>2 DEF NameDenotes, IsTruth
  <2>2. SetTo(w) # Blank
    BY <2>1 DEF Blank
  <2> QED BY <2>1, <2>2, MapOf
<1> QED BY <1>1, <1>2

\* In the maps of a type a name has the number it stands for, if the type holds it.
LEMMA NameEvaluates ==
    ASSUME IsDocument, NEW w, NEW T \in Integral \cup Real, NEW map \in variable_map(T, variables),
           IF T \in Integral THEN NameDenotes(w) # NaN /\ InRange(T, NameDenotes(w))
           ELSE NameDenotes(w) # NaN \/ Setting(w) = {} \/ SetTo(w) # Blank
    PROVE  symbol_value(w, map) = NameDenotes(w)
<1> DEFINE n == CHOOSE m \in Meant(w) : TRUE
           unknown == w \in ReservedSymbols \/ Lower(w) \in ParserWords \/ Setting(w) = {}
<1>0. /\ {m \in symbol_table(map) : Lower(m.word) = Lower(w)} = Meant(w)
      /\ Setting(w) # {} <=> Meant(w) # {}
  BY FoundIsMeant, SettingsOfMeant
<1>1. CASE IsTruth(w)
  BY <1>1 DEF IsTruth, NameDenotes, symbol_value
<1>2. CASE ~IsTruth(w) /\ unknown
  <2>1. NameDenotes(w) = NaN
    BY <1>2 DEF NameDenotes, IsTruth
  <2>2. symbol_value(w, map) = NaN
    BY <1>0, <1>2 DEF symbol_value, IsTruth
  <2> QED BY <2>1, <2>2
<1>3. CASE ~IsTruth(w) /\ ~unknown
  <2>1. map[n] \in convert_to(T, SetTo(w))
    BY <1>3, MapOf
  <2>2. symbol_value(w, map) = map[n]
    BY <1>0, <1>3 DEF symbol_value, IsTruth
  <2> HIDE DEF n
  <2>3. SetTo(w) # Blank
    <3>1. NameDenotes(w) # NaN => SetTo(w).kind = "number"
      BY <1>3 DEF NameDenotes, IsTruth
    <3> QED BY <1>3, <3>1 DEF Blank
  <2>4. SetTo(w).kind = "number" /\ SetTo(w).half \in Int /\ SetTo(w) = Number(SetTo(w).half)
    BY <1>3, <2>3, MapOf
  <2>5. NameDenotes(w) = SetTo(w)
    BY <1>3, <2>4 DEF NameDenotes, IsTruth
  <2>6. convert_to(T, SetTo(w)) = convert_number(T, SetTo(w))
    BY DEF convert_to, Integral, Real
  <2>7. CASE T \in Integral
    <3>1. InRange(T, Number(SetTo(w).half))
      BY <2>4, <2>5, <2>7
    <3>2. convert_number(T, Number(SetTo(w).half)) = {Number(SetTo(w).half)}
      BY <2>4, <2>7, <3>1, InRangeFacts
    <3> QED BY <2>1, <2>2, <2>4, <2>5, <2>6, <3>2
  <2>8. CASE T \notin Integral
    <3>1. T \in Real /\ SetTo(w) # Empty
      BY <2>4, <2>8 DEF Empty
    <3>2. convert_number(T, SetTo(w)) = {SetTo(w)}
      BY <2>3, <2>4, <3>1 DEF convert_number
    <3> QED BY <2>1, <2>2, <2>5, <2>6, <3>2
  <2> QED BY <2>7, <2>8
<1> QED BY <1>1, <1>2, <1>3

LEMMA PlainNumber ==
    ASSUME NEW t \in Plain, t.kind = "number"
    PROVE  t.half \in Int /\ t = Number(t.half)
BY DEF Plain, Number, Empty, Blank, Quotes

\* A term: a number, a name, or twice a name.
LEMMA TermEvaluates ==
    ASSUME IsDocument, NEW t \in Plain, NEW T \in Integral \cup Real, NEW map \in variable_map(T, variables),
           IF T \in Integral THEN TermDenotes(t) # NaN /\ InRange(T, TermDenotes(t))
           ELSE \/ TermDenotes(t) # NaN
                \/ ~(t.kind \in {"word", "twice"} /\ Setting(t.word) # {} /\ SetTo(t.word) = Blank)
    PROVE  /\ evaluate_plain(t, map) = TermDenotes(t)
           /\ TermDenotes(t) # NaN => TermDenotes(t).half \in Int /\ TermDenotes(t) = Number(TermDenotes(t).half)
<1>1. CASE t.kind = "number"
  <2>1. TermDenotes(t) = t /\ evaluate_plain(t, map) = t
    BY <1>1 DEF TermDenotes, evaluate_plain
  <2> QED BY <1>1, <2>1, PlainNumber
<1>2. CASE t.kind = "word"
  <2>1. TermDenotes(t) = NameDenotes(t.word)
    BY <1>2 DEF TermDenotes
  <2>2. evaluate_plain(t, map) = symbol_value(t.word, map)
    BY <1>2 DEF evaluate_plain
  <2>3. symbol_value(t.word, map) = NameDenotes(t.word)
    BY <1>2, <2>1, NameEvaluates
  <2> QED BY <2>1, <2>2, <2>3, NameNumber
<1>3. CASE t.kind = "twice"
  <2> DEFINE v == NameDenotes(t.word)
  <2>1. TermDenotes(t) = IF v = NaN THEN NaN ELSE Number(2 * v.half)
    BY <1>3 DEF TermDenotes
  <2>2. evaluate_plain(t, map) = IF symbol_value(t.word, map) = NaN THEN NaN
                                 ELSE Number(2 * symbol_value(t.word, map).half)
    BY <1>3 DEF evaluate_plain
  <2>3. v # NaN => v.half \in Int /\ v = Number(v.half) /\ (T \in Integral => v.half % 2 = 0)
    BY NameNumber
  <2>4. T \in Integral => v # NaN /\ InRange(T, v)
    BY <2>1, <2>3, HalfInRange
  <2>5. symbol_value(t.word, map) = v
    <3> HIDE DEF v
    <3>1. T \notin Integral => v # NaN \/ Setting(t.word) = {} \/ SetTo(t.word) # Blank
      BY <1>3, <2>1
    <3> QED BY <2>4, <3>1, NameEvaluates DEF v
  <2>6. v # NaN => TermDenotes(t).half = 2 * v.half /\ 2 * v.half \in Int
    BY <2>1, <2>3, NumberNotNaN
  <2> HIDE DEF v
  <2> QED BY <2>1, <2>2, <2>5, <2>6, NumberNotNaN
<1>4. CASE t.kind \notin {"number", "word", "twice"}
  BY <1>4 DEF TermDenotes, evaluate_plain
<1> QED BY <1>1, <1>2, <1>3, <1>4

\* A text without its quotes is a term or a list of terms.
LEMMA UnquotedText ==
    ASSUME NEW t \in Text
    PROVE  Unquote(t) \in Plain \/ (Unquote(t).kind = "list" /\ Unquote(t).items \in Seq(Plain))
<1>1. CASE t.kind = "quoted"
  BY <1>1 DEF Text, Plain, Unquote, Empty, Blank, Quotes
<1>2. CASE t.kind # "quoted"
  BY <1>2 DEF Text, Unquote
<1> QED BY <1>1, <1>2

LEMMA ExpressionEvaluates ==
    ASSUME IsDocument, NEW b, IsBlockInfo(b), NEW p \in DOMAIN b.params,
           NEW T \in Integral \cup Real, NEW map \in variable_map(T, variables),
           IF T \in Integral THEN Denotes(TextOf(b, p)) # NaN /\ InRange(T, Denotes(TextOf(b, p)))
           ELSE Denotes(TextOf(b, p)) # NaN \/ ~NamesBlank(TextOf(b, p))
    PROVE  /\ evaluate_expression(TextOf(b, p), map) = Denotes(TextOf(b, p))
           /\ Denotes(TextOf(b, p)) # NaN => /\ Denotes(TextOf(b, p)).half \in Int
                                             /\ Denotes(TextOf(b, p)) = Number(Denotes(TextOf(b, p)).half)
<1> DEFINE t == TextOf(b, p)
<1>1. t \in Plain \/ (t.kind = "list" /\ t.items \in Seq(Plain))
  BY UnquotedText DEF TextOf, IsBlockInfo
<1>2. t \in Plain => t.kind # "list"
  BY DEF Plain, Empty, Blank, Quotes
<1> HIDE DEF t
<1>3. CASE t.kind = "list" /\ Len(t.items) = 1
  <2>1. t.items[1] \in Plain /\ t.items[1] \in ItemsOf(t.items)
    BY <1>1, <1>2, <1>3 DEF ItemsOf
  <2>2. Denotes(t) = TermDenotes(t.items[1]) /\ evaluate_expression(t, map) = evaluate_plain(t.items[1], map)
    BY <1>3 DEF Denotes, evaluate_expression
  <2>3. ~NamesBlank(t) => ~(/\ t.items[1].kind \in {"word", "twice"} /\ Setting(t.items[1].word) # {}
                            /\ SetTo(t.items[1].word) = Blank)
    BY <1>3, <2>1 DEF NamesBlank, Terms
  <2> QED BY <2>1, <2>2, <2>3, TermEvaluates DEF t
<1>4. CASE t.kind = "list" /\ Len(t.items) # 1
  BY <1>4 DEF Denotes, evaluate_expression, TermDenotes, t
<1>5. CASE t.kind # "list"
  <2>1. t \in Plain
    BY <1>1, <1>5
  <2>2. Denotes(t) = TermDenotes(t) /\ evaluate_expression(t, map) = evaluate_plain(t, map)
    BY <1>5 DEF Denotes, evaluate_expression
  <2>3. ~NamesBlank(t) => ~(t.kind \in {"word", "twice"} /\ Setting(t.word) # {} /\ SetTo(t.word) = Blank)
    BY <1>5 DEF NamesBlank, Terms
  <2> QED BY <2>1, <2>2, <2>3, TermEvaluates DEF t
<1> QED BY <1>3, <1>4, <1>5

\* What is read of a parameter that denotes a number of its type is that number.
LEMMA EvaluatedAsDenoted ==
    ASSUME IsDocument, NEW b, IsBlockInfo(b), NEW p \in DOMAIN b.params, NEW T \in Integral \cup Real,
           NEW v \in eval_param_value(T, b, p, variables),
           IF T \in Integral THEN Denotes(TextOf(b, p)) # NaN /\ InRange(T, Denotes(TextOf(b, p)))
           ELSE Denotes(TextOf(b, p)) # NaN \/ ~NamesBlank(TextOf(b, p))
    PROVE  v = Denotes(TextOf(b, p))
<1>1. PICK map \in variable_map(T, variables) : v \in static_cast(T, evaluate_expression(TextOf(b, p), map))
  BY TextRead DEF eval_param_value
<1>2. v \in static_cast(T, Denotes(TextOf(b, p)))
  BY <1>1, ExpressionEvaluates
<1>3. CASE T \in Integral
  <2>1. /\ Denotes(TextOf(b, p)).half \in Int
        /\ Denotes(TextOf(b, p)) = Number(Denotes(TextOf(b, p)).half)
    BY <1>1, <1>3, ExpressionEvaluates
  <2>2. static_cast(T, Number(Denotes(TextOf(b, p)).half)) = {Number(Denotes(TextOf(b, p)).half)}
    BY <1>3, <2>1, InRangeFacts
  <2> QED BY <1>2, <2>1, <2>2
<1>4. CASE T \notin Integral
  BY <1>2, <1>4 DEF static_cast
<1> QED BY <1>3, <1>4

\* An evaluated parameter is the number its text denotes, whatever the maker, the type,
\* the spelling and the variables are.
THEOREM ArgumentsDenoted == CallSpec => []ArgumentsAreDenoted
<1>1. MadeInv => ArgumentsAreDenoted
  <2> SUFFICES ASSUME MadeInv, WasMade, NEW r \in MakerReads(info), r.how = "eval",
                      Denotes(TextOf(info, r.param)) # NaN,
                      r.type \in Real \/ InRange(r.type, Denotes(TextOf(info, r.param)))
               PROVE  Args[r] = Denotes(TextOf(info, r.param))
    BY DEF ArgumentsAreDenoted
  <2>1. KnownRead(r) /\ Args[r] \in read_outcomes(r, info, variables)
    BY ArgumentsRead DEF Known
  <2>2. Args[r] \in eval_param_value(r.type, info, r.param, variables)
    BY <2>1, OutcomesOf
  <2>3. r.param \in DOMAIN info.params /\ r.type \in Integral \cup Real
    BY <2>1, ReadNeedsParameter DEF KnownRead
  <2>4. r.type \in Integral => r.type \notin Real
    BY DEF Integral, Real
  <2> QED BY <2>2, <2>3, <2>4, EvaluatedAsDenoted DEF MadeInv, IsDocument
<1> QED BY <1>1, MadeInvHolds, PTL

-----------------------------------------------------------------------------
(* The same document, the same block *)

Single(S) == \A v, w \in S : v = w

LEMMA TextSingle == \A b, p : Single(param_value("string", b, p))
BY DEF Single, param_value, convert_to

\* A text that is there and not empty converts in one way at most.
LEMMA ConvertsOnce ==
    ASSUME NEW T \in Integral \cup Real \cup {"string", "bool"}, NEW t,
           ~(T \in Integral \cup Real /\ t \in {Empty, Blank})
    PROVE  Single(convert_to(T, t))
<1>1. CASE T = "string"
  BY <1>1 DEF convert_to, Single
<1>2. CASE T = "bool"
  <2>1. convert_to(T, t) = convert_bool(t)
    BY <1>2 DEF convert_to
  <2>2. Single(convert_bool(t))
    BY DEF convert_bool, Single
  <2> QED BY <2>1, <2>2
<1>3. CASE T \in Integral \cup Real
  <2>1. convert_to(T, t) = convert_number(T, t)
    BY <1>3 DEF convert_to, Integral, Real
  <2>2. t \notin {Empty, Blank}
    BY <1>3
  <2>3. Single(convert_number(T, t))
    BY <2>2 DEF convert_number, Single
  <2> QED BY <2>1, <2>3
<1> QED BY <1>1, <1>2, <1>3

\* The value of a part of a vector is the same in every map of the variables.
LEMMA PartEvaluates ==
    ASSUME IsDocument, NEW b, IsBlockInfo(b), NEW p \in DOMAIN b.params, ~NamesBlank(TextOf(b, p)),
           NEW T \in Real, NEW map \in variable_map("double", variables),
           NEW k \in DOMAIN Parts(TextOf(b, p))
    PROVE  static_cast(T, evaluate_expression(Parts(TextOf(b, p))[k], map)) = {Denotes(Parts(TextOf(b, p))[k])}
<1> DEFINE t == TextOf(b, p)
<1>1. t \in Plain \/ (t.kind = "list" /\ t.items \in Seq(Plain))
  BY UnquotedText DEF TextOf, IsBlockInfo
<1>2. \A u \in Plain : u.kind # "list"
  BY DEF Plain, Empty, Blank, Quotes
<1>3. "double" \in Real /\ "double" \notin Integral
  BY DEF Real, Integral
<1>4. \A v : static_cast(T, v) = {v}
  BY DEF static_cast
<1>5. CASE t.kind = "list" /\ t.items # <<>>
  <2>1. Parts(t) = t.items /\ t.items \in Seq(Plain)
    BY <1>1, <1>2, <1>5 DEF Parts
  <2> DEFINE u == t.items[k]
  <2>2. u \in Plain /\ u \in ItemsOf(t.items) /\ Parts(t)[k] = u
    BY <2>1 DEF ItemsOf
  <2>3. ~(u.kind \in {"word", "twice"} /\ Setting(u.word) # {} /\ SetTo(u.word) = Blank)
    BY <1>5, <2>2 DEF NamesBlank, Terms
  <2> HIDE DEF t, u
  <2>4. evaluate_plain(u, map) = TermDenotes(u)
    BY <1>3, <2>2, <2>3, TermEvaluates
  <2>5. evaluate_expression(u, map) = evaluate_plain(u, map) /\ Denotes(u) = TermDenotes(u)
    BY <1>2, <2>2 DEF evaluate_expression, Denotes
  <2> QED BY <1>4, <2>2, <2>4, <2>5 DEF t
<1>6. CASE ~(t.kind = "list" /\ t.items # <<>>)
  <2>1. Parts(t)[k] = t
    BY <1>6 DEF Parts
  <2>2. evaluate_expression(t, map) = Denotes(t)
    BY <1>3, ExpressionEvaluates
  <2> QED BY <1>4, <2>1, <2>2
<1> QED BY <1>5, <1>6

LEMMA VectorOnce ==
    ASSUME IsDocument, NEW b, IsBlockInfo(b), NEW p \in DOMAIN b.params, ~NamesBlank(TextOf(b, p)),
           NEW T \in Real
    PROVE  Single(eval_param_vector(T, b, p, variables))
<1> DEFINE parts == Parts(TextOf(b, p))
<1> SUFFICES ASSUME NEW v \in eval_param_vector(T, b, p, variables)
             PROVE  v = List([k \in DOMAIN parts |-> Denotes(parts[k])])
  BY DEF Single
<1>1. PICK map \in variable_map("double", variables) :
         LET cast(k) == static_cast(T, evaluate_expression(parts[k], map))
             all     == UNION {cast(k) : k \in DOMAIN parts}
         IN  v \in {List(s) : s \in {r \in [DOMAIN parts -> all] : \A k \in DOMAIN parts : r[k] \in cast(k)}}
  BY TextRead DEF eval_param_vector
<1> DEFINE cast(k) == static_cast(T, evaluate_expression(parts[k], map))
           all     == UNION {cast(k) : k \in DOMAIN parts}
<1>2. PICK s \in [DOMAIN parts -> all] : v = List(s) /\ \A k \in DOMAIN parts : s[k] \in cast(k)
  BY <1>1
<1>3. \A k \in DOMAIN parts : cast(k) = {Denotes(parts[k])}
  BY PartEvaluates
<1> HIDE DEF parts, cast, all
<1>4. s = [k \in DOMAIN parts |-> Denotes(parts[k])]
  BY <1>2, <1>3
<1> QED BY <1>2, <1>4 DEF parts

\* A read that is determined gives one value at most.
LEMMA DeterminedOnce ==
    ASSUME IsDocument, NEW b, IsBlockInfo(b), NEW r, KnownRead(r), r.param \in DOMAIN b.params,
           ~Undefined(b, r)
    PROVE  Single(read_outcomes(r, b, variables))
<1> DEFINE t == TextOf(b, r.param)
<1>1. CASE r.how = "value"
  <2>1. read_outcomes(r, b, variables) = convert_to(r.type, t)
    BY <1>1, OutcomesOf DEF param_value, TextOf
  <2>2. ~(r.type \in Integral \cup Real /\ t \in {Empty, Blank})
    BY <1>1 DEF Undefined
  <2> HIDE DEF t
  <2> QED BY <1>1, <2>1, <2>2, ConvertsOnce DEF KnownRead
<1>2. CASE r.how = "eval"
  <2>1. read_outcomes(r, b, variables) = eval_param_value(r.type, b, r.param, variables)
    BY <1>2, OutcomesOf
  <2>2. r.type \in Integral \cup Real
    BY <1>2 DEF KnownRead
  <2>3. IF r.type \in Integral THEN Denotes(t) # NaN /\ InRange(r.type, Denotes(t))
        ELSE Denotes(t) # NaN \/ ~NamesBlank(t)
    BY <1>2 DEF Undefined
  <2> QED BY <2>1, <2>2, <2>3, EvaluatedAsDenoted DEF Single
<1>3. CASE r.how = "vector"
  <2>1. read_outcomes(r, b, variables) = eval_param_vector(r.type, b, r.param, variables)
    BY <1>3, OutcomesOf
  <2>2. r.type \in Real /\ ~NamesBlank(t)
    BY <1>3 DEF Undefined, KnownRead
  <2> QED BY <2>1, <2>2, VectorOnce
<1>4. CASE r.how = "enum"
  <2>1. read_outcomes(r, b, variables) = eval_param_enum(b, r.param)
    BY <1>4, OutcomesOf
  <2>2. Single(eval_param_enum(b, r.param))
    BY TextSingle DEF Single, eval_param_enum
  <2> QED BY <2>1, <2>2
<1>5. CASE r.how = "one of"
  <2>1. read_outcomes(r, b, variables) = param_value("string", b, r.param) \cap r.texts
    BY <1>5, OutcomesOf
  <2>2. Single(param_value("string", b, r.param))
    BY TextSingle
  <2> QED BY <2>1, <2>2 DEF Single
<1>6. CASE r.how = "waveform"
  <2>1. read_outcomes(r, b, variables) = UNION {lexical_cast(u) : u \in {t}}
    BY <1>6, OutcomesOf, TextRead
  <2>2. t \in enum_repr
    BY <1>6 DEF Undefined
  <2> QED BY <2>1, <2>2 DEF lexical_cast, Single
<1> QED BY <1>1, <1>2, <1>3, <1>4, <1>5, <1>6 DEF KnownRead

LEMMA ArgumentsOnce ==
    ASSUME IsDocument, NEW b, IsBlockInfo(b), NEW reads, Known(reads), Determined(b, reads)
    PROVE  Single(Arguments(reads, b, variables))
<1>1. \A r \in reads : Single(read_outcomes(r, b, variables))
  BY DeterminedOnce DEF Known, Determined
<1> QED BY <1>1, OneSelection DEF Arguments, Single

\* The taps of a filter are those of a variable of the document.
LEMMA TapsOnce ==
    ASSUME IsDocument, Determined(TapsOf(info, variables), BandPassFilter(TapsType(info)))
    PROVE  Single(FilterTaps(info, variables))
<1>1. CASE TapsNamed(info, variables) = {}
  BY <1>1 DEF FilterTaps, Single
<1>2. CASE TapsNamed(info, variables) # {}
  <2>1. TapsNamed(info, variables) \subseteq 1..Len(variables) /\ Len(variables) \in Nat
    BY DEF TapsNamed, IsDocument
  <2>2. Max(TapsNamed(info, variables)) \in DOMAIN variables
    BY <1>2, <2>1, GreatestIndex DEF TapsNamed
  <2>3. IsBlockInfo(TapsOf(info, variables))
    BY <2>2 DEF TapsOf, IsDocument
  <2>4. Known(BandPassFilter(TapsType(info)))
    BY ReadForms, TypesKnown DEF Known, BandPassFilter
  <2>5. Single(Arguments(BandPassFilter(TapsType(info)), TapsOf(info, variables), variables))
    BY <2>3, <2>4, ArgumentsOnce
  <2> QED BY <2>5 DEF FilterTaps, Single
<1> QED BY <1>1, <1>2

LEMMA SettingsOnce ==
    ASSUME {"affinity", "minoutbuf", "maxoutbuf"} \cap DOMAIN info.params = {}
    PROVE  Single(common_settings(info, variables))
<1>1. \A p \in {"affinity", "minoutbuf", "maxoutbuf"} : ~is_param_set(info, p)
  BY DEF is_param_set
<1>2. /\ Affinity(info) = {<<>>} /\ BufferBound(info, "minoutbuf", variables) = {<<>>}
      /\ BufferBound(info, "maxoutbuf", variables) = {<<>>}
  BY <1>1 DEF Affinity, BufferBound
<1> QED BY <1>2 DEF common_settings, Single

\* The same document makes the same block.
THEOREM SameBlock == CallSpec => []SameDocumentSameBlock
<1>1. MadeInv => SameDocumentSameBlock
  <2> SUFFICES ASSUME MadeInv, WasMade, Determined(info, MakerReads(info)),
                      info.key = "freq_xlating_fir_filter_xxx" =>
                         Determined(TapsOf(info, variables), BandPassFilter(TapsType(info))),
                      {"affinity", "minoutbuf", "maxoutbuf"} \cap DOMAIN info.params = {}
               PROVE  make_block(info, variables) = {answer.block}
    BY DEF SameDocumentSameBlock
  <2>1. Single(Arguments(MakerReads(info), info, variables))
    BY ArgumentsRead, ArgumentsOnce DEF MadeInv, IsDocument
  <2>2. Single(make(info, variables))
    <3>1. CASE info.key = "freq_xlating_fir_filter_xxx"
      <4>1. Single(FilterTaps(info, variables))
        BY <3>1, TapsOnce DEF MadeInv
      <4> QED BY <2>1, <3>1, <4>1 DEF make, Single
    <3>2. CASE info.key # "freq_xlating_fir_filter_xxx"
      BY <2>1, <3>2 DEF make
    <3> QED BY <3>1, <3>2
  <2>3. Single(make_block(info, variables))
    BY <2>2, SettingsOnce DEF make_block, Single
  <2> QED BY <2>3 DEF Single, MadeInv
<1> QED BY <1>1, MadeInvHolds, PTL
=============================================================================
