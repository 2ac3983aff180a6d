----------------------------- MODULE AudioPaths -----------------------------
(***************************************************************************)
(* The signal paths of the WM8944 audio codec: its widgets, the routes      *)
(* between them and the switches in the routes.  ASoC (DAPM) powers a       *)
(* widget when it lies on a path from a source in use to a sink in use, and *)
(* a supply when a widget it feeds is powered.                              *)
(***************************************************************************)
EXTENDS Integers

\* A route that no switch opens.
Wired == "wired"

\* The names of the switches of each mixer.
LineSwitches == {"DAC to Line", "AUX to Line", "IN1 to Line", "PGA to Line"}
SpeakerSwitches == {"DAC to Speak", "AUX to Speak", "IN1 to Speak", "PGA to Speak"}
OtherSwitches == {"Speak to N", "IN1 to N", "Speak to P", "AUX to P",
                  "AUX to PGA", "IN1 to PGA", "ADC to DAC", "Interface"}
Switches == LineSwitches \cup SpeakerSwitches \cup OtherSwitches

\* <<source, switch, sink>>.  "Inv DAC" and "AUX diff" switches open the same
\* way as the switch they are named with here.
Mixing ==
    {<<"DAC", "DAC to Line", "Line Mixer">>,   <<"AUX", "AUX to Line", "Line Mixer">>,
     <<"IN1", "IN1 to Line", "Line Mixer">>,   <<"Input PGA", "PGA to Line", "Line Mixer">>,
     <<"DAC", "DAC to Speak", "Speaker Mixer">>, <<"AUX", "AUX to Speak", "Speaker Mixer">>,
     <<"IN1", "IN1 to Speak", "Speaker Mixer">>,
     <<"Input PGA", "PGA to Speak", "Speaker Mixer">>}

Routes == Mixing \cup
    {<<"Speaker Mixer", Wired, "Speaker PGA">>,
     <<"Speaker PGA", "Speak to N", "SPKOUTN">>, <<"IN1", "IN1 to N", "SPKOUTN">>,
     <<"Speaker PGA", "Speak to P", "SPKOUTP">>, <<"AUX", "AUX to P", "SPKOUTP">>,
     <<"Line Mixer", Wired, "LINEOUT">>,
     <<"Input PGA", Wired, "ADC">>,
     <<"AUX", "AUX to PGA", "Input PGA">>, <<"IN1", "IN1 to PGA", "Input PGA">>,
     <<"ADC", "ADC to DAC", "DAC">>, <<"DAC", "Interface", "ADC">>,
     <<"Playback", Wired, "DAC">>, <<"ADC", Wired, "Capture">>}

\* What each supply feeds.
Supplies == [VMID |-> {"Speaker Mixer", "DAC", "ADC"}]

Widgets == {r[1] : r \in Routes} \cup {r[3] : r \in Routes}

\* Inputs and outputs of the chip are always in use, the ends of the PCM
\* streams while the stream is.
Sources(streams) == {"AUX", "IN1"} \cup (streams \cap {"Playback"})
Sinks(streams) == {"SPKOUTN", "SPKOUTP", "LINEOUT"} \cup (streams \cap {"Capture"})

Edges(on) == {<<r[1], r[3]>> : r \in {s \in Routes : s[2] \in on \cup {Wired}}}
Reversed(E) == {<<e[2], e[1]>> : e \in E}

\* The longest path without a cycle has fewer edges than that.
Depth == 8

Onward(E, S) == S \cup {e[2] : e \in {f \in E : f[1] \in S}}

Reachable(E, from) ==
    LET after[k \in 0..Depth] == IF k = 0 THEN from ELSE Onward(E, after[k - 1])
    IN  after[Depth]

\* The widgets that DAPM powers with these switches on and these streams.
Powered(on, streams) ==
    Reachable(Edges(on), Sources(streams))
        \cap Reachable(Reversed(Edges(on)), Sinks(streams))

\* The ones among them that the driver hears of: VMID and DAC have events.
Wants(on, streams) ==
    LET live == Powered(on, streams)
    IN  (IF live \cap Supplies.VMID # {} THEN {"VMID"} ELSE {}) \cup (live \cap {"DAC"})
=============================================================================
