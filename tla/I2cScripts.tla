----------------------------- MODULE I2cScripts -----------------------------
(***************************************************************************)
(* What each command of i2cgpioctl writes to the GPIO expanders and to the  *)
(* I2C switch of the MangOH board.  A byte is the set of its 1 bits.        *)
(***************************************************************************)
EXTENDS Integers, Sequences

Bits == 0..7
Expanders == {"Expander1", "Expander2", "Expander3"}
Banks == {"A", "B"}
Kinds == {"Dir", "Polarity", "Mask", "SenseHigh", "SenseLow", "Source"}

\* A transfer is <<chip, kind of register, bank, byte>>.  The switch and the
\* reset register have no banks.
NoBank == "none"
SwitchTo(channels) == <<"Switch", "Channels", NoBank, channels>>
ResetKeys == <<{1, 4}, {2, 4, 5}>>
Reset(chip) == <<<<chip, "Reset", NoBank, ResetKeys[1]>>, <<chip, "Reset", NoBank, ResetKeys[2]>>>>

Transfers ==
    (Expanders \X Kinds \X Banks \X SUBSET Bits)
        \cup (Expanders \X {"Reset"} \X {NoBank} \X SUBSET Bits)
        \cup ({"Switch"} \X {"Channels"} \X {NoBank} \X SUBSET Bits)

(***************************************************************************)
(* Lights: an output of reversed polarity is lit                            *)
(***************************************************************************)

Place(chip, bank, bit) == [chip |-> chip, bank |-> bank, bit |-> bit]
Light(card) ==
    CASE card = "IOT0" -> [D1 |-> Place("Expander2", "A", 2), D2 |-> Place("Expander2", "A", 1),
                           D3 |-> Place("Expander2", "A", 0), D4 |-> Place("Expander3", "A", 5)]
      [] card = "IOT1" -> [D1 |-> Place("Expander2", "A", 5), D2 |-> Place("Expander2", "A", 4),
                           D3 |-> Place("Expander2", "A", 3), D4 |-> Place("Expander3", "A", 6)]
      [] card = "IOT2" -> [D1 |-> Place("Expander2", "A", 7), D2 |-> Place("Expander2", "A", 6),
                           D3 |-> Place("Expander2", "B", 0), D4 |-> Place("Expander3", "A", 7)]

Cards == {"IOT0", "IOT1", "IOT2"}
Leds == {"D1", "D2", "D3", "D4"}

\* The whole bank is written: its other pins become inputs here, outputs there.
Enable(l) ==
    <<<<l.chip, "Dir", l.bank, Bits \ {l.bit}>>, <<l.chip, "Polarity", l.bank, {l.bit}>>>>
Disable(l) ==
    <<<<l.chip, "Dir", l.bank, {}>>, <<l.chip, "Polarity", l.bank, {}>>>>

(***************************************************************************)
(* Interrupts that a command waits for                                      *)
(***************************************************************************)

\* Where the board has wired what the commands watch.
Wired ==
    [IOT0 |-> Place("Expander2", "B", 3), IOT1 |-> Place("Expander2", "B", 5),
     IOT2 |-> Place("Expander2", "B", 4), EXP3 |-> Place("Expander2", "B", 6),
     Battery |-> Place("Expander2", "B", 7), UsbHub |-> Place("Expander3", "A", 0)]
Watched == DOMAIN Wired

\* A plausible bug: the mask of a card, copied and not changed.
MaskBitCopied == [IOT0 |-> {3}, IOT1 |-> {5}, IOT2 |-> {4}, EXP3 |-> {6}, Battery |-> {3}, UsbHub |-> {0}]

\* mask_bit.
MaskBit == [IOT0 |-> {3}, IOT1 |-> {5}, IOT2 |-> {4}, EXP3 |-> {6}, Battery |-> {7}, UsbHub |-> {0}]

\* The cards' pins are made inputs together, the others alone.
Inputs(w) == IF w \in Cards THEN {3, 4, 5} ELSE MaskBit[w]

\* A plausible bug: only the edges of the upper half of the bank are sensed.
WatchUpper(w) ==
    LET p == Wired[w] IN
    <<<<p.chip, "Dir", p.bank, Inputs(w)>>, <<p.chip, "Mask", p.bank, {}>>,
      <<p.chip, "SenseHigh", p.bank, Bits>>>>

Watch(w) ==
    LET p == Wired[w] IN
    <<<<p.chip, "Dir", p.bank, Inputs(w)>>, <<p.chip, "Mask", p.bank, {}>>,
      <<p.chip, "SenseHigh", p.bank, Bits>>, <<p.chip, "SenseLow", p.bank, Bits>>>>

ClearInterrupts(w) == <<Wired[w].chip, "Source", Wired[w].bank, Bits>>

(***************************************************************************)
(* The other commands                                                       *)
(***************************************************************************)

ClearDefault ==
    Reset("Expander1") \o Reset("Expander2") \o Reset("Expander3") \o <<SwitchTo({})>>

LoadDefault ==
    <<SwitchTo(Bits \ {1, 2}),
      <<"Expander2", "Dir", "A", {}>>, <<"Expander2", "Polarity", "A", Bits>>,
      <<"Expander2", "Dir", "B", Bits \ {0}>>, <<"Expander2", "Polarity", "B", {0}>>,
      <<"Expander3", "Dir", "A", {}>>, <<"Expander3", "Polarity", "A", Bits>>>>

Switching ==
    [SwitchIot0 |-> <<SwitchTo(Bits \ {1, 2})>>, SwitchIot1 |-> <<SwitchTo(Bits \ {0, 2})>>,
     SwitchIot2 |-> <<SwitchTo(Bits \ {0, 1})>>, SwitchOff |-> <<SwitchTo({})>>,
     IotInput |-> <<<<"Expander2", "Dir", "B", {3, 4, 5}>>>>,
     IotOutput |-> <<<<"Expander2", "Dir", "B", Bits \ {3, 4, 5}>>>>]

Routing ==
    [ArduinoSpi |-> <<<<"Expander1", "Dir", "A", Bits \ {5}>>>>,
     ArduinoI2c |-> <<<<"Expander1", "Dir", "A", Bits \ {7}>>>>,
     Uart2 |-> <<<<"Expander1", "Dir", "B", Bits>>, <<"Expander3", "Dir", "B", {0, 1, 2, 3}>>>>,
     Uart1Iot0 |-> <<<<"Expander1", "Dir", "B", {6, 7}>>>>,
     Uart1Iot1 |-> <<<<"Expander1", "Dir", "B", {6, 7}>>>>,
     Uart1Iot2 |-> <<<<"Expander3", "Dir", "B", Bits>>>>]

(***************************************************************************)
(* All of them: <<what, of which>>                                          *)
(***************************************************************************)

LightCommands == {"enable", "disable"} \X Cards \X Leds
WatchCommands == {<<"watch", w>> : w \in Watched}
ResetCommands == {<<"reset", e>> : e \in Expanders}
SetCommands == {<<"set", s>> : s \in DOMAIN Switching \cup DOMAIN Routing \cup {"Clear", "Load"}}
Probed == Expanders \cup {"IotHigh", "IotLow", "UsbHub", "Battery", "Motion"}
ProbeCommands == {<<"probe", p>> : p \in Probed}
Writing == LightCommands \cup WatchCommands \cup ResetCommands \cup SetCommands
Commands == Writing \cup ProbeCommands \cup {<<"scan">>, <<"list">>, <<"exit">>, <<"unsupported">>}

Script(c) ==
    CASE c[1] = "enable" -> Enable(Light(c[2])[c[3]])
      [] c[1] = "disable" -> Disable(Light(c[2])[c[3]])
      [] c[1] = "watch" -> Watch(c[2])
      [] c[1] = "reset" -> Reset(c[2])
      [] c = <<"set", "Clear">> -> ClearDefault
      [] c = <<"set", "Load">> -> LoadDefault
      [] c[1] = "set" /\ c[2] \in DOMAIN Switching -> Switching[c[2]]
      [] c[1] = "set" /\ c[2] \in DOMAIN Routing -> Routing[c[2]]
      [] OTHER -> <<>>
=============================================================================
