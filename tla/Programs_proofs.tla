-------------------------- MODULE Programs_proofs ---------------------------
(***************************************************************************)
(* Proofs about the two programs that run on a started module: i2cgpioctl,  *)
(* for any commands, moving pins, chips and bounds, and linkmon, for any    *)
(* number of changes of the link.                                           *)
(***************************************************************************)
EXTENDS I2cGpioCtl, LinkMon, TLAPS

(***************************************************************************)
(* The scripts of i2cgpioctl                                                *)
(***************************************************************************)

LEMMA RegisterTransfer ==
    ASSUME NEW e \in Expanders, NEW r \in Kinds, NEW b \in Banks, NEW s \in SUBSET Bits
    PROVE  <<e, r, b, s>> \in Transfers
  BY DEF Transfers

LEMMA ResetTransfer ==
    ASSUME NEW e \in Expanders, NEW s \in SUBSET Bits
    PROVE  <<e, "Reset", NoBank, s>> \in Transfers
  BY DEF Transfers

LEMMA SwitchTransfer ==
    ASSUME NEW s \in SUBSET Bits
    PROVE  SwitchTo(s) \in Transfers
  BY DEF Transfers, SwitchTo

\* Every transfer goes to a register of an expander, to the reset of one, or to
\* the switch.
LEMMA TransferKinds ==
    ASSUME NEW t \in Transfers
    PROVE  /\ t = <<t[1], t[2], t[3], t[4]>>
           /\ t[4] \in SUBSET Bits
           /\ \/ t[1] \in Expanders /\ t[2] \in Kinds /\ t[3] \in Banks
              \/ t[1] \in Expanders /\ t[2] = "Reset"
              \/ t[1] = "Switch" /\ t[2] = "Channels"
  BY DEF Transfers

\* A light of a card is on one of six banks' pins.
LEMMA LightPlace ==
    ASSUME NEW c \in Cards, NEW d \in Leds
    PROVE  /\ Light(c)[d].chip \in Expanders
           /\ Light(c)[d].bank \in Banks
           /\ Light(c)[d].bit \in Bits
<1>1. CASE c = "IOT0"
  BY <1>1 DEF Light, Place, Leds, Expanders, Banks, Bits
<1>2. CASE c = "IOT1"
  BY <1>2 DEF Light, Place, Leds, Expanders, Banks, Bits
<1>3. CASE c = "IOT2"
  BY <1>3 DEF Light, Place, Leds, Expanders, Banks, Bits
<1> QED
  BY <1>1, <1>2, <1>3 DEF Cards

LEMMA WiredPlace ==
    ASSUME NEW w \in Watched
    PROVE  /\ Wired[w].chip \in Expanders
           /\ Wired[w].bank \in Banks
           /\ Wired[w].bit \in Bits
  BY DEF Watched, Wired, Place, Expanders, Banks, Bits

\* The script of a command, by what it is.
LEMMA ScriptByKind ==
    ASSUME NEW c
    PROVE  /\ c[1] = "enable" => Script(c) = Enable(Light(c[2])[c[3]])
           /\ c[1] = "disable" => Script(c) = Disable(Light(c[2])[c[3]])
           /\ c[1] = "watch" => Script(c) = Watch(c[2])
           /\ c[1] = "reset" => Script(c) = Reset(c[2])
           /\ c[1] \notin {"enable", "disable", "watch", "reset", "set"} => Script(c) = <<>>
  BY DEF Script

LEMMA ScriptOfSet ==
    /\ Script(<<"set", "Clear">>) = ClearDefault
    /\ Script(<<"set", "Load">>) = LoadDefault
    /\ \A s \in DOMAIN Switching : Script(<<"set", s>>) = Switching[s]
    /\ \A s \in DOMAIN Routing : Script(<<"set", s>>) = Routing[s]
  BY DEF Script, Switching, Routing

\* A chip is reset by two keys in a row.
FirstKey(t) == t[2] = "Reset" /\ t[4] = ResetKeys[1]
SecondKey(t) == t[2] = "Reset" /\ t[4] = ResetKeys[2]

\* What t has done is not undone by u.
Apart(t, u) ==
    /\ t[2] = "Channels" => u[2] # "Channels"
    /\ t[2] \in Kinds /\ u[1] = t[1] => u[2] \in Kinds /\ (u[2] # t[2] \/ u[3] # t[3])
    /\ SecondKey(t) => u[1] # t[1]

\* What makes a script do what it says: none of its transfers undoes one before,
\* or touches the interrupt sources, and a reset is done in one go.
Proper(s) ==
    /\ s \in Seq(Transfers)
    /\ \A i \in 1..Len(s) : s[i][2] # "Source"
    /\ \A i, j \in 1..Len(s) : i < j => Apart(s[i], s[j])
    /\ \A j \in 1..Len(s) :
          SecondKey(s[j]) => j > 1 /\ FirstKey(s[j - 1]) /\ s[j - 1][1] = s[j][1]

LEMMA ProperNone == Proper(<<>>)
  BY DEF Proper

LEMMA ProperOne ==
    ASSUME NEW t \in Transfers, t[2] # "Source", t[2] # "Reset"
    PROVE  Proper(<<t>>)
  BY DEF Proper, SecondKey

LEMMA ProperTwo ==
    ASSUME NEW t \in Transfers, t[2] # "Source", t[2] # "Reset",
           NEW u \in Transfers, u[2] # "Source", u[2] # "Reset", Apart(t, u)
    PROVE  Proper(<<t, u>>)
  BY DEF Proper, SecondKey

LEMMA ProperReset ==
    ASSUME NEW e \in Expanders
    PROVE  Proper(Reset(e))
  BY ResetTransfer DEF Proper, SecondKey, FirstKey, Apart, Reset, ResetKeys, Bits, Kinds

LEMMA ProperWatch ==
    ASSUME NEW w \in Watched
    PROVE  Proper(Watch(w))
<1>1. Inputs(w) \in SUBSET Bits
  BY DEF Inputs, MaskBit, Watched, Wired, Bits
<1>2. PICK e \in Expanders, b \in Banks : e = Wired[w].chip /\ b = Wired[w].bank
  BY WiredPlace
<1>3. /\ <<e, "Dir", b, Inputs(w)>> \in Transfers
      /\ <<e, "Mask", b, {}>> \in Transfers
      /\ <<e, "SenseHigh", b, Bits>> \in Transfers
      /\ <<e, "SenseLow", b, Bits>> \in Transfers
  BY <1>1, RegisterTransfer DEF Kinds
<1>4. Watch(w) = <<<<e, "Dir", b, Inputs(w)>>, <<e, "Mask", b, {}>>,
                   <<e, "SenseHigh", b, Bits>>, <<e, "SenseLow", b, Bits>>>>
  BY <1>2 DEF Watch
<1> QED
  BY <1>3, <1>4 DEF Proper, SecondKey, FirstKey, Apart, Kinds

\* Three resets and the switch; the transfers one by one.
LEMMA ClearTransfers ==
    /\ ClearDefault \in Seq(Transfers)
    /\ Len(ClearDefault) = 7
    /\ ClearDefault[1] = <<"Expander1", "Reset", NoBank, ResetKeys[1]>>
    /\ ClearDefault[2] = <<"Expander1", "Reset", NoBank, ResetKeys[2]>>
    /\ ClearDefault[3] = <<"Expander2", "Reset", NoBank, ResetKeys[1]>>
    /\ ClearDefault[4] = <<"Expander2", "Reset", NoBank, ResetKeys[2]>>
    /\ ClearDefault[5] = <<"Expander3", "Reset", NoBank, ResetKeys[1]>>
    /\ ClearDefault[6] = <<"Expander3", "Reset", NoBank, ResetKeys[2]>>
    /\ ClearDefault[7] = SwitchTo({})
<1>1. ResetKeys[1] \in SUBSET Bits /\ ResetKeys[2] \in SUBSET Bits
  BY DEF ResetKeys, Bits
<1>2. \A e \in Expanders : Reset(e) \in Seq(Transfers) /\ Len(Reset(e)) = 2
  BY <1>1, ResetTransfer DEF Reset
<1>3. <<SwitchTo({})>> \in Seq(Transfers) /\ Len(<<SwitchTo({})>>) = 1
  BY SwitchTransfer
<1> QED
  BY <1>1, <1>2, <1>3 DEF ClearDefault, Expanders, Reset

LEMMA ProperClear == Proper(ClearDefault)
<1>1. ResetKeys[1] # ResetKeys[2]
  BY DEF ResetKeys
<1>2. \A i \in 1..7 : ClearDefault[i][2] # "Source"
  BY ClearTransfers DEF SwitchTo
<1>3. \A i, j \in 1..7 : i < j => Apart(ClearDefault[i], ClearDefault[j])
  BY <1>1, ClearTransfers DEF SwitchTo, Apart, SecondKey, Kinds
<1>4. \A j \in 1..7 : SecondKey(ClearDefault[j]) =>
        j > 1 /\ FirstKey(ClearDefault[j - 1]) /\ ClearDefault[j - 1][1] = ClearDefault[j][1]
  BY <1>1, ClearTransfers DEF SwitchTo, SecondKey, FirstKey
<1> QED
  BY <1>2, <1>3, <1>4, ClearTransfers DEF Proper

LEMMA ProperLoad == Proper(LoadDefault)
<1>1. LoadDefault \in Seq(Transfers) /\ Len(LoadDefault) = 7
  BY SwitchTransfer, RegisterTransfer DEF LoadDefault, Expanders, Kinds, Banks, Bits
<1>2. \A i \in 1..7 : LoadDefault[i][2] \notin {"Source", "Reset"}
  BY DEF LoadDefault, SwitchTo
<1>3. \A i, j \in 1..7 : i < j => Apart(LoadDefault[i], LoadDefault[j])
  BY DEF LoadDefault, SwitchTo, Apart, SecondKey, Kinds
<1> QED
  BY <1>1, <1>2, <1>3 DEF Proper, SecondKey

LEMMA ProperLight ==
    ASSUME NEW c \in Cards, NEW d \in Leds
    PROVE  Proper(Enable(Light(c)[d])) /\ Proper(Disable(Light(c)[d]))
<1>1. PICK l : l = Light(c)[d]
  OBVIOUS
<1>2. l.chip \in Expanders /\ l.bank \in Banks
  BY <1>1, LightPlace
<1>3. /\ <<l.chip, "Dir", l.bank, Bits \ {l.bit}>> \in Transfers
      /\ <<l.chip, "Polarity", l.bank, {l.bit}>> \in Transfers
      /\ <<l.chip, "Dir", l.bank, {}>> \in Transfers
      /\ <<l.chip, "Polarity", l.bank, {}>> \in Transfers
  BY <1>1, <1>2, LightPlace, RegisterTransfer DEF Kinds
<1>4. Proper(Enable(l)) /\ Proper(Disable(l))
  BY <1>3, ProperTwo DEF Enable, Disable, Apart, Kinds, SecondKey
<1> QED
  BY <1>1, <1>4

LEMMA ProperSwitching ==
    ASSUME NEW s \in DOMAIN Switching
    PROVE  Proper(Switching[s])
<1>1. \A b \in SUBSET Bits : Proper(<<SwitchTo(b)>>)
  BY SwitchTransfer, ProperOne DEF SwitchTo
<1>2. \A b \in SUBSET Bits : Proper(<<<<"Expander2", "Dir", "B", b>>>>)
  BY RegisterTransfer, ProperOne DEF Expanders, Kinds, Banks
<1> QED
  BY <1>1, <1>2 DEF Switching, Bits

LEMMA ProperRouting ==
    ASSUME NEW s \in DOMAIN Routing
    PROVE  Proper(Routing[s])
<1>1. \A e \in Expanders : \A b \in Banks : \A v \in SUBSET Bits : Proper(<<<<e, "Dir", b, v>>>>)
  BY RegisterTransfer, ProperOne DEF Kinds
<1>2. Proper(<<<<"Expander1", "Dir", "B", Bits>>, <<"Expander3", "Dir", "B", {0, 1, 2, 3}>>>>)
  BY RegisterTransfer, ProperTwo DEF Expanders, Kinds, Banks, Bits, Apart, SecondKey
<1> QED
  BY <1>1, <1>2 DEF Routing, Bits, Expanders, Banks

\* The first word of a command says which other words there are.
LEMMA CommandWords ==
    ASSUME NEW c \in Commands
    PROVE  \/ c \in LightCommands /\ c[1] \in {"enable", "disable"} /\ c[2] \in Cards /\ c[3] \in Leds
           \/ c \in WatchCommands /\ c[1] = "watch" /\ c[2] \in Watched
           \/ c \in ResetCommands /\ c[1] = "reset" /\ c[2] \in Expanders
           \/ /\ c \in SetCommands /\ c[1] = "set" /\ c = <<"set", c[2]>>
              /\ c[2] \in DOMAIN Switching \cup DOMAIN Routing \cup {"Clear", "Load"}
           \/ c \notin Writing /\ c \in ProbeCommands /\ c[1] = "probe" /\ c[2] \in Probed
           \/ c \notin Writing /\ c[1] \in {"scan", "list", "exit", "unsupported"}
<1>1. CASE c \in LightCommands
  BY <1>1 DEF LightCommands
<1>2. CASE c \in WatchCommands
  BY <1>2 DEF WatchCommands
<1>3. CASE c \in ResetCommands
  BY <1>3 DEF ResetCommands
<1>4. CASE c \in SetCommands
  BY <1>4 DEF SetCommands
<1>5. CASE c \notin Writing /\ c \in ProbeCommands
  BY <1>5 DEF ProbeCommands
<1>6. CASE c \notin Writing /\ c \in {<<"scan">>, <<"list">>, <<"exit">>, <<"unsupported">>}
  BY <1>6
<1> QED
  BY <1>1, <1>2, <1>3, <1>4, <1>5, <1>6 DEF Commands, Writing

\* Every command's script does what it says, transfer by transfer.
LEMMA ScriptProper ==
    ASSUME NEW c \in Commands
    PROVE  Proper(Script(c))
<1>1. CASE c[1] \in {"enable", "disable"} /\ c[2] \in Cards /\ c[3] \in Leds
  BY <1>1, ScriptByKind, ProperLight
<1>2. CASE c[1] = "watch" /\ c[2] \in Watched
  BY <1>2, ScriptByKind, ProperWatch
<1>3. CASE c[1] = "reset" /\ c[2] \in Expanders
  BY <1>3, ScriptByKind, ProperReset
<1>4. CASE c = <<"set", c[2]>> /\ c[2] \in DOMAIN Switching \cup DOMAIN Routing \cup {"Clear", "Load"}
  BY <1>4, ScriptOfSet, ProperSwitching, ProperRouting, ProperClear, ProperLoad
<1>5. CASE c[1] \in {"probe", "scan", "list", "exit", "unsupported"}
  BY <1>5, ScriptByKind, ProperNone
<1> QED
  BY <1>1, <1>2, <1>3, <1>4, <1>5, CommandWords

(***************************************************************************)
(* A transfer at its chip                                                   *)
(***************************************************************************)

Registers == [Kinds \X Banks -> SUBSET Bits]

LEMMA DefaultTyped == Default \in Registers
  BY DEF Default, Registers

\* One register of one chip is written.
LEMMA OneWritten ==
    ASSUME regs \in [Expanders -> Registers],
           NEW e \in Expanders, NEW r \in Kinds \X Banks, NEW v \in SUBSET Bits,
           regs' = [regs EXCEPT ![e][r] = v]
    PROVE  /\ regs' \in [Expanders -> Registers]
           /\ regs'[e][r] = v
           /\ \A r2 \in Kinds \X Banks : r2 # r => regs'[e][r2] = regs[e][r2]
           /\ \A e2 \in Expanders : e2 # e => regs'[e2] = regs[e2]
  BY DEF Registers

\* What a transfer does to the registers of the expanders.
LEMMA ApplyRegs ==
    ASSUME regs \in [Expanders -> Registers], NEW t \in Transfers, Apply(t)
    PROVE  /\ regs' \in [Expanders -> Registers]
           /\ t[2] \in {"Channels", "Reset"} /\ ~(SecondKey(t) /\ armed[t[1]]) => regs' = regs
           /\ SecondKey(t) /\ armed[t[1]] => regs' = [regs EXCEPT ![t[1]] = Default]
           /\ t[2] \in Kinds =>
                 /\ t[2] # "Source" => regs'[t[1]][<<t[2], t[3]>>] = t[4]
                 /\ t[2] = "Source" =>
                      regs'[t[1]][<<t[2], t[3]>>] = regs[t[1]][<<t[2], t[3]>>] \ t[4]
                 /\ \A r \in Kinds \X Banks : r # <<t[2], t[3]>> => regs'[t[1]][r] = regs[t[1]][r]
                 /\ \A e \in Expanders : e # t[1] => regs'[e] = regs[e]
<1>1. CASE t[1] = "Switch" /\ t[2] = "Channels"
  BY <1>1 DEF Apply, SecondKey, Kinds
<1>2. CASE t[1] \in Expanders /\ t[2] = "Reset"
  BY <1>2, DefaultTyped DEF Apply, SecondKey, Kinds, Expanders
<1>3. CASE t[1] \in Expanders /\ t[2] \in Kinds /\ t[3] \in Banks
  <2>1. PICK r \in Kinds \X Banks : r = <<t[2], t[3]>>
    BY <1>3
  <2>2. PICK v \in SUBSET Bits : v = IF t[2] = "Source" THEN regs[t[1]][r] \ t[4] ELSE t[4]
    BY <1>3, TransferKinds DEF Registers
  <2>3. t[1] # "Switch" /\ t[2] \notin {"Reset", "Channels"} /\ ~SecondKey(t)
    BY <1>3 DEF Expanders, Kinds, SecondKey
  <2>4. regs' = [regs EXCEPT ![t[1]][r] = v]
    <3>1. CASE t[2] = "Source"
      BY <1>3, <2>1, <2>2, <2>3, <3>1 DEF Apply
    <3>2. CASE t[2] # "Source"
      BY <1>3, <2>1, <2>2, <2>3, <3>2 DEF Apply
    <3> QED
      BY <3>1, <3>2
  <2>5. /\ regs' \in [Expanders -> Registers]
        /\ regs'[t[1]][r] = v
        /\ \A r2 \in Kinds \X Banks : r2 # r => regs'[t[1]][r2] = regs[t[1]][r2]
        /\ \A e2 \in Expanders : e2 # t[1] => regs'[e2] = regs[e2]
    BY <1>3, <2>4, OneWritten
  <2> QED
    BY <2>1, <2>2, <2>3, <2>5
<1> QED
  BY <1>1, <1>2, <1>3, TransferKinds

\* A transfer leaves the other expanders alone.
LEMMA OtherChip ==
    ASSUME regs \in [Expanders -> Registers], NEW t \in Transfers, Apply(t),
           NEW e \in Expanders, t[1] # e
    PROVE  regs'[e] = regs[e]
<1>1. CASE t[2] \in Kinds
  BY <1>1, ApplyRegs
<1>2. CASE t[2] \in {"Channels", "Reset"} /\ ~(SecondKey(t) /\ armed[t[1]])
  BY <1>2, ApplyRegs
<1>3. CASE SecondKey(t) /\ armed[t[1]]
  BY <1>3, ApplyRegs
<1> QED
  BY <1>1, <1>2, <1>3, TransferKinds

LEMMA ApplyRest ==
    ASSUME armed \in [Expanders -> BOOLEAN], channels \in SUBSET Bits, recent \subseteq Watched,
           NEW t \in Transfers, Apply(t)
    PROVE  /\ armed' \in [Expanders -> BOOLEAN]
           /\ channels' \in SUBSET Bits
           /\ recent' \subseteq Watched
           /\ FirstKey(t) => armed'[t[1]]
           /\ t[2] = "Channels" => channels' = t[4]
           /\ t[2] # "Channels" => channels' = channels
<1>1. CASE t[1] = "Switch" /\ t[2] = "Channels"
  BY <1>1, TransferKinds DEF Apply, FirstKey
<1>2. CASE t[1] \in Expanders /\ t[2] = "Reset"
  BY <1>2 DEF Apply, FirstKey, Expanders
<1>3. CASE t[1] \in Expanders /\ t[2] \in Kinds
  BY <1>3 DEF Apply, FirstKey, Kinds, Expanders
<1> QED
  BY <1>1, <1>2, <1>3, TransferKinds

\* A pin that moves changes no register but the source of its interrupt, and
\* not that where the interrupts are masked, as they are after a reset.
LEMMA MoveRegs ==
    ASSUME regs \in [Expanders -> Registers], NEW w \in Watched, Move(w)
    PROVE  /\ regs' \in [Expanders -> Registers]
           /\ \A e \in Expanders : \A r \in Kinds \X Banks :
                \/ regs'[e][r] = regs[e][r]
                \/ /\ e = Wired[w].chip /\ r = <<"Source", Wired[w].bank>>
                   /\ regs'[e][r] = regs[e][r] \cup {Wired[w].bit}
           /\ \A e \in Expanders : regs[e] = Default => regs'[e] = Default
<1>1. PICK e \in Expanders, b \in Banks, n \in Bits :
        e = Wired[w].chip /\ b = Wired[w].bank /\ n = Wired[w].bit
  BY WiredPlace
<1>2. PICK r \in Kinds \X Banks, v \in SUBSET Bits :
        r = <<"Source", b>> /\ v = regs[e][<<"Source", b>>] \cup {n}
  BY <1>1 DEF Registers, Kinds
<1>3. CASE Raises(w, w \notin high)
  <2>1. regs' = [regs EXCEPT ![e][r] = v]
    BY <1>1, <1>2, <1>3 DEF Move
  <2>2. regs[e] # Default
    BY <1>1, <1>3 DEF Raises, Default, Kinds
  <2>3. /\ regs' \in [Expanders -> Registers]
        /\ regs'[e][r] = v
        /\ \A r2 \in Kinds \X Banks : r2 # r => regs'[e][r2] = regs[e][r2]
        /\ \A e2 \in Expanders : e2 # e => regs'[e2] = regs[e2]
    BY <2>1, OneWritten
  <2> QED
    BY <1>1, <1>2, <2>2, <2>3
<1>4. CASE ~Raises(w, w \notin high)
  BY <1>4 DEF Move
<1> QED
  BY <1>3, <1>4

(***************************************************************************)
(* What a transfer has done, and what undoes it                             *)
(***************************************************************************)

Met(t) ==
    /\ t[2] = "Channels" => channels = t[4]
    /\ t[2] \in Kinds => Holds(t)
    /\ SecondKey(t) => regs[t[1]] = Default

LEMMA MetOnce ==
    ASSUME TypeOK, NEW t \in Transfers, Apply(t), t[2] # "Source",
           SecondKey(t) => armed[t[1]]
    PROVE  Met(t)'
<1>1. regs \in [Expanders -> Registers]
  BY DEF TypeOK, Registers
<1>2. CASE t[1] = "Switch" /\ t[2] = "Channels"
  BY <1>2, ApplyRest DEF Met, TypeOK, Kinds, SecondKey
<1>3. CASE t[1] \in Expanders /\ t[2] = "Reset"
  BY <1>1, <1>3, ApplyRegs DEF Met, TypeOK, Kinds, SecondKey
<1>4. CASE t[1] \in Expanders /\ t[2] \in Kinds
  BY <1>1, <1>4, ApplyRegs DEF Met, Holds, Kinds, SecondKey
<1> QED
  BY <1>2, <1>3, <1>4, TransferKinds

LEMMA MetKept ==
    ASSUME TypeOK, NEW t \in Transfers, NEW u \in Transfers, Met(t), Apply(u), Apart(t, u),
           t[2] # "Source"
    PROVE  Met(t)'
<1>1. regs \in [Expanders -> Registers]
  BY DEF TypeOK, Registers
<1>2. CASE t[1] = "Switch" /\ t[2] = "Channels"
  <2>1. u[2] # "Channels" /\ channels = t[4]
    BY <1>2 DEF Met, Apart
  <2> QED
    BY <1>2, <2>1, ApplyRest DEF Met, TypeOK, Kinds, SecondKey
<1>3. CASE t[1] \in Expanders /\ t[2] = "Reset"
  <2>1. SecondKey(t) => regs[t[1]] = Default /\ u[1] # t[1]
    BY <1>3 DEF Met, Apart
  <2>2. u[1] # t[1] => regs'[t[1]] = regs[t[1]]
    BY <1>1, <1>3, OtherChip
  <2> QED
    BY <1>3, <2>1, <2>2 DEF Met, Kinds
<1>4. CASE t[1] \in Expanders /\ t[2] \in Kinds /\ t[3] \in Banks
  <2>1. u[1] = t[1] => u[2] \in Kinds /\ (u[2] # t[2] \/ u[3] # t[3])
    BY <1>4 DEF Apart
  <2>2. PICK r \in Kinds \X Banks : r = <<t[2], t[3]>>
    BY <1>4
  <2>3. regs[t[1]][r] = t[4]
    BY <1>4, <2>2 DEF Met, Holds
  <2>4. regs'[t[1]][r] = regs[t[1]][r]
    <3>1. CASE u[1] # t[1]
      BY <1>1, <1>4, <3>1, OtherChip
    <3>2. CASE u[1] = t[1]
      <4>1. u[2] \in Kinds /\ r # <<u[2], u[3]>>
        BY <2>1, <2>2, <3>2
      <4>2. \A r2 \in Kinds \X Banks : r2 # <<u[2], u[3]>> => regs'[u[1]][r2] = regs[u[1]][r2]
        BY <1>1, <4>1, ApplyRegs
      <4> QED
        BY <2>2, <3>2, <4>1, <4>2
    <3> QED
      BY <3>1, <3>2
  <2> QED
    BY <1>4, <2>2, <2>3, <2>4 DEF Met, Holds, Kinds, SecondKey
<1> QED
  BY <1>2, <1>3, <1>4, TransferKinds

LEMMA MetMove ==
    ASSUME TypeOK, NEW t \in Transfers, NEW w \in Watched, Met(t), Move(w), t[2] # "Source"
    PROVE  Met(t)'
<1>1. regs \in [Expanders -> Registers]
  BY DEF TypeOK, Registers
<1>2. channels' = channels
  BY DEF Move
<1>3. t[2] \in Kinds => Holds(t)'
  <2>1. t[2] \in Kinds => t[1] \in Expanders /\ <<t[2], t[3]>> \in Kinds \X Banks
    BY TransferKinds DEF Kinds
  <2>2. t[2] \in Kinds => regs'[t[1]][<<t[2], t[3]>>] = regs[t[1]][<<t[2], t[3]>>]
    BY <1>1, <2>1, MoveRegs
  <2> QED
    BY <2>2 DEF Met, Holds
<1>4. SecondKey(t) => t[1] \in Expanders
  BY TransferKinds DEF SecondKey, Kinds
<1> QED
  BY <1>1, <1>2, <1>3, <1>4, MoveRegs DEF Met, SecondKey

(***************************************************************************)
(* The types of i2cgpioctl                                                  *)
(***************************************************************************)

\* Where the program is goes with its command.
Suits ==
    /\ at = "write" => cmd \in Writing
    /\ at = "probe" => cmd \in ProbeCommands
    /\ at \in {"ask", "look", "data", "clear"} => cmd \in WatchCommands

LEMMA TurnSuits ==
    ASSUME NEW c \in Commands
    PROVE  /\ Turn(c) \in {"write", "probe", "scan", "exit", "menu"}
           /\ Turn(c) = "write" => c \in Writing
           /\ Turn(c) = "probe" => c \in ProbeCommands
<1>1. CASE c \in Writing
  BY <1>1 DEF Turn
<1>2. CASE c \notin Writing
  BY <1>2, CommandWords DEF Turn
<1> QED
  BY <1>1, <1>2

LEMMA ClearTransfer ==
    ASSUME NEW c \in WatchCommands
    PROVE  c[2] \in Watched /\ ClearInterrupts(c[2]) \in Transfers
<1>1. c[2] \in Watched
  BY DEF WatchCommands
<1> QED
  BY <1>1, WiredPlace, RegisterTransfer DEF ClearInterrupts, Kinds

LEMMA BeginType ==
    ASSUME TypeOK, Suits, NEW c \in Commands, Begin(c), junk' \in BOOLEAN
    PROVE  TypeOK' /\ Suits'
<1>1. todo' \in Seq(Transfers)
  BY ScriptProper DEF Proper, Begin
<1>2. commands' \in 0..MaxCommands /\ moves' \in 0..MaxMoves /\ faults' \in 0..MaxFaults
  BY BoundsAssumption DEF Begin, TypeOK, BoundsAssumption
<1>3. at' \in Places /\ cmd' \in Commands /\ said' \in Words /\ moved' \subseteq Watched
  BY TurnSuits DEF Begin, Places, Words
<1>4. ok' \in BOOLEAN /\ bad' \in BOOLEAN
  BY Zenon DEF Begin, TypeOK
<1>5. Suits'
  BY TurnSuits DEF Begin, Suits
<1> QED
  BY <1>1, <1>2, <1>3, <1>4, <1>5 DEF Begin, TypeOK, board

LEMMA OutcomeType ==
    ASSUME TypeOK, NEW chip, Sound(chip) \/ Faulty(chip)
    PROVE  bad' \in BOOLEAN /\ faults' \in 0..MaxFaults
<1>1. bad' \in BOOLEAN
  BY Zenon DEF Sound, Faulty, TypeOK
<1>2. faults' \in 0..MaxFaults
  BY BoundsAssumption DEF Sound, Faulty, TypeOK, BoundsAssumption
<1> QED
  BY <1>1, <1>2

\* A transfer, or none, leaves the board as one of its types.
LEMMA BoardType ==
    ASSUME TypeOK, NEW t \in Transfers, Apply(t) \/ UNCHANGED <<board, recent>>
    PROVE  /\ regs' \in [Expanders -> [Kinds \X Banks -> SUBSET Bits]]
           /\ channels' \in SUBSET Bits
           /\ armed' \in [Expanders -> BOOLEAN]
           /\ recent' \subseteq Watched
<1>1. CASE Apply(t)
  BY <1>1, ApplyRegs, ApplyRest DEF TypeOK, Registers
<1>2. CASE UNCHANGED <<board, recent>>
  BY <1>2 DEF TypeOK, board
<1> QED
  BY <1>1, <1>2

LEMMA WriteType ==
    ASSUME TypeOK, Suits, Write
    PROVE  TypeOK' /\ Suits'
<1>1. Head(todo) \in Transfers /\ Tail(todo) \in Seq(Transfers)
  BY DEF Write, TypeOK
<1>2. PICK t \in Transfers : t = Head(todo)
  BY <1>1
<1>3. Apply(t) \/ UNCHANGED <<board, recent>>
  BY <1>2, Zenon DEF Write
<1>4. todo' \in Seq(Transfers)
  <2>1. todo' = Tail(todo) \/ todo' = <<>>
    BY Zenon DEF Write
  <2>2. <<>> \in Seq(Transfers)
    OBVIOUS
  <2> QED
    BY <1>1, <2>1, <2>2, Zenon
<1>5. Sound(Head(todo)[1]) \/ Faulty(Head(todo)[1])
  BY Zenon DEF Write
<1>6. ok' \in BOOLEAN
  BY Zenon DEF Write
<1>7. UNCHANGED <<at, cmd, said, junk, slave, high, moved, commands, moves>>
  BY DEF Write
<1> QED
  BY <1>3, <1>4, <1>5, <1>6, <1>7, OutcomeType, BoardType DEF TypeOK, Suits

LEMMA ClearType ==
    ASSUME TypeOK, Suits, Clear
    PROVE  TypeOK' /\ Suits'
<1>1. ClearInterrupts(cmd[2]) \in Transfers
  BY ClearTransfer DEF Clear, Suits
<1>2. PICK t \in Transfers : t = ClearInterrupts(cmd[2])
  BY <1>1
<1>3. Apply(t) \/ UNCHANGED <<board, recent>>
  BY <1>2, Zenon DEF Clear
<1>4. Sound(Wired[cmd[2]].chip) \/ Faulty(Wired[cmd[2]].chip)
  BY Zenon DEF Clear
<1>5. ok' \in BOOLEAN
  BY Zenon DEF Clear
<1>6. UNCHANGED <<cmd, todo, said, junk, slave, high, moved, commands, moves>> /\ at' = "menu"
  BY DEF Clear
<1> QED
  BY <1>3, <1>4, <1>5, <1>6, OutcomeType, BoardType DEF TypeOK, Suits, Places

LEMMA MoveType ==
    ASSUME TypeOK, Suits, NEW w \in Watched, Move(w)
    PROVE  TypeOK' /\ Suits'
<1>1. regs' \in [Expanders -> [Kinds \X Banks -> SUBSET Bits]]
  BY MoveRegs DEF TypeOK, Registers
<1>2. moves' \in 0..MaxMoves
  BY BoundsAssumption DEF Move, TypeOK, BoundsAssumption
<1>3. high' \subseteq Watched /\ recent' \subseteq Watched /\ moved' \subseteq Watched
  BY DEF Move, TypeOK
<1> QED
  BY <1>1, <1>2, <1>3 DEF Move, prog, TypeOK, Suits

LEMMA LookSays ==
    ASSUME Look
    PROVE  /\ at = "look" /\ at' \in {"ask", "data", "clear"} /\ said' \in Words \ {"Successed"}
           /\ Sound(Wired[cmd[2]].chip) \/ Faulty(Wired[cmd[2]].chip)
           /\ UNCHANGED <<cmd, todo, ok, junk, slave, board, high, moved, recent, commands, moves>>
  BY DEF Look, Words

\* What a step of the program may do to the types.
LEMMA WorkType ==
    ASSUME TypeOK, Suits, Work
    PROVE  TypeOK' /\ Suits'
<1>1. CASE Write
  BY <1>1, WriteType
<1>2. CASE Conclude
  <2>1. at' \in Places /\ said' \in Words
    BY <1>2 DEF Conclude, TypeOK, Places, Words
  <2>2. at' \in {"ask", "menu"} /\ (at' = "ask" => cmd \in WatchCommands)
    BY <1>2, CommandWords DEF Conclude, TypeOK, Suits
  <2> QED
    BY <1>2, <2>1, <2>2 DEF Conclude, TypeOK, Suits, board, counts
<1>3. CASE Probe
  <2>1. slave' \in Probed \cup {Elsewhere}
    <3>1. cmd \in ProbeCommands
      BY <1>3 DEF Probe, Suits
    <3>2. cmd[2] \in Probed
      BY <3>1 DEF ProbeCommands
    <3>3. slave' = slave \/ slave' = cmd[2]
      BY <1>3, Zenon DEF Probe
    <3> QED
      BY <3>2, <3>3 DEF TypeOK
  <2>2. said' \in Words /\ (Sound(slave') \/ Faulty(slave'))
    BY <1>3 DEF Probe, Words
  <2>3. at' = "menu" /\ UNCHANGED <<cmd, todo, ok, junk, board, high, moved, recent, commands, moves>>
    BY <1>3 DEF Probe
  <2> QED
    BY <2>1, <2>2, <2>3, OutcomeType DEF TypeOK, Suits, board, Places
<1>4. CASE Scan
  BY <1>4 DEF Scan, TypeOK, Suits, board, counts, Places
<1>5. CASE Enter
  <2>1. junk' \in BOOLEAN
    BY <1>5, Zenon DEF Enter
  <2> QED
    BY <1>5, <2>1 DEF Enter, TypeOK, Suits, board, counts, Places
<1>6. CASE Look
  <2>1. cmd \in WatchCommands
    BY <1>6, LookSays DEF Suits
  <2> QED
    BY <1>6, <2>1, LookSays, OutcomeType DEF TypeOK, Suits, board, Places
<1>7. CASE Data
  <2>1. said' \in Words /\ (Sound(Wired[cmd[2]].chip) \/ Faulty(Wired[cmd[2]].chip))
    BY <1>7 DEF Data, Words
  <2>2. at = "data" /\ at' = "clear"
        /\ UNCHANGED <<cmd, todo, ok, junk, slave, board, high, moved, recent, commands, moves>>
    BY <1>7 DEF Data
  <2> QED
    BY <2>1, <2>2, OutcomeType DEF TypeOK, Suits, board, Places
<1>8. CASE Clear
  BY <1>8, ClearType
<1> QED
  BY <1>1, <1>2, <1>3, <1>4, <1>5, <1>6, <1>7, <1>8 DEF Work

LEMMA TypeStep ==
    ASSUME TypeOK, Suits, [Next]_vars
    PROVE  TypeOK' /\ Suits'
<1>1. ASSUME NEW c \in Typed, Type(c)
      PROVE  TypeOK' /\ Suits'
  <2>1. c \in Commands
    BY ParametersAssumption DEF ParametersAssumption
  <2>2. junk' \in BOOLEAN
    BY <1>1, Zenon DEF Type, TypeOK
  <2> QED
    BY <1>1, <2>1, <2>2, BeginType DEF Type
<1>2. CASE Mistype
  <2>1. junk' \in BOOLEAN /\ cmd \in Commands /\ Begin(cmd)
    BY <1>2, Zenon DEF Mistype, TypeOK
  <2> QED
    BY <2>1, BeginType
<1>3. CASE Work
  BY <1>3, WorkType
<1>4. ASSUME NEW w \in Moving, Move(w)
      PROVE  TypeOK' /\ Suits'
  BY <1>4, ParametersAssumption, MoveType DEF ParametersAssumption
<1>5. CASE UNCHANGED vars
  BY <1>5 DEF vars, prog, board, counts, TypeOK, Suits
<1> QED
  BY <1>1, <1>2, <1>3, <1>4, <1>5 DEF Next

LEMMA InitType == Init => TypeOK /\ Suits
<1> SUFFICES ASSUME Init PROVE TypeOK /\ Suits
  OBVIOUS
<1>1. ok \in BOOLEAN /\ junk \in BOOLEAN /\ bad \in BOOLEAN
  BY Zenon DEF Init
<1>2. regs \in [Expanders -> [Kinds \X Banks -> SUBSET Bits]] /\ channels \in SUBSET Bits
  BY DefaultTyped DEF Init, Registers
<1>3. armed \in [Expanders -> BOOLEAN]
  BY Zenon DEF Init
<1>4. commands \in 0..MaxCommands /\ moves \in 0..MaxMoves /\ faults \in 0..MaxFaults
  BY BoundsAssumption DEF Init, BoundsAssumption
<1>5. /\ at \in Places /\ cmd \in Commands /\ todo \in Seq(Transfers) /\ said \in Words
      /\ slave \in Probed \cup {Elsewhere}
      /\ high \subseteq Watched /\ moved \subseteq Watched /\ recent \subseteq Watched
  BY ParametersAssumption DEF Init, ParametersAssumption, Places, Words
<1> QED
  BY <1>1, <1>2, <1>3, <1>4, <1>5 DEF TypeOK, Suits, Init

LEMMA SuitsHolds == Spec => [](TypeOK /\ Suits)
<1>1. TypeOK /\ Suits /\ [Next]_vars => (TypeOK /\ Suits)'
  BY TypeStep
<1> QED
  BY <1>1, InitType, PTL DEF Spec

\* Every variable of i2cgpioctl keeps its type, whatever is typed in whatever
\* order and whichever transfers fail: no byte or register outside those of the
\* chips is ever written, by the scripts or by the clearing of interrupts.
THEOREM MenuTypeCorrect == Spec => []TypeOK
  BY SuitsHolds, PTL

(***************************************************************************)
(* What a watch has seen                                                    *)
(***************************************************************************)

\* An interrupt that is pending came after the interrupts were last cleared.
Traced == \A w \in Watched :
    Wired[w].bit \in regs[Wired[w].chip][<<"Source", Wired[w].bank>>] => w \in recent

\* A look that found something, and was not a failed read, found that.
Noticed == at \in {"data", "clear"} /\ ~bad => cmd[2] \in recent

\* No two watched pins share a bit of an interrupt source.
LEMMA WiredApart ==
    ASSUME NEW v \in Watched, NEW w \in Watched,
           Wired[v].chip = Wired[w].chip, Wired[v].bank = Wired[w].bank, Wired[v].bit = Wired[w].bit
    PROVE  v = w
  BY DEF Watched, Wired, Place

LEMMA MaskIsWired ==
    ASSUME NEW w \in Watched
    PROVE  MaskBit[w] = {Wired[w].bit}
  BY DEF MaskBit, Watched, Wired, Place

\* Whatever a transfer does, an interrupt is only forgotten with its pin.
LEMMA TracedApply ==
    ASSUME TypeOK, Traced, NEW t \in Transfers, Apply(t)
    PROVE  Traced'
<1> SUFFICES ASSUME NEW w \in Watched,
                    Wired[w].bit \in regs'[Wired[w].chip][<<"Source", Wired[w].bank>>]
             PROVE  w \in recent'
  BY DEF Traced
<1>1. PICK e \in Expanders, b \in Banks : e = Wired[w].chip /\ b = Wired[w].bank
  BY WiredPlace
<1>2. PICK r \in Kinds \X Banks : r = <<"Source", b>>
  BY DEF Kinds
<1>3. regs \in [Expanders -> Registers]
  BY DEF TypeOK, Registers
<1>4. Wired[w].bit \in regs'[e][r]
  BY <1>1, <1>2
<1>5. Wired[w].bit \in regs[e][r] => w \in recent
  BY <1>1, <1>2 DEF Traced
<1>6. CASE t[1] # e
  <2>1. Wired[w].bit \in regs[e][r]
    BY <1>3, <1>4, <1>6, OtherChip
  <2>2. w \notin OnChip(t[1]) /\ w \notin OnBank(t[1], t[3])
    BY <1>1, <1>6 DEF OnChip, OnBank
  <2> QED
    BY <1>5, <2>1, <2>2 DEF Apply
<1>7. CASE t[1] = e /\ SecondKey(t) /\ armed[t[1]]
  <2>1. regs'[e] = Default
    BY <1>3, <1>7, ApplyRegs
  <2> QED
    BY <1>2, <1>4, <2>1 DEF Default
<1>8. CASE t[1] = e /\ t[2] = "Reset" /\ ~(SecondKey(t) /\ armed[t[1]])
  <2>1. regs' = regs /\ recent' = recent
    BY <1>8 DEF Apply, SecondKey, Expanders
  <2> QED
    BY <1>4, <1>5, <2>1
<1>9. CASE t[1] = e /\ t[2] \in Kinds /\ t[2] # "Source"
  <2>1. recent' = recent
    BY <1>9 DEF Apply, Kinds, Expanders
  <2>2. r # <<t[2], t[3]>>
    BY <1>2, <1>9
  <2>3. regs'[e][r] = regs[e][r]
    BY <1>3, <1>9, <2>2, ApplyRegs
  <2> QED
    BY <1>4, <1>5, <2>1, <2>3
<1>10. CASE t[1] = e /\ t[2] = "Source"
  <2>1. recent' = recent \ {v \in OnBank(t[1], t[3]) : Wired[v].bit \in t[4]}
    BY <1>10 DEF Apply, Expanders
  <2>2. t[2] \in Kinds
    BY <1>10 DEF Kinds
  <2>3. CASE t[3] = b
    <3>1. regs'[e][r] = regs[e][r] \ t[4]
      BY <1>2, <1>3, <1>10, <2>2, <2>3, ApplyRegs
    <3> QED
      BY <1>4, <1>5, <2>1, <3>1
  <2>4. CASE t[3] # b
    <3>1. r # <<t[2], t[3]>>
      BY <1>2, <2>4
    <3>2. regs'[e][r] = regs[e][r]
      BY <1>3, <1>10, <2>2, <3>1, ApplyRegs
    <3>3. w \notin OnBank(t[1], t[3])
      BY <1>1, <2>4 DEF OnBank
    <3> QED
      BY <1>4, <1>5, <2>1, <3>2, <3>3
  <2> QED
    BY <2>3, <2>4
<1> QED
  BY <1>1, <1>6, <1>7, <1>8, <1>9, <1>10, TransferKinds DEF Expanders

LEMMA TracedMove ==
    ASSUME TypeOK, Traced, NEW v \in Watched, Move(v)
    PROVE  Traced'
<1> SUFFICES ASSUME NEW w \in Watched,
                    Wired[w].bit \in regs'[Wired[w].chip][<<"Source", Wired[w].bank>>]
             PROVE  w \in recent'
  BY DEF Traced
<1>1. PICK e \in Expanders, b \in Banks : e = Wired[w].chip /\ b = Wired[w].bank
  BY WiredPlace
<1>2. PICK r \in Kinds \X Banks : r = <<"Source", b>>
  BY DEF Kinds
<1>3. regs \in [Expanders -> Registers]
  BY DEF TypeOK, Registers
<1>4. recent' = recent \cup {v}
  BY DEF Move
<1>5. CASE regs'[e][r] = regs[e][r]
  BY <1>1, <1>2, <1>4, <1>5 DEF Traced
<1>6. CASE regs'[e][r] # regs[e][r]
  <2>1. /\ e = Wired[v].chip /\ r = <<"Source", Wired[v].bank>>
        /\ regs'[e][r] = regs[e][r] \cup {Wired[v].bit}
    BY <1>3, <1>6, MoveRegs
  <2>2. b = Wired[v].bank
    BY <1>2, <2>1
  <2>3. CASE Wired[w].bit = Wired[v].bit
    BY <1>1, <1>4, <2>1, <2>2, <2>3, WiredApart
  <2>4. CASE Wired[w].bit # Wired[v].bit
    BY <1>1, <1>2, <1>4, <2>1, <2>4 DEF Traced
  <2> QED
    BY <2>3, <2>4
<1> QED
  BY <1>5, <1>6

LEMMA TracedIdle ==
    ASSUME Traced, UNCHANGED <<board, recent>>
    PROVE  Traced'
  BY DEF Traced, board

LEMMA NoticedLook ==
    ASSUME TypeOK, Suits, Traced, Look
    PROVE  Noticed'
<1> SUFFICES ASSUME at' \in {"data", "clear"}, ~bad'
             PROVE  cmd[2] \in recent
  BY LookSays DEF Noticed
<1>1. PICK w \in Watched : w = cmd[2]
  BY LookSays, ClearTransfer DEF Suits
<1>2. regs[Wired[w].chip][<<"Source", Wired[w].bank>>] \cap MaskBit[w] # {}
  BY <1>1 DEF Look, Faulty
<1> QED
  BY <1>1, <1>2, MaskIsWired DEF Traced

LEMMA SeenStep ==
    ASSUME TypeOK, Suits, Traced, Noticed, [Next]_vars
    PROVE  Traced' /\ Noticed'
<1>1. ASSUME NEW c \in Commands, Begin(c)
      PROVE  Traced' /\ Noticed'
  <2>1. at' \notin {"data", "clear"}
    BY <1>1, TurnSuits DEF Begin
  <2> QED
    BY <1>1, <2>1, TracedIdle DEF Begin, Noticed
<1>2. CASE Write
  <2>1. PICK t \in Transfers : t = Head(todo)
    BY <1>2 DEF Write, TypeOK
  <2>2. Apply(t) \/ UNCHANGED <<board, recent>>
    BY <1>2, <2>1, Zenon DEF Write
  <2>3. at' = "write"
    BY <1>2 DEF Write
  <2> QED
    BY <2>2, <2>3, TracedApply, TracedIdle DEF Noticed
<1>3. CASE Conclude \/ Probe \/ Scan \/ Enter
  <2>1. at' \in {"ask", "menu", "look"} /\ UNCHANGED <<board, recent>>
    BY <1>3 DEF Conclude, Probe, Scan, Enter
  <2> QED
    BY <2>1, TracedIdle DEF Noticed
<1>4. CASE Look
  BY <1>4, NoticedLook, LookSays, TracedIdle
<1>5. CASE Data
  <2>1. at = "data" /\ UNCHANGED <<cmd, board, recent>> /\ (bad' = bad \/ bad')
    BY <1>5 DEF Data, Sound, Faulty
  <2> QED
    BY <2>1, TracedIdle DEF Noticed
<1>6. CASE Clear
  <2>1. PICK t \in Transfers : t = ClearInterrupts(cmd[2])
    BY <1>6, ClearTransfer DEF Clear, Suits
  <2>2. Apply(t) \/ UNCHANGED <<board, recent>>
    BY <1>6, <2>1, Zenon DEF Clear
  <2>3. at' = "menu"
    BY <1>6 DEF Clear
  <2> QED
    BY <2>2, <2>3, TracedApply, TracedIdle DEF Noticed
<1>7. ASSUME NEW w \in Watched, Move(w)
      PROVE  Traced' /\ Noticed'
  <2>1. UNCHANGED <<at, cmd, bad>> /\ recent \subseteq recent'
    BY <1>7 DEF Move, prog
  <2> QED
    BY <1>7, <2>1, TracedMove DEF Noticed
<1>8. CASE UNCHANGED vars
  BY <1>8, TracedIdle DEF vars, prog, board, Noticed
<1> QED
  BY <1>1, <1>2, <1>3, <1>4, <1>5, <1>6, <1>7, <1>8, ParametersAssumption
     DEF Next, Work, Type, Mistype, TypeOK, ParametersAssumption

\* An interrupt that a watch reports is one of the pin it watches, and came after
\* that pin's interrupts were last cleared: for any commands before it, half-done
\* resets included, any pins that move and any transfers that fail, unless one of
\* this very command did.
THEOREM SeenIsTrue == Spec => []SeenHappened
<1>1. Init => TypeOK /\ Suits /\ Traced /\ Noticed
  <2>1. Init => Traced
    BY WiredPlace DEF Init, Traced, Default, Kinds
  <2> QED
    BY <2>1, InitType DEF Init, Noticed
<1>2. TypeOK /\ Suits /\ Traced /\ Noticed /\ [Next]_vars => (TypeOK /\ Suits /\ Traced /\ Noticed)'
  BY TypeStep, SeenStep
<1>3. Noticed => SeenHappened
  BY DEF Noticed, SeenHappened
<1> QED
  BY <1>1, <1>2, <1>3, PTL DEF Spec

(***************************************************************************)
(* What "Successed!" vouches for                                            *)
(***************************************************************************)

MetTo(s, k) == \A j \in 1..k : Met(s[j])

\* k transfers of the script s were made: what they have done is not undone, and
\* a chip whose reset is half done waits for the second key.  A routing command
\* knows of every failure.
Underway(s, k) ==
    /\ Len(todo) = Len(s) - k
    /\ \A i \in 1..Len(todo) : todo[i] = s[k + i]
    /\ ~bad => MetTo(s, k) /\ (k > 0 /\ FirstKey(s[k]) => armed[s[k][1]])
    /\ cmd[2] \in DOMAIN Routing => /\ 0 < k /\ k < Len(s) => ok
                                    /\ ok => MetTo(s, k)

Scripted == at = "write" => \E k \in 0..Len(Script(cmd)) : Underway(Script(cmd), k)

Told ==
    said = "Successed" =>
        /\ at = "menu" /\ cmd \in Writing /\ cmd[1] # "watch"
        /\ ~bad \/ cmd[2] \in DOMAIN Routing => MetTo(Script(cmd), Len(Script(cmd)))

LEMMA MetNext ==
    ASSUME TypeOK, NEW s, Proper(s), NEW k \in 0..Len(s), k < Len(s),
           MetTo(s, k), Apply(s[k + 1]), SecondKey(s[k + 1]) => armed[s[k + 1][1]]
    PROVE  MetTo(s, k + 1)'
<1>1. s \in Seq(Transfers) /\ Len(s) \in Nat
  BY DEF Proper
<1>2. PICK u \in Transfers : u = s[k + 1]
  BY <1>1
<1>3. u[2] # "Source"
  BY <1>1, <1>2 DEF Proper
<1>4. ASSUME NEW j \in 1..(k + 1)
      PROVE  Met(s[j])'
  <2>1. PICK t \in Transfers : t = s[j]
    BY <1>1
  <2>2. CASE j = k + 1
    BY <1>2, <1>3, <2>1, <2>2, MetOnce
  <2>3. CASE j # k + 1
    <3>1. j \in 1..k /\ k + 1 \in 1..Len(s) /\ j \in 1..Len(s) /\ j < k + 1
      BY <1>1, <2>3
    <3>2. Apart(t, u) /\ t[2] # "Source"
      BY <1>2, <2>1, <3>1 DEF Proper
    <3>3. Met(t)
      BY <2>1, <3>1 DEF MetTo
    <3>4. Apply(u)
      BY <1>2
    <3>5. Met(t)'
      BY <3>2, <3>3, <3>4, MetKept
    <3> QED
      BY <2>1, <3>5
  <2> QED
    BY <2>2, <2>3
<1> QED
  BY <1>4 DEF MetTo

\* The routing commands have one transfer, but for the one that looks at the
\* result of its first, and reset nothing.
LEMMA RoutingScripts ==
    ASSUME NEW c \in Writing, c[2] \in DOMAIN Routing
    PROVE  /\ c = <<"set", c[2]>>
           /\ Script(c) = Routing[c[2]]
           /\ \A j \in 1..Len(Script(c)) : Script(c)[j][2] = "Dir"
           /\ GivesUp(c) \/ Len(Script(c)) = 1
<1>1. c = <<"set", c[2]>>
  <2>1. c \in Commands
    BY DEF Commands
  <2>2. c[2] \notin Cards \cup Watched \cup Expanders
    BY DEF Routing, Cards, Watched, Wired, Expanders
  <2> QED
    BY <2>1, <2>2, CommandWords
<1>2. Script(c) = Routing[c[2]]
  BY <1>1, ScriptOfSet
<1>3. \A j \in 1..Len(Routing[c[2]]) : Routing[c[2]][j][2] = "Dir"
  BY DEF Routing
<1>4. c[2] = "Uart2" \/ Len(Routing[c[2]]) = 1
  BY DEF Routing
<1> QED
  BY <1>1, <1>2, <1>3, <1>4 DEF GivesUp

\* A transfer succeeds.
LEMMA SoundStep ==
    ASSUME TypeOK, NEW s, Proper(s), s = Script(cmd), cmd \in Writing,
           NEW k \in 0..Len(s), Underway(s, k), todo # <<>>,
           Sound(Head(todo)[1]), ok' = TRUE, Apply(Head(todo)), todo' = Tail(todo), cmd' = cmd
    PROVE  k < Len(s) /\ Underway(s, k + 1)'
<1>1. s \in Seq(Transfers) /\ Len(s) \in Nat /\ todo \in Seq(Transfers) /\ Len(todo) \in Nat
  BY DEF Proper, TypeOK
<1>2. Len(todo) > 0 /\ Head(todo) = todo[1]
  BY <1>1
<1>3. k < Len(s) /\ k + 1 \in 1..Len(s) /\ Head(todo) = s[k + 1]
  BY <1>1, <1>2 DEF Underway
<1>4. Apply(s[k + 1])
  BY <1>3
<1>5. Len(todo') = Len(s) - (k + 1)
  BY <1>1, <1>2, <1>3 DEF Underway
<1>6. \A i \in 1..Len(todo') : todo'[i] = s[k + 1 + i]
  <2> SUFFICES ASSUME NEW i \in 1..Len(todo')
               PROVE  todo'[i] = s[k + 1 + i]
    OBVIOUS
  <2>1. i + 1 \in 1..Len(todo) /\ todo'[i] = todo[i + 1]
    BY <1>1, <1>2
  <2>2. todo[i + 1] = s[k + (i + 1)]
    BY <2>1 DEF Underway
  <2>3. k + (i + 1) = k + 1 + i
    OBVIOUS
  <2> QED
    BY <2>1, <2>2, <2>3
<1>7. ASSUME ~bad'
      PROVE  MetTo(s, k + 1)' /\ (k + 1 > 0 /\ FirstKey(s[k + 1]) => armed'[s[k + 1][1]])
  <2>1. MetTo(s, k) /\ (k > 0 /\ FirstKey(s[k]) => armed[s[k][1]])
    BY <1>7 DEF Sound, Underway
  <2>2. SecondKey(s[k + 1]) => k + 1 > 1 /\ FirstKey(s[k + 1 - 1]) /\ s[k + 1 - 1][1] = s[k + 1][1]
    BY <1>3 DEF Proper
  <2>3. k + 1 - 1 = k /\ (k + 1 > 1 => k > 0)
    BY <1>1
  <2>4. SecondKey(s[k + 1]) => armed[s[k + 1][1]]
    BY <2>1, <2>2, <2>3
  <2>5. MetTo(s, k + 1)'
    BY <1>3, <1>4, <2>1, <2>4, MetNext
  <2>6. s[k + 1] \in Transfers
    BY <1>1, <1>3
  <2> QED
    BY <1>4, <2>5, <2>6, ApplyRest DEF TypeOK
<1>8. ASSUME cmd[2] \in DOMAIN Routing
      PROVE  MetTo(s, k + 1)'
  <2>1. MetTo(s, k)
    <3>1. k = 0 => MetTo(s, k)
      BY DEF MetTo
    <3>2. k > 0 => MetTo(s, k)
      BY <1>3, <1>8 DEF Underway
    <3> QED
      BY <1>1, <3>1, <3>2
  <2>2. ~SecondKey(s[k + 1])
    BY <1>3, <1>8, RoutingScripts DEF SecondKey
  <2> QED
    BY <1>3, <1>4, <2>1, <2>2, MetNext
<1> QED
  BY <1>3, <1>5, <1>6, <1>7, <1>8 DEF Underway

\* A transfer fails: the script goes on, or the command gives up.
LEMMA FaultyStep ==
    ASSUME TypeOK, NEW s, Proper(s), s = Script(cmd), cmd \in Writing,
           NEW k \in 0..Len(s), Underway(s, k), todo # <<>>,
           Faulty(Head(todo)[1]), ok' = FALSE, UNCHANGED <<board, recent>>, cmd' = cmd,
           todo' = IF GivesUp(cmd) THEN <<>> ELSE Tail(todo)
    PROVE  \E k2 \in 0..Len(s) : Underway(s, k2)'
<1>1. s \in Seq(Transfers) /\ Len(s) \in Nat /\ todo \in Seq(Transfers) /\ Len(todo) \in Nat
  BY DEF Proper, TypeOK
<1>2. Len(todo) > 0
  BY <1>1
<1>3. k < Len(s)
  BY <1>1, <1>2 DEF Underway
<1>4. bad' /\ ~ok'
  BY DEF Faulty
<1>5. CASE GivesUp(cmd)
  <2>1. Len(todo') = 0 /\ Len(s) - Len(s) = 0
    BY <1>1, <1>5
  <2>2. Underway(s, Len(s))'
    BY <1>1, <1>4, <2>1 DEF Underway
  <2> QED
    BY <1>1, <2>2
<1>6. CASE ~GivesUp(cmd)
  <2>1. Len(todo') = Len(s) - (k + 1)
    BY <1>1, <1>2, <1>3, <1>6 DEF Underway
  <2>2. \A i \in 1..Len(todo') : todo'[i] = s[k + 1 + i]
    <3> SUFFICES ASSUME NEW i \in 1..Len(todo')
                 PROVE  todo'[i] = s[k + 1 + i]
      OBVIOUS
    <3>1. i + 1 \in 1..Len(todo) /\ todo'[i] = todo[i + 1]
      BY <1>1, <1>2, <1>6
    <3>2. todo[i + 1] = s[k + (i + 1)]
      BY <3>1 DEF Underway
    <3>3. k + (i + 1) = k + 1 + i
      OBVIOUS
    <3> QED
      BY <3>1, <3>2, <3>3
  <2>3. cmd[2] \in DOMAIN Routing => ~(k + 1 < Len(s))
    BY <1>1, <1>6, RoutingScripts
  <2>4. Underway(s, k + 1)'
    BY <1>4, <2>1, <2>2, <2>3 DEF Underway
  <2> QED
    BY <1>1, <1>3, <2>4
<1> QED
  BY <1>5, <1>6

LEMMA MetToMove ==
    ASSUME TypeOK, NEW s, Proper(s), NEW k \in 0..Len(s), MetTo(s, k), NEW w \in Watched, Move(w)
    PROVE  MetTo(s, k)'
<1> SUFFICES ASSUME NEW j \in 1..k
             PROVE  Met(s[j])'
  BY DEF MetTo
<1>1. s \in Seq(Transfers) /\ j \in 1..Len(s)
  BY DEF Proper
<1>2. PICK t \in Transfers : t = s[j]
  BY <1>1
<1>3. Met(t) /\ t[2] # "Source"
  BY <1>1, <1>2 DEF MetTo, Proper
<1>4. Met(t)'
  BY <1>3, MetMove
<1> QED
  BY <1>2, <1>4

LEMMA MetToIdle ==
    ASSUME NEW s, NEW k, MetTo(s, k), UNCHANGED board
    PROVE  MetTo(s, k)'
  BY DEF MetTo, Met, Holds, board

LEMMA BeginScript ==
    ASSUME NEW c \in Commands, Begin(c)
    PROVE  Scripted' /\ Told'
<1>1. PICK s : s = Script(c) /\ Proper(s)
  BY ScriptProper
<1>2. s \in Seq(Transfers) /\ todo' = s /\ cmd' = c
  BY <1>1 DEF Begin, Proper
<1>3. MetTo(s, 0)'
  BY DEF MetTo
<1>4. Underway(s, 0)'
  BY <1>2, <1>3 DEF Underway
<1>5. 0 \in 0..Len(s)
  BY <1>2
<1>6. Scripted'
  BY <1>1, <1>2, <1>4, <1>5 DEF Scripted
<1>7. said' = "nothing"
  BY DEF Begin
<1> QED
  BY <1>6, <1>7 DEF Told

LEMMA WriteScript ==
    ASSUME TypeOK, Suits, Scripted, Told, Write
    PROVE  Scripted' /\ Told'
<1>1. at = "write" /\ cmd \in Writing /\ todo # <<>> /\ UNCHANGED <<at, cmd, said>>
  BY DEF Write, Suits
<1>2. PICK s : s = Script(cmd) /\ Proper(s)
  BY ScriptProper DEF TypeOK
<1>3. PICK k \in 0..Len(s) : Underway(s, k)
  BY <1>1, <1>2 DEF Scripted
<1>4. Len(s) \in Nat
  BY <1>2 DEF Proper
<1>5. CASE Sound(Head(todo)[1]) /\ ok' = TRUE /\ Apply(Head(todo)) /\ todo' = Tail(todo)
  <2>1. k < Len(s) /\ Underway(s, k + 1)'
    BY <1>1, <1>2, <1>3, <1>5, SoundStep
  <2>2. k + 1 \in 0..Len(s)
    BY <1>4, <2>1
  <2> QED
    BY <1>1, <1>2, <2>1, <2>2 DEF Scripted, Told
<1>6. CASE /\ Faulty(Head(todo)[1]) /\ ok' = FALSE /\ UNCHANGED <<board, recent>>
           /\ todo' = IF GivesUp(cmd) THEN <<>> ELSE Tail(todo)
  <2>1. \E k2 \in 0..Len(s) : Underway(s, k2)'
    BY <1>1, <1>2, <1>3, <1>6, FaultyStep
  <2> QED
    BY <1>1, <1>2, <2>1 DEF Scripted, Told
<1> QED
  BY <1>5, <1>6 DEF Write

\* When a script has come to its end, all that it says is done, or it is known
\* that a transfer failed.
LEMMA ConcludeScript ==
    ASSUME TypeOK, Suits, Scripted, Told, Conclude
    PROVE  Scripted' /\ Told'
<1>1. at = "write" /\ cmd \in Writing /\ todo = <<>> /\ UNCHANGED <<cmd, bad, board>>
      /\ at' \in {"ask", "menu"}
  BY DEF Conclude, Suits
<1>2. PICK s : s = Script(cmd) /\ Proper(s)
  BY ScriptProper DEF TypeOK
<1>3. PICK k \in 0..Len(s) : Underway(s, k)
  BY <1>1, <1>2 DEF Scripted
<1>4. k = Len(s)
  <2>1. Len(s) \in Nat /\ Len(todo) = 0 /\ Len(todo) = Len(s) - k
    BY <1>1, <1>2, <1>3 DEF Proper, Underway
  <2> QED
    BY <2>1
<1>5. ASSUME said' = "Successed"
      PROVE  /\ at' = "menu" /\ cmd[1] # "watch"
             /\ ~bad \/ cmd[2] \in DOMAIN Routing => MetTo(s, Len(s))
  <2>1. said # "Successed"
    BY <1>1 DEF Told
  <2>2. at' = "menu" /\ cmd[1] # "watch" /\ ok
    BY <1>5, <2>1 DEF Conclude
  <2> QED
    BY <1>3, <1>4, <2>2 DEF Underway
<1>6. ~bad \/ cmd[2] \in DOMAIN Routing => (MetTo(s, Len(s)) => MetTo(s, Len(s))')
  BY <1>1, MetToIdle
<1> QED
  BY <1>1, <1>2, <1>5, <1>6 DEF Scripted, Told

LEMMA OthersScript ==
    ASSUME Told, Probe \/ Scan \/ Enter \/ Look \/ Data \/ Clear
    PROVE  Scripted' /\ Told'
<1>1. at # "menu" /\ at' # "write" /\ (said' # said => said' # "Successed")
  BY DEF Probe, Scan, Enter, Look, Data, Clear
<1> QED
  BY <1>1 DEF Scripted, Told

LEMMA MoveScript ==
    ASSUME TypeOK, Scripted, Told, NEW w \in Watched, Move(w)
    PROVE  Scripted' /\ Told'
<1>1. UNCHANGED <<at, cmd, todo, ok, said, bad, armed>>
  BY DEF Move, prog
<1>2. PICK s : s = Script(cmd) /\ Proper(s)
  BY ScriptProper DEF TypeOK
<1>3. \A k \in 0..Len(s) : MetTo(s, k) => MetTo(s, k)'
  BY <1>2, MetToMove
<1>4. \A k \in 0..Len(s) : Underway(s, k) => Underway(s, k)'
  BY <1>1, <1>3 DEF Underway
<1>5. Len(s) \in 0..Len(s)
  BY <1>2 DEF Proper
<1> QED
  BY <1>1, <1>2, <1>3, <1>4, <1>5 DEF Scripted, Told

LEMMA ScriptStep ==
    ASSUME TypeOK, Suits, Scripted, Told, [Next]_vars
    PROVE  Scripted' /\ Told'
<1>1. CASE UNCHANGED vars
  BY <1>1 DEF vars, prog, board, Scripted, Told, Underway, MetTo, Met, Holds
<1>2. CASE Next
  BY <1>2, BeginScript, WriteScript, ConcludeScript, OthersScript, MoveScript, ParametersAssumption
     DEF Next, Work, Type, Mistype, TypeOK, ParametersAssumption
<1> QED
  BY <1>1, <1>2

LEMMA EffectLight ==
    ASSUME NEW c \in Cards, NEW d \in Leds, NEW l, l = Light(c)[d]
    PROVE  /\ MetTo(Enable(l), 2) => Lit(l)
           /\ MetTo(Disable(l), 2) => ~Lit(l)
<1>1. ASSUME MetTo(Enable(l), 2)
      PROVE  Lit(l)
  <2>1. Met(<<l.chip, "Dir", l.bank, Bits \ {l.bit}>>) /\ Met(<<l.chip, "Polarity", l.bank, {l.bit}>>)
    BY <1>1 DEF MetTo, Enable
  <2> QED
    BY <2>1 DEF Met, Holds, Lit, Bank, Kinds
<1>2. ASSUME MetTo(Disable(l), 2)
      PROVE  ~Lit(l)
  <2>1. Met(<<l.chip, "Polarity", l.bank, {}>>)
    BY <1>2 DEF MetTo, Disable
  <2> QED
    BY <2>1 DEF Met, Holds, Lit, Bank, Kinds
<1> QED
  BY <1>1, <1>2

LEMMA EffectReset ==
    ASSUME NEW e \in Expanders, MetTo(Reset(e), 2)
    PROVE  regs[e] = Default
<1>1. Met(<<e, "Reset", NoBank, ResetKeys[2]>>)
  BY DEF MetTo, Reset
<1> QED
  BY <1>1 DEF Met, SecondKey

LEMMA EffectClear ==
    ASSUME MetTo(ClearDefault, 7)
    PROVE  channels = {} /\ \A e \in Expanders : regs[e] = Default
<1>1. /\ Met(<<"Expander1", "Reset", NoBank, ResetKeys[2]>>)
      /\ Met(<<"Expander2", "Reset", NoBank, ResetKeys[2]>>)
      /\ Met(<<"Expander3", "Reset", NoBank, ResetKeys[2]>>)
      /\ Met(SwitchTo({}))
  <2>1. Met(ClearDefault[2]) /\ Met(ClearDefault[4]) /\ Met(ClearDefault[6]) /\ Met(ClearDefault[7])
    BY DEF MetTo
  <2> QED
    BY <2>1, ClearTransfers
<1> QED
  BY <1>1 DEF Met, SecondKey, SwitchTo, Expanders

\* Every light is on one of three banks, which the last command writes whole.
LEMMA LightBanks ==
    ASSUME NEW l \in AllLights
    PROVE  \/ l.chip \in {"Expander2", "Expander3"} /\ l.bank = "A" /\ l.bit \in Bits
           \/ l.chip = "Expander2" /\ l.bank = "B" /\ l.bit = 0
<1>1. PICK c \in Cards, d \in Leds : l = Light(c)[d]
  BY DEF AllLights
<1>2. CASE c = "IOT0"
  BY <1>1, <1>2 DEF Light, Place, Leds, Bits
<1>3. CASE c = "IOT1"
  BY <1>1, <1>3 DEF Light, Place, Leds, Bits
<1>4. CASE c = "IOT2"
  BY <1>1, <1>4 DEF Light, Place, Leds, Bits
<1> QED
  BY <1>2, <1>3, <1>4 DEF Cards

LEMMA EffectLoad ==
    ASSUME MetTo(LoadDefault, 7), NEW l \in AllLights
    PROVE  Lit(l)
<1>1. /\ Met(<<"Expander2", "Dir", "A", {}>>) /\ Met(<<"Expander2", "Polarity", "A", Bits>>)
      /\ Met(<<"Expander2", "Dir", "B", Bits \ {0}>>) /\ Met(<<"Expander2", "Polarity", "B", {0}>>)
      /\ Met(<<"Expander3", "Dir", "A", {}>>) /\ Met(<<"Expander3", "Polarity", "A", Bits>>)
  BY DEF MetTo, LoadDefault
<1>2. /\ regs["Expander2"][<<"Dir", "A">>] = {} /\ regs["Expander2"][<<"Polarity", "A">>] = Bits
      /\ regs["Expander2"][<<"Dir", "B">>] = Bits \ {0} /\ regs["Expander2"][<<"Polarity", "B">>] = {0}
      /\ regs["Expander3"][<<"Dir", "A">>] = {} /\ regs["Expander3"][<<"Polarity", "A">>] = Bits
  BY <1>1 DEF Met, Holds, Kinds
<1> QED
  BY <1>2, LightBanks DEF Lit, Bank

\* A script of which every transfer was made, and none undone, has done what its
\* command is for.
LEMMA EffectMet ==
    ASSUME NEW c \in Writing, MetTo(Script(c), Len(Script(c)))
    PROVE  Effect(c)
<1>1. c \in Commands
  BY DEF Commands
<1>2. CASE c[1] = "enable" /\ c[2] \in Cards /\ c[3] \in Leds
  <2>1. PICK l : l = Light(c[2])[c[3]]
    OBVIOUS
  <2>2. Script(c) = Enable(l) /\ Len(Enable(l)) = 2
    BY <1>2, <2>1, ScriptByKind DEF Enable
  <2>3. Lit(l)
    BY <1>2, <2>1, <2>2, EffectLight
  <2> QED
    BY <1>2, <2>1, <2>3 DEF Effect
<1>3. CASE c[1] = "disable" /\ c[2] \in Cards /\ c[3] \in Leds
  <2>1. PICK l : l = Light(c[2])[c[3]]
    OBVIOUS
  <2>2. Script(c) = Disable(l) /\ Len(Disable(l)) = 2
    BY <1>3, <2>1, ScriptByKind DEF Disable
  <2>3. ~Lit(l)
    BY <1>3, <2>1, <2>2, EffectLight
  <2> QED
    BY <1>3, <2>1, <2>3 DEF Effect
<1>4. CASE c[1] = "watch"
  BY <1>4 DEF Effect
<1>5. CASE c[1] = "reset" /\ c[2] \in Expanders
  <2>1. Script(c) = Reset(c[2]) /\ Len(Reset(c[2])) = 2
    BY <1>5, ScriptByKind DEF Reset
  <2> QED
    BY <1>5, <2>1, EffectReset DEF Effect
<1>6. CASE c = <<"set", "Clear">>
  <2>1. channels = {} /\ \A e \in Expanders : regs[e] = Default
    BY <1>6, ScriptOfSet, ClearTransfers, EffectClear
  <2>2. c[1] = "set" /\ c # <<"set", "Load">> /\ c[2] \notin DOMAIN Routing
    BY <1>6 DEF Routing
  <2> QED
    BY <1>6, <2>1, <2>2 DEF Effect
<1>7. CASE c = <<"set", "Load">>
  <2>1. Len(LoadDefault) = 7
    BY DEF LoadDefault
  <2>2. \A l \in AllLights : Lit(l)
    BY <1>7, <2>1, ScriptOfSet, EffectLoad
  <2>3. c[1] = "set" /\ c # <<"set", "Clear">> /\ c[2] \notin DOMAIN Routing
    BY <1>7 DEF Routing
  <2> QED
    BY <1>7, <2>2, <2>3 DEF Effect
<1>8. CASE c = <<"set", c[2]>> /\ c[2] \in DOMAIN Routing
  <2>1. PICK s : s = Script(c) /\ Proper(s)
    BY <1>1, ScriptProper
  <2>2. DOMAIN s = 1..Len(s)
    BY <2>1 DEF Proper
  <2>3. \A j \in 1..Len(s) : s[j][2] = "Dir"
    BY <1>8, <2>1, RoutingScripts
  <2>4. \A j \in 1..Len(s) : Holds(s[j])
    BY <2>1, <2>3 DEF MetTo, Met, Kinds
  <2>5. c[2] \notin {"Clear", "Load"} /\ c # <<"set", "Clear">> /\ c # <<"set", "Load">>
    BY <1>8 DEF Routing
  <2> QED
    BY <1>8, <2>1, <2>2, <2>4, <2>5 DEF Effect
<1>9. CASE c = <<"set", c[2]>> /\ c[2] \in DOMAIN Switching
  <2>1. c[2] \notin {"Clear", "Load"} /\ c[2] \notin DOMAIN Routing
    BY <1>9 DEF Switching, Routing
  <2> QED
    BY <1>9, <2>1 DEF Effect
<1> QED
  BY <1>1, <1>2, <1>3, <1>4, <1>5, <1>6, <1>7, <1>8, <1>9, CommandWords

\* "Successed!" after a command of which no transfer failed, and after a routing
\* command in any case, means that the board is as the user asked, whatever
\* commands, half-done resets and failures went before and whatever pins move.
THEOREM SuccessIsTrue == Spec => []SuccessIsDone
<1>1. Init => TypeOK /\ Suits /\ Scripted /\ Told
  BY InitType DEF Init, Scripted, Told
<1>2. TypeOK /\ Suits /\ Scripted /\ Told /\ [Next]_vars => (TypeOK /\ Suits /\ Scripted /\ Told)'
  BY TypeStep, ScriptStep
<1>3. Told => SuccessIsDone
  BY EffectMet DEF Told, SuccessIsDone
<1> QED
  BY <1>1, <1>2, <1>3, PTL DEF Spec

(***************************************************************************)
(* What a watch cannot miss                                                 *)
(***************************************************************************)

\* While a watch waits, its script stands as it was written; what has moved since
\* then is pending.
Ready == at \in {"ask", "look"} /\ ~bad => MetTo(Script(cmd), Len(Script(cmd)))
Fresh == at = "write" => moved = {}
Pending(w) == Wired[w].bit \in regs[Wired[w].chip][<<"Source", Wired[w].bank>>]
Held == at \in {"ask", "look"} /\ ~bad /\ cmd[2] \in moved => Pending(cmd[2])

\* The bits of the sense registers are all there is, for any pin of a bank.
LEMMA WiredEdges ==
    ASSUME NEW w \in Watched, NEW rising \in BOOLEAN
    PROVE  2 * (Wired[w].bit % 4) + (IF rising THEN 0 ELSE 1) \in Bits
<1>1. Wired[w].bit \in {0, 3, 4, 5, 6, 7}
  BY DEF Watched, Wired, Place
<1>2. PICK m \in 0..3 : m = Wired[w].bit % 4
  BY <1>1
<1> QED
  BY <1>2 DEF Bits

\* With the script of its watch done, a pin raises its interrupt at both edges.
LEMMA WatchRaises ==
    ASSUME NEW w \in Watched, MetTo(Watch(w), 4), NEW rising \in BOOLEAN
    PROVE  Raises(w, rising)
<1>1. PICK e \in Expanders, b \in Banks, n \in Bits :
        e = Wired[w].chip /\ b = Wired[w].bank /\ n = Wired[w].bit
  BY WiredPlace
<1>2. Watch(w) = <<<<e, "Dir", b, Inputs(w)>>, <<e, "Mask", b, {}>>,
                   <<e, "SenseHigh", b, Bits>>, <<e, "SenseLow", b, Bits>>>>
  BY <1>1 DEF Watch
<1>3. /\ Met(<<e, "Dir", b, Inputs(w)>>) /\ Met(<<e, "Mask", b, {}>>)
      /\ Met(<<e, "SenseHigh", b, Bits>>) /\ Met(<<e, "SenseLow", b, Bits>>)
  BY <1>2 DEF MetTo
<1>4. /\ regs[e][<<"Dir", b>>] = Inputs(w) /\ regs[e][<<"Mask", b>>] = {}
      /\ regs[e][<<"SenseHigh", b>>] = Bits /\ regs[e][<<"SenseLow", b>>] = Bits
  BY <1>3 DEF Met, Holds, Kinds
<1>5. n \in Inputs(w)
  BY <1>1 DEF Inputs, MaskBit, Cards, Watched, Wired, Place
<1>6. Senses(e, b, n, rising)
  <2>1. 2 * (n % 4) + (IF rising THEN 0 ELSE 1) \in Bits
    BY <1>1, WiredEdges
  <2> QED
    BY <1>4, <2>1 DEF Senses
<1> QED
  BY <1>1, <1>4, <1>5, <1>6 DEF Raises

LEMMA WatchScript ==
    ASSUME NEW c \in WatchCommands
    PROVE  c[2] \in Watched /\ c \in Commands /\ Script(c) = Watch(c[2]) /\ Len(Script(c)) = 4
<1>1. c[2] \in Watched /\ c[1] = "watch"
  BY DEF WatchCommands
<1>2. Script(c) = Watch(c[2]) /\ Len(Watch(c[2])) = 4
  BY <1>1, ScriptByKind DEF Watch
<1> QED
  BY <1>1, <1>2 DEF Commands, Writing

\* The watched pin moves: its interrupt is raised; another moves: none is lost.
LEMMA HeldMove ==
    ASSUME TypeOK, Suits, Ready, Held, NEW w \in Watched, Move(w)
    PROVE  Ready' /\ Held'
<1>1. UNCHANGED <<at, cmd, bad>> /\ (at \in {"ask", "look"} => moved' = moved \cup {w})
  BY DEF Move, prog
<1> SUFFICES ASSUME at \in {"ask", "look"}, ~bad
             PROVE  Ready' /\ (cmd[2] \in moved' => Pending(cmd[2])')
  BY <1>1 DEF Ready, Held
<1>2. PICK v \in Watched : v = cmd[2]
  BY WatchScript DEF Suits
<1>3. cmd \in WatchCommands /\ MetTo(Watch(v), 4) /\ Proper(Watch(v))
  BY <1>2, WatchScript, ProperWatch DEF Suits, Ready
<1>4. Ready'
  <2>1. PICK s : s = Script(cmd) /\ Proper(s) /\ Len(s) = 4 /\ MetTo(s, 4)
    BY <1>2, <1>3, WatchScript
  <2>2. PICK k \in 0..Len(s) : k = 4
    BY <2>1
  <2>3. MetTo(s, k)'
    BY <2>1, <2>2, MetToMove
  <2> QED
    BY <1>1, <2>1, <2>2, <2>3 DEF Ready
<1>5. regs \in [Expanders -> Registers]
  BY DEF TypeOK, Registers
<1>6. PICK e \in Expanders, r \in Kinds \X Banks :
        e = Wired[v].chip /\ r = <<"Source", Wired[v].bank>>
  BY WiredPlace DEF Kinds
<1>7. CASE v = w
  <2>1. PICK rising \in BOOLEAN : rising = (w \notin high)
    OBVIOUS
  <2>2. Raises(w, w \notin high)
    BY <1>3, <1>7, <2>1, WatchRaises
  <2>3. PICK x \in SUBSET Bits : x = regs[e][r] \cup {Wired[v].bit}
    BY <1>5, <1>6, WiredPlace DEF Registers
  <2>4. regs' = [regs EXCEPT ![e][r] = x]
    BY <1>6, <1>7, <2>2, <2>3 DEF Move
  <2>5. regs'[e][r] = x
    BY <1>5, <2>4 DEF Registers
  <2> QED
    BY <1>1, <1>2, <1>4, <1>6, <2>3, <2>5 DEF Pending
<1>8. CASE v # w
  <2>1. cmd[2] \in moved' => Pending(v)
    BY <1>1, <1>2, <1>8 DEF Held
  <2>2. regs[e][r] \subseteq regs'[e][r]
    BY <1>5, MoveRegs
  <2> QED
    BY <1>1, <1>2, <1>4, <1>6, <2>1, <2>2 DEF Pending
<1> QED
  BY <1>7, <1>8

\* The script of a watch has come to its end.
LEMMA ReadyConclude ==
    ASSUME TypeOK, Suits, Scripted, Fresh, Conclude
    PROVE  Ready' /\ Held'
<1>1. at = "write" /\ todo = <<>> /\ cmd \in Writing /\ moved = {} /\ UNCHANGED <<cmd, bad, board, moved>>
  BY DEF Conclude, Suits, Fresh
<1>2. PICK s : s = Script(cmd) /\ Proper(s)
  BY ScriptProper DEF TypeOK
<1>3. PICK k \in 0..Len(s) : Underway(s, k)
  BY <1>1, <1>2 DEF Scripted
<1>4. k = Len(s)
  <2>1. Len(s) \in Nat /\ Len(todo) = 0 /\ Len(todo) = Len(s) - k
    BY <1>1, <1>2, <1>3 DEF Proper, Underway
  <2> QED
    BY <2>1
<1>5. ~bad => MetTo(s, Len(s))'
  BY <1>1, <1>3, <1>4, MetToIdle DEF Underway
<1> QED
  BY <1>1, <1>2, <1>5 DEF Ready, Held

LEMMA HeldIdle ==
    ASSUME Ready, Held, UNCHANGED <<cmd, board, moved>>, bad \in BOOLEAN, bad' = bad \/ bad',
           at' \in {"ask", "look"} => at \in {"ask", "look"}
    PROVE  Ready' /\ Held'
  BY MetToIdle DEF Ready, Held, Pending, board

LEMMA HeldStep ==
    ASSUME TypeOK, Suits, Scripted, Fresh, Ready, Held, [Next]_vars
    PROVE  Fresh' /\ Ready' /\ Held'
<1>1. ASSUME NEW c \in Commands, Begin(c)
      PROVE  Fresh' /\ Ready' /\ Held'
  <2>1. at' \notin {"ask", "look"} /\ moved' = {}
    BY <1>1, TurnSuits DEF Begin
  <2> QED
    BY <2>1 DEF Fresh, Ready, Held
<1>2. CASE Write
  <2>1. at = "write" /\ at' = "write" /\ moved' = moved
    BY <1>2 DEF Write
  <2> QED
    BY <2>1 DEF Fresh, Ready, Held
<1>3. CASE Conclude
  <2>1. at' # "write"
    BY <1>3 DEF Conclude
  <2> QED
    BY <1>3, <2>1, ReadyConclude DEF Fresh
<1>4. CASE Probe \/ Scan \/ Data \/ Clear
  <2>1. at' \in {"menu", "clear"}
    BY <1>4 DEF Probe, Scan, Data, Clear
  <2> QED
    BY <2>1 DEF Fresh, Ready, Held
<1>5. CASE Enter
  <2>1. at = "ask" /\ at' = "look" /\ UNCHANGED <<cmd, board, bad, moved>>
    BY <1>5 DEF Enter
  <2> QED
    BY <2>1, HeldIdle DEF Fresh, TypeOK
<1>6. CASE Look
  <2>1. bad' = bad \/ bad'
    BY <1>6, LookSays DEF Sound, Faulty, TypeOK
  <2> QED
    BY <1>6, <2>1, LookSays, HeldIdle DEF Fresh, TypeOK
<1>7. ASSUME NEW w \in Watched, Move(w)
      PROVE  Fresh' /\ Ready' /\ Held'
  <2>1. Fresh'
    BY <1>7 DEF Move, prog, Fresh
  <2> QED
    BY <1>7, <2>1, HeldMove
<1>8. CASE UNCHANGED vars
  BY <1>8, HeldIdle DEF vars, prog, board, Fresh, TypeOK
<1> QED
  BY <1>1, <1>2, <1>3, <1>4, <1>5, <1>6, <1>7, <1>8, ParametersAssumption
     DEF Next, Work, Type, Mistype, TypeOK, ParametersAssumption

\* What is pending is seen.
LEMMA HeldFinds ==
    ASSUME TypeOK, Suits, Held, [Next]_vars, at = "look", cmd[2] \in moved, ~bad
    PROVE  at' # "ask"
<1>1. PICK w \in Watched : w = cmd[2]
  BY WatchScript DEF Suits
<1>2. regs[Wired[w].chip][<<"Source", Wired[w].bank>>] \cap MaskBit[w] # {}
  BY <1>1, MaskIsWired DEF Held, Pending
<1>3. CASE Look
  BY <1>1, <1>2, <1>3 DEF Look
<1>4. CASE ~Look
  <2>1. at' = at
    BY <1>4 DEF Next, Work, Type, Mistype, Begin, Write, Conclude, Probe, Scan, Enter, Data, Clear,
               Move, vars, prog
  <2> QED
    BY <2>1
<1> QED
  BY <1>3, <1>4

\* A look after the watched pin has moved never says that nothing was detected:
\* for any commands before, any pins that move and any transfers that fail, unless
\* one of this very command did.
THEOREM NothingOverlooked == Spec => NeverOverlooked
<1> DEFINE I == TypeOK /\ Suits /\ Scripted /\ Told /\ Fresh /\ Ready /\ Held
<1>1. Init => I
  BY InitType DEF Init, Scripted, Told, Fresh, Ready, Held
<1>2. I /\ [Next]_vars => I'
  BY TypeStep, ScriptStep, HeldStep
<1>3. I /\ [Next]_vars => [at = "look" /\ cmd[2] \in moved /\ ~bad => at' # "ask"]_vars
  BY HeldFinds
<1> QED
  BY <1>1, <1>2, <1>3, PTL DEF Spec, NeverOverlooked

(***************************************************************************)
(* linkmon                                                                  *)
(***************************************************************************)

LEMMA LinkTypeStep ==
    ASSUME LinkTypeOK, [LinkNext]_linkVars
    PROVE  LinkTypeOK'
<1>1. CASE Start
  BY <1>1 DEF Start, LockUnlock, LinkTypeOK
<1>2. CASE Open
  BY <1>2 DEF Open, First, Events, LinkTypeOK
<1>3. CASE Read
  BY <1>3 DEF Read, LinkTypeOK
<1>4. CASE Lock
  BY <1>4 DEF Lock, LockUnlock, LinkTypeOK
<1>5. CASE Wait
  BY <1>5 DEF Wait, LinkTypeOK
<1>6. CASE Leave
  BY <1>6 DEF Leave, LinkTypeOK
<1>7. CASE Change
  <2>1. changes' \in 0..MaxChanges
    BY <1>7, ChangesAssumption DEF Change, LinkTypeOK, ChangesAssumption
  <2>2. link' \in BOOLEAN /\ ready' \in BOOLEAN /\ source' \in BOOLEAN /\ awake' \in BOOLEAN
    BY <1>7, Zenon DEF Change, LinkTypeOK
  <2> QED
    BY <1>7, <2>1, <2>2 DEF Change, LinkTypeOK
<1>8. CASE Suspend
  BY <1>8 DEF Suspend, LinkTypeOK
<1>9. CASE Resume
  BY <1>9 DEF Resume, LinkTypeOK
<1>10. CASE UNCHANGED linkVars
  BY <1>10 DEF linkVars, LinkTypeOK
<1> QED
  BY <1>1, <1>2, <1>3, <1>4, <1>5, <1>6, <1>7, <1>8, <1>9, <1>10 DEF LinkNext, Step

LEMMA LinkInitType == LinkInit => LinkTypeOK
<1>1. LinkInit => changes \in 0..MaxChanges
  BY ChangesAssumption DEF LinkInit, ChangesAssumption
<1>2. LinkInit => /\ status \in BOOLEAN /\ locked \in BOOLEAN /\ link \in BOOLEAN
              /\ ready \in BOOLEAN /\ source \in BOOLEAN /\ awake \in BOOLEAN
  BY Zenon DEF LinkInit
<1> QED
  BY <1>1, <1>2 DEF LinkInit, LinkTypeOK

\* The program's place, its copy of the link status and the kernel's flags
\* always have their types.
THEOREM LinkTypeCorrect == LinkSpec => []LinkTypeOK
<1>1. LinkInit => LinkTypeOK
  BY LinkInitType
<1>2. LinkTypeOK /\ [LinkNext]_linkVars => LinkTypeOK'
  BY LinkTypeStep
<1> QED
  BY <1>1, <1>2, PTL DEF LinkSpec

\* What keeps the system awake at each place.  From the first instruction to the
\* end of a turn it is the lock or the wakeup source; in the wait the lock stands
\* for what was read, and the source for what was not.
AwakeInv ==
    /\ ~awake => ~locked /\ ~source
    /\ pc = "open" => locked
    /\ pc \in {"read", "lock"} => locked \/ source
    /\ pc \in {"wait", "blocked"} => locked = status
    /\ Registered /\ ready => source
    /\ pc \in {"lock", "wait", "blocked"} /\ status # link => ready

LEMMA AwakeStep ==
    ASSUME LinkTypeOK, AwakeInv, [LinkNext]_linkVars
    PROVE  AwakeInv'
<1>1. CASE Start
  BY <1>1 DEF Start, LockUnlock, AwakeInv, LinkTypeOK, Registered
<1>2. CASE Open
  BY <1>2 DEF Open, First, Events, AwakeInv, LinkTypeOK, Registered
<1>3. CASE Read
  BY <1>3 DEF Read, AwakeInv, LinkTypeOK, Registered
<1>4. CASE Lock
  BY <1>4 DEF Lock, LockUnlock, AwakeInv, LinkTypeOK, Registered
<1>5. CASE Wait
  BY <1>5 DEF Wait, AwakeInv, LinkTypeOK, Registered
<1>6. CASE Leave
  BY <1>6 DEF Leave, AwakeInv, LinkTypeOK, Registered
<1>7. CASE Change
  BY <1>7 DEF Change, Events, Registered, AwakeInv, LinkTypeOK, Registered
<1>8. CASE Suspend
  BY <1>8 DEF Suspend, AwakeInv, LinkTypeOK, Registered
<1>9. CASE Resume
  BY <1>9 DEF Resume, AwakeInv, LinkTypeOK, Registered
<1>10. CASE UNCHANGED linkVars
  BY <1>10 DEF linkVars, AwakeInv, LinkTypeOK, Registered
<1> QED
  BY <1>1, <1>2, <1>3, <1>4, <1>5, <1>6, <1>7, <1>8, <1>9, <1>10 DEF LinkNext, Step

LEMMA AwakeHolds == LinkSpec => [](LinkTypeOK /\ AwakeInv)
<1>1. LinkInit => LinkTypeOK /\ AwakeInv
  BY LinkInitType DEF LinkInit, AwakeInv, Registered
<1>2. LinkTypeOK /\ AwakeInv /\ [LinkNext]_linkVars => LinkTypeOK' /\ AwakeInv'
  BY LinkTypeStep, AwakeStep
<1> QED
  BY <1>1, <1>2, PTL DEF LinkSpec

\* From the moment linkmon has the lock until it leaves, the module never sleeps
\* while the USB link is up, for any number of changes at any moments.
THEOREM AwakeWhileUp == LinkSpec => []NoSleepWhileUp
<1>1. LinkTypeOK /\ AwakeInv => NoSleepWhileUp
  BY DEF LinkTypeOK, AwakeInv, Registered, NoSleepWhileUp
<1> QED
  BY <1>1, AwakeHolds, PTL

\* linkmon blocks for good with the lock of the link as it is: as long as they
\* differ there is a change to read, which ends the wait.
Settled == pc = "blocked" /\ ~ready => locked = link

\* No change is lost between the read, the writing of the lock and the wait: when
\* epoll_wait has nothing to report, the lock is the link's.
THEOREM BlocksWhenDone == LinkSpec => []Settled
<1>1. LinkTypeOK /\ AwakeInv => Settled
  BY DEF LinkTypeOK, AwakeInv, Settled
<1> QED
  BY <1>1, AwakeHolds, PTL
=============================================================================
