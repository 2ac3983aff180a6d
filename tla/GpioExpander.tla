---------------------------- MODULE GpioExpander ----------------------------
(***************************************************************************)
(* gpioexp: sets up one pin of the three SX1509 GPIO expanders of a MangOH  *)
(* board.  qca9377.sh and tiwifi.sh run it to power the WiFi chip, so       *)
(* several copies may run at once.                                          *)
(*                                                                          *)
(* A setting of a pin (direction, level, pull-up, ...) is one bit of a      *)
(* register that eight pins, a bank, share; a register is modelled as the   *)
(* set of its bits that are 1.  The program changes a bit by reading the    *)
(* register and writing it back, with no lock: these are two steps here.    *)
(***************************************************************************)
EXTENDS Integers, Sequences

CONSTANTS
    Tools,          \* copies of gpioexp that may run at the same time
    Args,           \* the <<expander, pin>> arguments they are called with
    Options,        \* the option words they are called with
    None,           \* no pin
    Crowded,        \* may copies work on the same bank at the same time?
    MaxOptions,     \* bound: option words of one call
    MaxFaults       \* bound: I2C transfers that fail

Regs == {"dir", "data", "pullup", "pulldown", "drain", "polarity"}
AllPins == (1..3) \X (0..15)
Bits == 0..7
Banks == (1..3) \X {0, 1}

\* A plausible bug: the pull-down is switched on before the pull-up is off.
PullDownFirst == <<<<"pulldown", TRUE>>, <<"pullup", FALSE>>>>

\* The order in which SetPullUpDown writes the two registers.
PullOff == <<<<"pullup", FALSE>>, <<"pulldown", FALSE>>>>
PullDown == <<<<"pullup", FALSE>>, <<"pulldown", TRUE>>>>
PullUp == <<<<"pullup", TRUE>>, <<"pulldown", FALSE>>>>

\* The register bits an option sets, in this order.
Writes ==
    [input     |-> <<<<"dir", TRUE>>>>,      output   |-> <<<<"dir", FALSE>>>>,
     high      |-> <<<<"data", TRUE>>>>,     low      |-> <<<<"data", FALSE>>>>,
     inverse   |-> <<<<"polarity", TRUE>>>>, normal   |-> <<<<"polarity", FALSE>>>>,
     opendrain |-> <<<<"drain", TRUE>>>>,    pushpull |-> <<<<"drain", FALSE>>>>,
     off       |-> PullOff,                  down     |-> PullDown,
     up        |-> PullUp]

ASSUME ArgumentsAssumption ==
    /\ Args \subseteq Nat \X Nat
    /\ Options \subseteq DOMAIN Writes \cup {"value", "regval", "enable", "other"}
    /\ None \notin AllPins
    /\ Crowded \in BOOLEAN

ASSUME BoundsAssumption == MaxOptions \in Nat /\ MaxFaults \in Nat

VARIABLES
    reg,        \* reg[r][b]: the bits of register r of bank b that are 1
    switch,     \* the I2C switch in front of the expanders is on
    pc, pin,    \* where each tool is, the pin it works on
    todo,       \* the bits its current option has yet to set
    seen,       \* what it read from the register it is about to write
    ret,        \* did its last setting option fail? (ret of main)
    asked,      \* history: its last setting option
    left,       \* the option words it has left
    status,     \* its exit status
    halfUp,     \* history: pins with an "up" that stopped half way and with
                \* neither pull switched off since
    faults      \* transfers that failed

tool == <<pc, pin, todo, seen, ret, asked, left, status>>
vars == <<reg, switch, tool, halfUp, faults>>

Settings == Regs \X BOOLEAN
Todos == Seq(Settings)

TypeOK ==
    /\ reg \in [Regs -> [Banks -> SUBSET Bits]]
    /\ switch \in BOOLEAN
    /\ pc \in [Tools -> {"idle", "option", "read", "write"}]
    /\ pin \in [Tools -> AllPins \cup {None}]
    /\ todo \in [Tools -> Todos]
    /\ \A t \in Tools : /\ pin[t] = None <=> pc[t] = "idle"
                        /\ pc[t] \in {"read", "write"} => todo[t] # <<>>
    /\ seen \in [Tools -> SUBSET Bits]
    /\ ret \in [Tools -> BOOLEAN]
    /\ asked \in [Tools -> DOMAIN Writes \cup {"none"}]
    /\ left \in [Tools -> 0..MaxOptions]
    /\ status \in [Tools -> {0, 1, 2, 3}]
    /\ halfUp \subseteq AllPins
    /\ faults \in 0..MaxFaults

(***************************************************************************)
(* Pins and banks                                                           *)
(***************************************************************************)

\* Request takes its arguments as unsigned char: 257 is expander 1.
Requested(arg) == <<arg[1] % 256, arg[2] % 256>>

\* A plausible bug: an off-by-one in the bit index.
IndexOffByOne(p) == IF p[2] <= 8 THEN p[2] ELSE p[2] - 8

Index(p) == IF p[2] < 8 THEN p[2] ELSE p[2] - 8

\* A plausible bug: an off-by-one in the choice of the bank.
BankOffByOne(p) == <<p[1], IF p[2] > 8 THEN 0 ELSE 1>>

\* Bank A (1) has the pins 0 to 7, bank B (0) the pins 8 to 15.
Bank(p) == <<p[1], IF p[2] > 7 THEN 0 ELSE 1>>

Bit(r, p) == Index(p) \in reg[r][Bank(p)]

\* With the switch off no expander answers; otherwise a transfer may fail.
Answers == switch
FaultTaken ==
    \/ ~switch /\ UNCHANGED faults
    \/ switch /\ faults < MaxFaults /\ faults' = faults + 1

\* The registers of an expander after a reset: every pin is an input.
PowerOn(r) == IF r \in {"dir", "data"} THEN Bits ELSE {}

Init ==
    /\ reg = [r \in Regs |-> [b \in Banks |-> PowerOn(r)]]
    /\ switch = FALSE
    /\ pc = [t \in Tools |-> "idle"]
    /\ pin = [t \in Tools |-> None]
    /\ todo = [t \in Tools |-> <<>>]
    /\ seen = [t \in Tools |-> {}]
    /\ ret = [t \in Tools |-> FALSE]
    /\ asked = [t \in Tools |-> "none"]
    /\ left = [t \in Tools |-> 0]
    /\ status = [t \in Tools |-> 0]
    /\ halfUp = {}
    /\ faults = 0

(***************************************************************************)
(* One run of the program                                                   *)
(***************************************************************************)

\* The caller's discipline: unless Crowded, one tool at a time for a bank.
BankFree(p) ==
    \A u \in Tools : pc[u] # "idle" => Bank(pin[u]) # Bank(p)

Start(t) ==
    /\ pc[t] = "idle"
    /\ \E arg \in Args :
          /\ Requested(arg) \in AllPins
          /\ Crowded \/ BankFree(Requested(arg))
          /\ pin' = [pin EXCEPT ![t] = Requested(arg)]
    /\ \E n \in 0..MaxOptions : left' = [left EXCEPT ![t] = n]
    /\ pc' = [pc EXCEPT ![t] = "option"]
    /\ status' = [status EXCEPT ![t] = 0]
    /\ UNCHANGED <<reg, switch, todo, seen, ret, asked, halfUp, faults>>

\* mangoh_gpioExpander_Request returned NULL.
Refuse(t) ==
    /\ pc[t] = "idle"
    /\ \E arg \in Args : Requested(arg) \notin AllPins
    /\ status' = [status EXCEPT ![t] = 2]
    /\ UNCHANGED <<reg, switch, pc, pin, todo, seen, ret, asked, left, halfUp, faults>>

Exit(t, code) ==
    /\ status' = [status EXCEPT ![t] = code]
    /\ pc' = [pc EXCEPT ![t] = "idle"]
    /\ pin' = [pin EXCEPT ![t] = None]
    /\ left' = [left EXCEPT ![t] = 0]
    /\ ret' = [ret EXCEPT ![t] = FALSE]
    /\ asked' = [asked EXCEPT ![t] = "none"]
    /\ UNCHANGED <<reg, todo, seen, halfUp>>

\* The options are used up.
Finish(t) ==
    /\ pc[t] = "option" /\ left[t] = 0
    /\ Exit(t, IF ret[t] THEN 3 ELSE 0)
    /\ UNCHANGED <<switch, faults>>

\* The next option word, while there is one.
Word(t, o) ==
    /\ pc[t] = "option" /\ left[t] > 0 /\ o \in Options
    /\ left' = [left EXCEPT ![t] = @ - 1]

\* An option that sets register bits of the pin.
Setting(t) ==
    /\ \E o \in Options \cap DOMAIN Writes :
          /\ Word(t, o)
          /\ todo' = [todo EXCEPT ![t] = Writes[o]]
          /\ asked' = [asked EXCEPT ![t] = o]
    /\ pc' = [pc EXCEPT ![t] = "read"]
    /\ UNCHANGED <<reg, switch, pin, seen, ret, status, halfUp, faults>>

\* "value" and "regval" print what they read, or -1; ret stays as it is.
Show(t) ==
    /\ Word(t, "value") \/ Word(t, "regval")
    /\ UNCHANGED faults \/ FaultTaken
    /\ UNCHANGED <<reg, switch, pc, pin, todo, seen, ret, asked, status, halfUp>>

\* "enable" turns on the I2C switch, or ends the program.
Enable(t) ==
    /\ pc[t] = "option" /\ left[t] > 0 /\ "enable" \in Options
    /\ \/ /\ switch' = TRUE
          /\ left' = [left EXCEPT ![t] = @ - 1]
          /\ UNCHANGED <<reg, pc, pin, todo, seen, ret, asked, status, halfUp, faults>>
       \/ /\ faults < MaxFaults /\ faults' = faults + 1
          /\ Exit(t, 1) /\ UNCHANGED switch

\* An unknown option ends the program; what earlier options did stays done.
Unknown(t) ==
    /\ pc[t] = "option" /\ left[t] > 0 /\ "other" \in Options
    /\ Exit(t, 2)
    /\ UNCHANGED <<switch, faults>>

(***************************************************************************)
(* SetRegVal: read the register of the bank, write it back with one bit     *)
(* changed                                                                  *)
(***************************************************************************)

SettingFailed(t) ==
    /\ FaultTaken
    /\ ret' = [ret EXCEPT ![t] = TRUE]
    /\ pc' = [pc EXCEPT ![t] = "option"]
    /\ todo' = [todo EXCEPT ![t] = <<>>]
    /\ seen' = [seen EXCEPT ![t] = {}]
    /\ halfUp' = IF asked[t] = "up" /\ Len(todo[t]) = 1
                 THEN halfUp \cup {pin[t]} ELSE halfUp
    /\ UNCHANGED <<reg, switch, pin, asked, left, status>>

ReadReg(t) ==
    /\ pc[t] = "read"
    /\ LET s == Head(todo[t]) IN
          \/ /\ Answers
             /\ seen' = [seen EXCEPT ![t] = reg[s[1]][Bank(pin[t])]]
             /\ pc' = [pc EXCEPT ![t] = "write"]
             /\ UNCHANGED <<reg, switch, pin, todo, ret, asked, left, status, halfUp, faults>>
          \/ SettingFailed(t)

\* A plausible bug: the result of the write is not looked at.
WriteRegUnchecked(t) ==
    /\ pc[t] = "write"
    /\ LET s == Head(todo[t])
           i == Index(pin[t])
       IN /\ \/ /\ Answers
                /\ reg' = [reg EXCEPT ![s[1]][Bank(pin[t])] =
                              IF s[2] THEN seen[t] \cup {i} ELSE seen[t] \ {i}]
                /\ UNCHANGED faults
             \/ FaultTaken /\ UNCHANGED reg
          /\ todo' = [todo EXCEPT ![t] = Tail(@)]
          /\ pc' = [pc EXCEPT ![t] = IF Len(todo[t]) > 1 THEN "read" ELSE "option"]
          /\ ret' = [ret EXCEPT ![t] = IF Len(todo[t]) > 1 THEN @ ELSE FALSE]
          /\ halfUp' = IF s \in {<<"pullup", FALSE>>, <<"pulldown", FALSE>>}
                       THEN halfUp \ {pin[t]} ELSE halfUp
          /\ seen' = [seen EXCEPT ![t] = {}]
          /\ UNCHANGED <<switch, pin, asked, left, status>>

WriteReg(t) ==
    /\ pc[t] = "write"
    /\ LET s == Head(todo[t])
           i == Index(pin[t])
       IN \/ /\ Answers
             /\ reg' = [reg EXCEPT ![s[1]][Bank(pin[t])] =
                           IF s[2] THEN seen[t] \cup {i} ELSE seen[t] \ {i}]
             /\ todo' = [todo EXCEPT ![t] = Tail(@)]
             /\ pc' = [pc EXCEPT ![t] = IF Len(todo[t]) > 1 THEN "read" ELSE "option"]
             /\ ret' = [ret EXCEPT ![t] = IF Len(todo[t]) > 1 THEN @ ELSE FALSE]
             /\ halfUp' = IF s \in {<<"pullup", FALSE>>, <<"pulldown", FALSE>>}
                          THEN halfUp \ {pin[t]} ELSE halfUp
             /\ seen' = [seen EXCEPT ![t] = {}]
             /\ UNCHANGED <<switch, pin, asked, left, status, faults>>
          \/ SettingFailed(t)

Step(t) ==
    \/ Start(t) \/ Refuse(t) \/ Finish(t)
    \/ Setting(t) \/ Show(t) \/ Enable(t) \/ Unknown(t)
    \/ ReadReg(t) \/ WriteReg(t)

Next == \E t \in Tools : Step(t)

Spec == Init /\ [][Next]_vars

(***************************************************************************)
(* Properties                                                               *)
(***************************************************************************)

\* With at most one tool for a bank at a time, every step is a step of a tool
\* that changes one setting of the one pin it was started for (GpioPins): the
\* read-modify-write of a shared register disturbs no other pin, of the other
\* bank neither, whatever transfers fail.
Pins == INSTANCE GpioPins WITH
    Pins <- AllPins,
    on <- [r \in Regs |-> {p \in AllPins : Bit(r, p)}],
    at <- pin

PinsSpec == Pins!Spec

\* A tool whose ret is 0 after its options so far has made every setting of the
\* last one that sets something: its exit status 0 (main, line 768) vouches for
\* that option.  It vouches for no earlier one: ret is overwritten.
ZeroMeansDone ==
    \A t \in Tools :
        pc[t] = "option" /\ ~ret[t] /\ asked[t] # "none" =>
            \A i \in DOMAIN Writes[asked[t]] :
                LET s == Writes[asked[t]][i] IN Bit(s[1], pin[t]) = s[2]

\* The pull-up and the pull-down of a pin are on together only while "up" is
\* between its two registers or after it stopped there: SetPullUpDown switches
\* the pull-up off first for "down" and "off", so that no failure or order of
\* these leaves both on.
PullsExclusive ==
    \A p \in AllPins :
        Bit("pullup", p) /\ Bit("pulldown", p) =>
            \/ p \in halfUp
            \/ \E t \in Tools : /\ pin[t] = p /\ asked[t] = "up"
                               /\ Len(todo[t]) = 1

=============================================================================
