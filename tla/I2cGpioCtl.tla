----------------------------- MODULE I2cGpioCtl -----------------------------
(***************************************************************************)
(* The interactive tool i2cgpioctl: its menu loop, the transfers of a       *)
(* command (each of which may fail, mostly unnoticed), and the wait for an  *)
(* interrupt of an expander, while the pins of the board move.  A number    *)
(* that scanf cannot read stays in the input, and the command of before is  *)
(* done again.                                                              *)
(***************************************************************************)
EXTENDS I2cScripts

CONSTANTS
    Typed,          \* the commands the user types
    Moving,         \* the watched pins that move
    Present, Busy,  \* the probed chips that answer; that a kernel driver has
    MaxCommands, MaxMoves, MaxFaults    \* bounds

ASSUME ParametersAssumption ==
    /\ Typed \subseteq Commands
    /\ Moving \subseteq Watched
    /\ Present \subseteq Probed /\ Busy \subseteq Probed

ASSUME BoundsAssumption == MaxCommands \in Nat /\ MaxMoves \in Nat /\ MaxFaults \in Nat

VARIABLES
    at,         \* where the program is
    cmd, todo,  \* the command and its transfers to come
    ok,         \* res of the last transfer was not negative
    said,       \* its last word on the command
    junk,       \* the input starts with what is no number
    slave,      \* the address of the file that is open all the time
    regs, channels, armed,  \* the expanders, open channels of the switch in front
                            \* of them, half-done resets
    high,       \* the watched pins with a high level
    bad,        \* history: a transfer of this command has failed
    moved,      \* history: pins that have moved since the wait began
    recent,     \* history: pins that have moved since their interrupts were cleared
    commands, moves, faults

prog == <<at, cmd, todo, ok, said, junk, slave>>
board == <<regs, channels, armed>>
counts == <<commands, moves, faults>>
vars == <<prog, board, high, bad, moved, recent, counts>>

Places == {"menu", "write", "probe", "scan", "ask", "look", "data", "clear", "exit"}
Words == {"nothing", "Successed", "Failed", "Detected", "Removed", "Inserted", "Not Detected"}
Elsewhere == "elsewhere"

TypeOK ==
    /\ at \in Places
    /\ cmd \in Commands
    /\ todo \in Seq(Transfers)
    /\ ok \in BOOLEAN /\ junk \in BOOLEAN /\ bad \in BOOLEAN
    /\ said \in Words
    /\ slave \in Probed \cup {Elsewhere}
    /\ regs \in [Expanders -> [Kinds \X Banks -> SUBSET Bits]]
    /\ channels \in SUBSET Bits
    /\ armed \in [Expanders -> BOOLEAN]
    /\ high \subseteq Watched /\ moved \subseteq Watched /\ recent \subseteq Watched
    /\ commands \in 0..MaxCommands /\ moves \in 0..MaxMoves /\ faults \in 0..MaxFaults

(***************************************************************************)
(* The SX1509                                                               *)
(***************************************************************************)

\* Inputs, normal polarity, no interrupts.
Default == [r \in Kinds \X Banks |-> IF r[1] \in {"Dir", "Mask"} THEN Bits ELSE {}]

\* Two bits of a sense register for each pin: rising and falling edges.
Senses(e, bank, bit, rising) ==
    LET kind == IF bit \in {4, 5, 6, 7} THEN "SenseHigh" ELSE "SenseLow"
        edge == 2 * (bit % 4) + (IF rising THEN 0 ELSE 1)
    IN  edge \in regs[e][<<kind, bank>>]

Raises(w, rising) ==
    LET p == Wired[w] IN
    /\ p.bit \in regs[p.chip][<<"Dir", p.bank>>] \ regs[p.chip][<<"Mask", p.bank>>]
    /\ Senses(p.chip, p.bank, p.bit, rising)

OnBank(e, bank) == {w \in Watched : Wired[w].chip = e /\ Wired[w].bank = bank}
OnChip(e) == {w \in Watched : Wired[w].chip = e}

\* The transfer t reaches its chip.  Writing to the interrupt sources clears.
Apply(t) ==
    IF t[1] = "Switch"
    THEN channels' = t[4] /\ UNCHANGED <<regs, armed, recent>>
    ELSE IF t[2] = "Reset"
    THEN /\ armed' = [armed EXCEPT ![t[1]] = (t[4] = ResetKeys[1])]
         /\ IF armed[t[1]] /\ t[4] = ResetKeys[2]
            THEN regs' = [regs EXCEPT ![t[1]] = Default] /\ recent' = recent \ OnChip(t[1])
            ELSE UNCHANGED <<regs, recent>>
         /\ UNCHANGED channels
    ELSE /\ armed' = [armed EXCEPT ![t[1]] = FALSE]
         /\ IF t[2] = "Source"
            THEN /\ regs' = [regs EXCEPT ![t[1]][<<t[2], t[3]>>] = @ \ t[4]]
                 /\ recent' = recent \ {w \in OnBank(t[1], t[3]) : Wired[w].bit \in t[4]}
            ELSE regs' = [regs EXCEPT ![t[1]][<<t[2], t[3]>>] = t[4]] /\ UNCHANGED recent
         /\ UNCHANGED channels

\* A card is inserted or removed, or a device of the board has something to say.
Move(w) ==
    /\ moves < MaxMoves /\ moves' = moves + 1
    /\ high' = IF w \in high THEN high \ {w} ELSE high \cup {w}
    /\ LET p == Wired[w] IN
       regs' = IF Raises(w, w \notin high)
               THEN [regs EXCEPT ![p.chip][<<"Source", p.bank>>] = @ \cup {p.bit}]
               ELSE regs
    /\ recent' = recent \cup {w}
    /\ moved' = IF at \in {"ask", "look"} THEN moved \cup {w} ELSE moved
    /\ UNCHANGED <<prog, channels, armed, bad, commands, faults>>

(***************************************************************************)
(* The program                                                              *)
(***************************************************************************)

\* cmd has no value before the first number is read.  gpioexp may have opened the
\* switch before.
Init ==
    /\ at = "menu" /\ cmd \in Typed /\ todo = <<>> /\ ok = TRUE /\ said = "nothing"
    /\ junk = FALSE /\ slave = Elsewhere
    /\ regs = [e \in Expanders |-> Default] /\ channels \in {{}, Bits}
    /\ armed = [e \in Expanders |-> FALSE]
    /\ high \in SUBSET Moving
    /\ bad = FALSE /\ moved = {} /\ recent = {}
    /\ commands = 0 /\ moves = 0 /\ faults = 0

\* What the switch statement does first.
Turn(c) ==
    IF c \in Writing THEN "write"
    ELSE IF c[1] \in {"probe", "scan", "exit"} THEN c[1] ELSE "menu"

Begin(c) ==
    /\ at = "menu" /\ commands < MaxCommands /\ commands' = commands + 1
    /\ cmd' = c /\ at' = Turn(c) /\ todo' = Script(c)
    /\ said' = "nothing" /\ bad' = FALSE /\ moved' = {}
    /\ UNCHANGED <<ok, slave, board, high, recent, moves, faults>>

Type(c) == ~junk /\ junk' = junk /\ Begin(c)

\* scanf fails, now and every time until something else reads the input.
Mistype == junk' = TRUE /\ Begin(cmd)

\* The expanders are behind channels 3 to 7: a command that opens any opens these.
Reaches(chip) == chip \in Expanders => channels # {}

\* A transfer that fails leaves its chip alone.
Faulty(chip) ==
    /\ bad' = TRUE
    /\ \/ ~Reaches(chip) /\ UNCHANGED faults
       \/ Reaches(chip) /\ faults < MaxFaults /\ faults' = faults + 1
Sound(chip) == Reaches(chip) /\ UNCHANGED <<bad, faults>>

\* A plausible bug: every script goes on after a failure.
GivesUpNever(c) == FALSE

\* The one command that looks at the result of its first transfer.
GivesUp(c) == c = <<"set", "Uart2">>

Write ==
    /\ at = "write" /\ todo # <<>>
    /\ \/ /\ Sound(Head(todo)[1]) /\ ok' = TRUE
          /\ Apply(Head(todo)) /\ todo' = Tail(todo)
       \/ /\ Faulty(Head(todo)[1]) /\ ok' = FALSE /\ UNCHANGED <<board, recent>>
          /\ todo' = IF GivesUp(cmd) THEN <<>> ELSE Tail(todo)
    /\ UNCHANGED <<at, cmd, said, junk, slave, high, moved, commands, moves>>

\* The last result alone decides what is said.
Conclude ==
    /\ at = "write" /\ todo = <<>>
    /\ IF cmd[1] = "watch" THEN at' = "ask" /\ UNCHANGED said
       ELSE at' = "menu" /\ said' = IF ok THEN "Successed" ELSE "Failed"
    /\ UNCHANGED <<cmd, todo, ok, junk, slave, board, high, bad, moved, recent, counts>>

\* An address that is busy is said to be, and the one of before is probed.
Probe ==
    /\ at = "probe" /\ at' = "menu"
    /\ slave' = IF cmd[2] \in Busy THEN slave ELSE cmd[2]
    /\ \/ Sound(slave') /\ (slave' \in Present \cup {Elsewhere}) /\ said' = "Detected"
       \/ Sound(slave') /\ slave' \notin Present /\ said' = "Not Detected"
       \/ Faulty(slave') /\ said' = "Not Detected"
    /\ UNCHANGED <<cmd, todo, ok, junk, board, high, moved, recent, commands, moves>>

\* The last address that is scanned is none of a known chip.
Scan ==
    /\ at = "scan" /\ at' = "menu" /\ slave' = Elsewhere
    /\ UNCHANGED <<cmd, todo, ok, said, junk, board, high, bad, moved, recent, counts>>

\* Enter; the characters that scanf has left count as well.
Enter ==
    /\ at = "ask" /\ at' = "look" /\ junk' = FALSE
    /\ UNCHANGED <<cmd, todo, ok, said, slave, board, high, bad, moved, recent, counts>>

\* The interrupt source: a failed read is -1, which has every bit.
Look ==
    LET p == Wired[cmd[2]]
        seen == IF cmd[2] \in Cards THEN "data" ELSE "clear"
        word == IF cmd[2] \in Cards THEN "nothing" ELSE "Detected"
    IN
    /\ at = "look"
    /\ \/ /\ Sound(p.chip)
          /\ IF regs[p.chip][<<"Source", p.bank>>] \cap MaskBit[cmd[2]] # {}
             THEN at' = seen /\ said' = word
             ELSE at' = "ask" /\ said' = "Not Detected"
       \/ Faulty(p.chip) /\ at' = seen /\ said' = word
    /\ UNCHANGED <<cmd, todo, ok, junk, slave, board, high, moved, recent, commands, moves>>

\* The level of the card's pin.
Data ==
    /\ at = "data" /\ at' = "clear"
    /\ \/ /\ Sound(Wired[cmd[2]].chip)
          /\ said' = IF cmd[2] \in high THEN "Removed" ELSE "Inserted"
       \/ Faulty(Wired[cmd[2]].chip) /\ said' = "Removed"
    /\ UNCHANGED <<cmd, todo, ok, junk, slave, board, high, moved, recent, commands, moves>>

\* The interrupts of all pins of the bank are cleared.
Clear ==
    /\ at = "clear" /\ at' = "menu"
    /\ \/ Sound(Wired[cmd[2]].chip) /\ ok' = TRUE /\ Apply(ClearInterrupts(cmd[2]))
       \/ Faulty(Wired[cmd[2]].chip) /\ ok' = FALSE /\ UNCHANGED <<board, recent>>
    /\ UNCHANGED <<cmd, todo, said, junk, slave, high, moved, commands, moves>>

Work == Write \/ Conclude \/ Probe \/ Scan \/ Enter \/ Look \/ Data \/ Clear

Next ==
    \/ (\E c \in Typed : Type(c)) \/ Mistype
    \/ Work
    \/ \E w \in Moving : Move(w)

Spec == Init /\ [][Next]_vars

\* The program goes on, and so does the user who is asked to press Enter;
\* nobody has to type a command.
FairSpec == Spec /\ WF_vars(Work)

(***************************************************************************)
(* Properties                                                               *)
(***************************************************************************)

Bank(l) == regs[l.chip]
Lit(l) == l.bit \in Bank(l)[<<"Polarity", l.bank>>] \ Bank(l)[<<"Dir", l.bank>>]
AllLights == {Light(c)[d] : c \in Cards, d \in Leds}

Holds(t) == regs[t[1]][<<t[2], t[3]>>] = t[4]

\* What the user has asked for, in terms of the board.
Effect(c) ==
    CASE c[1] = "enable" -> Lit(Light(c[2])[c[3]])
      [] c[1] = "disable" -> ~Lit(Light(c[2])[c[3]])
      [] c[1] = "reset" -> regs[c[2]] = Default
      [] c = <<"set", "Clear">> -> channels = {} /\ \A e \in Expanders : regs[e] = Default
      [] c = <<"set", "Load">> -> \A l \in AllLights : Lit(l)
      [] c[1] = "set" /\ c[2] \in DOMAIN Routing -> \A i \in DOMAIN Script(c) : Holds(Script(c)[i])
      [] OTHER -> TRUE

\* When a command says "Successed!" and none of its transfers has failed, the
\* board is as the user asked, whatever commands went before: half-done resets,
\* other lights, pins made inputs for a watch.  The routing commands look at all
\* their results, and can be believed in any case.
SuccessIsDone ==
    at = "menu" /\ said = "Successed" /\ (bad => cmd[2] \in DOMAIN Routing) => Effect(cmd)

\* An interrupt that a watch has seen is one of the pin it watches, and came
\* after that pin's interrupts were last cleared: neither other pins of the
\* bank nor an earlier watch are mistaken for it.
SeenHappened == at \in {"data", "clear"} /\ ~bad => cmd[2] \in recent

\* A look at the interrupt source after the watched pin has moved finds it,
\* unless a transfer of this command has failed: the registers are as the watch
\* has set them up, whatever lights, resets and watches went before, and nothing
\* clears the interrupt between the move and the look.
NeverOverlooked ==
    [][at = "look" /\ cmd[2] \in moved /\ ~bad => at' # "ask"]_vars

\* A pin that moves while the user is asked to move it is noticed, whatever was
\* watched, lit or reset before, unless a transfer of this command has failed.
NoneMissed ==
    (at = "ask" /\ cmd[2] \in moved /\ ~bad) ~> (at \in {"data", "clear"})
=============================================================================
