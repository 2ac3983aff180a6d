------------------------ MODULE GpioExpander_proofs -------------------------
(***************************************************************************)
(* Proofs about GpioExpander, for any tools, arguments, options and bounds. *)
(***************************************************************************)
EXTENDS GpioExpander, TLAPS

(***************************************************************************)
(* Data                                                                     *)
(***************************************************************************)

LEMMA WritesType ==
    \A o \in DOMAIN Writes : Writes[o] \in Todos /\ Writes[o] # <<>>
<1> DEFINE One(s) == <<s>>
           Two(s, u) == <<s, u>>
<1>1. \A s \in Settings : One(s) \in Todos /\ One(s) # <<>>
  BY DEF Todos
<1>2. \A s, u \in Settings : Two(s, u) \in Todos /\ Two(s, u) # <<>>
  BY DEF Todos
<1>3. /\ \A o \in {"input", "output", "high", "low", "inverse", "normal",
                     "opendrain", "pushpull"} :
            \E s \in Settings : Writes[o] = One(s)
      /\ \A o \in {"off", "down", "up"} :
            \E s, u \in Settings : Writes[o] = Two(s, u)
  <2>1. /\ <<"dir", TRUE>> \in Settings      /\ <<"dir", FALSE>> \in Settings
        /\ <<"data", TRUE>> \in Settings     /\ <<"data", FALSE>> \in Settings
        /\ <<"polarity", TRUE>> \in Settings /\ <<"polarity", FALSE>> \in Settings
        /\ <<"drain", TRUE>> \in Settings    /\ <<"drain", FALSE>> \in Settings
        /\ <<"pullup", TRUE>> \in Settings   /\ <<"pullup", FALSE>> \in Settings
        /\ <<"pulldown", TRUE>> \in Settings /\ <<"pulldown", FALSE>> \in Settings
    BY DEF Settings, Regs
  <2>2. /\ Writes["input"] = One(<<"dir", TRUE>>)
        /\ Writes["output"] = One(<<"dir", FALSE>>)
        /\ Writes["high"] = One(<<"data", TRUE>>)
        /\ Writes["low"] = One(<<"data", FALSE>>)
        /\ Writes["inverse"] = One(<<"polarity", TRUE>>)
        /\ Writes["normal"] = One(<<"polarity", FALSE>>)
        /\ Writes["opendrain"] = One(<<"drain", TRUE>>)
        /\ Writes["pushpull"] = One(<<"drain", FALSE>>)
    BY DEF Writes
  <2>3. /\ Writes["off"] = Two(<<"pullup", FALSE>>, <<"pulldown", FALSE>>)
        /\ Writes["down"] = Two(<<"pullup", FALSE>>, <<"pulldown", TRUE>>)
        /\ Writes["up"] = Two(<<"pullup", TRUE>>, <<"pulldown", FALSE>>)
    BY DEF Writes, PullOff, PullDown, PullUp
  <2> HIDE DEF One, Two
  <2> QED BY <2>1, <2>2, <2>3
<1>4. DOMAIN Writes = {"input", "output", "high", "low", "inverse", "normal",
                       "opendrain", "pushpull", "off", "down", "up"}
  BY DEF Writes
<1> HIDE DEF One, Two
<1> QED BY <1>1, <1>2, <1>3, <1>4

LEMMA TodoParts ==
    ASSUME NEW s \in Todos, s # <<>>
    PROVE  /\ Head(s) \in Settings
           /\ Tail(s) \in Todos
           /\ Len(s) > 1 => Tail(s) # <<>>
<1>1. Len(s) \in Nat /\ Len(s) # 0 /\ Head(s) \in Settings /\ Tail(s) \in Seq(Settings)
  BY DEF Todos
<1>2. Len(Tail(s)) = Len(s) - 1
  BY <1>1 DEF Todos
<1>3. Len(s) > 1 => Len(Tail(s)) # 0
  BY <1>1, <1>2
<1>4. Len(<<>>) = 0
  OBVIOUS
<1> QED BY <1>1, <1>3, <1>4 DEF Todos

LEMMA NothingToDo == <<>> \in Todos
BY DEF Todos

LEMMA SettingParts ==
    ASSUME NEW s \in Settings
    PROVE  s[1] \in Regs /\ s[2] \in BOOLEAN
BY DEF Settings

LEMMA PinParts ==
    ASSUME NEW p \in AllPins
    PROVE  Bank(p) \in Banks /\ Index(p) \in Bits
BY DEF AllPins, Bank, Banks, Index, Bits

\* A bank and a bit belong to one pin.
LEMMA PinUnique ==
    ASSUME NEW p \in AllPins, NEW q \in AllPins,
           Bank(p) = Bank(q), Index(p) = Index(q)
    PROVE  p = q
<1>1. p = <<p[1], p[2]>> /\ q = <<q[1], q[2]>> /\ p[2] \in 0..15 /\ q[2] \in 0..15
  BY DEF AllPins
<1>2. p[1] = q[1] /\ (p[2] > 7 <=> q[2] > 7)
  BY <1>1 DEF Bank
<1>3. p[2] = q[2]
  BY <1>1, <1>2 DEF Index
<1> QED BY <1>1, <1>2, <1>3

(***************************************************************************)
(* Types                                                                    *)
(***************************************************************************)

LEMMA InitTypeOK == Init => TypeOK
<1> SUFFICES ASSUME Init PROVE TypeOK
  OBVIOUS
<1> USE DEF Init, PowerOn
<1>1. todo \in [Tools -> Todos]
  BY DEF Todos
<1>2. left \in [Tools -> 0..MaxOptions] /\ faults \in 0..MaxFaults
  BY BoundsAssumption DEF BoundsAssumption
<1> QED BY <1>1, <1>2 DEF TypeOK

LEMMA FaultBound ==
    ASSUME faults \in 0..MaxFaults, FaultTaken
    PROVE  faults' \in 0..MaxFaults
BY BoundsAssumption DEF FaultTaken, BoundsAssumption

LEMMA NextTypeOK ==
    ASSUME TypeOK, [Next]_vars
    PROVE  TypeOK'
<1> USE DEF TypeOK
<1>1. CASE UNCHANGED vars
  BY <1>1 DEF vars, tool
<1>2. ASSUME NEW t \in Tools, Start(t) PROVE TypeOK'
  BY <1>2, ArgumentsAssumption, BoundsAssumption
     DEF Start, ArgumentsAssumption, BoundsAssumption
<1>3. ASSUME NEW t \in Tools, Refuse(t) PROVE TypeOK'
  BY <1>3 DEF Refuse
<1>4. ASSUME NEW t \in Tools, Finish(t) PROVE TypeOK'
  BY <1>4, ArgumentsAssumption, BoundsAssumption
     DEF Finish, Exit, ArgumentsAssumption, BoundsAssumption
<1>5. ASSUME NEW t \in Tools, Setting(t) PROVE TypeOK'
  <2>1. PICK o \in DOMAIN Writes : Word(t, o) /\ todo' = [todo EXCEPT ![t] = Writes[o]]
                                    /\ asked' = [asked EXCEPT ![t] = o]
    BY <1>5 DEF Setting
  <2>2. left' \in [Tools -> 0..MaxOptions]
    BY <2>1, BoundsAssumption DEF Word, BoundsAssumption
  <2> QED BY <1>5, <2>1, <2>2, WritesType DEF Setting, Word
<1>6. ASSUME NEW t \in Tools, Show(t) PROVE TypeOK'
  <2>1. left' \in [Tools -> 0..MaxOptions] /\ faults' \in 0..MaxFaults
    BY <1>6, FaultBound, BoundsAssumption DEF Show, Word, BoundsAssumption
  <2> QED BY <1>6, <2>1 DEF Show, Word
<1>7. ASSUME NEW t \in Tools, Enable(t) PROVE TypeOK'
  <2>1. left' \in [Tools -> 0..MaxOptions] /\ faults' \in 0..MaxFaults
    BY <1>7, BoundsAssumption DEF Enable, Exit, BoundsAssumption
  <2> QED BY <1>7, <2>1 DEF Enable, Exit
<1>8. ASSUME NEW t \in Tools, Unknown(t) PROVE TypeOK'
  BY <1>8, ArgumentsAssumption, BoundsAssumption
     DEF Unknown, Exit, ArgumentsAssumption, BoundsAssumption
<1>9. ASSUME NEW t \in Tools, SettingFailed(t), pc[t] \in {"read", "write"} PROVE TypeOK'
  <2>1. faults' \in 0..MaxFaults
    BY <1>9, FaultBound DEF SettingFailed
  <2>2. pin[t] \in AllPins
    BY <1>9
  <2> QED BY <1>9, <2>1, <2>2, NothingToDo DEF SettingFailed
<1>10. ASSUME NEW t \in Tools, ReadReg(t), ~SettingFailed(t) PROVE TypeOK'
  <2>1. Head(todo[t])[1] \in Regs /\ Bank(pin[t]) \in Banks
    BY <1>10, TodoParts, SettingParts, PinParts DEF ReadReg
  <2>2. reg[Head(todo[t])[1]][Bank(pin[t])] \in SUBSET Bits
    BY <2>1
  <2> QED BY <1>10, <2>2 DEF ReadReg
<1>11. ASSUME NEW t \in Tools, WriteReg(t), ~SettingFailed(t) PROVE TypeOK'
  <2> DEFINE s == Head(todo[t])
             i == Index(pin[t])
             new == IF s[2] THEN seen[t] \cup {i} ELSE seen[t] \ {i}
  <2>1. s[1] \in Regs /\ Bank(pin[t]) \in Banks /\ i \in Bits /\ pin[t] \in AllPins
    BY <1>11, TodoParts, SettingParts, PinParts DEF WriteReg
  <2>2. new \in SUBSET Bits
    BY <2>1
  <2>3. reg' = [reg EXCEPT ![s[1]][Bank(pin[t])] = new]
    BY <1>11 DEF WriteReg
  <2> HIDE DEF new, i
  <2>4. reg' \in [Regs -> [Banks -> SUBSET Bits]]
    BY <2>1, <2>2, <2>3
  <2>5. /\ todo[t] \in Todos /\ todo[t] # <<>>
        /\ Tail(todo[t]) \in Todos
        /\ Len(todo[t]) > 1 => Tail(todo[t]) # <<>>
    BY <1>11, TodoParts DEF WriteReg
  <2> DEFINE more == Len(todo[t]) > 1
  <2>6. /\ pc[t] = "write"
        /\ todo' = [todo EXCEPT ![t] = Tail(todo[t])]
        /\ pc' = [pc EXCEPT ![t] = IF more THEN "read" ELSE "option"]
        /\ ret' = [ret EXCEPT ![t] = IF more THEN ret[t] ELSE FALSE]
        /\ halfUp' = halfUp \/ halfUp' = halfUp \ {pin[t]}
        /\ seen' = [seen EXCEPT ![t] = {}]
        /\ UNCHANGED <<switch, pin, asked, left, status, faults>>
    BY <1>11 DEF WriteReg
  <2>7. more => Tail(todo[t]) # <<>>
    BY <2>5
  <2> HIDE DEF more, s
  <2>8. /\ pc' \in [Tools -> {"idle", "option", "read", "write"}]
        /\ todo' \in [Tools -> Todos]
        /\ \A u \in Tools : /\ pin'[u] = None <=> pc'[u] = "idle"
                            /\ pc'[u] \in {"read", "write"} => todo'[u] # <<>>
    BY <2>5, <2>6, <2>7
  <2>9. ret' \in [Tools -> BOOLEAN]
    BY <2>6, Zenon
  <2> QED BY <2>4, <2>6, <2>8, <2>9
<1> QED
  BY <1>1, <1>2, <1>3, <1>4, <1>5, <1>6, <1>7, <1>8, <1>9, <1>10, <1>11
     DEF Next, Step, ReadReg, WriteReg

\* Every variable keeps its type: a pin is addressed exactly while a tool runs,
\* and a tool about to touch a register has a setting to make.
THEOREM TypeCorrect == Spec => []TypeOK
BY InitTypeOK, NextTypeOK, PTL DEF Spec

(***************************************************************************)
(* One tool at a time for a bank: the program implements GpioPins           *)
(***************************************************************************)

\* No two tools work on the same bank.
Apart ==
    \A t, u \in Tools :
        pc[t] # "idle" /\ pc[u] # "idle" /\ t # u => Bank(pin[t]) # Bank(pin[u])

\* What a tool is about to write back is still what the register holds.
Fresh ==
    \A t \in Tools :
        pc[t] = "write" => seen[t] = reg[Head(todo[t])[1]][Bank(pin[t])]

SerialInv == TypeOK /\ Apart /\ Fresh

\* Nothing but a write touches a register.
LEMMA RegSteps ==
    ASSUME NEW t \in Tools, Step(t)
    PROVE  reg' = reg \/ (WriteReg(t) /\ ~SettingFailed(t))
BY DEF Step, Start, Refuse, Finish, Exit, Setting, Show, Enable, Unknown,
       ReadReg, WriteReg, SettingFailed

LEMMA WriteEffect ==
    ASSUME TypeOK, NEW t \in Tools, WriteReg(t), ~SettingFailed(t)
    PROVE  LET s == Head(todo[t])
               i == Index(pin[t])
               b == Bank(pin[t])
               new == IF s[2] THEN seen[t] \cup {i} ELSE seen[t] \ {i}
           IN /\ s[1] \in Regs /\ b \in Banks /\ pin[t] \in AllPins
              /\ pc[t] = "write" /\ pc'[t] # "write"
              /\ reg' = [reg EXCEPT ![s[1]][b] = new]
              /\ UNCHANGED pin
              /\ \A u \in Tools \ {t} : pc'[u] = pc[u] /\ todo'[u] = todo[u] /\ seen'[u] = seen[u]
<1>1. pc[t] = "write" /\ todo[t] \in Todos /\ todo[t] # <<>> /\ pin[t] \in AllPins
  BY DEF WriteReg, TypeOK
<1>2. Head(todo[t])[1] \in Regs /\ Bank(pin[t]) \in Banks
  BY <1>1, TodoParts, SettingParts, PinParts
<1> DEFINE more == Len(todo[t]) > 1
<1>3. pc' = [pc EXCEPT ![t] = IF more THEN "read" ELSE "option"]
  BY DEF WriteReg
<1> HIDE DEF more
<1>4. pc'[t] # "write" /\ \A u \in Tools \ {t} : pc'[u] = pc[u]
  BY <1>3 DEF TypeOK
<1>5. \A u \in Tools \ {t} : todo'[u] = todo[u] /\ seen'[u] = seen[u]
  BY DEF WriteReg, TypeOK
<1> QED BY <1>1, <1>2, <1>4, <1>5 DEF WriteReg

LEMMA NextApart ==
    ASSUME ~Crowded, SerialInv, NEW t \in Tools, Step(t)
    PROVE  Apart'
<1> USE DEF SerialInv
<1>1. CASE Start(t)
  <2>1. /\ pc' = [pc EXCEPT ![t] = "option"] /\ pc[t] = "idle"
        /\ \E p \in AllPins : BankFree(p) /\ pin' = [pin EXCEPT ![t] = p]
    BY <1>1 DEF Start
  <2> QED BY <2>1 DEF Apart, BankFree, TypeOK
<1>2. CASE Refuse(t)
  BY <1>2 DEF Refuse, Apart
<1>3. CASE pc' = [pc EXCEPT ![t] = "idle"] /\ pin' = [pin EXCEPT ![t] = None]
  BY <1>3 DEF Apart, TypeOK
<1>4. CASE /\ pin' = pin /\ pc[t] # "idle"
           /\ \A u \in Tools \ {t} : pc'[u] = pc[u]
  BY <1>4 DEF Apart
<1>5. CASE WriteReg(t) /\ ~SettingFailed(t)
  <2>1. pin' = pin /\ pc[t] # "idle" /\ \A u \in Tools \ {t} : pc'[u] = pc[u]
    BY <1>5, WriteEffect
  <2> QED BY <2>1, <1>4
<1>6. CASE (WriteReg(t) \/ ReadReg(t)) /\ SettingFailed(t)
  <2>1. pin' = pin /\ pc[t] # "idle" /\ \A u \in Tools \ {t} : pc'[u] = pc[u]
    BY <1>6 DEF SettingFailed, WriteReg, ReadReg, TypeOK
  <2> QED BY <2>1, <1>4
<1>7. CASE (ReadReg(t) /\ ~SettingFailed(t)) \/ Setting(t) \/ Show(t)
  <2>1. pin' = pin /\ pc[t] # "idle" /\ \A u \in Tools \ {t} : pc'[u] = pc[u]
    BY <1>7 DEF ReadReg, Setting, Show, Word, TypeOK
  <2> QED BY <2>1, <1>4
<1>8. CASE Finish(t) \/ Unknown(t)
  BY <1>8, <1>3 DEF Finish, Unknown, Exit
<1>9. CASE Enable(t)
  <2>1. CASE UNCHANGED <<pc, pin>>
    BY <2>1 DEF Apart
  <2> QED BY <1>9, <2>1, <1>3 DEF Enable, Exit
<1> QED BY <1>1, <1>2, <1>5, <1>6, <1>7, <1>8, <1>9 DEF Step

LEMMA NextFresh ==
    ASSUME SerialInv, NEW t \in Tools, Step(t)
    PROVE  Fresh'
<1> USE DEF SerialInv
<1>1. CASE WriteReg(t) /\ ~SettingFailed(t)
  <2> DEFINE s == Head(todo[t])
             b == Bank(pin[t])
             new == IF s[2] THEN seen[t] \cup {Index(pin[t])} ELSE seen[t] \ {Index(pin[t])}
  <2>1. /\ s[1] \in Regs /\ b \in Banks
        /\ pc[t] = "write" /\ pc'[t] # "write"
        /\ reg' = [reg EXCEPT ![s[1]][b] = new]
        /\ UNCHANGED pin
        /\ \A u \in Tools \ {t} : pc'[u] = pc[u] /\ todo'[u] = todo[u] /\ seen'[u] = seen[u]
    BY <1>1, WriteEffect
  <2> SUFFICES ASSUME NEW u \in Tools, pc'[u] = "write"
               PROVE  seen'[u] = reg'[Head(todo'[u])[1]][Bank(pin'[u])]
    BY <2>1 DEF Fresh, Bank
  <2>2. u # t /\ pc[u] = "write" /\ seen[u] = reg[Head(todo[u])[1]][Bank(pin[u])]
    BY <2>1 DEF Fresh
  <2>3. Bank(pin[u]) # b
    BY <2>1, <2>2 DEF Apart
  <2>4. Bank(pin[u]) \in Banks /\ Head(todo[u])[1] \in Regs
    BY <2>2, TodoParts, SettingParts, PinParts DEF TypeOK
  <2> HIDE DEF new, s, b
  <2>5. reg'[Head(todo[u])[1]][Bank(pin[u])] = reg[Head(todo[u])[1]][Bank(pin[u])]
    BY <2>1, <2>3, <2>4 DEF TypeOK
  <2> QED BY <2>1, <2>2, <2>5
<1>2. CASE reg' = reg /\ pin' = pin /\ \A u \in Tools : pc'[u] = "write" =>
               pc[u] = "write" /\ todo'[u] = todo[u] /\ seen'[u] = seen[u]
  BY <1>2 DEF Fresh, Bank
<1>3. CASE reg' = reg /\ ~ReadReg(t)
  <2>1. \A u \in Tools : pc'[u] = "write" =>
            pc[u] = "write" /\ todo'[u] = todo[u] /\ seen'[u] = seen[u] /\ pin'[u] = pin[u]
    BY <1>3 DEF Step, Start, Refuse, Finish, Exit, Setting, Show, Enable, Unknown, Word,
                WriteReg, SettingFailed, TypeOK
  <2> QED BY <1>3, <2>1 DEF Fresh, Bank
<1>4. CASE ReadReg(t) /\ SettingFailed(t)
  BY <1>4, <1>2 DEF SettingFailed, TypeOK
<1>5. CASE ReadReg(t) /\ ~SettingFailed(t)
  <2>1. /\ seen' = [seen EXCEPT ![t] = reg[Head(todo[t])[1]][Bank(pin[t])]]
        /\ pc' = [pc EXCEPT ![t] = "write"]
        /\ UNCHANGED <<reg, pin, todo>>
    BY <1>5 DEF ReadReg
  <2> QED BY <2>1 DEF Fresh, Bank, TypeOK
<1> QED BY <1>1, <1>3, <1>4, <1>5, RegSteps

LEMMA NextSerialInv ==
    ASSUME ~Crowded, SerialInv, [Next]_vars
    PROVE  SerialInv'
<1>1. CASE UNCHANGED vars
  BY <1>1, NextTypeOK DEF vars, tool, SerialInv, Apart, Fresh, Bank
<1>2. ASSUME NEW t \in Tools, Step(t) PROVE SerialInv'
  BY <1>2, NextTypeOK, NextApart, NextFresh DEF SerialInv, Next
<1> QED BY <1>1, <1>2 DEF Next

OnBar == [r \in Regs |-> {p \in AllPins : Bit(r, p)}]

\* A write changes the setting of the one pin in the register it is for.
LEMMA WriteSets ==
    ASSUME SerialInv, NEW t \in Tools, WriteReg(t), ~SettingFailed(t)
    PROVE  /\ pin[t] \in AllPins
           /\ \E r \in Regs :
                 \/ OnBar' = [OnBar EXCEPT ![r] = @ \cup {pin[t]}]
                 \/ OnBar' = [OnBar EXCEPT ![r] = @ \ {pin[t]}]
<1> DEFINE s == Head(todo[t])
           i == Index(pin[t])
           b == Bank(pin[t])
           new == IF s[2] THEN seen[t] \cup {i} ELSE seen[t] \ {i}
<1>1. /\ s[1] \in Regs /\ b \in Banks /\ pin[t] \in AllPins /\ pc[t] = "write"
      /\ reg' = [reg EXCEPT ![s[1]][b] = new]
  BY WriteEffect DEF SerialInv
<1>2. seen[t] = reg[s[1]][b]
  BY <1>1 DEF SerialInv, Fresh
<1>3. PICK r \in Regs : r = s[1]
  BY <1>1
<1>4. \A q \in AllPins : Bank(q) \in Banks
  BY PinParts
<1>5. \A q \in AllPins : Bank(q) = b /\ Index(q) = i => q = pin[t]
  BY <1>1, PinUnique
<1>6. \A k \in Regs, c \in Banks : reg'[k][c] = IF k = r /\ c = b THEN new ELSE reg[k][c]
  <2> HIDE DEF new, s, b
  <2> QED BY <1>1, <1>3 DEF SerialInv, TypeOK
<1>7. ASSUME s[2] PROVE OnBar' = [OnBar EXCEPT ![r] = @ \cup {pin[t]}]
  <2>1. new = reg[r][b] \cup {i}
    BY <1>2, <1>3, <1>7
  <2> HIDE DEF new, s
  <2>2. \A k \in Regs, q \in AllPins :
           (Index(q) \in reg'[k][Bank(q)]) <=> (Bit(k, q) \/ (k = r /\ q = pin[t]))
    <3> SUFFICES ASSUME NEW k \in Regs, NEW q \in AllPins
                 PROVE  (Index(q) \in reg'[k][Bank(q)]) <=> (Bit(k, q) \/ (k = r /\ q = pin[t]))
      OBVIOUS
    <3> QED BY <2>1, <1>4, <1>5, <1>6 DEF Bit
  <2>3. \A k \in Regs :
           {q \in AllPins : Index(q) \in reg'[k][Bank(q)]}
              = IF k = r THEN {q \in AllPins : Bit(k, q)} \cup {pin[t]}
                         ELSE {q \in AllPins : Bit(k, q)}
    BY <2>2, <1>1
  <2> QED BY <2>3 DEF OnBar, Bit, Index, Bank
<1>8. ASSUME ~s[2] PROVE OnBar' = [OnBar EXCEPT ![r] = @ \ {pin[t]}]
  <2>1. new = reg[r][b] \ {i}
    BY <1>2, <1>3, <1>8
  <2> HIDE DEF new, s
  <2>2. \A k \in Regs, q \in AllPins :
           (Index(q) \in reg'[k][Bank(q)]) <=> (Bit(k, q) /\ ~(k = r /\ q = pin[t]))
    <3> SUFFICES ASSUME NEW k \in Regs, NEW q \in AllPins
                 PROVE  (Index(q) \in reg'[k][Bank(q)]) <=> (Bit(k, q) /\ ~(k = r /\ q = pin[t]))
      OBVIOUS
    <3> QED BY <2>1, <1>4, <1>5, <1>6 DEF Bit
  <2> QED BY <2>2, <1>1 DEF OnBar, Bit, Index, Bank
<1> QED BY <1>1, <1>7, <1>8

LEMMA NextPins ==
    ASSUME SerialInv, [Next]_vars
    PROVE  [Pins!Next]_(Pins!vars)
<1> USE DEF Pins!vars
<1>1. ASSUME reg' = reg PROVE OnBar' = OnBar
  BY <1>1 DEF OnBar, Bit
<1>2. CASE UNCHANGED vars
  BY <1>2, <1>1 DEF vars, tool, OnBar
<1>3. ASSUME NEW t \in Tools, Start(t) PROVE Pins!Take(t)
  <2>1. reg' = reg /\ pin[t] = None /\ \E p \in AllPins : pin' = [pin EXCEPT ![t] = p]
    BY <1>3 DEF Start, SerialInv, TypeOK
  <2> QED BY <2>1, <1>1 DEF Pins!Take, OnBar
<1>4. ASSUME NEW t \in Tools, reg' = reg, pin' = [pin EXCEPT ![t] = None] PROVE Pins!Leave(t)
  BY <1>4, <1>1 DEF Pins!Leave, OnBar
<1>5. ASSUME NEW t \in Tools, WriteReg(t), ~SettingFailed(t) PROVE Pins!Set(t)
  <2>1. pin' = pin
    BY <1>5 DEF WriteReg
  <2> QED BY <1>5, <2>1, WriteSets DEF Pins!Set, OnBar
<1>6. ASSUME reg' = reg, pin' = pin PROVE UNCHANGED (Pins!vars)
  BY <1>6, <1>1 DEF OnBar
<1>7. ASSUME NEW t \in Tools, Step(t) PROVE [Pins!Next]_(Pins!vars)
  <2>1. \/ Start(t)
        \/ reg' = reg /\ pin' = [pin EXCEPT ![t] = None]
        \/ reg' = reg /\ pin' = pin
        \/ WriteReg(t) /\ ~SettingFailed(t)
    BY <1>7 DEF Step, Refuse, Finish, Exit, Setting, Show, Enable, Unknown,
                ReadReg, WriteReg, SettingFailed
  <2> QED BY <2>1, <1>3, <1>4, <1>5, <1>6 DEF Pins!Next
<1> QED BY <1>2, <1>7 DEF Next

\* Tools that never share a bank with another running tool implement GpioPins:
\* whatever transfers fail and however the tools interleave, the settings of a
\* pin change only through a tool that was started for it, one at a time.
THEOREM SerialImplementsPins ==
    ASSUME ~Crowded
    PROVE  Spec => PinsSpec
<1>1. Init => SerialInv
  <2> SUFFICES ASSUME Init PROVE SerialInv
    OBVIOUS
  <2> QED BY InitTypeOK DEF Init, SerialInv, Apart, Fresh
<1>2. SerialInv /\ [Next]_vars => SerialInv'
  BY NextSerialInv
<1>3. Init => Pins!Init
  <2> SUFFICES ASSUME Init PROVE Pins!Init
    OBVIOUS
  <2> QED BY DEF Init, Pins!Init
<1>4. SerialInv /\ [Next]_vars => [Pins!Next]_(Pins!vars)
  BY NextPins
<1> QED BY <1>1, <1>2, <1>3, <1>4, PTL DEF Spec, PinsSpec, Pins!Spec

(***************************************************************************)
(* What the exit status vouches for, and the pulls                          *)
(***************************************************************************)

\* Every option makes one or two settings, of different registers.
LEMMA WritesShape ==
    ASSUME NEW o \in DOMAIN Writes
    PROVE  LET w == Writes[o] IN
           /\ w \in Todos /\ w # <<>> /\ Head(w) = w[1] /\ w[1] \in Settings
           /\ \/ Len(w) = 1 /\ Tail(w) = <<>> /\ DOMAIN w = {1}
              \/ /\ Len(w) = 2 /\ DOMAIN w = {1, 2} /\ w[2] \in Settings
                 /\ Tail(w) # <<>> /\ Tail(w) # w /\ Len(Tail(w)) = 1
                 /\ Head(Tail(w)) = w[2] /\ Tail(Tail(w)) = <<>>
                 /\ w[1][1] # w[2][1]
<1> DEFINE One(s) == <<s>>
           Two(s, u) == <<s, u>>
<1>1. ASSUME NEW s \in Settings
      PROVE  /\ Len(One(s)) = 1 /\ Head(One(s)) = s /\ One(s)[1] = s
             /\ Tail(One(s)) = <<>> /\ DOMAIN One(s) = {1}
  OBVIOUS
<1>2. ASSUME NEW s \in Settings, NEW u \in Settings
      PROVE  /\ Len(Two(s, u)) = 2 /\ Head(Two(s, u)) = s
             /\ Two(s, u)[1] = s /\ Two(s, u)[2] = u /\ DOMAIN Two(s, u) = {1, 2}
             /\ Tail(Two(s, u)) = One(u)
  OBVIOUS
<1>3. \/ \E s \in Settings : Writes[o] = One(s)
      \/ \E s, u \in Settings : Writes[o] = Two(s, u) /\ s[1] # u[1]
  <2>1. /\ <<"dir", TRUE>> \in Settings      /\ <<"dir", FALSE>> \in Settings
        /\ <<"data", TRUE>> \in Settings     /\ <<"data", FALSE>> \in Settings
        /\ <<"polarity", TRUE>> \in Settings /\ <<"polarity", FALSE>> \in Settings
        /\ <<"drain", TRUE>> \in Settings    /\ <<"drain", FALSE>> \in Settings
        /\ <<"pullup", TRUE>> \in Settings   /\ <<"pullup", FALSE>> \in Settings
        /\ <<"pulldown", TRUE>> \in Settings /\ <<"pulldown", FALSE>> \in Settings
    BY DEF Settings, Regs
  <2>2. /\ Writes["input"] = One(<<"dir", TRUE>>)
        /\ Writes["output"] = One(<<"dir", FALSE>>)
        /\ Writes["high"] = One(<<"data", TRUE>>)
        /\ Writes["low"] = One(<<"data", FALSE>>)
        /\ Writes["inverse"] = One(<<"polarity", TRUE>>)
        /\ Writes["normal"] = One(<<"polarity", FALSE>>)
        /\ Writes["opendrain"] = One(<<"drain", TRUE>>)
        /\ Writes["pushpull"] = One(<<"drain", FALSE>>)
    BY DEF Writes
  <2>3. /\ Writes["off"] = Two(<<"pullup", FALSE>>, <<"pulldown", FALSE>>)
        /\ Writes["down"] = Two(<<"pullup", FALSE>>, <<"pulldown", TRUE>>)
        /\ Writes["up"] = Two(<<"pullup", TRUE>>, <<"pulldown", FALSE>>)
    BY DEF Writes, PullOff, PullDown, PullUp
  <2>4. \A b, c \in BOOLEAN : <<"pullup", b>>[1] # <<"pulldown", c>>[1]
    OBVIOUS
  <2>5. o \in {"input", "output", "high", "low", "inverse", "normal",
               "opendrain", "pushpull", "off", "down", "up"}
    BY DEF Writes
  <2> HIDE DEF One, Two
  <2>6. CASE o \in {"off", "down", "up"}
    BY <2>1, <2>3, <2>4, <2>6
  <2>7. CASE o \notin {"off", "down", "up"}
    BY <2>1, <2>2, <2>5, <2>7
  <2> QED BY <2>6, <2>7
<1>4. Len(<<>>) = 0
  OBVIOUS
<1> HIDE DEF One, Two
<1> QED BY <1>1, <1>2, <1>3, <1>4, WritesType

\* A successful write changes one setting of one pin, and nothing else does.
LEMMA BitAfterWrite ==
    ASSUME SerialInv, NEW t \in Tools, WriteReg(t), ~SettingFailed(t),
           NEW r \in Regs, NEW q \in AllPins
    PROVE  (Index(q) \in reg'[r][Bank(q)])
              <=> IF r = Head(todo[t])[1] /\ q = pin[t] THEN Head(todo[t])[2] ELSE Bit(r, q)
<1> DEFINE s == Head(todo[t])
           i == Index(pin[t])
           b == Bank(pin[t])
           new == IF s[2] THEN seen[t] \cup {i} ELSE seen[t] \ {i}
<1>1. /\ s[1] \in Regs /\ b \in Banks /\ pin[t] \in AllPins /\ pc[t] = "write"
      /\ reg' = [reg EXCEPT ![s[1]][b] = new]
  BY WriteEffect DEF SerialInv
<1>2. seen[t] = reg[s[1]][b]
  BY <1>1 DEF SerialInv, Fresh
<1>3. Bank(q) \in Banks
  BY PinParts
<1>4. Bank(q) = b /\ Index(q) = i => q = pin[t]
  BY <1>1, PinUnique
<1>5. reg'[r][Bank(q)] = IF r = s[1] /\ Bank(q) = b THEN new ELSE reg[r][Bank(q)]
  <2> HIDE DEF new, s, b
  <2> QED BY <1>1, <1>3 DEF SerialInv, TypeOK
<1>6. CASE r = s[1] /\ Bank(q) = b
  <2>1. reg'[r][Bank(q)] = new /\ seen[t] = reg[r][Bank(q)]
    BY <1>2, <1>5, <1>6
  <2>2. Index(q) = i <=> q = pin[t]
    BY <1>4, <1>6
  <2>3. Index(q) \in new <=> IF q = pin[t] THEN s[2] ELSE Index(q) \in seen[t]
    BY <2>2
  <2> QED BY <1>6, <2>1, <2>3 DEF Bit
<1>7. CASE ~(r = s[1] /\ Bank(q) = b)
  <2>1. reg'[r][Bank(q)] = reg[r][Bank(q)] /\ ~(r = s[1] /\ q = pin[t])
    BY <1>5, <1>7
  <2> QED BY <2>1 DEF Bit
<1> QED BY <1>6, <1>7

Held(t, s) == Bit(s[1], pin[t]) <=> s[2]

\* What a tool has yet to set is what its option asked for, or the second half of
\* it with the first half done; when it is through without a failure all is done.
Doing(t) ==
    /\ pc[t] \in {"idle", "option"} => todo[t] = <<>>
    /\ pc[t] = "idle" => asked[t] = "none"
    /\ pc[t] \in {"read", "write"} =>
          /\ asked[t] \in DOMAIN Writes
          /\ \/ todo[t] = Writes[asked[t]]
             \/ /\ Len(Writes[asked[t]]) = 2
                /\ todo[t] = Tail(Writes[asked[t]])
                /\ Held(t, Writes[asked[t]][1])
    /\ pc[t] = "option" /\ ~ret[t] /\ asked[t] # "none" =>
          \A i \in DOMAIN Writes[asked[t]] : Held(t, Writes[asked[t]][i])

AllDoing == \A t \in Tools : Doing(t)

\* A step of one tool leaves the others, and the settings of their pins, alone.
LEMMA OthersStay ==
    ASSUME SerialInv, NEW t \in Tools, Step(t), NEW u \in Tools, u # t
    PROVE  /\ pc'[u] = pc[u] /\ todo'[u] = todo[u] /\ asked'[u] = asked[u]
           /\ ret'[u] = ret[u] /\ pin'[u] = pin[u]
           /\ pc[u] # "idle" => \A r \in Regs : Bit(r, pin[u])' = Bit(r, pin[u])
<1>1. /\ pc'[u] = pc[u] /\ todo'[u] = todo[u] /\ asked'[u] = asked[u]
      /\ ret'[u] = ret[u] /\ pin'[u] = pin[u]
  BY DEF SerialInv, TypeOK, Step, Start, Refuse, Finish, Exit, Setting, Show, Enable, Unknown,
         Word, ReadReg, WriteReg, SettingFailed
<1>2. ASSUME pc[u] # "idle", NEW r \in Regs PROVE Bit(r, pin[u])' = Bit(r, pin[u])
  <2>1. CASE reg' = reg
    BY <1>1, <2>1 DEF Bit, Index, Bank
  <2>2. CASE WriteReg(t) /\ ~SettingFailed(t)
    <3>1. pin[u] \in AllPins /\ pin[u] # pin[t]
      BY <1>2, <2>2 DEF SerialInv, TypeOK, Apart, WriteReg
    <3>2. (Index(pin[u]) \in reg'[r][Bank(pin[u])]) <=> Bit(r, pin[u])
      BY <2>2, <3>1, BitAfterWrite
    <3> QED BY <1>1, <3>2 DEF Bit, Index, Bank
  <2> QED BY <2>1, <2>2, RegSteps
<1> QED BY <1>1, <1>2

LEMMA OthersDoing ==
    ASSUME SerialInv, NEW t \in Tools, Step(t), NEW u \in Tools, u # t, Doing(u)
    PROVE  Doing(u)'
<1>1. /\ pc'[u] = pc[u] /\ todo'[u] = todo[u] /\ asked'[u] = asked[u] /\ ret'[u] = ret[u]
      /\ pc[u] # "idle" => \A r \in Regs : Bit(r, pin[u])' = Bit(r, pin[u])
  BY OthersStay
<1>2. ASSUME pc[u] # "idle", NEW s \in Settings PROVE Held(u, s)' <=> Held(u, s)
  BY <1>1, <1>2, SettingParts DEF Held
<1>3. ASSUME asked[u] \in DOMAIN Writes, NEW i \in DOMAIN Writes[asked[u]]
      PROVE  Writes[asked[u]][i] \in Settings /\ Writes[asked[u]][1] \in Settings
  BY <1>3, WritesShape
<1>4. asked[u] # "none" => asked[u] \in DOMAIN Writes
  BY DEF SerialInv, TypeOK
<1>5. asked[u] \in DOMAIN Writes => Writes[asked[u]][1] \in Settings
  BY WritesShape
<1>6. CASE pc[u] \in {"read", "write"}
  BY <1>1, <1>2, <1>5, <1>6 DEF Doing
<1>7. CASE pc[u] = "option"
  BY <1>1, <1>2, <1>3, <1>4, <1>7 DEF Doing
<1>8. CASE pc[u] = "idle"
  BY <1>1, <1>8 DEF Doing
<1> QED BY <1>6, <1>7, <1>8 DEF SerialInv, TypeOK

\* The tool's own write: it makes the setting that comes next.
LEMMA OwnWrite ==
    ASSUME SerialInv, NEW t \in Tools, Doing(t), WriteReg(t), ~SettingFailed(t)
    PROVE  Doing(t)'
<1> DEFINE more == Len(todo[t]) > 1
<1>1. /\ pc[t] = "write" /\ UNCHANGED <<pin, asked>>
      /\ todo' = [todo EXCEPT ![t] = Tail(todo[t])]
      /\ pc' = [pc EXCEPT ![t] = IF more THEN "read" ELSE "option"]
      /\ ret' = [ret EXCEPT ![t] = IF more THEN ret[t] ELSE FALSE]
  BY DEF WriteReg
<1>2. asked[t] \in DOMAIN Writes /\ pin[t] \in AllPins
  BY <1>1 DEF Doing, SerialInv, TypeOK
<1>3. ASSUME NEW s \in Settings
      PROVE  Held(t, s)' <=> IF s[1] = Head(todo[t])[1] THEN Head(todo[t])[2] = s[2] ELSE Held(t, s)
  <2>1. (Index(pin[t]) \in reg'[s[1]][Bank(pin[t])])
          <=> IF s[1] = Head(todo[t])[1] THEN Head(todo[t])[2] ELSE Bit(s[1], pin[t])
    BY <1>2, SettingParts, BitAfterWrite
  <2>2. Head(todo[t])[2] \in BOOLEAN /\ s[2] \in BOOLEAN
    BY <1>1, SettingParts, TodoParts DEF SerialInv, TypeOK
  <2>3. Bit(s[1], pin[t])' <=> Index(pin[t]) \in reg'[s[1]][Bank(pin[t])]
    BY <1>1 DEF Bit, Index, Bank
  <2> QED BY <2>1, <2>2, <2>3 DEF Held
<1>4. todo'[t] = Tail(todo[t]) /\ asked'[t] = asked[t]
      /\ pc'[t] = (IF more THEN "read" ELSE "option")
  BY <1>1 DEF SerialInv, TypeOK
<1>w. PICK w : w = Writes[asked[t]]
  OBVIOUS
<1>5. /\ w[1] \in Settings /\ Head(w) = w[1]
      /\ \/ Len(w) = 1 /\ Tail(w) = <<>> /\ DOMAIN w = {1}
         \/ /\ Len(w) = 2 /\ DOMAIN w = {1, 2} /\ w[2] \in Settings
            /\ Len(Tail(w)) = 1 /\ Head(Tail(w)) = w[2] /\ Tail(Tail(w)) = <<>>
            /\ w[1][1] # w[2][1]
  BY <1>2, <1>w, WritesShape
<1>6. CASE todo[t] = w /\ Len(w) = 1
  <2>1. todo'[t] = <<>> /\ pc'[t] = "option" /\ DOMAIN w = {1}
    BY <1>4, <1>5, <1>6
  <2>2. Held(t, w[1])'
    BY <1>3, <1>5, <1>6
  <2> QED BY <1>4, <1>w, <2>1, <2>2 DEF Doing
<1>7. CASE todo[t] = w /\ Len(w) = 2
  <2>1. todo'[t] = Tail(w) /\ pc'[t] = "read"
    BY <1>4, <1>7
  <2>2. Held(t, w[1])'
    BY <1>3, <1>5, <1>7
  <2> QED BY <1>2, <1>4, <1>7, <1>w, <2>1, <2>2 DEF Doing
<1>8. CASE todo[t] = Tail(w) /\ Len(w) = 2 /\ Held(t, w[1])
  <2>1. todo'[t] = <<>> /\ pc'[t] = "option" /\ DOMAIN w = {1, 2}
    BY <1>4, <1>5, <1>8
  <2>2. Held(t, w[1])' /\ Held(t, w[2])'
    BY <1>3, <1>5, <1>8
  <2> QED BY <1>4, <1>w, <2>1, <2>2 DEF Doing
<1> QED BY <1>1, <1>w, <1>5, <1>6, <1>7, <1>8 DEF Doing

LEMMA OwnDoing ==
    ASSUME SerialInv, NEW t \in Tools, Doing(t), Step(t)
    PROVE  Doing(t)'
<1>1. CASE WriteReg(t) /\ ~SettingFailed(t)
  BY <1>1, OwnWrite
<1>2. CASE reg' = reg /\ UNCHANGED <<pin, todo, asked, ret>> /\ pc'[t] = pc[t]
  <2>1. \A s : Held(t, s)' <=> Held(t, s)
    BY <1>2 DEF Held, Bit, Index, Bank
  <2> QED BY <1>2, <2>1 DEF Doing
<1>3. CASE Start(t)
  BY <1>3 DEF Start, Doing, SerialInv, TypeOK
<1>4. CASE Refuse(t) \/ Show(t)
  BY <1>4, <1>2 DEF Refuse, Show, Word
<1>5. ASSUME NEW c, Exit(t, c), pc[t] = "option" PROVE Doing(t)'
  BY <1>5 DEF Exit, Doing, SerialInv, TypeOK
<1>6. CASE Finish(t) \/ Unknown(t)
  BY <1>6, <1>5 DEF Finish, Unknown
<1>7. CASE Enable(t)
  BY <1>7, <1>2, <1>5 DEF Enable
<1>8. CASE Setting(t)
  <2>1. PICK o \in DOMAIN Writes : /\ todo' = [todo EXCEPT ![t] = Writes[o]]
                                   /\ asked' = [asked EXCEPT ![t] = o]
    BY <1>8 DEF Setting
  <2>2. pc'[t] = "read" /\ todo'[t] = Writes[asked'[t]] /\ asked'[t] \in DOMAIN Writes
    BY <1>8, <2>1 DEF Setting, SerialInv, TypeOK
  <2> QED BY <2>2 DEF Doing
<1>9. CASE ReadReg(t) /\ ~SettingFailed(t)
  <2>1. /\ reg' = reg /\ UNCHANGED <<pin, todo, asked>>
        /\ pc[t] = "read" /\ pc'[t] = "write"
    BY <1>9 DEF ReadReg, SerialInv, TypeOK
  <2>2. \A s : Held(t, s)' <=> Held(t, s)
    BY <2>1 DEF Held, Bit, Index, Bank
  <2> QED BY <2>1, <2>2 DEF Doing
<1>10. CASE SettingFailed(t)
  <2>1. pc'[t] = "option" /\ todo'[t] = <<>> /\ ret'[t]
    BY <1>10 DEF SettingFailed, SerialInv, TypeOK
  <2> QED BY <2>1 DEF Doing
<1> QED BY <1>1, <1>3, <1>4, <1>6, <1>7, <1>8, <1>9, <1>10 DEF Step

LEMMA NextAllDoing ==
    ASSUME SerialInv, AllDoing, [Next]_vars
    PROVE  AllDoing'
<1>1. CASE UNCHANGED vars
  <2>1. \A t, s : Held(t, s)' <=> Held(t, s)
    BY <1>1 DEF vars, tool, Held, Bit, Index, Bank
  <2> QED BY <1>1, <2>1 DEF vars, tool, AllDoing, Doing
<1>2. ASSUME NEW t \in Tools, Step(t) PROVE AllDoing'
  BY <1>2, OwnDoing, OthersDoing DEF AllDoing
<1> QED BY <1>1, <1>2 DEF Next

LEMMA InitSerialInv == Init => SerialInv /\ AllDoing
<1> SUFFICES ASSUME Init PROVE SerialInv /\ AllDoing
  OBVIOUS
<1>1. SerialInv
  BY InitTypeOK DEF Init, SerialInv, Apart, Fresh
<1>2. AllDoing
  BY DEF Init, AllDoing, Doing
<1> QED BY <1>1, <1>2

\* With one tool at a time for a bank, ret is 0 only if every setting of the last
\* option was made and still stands, whatever the other tools have done since.
THEOREM ZeroVouches ==
    ASSUME ~Crowded
    PROVE  Spec => []ZeroMeansDone
<1>1. SerialInv /\ AllDoing /\ [Next]_vars => SerialInv' /\ AllDoing'
  BY NextSerialInv, NextAllDoing
<1>2. SerialInv /\ AllDoing => ZeroMeansDone
  <2> SUFFICES ASSUME SerialInv, AllDoing, NEW t \in Tools,
                      pc[t] = "option", ~ret[t], asked[t] # "none",
                      NEW i \in DOMAIN Writes[asked[t]]
               PROVE  Bit(Writes[asked[t]][i][1], pin[t]) = Writes[asked[t]][i][2]
    BY DEF ZeroMeansDone
  <2>1. Held(t, Writes[asked[t]][i])
    BY DEF AllDoing, Doing
  <2>2. asked[t] \in DOMAIN Writes
    BY DEF SerialInv, TypeOK
  <2>3. Writes[asked[t]][i] \in Settings
    BY <2>2, WritesShape
  <2>4. Writes[asked[t]][i][2] \in BOOLEAN
    BY <2>3, SettingParts
  <2> QED BY <2>1, <2>4 DEF Held, Bit
<1> QED BY InitSerialInv, <1>1, <1>2, PTL DEF Spec

\* What the next write of a tool says of the pull bits of its pin.
LEMMA PullWrites ==
    ASSUME SerialInv, NEW t \in Tools, Doing(t), pc[t] \in {"read", "write"}
    PROVE  LET s == Head(todo[t]) IN
           /\ s = <<"pullup", TRUE>> => asked[t] = "up" /\ Len(todo[t]) = 2
           /\ s = <<"pulldown", TRUE>> => ~Bit("pullup", pin[t])
           /\ asked[t] = "up" /\ Len(todo[t]) = 1 => s = <<"pulldown", FALSE>>
<1>w. PICK w : w = Writes[asked[t]]
  OBVIOUS
<1>1. asked[t] \in DOMAIN Writes
  BY DEF Doing
<1>2. \/ todo[t] = w
      \/ Len(w) = 2 /\ todo[t] = Tail(w) /\ Held(t, w[1])
  BY <1>w DEF Doing
<1>3. /\ Head(w) = w[1]
      /\ \/ Len(w) = 1
         \/ Len(w) = 2 /\ Len(Tail(w)) = 1 /\ Head(Tail(w)) = w[2]
  BY <1>1, <1>w, WritesShape
<1> DEFINE Two(s, u) == <<s, u>>
           upOn == <<"pullup", TRUE>>
           upOff == <<"pullup", FALSE>>
           downOn == <<"pulldown", TRUE>>
           downOff == <<"pulldown", FALSE>>
<1>4. \A s, u \in Settings : Two(s, u)[1] = s /\ Two(s, u)[2] = u /\ Len(Two(s, u)) = 2
  OBVIOUS
<1>5. upOn \in Settings /\ upOff \in Settings /\ downOn \in Settings /\ downOff \in Settings
  BY DEF Settings, Regs
<1>6. /\ upOff[1] = "pullup" /\ ~upOff[2] /\ upOn[1] = "pullup" /\ upOn[2]
      /\ downOff[1] = "pulldown" /\ ~downOff[2] /\ downOn[1] = "pulldown" /\ downOn[2]
  OBVIOUS
<1>7. upOn # downOn /\ upOff # upOn /\ upOff # downOn /\ downOff # upOn /\ downOff # downOn
  BY <1>6
<1>8. /\ asked[t] = "up" => w = Two(upOn, downOff)
      /\ asked[t] = "down" => w = Two(upOff, downOn)
      /\ asked[t] = "off" => w = Two(upOff, downOff)
  <2>1. /\ Writes["up"] = Two(upOn, downOff)
        /\ Writes["down"] = Two(upOff, downOn)
        /\ Writes["off"] = Two(upOff, downOff)
    BY DEF Writes, PullOff, PullDown, PullUp
  <2> HIDE DEF Two, upOn, upOff, downOn, downOff
  <2> QED BY <1>w, <2>1
<1>9. asked[t] \notin {"up", "down", "off"} =>
          Len(w) = 1 /\ w[1][1] \notin {"pullup", "pulldown"}
  <2> DEFINE One(s) == <<s>>
             Plain == {"dir", "data", "polarity", "drain"} \X BOOLEAN
  <2>1. \A s \in Plain : Len(One(s)) = 1 /\ One(s)[1] = s
                         /\ s[1] \notin {"pullup", "pulldown"}
    OBVIOUS
  <2>2. /\ <<"dir", TRUE>> \in Plain      /\ <<"dir", FALSE>> \in Plain
        /\ <<"data", TRUE>> \in Plain     /\ <<"data", FALSE>> \in Plain
        /\ <<"polarity", TRUE>> \in Plain /\ <<"polarity", FALSE>> \in Plain
        /\ <<"drain", TRUE>> \in Plain    /\ <<"drain", FALSE>> \in Plain
    OBVIOUS
  <2>3. /\ Writes["input"] = One(<<"dir", TRUE>>)
        /\ Writes["output"] = One(<<"dir", FALSE>>)
        /\ Writes["high"] = One(<<"data", TRUE>>)
        /\ Writes["low"] = One(<<"data", FALSE>>)
        /\ Writes["inverse"] = One(<<"polarity", TRUE>>)
        /\ Writes["normal"] = One(<<"polarity", FALSE>>)
        /\ Writes["opendrain"] = One(<<"drain", TRUE>>)
        /\ Writes["pushpull"] = One(<<"drain", FALSE>>)
    BY DEF Writes
  <2>4. asked[t] \in {"input", "output", "high", "low", "inverse", "normal",
                     "opendrain", "pushpull", "off", "down", "up"}
    BY <1>1 DEF Writes
  <2> HIDE DEF One, Plain
  <2>5. asked[t] \notin {"up", "down", "off"} => \E s \in Plain : w = One(s)
    BY <1>w, <2>2, <2>3, <2>4
  <2> QED BY <2>1, <2>5
<1>10. Held(t, upOff) => ~Bit("pullup", pin[t])
  BY <1>6 DEF Held
<1> HIDE DEF Two, upOn, upOff, downOn, downOff
<1>h. PICK h : h = Head(todo[t])
  OBVIOUS
<1>s. \/ h = w[1] /\ Len(todo[t]) = Len(w)
      \/ Len(w) = 2 /\ Len(todo[t]) = 1 /\ h = w[2] /\ Held(t, w[1])
  <2>1. CASE todo[t] = w
    BY <1>3, <1>h, <2>1
  <2>2. CASE Len(w) = 2 /\ todo[t] = Tail(w) /\ Held(t, w[1])
    <3>1. Len(Tail(w)) = 1 /\ Head(Tail(w)) = w[2]
      BY <1>3, <2>2
    <3> QED BY <1>h, <2>2, <3>1
  <2> QED BY <1>2, <2>1, <2>2
<1>11. CASE asked[t] = "up"
  <2>1. w[1] = upOn /\ w[2] = downOff /\ Len(w) = 2
    BY <1>4, <1>5, <1>8, <1>11
  <2>2. \/ h = upOn /\ Len(todo[t]) = 2
        \/ h = downOff /\ Len(todo[t]) = 1
    BY <1>s, <2>1
  <2>3. /\ h = upOn => Len(todo[t]) = 2
        /\ h # downOn
        /\ Len(todo[t]) = 1 => h = downOff
    BY <1>7, <2>2
  <2> QED BY <1>h, <1>11, <2>3 DEF upOn, downOn, downOff
<1>12. CASE asked[t] = "down"
  <2>1. w[1] = upOff /\ w[2] = downOn /\ Len(w) = 2
    BY <1>4, <1>5, <1>8, <1>12
  <2>2. \/ h = upOff
        \/ h = downOn /\ ~Bit("pullup", pin[t])
    BY <1>s, <1>10, <2>1
  <2>3. h # upOn /\ (h = downOn => ~Bit("pullup", pin[t]))
    BY <1>7, <2>2
  <2> QED BY <1>h, <1>12, <2>3 DEF upOn, downOn
<1>13. CASE asked[t] = "off"
  <2>1. w[1] = upOff /\ w[2] = downOff /\ Len(w) = 2
    BY <1>4, <1>5, <1>8, <1>13
  <2>2. h \in {upOff, downOff}
    BY <1>s, <2>1
  <2>3. h # upOn /\ h # downOn
    BY <1>7, <2>2
  <2> QED BY <1>h, <1>13, <2>3 DEF upOn, downOn
<1>14. CASE asked[t] \notin {"up", "down", "off"}
  <2>1. h[1] \notin {"pullup", "pulldown"}
    BY <1>s, <1>9, <1>14
  <2>2. h # upOn /\ h # downOn
    BY <1>6, <2>1
  <2> QED BY <1>h, <1>14, <2>2 DEF upOn, downOn
<1> QED BY <1>11, <1>12, <1>13, <1>14

\* An "up" that is between its two registers, or stopped there.
Excused(p) ==
    \/ p \in halfUp
    \/ \E t \in Tools : pin[t] = p /\ asked[t] = "up" /\ Len(todo[t]) = 1

\* A pin keeps its excuse until one of its pull bits is switched off.
LEMMA ExcuseStays ==
    ASSUME SerialInv, AllDoing, NEW t \in Tools, Step(t), NEW p \in AllPins, Excused(p),
           ~(WriteReg(t) /\ ~SettingFailed(t)) \/ p # pin[t]
              \/ Head(todo[t]) \notin {<<"pullup", FALSE>>, <<"pulldown", FALSE>>}
    PROVE  Excused(p)'
<1>1. CASE p \in halfUp
  <2>1. CASE WriteReg(t) /\ ~SettingFailed(t)
    BY <1>1, <2>1 DEF WriteReg, Excused
  <2>2. CASE ~WriteReg(t) \/ SettingFailed(t)
    <3>1. halfUp \subseteq halfUp'
      BY <2>2 DEF Step, Start, Refuse, Finish, Exit, Setting, Show, Enable, Unknown,
                  ReadReg, SettingFailed
    <3> QED BY <1>1, <3>1 DEF Excused
  <2> QED BY <2>1, <2>2
<1>2. ASSUME NEW u \in Tools, pin[u] = p, asked[u] = "up", Len(todo[u]) = 1
      PROVE  Excused(p)'
  <2>1. CASE u # t
    BY <1>2, <2>1, OthersStay DEF Excused
  <2>2. CASE u = t
    <3>1. Doing(t)
      BY DEF AllDoing
    <3>2. pc[t] \in {"read", "write"}
      <4>1. Len(<<>>) = 0
        OBVIOUS
      <4>2. todo[t] # <<>>
        <5>1. Len(todo[t]) = 1
          BY <1>2, <2>2, Zenon
        <5>2. 1 # 0
          OBVIOUS
        <5> QED BY <4>1, <5>1, <5>2, Zenon
      <4>3. pc[t] \in {"idle", "option", "read", "write"}
        BY DEF SerialInv, TypeOK
      <4> QED BY <3>1, <4>2, <4>3 DEF Doing
    <3>3. Step(t) => ReadReg(t) \/ WriteReg(t) \/ Refuse(t)
      BY <3>2 DEF Step, Start, Finish, Setting, Show, Word, Enable, Unknown
    <3>4. CASE SettingFailed(t)
      BY <1>2, <2>2, <3>4 DEF SettingFailed, Excused
    <3>5. CASE ReadReg(t) /\ ~SettingFailed(t)
      BY <1>2, <2>2, <3>5 DEF ReadReg, Excused
    <3>6. CASE WriteReg(t) /\ ~SettingFailed(t)
      <4>1. Head(todo[t]) = <<"pulldown", FALSE>>
        BY <1>2, <2>2, <3>1, <3>2, PullWrites
      <4>2. p = pin[t] /\ WriteReg(t) /\ ~SettingFailed(t)
        BY <1>2, <2>2, <3>6
      <4> QED BY <4>1, <4>2
    <3>7. CASE Refuse(t)
      BY <3>2, <3>7 DEF Refuse
    <3> QED BY <3>3, <3>4, <3>5, <3>6, <3>7
  <2> QED BY <2>1, <2>2
<1> QED BY <1>1, <1>2 DEF Excused

LEMMA StepExclusive ==
    ASSUME SerialInv, AllDoing, PullsExclusive, NEW t \in Tools, Step(t), NEW p \in AllPins,
           Bit("pullup", p)', Bit("pulldown", p)'
    PROVE  Excused(p)'
<1>1. Bit("pullup", p) /\ Bit("pulldown", p) => Excused(p)
  BY DEF PullsExclusive, Excused
<1>2. CASE reg' = reg /\ ~(WriteReg(t) /\ ~SettingFailed(t))
  <2>1. Bit("pullup", p) /\ Bit("pulldown", p)
    BY <1>2 DEF Bit, Index, Bank
  <2> QED BY <1>1, <1>2, <2>1, ExcuseStays
<1>3. CASE WriteReg(t) /\ ~SettingFailed(t)
  <2> DEFINE s == Head(todo[t])
  <2>1. ASSUME NEW r \in {"pullup", "pulldown"}, Bit(r, p)'
        PROVE  IF r = s[1] /\ p = pin[t] THEN s[2] ELSE Bit(r, p)
    <3>1. r \in Regs /\ (Index(p) \in reg'[r][Bank(p)])
      BY <2>1 DEF Regs, Bit, Index, Bank
    <3> QED BY <1>3, <3>1, BitAfterWrite
  <2>2. /\ IF "pullup" = s[1] /\ p = pin[t] THEN s[2] ELSE Bit("pullup", p)
        /\ IF "pulldown" = s[1] /\ p = pin[t] THEN s[2] ELSE Bit("pulldown", p)
    BY <2>1
  <2>3. CASE p # pin[t]
    BY <1>1, <1>3, <2>2, <2>3, ExcuseStays
  <2>4. CASE p = pin[t]
    <3>1. pc[t] = "write" /\ Doing(t)
      BY <1>3 DEF WriteReg, AllDoing
    <3>2. s \in Settings
      BY <3>1, TodoParts DEF SerialInv, TypeOK
    <3>a. s = <<s[1], s[2]>> /\ s[2] \in BOOLEAN
      BY <3>2 DEF Settings
    <3>b. s[1] \in {"pullup", "pulldown"} => s[2]
      BY <2>2, <2>4
    <3>3. s \notin {<<"pullup", FALSE>>, <<"pulldown", FALSE>>}
      <4> HIDE DEF s
      <4>1. /\ <<"pullup", FALSE>>[1] = "pullup" /\ ~<<"pullup", FALSE>>[2]
            /\ <<"pulldown", FALSE>>[1] = "pulldown" /\ ~<<"pulldown", FALSE>>[2]
        OBVIOUS
      <4> QED BY <3>b, <4>1
    <3>c. \/ s = <<"pullup", TRUE>> \/ s = <<"pulldown", TRUE>>
          \/ s[1] \notin {"pullup", "pulldown"}
      BY <3>a, <3>b
    <3>4. CASE s = <<"pullup", TRUE>>
      <4>1. asked[t] = "up" /\ Len(todo[t]) = 2 /\ todo[t] \in Todos
        BY <3>1, <3>4, PullWrites DEF SerialInv, TypeOK
      <4>2. Len(Tail(todo[t])) = 1
        BY <4>1 DEF Todos
      <4>3. pin'[t] = p /\ asked'[t] = "up" /\ todo'[t] = Tail(todo[t])
        BY <1>3, <2>4, <4>1 DEF WriteReg, SerialInv, TypeOK
      <4> QED BY <4>2, <4>3 DEF Excused
    <3>5. CASE s = <<"pulldown", TRUE>>
      <4>1. ~Bit("pullup", pin[t])
        BY <3>1, <3>5, PullWrites
      <4>2. s[1] # "pullup"
        BY <3>5
      <4> QED BY <2>2, <2>4, <4>1, <4>2
    <3>6. CASE s[1] \notin {"pullup", "pulldown"}
      BY <1>1, <2>2, <3>3, <3>6, ExcuseStays
    <3> QED BY <3>c, <3>4, <3>5, <3>6
  <2> QED BY <2>3, <2>4
<1> QED BY <1>2, <1>3, RegSteps

LEMMA NextExclusive ==
    ASSUME SerialInv, AllDoing, PullsExclusive, [Next]_vars
    PROVE  PullsExclusive'
<1>1. CASE UNCHANGED vars
  BY <1>1 DEF vars, tool, PullsExclusive, Bit, Index, Bank
<1>2. ASSUME NEW t \in Tools, Step(t) PROVE PullsExclusive'
  BY <1>2, StepExclusive DEF PullsExclusive, Excused
<1> QED BY <1>1, <1>2 DEF Next

\* With one tool at a time for a bank, SetPullUpDown never leaves the pull-up and
\* the pull-down of a pin on together but where an "up" is half way or has failed
\* half way, whatever options the tools are given and whatever transfers fail.
THEOREM PullsApart ==
    ASSUME ~Crowded
    PROVE  Spec => []PullsExclusive
<1>1. Init => PullsExclusive
  <2>1. \A p \in AllPins : Init => ~Bit("pullup", p)
    BY PinParts DEF Init, PowerOn, Bit, Regs
  <2> QED BY <2>1 DEF PullsExclusive
<1>2. SerialInv /\ AllDoing /\ PullsExclusive /\ [Next]_vars
        => SerialInv' /\ AllDoing' /\ PullsExclusive'
  BY NextSerialInv, NextAllDoing, NextExclusive
<1> QED BY InitSerialInv, <1>1, <1>2, PTL DEF Spec
=============================================================================
