------------------------- MODULE AudioCodec_proofs --------------------------
(***************************************************************************)
(* Proofs about AudioCodec, for any volumes, rates, widths and switches.    *)
(***************************************************************************)
EXTENDS AudioCodec, TLAPS

(***************************************************************************)
(* Data                                                                     *)
(***************************************************************************)

LEMMA WantsType ==
    \A switches, streams : Wants(switches, streams) \subseteq {"VMID", "DAC"}
  BY DEF Wants

LEMMA BitsType ==
    /\ \A r \in DOMAIN RateBits : RateBits[r] \in SUBSET (0..3)
    /\ \A w \in DOMAIN WidthBits : WidthBits[w] \in SUBSET {2, 3}
    /\ \A w : CompandingBits(w) \in SUBSET {1, 3}
    /\ NoRate \notin DOMAIN RateBits
<1>1. \A r \in DOMAIN RateBits : RateBits[r] \in SUBSET (0..3)
  BY DEF RateBits
<1>2. \A w \in DOMAIN WidthBits : WidthBits[w] \in SUBSET {2, 3}
  BY DEF WidthBits
<1>3. \A w : CompandingBits(w) \in SUBSET {1, 3}
  BY DEF CompandingBits
<1>4. NoRate \notin DOMAIN RateBits
  BY DEF RateBits, NoRate
<1> QED BY <1>1, <1>2, <1>3, <1>4

\* A write of the work leaves registers, and leaves the interface alone; the muting
\* ones leave the power alone, too.
LEMMA MuteSeqEffect ==
    ASSUME TypeOK, NEW n \in 1..4
    PROVE  /\ MuteSeq[n] \in Registers
           /\ MuteSeq[n].iface = reg.iface /\ MuteSeq[n].rate = reg.rate
           /\ MuteSeq[n].op = reg.op /\ MuteSeq[n].vdd = reg.vdd /\ MuteSeq[n].vmid = reg.vmid
<1> DEFINE P(m) == /\ MuteSeq[m] \in Registers
                   /\ MuteSeq[m].iface = reg.iface /\ MuteSeq[m].rate = reg.rate
                   /\ MuteSeq[m].op = reg.op /\ MuteSeq[m].vdd = reg.vdd
                   /\ MuteSeq[m].vmid = reg.vmid
<1>1. 0 \in Volumes /\ kept \in Volumes
  BY ParametersAssumption DEF ParametersAssumption, TypeOK
<1>2. /\ [reg EXCEPT !.dacMute = TRUE, !.dacVol = 0] \in Registers
      /\ [reg EXCEPT !.adcMute = TRUE] \in Registers
      /\ [reg EXCEPT !.inMute = TRUE, !.inVol = kept] \in Registers
      /\ [reg EXCEPT !.pgaMute = TRUE, !.spkVol = 0] \in Registers
  BY <1>1, Zenon DEF TypeOK, Registers, Selections
<1>3. /\ MuteSeq[1] = [reg EXCEPT !.dacMute = TRUE, !.dacVol = 0]
      /\ MuteSeq[2] = [reg EXCEPT !.adcMute = TRUE]
      /\ MuteSeq[3] = [reg EXCEPT !.inMute = TRUE, !.inVol = kept]
      /\ MuteSeq[4] = [reg EXCEPT !.pgaMute = TRUE, !.spkVol = 0]
  BY DEF MuteSeq
<1>4. P(1) /\ P(2) /\ P(3) /\ P(4)
  <2>1. P(1)
    BY <1>2, <1>3 DEF TypeOK, Registers
  <2>2. P(2)
    BY <1>2, <1>3 DEF TypeOK, Registers
  <2>3. P(3)
    BY <1>2, <1>3 DEF TypeOK, Registers
  <2>4. P(4)
    BY <1>2, <1>3 DEF TypeOK, Registers
  <2> QED
    BY <2>1, <2>2, <2>3, <2>4
<1>5. n \in {1, 2, 3, 4}
  OBVIOUS
<1> QED
  BY <1>4, <1>5

LEMMA OffSeqEffect ==
    ASSUME TypeOK, NEW n \in 1..7
    PROVE  /\ OffSeq[n] \in Registers
           /\ OffSeq[n].iface = reg.iface /\ OffSeq[n].rate = reg.rate
<1> DEFINE P(m) == /\ OffSeq[m] \in Registers
                   /\ OffSeq[m].iface = reg.iface /\ OffSeq[m].rate = reg.rate
<1>1. /\ [reg EXCEPT !.sel = "2x5K"] \in Registers
      /\ [reg EXCEPT !.fast = TRUE] \in Registers
      /\ [reg EXCEPT !.vmid = FALSE] \in Registers
      /\ [reg EXCEPT !.opMute = TRUE] \in Registers
      /\ [reg EXCEPT !.lineMute = TRUE] \in Registers
      /\ [reg EXCEPT !.vdd = FALSE] \in Registers
      /\ [reg EXCEPT !.op = FALSE] \in Registers
  BY Zenon DEF TypeOK, Registers, Selections
<1>2. /\ OffSeq[1] = [reg EXCEPT !.sel = "2x5K"]
      /\ OffSeq[2] = [reg EXCEPT !.fast = TRUE]
      /\ OffSeq[3] = [reg EXCEPT !.vmid = FALSE]
      /\ OffSeq[4] = [reg EXCEPT !.opMute = TRUE]
      /\ OffSeq[5] = [reg EXCEPT !.lineMute = TRUE]
      /\ OffSeq[6] = [reg EXCEPT !.vdd = FALSE]
      /\ OffSeq[7] = [reg EXCEPT !.op = FALSE]
  BY DEF OffSeq
<1>3. P(1) /\ P(2) /\ P(3)
  BY <1>1, <1>2 DEF TypeOK, Registers
<1>4. P(4) /\ P(5) /\ P(6) /\ P(7)
  BY <1>1, <1>2 DEF TypeOK, Registers
<1>5. n \in {1, 2, 3, 4, 5, 6, 7}
  OBVIOUS
<1> QED
  BY <1>3, <1>4, <1>5

\* Every step keeps the types.
LEMMA TypeStep ==
    ASSUME TypeOK, [Next]_vars
    PROVE  TypeOK'
<1> USE DEF chip, pcm, power, wq, history
<1>1. CASE PowerDown
  BY <1>1 DEF PowerDown, VmidDereference, Goto, TypeOK, Streams
<1>2. CASE VmidPrepare
  <2>1. Prepared \in Registers
    BY Zenon DEF Prepared, TypeOK, Registers, Selections
  <2>2. reg' \in Registers
    BY <1>2, <2>1 DEF VmidPrepare, TypeOK
  <2>3. dapm' \in [at : {"idle", "down", "prepare", "vmid", "reference", "settle", "dac", "unmute"},
                   goal : SUBSET {"VMID", "DAC"}]
    BY <1>2 DEF VmidPrepare, Goto, TypeOK
  <2>4. cut' \in BOOLEAN
    BY <1>2, Zenon DEF VmidPrepare, TypeOK
  <2> QED
    BY <1>2, <2>2, <2>3, <2>4 DEF VmidPrepare, TypeOK, Streams
<1>3. CASE VmidEnable
  <2>1. reg' \in Registers
    BY <1>3, Zenon DEF VmidEnable, Goto, TypeOK, Registers, Selections
  <2> QED
    BY <1>3, <2>1 DEF VmidEnable, Goto, TypeOK, Streams
<1>4. CASE VmidReference
  BY <1>4 DEF VmidReference, Goto, TypeOK, Streams
<1>5. CASE VmidSettle
  <2>1. reg' \in Registers
    BY <1>5, Zenon DEF VmidSettle, Goto, TypeOK, Registers, Selections
  <2> QED
    BY <1>5, <2>1 DEF VmidSettle, Goto, TypeOK, Streams
<1>6. CASE Unmute
  <2>a. /\ reg.dacVol \in Volumes /\ reg.spkVol \in Volumes /\ reg.inVol \in Volumes
        /\ saved.dac \in Volumes /\ saved.spk \in Volumes /\ held \in Volumes /\ 0 \in Volumes
    BY ParametersAssumption DEF ParametersAssumption, TypeOK, Registers
  <2>1. [reg EXCEPT !.dacMute = TRUE, !.dacVol = 0, !.pgaMute = FALSE,
                    !.spkVol = 0, !.opMute = FALSE] \in Registers
    BY <2>a, Zenon DEF TypeOK, Registers, Selections
  <2>2. reg' \in Registers
    BY <1>6, <2>1 DEF Unmute, TypeOK
  <2>3. dapm' \in [at : {"idle", "down", "prepare", "vmid", "reference", "settle", "dac", "unmute"},
                   goal : SUBSET {"VMID", "DAC"}]
    BY <1>6 DEF Unmute, Goto, TypeOK
  <2>4. saved' \in [known : BOOLEAN, dac : Volumes, spk : Volumes]
    <3>1. [known |-> TRUE, dac |-> reg.dacVol, spk |-> reg.spkVol]
            \in [known : BOOLEAN, dac : Volumes, spk : Volumes]
      BY <2>a
    <3> QED
      BY <1>6, <3>1, Zenon DEF Unmute, TypeOK
  <2>6. held' \in Volumes
    BY <1>6, <2>a, Zenon DEF Unmute, TypeOK
  <2>5. clean' \in BOOLEAN
    BY <1>6, Zenon DEF Unmute, TypeOK
  <2> QED
    BY <1>6, <2>2, <2>3, <2>4, <2>5, <2>6 DEF Unmute, TypeOK, Streams
<1>7. CASE UnmuteRest
  <2>a. /\ reg.dacVol \in Volumes /\ reg.spkVol \in Volumes /\ reg.inVol \in Volumes
        /\ saved.dac \in Volumes /\ saved.spk \in Volumes /\ held \in Volumes /\ 0 \in Volumes
    BY ParametersAssumption DEF ParametersAssumption, TypeOK, Registers
  <2>1. reg' \in Registers
    BY <1>7, <2>a, Zenon DEF UnmuteRest, Goto, TypeOK, Registers, Selections
  <2> QED
    BY <1>7, <2>1, <2>a DEF UnmuteRest, Goto, TypeOK, Streams
<1>8. CASE WorkStart
  <2>1. \A v \in Volumes : [reg EXCEPT !.spkVol = v] \in Registers
    BY Zenon DEF TypeOK, Registers, Selections
  <2>2. reg' \in Registers
    BY <1>8, <2>1 DEF WorkStart
  <2>3. pending' \in BOOLEAN
    BY <1>8, Zenon DEF WorkStart
  <2>4. work' \in 0..11 /\ kept' \in Volumes
    BY <1>8 DEF WorkStart, TypeOK, Registers
  <2> QED
    BY <1>8, <2>2, <2>3, <2>4 DEF WorkStart, TypeOK, Streams
<1>9. CASE WorkMute
  <2>1. reg' \in Registers
    BY <1>9, MuteSeqEffect DEF WorkMute
  <2>2. work' \in 0..11 /\ kept' \in Volumes
    BY <1>9, ParametersAssumption DEF WorkMute, ParametersAssumption, TypeOK
  <2> QED
    BY <1>9, <2>1, <2>2 DEF WorkMute, TypeOK, Streams
<1>29. CASE WorkOff
  <2>1. work - 4 \in 1..7
    BY <1>29 DEF WorkOff
  <2>2. reg' \in Registers
    BY <1>29, <2>1, OffSeqEffect DEF WorkOff
  <2>3. work' \in 0..11 /\ cut' \in BOOLEAN
    BY <1>29 DEF WorkOff
  <2> QED
    BY <1>29, <2>2, <2>3 DEF WorkOff, TypeOK, Streams
<1>10. CASE OpenPlay
  <2>a. IfaceAfterFmt(reg.iface) \in SUBSET (0..5)
    BY DEF TypeOK, Registers, IfaceAfterFmt, FormatBits
  <2>1. reg' \in Registers
    BY <1>10, <2>a, Zenon DEF OpenPlay, Startup, TypeOK, Registers, Selections
  <2> QED
    BY <1>10, <2>1 DEF OpenPlay, Startup, TypeOK, Streams
<1>11. CASE OpenCapt
  <2>a. IfaceAfterFmt(reg.iface) \in SUBSET (0..5)
    BY DEF TypeOK, Registers, IfaceAfterFmt, FormatBits
  <2>1. reg' \in Registers
    BY <1>11, <2>a, Zenon DEF OpenCapt, Startup, TypeOK, Registers, Selections
  <2> QED
    BY <1>11, <2>1 DEF OpenCapt, Startup, TypeOK, Streams
<1>12. ASSUME NEW r \in Rates, NEW w \in Widths, SetupPlay(r, w) PROVE TypeOK'
  <2>a. RateKept(reg.rate) \cup RateBits[r] \in SUBSET (0..3)
    BY ParametersAssumption, BitsType DEF ParametersAssumption, RateKept
  <2>b. IfaceAfterParams(reg.iface, w) \in SUBSET (0..5)
    BY ParametersAssumption, BitsType DEF ParametersAssumption, TypeOK, Registers,
       IfaceAfterParams
  <2>c. CompandingAfter(reg.companding, w) \in SUBSET (0..5)
    BY BitsType DEF TypeOK, Registers, CompandingAfter
  <2>1. reg' \in Registers
    BY <1>12, <2>a, <2>b, <2>c, Zenon DEF SetupPlay, HwParams, Op, TypeOK, Registers,
       Selections
  <2> QED
    BY <1>12, <2>1, BoundsAssumption, ParametersAssumption DEF SetupPlay, HwParams, Op,
       TypeOK, Streams, BoundsAssumption, ParametersAssumption
<1>13. ASSUME NEW r \in Rates, NEW w \in Widths, SetupCapt(r, w) PROVE TypeOK'
  <2>a. RateKept(reg.rate) \cup RateBits[r] \in SUBSET (0..3)
    BY ParametersAssumption, BitsType DEF ParametersAssumption, RateKept
  <2>b. IfaceAfterParams(reg.iface, w) \in SUBSET (0..5)
    BY ParametersAssumption, BitsType DEF ParametersAssumption, TypeOK, Registers,
       IfaceAfterParams
  <2>c. CompandingAfter(reg.companding, w) \in SUBSET (0..5)
    BY BitsType DEF TypeOK, Registers, CompandingAfter
  <2>1. reg' \in Registers
    BY <1>13, <2>a, <2>b, <2>c, Zenon DEF SetupCapt, HwParams, Op, TypeOK, Registers,
       Selections
  <2> QED
    BY <1>13, <2>1, BoundsAssumption, ParametersAssumption DEF SetupCapt, HwParams, Op,
       TypeOK, Streams, BoundsAssumption, ParametersAssumption
<1>14. CASE PreparePlay
  BY <1>14, WantsType DEF PreparePlay, Repower, TypeOK, Streams
<1>15. CASE PlayReady
  <2>1. reg' \in Registers
    BY <1>15, Zenon DEF PlayReady, Unmuted, TypeOK, Registers, Selections
  <2> QED
    BY <1>15, <2>1 DEF PlayReady, Unmuted, TypeOK, Streams
<1>16. CASE PrepareCapt
  BY <1>16, WantsType DEF PrepareCapt, Repower, TypeOK, Streams
<1>17. CASE CaptReady
  BY <1>17 DEF CaptReady, TypeOK, Streams
<1>18. CASE Start
  BY <1>18 DEF Start, TypeOK, Streams
<1>19. ASSUME NEW p \in {"stopped", "paused"}, Stop(p) PROVE TypeOK'
  BY <1>19 DEF Stop, TypeOK, Streams
<1>20. CASE ClosePlay
  <2>1. reg' \in Registers
    BY <1>20, Zenon DEF ClosePlay, Repower, Muted, TypeOK, Registers, Selections
  <2> QED
    BY <1>20, <2>1, WantsType DEF ClosePlay, Repower, Muted, TypeOK, Streams
<1>21. CASE CloseCapt
  BY <1>21, WantsType DEF CloseCapt, Repower, TypeOK, Streams
<1>22. ASSUME NEW s \in Toggled, Toggle(s) PROVE TypeOK'
  <2>1. on' \subseteq Switches
    BY <1>22, ParametersAssumption DEF Toggle, TypeOK, ParametersAssumption
  <2>2. ops' \in 0..MaxOps
    BY <1>22, BoundsAssumption DEF Toggle, Op, BoundsAssumption, TypeOK
  <2>3. dapm' \in [at : {"idle", "down", "prepare", "vmid", "reference", "settle", "dac", "unmute"},
                   goal : SUBSET {"VMID", "DAC"}]
    BY <1>22, WantsType DEF Toggle, Repower
  <2> QED
    BY <1>22, <2>1, <2>2, <2>3 DEF Toggle, TypeOK, Streams
<1>23. CASE Control
  <2>1. \A v \in Volumes : /\ [reg EXCEPT !.dacVol = v] \in Registers
                           /\ [reg EXCEPT !.spkVol = v] \in Registers
                           /\ [reg EXCEPT !.inVol = v] \in Registers
    BY Zenon DEF TypeOK, Registers, Selections
  <2>2. /\ [reg EXCEPT !.adcMute = FALSE] \in Registers
        /\ [reg EXCEPT !.inMute = FALSE] \in Registers
    BY Zenon DEF TypeOK, Registers, Selections
  <2>3. /\ \A bits \in SUBSET {0} : (reg.rate \ {0}) \cup bits \in SUBSET (0..3)
        /\ \A field \in {{0, 1}, {2, 3}} : \A bits \in SUBSET field :
             (reg.iface \ field) \cup bits \in SUBSET (0..5)
        /\ \A field \in {{1, 2}, {3, 4}} : \A bits \in SUBSET field :
             (reg.companding \ field) \cup bits \in SUBSET (0..5)
    <3>1. reg.rate \subseteq 0..3 /\ reg.iface \subseteq 0..5 /\ reg.companding \subseteq 0..5
      BY DEF TypeOK, Registers
    <3>0. SUBSET {0} \subseteq SUBSET (0..3)
      OBVIOUS
    <3>2. \A bits \in SUBSET {0} : (reg.rate \ {0}) \cup bits \in SUBSET (0..3)
      BY <3>0, <3>1
    <3>3. \A bits \in SUBSET (0..5) : \A field :
            /\ (reg.iface \ field) \cup bits \in SUBSET (0..5)
            /\ (reg.companding \ field) \cup bits \in SUBSET (0..5)
      BY <3>1
    <3>4. \A field \in {{0, 1}, {2, 3}, {1, 2}, {3, 4}} : SUBSET field \subseteq SUBSET (0..5)
      OBVIOUS
    <3> QED
      BY <3>2, <3>3, <3>4, Zenon
  <2>4. /\ \A b \in SUBSET (0..3) : [reg EXCEPT !.rate = b] \in Registers
        /\ \A b \in SUBSET (0..5) : [reg EXCEPT !.iface = b] \in Registers
        /\ \A b \in SUBSET (0..5) : [reg EXCEPT !.companding = b] \in Registers
    BY Zenon DEF TypeOK, Registers, Selections
  <2>a. /\ \A bits \in SUBSET {0} : [reg EXCEPT !.rate = (@ \ {0}) \cup bits] \in Registers
        /\ \A field \in {{0, 1}, {2, 3}} : \A bits \in SUBSET field :
             [reg EXCEPT !.iface = (@ \ field) \cup bits] \in Registers
        /\ \A field \in {{1, 2}, {3, 4}} : \A bits \in SUBSET field :
             [reg EXCEPT !.companding = (@ \ field) \cup bits] \in Registers
    BY <2>3, <2>4
  <2>5. reg' \in Registers
    <3>1. CASE \E v \in Volumes, f \in {"dacVol", "spkVol", "inVol"} : reg' = [reg EXCEPT ![f] = v]
      BY <2>1, <3>1
    <3>2. CASE \E f \in {"adcMute", "inMute"} : reg' = [reg EXCEPT ![f] = FALSE]
      BY <2>2, <3>2
    <3>3. CASE \E bits \in SUBSET {0} : reg' = [reg EXCEPT !.rate = (@ \ {0}) \cup bits]
      BY <2>a, <3>3, Zenon
    <3>4. CASE \E field \in {{0, 1}, {2, 3}} : \E bits \in SUBSET field :
                 reg' = [reg EXCEPT !.iface = (@ \ field) \cup bits]
      BY <2>a, <3>4, Zenon
    <3>5. CASE \E field \in {{1, 2}, {3, 4}} : \E bits \in SUBSET field :
                 reg' = [reg EXCEPT !.companding = (@ \ field) \cup bits]
      BY <2>a, <3>5, Zenon
    <3> QED
      BY <1>23, <3>1, <3>2, <3>3, <3>4, <3>5, Zenon DEF Control
  <2>6. ops' \in 0..MaxOps
    BY <1>23, BoundsAssumption DEF Control, Op, BoundsAssumption, TypeOK
  <2> QED
    BY <1>23, <2>5, <2>6 DEF Control, TypeOK, Streams
<1>24. CASE Suspend
  <2>1. Muted \in Registers
    BY Zenon DEF Muted, TypeOK, Registers, Selections
  <2>2. reg' \in Registers
    BY <1>24, <2>1 DEF Suspend, TypeOK
  <2>3. clean' \in BOOLEAN /\ pending' \in BOOLEAN
    BY <1>24, Zenon DEF Suspend, TypeOK
  <2>4. play' \in {"closed", "opened", "setup", "starting", "prepared", "running", "paused",
                   "stopped"}
    BY <1>24 DEF Suspend, TypeOK
  <2>5. ops' \in 0..MaxOps
    BY <1>24, BoundsAssumption DEF Suspend, Op, BoundsAssumption, TypeOK
  <2> QED
    BY <1>24, <2>2, <2>3, <2>4, <2>5 DEF Suspend, TypeOK, Streams
<1>25. CASE CodecSuspend
  <2>1. reg' \in Registers
    BY <1>25, Zenon DEF CodecSuspend, TypeOK, Registers, Selections
  <2> QED
    BY <1>25, <2>1 DEF CodecSuspend, TypeOK, Streams
<1>26. CASE Resume
  <2>1. reg' \in Registers
    BY <1>26, Zenon DEF Resume, TypeOK, Registers, Selections
  <2> QED
    BY <1>26, <2>1, WantsType DEF Resume, TypeOK, Streams
<1>27. CASE Resumed
  <2>1. reg' \in Registers
    BY <1>27, Zenon DEF Resumed, Unmuted, TypeOK, Registers, Selections
  <2> QED
    BY <1>27, <2>1 DEF Resumed, Unmuted, TypeOK, Streams
<1>28. CASE UNCHANGED vars
  BY <1>28 DEF TypeOK, Streams, vars
<1> QED
  BY <1>1, <1>2, <1>3, <1>4, <1>5, <1>6, <1>7, <1>8, <1>9, <1>10, <1>11, <1>12, <1>13,
     <1>14, <1>15, <1>16, <1>17, <1>18, <1>19, <1>20, <1>21, <1>22, <1>23, <1>24, <1>25,
     <1>26, <1>27, <1>28, <1>29 DEF Next, DapmRun, Work, Pcm

LEMMA InitType == Init => TypeOK
<1> SUFFICES ASSUME Init PROVE TypeOK
  OBVIOUS
<1>1. 0 \in Volumes /\ Preset \subseteq Switches
  BY ParametersAssumption DEF ParametersAssumption
<1>2. PICK muted \in BOOLEAN, v \in Volumes :
        reg = [op |-> FALSE, vdd |-> FALSE, vmid |-> FALSE, bias |-> FALSE, fast |-> FALSE,
               opMute |-> muted, pgaMute |-> muted, dacMute |-> muted, adcMute |-> muted,
               inMute |-> muted, lineMute |-> FALSE, sel |-> "2x250K",
               dacVol |-> v, spkVol |-> v, inVol |-> v,
               rate |-> {}, iface |-> {}, companding |-> {}]
  BY DEF Init
<1>3. {} \in SUBSET (0..3) /\ {} \in SUBSET (0..5)
  OBVIOUS
<1>4. reg \in Registers
  BY <1>2, <1>3, Zenon DEF Registers, Selections
<1>5. width \in DOMAIN WidthBits
  BY DEF Init, WidthBits
<1>6. rate \in [Streams -> DOMAIN RateBits \cup {NoRate}]
  BY Zenon DEF Init
<1>7. ops \in 0..MaxOps
  BY BoundsAssumption DEF Init, BoundsAssumption
<1>8. /\ saved \in [known : BOOLEAN, dac : Volumes, spk : Volumes]
      /\ held \in Volumes
  BY <1>1 DEF Init, Unknown
<1>9. dapm \in [at : {"idle", "down", "prepare", "vmid", "reference", "settle", "dac", "unmute"},
                goal : SUBSET {"VMID", "DAC"}]
  BY DEF Init
<1>10. pending \in BOOLEAN /\ cut \in BOOLEAN /\ clean \in BOOLEAN
  BY Zenon DEF Init
<1>11. work \in 0..11 /\ kept \in Volumes
  BY <1>1 DEF Init
<1> QED
  BY <1>1, <1>4, <1>5, <1>6, <1>7, <1>8, <1>9, <1>10, <1>11 DEF Init, TypeOK

\* The driver's state always has its types: no mask of a register function ever
\* reaches a bit outside of the register, no volume written back is one that no
\* control could have set.
THEOREM TypeCorrect == Spec => []TypeOK
<1>1. Init => TypeOK
  BY InitType
<1>2. TypeOK /\ [Next]_vars => TypeOK'
  BY TypeStep
<1> QED
  BY <1>1, <1>2, PTL DEF Spec

(***************************************************************************)
(* References to VMID                                                       *)
(***************************************************************************)

\* VMID is not powered before the step that powers it is over, and no DAPM run
\* is left half done when the system sleeps.
RefsInv ==
    /\ RefsMatch
    /\ sleep = "yes" => dapm.at = "idle"
    /\ dapm.at \in {"vmid", "reference", "settle"} => "VMID" \notin lit

\* Every step keeps them matched.
LEMMA RefsStep ==
    ASSUME TypeOK, RefsInv, [Next]_vars
    PROVE  RefsInv'
<1> USE DEF chip, pcm, power, wq, history
<1>1. CASE PowerDown
  BY <1>1 DEF PowerDown, VmidDereference, Goto, RefsInv, RefsMatch, TypeOK
<1>2. CASE VmidPrepare
  BY <1>2 DEF VmidPrepare, Goto, Prepared, RefsInv, RefsMatch, TypeOK
<1>3. CASE VmidEnable
  BY <1>3 DEF VmidEnable, Goto, RefsInv, RefsMatch, TypeOK
<1>4. CASE VmidReference
  BY <1>4 DEF VmidReference, Goto, RefsInv, RefsMatch, TypeOK
<1>5. CASE VmidSettle
  BY <1>5 DEF VmidSettle, Goto, RefsInv, RefsMatch, TypeOK
<1>6. CASE Unmute
  BY <1>6 DEF Unmute, Goto, RefsInv, RefsMatch, TypeOK
<1>7. CASE UnmuteRest
  BY <1>7 DEF UnmuteRest, Goto, RefsInv, RefsMatch, TypeOK
<1>8. CASE WorkStart
  BY <1>8 DEF WorkStart, RefsInv, RefsMatch, TypeOK
<1>9. CASE WorkMute
  BY <1>9, MuteSeqEffect DEF WorkMute, RefsInv, RefsMatch, TypeOK
<1>29. CASE WorkOff
  BY <1>29, OffSeqEffect DEF WorkOff, RefsInv, RefsMatch, TypeOK
<1>10. CASE OpenPlay
  BY <1>10 DEF OpenPlay, Startup, RefsInv, RefsMatch, TypeOK
<1>11. CASE OpenCapt
  BY <1>11 DEF OpenCapt, Startup, RefsInv, RefsMatch, TypeOK
<1>12. ASSUME NEW r \in Rates, NEW w \in Widths, SetupPlay(r, w) PROVE RefsInv'
  BY <1>12 DEF SetupPlay, HwParams, Op, RefsInv, RefsMatch, TypeOK
<1>13. ASSUME NEW r \in Rates, NEW w \in Widths, SetupCapt(r, w) PROVE RefsInv'
  BY <1>13 DEF SetupCapt, HwParams, Op, RefsInv, RefsMatch, TypeOK
<1>14. CASE PreparePlay
  BY <1>14 DEF PreparePlay, Repower, RefsInv, RefsMatch, TypeOK, Awake
<1>15. CASE PlayReady
  BY <1>15 DEF PlayReady, Unmuted, RefsInv, RefsMatch, TypeOK
<1>16. CASE PrepareCapt
  BY <1>16 DEF PrepareCapt, Repower, RefsInv, RefsMatch, TypeOK, Awake
<1>17. CASE CaptReady
  BY <1>17 DEF CaptReady, RefsInv, RefsMatch, TypeOK
<1>18. CASE Start
  BY <1>18 DEF Start, RefsInv, RefsMatch, TypeOK
<1>19. ASSUME NEW p \in {"stopped", "paused"}, Stop(p) PROVE RefsInv'
  BY <1>19 DEF Stop, RefsInv, RefsMatch, TypeOK
<1>20. CASE ClosePlay
  BY <1>20 DEF ClosePlay, Repower, Muted, RefsInv, RefsMatch, TypeOK, Awake
<1>21. CASE CloseCapt
  BY <1>21 DEF CloseCapt, Repower, RefsInv, RefsMatch, TypeOK, Awake
<1>22. ASSUME NEW s \in Toggled, Toggle(s) PROVE RefsInv'
  BY <1>22 DEF Toggle, Repower, Op, RefsInv, RefsMatch, TypeOK, Awake
<1>23. CASE Control
  BY <1>23 DEF Control, Op, RefsInv, RefsMatch, TypeOK
<1>24. CASE Suspend
  BY <1>24 DEF Suspend, Op, Muted, RefsInv, RefsMatch, TypeOK
<1>25. CASE CodecSuspend
  BY <1>25 DEF CodecSuspend, RefsInv, RefsMatch, TypeOK
<1>26. CASE Resume
  BY <1>26 DEF Resume, RefsInv, RefsMatch, TypeOK
<1>27. CASE Resumed
  BY <1>27 DEF Resumed, Unmuted, RefsInv, RefsMatch, TypeOK
<1>28. CASE UNCHANGED vars
  BY <1>28 DEF RefsInv, RefsMatch, TypeOK, vars
<1> QED
  BY <1>1, <1>2, <1>3, <1>4, <1>5, <1>6, <1>7, <1>8, <1>9, <1>10, <1>11, <1>12, <1>13,
     <1>14, <1>15, <1>16, <1>17, <1>18, <1>19, <1>20, <1>21, <1>22, <1>23, <1>24, <1>25,
     <1>26, <1>27, <1>28, <1>29 DEF Next, DapmRun, Work, Pcm

LEMMA RefsInit == Init => RefsInv
  BY DEF Init, RefsInv, RefsMatch

\* The counts of vmid_reference and vmid_dereference agree with what DAPM has
\* powered, whatever switches are operated and in whatever order the streams come
\* and go: VMID is prepared again whenever it was powered down.
THEOREM ReferencesMatch == Spec => []RefsMatch
<1>1. Init => TypeOK /\ RefsInv
  BY InitType, RefsInit
<1>2. TypeOK /\ RefsInv /\ [Next]_vars => TypeOK' /\ RefsInv'
  BY TypeStep, RefsStep
<1>3. RefsInv => RefsMatch
  BY DEF RefsInv
<1> QED
  BY <1>1, <1>2, <1>3, PTL DEF Spec

(***************************************************************************)
(* Sound                                                                    *)
(***************************************************************************)

\* What the work has not switched off has power, and VMID from the moment it is
\* enabled.  In the middle of wm8944_unmute the outputs are open already, unless
\* the work is at them.
HeardInv ==
    /\ clean => /\ ~pending /\ work = 0 /\ ~cut
                /\ reg.vmid /\ ~reg.opMute /\ ~reg.pgaMute /\ ~reg.dacMute
    /\ ~cut => reg.op /\ reg.vdd /\ (reg.vmid \/ dapm.at = "vmid")
    /\ dapm.at = "unmute" /\ work = 0 /\ ~cut => ~reg.opMute /\ ~reg.pgaMute

\* Every step keeps that.
LEMMA HeardStep ==
    ASSUME TypeOK, RefsInv, HeardInv, [Next]_vars
    PROVE  HeardInv'
<1> USE DEF chip, pcm, power, wq, history
<1>1. CASE PowerDown
  BY <1>1 DEF PowerDown, VmidDereference, Goto, HeardInv, TypeOK, Registers
<1>2. CASE VmidPrepare
  <2>1. /\ Prepared.op /\ Prepared.vdd /\ Prepared.vmid = reg.vmid
        /\ Prepared.opMute = reg.opMute /\ Prepared.pgaMute = reg.pgaMute
        /\ Prepared.dacMute = reg.dacMute
    BY DEF Prepared, TypeOK, Registers
  <2>2. CASE reg' = reg /\ cut' = cut
    BY <1>2, <2>2 DEF VmidPrepare, Goto, HeardInv, TypeOK
  <2>3. CASE reg' = Prepared /\ cut' = FALSE /\ dapm'.at = "vmid"
    BY <1>2, <2>1, <2>3 DEF VmidPrepare, HeardInv
  <2> QED
    BY <1>2, <2>2, <2>3 DEF VmidPrepare, Goto, TypeOK
<1>3. CASE VmidEnable
  BY <1>3 DEF VmidEnable, Goto, HeardInv, TypeOK, Registers
<1>4. CASE VmidReference
  BY <1>4 DEF VmidReference, Goto, HeardInv, TypeOK, Registers
<1>5. CASE VmidSettle
  BY <1>5 DEF VmidSettle, Goto, HeardInv, TypeOK, Registers
<1>6. CASE Unmute
  <2>1. CASE reg' = reg /\ clean' = clean /\ dapm'.at = "idle"
    BY <1>6, <2>1 DEF Unmute, HeardInv, TypeOK
  <2>2. CASE reg' # reg \/ dapm'.at # "idle" \/ clean' # clean
    <3>1. /\ reg'.op = reg.op /\ reg'.vdd = reg.vdd /\ reg'.vmid = reg.vmid
          /\ ~reg'.opMute /\ ~reg'.pgaMute
          /\ clean' = FALSE /\ dapm'.at = "unmute"
      BY <1>6, <2>2 DEF Unmute, Goto, TypeOK, Registers
    <3> QED
      BY <1>6, <3>1 DEF Unmute, HeardInv, TypeOK
  <2> QED
    BY <2>1, <2>2
<1>7. CASE UnmuteRest
  BY <1>7 DEF UnmuteRest, Goto, HeardInv, TypeOK, Registers
<1>8. CASE WorkStart
  BY <1>8 DEF WorkStart, HeardInv, TypeOK, Registers
<1>9. CASE WorkMute
  BY <1>9, MuteSeqEffect DEF WorkMute, HeardInv, TypeOK, Registers
<1>29. CASE WorkOff
  BY <1>29, OffSeqEffect DEF WorkOff, HeardInv, TypeOK, Registers
<1>10. CASE OpenPlay
  BY <1>10 DEF OpenPlay, Startup, HeardInv, TypeOK, Registers
<1>11. CASE OpenCapt
  BY <1>11 DEF OpenCapt, Startup, HeardInv, TypeOK, Registers
<1>12. ASSUME NEW r \in Rates, NEW w \in Widths, SetupPlay(r, w) PROVE HeardInv'
  BY <1>12 DEF SetupPlay, HwParams, Op, HeardInv, TypeOK, Registers
<1>13. ASSUME NEW r \in Rates, NEW w \in Widths, SetupCapt(r, w) PROVE HeardInv'
  BY <1>13 DEF SetupCapt, HwParams, Op, HeardInv, TypeOK, Registers
<1>14. CASE PreparePlay
  BY <1>14 DEF PreparePlay, Repower, HeardInv, TypeOK, Registers
<1>15. CASE PlayReady
  BY <1>15 DEF PlayReady, Unmuted, HeardInv, TypeOK, Registers
<1>16. CASE PrepareCapt
  BY <1>16 DEF PrepareCapt, Repower, HeardInv, TypeOK, Registers
<1>17. CASE CaptReady
  BY <1>17 DEF CaptReady, HeardInv, TypeOK, Registers
<1>18. CASE Start
  BY <1>18 DEF Start, HeardInv, TypeOK, Registers
<1>19. ASSUME NEW p \in {"stopped", "paused"}, Stop(p) PROVE HeardInv'
  BY <1>19 DEF Stop, HeardInv, TypeOK, Registers
<1>20. CASE ClosePlay
  BY <1>20 DEF ClosePlay, Repower, Muted, HeardInv, TypeOK, Registers
<1>21. CASE CloseCapt
  BY <1>21 DEF CloseCapt, Repower, HeardInv, TypeOK, Registers
<1>22. ASSUME NEW s \in Toggled, Toggle(s) PROVE HeardInv'
  BY <1>22 DEF Toggle, Repower, Op, HeardInv, TypeOK, Registers
<1>23. CASE Control
  BY <1>23 DEF Control, Op, HeardInv, TypeOK, Registers
<1>24. CASE Suspend
  <2>1. /\ Muted.op = reg.op /\ Muted.vdd = reg.vdd /\ Muted.vmid = reg.vmid
    BY DEF Muted, TypeOK, Registers
  <2>2. dapm.at = "idle" /\ dapm'.at = "down"
    BY <1>24 DEF Suspend
  <2>3. CASE play # "closed"
    BY <1>24, <2>1, <2>2, <2>3 DEF Suspend, HeardInv
  <2>4. CASE play = "closed"
    BY <1>24, <2>2, <2>4 DEF Suspend, HeardInv
  <2> QED
    BY <2>3, <2>4
<1>25. CASE CodecSuspend
  BY <1>25 DEF CodecSuspend, HeardInv, TypeOK, Registers
<1>26. CASE Resume
  BY <1>26 DEF Resume, HeardInv, TypeOK, Registers, RefsInv
<1>27. CASE Resumed
  BY <1>27 DEF Resumed, Unmuted, HeardInv, TypeOK, Registers
<1>28. CASE UNCHANGED vars
  BY <1>28 DEF HeardInv, TypeOK, Registers, vars
<1> QED
  BY <1>1, <1>2, <1>3, <1>4, <1>5, <1>6, <1>7, <1>8, <1>9, <1>10, <1>11, <1>12, <1>13,
     <1>14, <1>15, <1>16, <1>17, <1>18, <1>19, <1>20, <1>21, <1>22, <1>23, <1>24, <1>25,
     <1>26, <1>27, <1>28, <1>29 DEF Next, DapmRun, Work, Pcm

\* Playback that was powered up undisturbed by the work of an earlier stop stays
\* audible until somebody asks for silence, for all volumes, switches and orders.
THEOREM PlaybackHeard == Spec => []Heard
<1>1. Init => TypeOK /\ RefsInv /\ HeardInv
  BY InitType, RefsInit DEF Init, HeardInv
<1>2. TypeOK /\ RefsInv /\ HeardInv /\ [Next]_vars => TypeOK' /\ RefsInv' /\ HeardInv'
  BY TypeStep, RefsStep, HeardStep
<1>3. HeardInv => Heard
  BY DEF HeardInv, Heard
<1> QED
  BY <1>1, <1>2, <1>3, PTL DEF Spec

(***************************************************************************)
(* The interface                                                            *)
(***************************************************************************)

\* Only an open stream has a rate; the frame format is there as soon as a stream
\* is open, before the first hw_params.
WireInv ==
    /\ play # "closed" \/ capt # "closed" => reg.iface \ {2, 3} = FormatBits
    /\ rate["Playback"] # NoRate => play # "closed"
    /\ rate["Capture"] # NoRate => capt # "closed"
    /\ WireFormat

\* Every step keeps that.
LEMMA WireStep ==
    ASSUME TypeOK, WireInv, ~RawControls, [Next]_vars
    PROVE  WireInv'
<1> USE DEF chip, pcm, power, wq, history
<1>1. CASE PowerDown
  BY <1>1 DEF PowerDown, VmidDereference, Goto, WireInv, WireFormat, TypeOK, Registers
<1>2. CASE VmidPrepare
  BY <1>2 DEF VmidPrepare, Goto, Prepared, WireInv, WireFormat, TypeOK, Registers
<1>3. CASE VmidEnable
  BY <1>3 DEF VmidEnable, Goto, WireInv, WireFormat, TypeOK, Registers
<1>4. CASE VmidReference
  BY <1>4 DEF VmidReference, Goto, WireInv, WireFormat, TypeOK, Registers
<1>5. CASE VmidSettle
  BY <1>5 DEF VmidSettle, Goto, WireInv, WireFormat, TypeOK, Registers
<1>6. CASE Unmute
  BY <1>6 DEF Unmute, Goto, WireInv, WireFormat, TypeOK, Registers
<1>7. CASE UnmuteRest
  BY <1>7 DEF UnmuteRest, Goto, WireInv, WireFormat, TypeOK, Registers
<1>8. CASE WorkStart
  BY <1>8 DEF WorkStart, WireInv, WireFormat, TypeOK, Registers
<1>9. CASE WorkMute
  BY <1>9, MuteSeqEffect DEF WorkMute, WireInv, WireFormat, TypeOK, Registers
<1>29. CASE WorkOff
  BY <1>29, OffSeqEffect DEF WorkOff, WireInv, WireFormat, TypeOK, Registers
<1>10. CASE OpenPlay
  <2>1. reg'.iface = IfaceAfterFmt(reg.iface) /\ reg'.rate = reg.rate
    BY <1>10 DEF OpenPlay, Startup, TypeOK, Registers
  <2>2. reg.iface \in SUBSET (0..5) /\ WidthBits[width] \in SUBSET {2, 3}
    BY BitsType DEF TypeOK, Registers
  <2>3. reg'.iface \ {2, 3} = FormatBits
    BY <2>1, <2>2 DEF IfaceAfterFmt, FormatBits
  <2>4. reg.iface = FormatBits \cup WidthBits[width] => reg'.iface = reg.iface
    BY <2>1, <2>2 DEF IfaceAfterFmt, FormatBits
  <2>5. WireFormat'
    BY <1>10, <2>1, <2>4 DEF OpenPlay, WireInv, WireFormat
  <2> QED
    BY <1>10, <2>3, <2>5 DEF OpenPlay, WireInv
<1>11. CASE OpenCapt
  <2>1. reg'.iface = IfaceAfterFmt(reg.iface) /\ reg'.rate = reg.rate
    BY <1>11 DEF OpenCapt, Startup, TypeOK, Registers
  <2>2. reg.iface \in SUBSET (0..5) /\ WidthBits[width] \in SUBSET {2, 3}
    BY BitsType DEF TypeOK, Registers
  <2>3. reg'.iface \ {2, 3} = FormatBits
    BY <2>1, <2>2 DEF IfaceAfterFmt, FormatBits
  <2>4. reg.iface = FormatBits \cup WidthBits[width] => reg'.iface = reg.iface
    BY <2>1, <2>2 DEF IfaceAfterFmt, FormatBits
  <2>5. WireFormat'
    BY <1>11, <2>1, <2>4 DEF OpenCapt, WireInv, WireFormat
  <2> QED
    BY <1>11, <2>3, <2>5 DEF OpenCapt, WireInv
<1>12. ASSUME NEW r \in Rates, NEW w \in Widths, SetupPlay(r, w) PROVE WireInv'
  <2>1. reg'.rate = RateBits[r] /\ reg'.iface = IfaceAfterParams(reg.iface, w)
    BY <1>12 DEF SetupPlay, HwParams, RateKept, TypeOK, Registers
  <2>2. reg.iface \ {2, 3} = FormatBits
    BY <1>12 DEF SetupPlay, WireInv
  <2>3. reg'.iface = FormatBits \cup WidthBits[w]
    BY <2>1, <2>2 DEF IfaceAfterParams
  <2>4. WidthBits[w] \in SUBSET {2, 3}
    BY <1>12, BitsType, ParametersAssumption DEF ParametersAssumption
  <2>5. reg'.iface \ {2, 3} = FormatBits
    BY <2>3, <2>4 DEF FormatBits
  <2>6. \A t \in Streams : rate'[t] \in {NoRate, r}
    BY <1>12 DEF SetupPlay, HwParams, TypeOK
  <2>7. WireFormat'
    BY <1>12, <2>1, <2>3, <2>6 DEF SetupPlay, HwParams, WireFormat
  <2>8. \A t \in Streams \ {"Playback"} : rate'[t] = rate[t]
    BY <1>12 DEF SetupPlay, HwParams, TypeOK
  <2> QED
    BY <1>12, <2>5, <2>7, <2>8 DEF SetupPlay, WireInv, Streams
<1>13. ASSUME NEW r \in Rates, NEW w \in Widths, SetupCapt(r, w) PROVE WireInv'
  <2>1. reg'.rate = RateBits[r] /\ reg'.iface = IfaceAfterParams(reg.iface, w)
    BY <1>13 DEF SetupCapt, HwParams, RateKept, TypeOK, Registers
  <2>2. reg.iface \ {2, 3} = FormatBits
    BY <1>13 DEF SetupCapt, WireInv
  <2>3. reg'.iface = FormatBits \cup WidthBits[w]
    BY <2>1, <2>2 DEF IfaceAfterParams
  <2>4. WidthBits[w] \in SUBSET {2, 3}
    BY <1>13, BitsType, ParametersAssumption DEF ParametersAssumption
  <2>5. reg'.iface \ {2, 3} = FormatBits
    BY <2>3, <2>4 DEF FormatBits
  <2>6. \A t \in Streams : rate'[t] \in {NoRate, r}
    BY <1>13 DEF SetupCapt, HwParams, TypeOK
  <2>7. WireFormat'
    BY <1>13, <2>1, <2>3, <2>6 DEF SetupCapt, HwParams, WireFormat
  <2>8. \A t \in Streams \ {"Capture"} : rate'[t] = rate[t]
    BY <1>13 DEF SetupCapt, HwParams, TypeOK
  <2> QED
    BY <1>13, <2>5, <2>7, <2>8 DEF SetupCapt, WireInv, Streams
<1>14. CASE PreparePlay
  BY <1>14 DEF PreparePlay, Repower, WireInv, WireFormat, TypeOK, Registers
<1>15. CASE PlayReady
  BY <1>15 DEF PlayReady, Unmuted, WireInv, WireFormat, TypeOK, Registers
<1>16. CASE PrepareCapt
  BY <1>16 DEF PrepareCapt, Repower, WireInv, WireFormat, TypeOK, Registers
<1>17. CASE CaptReady
  BY <1>17 DEF CaptReady, WireInv, WireFormat, TypeOK, Registers
<1>18. CASE Start
  BY <1>18 DEF Start, WireInv, WireFormat, TypeOK, Registers
<1>19. ASSUME NEW p \in {"stopped", "paused"}, Stop(p) PROVE WireInv'
  BY <1>19 DEF Stop, WireInv, WireFormat, TypeOK, Registers
<1>20. CASE ClosePlay
  <2>1. reg'.iface = reg.iface /\ reg'.rate = reg.rate /\ width' = width
    BY <1>20 DEF ClosePlay, Muted, TypeOK, Registers
  <2>2. rate'["Playback"] = NoRate /\ rate'["Capture"] = rate["Capture"]
    BY <1>20 DEF ClosePlay, TypeOK, Streams
  <2>3. WireFormat'
    BY <2>1, <2>2 DEF WireInv, WireFormat, Streams
  <2> QED
    BY <1>20, <2>1, <2>2, <2>3 DEF ClosePlay, WireInv
<1>21. CASE CloseCapt
  <2>1. reg'.iface = reg.iface /\ reg'.rate = reg.rate /\ width' = width
    BY <1>21 DEF CloseCapt, TypeOK, Registers
  <2>2. rate'["Capture"] = NoRate /\ rate'["Playback"] = rate["Playback"]
    BY <1>21 DEF CloseCapt, TypeOK, Streams
  <2>3. WireFormat'
    BY <2>1, <2>2 DEF WireInv, WireFormat, Streams
  <2> QED
    BY <1>21, <2>1, <2>2, <2>3 DEF CloseCapt, WireInv
<1>22. ASSUME NEW s \in Toggled, Toggle(s) PROVE WireInv'
  BY <1>22 DEF Toggle, Repower, Op, WireInv, WireFormat, TypeOK, Registers
<1>23. CASE Control
  BY <1>23 DEF Control, Op, WireInv, WireFormat, TypeOK, Registers
<1>24. CASE Suspend
  BY <1>24 DEF Suspend, Op, Muted, WireInv, WireFormat, TypeOK, Registers
<1>25. CASE CodecSuspend
  BY <1>25 DEF CodecSuspend, WireInv, WireFormat, TypeOK, Registers
<1>26. CASE Resume
  BY <1>26 DEF Resume, WireInv, WireFormat, TypeOK, Registers
<1>27. CASE Resumed
  BY <1>27 DEF Resumed, Unmuted, WireInv, WireFormat, TypeOK, Registers
<1>28. CASE UNCHANGED vars
  BY <1>28 DEF WireInv, WireFormat, TypeOK, Registers, vars
<1> QED
  BY <1>1, <1>2, <1>3, <1>4, <1>5, <1>6, <1>7, <1>8, <1>9, <1>10, <1>11, <1>12, <1>13,
     <1>14, <1>15, <1>16, <1>17, <1>18, <1>19, <1>20, <1>21, <1>22, <1>23, <1>24, <1>25,
     <1>26, <1>27, <1>28, <1>29 DEF Next, DapmRun, Work, Pcm

\* The interface has the rate, the format and the width the streams were set up
\* with, for all rates and widths, unless the user operates "ZC Timeout Clock Switch".
THEOREM InterfaceMatches == ~RawControls => (Spec => []WireFormat)
<1>1. CASE RawControls
  BY <1>1, Zenon
<1>2. CASE ~RawControls
  <2>1. Init => TypeOK /\ WireInv
    BY InitType DEF Init, WireInv, WireFormat, Streams
  <2>2. TypeOK /\ WireInv /\ [Next]_vars => TypeOK' /\ WireInv'
    BY <1>2, TypeStep, WireStep
  <2>3. WireInv => WireFormat
    BY DEF WireInv
  <2> QED
    BY <2>1, <2>2, <2>3, PTL DEF Spec
<1> QED
  BY <1>1, <1>2
=============================================================================
