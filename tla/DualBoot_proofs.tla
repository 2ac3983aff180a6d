-------------------------- MODULE DualBoot_proofs --------------------------
(***************************************************************************)
(* Theorems about DualBoot for every set of platforms, every content of    *)
(* the flash and every number of failures and resets.                      *)
(***************************************************************************)
EXTENDS DualBoot, TLAPS

(***************************************************************************)
(* Type correctness.                                                       *)
(***************************************************************************)

LEMMA TypeInit == Init => TypeOK
  <1> SUFFICES ASSUME Init PROVE TypeOK
    OBVIOUS
  <1>1. PlatformTyped
    BY PlatformAssumption DEF Init, PlatformTyped
  <1>2. StorageTyped
    BY ImageAssumption DEF Init, StorageTyped
  <1>3. BootTyped
    BY DEF Init, BootTyped, Labels, Names, Halves
  <1>4. BudgetTyped
    <2>1. faults = 0 /\ resets = 0 /\ faulted = FALSE
      BY DEF Init
    <2>2. 0 \in 0..MaxFaults /\ 0 \in 0..MaxResets
      BY BoundsAssumption DEF BoundsAssumption
    <2> QED
      BY <2>1, <2>2 DEF BudgetTyped
  <1> QED
    BY <1>1, <1>2, <1>3, <1>4 DEF TypeOK

(* What a step does to the counters.                                       *)
LEMMA BudgetStep ==
    [Next]_vars =>
        \/ UNCHANGED budget
        \/ Fault
        \/ DoSwap
        \/ Reset
  BY DEF Next, BootStep, InitSh, MountEarly, FindPartitions, BootLoader, ImaSetup,
         LinuxFlag, AttachRootfs, CreateBlock, MountRootfs, UserFailed, LegatoFlag,
         MountLegato, YaffsLegato, ModemFlag, MountModem, HalfToUse, Succeeds,
         Fails, vars

LEMMA BudgetTypedStep == BudgetTyped /\ [Next]_vars => BudgetTyped'
  <1> SUFFICES ASSUME BudgetTyped, [Next]_vars PROVE BudgetTyped'
    OBVIOUS
  <1>1. CASE UNCHANGED budget
    BY <1>1 DEF budget, BudgetTyped
  <1>2. CASE Fault
    <2>1. faults' \in 0..MaxFaults
      BY <1>2, BoundsAssumption DEF BoundsAssumption, Fault, BudgetTyped
    <2> QED
      BY <1>2, <2>1 DEF Fault, BudgetTyped
  <1>3. CASE DoSwap
    <2>1. faults' \in 0..MaxFaults
      BY <1>3, BoundsAssumption DEF BoundsAssumption, DoSwap, BudgetTyped
    <2>2. faulted' = FALSE /\ resets' = resets
      BY <1>3 DEF DoSwap, Restart
    <2> QED
      BY <2>1, <2>2 DEF BudgetTyped
  <1>4. CASE Reset
    <2>1. resets' \in 0..MaxResets
      BY <1>4, BoundsAssumption DEF BoundsAssumption, Reset, BudgetTyped
    <2>2. faulted' = FALSE /\ faults' = faults
      BY <1>4 DEF Reset, Restart
    <2> QED
      BY <2>1, <2>2 DEF BudgetTyped
  <1> QED
    BY <1>1, <1>2, <1>3, <1>4, BudgetStep

LEMMA PlatformStep == [Next]_vars => UNCHANGED platform
  BY DEF Next, BootStep, InitSh, MountEarly, FindPartitions, BootLoader, ImaSetup,
         LinuxFlag, AttachRootfs, CreateBlock, MountRootfs, UserFailed, LegatoFlag,
         MountLegato, YaffsLegato, ModemFlag, MountModem, DoSwap, Reset, vars

(* YAFFS2 turns what it takes into "raw", or leaves an erased partition.   *)
LEMMA YaffsEffect ==
  ASSUME StorageTyped, NEW n \in Names, NEW h \in Halves, YaffsTakes(n, h)
  PROVE  /\ image' \in AllImages
         /\ \A m \in Names, k \in Halves :
               \/ image'[m][k] = image[m][k]
               \/ m = n /\ k = h /\ image'[m][k] = "raw"
  BY DEF StorageTyped, YaffsTakes, AllImages, Contents

(* The images change through YAFFS2 alone.                                 *)
LEMMA ImageStep ==
    /\ StorageTyped /\ BootTyped /\ [Next]_vars
    => \/ UNCHANGED image
       \/ MountRootfs /\ half.system \in Halves /\ YaffsTakes("system", half.system)
       \/ YaffsLegato /\ YaffsTakes("legato", half.legato)
       \/ MountModem /\ YaffsTakes("modem", half.modem)
  <1> SUFFICES ASSUME BootTyped, [Next]_vars, image' # image
               PROVE  \/ MountRootfs /\ half.system \in Halves
                                     /\ YaffsTakes("system", half.system)
                      \/ YaffsLegato /\ YaffsTakes("legato", half.legato)
                      \/ MountModem /\ YaffsTakes("modem", half.modem)
    OBVIOUS
  <1>1. MountRootfs \/ YaffsLegato \/ MountModem
    BY DEF Next, BootStep, InitSh, MountEarly, FindPartitions, BootLoader, ImaSetup,
         LinuxFlag, AttachRootfs, CreateBlock, UserFailed, LegatoFlag,
         MountLegato, ModemFlag, DoSwap, Reset, storage, vars
  <1>2. half.system \in {0} \cup Halves
    BY DEF BootTyped, Names
  <1> QED
    BY <1>1, <1>2 DEF MountRootfs, YaffsLegato, MountModem

(* A script mounts its image only after it chose a half.                   *)
HalfSet ==
    /\ pc \in {"attach_rootfs", "ubiblock"} => half.system # 0
    /\ pc \in {"mount_legato", "yaffs_legato"} => half.legato # 0
    /\ pc = "mount_modem" => half.modem # 0

(* Each script turns to one of the halves, or init.sh to the device named  *)
(* on the command line.                                                    *)
LEMMA FlagTyped ==
  ASSUME BootTyped, StorageTyped, NEW n \in Names, NEW h \in Halves,
         half' = [half EXCEPT ![n] = h]
  PROVE  half' \in [Names -> {0} \cup Halves] /\ half'[n] # 0
         /\ \A m \in Names : m # n => half'[m] = half[m]
  BY DEF BootTyped, Halves

LEMMA SwapTyped ==
  ASSUME BootTyped, NEW n \in Names, half[n] # 0, Swap(n)
  PROVE  pc' = "swap" /\ victim' \in Names \X ({0} \cup Halves) /\ victim'[2] # 0
  BY DEF BootTyped, Swap

LEMMA GoToTyped ==
  ASSUME BootTyped, NEW l \in Labels, l # "swap", GoTo(l)
  PROVE  pc' = l /\ pc' # "swap" /\ pc' \in Labels /\ victim' = victim
  BY DEF GoTo

BootInv == BootTyped /\ HalfSet

LEMMA BootInvStep == BootInv /\ StorageTyped /\ [Next]_vars => BootInv'
  <1> SUFFICES ASSUME BootTyped, HalfSet, StorageTyped, [Next]_vars
               PROVE BootTyped' /\ HalfSet'
    BY DEF BootInv
  <1> USE DEF BootTyped, HalfSet
  <1>0. Names = {"system", "legato", "modem"} /\ Halves = {1, 2}
    BY DEF Names, Halves
  <1>1. CASE BootLoader
    BY <1>1 DEF BootLoader, GoTo, Labels
  <1>2. CASE ImaSetup
    BY <1>2 DEF ImaSetup, GoTo, Labels
  <1>3. CASE LinuxFlag
    <2>1. CASE platform.fixed
      BY <1>3, <2>1 DEF LinuxFlag, GoTo, Labels
    <2>2. CASE ~platform.fixed
      <3>1. PICK h \in Halves : half' = [half EXCEPT !["system"] = h]
        BY <1>3, <2>2 DEF LinuxFlag
      <3>2. half' \in [Names -> {0} \cup Halves] /\ half'["system"] # 0
        BY <3>1, <1>0, FlagTyped
      <3>3. pc' = "attach_rootfs" /\ UNCHANGED <<victim, blk, mounted>>
        BY <1>3, <2>2 DEF LinuxFlag, GoTo
      <3> QED
        BY <3>2, <3>3 DEF Labels
    <2> QED
      BY <2>1, <2>2
  <1>4. CASE AttachRootfs
    <2>1. UNCHANGED <<half, mounted>> /\ blk' \in BOOLEAN
      BY <1>4 DEF AttachRootfs
    <2>2. \/ GoTo("ubiblock") \/ GoTo("mount_rootfs") \/ GoTo("dead")
          \/ half.system # 0 /\ Swap("system")
      BY <1>4 DEF AttachRootfs, RootfsFailed
    <2>3. half.system # 0
      BY <1>4 DEF AttachRootfs
    <2> QED
      BY <1>0, <2>1, <2>2, <2>3 DEF GoTo, Swap, Labels
  <1>5. CASE CreateBlock
    BY <1>5 DEF CreateBlock, GoTo, Labels
  <1>6. CASE MountRootfs
    <2>1. UNCHANGED <<half, blk>> /\ mounted' \subseteq Names
      BY <1>0, <1>6 DEF MountRootfs
    <2>2. \/ GoTo("legato_flag") \/ GoTo("dead")
          \/ half.system # 0 /\ Swap("system")
      BY <1>6 DEF MountRootfs, RootfsFailed
    <2> QED
      BY <1>0, <2>1, <2>2 DEF GoTo, Swap, Labels
  <1>7. CASE UserFailed
    BY <1>7 DEF UserFailed, GoTo, Labels
  <1>8. CASE LegatoFlag
    <2>1. PICK h \in Halves : half' = [half EXCEPT !["legato"] = h]
      BY <1>8 DEF LegatoFlag
    <2>2. half' \in [Names -> {0} \cup Halves] /\ half'["legato"] # 0
      BY <2>1, <1>0, FlagTyped
    <2>3. pc' = "mount_legato" /\ UNCHANGED <<victim, blk, mounted>>
      BY <1>8 DEF LegatoFlag, GoTo
    <2> QED
      BY <2>2, <2>3 DEF Labels
  <1>9. CASE MountLegato
    <2>1. UNCHANGED <<half, blk>> /\ mounted' \subseteq Names
      BY <1>0, <1>9 DEF MountLegato
    <2>2. GoTo("modem_flag") \/ GoTo("yaffs_legato") \/ Swap("legato")
      BY <1>9 DEF MountLegato, HandleLegatoFail
    <2>3. half.legato # 0
      BY <1>9 DEF MountLegato
    <2> QED
      BY <1>0, <2>1, <2>2, <2>3 DEF GoTo, Swap, Labels
  <1>10. CASE YaffsLegato
    BY <1>10 DEF YaffsLegato, GoTo, Labels
  <1>11. CASE ModemFlag
    <2>1. PICK h \in Halves : half' = [half EXCEPT !["modem"] = h]
      BY <1>11 DEF ModemFlag
    <2>2. half' \in [Names -> {0} \cup Halves] /\ half'["modem"] # 0
      BY <2>1, <1>0, FlagTyped
    <2>3. pc' = "mount_modem" /\ UNCHANGED <<victim, blk, mounted>>
      BY <1>11 DEF ModemFlag, GoTo
    <2> QED
      BY <2>2, <2>3 DEF Labels
  <1>12. CASE MountModem
    <2>1. UNCHANGED <<half, blk>> /\ mounted' \subseteq Names
      BY <1>0, <1>12 DEF MountModem
    <2>2. GoTo("up") \/ Swap("modem")
      BY <1>12 DEF MountModem, ModemFailed
    <2>3. half.modem # 0
      BY <1>12 DEF MountModem
    <2> QED
      BY <1>0, <2>1, <2>2, <2>3 DEF GoTo, Swap, Labels
  <1>13. CASE DoSwap \/ Reset
    BY <1>13 DEF DoSwap, Reset, Restart, Labels
  <1>14. CASE UNCHANGED vars
    BY <1>14 DEF vars, boot
  <1> QED
    BY <1>1, <1>2, <1>3, <1>4, <1>5, <1>6, <1>7, <1>8, <1>9, <1>10, <1>11, <1>12,
       <1>13, <1>14
    DEF Next, BootStep, InitSh, MountEarly, FindPartitions

LEMMA StorageTypedStep == StorageTyped /\ BootInv /\ [Next]_vars => StorageTyped'
  <1> SUFFICES ASSUME StorageTyped, BootInv, [Next]_vars PROVE StorageTyped'
    OBVIOUS
  <1>1. image' \in AllImages
    <2>1. BootTyped /\ half.legato \in {0} \cup Halves /\ half.modem \in {0} \cup Halves
      BY DEF BootInv, BootTyped, Names
    <2>2. YaffsLegato => half.legato \in Halves
      BY <2>1 DEF BootInv, HalfSet, YaffsLegato
    <2>3. MountModem => half.modem \in Halves
      BY <2>1 DEF BootInv, HalfSet, MountModem
    <2> QED
      BY <2>1, <2>2, <2>3, ImageStep, YaffsEffect DEF StorageTyped, Names
  <1>2. marked' \subseteq Names \X Halves
    <2>1. CASE DoSwap
      <3>1. victim \in Names \X Halves
        BY <2>1 DEF DoSwap, BootInv, BootTyped, Halves
      <3> QED
        BY <2>1, <3>1 DEF DoSwap, StorageTyped
    <2>2. CASE ~DoSwap
      <3>1. UNCHANGED marked
        BY <2>2
        DEF Next, BootStep, InitSh, MountEarly, FindPartitions, BootLoader, ImaSetup,
            LinuxFlag, AttachRootfs, CreateBlock, MountRootfs, UserFailed,
            LegatoFlag, MountLegato, YaffsLegato, ModemFlag, MountModem, Reset,
            storage, vars
      <3> QED
        BY <3>1 DEF StorageTyped
    <2> QED
      BY <2>1, <2>2
  <1>3. chosen' \in [linux : Halves, modem : Halves]
    <2>1. CASE BootLoader
      <3>1. chosen.linux \in Halves /\ chosen.modem \in Halves
        BY DEF StorageTyped
      <3>2. \A ns : \A h \in Halves : Choices(h, ns) \subseteq Halves
        BY DEF Choices, Halves
      <3> QED
        BY <2>1, <3>1, <3>2 DEF BootLoader
    <2>2. CASE ~BootLoader
      <3>1. UNCHANGED chosen
        BY <2>2
        DEF Next, BootStep, InitSh, MountEarly, FindPartitions, ImaSetup, LinuxFlag,
            AttachRootfs, CreateBlock, MountRootfs, UserFailed, LegatoFlag,
            MountLegato, YaffsLegato, ModemFlag, MountModem, DoSwap, Reset, storage,
            vars
      <3> QED
        BY <3>1 DEF StorageTyped
    <2> QED
      BY <2>1, <2>2
  <1> QED
    BY <1>1, <1>2, <1>3 DEF StorageTyped

LEMMA TypeInvariant == Spec => [](TypeOK /\ HalfSet)
  <1>1. Init => HalfSet
    BY DEF Init, HalfSet
  <1>2. TypeOK /\ HalfSet /\ [Next]_vars => (TypeOK /\ HalfSet)'
    <2>1. PlatformTyped /\ [Next]_vars => PlatformTyped'
      BY PlatformStep DEF PlatformTyped
    <2> QED
      BY <2>1, BudgetTypedStep, StorageTypedStep, BootInvStep DEF TypeOK, BootInv
  <1> QED
    BY <1>1, <1>2, TypeInit, PTL DEF Spec

(* Every variable keeps its type, and what do_swap marks is always an      *)
(* image of one of the halves.                                             *)
THEOREM TypeCorrect == Spec => []TypeOK
  BY TypeInvariant, PTL

(***************************************************************************)
(* What may be marked bad.                                                 *)
(***************************************************************************)

(* Marking image n of half h is justified by what its partition holds.     *)
Deserved(n, h) ==
    /\ image[n][h] = "good" => n = "modem" /\ platform.slow
    /\ n = "legato" => image[n][h] # "erased"

(* The marks made, the one that is about to be made, and the block device, *)
(* which is there unless its creation failed.                              *)
MarkInv ==
    faults = 0 =>
        /\ pc = "mount_rootfs" => blk
        /\ \A n \in Names, h \in Halves : <<n, h>> \in marked => Deserved(n, h)
        /\ pc = "swap" => Deserved(victim[1], victim[2])

LEMMA MarkInvInit == Init => MarkInv
  BY DEF Init, MarkInv

(* A justification stays one.                                              *)
LEMMA DeservedStep ==
  ASSUME TypeOK, [Next]_vars, NEW n \in Names, NEW h \in Halves, Deserved(n, h)
  PROVE  Deserved(n, h)'
  <1>1. UNCHANGED platform
    BY PlatformStep
  <1>2. image'[n][h] = image[n][h] \/ image'[n][h] = "raw"
    <2>1. StorageTyped /\ BootTyped
      BY DEF TypeOK
    <2>2. half.legato \in {0} \cup Halves /\ half.modem \in {0} \cup Halves
      BY <2>1 DEF BootTyped, Names
    <2>3. \A m \in Names, k \in {0} \cup Halves :
             YaffsTakes(m, k) => image'[n][h] \in {image[n][h], "raw"}
      BY <2>1 DEF YaffsTakes, StorageTyped, AllImages, Halves
    <2> QED
      BY <2>1, <2>2, <2>3, ImageStep DEF Names
  <1> QED
    BY <1>1, <1>2 DEF Deserved

(* Failures are never taken back.                                          *)
LEMMA FaultsGrow == BudgetTyped /\ [Next]_vars /\ faults' = 0 => faults = 0
  <1> SUFFICES ASSUME BudgetTyped, [Next]_vars, faults' = 0 PROVE faults = 0
    OBVIOUS
  <1>1. faults \in Nat
    BY BoundsAssumption DEF BoundsAssumption, BudgetTyped
  <1>2. faults' = faults \/ faults' = faults + 1
    BY BudgetStep DEF Fault, DoSwap, Reset, budget
  <1> QED
    BY <1>1, <1>2

(* A call of swap_dual_system is justified unless a command just failed.   *)
LEMMA SwapStep ==
    /\ TypeOK /\ HalfSet /\ MarkInv /\ [Next]_vars
    /\ pc # "swap" /\ pc' = "swap" /\ faults' = 0
    => Deserved(victim'[1], victim'[2])
  <1> SUFFICES ASSUME TypeOK, HalfSet, MarkInv, [Next]_vars, pc # "swap",
                      pc' = "swap", faults' = 0
               PROVE  Deserved(victim'[1], victim'[2])
    OBVIOUS
  <1>1. ~Fault
    <2>1. faults \in Nat
      BY BoundsAssumption DEF BoundsAssumption, TypeOK, BudgetTyped
    <2> QED
      BY <2>1 DEF Fault
  <1>2. /\ half \in [Names -> {0} \cup Halves]
        /\ Names = {"system", "legato", "modem"}
    BY DEF TypeOK, BootTyped, Names
  <1>3. CASE AttachRootfs
    <2>1. image.system[half.system] # "good" /\ victim' = <<"system", half.system>>
      BY <1>1, <1>3 DEF AttachRootfs, RootfsFailed, Swap, GoTo, IsUbi
    <2> QED
      BY <2>1 DEF Deserved
  <1>4. CASE MountRootfs
    <2>1. victim' = <<"system", half.system>> /\ half.system # 0
      BY <1>4 DEF MountRootfs, RootfsFailed, Swap, GoTo
    <2>2. ~(blk /\ image.system[half.system] = "good")
      BY <1>1, <1>4, <2>1 DEF MountRootfs, RootfsFailed, Swap, GoTo, Fails, Succeeds
    <2>3. blk
      BY <1>4, FaultsGrow DEF MarkInv, MountRootfs, TypeOK
    <2> QED
      BY <2>1, <2>2, <2>3 DEF Deserved
  <1>5. CASE MountLegato
    <2>1. /\ image.legato[half.legato] \notin {"good", "erased"}
          /\ victim' = <<"legato", half.legato>>
      BY <1>1, <1>5 DEF MountLegato, HandleLegatoFail, Swap, GoTo, Fails, Succeeds
    <2> QED
      BY <2>1 DEF Deserved
  <1>6. CASE MountModem
    <2>1. victim' = <<"modem", half.modem>>
      BY <1>6 DEF MountModem, ModemFailed, Swap, GoTo
    <2>2. image.modem[half.modem] = "good" => platform.slow
      BY <1>1, <1>6 DEF MountModem, ModemFailed, Swap, GoTo, Fails, Succeeds, IsUbi
    <2> QED
      BY <2>1, <2>2 DEF Deserved
  <1> QED
    BY <1>3, <1>4, <1>5, <1>6
    DEF Next, BootStep, InitSh, MountEarly, FindPartitions, BootLoader, ImaSetup,
        LinuxFlag, CreateBlock, UserFailed, LegatoFlag, YaffsLegato, ModemFlag,
        DoSwap, Reset, Restart, GoTo, boot, vars

LEMMA MarkInvStep == TypeOK /\ HalfSet /\ MarkInv /\ [Next]_vars => MarkInv'
  <1> SUFFICES ASSUME TypeOK, HalfSet, MarkInv, [Next]_vars, faults' = 0
               PROVE  /\ pc' = "mount_rootfs" => blk'
                      /\ \A n \in Names, h \in Halves :
                            <<n, h>> \in marked' => Deserved(n, h)'
                      /\ pc' = "swap" => Deserved(victim[1], victim[2])'
    BY DEF MarkInv
  <1>1. faults = 0
    BY FaultsGrow DEF TypeOK
  <1>2. ~Fault
    BY <1>1 DEF Fault
  <1>3. pc' = "mount_rootfs" => blk'
    BY <1>1, <1>2
    DEF MarkInv, Next, BootStep, InitSh, MountEarly, FindPartitions, BootLoader,
        ImaSetup, LinuxFlag, AttachRootfs, CreateBlock, MountRootfs, RootfsFailed,
        UserFailed, LegatoFlag, MountLegato, HandleLegatoFail, YaffsLegato,
        ModemFlag, MountModem, ModemFailed, DoSwap, Reset, Restart, GoTo, Swap, boot,
        vars
  <1>4. \A n \in Names, h \in Halves : <<n, h>> \in marked' => Deserved(n, h)'
    <2> SUFFICES ASSUME NEW n \in Names, NEW h \in Halves, <<n, h>> \in marked'
                 PROVE  Deserved(n, h)'
      OBVIOUS
    <2>1. <<n, h>> \in marked \/ (pc = "swap" /\ victim = <<n, h>>)
      BY DEF Next, BootStep, InitSh, MountEarly, FindPartitions, BootLoader, ImaSetup,
            LinuxFlag, AttachRootfs, CreateBlock, MountRootfs, UserFailed,
            LegatoFlag, MountLegato, YaffsLegato, ModemFlag, MountModem, DoSwap,
            Reset, storage, vars
    <2>2. Deserved(n, h)
      BY <1>1, <2>1 DEF MarkInv
    <2> QED
      BY <2>2, DeservedStep
  <1>5. pc' = "swap" => Deserved(victim[1], victim[2])'
    <2> SUFFICES ASSUME pc' = "swap" PROVE Deserved(victim[1], victim[2])'
      OBVIOUS
    <2>1. victim' \in Names \X Halves
      <3>1. BootTyped' /\ HalfSet'
        BY BootInvStep DEF TypeOK, BootInv
      <3> QED
        BY <3>1 DEF BootTyped, Halves
    <2>2. Deserved(victim'[1], victim'[2])
      <3>1. CASE pc = "swap"
        <4>1. UNCHANGED vars
          BY <3>1
          DEF Next, BootStep, InitSh, MountEarly, FindPartitions, BootLoader,
              ImaSetup, LinuxFlag, AttachRootfs, CreateBlock, MountRootfs,
              UserFailed, LegatoFlag, MountLegato, YaffsLegato, ModemFlag,
              MountModem, DoSwap, Reset, Restart
        <4>2. UNCHANGED victim
          BY <4>1 DEF vars, boot
        <4> QED
          BY <1>1, <3>1, <4>2 DEF MarkInv
      <3>2. CASE pc # "swap"
        BY <3>2, SwapStep
      <3> QED
        BY <3>1, <3>2
    <2>3. PICK n \in Names, h \in Halves : victim' = <<n, h>>
      BY <2>1
    <2>4. Deserved(n, h)
      BY <2>2, <2>3
    <2>5. Deserved(n, h)'
      BY <2>4, DeservedStep
    <2> QED
      BY <2>3, <2>5 DEF Deserved
  <1> QED
    BY <1>3, <1>4, <1>5

(* No image that could be mounted is ever lost to a mark unless a command  *)
(* failed or the modem's device node was slow, on any flash and platform.  *)
THEOREM MarksAreDeserved == Spec => []MarksDeserved
  <1>1. TypeOK /\ MarkInv => MarksDeserved
    BY DEF MarkInv, MarksDeserved, Deserved, TypeOK, StorageTyped
  <1> QED
    BY <1>1, TypeInvariant, MarkInvInit, MarkInvStep, PTL DEF Spec

(***************************************************************************)
(* Both scripts use the same half.                                         *)
(***************************************************************************)

(* What swidssd would answer in this boot.                                 *)
LinuxHalf == IF platform.dual THEN chosen.linux ELSE 1

SameHalfInv ==
    /\ pc = "off" => \A n \in Names : half[n] = 0
    /\ ~faulted => half.system \in {0, LinuxHalf} /\ half.legato \in {0, LinuxHalf}

LEMMA SameHalfInvStep == TypeOK /\ SameHalfInv /\ [Next]_vars => SameHalfInv'
  <1> SUFFICES ASSUME TypeOK, SameHalfInv, [Next]_vars PROVE SameHalfInv'
    OBVIOUS
  <1>0. /\ half \in [Names -> {0} \cup Halves]
        /\ Names = {"system", "legato", "modem"}
        /\ UNCHANGED platform
    BY PlatformStep DEF TypeOK, BootTyped, Names
  <1>1. CASE BootLoader
    <2>1. half' = half /\ pc' = "ima" /\ \A n \in Names : half[n] = 0
      BY <1>1 DEF BootLoader, GoTo, SameHalfInv
    <2> QED
      BY <1>0, <2>1 DEF SameHalfInv
  <1>2. CASE LinuxFlag
    <2>1. chosen' = chosen /\ pc' # "off" /\ (~faulted' => ~faulted)
      BY <1>2 DEF LinuxFlag, storage, GoTo, HalfToUse, Fault, budget
    <2>2. ~faulted' => half'.system \in {half.system, LinuxHalf}
      BY <1>0, <1>2 DEF LinuxFlag, HalfToUse, Fault, LinuxHalf
    <2>3. half'.legato = half.legato
      BY <1>0, <1>2 DEF LinuxFlag
    <2> QED
      BY <1>0, <2>1, <2>2, <2>3 DEF SameHalfInv, LinuxHalf
  <1>3. CASE LegatoFlag
    <2>1. chosen' = chosen /\ pc' # "off" /\ (~faulted' => ~faulted)
      BY <1>3 DEF LegatoFlag, storage, GoTo, HalfToUse, Fault, budget
    <2>2. ~faulted' => half'.legato \in {half.legato, LinuxHalf}
      BY <1>0, <1>3 DEF LegatoFlag, HalfToUse, Fault, LinuxHalf
    <2>3. half'.system = half.system
      BY <1>0, <1>3 DEF LegatoFlag
    <2> QED
      BY <1>0, <2>1, <2>2, <2>3 DEF SameHalfInv, LinuxHalf
  <1>4. CASE ModemFlag
    <2>1. chosen' = chosen /\ pc' # "off" /\ (~faulted' => ~faulted)
      BY <1>4 DEF ModemFlag, storage, GoTo, HalfToUse, Fault, budget
    <2>2. half'.system = half.system /\ half'.legato = half.legato
      BY <1>0, <1>4 DEF ModemFlag
    <2> QED
      BY <1>0, <2>1, <2>2 DEF SameHalfInv, LinuxHalf
  <1>5. CASE ImaSetup \/ AttachRootfs \/ CreateBlock \/ MountRootfs \/ UserFailed
             \/ MountLegato \/ YaffsLegato \/ MountModem
    <2>1. UNCHANGED <<chosen, half>> /\ pc' # "off"
      BY <1>5
      DEF ImaSetup, AttachRootfs, CreateBlock, MountRootfs, RootfsFailed, UserFailed,
          MountLegato, HandleLegatoFail, YaffsLegato, MountModem, ModemFailed, Swap,
          GoTo, storage
    <2>2. ~faulted' => ~faulted
      BY <1>5
      DEF ImaSetup, AttachRootfs, CreateBlock, MountRootfs, UserFailed, MountLegato,
          YaffsLegato, MountModem, Succeeds, Fails, Fault, budget
    <2> QED
      BY <1>0, <2>1, <2>2 DEF SameHalfInv, LinuxHalf
  <1>6. CASE DoSwap \/ Reset
    <2>1. \A n \in Names : half'[n] = 0
      BY <1>6 DEF DoSwap, Reset, Restart
    <2> QED
      BY <1>0, <2>1 DEF SameHalfInv
  <1>7. CASE UNCHANGED vars
    BY <1>7 DEF SameHalfInv, LinuxHalf, vars, storage, boot, budget
  <1> QED
    BY <1>1, <1>2, <1>3, <1>4, <1>5, <1>6, <1>7
    DEF Next, BootStep, InitSh, MountEarly, FindPartitions

(* In a boot without a failure, Legato comes from the half the root file   *)
(* system came from.                                                       *)
THEOREM BothUseSameHalf == Spec => []SameHalf
  <1>1. Init => SameHalfInv
    BY DEF Init, SameHalfInv, Names
  <1>2. SameHalfInv => SameHalf
    BY DEF SameHalfInv, SameHalf
  <1> QED
    BY <1>1, <1>2, TypeCorrect, SameHalfInvStep, PTL DEF Spec

(***************************************************************************)
(* Legato images are not wiped.                                            *)
(***************************************************************************)

(* When mount_early_legato_start comes to its YAFFS2 fallback.             *)
YaffsInv ==
    pc = "yaffs_legato" =>
        \/ image.legato[half.legato] = "erased"
        \/ ~platform.dual /\ (image.legato[half.legato] = "good" => faulted)

LEMMA YaffsInvStep == YaffsInv /\ [Next]_vars => YaffsInv'
  <1> SUFFICES ASSUME YaffsInv, [Next]_vars, pc' = "yaffs_legato" PROVE YaffsInv'
    BY DEF YaffsInv
  <1>1. CASE MountLegato
    <2>1. UNCHANGED <<platform, image, half>>
      BY <1>1 DEF MountLegato, storage
    <2>2. image.legato[half.legato] = "good" => faulted'
      BY <1>1 DEF MountLegato, Succeeds, Fails, Fault, GoTo
    <2>3. image.legato[half.legato] = "erased" \/ ~platform.dual
      BY <1>1 DEF MountLegato, HandleLegatoFail, Swap, GoTo
    <2> QED
      BY <2>1, <2>2, <2>3 DEF YaffsInv
  <1>2. CASE UNCHANGED vars
    BY <1>2 DEF YaffsInv, vars, storage, boot, budget
  <1> QED
    BY <1>1, <1>2
    DEF Next, BootStep, InitSh, MountEarly, FindPartitions, BootLoader, ImaSetup,
        LinuxFlag, AttachRootfs, CreateBlock, MountRootfs, RootfsFailed, UserFailed,
        LegatoFlag, YaffsLegato, ModemFlag, MountModem, ModemFailed, DoSwap, Reset,
        Restart, GoTo, Swap

(* No Legato image that could be mounted is wiped unless a command failed  *)
(* on a single system; a dual system wipes nothing but empty partitions.   *)
THEOREM LegatoIsKept == Spec => LegatoKept
  <1>1. TypeOK /\ HalfSet /\ YaffsInv /\ [Next]_vars
        => [\A h \in Halves : image'.legato[h] # image.legato[h] =>
               \/ image.legato[h] = "erased"
               \/ ~platform.dual /\ (image.legato[h] = "good" => faulted)]_vars
    <2> SUFFICES ASSUME TypeOK, HalfSet, YaffsInv, [Next]_vars,
                        NEW h \in Halves, image'.legato[h] # image.legato[h]
                 PROVE  \/ image.legato[h] = "erased"
                        \/ ~platform.dual /\ (image.legato[h] = "good" => faulted)
      OBVIOUS
    <2>1. StorageTyped /\ BootTyped
      BY DEF TypeOK
    <2>2. half.modem \in {0} \cup Halves /\ half.legato \in {0} \cup Halves
      BY <2>1 DEF BootTyped, Names
    <2>3. \A n \in Names, k \in {0} \cup Halves :
             YaffsTakes(n, k) => n = "legato" /\ k = h
      BY <2>1 DEF YaffsTakes, StorageTyped, AllImages, Names
    <2>4. YaffsLegato /\ half.legato = h
      BY <2>1, <2>2, <2>3, ImageStep DEF Names
    <2> QED
      BY <2>4 DEF YaffsInv, YaffsLegato
  <1>2. Init => YaffsInv
    BY DEF Init, YaffsInv
  <1> QED
    BY <1>1, <1>2, TypeInvariant, YaffsInvStep, PTL DEF Spec, LegatoKept

(***************************************************************************)
(* A swap takes an image out of the running.                               *)
(***************************************************************************)

Linux == {"system", "legato"}
Offers(ns) == \E h \in Halves : Clean(h, ns)

(* A boot runs from halves with nothing marked while there are any, and    *)
(* swap_dual_system is called for the half in use.                         *)
ProgressInv ==
    /\ pc # "off" =>
          /\ Offers(Linux) => Clean(chosen.linux, Linux)
          /\ Offers({"modem"}) => Clean(chosen.modem, {"modem"})
    /\ ~faulted /\ platform.dual => half.modem \in {0, chosen.modem}
    /\ pc = "swap" => platform.dual /\ \E n \in Names : victim = <<n, half[n]>>

(* The boot loader offers a half with nothing marked if there is one.      *)
LEMMA ChoicesClean ==
  ASSUME NEW ns, NEW c \in Halves, NEW d \in Choices(c, ns), Offers(ns)
  PROVE  Clean(d, ns)
  <1>1. \A h \in Halves : h = c \/ h = 3 - c
    BY DEF Halves
  <1> QED
    BY <1>1 DEF Choices, Offers

LEMMA ProgressInvStep ==
    TypeOK /\ SameHalfInv /\ ProgressInv /\ [Next]_vars => ProgressInv'
  <1> SUFFICES ASSUME TypeOK, SameHalfInv, ProgressInv, [Next]_vars PROVE ProgressInv'
    OBVIOUS
  <1>0. /\ half \in [Names -> {0} \cup Halves]
        /\ Names = {"system", "legato", "modem"}
        /\ UNCHANGED platform
    BY PlatformStep DEF TypeOK, BootTyped, Names
  <1>1. ASSUME UNCHANGED <<marked, chosen>>, pc # "off"
        PROVE  (/\ Offers(Linux) => Clean(chosen.linux, Linux)
                /\ Offers({"modem"}) => Clean(chosen.modem, {"modem"}))'
    BY <1>1 DEF ProgressInv, Offers, Clean
  <1>2. CASE BootLoader
    <2>1. /\ UNCHANGED <<half, marked>> /\ pc' = "ima" /\ half.modem = 0
      BY <1>0, <1>2 DEF BootLoader, GoTo, SameHalfInv
    <2>2. /\ chosen'.linux \in Choices(chosen.linux, Linux)
          /\ chosen'.modem \in Choices(chosen.modem, {"modem"})
          /\ chosen.linux \in Halves /\ chosen.modem \in Halves
      BY <1>2 DEF BootLoader, Linux, TypeOK, StorageTyped
    <2>3. /\ Offers(Linux) => Clean(chosen'.linux, Linux)
          /\ Offers({"modem"}) => Clean(chosen'.modem, {"modem"})
      BY <2>2, ChoicesClean
    <2> QED
      BY <2>1, <2>3 DEF ProgressInv, Offers, Clean
  <1>3. CASE LinuxFlag \/ LegatoFlag
    <2>1. UNCHANGED <<marked, chosen>> /\ pc # "off" /\ pc' # "swap"
      BY <1>3 DEF LinuxFlag, LegatoFlag, storage, GoTo
    <2>2. half'.modem = half.modem /\ (~faulted' => ~faulted)
      BY <1>0, <1>3 DEF LinuxFlag, LegatoFlag, HalfToUse, Fault, budget
    <2> QED
      BY <1>0, <1>1, <2>1, <2>2 DEF ProgressInv
  <1>4. CASE ModemFlag
    <2>1. UNCHANGED <<marked, chosen>> /\ pc # "off" /\ pc' # "swap"
      BY <1>4 DEF ModemFlag, storage, GoTo
    <2>2. ~faulted' /\ platform.dual => half'.modem \in {0, chosen.modem}
      BY <1>0, <1>4 DEF ModemFlag, HalfToUse, Fault
    <2> QED
      BY <1>0, <1>1, <2>1, <2>2 DEF ProgressInv
  <1>5. CASE ImaSetup \/ AttachRootfs \/ CreateBlock \/ MountRootfs \/ UserFailed
             \/ MountLegato \/ YaffsLegato \/ MountModem
    <2>1. UNCHANGED <<marked, chosen, half>> /\ pc # "off"
      BY <1>5
      DEF ImaSetup, AttachRootfs, CreateBlock, MountRootfs, UserFailed, MountLegato,
          YaffsLegato, MountModem, storage
    <2>2. ~faulted' => ~faulted
      BY <1>5
      DEF ImaSetup, AttachRootfs, CreateBlock, MountRootfs, UserFailed, MountLegato,
          YaffsLegato, MountModem, Succeeds, Fails, Fault, budget
    <2>3. pc' = "swap" => platform.dual /\ \E n \in Names : victim' = <<n, half[n]>>
      BY <1>0, <1>5
      DEF ImaSetup, AttachRootfs, CreateBlock, MountRootfs, RootfsFailed, UserFailed,
          MountLegato, HandleLegatoFail, YaffsLegato, MountModem, ModemFailed, Swap,
          GoTo
    <2> QED
      BY <1>0, <1>1, <2>1, <2>2, <2>3 DEF ProgressInv
  <1>6. CASE DoSwap \/ Reset
    <2>1. pc' = "off" /\ half'.modem = 0
      BY <1>0, <1>6 DEF DoSwap, Reset, Restart
    <2> QED
      BY <2>1 DEF ProgressInv
  <1>7. CASE UNCHANGED vars
    BY <1>7 DEF ProgressInv, Offers, Clean, vars, storage, boot, budget
  <1> QED
    BY <1>2, <1>3, <1>4, <1>5, <1>6, <1>7
    DEF Next, BootStep, InitSh, MountEarly, FindPartitions

(* What is about to be marked is not, while the loader has halves to offer. *)
LEMMA VictimFresh ==
  ASSUME TypeOK, SameHalfInv, ProgressInv, pc = "swap", ~faulted,
         Offers(Linux), Offers({"modem"})
  PROVE  victim \notin marked
  <1>1. victim[2] # 0 /\ half \in [Names -> {0} \cup Halves]
    BY DEF TypeOK, BootTyped
  <1>2. PICK n \in Names : victim = <<n, half[n]>>
    BY DEF ProgressInv
  <1>3. platform.dual /\ half[n] # 0
    BY <1>1, <1>2 DEF ProgressInv
  <1>4. CASE n = "modem"
    <2>1. half[n] = chosen.modem /\ Clean(chosen.modem, {"modem"})
      BY <1>3, <1>4 DEF ProgressInv
    <2> QED
      BY <1>2, <1>4, <2>1 DEF Clean
  <1>5. CASE n \in Linux
    <2>1. half[n] = chosen.linux /\ Clean(chosen.linux, Linux)
      BY <1>3, <1>5 DEF ProgressInv, SameHalfInv, LinuxHalf, Linux
    <2> QED
      BY <1>2, <1>5, <2>1 DEF Clean
  <1> QED
    BY <1>4, <1>5 DEF Names, Linux

(* On any flash, a reboot the scripts ask for in a boot without a failure  *)
(* takes an image out of the running that the boot loader still offered.   *)
THEOREM SwapsMakeProgress == Spec => SwapsProgress
  <1>1. TypeOK /\ SameHalfInv /\ ProgressInv /\ [Next]_vars
        => [pc = "swap" /\ pc' = "off" /\ ~faulted /\ UNCHANGED <<faults, resets>>
               /\ (\E h \in Halves : Clean(h, {"system", "legato"}))
               /\ (\E h \in Halves : Clean(h, {"modem"}))
            => victim \in marked' \ marked]_vars
    <2> SUFFICES ASSUME TypeOK, SameHalfInv, ProgressInv, [Next]_vars,
                        pc = "swap", pc' = "off", ~faulted, UNCHANGED <<faults, resets>>,
                        Offers(Linux), Offers({"modem"})
                 PROVE  victim \in marked' \ marked
      BY DEF Offers, Linux
    <2>1. faults \in Nat /\ resets \in Nat /\ victim[2] # 0
      BY BoundsAssumption DEF BoundsAssumption, TypeOK, BudgetTyped, BootTyped
    <2>2. ~Reset
      BY <2>1 DEF Reset
    <2>3. DoSwap
      BY <2>2
      DEF Next, BootStep, InitSh, MountEarly, FindPartitions, BootLoader, ImaSetup,
          LinuxFlag, AttachRootfs, CreateBlock, MountRootfs, UserFailed, LegatoFlag,
          MountLegato, YaffsLegato, ModemFlag, MountModem, vars, boot
    <2>4. victim \in marked'
      BY <2>1, <2>3 DEF DoSwap
    <2> QED
      BY <2>4, VictimFresh
  <1>2. Init => SameHalfInv /\ ProgressInv
    BY DEF Init, SameHalfInv, ProgressInv, Names
  <1> QED
    BY <1>1, <1>2, TypeCorrect, SameHalfInvStep, ProgressInvStep, PTL
    DEF Spec, SwapsProgress

(***************************************************************************)
(* A bootable module gets closer to being up.                              *)
(***************************************************************************)

(* A failure in this boot has been counted.                                *)
Counted == faulted => faults # 0

LEMMA CountedStep == TypeOK /\ Counted /\ [Next]_vars => Counted'
  <1> SUFFICES ASSUME TypeOK, Counted, [Next]_vars PROVE Counted'
    OBVIOUS
  <1>1. faults \in Nat
    BY BoundsAssumption DEF BoundsAssumption, TypeOK, BudgetTyped
  <1>2. CASE UNCHANGED budget
    BY <1>2 DEF Counted, budget
  <1>3. CASE Fault
    BY <1>1, <1>3 DEF Counted, Fault
  <1>4. CASE DoSwap \/ Reset
    <2>1. faulted' = FALSE
      BY <1>4 DEF DoSwap, Reset, Restart
    <2> QED
      BY <2>1 DEF Counted
  <1> QED
    BY <1>2, <1>3, <1>4, BudgetStep

(* An image that can be mounted stays one, while nothing has failed.       *)
LEMMA GoodStays ==
  ASSUME TypeOK, YaffsInv, ~faulted, [Next]_vars,
         NEW n \in Names, NEW h \in Halves, image[n][h] = "good"
  PROVE  image'[n][h] = "good"
  <1>1. StorageTyped /\ BootTyped
    BY DEF TypeOK
  <1>2. /\ half.legato \in {0} \cup Halves
        /\ half.modem \in {0} \cup Halves
    BY <1>1 DEF BootTyped, Names
  <1>3. ASSUME NEW m \in Names, NEW k \in {0} \cup Halves,
               YaffsTakes(m, k), image[m][k] # "good" \/ UNCHANGED image
        PROVE  image'[n][h] = "good"
    BY <1>1, <1>3 DEF YaffsTakes, StorageTyped, AllImages, Halves
  <1>4. CASE MountRootfs /\ half.system \in Halves /\ YaffsTakes("system", half.system)
    <2>1. image.system[half.system] # "good" \/ UNCHANGED image
      BY <1>4 DEF MountRootfs, IsUbi
    <2> QED
      BY <1>3, <1>4, <2>1 DEF Names
  <1>5. CASE YaffsLegato /\ YaffsTakes("legato", half.legato)
    <2>1. image.legato[half.legato] # "good"
      BY <1>5 DEF YaffsLegato, YaffsInv
    <2> QED
      BY <1>2, <1>3, <1>5, <2>1 DEF Names
  <1>6. CASE MountModem /\ YaffsTakes("modem", half.modem)
    <2>1. image.modem[half.modem] # "good" \/ UNCHANGED image
      BY <1>6 DEF MountModem, IsUbi
    <2> QED
      BY <1>2, <1>3, <1>6, <2>1 DEF Names
  <1> QED
    BY <1>1, <1>4, <1>5, <1>6, ImageStep

LEMMA BootableStays ==
  ASSUME TypeOK, YaffsInv, ~faulted, [Next]_vars, Bootable
  PROVE  Bootable'
  <1>1. UNCHANGED platform
    BY PlatformStep
  <1>2. \A n \in Names, h \in Halves : image[n][h] = "good" => image'[n][h] = "good"
    BY GoodStays
  <1> QED
    BY <1>1, <1>2 DEF Bootable, Names, Halves

(* The half that is needed is never marked.                                *)
LEMMA OffersLeft ==
  ASSUME TypeOK, MarkInv, faults = 0, Bootable, ~platform.slow, platform.dual
  PROVE  Offers(Linux) /\ Offers({"modem"})
  <1>1. \A n \in Names, h \in Halves : image[n][h] = "good" => <<n, h>> \notin marked
    BY DEF MarkInv, Deserved
  <1> QED
    BY <1>1 DEF Bootable, Offers, Clean, Linux, Names

(* Without a failure no script gives up: a single system uses half 1.      *)
LEMMA NeverDead ==
  ASSUME TypeOK, HalfSet, MarkInv, SameHalfInv, ~faulted, faults = 0, faults' = 0,
         [Next]_vars, Bootable, pc # "dead"
  PROVE  pc' # "dead"
  <1>1. ~Fault
    BY DEF Fault
  <1>2. ~platform.dual => half.system \in {0, 1} /\ image.system[1] = "good"
    BY DEF SameHalfInv, LinuxHalf, Bootable
  <1>3. CASE ImaSetup
    BY <1>1, <1>3 DEF ImaSetup, GoTo
  <1>4. CASE AttachRootfs
    <2>1. half.system # 0
      BY <1>4 DEF AttachRootfs, HalfSet
    <2>2. CASE ~RootfsFailed
      BY <1>4, <2>2 DEF AttachRootfs, GoTo
    <2>3. CASE RootfsFailed
      <3>1. image.system[half.system] # "good" \/ pc' # "dead"
        BY <1>1, <1>4 DEF AttachRootfs, GoTo
      <3> QED
        BY <1>2, <2>1, <2>3, <3>1 DEF RootfsFailed, Swap, GoTo
    <2> QED
      BY <2>2, <2>3
  <1>5. CASE MountRootfs
    <2>1. blk
      BY <1>5 DEF MountRootfs, MarkInv
    <2>2. (half.system # 0 /\ image.system[half.system] # "good") \/ pc' # "dead"
      BY <1>1, <1>5, <2>1 DEF MountRootfs, Succeeds, Fails, GoTo
    <2>3. RootfsFailed \/ pc' # "dead"
      BY <1>5 DEF MountRootfs, GoTo
    <2> QED
      BY <1>2, <2>2, <2>3 DEF RootfsFailed, Swap, GoTo
  <1> QED
    BY <1>3, <1>4, <1>5
    DEF Next, BootStep, InitSh, MountEarly, FindPartitions, BootLoader, LinuxFlag,
        CreateBlock, UserFailed, LegatoFlag, MountLegato, HandleLegatoFail,
        YaffsLegato, ModemFlag, MountModem, ModemFailed, DoSwap, Reset, Restart,
        GoTo, Swap, vars, boot

(* The scripts run one after the other and never go back.                  *)
LEMMA RankValues ==
  /\ Rank["off"] = 0 /\ Rank["ima"] = 1 /\ Rank["linux_flag"] = 2
  /\ Rank["attach_rootfs"] = 3 /\ Rank["ubiblock"] = 4 /\ Rank["mount_rootfs"] = 5
  /\ Rank["legato_flag"] = 6 /\ Rank["mount_legato"] = 7 /\ Rank["yaffs_legato"] = 8
  /\ Rank["modem_flag"] = 9 /\ Rank["mount_modem"] = 10
  /\ Rank["up"] = 11 /\ Rank["swap"] = 11 /\ Rank["dead"] = 11
  BY DEF Rank, Labels

LEMMA RankGrows ==
  ASSUME Next, ~DoSwap, ~Reset
  PROVE  pc # "swap" /\ Rank[pc'] > Rank[pc] /\ UNCHANGED marked
  <1>1. CASE BootLoader
    BY <1>1, RankValues DEF BootLoader, GoTo, storage
  <1>2. CASE ImaSetup
    BY <1>2, RankValues DEF ImaSetup, GoTo, storage
  <1>3. CASE LinuxFlag
    BY <1>3, RankValues DEF LinuxFlag, GoTo, storage
  <1>4. CASE AttachRootfs
    BY <1>4, RankValues DEF AttachRootfs, GoTo, storage, RootfsFailed, Swap
  <1>5. CASE CreateBlock
    BY <1>5, RankValues DEF CreateBlock, GoTo, storage
  <1>6. CASE MountRootfs
    BY <1>6, RankValues DEF MountRootfs, GoTo, storage, RootfsFailed, Swap
  <1>7. CASE UserFailed
    BY <1>7, RankValues DEF UserFailed, GoTo, storage
  <1>8. CASE LegatoFlag
    BY <1>8, RankValues DEF LegatoFlag, GoTo, storage
  <1>9. CASE MountLegato
    BY <1>9, RankValues DEF MountLegato, GoTo, storage, HandleLegatoFail, Swap
  <1>10. CASE YaffsLegato
    BY <1>10, RankValues DEF YaffsLegato, GoTo, storage
  <1>11. CASE ModemFlag
    BY <1>11, RankValues DEF ModemFlag, GoTo, storage
  <1>12. CASE MountModem
    BY <1>12, RankValues DEF MountModem, GoTo, storage, ModemFailed, Swap
  <1> QED
    BY <1>1, <1>2, <1>3, <1>4, <1>5, <1>6, <1>7, <1>8, <1>9, <1>10, <1>11, <1>12
    DEF Next, BootStep, InitSh, MountEarly, FindPartitions

CloserInv ==
    /\ TypeOK /\ HalfSet /\ MarkInv /\ SameHalfInv /\ YaffsInv /\ ProgressInv
    /\ Counted

(* Every step of the boot of a bootable module gets it closer to being up, *)
(* on any flash and platform, after any number of resets: no script gives  *)
(* up, the boot never goes back, and a reboot marks a new image that is    *)
(* not needed. There are six images; with the fairness of the boot, this   *)
(* is why the module comes up.                                             *)
THEOREM BootsGetCloser == Spec => GetsCloser
  <1>1. CloserInv /\ [Next]_vars
        => [faults' = 0 /\ UNCHANGED resets /\ Bootable /\ ~platform.slow =>
               /\ pc' # "dead" /\ Bootable'
               /\ \/ victim \in marked' \ marked /\ image[victim[1]][victim[2]] # "good"
                  \/ pc # "swap" /\ Rank[pc'] > Rank[pc] /\ UNCHANGED marked]_vars
    <2> SUFFICES ASSUME CloserInv, Next, faults' = 0, UNCHANGED resets, Bootable,
                        ~platform.slow
                 PROVE  /\ pc' # "dead" /\ Bootable'
                        /\ \/ victim \in marked' \ marked
                              /\ image[victim[1]][victim[2]] # "good"
                           \/ pc # "swap" /\ Rank[pc'] > Rank[pc] /\ UNCHANGED marked
      OBVIOUS
    <2> USE DEF CloserInv
    <2>1. faults = 0 /\ ~faulted
      BY FaultsGrow DEF Counted, TypeOK
    <2>2. ~Reset
      <3>1. resets \in Nat
        BY BoundsAssumption DEF BoundsAssumption, TypeOK, BudgetTyped
      <3> QED
        BY <3>1 DEF Reset
    <2>3. Bootable'
      BY <2>1, BootableStays
    <2>4. pc' # "dead"
      <3>1. pc # "dead"
        BY <2>2
        DEF Next, BootStep, InitSh, MountEarly, FindPartitions, BootLoader, ImaSetup,
            LinuxFlag, AttachRootfs, CreateBlock, MountRootfs, UserFailed, LegatoFlag,
            MountLegato, YaffsLegato, ModemFlag, MountModem, DoSwap
      <3> QED
        BY <2>1, <3>1, NeverDead
    <2>5. CASE DoSwap
      <3>1. pc = "swap" /\ platform.dual
        BY <2>5 DEF DoSwap, ProgressInv
      <3>2. victim \in marked'
        BY <2>1, <2>5 DEF DoSwap
      <3>3. victim \notin marked
        BY <2>1, <3>1, OffersLeft, VictimFresh
      <3>4. image[victim[1]][victim[2]] # "good"
        BY <2>1, <3>1 DEF MarkInv, Deserved
      <3> QED
        BY <2>3, <2>4, <3>2, <3>3, <3>4
    <2>6. CASE ~DoSwap
      BY <2>2, <2>3, <2>4, <2>6, RankGrows
    <2> QED
      BY <2>5, <2>6
  <1>2. Init => SameHalfInv /\ ProgressInv /\ YaffsInv /\ Counted
    BY DEF Init, SameHalfInv, ProgressInv, YaffsInv, Counted, Names
  <1> QED
    BY <1>1, <1>2, TypeInvariant, MarkInvInit, MarkInvStep, SameHalfInvStep,
       YaffsInvStep, ProgressInvStep, CountedStep, PTL
    DEF Spec, GetsCloser, CloserInv
=============================================================================
