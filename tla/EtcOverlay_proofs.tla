------------------------- MODULE EtcOverlay_proofs --------------------------
(***************************************************************************)
(* Proofs about EtcOverlay, for any bounds.                                 *)
(***************************************************************************)
EXTENDS EtcOverlay, TLAPS

LEMMA FaultTypes ==
    ASSUME TypeOK, NEW step \in {"flash", "format", "mdev", "copy", "bind"} \cup Dirs, Fault(step) \/ NoFault
    PROVE  /\ failed' \subseteq {"flash", "format", "mdev", "copy", "bind"} \cup Dirs
           /\ faults' \in 0..MaxFaults
<1>1. CASE Fault(step)
  BY <1>1, BoundsAssumption DEF Fault, TypeOK, BoundsAssumption
<1>2. CASE NoFault
  BY <1>2 DEF NoFault, TypeOK
<1> QED BY <1>1, <1>2

LEMMA NoFaultTypes ==
    ASSUME TypeOK, NoFault
    PROVE  /\ failed' \subseteq {"flash", "format", "mdev", "copy", "bind"} \cup Dirs
           /\ faults' \in 0..MaxFaults
BY DEF NoFault, TypeOK

LEMMA ContentTypes == 0 \in Contents /\ Missing \in Contents /\ Torn \in Contents
BY BoundsAssumption DEF Contents, BoundsAssumption

LEMMA WrittenTypes ==
    ASSUME TypeOK, NEW f \in Files, Written(f)
    PROVE  /\ edits + 1 \in Contents /\ edits' \in 0..MaxEdits
           /\ last' \in [Files -> 0..MaxEdits]
BY BoundsAssumption DEF Written, TypeOK, Contents, BoundsAssumption

LEMMA FileOrderOnto == \A f \in Files : \E i \in 1..3 : FileOrder[i] = f
<1>1. FileOrder[1] = "shadow" /\ FileOrder[2] = "dropbear" /\ FileOrder[3] = "securetty"
  BY DEF FileOrder
<1> QED BY <1>1 DEF Files

LEMMA FileOrderTypes == \A i \in 1..3 : FileOrder[i] \in Files
BY DEF FileOrder, Files

LEMMA TypeInit == Init => TypeOK
<1> SUFFICES ASSUME Init PROVE TypeOK
  OBVIOUS
<1>1. edits \in 0..MaxEdits /\ faults \in 0..MaxFaults /\ boots \in 0..MaxBoots /\ file \in 1..3 /\ 0 \in 0..MaxEdits
  BY BoundsAssumption DEF Init, BoundsAssumption
<1> QED BY <1>1, ContentTypes DEF Init, TypeOK, Steps

LEMMA TypeStep == TypeOK /\ [Next]_vars => TypeOK'
<1> SUFFICES ASSUME TypeOK, [Next]_vars PROVE TypeOK'
  OBVIOUS
<1> USE DEF TypeOK, Steps, overlay, binds, user
<1>1. CASE UserStart
  <2>1. failed' \subseteq {"flash", "format", "mdev", "copy", "bind"} \cup Dirs /\ faults' \in 0..MaxFaults
    BY <1>1, FaultTypes, NoFaultTypes DEF UserStart
  <2>2. 0 \in 0..MaxEdits
    BY BoundsAssumption DEF BoundsAssumption
  <2>3. /\ upper' \in [Files -> Contents] /\ copy' \in [Files -> Contents]
        /\ last' \in [Files -> 0..MaxEdits]
    BY <1>1, <2>2, ContentTypes DEF UserStart
  <2>4. flash' \in BOOLEAN
    BY <1>1, Zenon DEF UserStart
  <2> QED BY <1>1, <2>1, <2>3, <2>4 DEF UserStart
<1>2. CASE Start
  BY <1>2, NoFaultTypes DEF Start
<1>3. CASE HookFirst
  BY <1>3, FaultTypes, NoFaultTypes DEF HookFirst
<1>4. CASE HookSecond
  BY <1>4, FaultTypes, NoFaultTypes DEF HookSecond
<1>5. CASE DropSame
  BY <1>5, NoFaultTypes DEF DropSame
<1>6. CASE MountEtc
  BY <1>6, FaultTypes, NoFaultTypes DEF MountEtc, Mounted, NotMounted, Dirs
<1>7. CASE MountData
  BY <1>7, FaultTypes, NoFaultTypes DEF MountData, Mounted, NotMounted, Dirs
<1>8. CASE MountFirmware
  BY <1>8, FaultTypes, NoFaultTypes DEF MountFirmware, Mounted, NotMounted, Dirs
<1>9. CASE Fixup
  BY <1>9, NoFaultTypes DEF Fixup
<1>10. CASE CopyFile
  BY <1>10, FaultTypes, NoFaultTypes, FileOrderTypes, ContentTypes DEF CopyFile
<1>11. CASE BindFile
  BY <1>11, FaultTypes, NoFaultTypes, FileOrderTypes DEF BindFile
<1>12. CASE \E f \in Files : EditFile(f)
  BY <1>12, NoFaultTypes, WrittenTypes DEF EditFile
<1>13. CASE EditMdev
  BY <1>13, NoFaultTypes DEF EditMdev
<1>14. CASE Passwd
  BY <1>14, NoFaultTypes, WrittenTypes DEF Passwd, Files
<1>15. CASE Remount
  BY <1>15, FaultTypes, NoFaultTypes, ContentTypes DEF Remount, Files
<1>16. CASE Stop
  BY <1>16, NoFaultTypes DEF Stop
<1>17. CASE PowerOff
  <2>1. boots' \in 0..MaxBoots /\ file' \in 1..3
    BY <1>17, BoundsAssumption DEF PowerOff, BoundsAssumption
  <2>2. copy' \in [Files -> Contents] /\ shown' \in [Files -> Contents]
    BY <1>17, FileOrderTypes, ContentTypes DEF PowerOff
  <2>3. flash' \in BOOLEAN /\ flag' \in BOOLEAN
    BY <1>17, Zenon DEF PowerOff
  <2>4. pc' \in Steps /\ failed' = {} /\ over' = {}
    BY <1>17 DEF PowerOff
  <2>5. UNCHANGED <<platform, mdev, upper, edits, last, faults>>
    BY <1>17 DEF PowerOff
  <2> QED BY <2>1, <2>2, <2>3, <2>4, <2>5
<1>18. CASE UNCHANGED vars
  BY <1>18 DEF vars
<1> QED BY <1>1, <1>2, <1>3, <1>4, <1>5, <1>6, <1>7, <1>8, <1>9, <1>10, <1>11,
          <1>12, <1>13, <1>14, <1>15, <1>16, <1>17, <1>18 DEF Next

\* Every variable keeps its type, whatever fails and whenever power goes.
THEOREM TypeCorrect == Spec => []TypeOK
BY TypeInit, TypeStep, PTL DEF Spec

(***************************************************************************)
(* The inductive invariant                                                  *)
(***************************************************************************)

Base == IF platform.ima THEN {} ELSE {"etc"}

\* Which overlays are there at each step of mount_unionfs_start.
Overlays ==
    /\ pc \in {"off", "start", "mdev", "mdev2", "diff", "etc"} => over = {} /\ ~flag
    /\ pc \in {"mdev", "mdev2", "diff", "etc"} => EtcWanted
    /\ pc = "data" => Allowed /\ over = Base /\ (flag <=> ~platform.ima)
    /\ pc = "firmware" =>
          /\ Allowed /\ platform.firmware
          /\ over = Base \cup {"data"} /\ (flag <=> ~platform.ima)
    /\ over # {} => flash
    /\ "etc" \in over => EtcWanted
    /\ OverlayOutcome

\* The binds that stand for the overlay of /etc.
FlashThere == pc # "off" => flash \/ "flash" \in failed
NotOverlaid == pc \in {"copy", "bind", "remount"} => "etc" \notin over
EarlierShown ==
    pc \in {"copy", "bind"} =>
        \A i \in 1..3 : i < file => shown[FileOrder[i]] # Missing
CopyThere == pc = "bind" => copy[FileOrder[file]] # Missing \/ "copy" \in failed
ShadowThere == pc = "remount" => copy["shadow"] # Missing
AllShown ==
    pc \in {"up", "remount"} /\ failed \cap {"flash", "copy", "bind"} = {} =>
        "etc" \in over \/ \A f \in Files : shown[f] # Missing

Binds == FlashThere /\ NotOverlaid /\ EarlierShown /\ CopyThere /\ ShadowThere /\ AllShown

\* The files that hold the edits, and what is shown of them.
UpperKept ==
    EtcWanted =>
        \A f \in Files : upper[f] = last[f] \/ (upper[f] = Missing /\ last[f] = 0)
CopyKept ==
    ~EtcWanted =>
        \A f \in Files : copy[f] = last[f] \/ (copy[f] \in {Missing, Torn} /\ last[f] = 0)
ShownFresh ==
    \A f \in Files : shown[f] # Missing =>
        shown[f] = copy[f] \/ (pc = "remount" /\ f = "shadow")
ShownLate ==
    "etc" \in over \/ pc \in {"off", "start", "mdev", "mdev2", "diff", "etc", "data",
                              "firmware", "fixup"} =>
        \A f \in Files : shown[f] = Missing
EtcThere ==
    EtcWanted /\ failed = {} /\ pc \in {"fixup", "copy", "bind", "up", "remount"} =>
        "etc" \in over

Kept == UpperKept /\ CopyKept /\ ShownFresh /\ ShownLate /\ EtcThere

Invariant == TypeOK /\ Overlays /\ Binds /\ Kept

(***************************************************************************)
(* The overlays                                                             *)
(***************************************************************************)

LEMMA OverlaysInit == Init => Overlays
BY DEF Init, Overlays, OverlayOutcome

LEMMA OverlaysStep == TypeOK /\ Overlays /\ [Next]_vars => Overlays'
<1> SUFFICES ASSUME TypeOK, Overlays, [Next]_vars PROVE Overlays'
  OBVIOUS
<1> USE DEF Overlays, OverlayOutcome, Base, Wanted, EtcWanted, Allowed, overlay, NoFault
<1>1. CASE UserStart
  BY <1>1 DEF UserStart, Fault
<1>2. CASE Start
  BY <1>2 DEF Start, TypeOK
<1>3. CASE HookFirst
  BY <1>3 DEF HookFirst
<1>4. CASE HookSecond
  BY <1>4 DEF HookSecond
<1>5. CASE DropSame
  BY <1>5 DEF DropSame
<1>6. CASE MountEtc
  BY <1>6 DEF MountEtc, Mounted, NotMounted, Fault
<1>7. CASE MountData
  BY <1>7 DEF MountData, Mounted, NotMounted, Fault, TypeOK
<1>8. CASE MountFirmware
  BY <1>8 DEF MountFirmware, Mounted, NotMounted, Fault, TypeOK
<1>9. CASE Fixup
  BY <1>9 DEF Fixup
<1>10. CASE CopyFile
  BY <1>10 DEF CopyFile, Fault
<1>11. CASE BindFile
  BY <1>11 DEF BindFile, Fault
<1>12. CASE \E f \in Files : EditFile(f)
  BY <1>12 DEF EditFile
<1>13. CASE EditMdev
  BY <1>13 DEF EditMdev
<1>14. CASE Passwd
  BY <1>14 DEF Passwd
<1>15. CASE Remount
  BY <1>15 DEF Remount, Fault
<1>16. CASE Stop
  BY <1>16 DEF Stop
<1>17. CASE PowerOff
  BY <1>17 DEF PowerOff
<1>18. CASE UNCHANGED vars
  BY <1>18 DEF vars
<1> QED BY <1>1, <1>2, <1>3, <1>4, <1>5, <1>6, <1>7, <1>8, <1>9, <1>10, <1>11, <1>12, <1>13, <1>14, <1>15, <1>16, <1>17, <1>18 DEF Next

(***************************************************************************)
(* The binds                                                                *)
(***************************************************************************)

LEMMA BindsInit == Init => Binds
BY DEF Init, Binds, FlashThere, NotOverlaid, EarlierShown, CopyThere, ShadowThere, AllShown

LEMMA BindsStep == TypeOK /\ Overlays /\ Binds /\ Kept /\ [Next]_vars => Binds'
<1> SUFFICES ASSUME TypeOK, Overlays, Binds, Kept, [Next]_vars PROVE Binds'
  OBVIOUS
<1> USE DEF Binds, FlashThere, NotOverlaid, EarlierShown, CopyThere, ShadowThere, AllShown,
             overlay, binds, user, NoFault
<1>1. CASE UserStart
  BY <1>1 DEF UserStart, Fault
<1>2. CASE Start
  BY <1>2 DEF Start
<1>3. CASE HookFirst
  BY <1>3 DEF HookFirst, Fault
<1>4. CASE HookSecond
  BY <1>4 DEF HookSecond, Fault
<1>5. CASE DropSame
  BY <1>5 DEF DropSame
<1>6. CASE MountEtc
  BY <1>6 DEF MountEtc, Mounted, NotMounted, Fault
<1>7. CASE MountData
  BY <1>7 DEF MountData, Mounted, NotMounted, Fault
<1>8. CASE MountFirmware
  BY <1>8 DEF MountFirmware, Mounted, NotMounted, Fault
<1>9. CASE Fixup
  BY <1>9 DEF Fixup
<1>10. CASE CopyFile
  <2>1. FlashThere' /\ NotOverlaid' /\ EarlierShown' /\ ShadowThere' /\ AllShown'
    BY <1>10 DEF CopyFile, Fault
  <2>2. CopyThere'
    BY <1>10, FileOrderTypes DEF CopyFile, Fault, TypeOK, Missing
  <2> QED BY <2>1, <2>2
<1>11. CASE BindFile
  <2>1. FlashThere' /\ NotOverlaid' /\ CopyThere' /\ ShadowThere'
    BY <1>11 DEF BindFile, Fault
  <2>2. EarlierShown'
    BY <1>11, FileOrderTypes DEF BindFile, TypeOK
  <2>3. AllShown'
    BY <1>11, FileOrderTypes, FileOrderOnto DEF BindFile, Fault, TypeOK
  <2> QED BY <2>1, <2>2, <2>3
<1>12. CASE \E f \in Files : EditFile(f)
  <2>1. FlashThere' /\ NotOverlaid' /\ EarlierShown' /\ CopyThere' /\ ShadowThere'
    BY <1>12 DEF EditFile
  <2>2. AllShown'
    BY <1>12 DEF EditFile, Written, TypeOK, Missing
  <2> QED BY <2>1, <2>2
<1>13. CASE EditMdev
  BY <1>13 DEF EditMdev
<1>14. CASE Passwd
  <2>1. FlashThere' /\ NotOverlaid' /\ EarlierShown' /\ CopyThere' /\ AllShown'
    BY <1>14 DEF Passwd
  <2>2. ShadowThere'
    BY <1>14 DEF Passwd, Written, TypeOK, Missing, Files
  <2> QED BY <2>1, <2>2
<1>15. CASE Remount
  <2>1. FlashThere' /\ NotOverlaid' /\ EarlierShown' /\ CopyThere' /\ ShadowThere'
    BY <1>15 DEF Remount, Fault
  <2>2. AllShown'
    BY <1>15 DEF Remount, Fault, TypeOK
  <2> QED BY <2>1, <2>2
<1>16. CASE Stop
  BY <1>16 DEF Stop
<1>17. CASE PowerOff
  BY <1>17 DEF PowerOff
<1>18. CASE UNCHANGED vars
  BY <1>18 DEF vars
<1> QED BY <1>1, <1>2, <1>3, <1>4, <1>5, <1>6, <1>7, <1>8, <1>9, <1>10, <1>11, <1>12, <1>13, <1>14, <1>15, <1>16, <1>17, <1>18 DEF Next

(***************************************************************************)
(* The edits                                                                *)
(***************************************************************************)

LEMMA KeptInit == Init => Kept
BY DEF Init, Kept, UpperKept, CopyKept, ShownFresh, ShownLate, EtcThere, Missing, Files

LEMMA KeptStep == TypeOK /\ Overlays /\ Binds /\ Kept /\ [Next]_vars => Kept'
<1> SUFFICES ASSUME TypeOK, Overlays, Binds, Kept, [Next]_vars PROVE Kept'
  OBVIOUS
<1> USE DEF Kept, UpperKept, CopyKept, ShownFresh, ShownLate, EtcThere, EtcWanted, Allowed,
             Missing, Torn, overlay, binds, user, NoFault
<1>1. CASE UserStart
  BY <1>1 DEF UserStart, Fault
<1>2. CASE Start
  BY <1>2 DEF Start
<1>3. CASE HookFirst
  BY <1>3 DEF HookFirst
<1>4. CASE HookSecond
  BY <1>4 DEF HookSecond
<1>5. CASE DropSame
  BY <1>5 DEF DropSame
<1>6. CASE MountEtc
  <2>1. UpperKept' /\ CopyKept' /\ ShownFresh' /\ ShownLate'
    BY <1>6 DEF MountEtc, Mounted
  <2>2. EtcThere'
    BY <1>6 DEF MountEtc, Mounted, NotMounted, Fault, Overlays, Base, Binds, FlashThere
  <2> QED BY <2>1, <2>2
<1>7. CASE MountData
  <2>1. UpperKept' /\ CopyKept' /\ ShownFresh' /\ ShownLate'
    BY <1>7 DEF MountData, Mounted
  <2>2. EtcThere'
    BY <1>7 DEF MountData, Mounted, NotMounted, Fault, Overlays, Base, Binds, FlashThere
  <2> QED BY <2>1, <2>2
<1>8. CASE MountFirmware
  <2>1. UpperKept' /\ CopyKept' /\ ShownFresh' /\ ShownLate'
    BY <1>8 DEF MountFirmware, Mounted
  <2>2. EtcThere'
    BY <1>8 DEF MountFirmware, Mounted, NotMounted, Fault, Overlays, Base, Binds, FlashThere
  <2> QED BY <2>1, <2>2
<1>9. CASE Fixup
  BY <1>9 DEF Fixup
<1>10. CASE CopyFile
  <2>1. UpperKept' /\ ShownLate' /\ EtcThere'
    BY <1>10 DEF CopyFile, Fault
  <2>2. CopyKept'
    BY <1>10, FileOrderTypes DEF CopyFile, TypeOK
  <2>3. ShownFresh'
    BY <1>10, FileOrderTypes DEF CopyFile, TypeOK
  <2> QED BY <2>1, <2>2, <2>3
<1>11. CASE BindFile
  <2>1. UpperKept' /\ CopyKept' /\ EtcThere'
    BY <1>11 DEF BindFile, Fault
  <2>2. ShownFresh'
    BY <1>11, FileOrderTypes DEF BindFile, TypeOK
  <2>3. ShownLate'
    BY <1>11 DEF BindFile, Binds, NotOverlaid
  <2> QED BY <2>1, <2>2, <2>3
<1>12. CASE \E f \in Files : EditFile(f)
  <2> PICK g \in Files : EditFile(g)
    BY <1>12
  <2>1. EtcThere' /\ ShownLate'
    BY DEF EditFile
  <2>2. UpperKept'
    BY DEF EditFile, Written, AsIntended, TypeOK
  <2>3. CopyKept'
    <3>1. CASE EtcWanted
      BY <3>1 DEF EditFile
    <3>2. CASE ~EtcWanted
      <4>1. AsIntended /\ "etc" \notin over
        BY <3>2 DEF AsIntended, Overlays
      <4>2. copy' = [copy EXCEPT ![g] = edits + 1] /\ last' = [last EXCEPT ![g] = edits + 1]
        BY <4>1 DEF EditFile, Written
      <4> QED BY <4>2 DEF TypeOK, EditFile
    <3> QED BY <3>1, <3>2
  <2>4. ShownFresh'
    BY DEF EditFile, TypeOK
  <2> QED BY <2>1, <2>2, <2>3, <2>4
<1>13. CASE EditMdev
  BY <1>13 DEF EditMdev
<1>14. CASE Passwd
  <2>1. EtcThere' /\ ShownLate'
    BY <1>14 DEF Passwd
  <2>2. UpperKept'
    <3>1. CASE EtcWanted
      BY <1>14, <3>1 DEF Passwd, Written, AsIntended
    <3> QED BY <3>1, <1>14 DEF Passwd
  <2>3. CopyKept'
    <3>1. CASE EtcWanted
      BY <1>14, <3>1 DEF Passwd
    <3>2. CASE ~EtcWanted
      <4>1. /\ copy' = [copy EXCEPT !["shadow"] = edits + 1]
            /\ last' = [last EXCEPT !["shadow"] = edits + 1]
        BY <1>14, <3>2 DEF Passwd, Written, AsIntended, Overlays
      <4> QED BY <1>14, <4>1 DEF TypeOK, Passwd, Files
    <3> QED BY <3>1, <3>2
  <2>4. ShownFresh'
    BY <1>14 DEF Passwd, TypeOK, Files
  <2> QED BY <2>1, <2>2, <2>3, <2>4
<1>15. CASE Remount
  <2>1. UpperKept' /\ CopyKept' /\ EtcThere'
    BY <1>15 DEF Remount, Fault
  <2>2. ShownFresh'
    BY <1>15 DEF Remount, TypeOK, Files
  <2>3. ShownLate'
    BY <1>15 DEF Remount, Binds, NotOverlaid
  <2> QED BY <2>1, <2>2, <2>3
<1>16. CASE Stop
  BY <1>16 DEF Stop
<1>17. CASE PowerOff
  <2>1. UpperKept' /\ EtcThere'
    BY <1>17 DEF PowerOff
  <2>2. CopyKept'
    BY <1>17, FileOrderTypes DEF PowerOff, TypeOK
  <2>3. ShownFresh' /\ ShownLate'
    BY <1>17 DEF PowerOff
  <2> QED BY <2>1, <2>2, <2>3
<1>18. CASE UNCHANGED vars
  BY <1>18 DEF vars
<1> QED BY <1>1, <1>2, <1>3, <1>4, <1>5, <1>6, <1>7, <1>8, <1>9, <1>10, <1>11, <1>12, <1>13, <1>14, <1>15, <1>16, <1>17, <1>18 DEF Next

(***************************************************************************)
(* The promise about /etc                                                   *)
(***************************************************************************)

\* Before the overlays there is no sign of their failures yet.
NothingYet ==
    /\ pc = "off" => ~flash
    /\ pc \in {"off", "start", "mdev", "mdev2", "diff", "etc", "data", "firmware"} =>
           failed \cap {"data", "firmware"} = {}
    /\ Settled /\ (flag \/ "etc" \in over) => flash
    /\ Settled /\ "etc" \in over => failed \cap {"data", "firmware"} = {}

LEMMA NothingYetInit == Init => NothingYet
BY DEF Init, NothingYet, Settled

LEMMA NothingYetStep == TypeOK /\ Overlays /\ NothingYet /\ [Next]_vars => NothingYet'
<1> SUFFICES ASSUME TypeOK, Overlays, NothingYet, [Next]_vars PROVE NothingYet'
  OBVIOUS
<1> USE DEF NothingYet, Settled, overlay, NoFault, Fault
<1>1. CASE UserStart
  BY <1>1 DEF UserStart
<1>2. CASE Start
  BY <1>2 DEF Start, Overlays
<1>3. CASE HookFirst
  BY <1>3 DEF HookFirst
<1>4. CASE HookSecond
  BY <1>4 DEF HookSecond
<1>5. CASE DropSame
  BY <1>5 DEF DropSame
<1>6. CASE MountEtc
  BY <1>6 DEF MountEtc, Mounted, NotMounted, Overlays
<1>7. CASE MountData
  BY <1>7 DEF MountData, Mounted, NotMounted, Overlays, Base
<1>8. CASE MountFirmware
  BY <1>8 DEF MountFirmware, Mounted, NotMounted, Overlays, Base
<1>9. CASE Fixup
  BY <1>9 DEF Fixup
<1>10. CASE CopyFile
  BY <1>10 DEF CopyFile
<1>11. CASE BindFile
  BY <1>11 DEF BindFile
<1>12. CASE \E f \in Files : EditFile(f)
  BY <1>12 DEF EditFile
<1>13. CASE EditMdev
  BY <1>13 DEF EditMdev
<1>14. CASE Passwd
  BY <1>14 DEF Passwd
<1>15. CASE Remount
  BY <1>15 DEF Remount
<1>16. CASE Stop
  BY <1>16 DEF Stop
<1>17. CASE PowerOff
  BY <1>17 DEF PowerOff
<1>18. CASE UNCHANGED vars
  BY <1>18 DEF vars
<1> QED BY <1>1, <1>2, <1>3, <1>4, <1>5, <1>6, <1>7, <1>8, <1>9, <1>10, <1>11, <1>12, <1>13, <1>14, <1>15, <1>16, <1>17, <1>18 DEF Next

LEMMA MountStep ==
    ASSUME TypeOK, Overlays, NothingYet, [Next]_vars
    PROVE  [Mount!Next]_(Mount!vars)
<1> USE DEF Settled, Mount!vars, overlay, NoFault
<1>1. CASE UserStart
  <2>1. ~Settled /\ ~Settled' /\ flash = FALSE
    BY <1>1 DEF UserStart, NothingYet, TypeOK
  <2>2. flash' \in BOOLEAN
    BY <1>1, Zenon DEF UserStart
  <2>3. UNCHANGED <<Settled, Settled /\ "etc" \in over, Settled /\ flag,
                    Settled /\ failed \cap {"data", "firmware"} # {}>>
    BY <1>1 DEF UserStart, Fault
  <2>4. flash' = TRUE \/ flash' = flash
    BY <2>1, <2>2
  <2>5. Mount!Begin \/ UNCHANGED Mount!vars
    BY <2>1, <2>3, <2>4 DEF Mount!Begin
  <2> QED BY <2>5 DEF Mount!Next
<1>2. CASE Start
  <2>1. Mount!Settle \/ UNCHANGED Mount!vars
    BY <1>2 DEF Start, Mount!Settle, Overlays, NothingYet
  <2> QED BY <2>1 DEF Mount!Next
<1>3. CASE HookFirst
  BY <1>3 DEF HookFirst
<1>4. CASE HookSecond
  BY <1>4 DEF HookSecond
<1>5. CASE DropSame
  BY <1>5 DEF DropSame
<1>6. CASE MountEtc
  <2>1. Mount!Settle \/ UNCHANGED Mount!vars
    BY <1>6 DEF MountEtc, Mount!Settle, Mounted, NotMounted, Fault, Overlays, NothingYet
  <2> QED BY <2>1 DEF Mount!Next
<1>7. CASE MountData
  <2>1. Mount!Settle \/ UNCHANGED Mount!vars
    BY <1>7 DEF MountData, Mount!Settle, Mounted, NotMounted, Fault, Overlays, Base, NothingYet
  <2> QED BY <2>1 DEF Mount!Next
<1>8. CASE MountFirmware
  <2>1. Mount!Settle \/ UNCHANGED Mount!vars
    BY <1>8 DEF MountFirmware, Mount!Settle, Mounted, NotMounted, Fault, Overlays, Base, NothingYet
  <2> QED BY <2>1 DEF Mount!Next
<1>9. CASE Fixup
  BY <1>9 DEF Fixup
<1>10. CASE CopyFile
  BY <1>10 DEF CopyFile, Fault
<1>11. CASE BindFile
  BY <1>11 DEF BindFile, Fault
<1>12. CASE \E f \in Files : EditFile(f)
  BY <1>12 DEF EditFile
<1>13. CASE EditMdev
  BY <1>13 DEF EditMdev
<1>14. CASE Passwd
  BY <1>14 DEF Passwd
<1>15. CASE Remount
  BY <1>15 DEF Remount, Fault
<1>16. CASE Stop
  <2>1. Mount!Stop
    BY <1>16 DEF Stop, Mount!Stop, Overlays, EtcWanted
  <2> QED BY <2>1 DEF Mount!Next
<1>17. CASE PowerOff
  <2>1. Mount!PowerOff
    BY <1>17 DEF PowerOff, Mount!PowerOff, Mount!Init
  <2> QED BY <2>1 DEF Mount!Next
<1>18. CASE UNCHANGED vars
  BY <1>18 DEF vars
<1> QED BY <1>1, <1>2, <1>3, <1>4, <1>5, <1>6, <1>7, <1>8, <1>9, <1>10, <1>11, <1>12, <1>13, <1>14, <1>15, <1>16, <1>17, <1>18 DEF Next

(***************************************************************************)
(* The theorems                                                             *)
(***************************************************************************)

LEMMA InvariantHolds == Spec => []Invariant
<1>1. Init => Invariant
  BY TypeInit, OverlaysInit, BindsInit, KeptInit DEF Invariant
<1>2. Invariant /\ [Next]_vars => Invariant'
  BY TypeStep, OverlaysStep, BindsStep, KeptStep DEF Invariant
<1> QED BY <1>1, <1>2, PTL DEF Spec

\* mount_unionfs_start leaves all the wanted overlays or none, and its flag errs
\* only after a later overlay failed.
THEOREM OverlaysAllOrNone == Spec => []OverlayOutcome
<1>1. Invariant => OverlayOutcome
  BY DEF Invariant, Overlays
<1> QED BY <1>1, InvariantHolds, PTL

\* The nagger's files can be written once the system is up with /mnt/flash.
THEOREM FilesReady == Spec => []NaggerReady
<1>1. Invariant => NaggerReady
  BY DEF Invariant, Binds, AllShown, NaggerReady
<1> QED BY <1>1, InvariantHolds, PTL

\* Any number of edits, of boots, of failures and of power cuts: what is in
\* front of the user in a boot that went well is the last edit.
THEOREM LastEditKept == Spec => []EditsKept
<1>1. ASSUME Invariant PROVE EditsKept
  <2> SUFFICES ASSUME pc = "up", failed = {}, NEW f \in Files
                PROVE Visible(f) \in {last[f], Torn}
    BY DEF EditsKept
  <2>1. CASE EtcWanted
    BY <1>1, <2>1 DEF Invariant, Kept, UpperKept, ShownLate, EtcThere, Visible, TypeOK, Missing
  <2>2. CASE ~EtcWanted
    <3>1. "etc" \notin over
      BY <1>1, <2>2 DEF Invariant, Overlays
    <3>2. shown[f] # Missing
      BY <1>1, <3>1 DEF Invariant, Binds, AllShown
    <3> QED BY <1>1, <2>2, <3>2 DEF Invariant, Kept, CopyKept, ShownFresh, Visible
  <2> QED BY <2>1, <2>2
<1> QED BY <1>1, InvariantHolds, PTL
\* For the functions after it, mount_unionfs_start is EtcMount: the states of
\* every boot map to it, and every step to one of its steps or to none.
THEOREM OverlayImplementsMount == Spec => MountSpec
<1>1. Init => Mount!Init
  BY DEF Init, Mount!Init, Settled
<1>2. TypeOK /\ Overlays /\ NothingYet /\ [Next]_vars => NothingYet'
  BY NothingYetStep
<1>3. TypeOK /\ Overlays /\ NothingYet /\ [Next]_vars => [Mount!Next]_(Mount!vars)
  BY MountStep
<1>4. Invariant => TypeOK /\ Overlays
  BY DEF Invariant
<1> QED BY <1>1, <1>2, <1>3, <1>4, NothingYetInit, InvariantHolds, PTL DEF Spec, MountSpec, Mount!Spec

=============================================================================
