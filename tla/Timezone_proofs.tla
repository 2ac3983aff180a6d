-------------------------- MODULE Timezone_proofs ---------------------------
(***************************************************************************)
(* Proofs about Timezone, for any set of tools and zones and any bounds.    *)
(***************************************************************************)
EXTENDS Timezone, TLAPS

(***************************************************************************)
(* The stack of binds                                                       *)
(***************************************************************************)

LEMMA PopTypes == \A s \in Seq(Zones) : Pop(s) \in Seq(Zones)
<1> SUFFICES ASSUME NEW s \in Seq(Zones), s # <<>> PROVE SubSeq(s, 1, Len(s) - 1) \in Seq(Zones)
  BY DEF Pop
<1> QED OBVIOUS

LEMMA TopOfAppend ==
    \A s \in Seq(Zones), z \in Zones :
        /\ Append(s, z) \in Seq(Zones) /\ Append(s, z) # <<>>
        /\ Append(s, z)[Len(Append(s, z))] = z
OBVIOUS

LEMMA PushShows ==
    ASSUME NEW s \in Seq(Zones), NEW z \in Zones, binds' = Append(s, z)
    PROVE  Localtime' = z
BY TopOfAppend DEF Localtime

(***************************************************************************)
(* Types                                                                    *)
(***************************************************************************)

StepNames == {"early", "overlay", "tz", "local", "bind", "kill"}

LEMMA FaultTypes ==
    ASSUME TypeOK, NEW step \in StepNames, Fault(step)
    PROVE  failed' \subseteq StepNames /\ faults' \in 0..MaxFaults
BY BoundsAssumption DEF Fault, TypeOK, BoundsAssumption, StepNames

LEMMA NoFaultTypes ==
    ASSUME TypeOK, NoFault
    PROVE  failed' \subseteq StepNames /\ faults' \in 0..MaxFaults
BY DEF NoFault, TypeOK, StepNames

LEMMA FixedTypes == Fixed \in Zones
BY ZonesAssumption DEF Fixed, ZonesAssumption

\* What tzoneset binds is a zone, although it may have been told anything.
WantKnown == \A t \in Tools : at[t] \in {"umount", "bind", "echo"} => want[t] \in Zones

LEMMA TypeInit == Init => TypeOK /\ WantKnown
<1> SUFFICES ASSUME Init PROVE TypeOK /\ WantKnown
  OBVIOUS
<1>1. faults \in 0..MaxFaults /\ boots \in 0..MaxBoots /\ calls \in 0..MaxCalls
  BY BoundsAssumption DEF Init, BoundsAssumption
<1>2. tmp \in Names \cup {None} /\ binds \in Seq(Zones) /\ chosen \in Names \cup {None}
  BY DEF Init
<1>3. flag \in BOOLEAN /\ lock \in BOOLEAN /\ writable \in BOOLEAN
  BY Zenon DEF Init
<1>4. at \in [Tools -> {"idle", "touch", "umount", "bind", "echo", "unlock"}]
  BY DEF Init
<1>5. want \in [Tools -> Names]
  BY DEF Init, Names
<1> QED BY <1>1, <1>2, <1>3, <1>4, <1>5 DEF Init, TypeOK, WantKnown

LEMMA TypeStep == TypeOK /\ WantKnown /\ [Next]_vars => TypeOK'
<1> SUFFICES ASSUME TypeOK, WantKnown, [Next]_vars PROVE TypeOK'
  OBVIOUS
<1> USE DEF TypeOK, tz, etc, tool, StepNames, Go
<1>1. CASE SetTimezone
  <2>1. failed' \subseteq StepNames /\ faults' \in 0..MaxFaults
    BY <1>1, FaultTypes, NoFaultTypes DEF SetTimezone
  <2>2. binds' \in Seq(Zones)
    BY <1>1, ZonesAssumption DEF SetTimezone, ZonesAssumption
  <2> QED BY <1>1, <2>1, <2>2 DEF SetTimezone
<1>2. CASE Overlay
  <2>1. failed' \subseteq StepNames /\ faults' \in 0..MaxFaults
    BY <1>2, FaultTypes, NoFaultTypes DEF Overlay
  <2>2. writable' \in BOOLEAN /\ flag' \in BOOLEAN
    BY <1>2, Zenon DEF Overlay, Mount!Settle
  <2> QED BY <1>2, <2>1, <2>2 DEF Overlay
<1>3. CASE SetTimezoneWritable
  <2>1. failed' \subseteq StepNames /\ faults' \in 0..MaxFaults
    BY <1>3, FaultTypes, NoFaultTypes DEF SetTimezoneWritable
  <2>2. tmp' \in Names \cup {None}
    BY <1>3, ZonesAssumption DEF SetTimezoneWritable, Timezone, Names, ZonesAssumption
  <2> QED BY <1>3, <2>1, <2>2 DEF SetTimezoneWritable
<1>4. CASE LocaltimeFixup
  <2>1. failed' \subseteq StepNames /\ faults' \in 0..MaxFaults
    BY <1>4, FaultTypes, NoFaultTypes DEF LocaltimeFixup
  <2>2. binds' \in Seq(Zones)
    BY <1>4, FixedTypes, PopTypes, TopOfAppend DEF LocaltimeFixup
  <2>3. upper' \in Names \cup {None}
    BY <1>4, FixedTypes DEF LocaltimeFixup, Names
  <2>4. badLink' \in BOOLEAN
    BY <1>4, Zenon DEF LocaltimeFixup
  <2> QED BY <1>4, <2>1, <2>2, <2>3, <2>4 DEF LocaltimeFixup
<1>5. CASE Stop
  BY <1>5, NoFaultTypes DEF Stop
<1>6. CASE PowerOff
  <2>1. boots' \in 0..MaxBoots /\ calls' \in 0..MaxCalls
    BY <1>6, BoundsAssumption DEF PowerOff, BoundsAssumption
  <2>2. upper' \in Names \cup {None} /\ chosen' \in Names \cup {None}
    BY <1>6 DEF PowerOff, Names
  <2>3. /\ writable' \in BOOLEAN /\ flag' \in BOOLEAN /\ lock' \in BOOLEAN
        /\ UNCHANGED <<badLink, rootfs, want, faults>>
    BY <1>6, Zenon DEF PowerOff
  <2>4. at' \in [Tools -> {"idle", "touch", "umount", "bind", "echo", "unlock"}]
    BY <1>6 DEF PowerOff
  <2>5. tmp' = None /\ binds' = <<>> /\ pc' = "off" /\ failed' = {}
    BY <1>6 DEF PowerOff
  <2> QED BY <2>1, <2>2, <2>3, <2>4, <2>5
<1>7. ASSUME NEW t \in Tools, TestLock(t) PROVE TypeOK'
  <2>1. calls' \in 0..MaxCalls
    BY <1>7, BoundsAssumption DEF TestLock, BoundsAssumption
  <2>2. UNCHANGED <<rootfs, tz, etc, lock, pc, boots, faults, failed>>
    BY <1>7 DEF TestLock, NoFault
  <2>3. want' \in [Tools -> Names]
    BY <1>7 DEF TestLock
  <2>4. at' \in [Tools -> {"idle", "touch", "umount", "bind", "echo", "unlock"}]
    BY <1>7 DEF TestLock
  <2> QED BY <2>1, <2>2, <2>3, <2>4
<1>8. ASSUME NEW t \in Tools, TouchLock(t) PROVE TypeOK'
  BY <1>8, NoFaultTypes DEF TouchLock
<1>9. ASSUME NEW t \in Tools, Umount(t) PROVE TypeOK'
  BY <1>9, NoFaultTypes, PopTypes DEF Umount
<1>10. ASSUME NEW t \in Tools, Bind(t) PROVE TypeOK'
  <2>1. binds' \in Seq(Zones)
    BY <1>10, TopOfAppend DEF Bind, WantKnown
  <2> QED BY <1>10, <2>1, FaultTypes, NoFaultTypes DEF Bind
<1>11. ASSUME NEW t \in Tools, Echo(t) PROVE TypeOK'
  BY <1>11, NoFaultTypes DEF Echo
<1>12. ASSUME NEW t \in Tools, Unlock(t) PROVE TypeOK'
  BY <1>12, NoFaultTypes DEF Unlock
<1>13. ASSUME NEW t \in Tools, Kill(t) PROVE TypeOK'
  BY <1>13, FaultTypes DEF Kill
<1>14. CASE UNCHANGED vars
  BY <1>14 DEF vars
<1> QED BY <1>1, <1>2, <1>3, <1>4, <1>5, <1>6, <1>7, <1>8, <1>9, <1>10, <1>11,
          <1>12, <1>13, <1>14 DEF Next, Tzoneset
LEMMA KnownStep == TypeOK /\ WantKnown /\ [Next]_vars => WantKnown'
<1> SUFFICES ASSUME TypeOK, WantKnown, [Next]_vars PROVE WantKnown'
  OBVIOUS
<1> USE DEF TypeOK, WantKnown, tool, Go
<1>1. CASE SetTimezone \/ Overlay \/ SetTimezoneWritable \/ LocaltimeFixup \/ Stop
  BY <1>1 DEF SetTimezone, Overlay, SetTimezoneWritable, LocaltimeFixup, Stop
<1>2. CASE PowerOff
  BY <1>2 DEF PowerOff
<1>3. ASSUME NEW t \in Tools, TestLock(t) PROVE WantKnown'
  BY <1>3 DEF TestLock
<1>4. ASSUME NEW t \in Tools, TouchLock(t) PROVE WantKnown'
  BY <1>4 DEF TouchLock
<1>5. ASSUME NEW t \in Tools, Umount(t) PROVE WantKnown'
  BY <1>5 DEF Umount
<1>6. ASSUME NEW t \in Tools, Bind(t) PROVE WantKnown'
  BY <1>6 DEF Bind
<1>7. ASSUME NEW t \in Tools, Echo(t) PROVE WantKnown'
  BY <1>7 DEF Echo
<1>8. ASSUME NEW t \in Tools, Unlock(t) PROVE WantKnown'
  BY <1>8 DEF Unlock
<1>9. ASSUME NEW t \in Tools, Kill(t) PROVE WantKnown'
  BY <1>9 DEF Kill
<1>10. CASE UNCHANGED vars
  BY <1>10 DEF vars
<1> QED BY <1>1, <1>2, <1>3, <1>4, <1>5, <1>6, <1>7, <1>8, <1>9, <1>10 DEF Next, Tzoneset

(***************************************************************************)
(* The lock                                                                 *)
(***************************************************************************)

\* Without a race one tool at most is at work, and what is inside has the lock.
Alone == \A t, u \in Tools : at[t] # "idle" /\ at[u] # "idle" => t = u
Guarded == Inside # {} => lock
Locked == (~Racing => Alone /\ Guarded) /\ LockFreed

LEMMA LockedInit == Init => Locked
BY DEF Init, Locked, Alone, Guarded, LockFreed, Inside

LEMMA LockedStep == TypeOK /\ Locked /\ [Next]_vars => Locked'
<1> SUFFICES ASSUME TypeOK, Locked, [Next]_vars PROVE Locked'
  OBVIOUS
<1> USE DEF TypeOK, Locked, Alone, Guarded, LockFreed, Inside, tool, Go, Fault, NoFault
<1>1. CASE SetTimezone \/ Overlay \/ SetTimezoneWritable \/ LocaltimeFixup \/ Stop
  BY <1>1 DEF SetTimezone, Overlay, SetTimezoneWritable, LocaltimeFixup, Stop
<1>2. CASE PowerOff
  BY <1>2 DEF PowerOff
<1>3. ASSUME NEW t \in Tools, TestLock(t) PROVE Locked'
  BY <1>3 DEF TestLock, Turn
<1>4. ASSUME NEW t \in Tools, TouchLock(t) PROVE Locked'
  BY <1>4 DEF TouchLock
<1>5. ASSUME NEW t \in Tools, Umount(t) PROVE Locked'
  BY <1>5 DEF Umount
<1>6. ASSUME NEW t \in Tools, Bind(t) PROVE Locked'
  BY <1>6 DEF Bind
<1>7. ASSUME NEW t \in Tools, Echo(t) PROVE Locked'
  BY <1>7 DEF Echo
<1>8. ASSUME NEW t \in Tools, Unlock(t) PROVE Locked'
  BY <1>8 DEF Unlock
<1>9. ASSUME NEW t \in Tools, Kill(t) PROVE Locked'
  BY <1>9 DEF Kill
<1>10. CASE UNCHANGED vars
  BY <1>10 DEF vars
<1> QED BY <1>1, <1>2, <1>3, <1>4, <1>5, <1>6, <1>7, <1>8, <1>9, <1>10 DEF Next, Tzoneset


(***************************************************************************)
(* What is shown and what is kept                                           *)
(***************************************************************************)

\* The boot, up to localtime_fixup.
BootPath ==
    /\ pc = "off" => binds = <<>> /\ failed = {}
    /\ pc \in {"off", "overlay"} => ~writable /\ ~flag
    /\ pc \in {"off", "overlay", "tz"} => tmp = None
    /\ pc = "local" => tmp \in {None, Default}
    /\ pc \in {"off", "overlay", "tz", "local"} => Localtime = Default
    /\ pc \notin {"up", "stopped"} => \A t \in Tools : at[t] = "idle"

\* How /etc can be written.
Writable ==
    /\ writable => flag
    /\ flag => tmp = None
    /\ pc \in {"tz", "local", "up"} /\ flag /\ ~writable => "overlay" \in failed
    /\ pc \in {"local", "up"} /\ failed = {} /\ ~flag => Timezone = None \/ tmp # None

\* The zone shown is the one named, but while tzoneset is between its umount and
\* its echo; before the echo it is the zone that tzoneset was told.
Shown ==
    pc = "up" /\ failed = {} =>
        /\ (\A t \in Tools : at[t] \notin {"bind", "echo"}) =>
               Timezone = None \/ Localtime = Timezone
        /\ \A t \in Tools : at[t] = "echo" => Localtime = want[t]

ChosenStays == chosen # None => upper = chosen /\ chosen \in Zones

LEMMA BootInit == Init => BootPath /\ Writable
BY DEF Init, BootPath, Writable, Localtime

LEMMA BootPathStep == TypeOK /\ BootPath /\ Writable /\ [Next]_vars => BootPath'
<1> SUFFICES ASSUME TypeOK, BootPath, Writable, [Next]_vars PROVE BootPath'
  OBVIOUS
<1> USE DEF BootPath, tz, etc, tool, Go, NoFault
<1>1. CASE SetTimezone
  <2>1. Localtime' = Default
    BY <1>1, PushShows, ZonesAssumption DEF SetTimezone, Localtime, TypeOK, ZonesAssumption
  <2> QED BY <1>1, <2>1 DEF SetTimezone
<1>2. CASE Overlay
  BY <1>2 DEF Overlay, Localtime
<1>3. CASE SetTimezoneWritable
  <2>1. tmp' \in {None, Default}
    BY <1>3 DEF SetTimezoneWritable, Timezone, TypeOK, Writable
  <2> QED BY <1>3, <2>1 DEF SetTimezoneWritable, Localtime
<1>4. CASE LocaltimeFixup
  BY <1>4 DEF LocaltimeFixup
<1>5. CASE Stop
  BY <1>5 DEF Stop
<1>6. CASE PowerOff
  BY <1>6 DEF PowerOff, Localtime
<1>7. ASSUME NEW t \in Tools, TestLock(t) PROVE BootPath'
  BY <1>7 DEF TestLock
<1>8. ASSUME NEW t \in Tools, TouchLock(t) PROVE BootPath'
  BY <1>8 DEF TouchLock
<1>9. ASSUME NEW t \in Tools, Umount(t) PROVE BootPath'
  BY <1>9 DEF Umount
<1>10. ASSUME NEW t \in Tools, Bind(t) PROVE BootPath'
  BY <1>10 DEF Bind
<1>11. ASSUME NEW t \in Tools, Echo(t) PROVE BootPath'
  BY <1>11 DEF Echo
<1>12. ASSUME NEW t \in Tools, Unlock(t) PROVE BootPath'
  BY <1>12 DEF Unlock
<1>13. ASSUME NEW t \in Tools, Kill(t) PROVE BootPath'
  BY <1>13 DEF Kill
<1>14. CASE UNCHANGED vars
  BY <1>14 DEF vars, Localtime
<1> QED BY <1>1, <1>2, <1>3, <1>4, <1>5, <1>6, <1>7, <1>8, <1>9, <1>10, <1>11, <1>12, <1>13, <1>14
          DEF Next, Tzoneset

LEMMA WritableStep == TypeOK /\ BootPath /\ Writable /\ [Next]_vars => Writable'
<1> SUFFICES ASSUME TypeOK, BootPath, Writable, [Next]_vars PROVE Writable'
  OBVIOUS
<1> USE DEF Writable, BootPath, Timezone, tz, etc, tool, Go, NoFault
<1>1. CASE SetTimezone
  BY <1>1 DEF SetTimezone, Fault
<1>2. CASE Overlay
  BY <1>2 DEF Overlay, Fault, Mount!Settle
<1>3. CASE SetTimezoneWritable
  BY <1>3 DEF SetTimezoneWritable, Fault
<1>4. CASE LocaltimeFixup
  BY <1>4 DEF LocaltimeFixup, Fault
<1>5. CASE Stop
  BY <1>5 DEF Stop
<1>6. CASE PowerOff
  BY <1>6 DEF PowerOff
<1>7. ASSUME NEW t \in Tools, TestLock(t) PROVE Writable'
  BY <1>7 DEF TestLock
<1>8. ASSUME NEW t \in Tools, TouchLock(t) PROVE Writable'
  BY <1>8 DEF TouchLock
<1>9. ASSUME NEW t \in Tools, Umount(t) PROVE Writable'
  BY <1>9 DEF Umount
<1>10. ASSUME NEW t \in Tools, Bind(t) PROVE Writable'
  BY <1>10 DEF Bind, Fault
<1>11. ASSUME NEW t \in Tools, Echo(t) PROVE Writable'
  BY <1>11, ZonesAssumption DEF Echo, TypeOK, Names, ZonesAssumption
<1>12. ASSUME NEW t \in Tools, Unlock(t) PROVE Writable'
  BY <1>12 DEF Unlock
<1>13. ASSUME NEW t \in Tools, Kill(t) PROVE Writable'
  BY <1>13 DEF Kill, Fault
<1>14. CASE UNCHANGED vars
  BY <1>14 DEF vars
<1> QED BY <1>1, <1>2, <1>3, <1>4, <1>5, <1>6, <1>7, <1>8, <1>9, <1>10, <1>11, <1>12, <1>13, <1>14
          DEF Next, Tzoneset

LEMMA ShownInit == Init => Shown /\ ChosenStays
BY DEF Init, Shown, ChosenStays

LEMMA ShownStep ==
    ASSUME TypeOK, WantKnown, Alone, BootPath, Writable, Shown, [Next]_vars
    PROVE  Shown'
<1> USE DEF Shown, tz, etc, tool, Go, NoFault
<1>1. CASE SetTimezone
  BY <1>1 DEF SetTimezone
<1>2. CASE Overlay
  BY <1>2 DEF Overlay
<1>3. CASE SetTimezoneWritable
  BY <1>3 DEF SetTimezoneWritable
<1>4. CASE LocaltimeFixup
  <2> SUFFICES ASSUME failed' = {} PROVE Timezone' = None \/ Localtime' = Timezone'
    BY <1>4 DEF LocaltimeFixup, BootPath
  <2>1. failed = {}
    BY <1>4 DEF LocaltimeFixup, Fault
  <2>2. CASE flag
    <3>1. writable /\ tmp = None /\ tmp' = None /\ writable'
      BY <1>4, <2>1, <2>2 DEF LocaltimeFixup, Writable
    <3>2. Localtime' = Fixed
      BY <1>4, <2>2, PushShows, PopTypes, FixedTypes DEF LocaltimeFixup, Fault, TypeOK
    <3>3. Timezone' = Fixed
      BY <1>4, <2>2, <3>1, FixedTypes, ZonesAssumption DEF LocaltimeFixup, Timezone, ZonesAssumption
    <3> QED BY <3>2, <3>3
  <2>3. CASE ~flag
    BY <1>4, <2>3 DEF LocaltimeFixup, Timezone, Localtime, BootPath, Writable, TypeOK
  <2> QED BY <2>2, <2>3
<1>5. CASE Stop
  BY <1>5 DEF Stop
<1>6. CASE PowerOff
  BY <1>6 DEF PowerOff
<1>7. ASSUME NEW t \in Tools, TestLock(t) PROVE Shown'
  BY <1>7 DEF TestLock, Timezone, Localtime, TypeOK
<1>8. ASSUME NEW t \in Tools, TouchLock(t) PROVE Shown'
  BY <1>8 DEF TouchLock, Timezone, Localtime, TypeOK
<1>9. ASSUME NEW t \in Tools, Umount(t) PROVE Shown'
  BY <1>9 DEF Umount, Alone, TypeOK
<1>10. ASSUME NEW t \in Tools, Bind(t) PROVE Shown'
  <2>1. CASE Fault("bind")
    BY <1>10, <2>1 DEF Bind, Fault
  <2>2. CASE ~Fault("bind")
    <3>1. binds' = Append(binds, want[t]) /\ want[t] \in Zones /\ want' = want
      BY <1>10, <2>2 DEF Bind, WantKnown
    <3>2. Localtime' = want[t]
      BY <3>1, PushShows DEF TypeOK
    <3> QED BY <1>10, <2>2, <3>1, <3>2 DEF Bind, Alone, TypeOK
  <2> QED BY <2>1, <2>2
<1>11. ASSUME NEW t \in Tools, Echo(t) PROVE Shown'
  <2> SUFFICES ASSUME pc = "up", failed = {}
                PROVE  /\ Timezone' = None \/ Localtime' = Timezone'
                       /\ \A u \in Tools : at'[u] # "echo"
    BY <1>11 DEF Echo
  <2>1. Localtime' = want[t]
    BY <1>11 DEF Echo, Localtime
  <2>2. Timezone' = want[t] \/ Timezone' = None
    BY <1>11, ZonesAssumption DEF Echo, Timezone, Writable, TypeOK, Names, ZonesAssumption
  <2>3. \A u \in Tools : at'[u] # "echo"
    BY <1>11 DEF Echo, Alone, TypeOK
  <2> QED BY <2>1, <2>2, <2>3
<1>12. ASSUME NEW t \in Tools, Unlock(t) PROVE Shown'
  BY <1>12 DEF Unlock, Timezone, Localtime, TypeOK
<1>13. ASSUME NEW t \in Tools, Kill(t) PROVE Shown'
  BY <1>13 DEF Kill, Fault
<1>14. CASE UNCHANGED vars
  BY <1>14 DEF vars, Localtime, Timezone
<1> QED BY <1>1, <1>2, <1>3, <1>4, <1>5, <1>6, <1>7, <1>8, <1>9, <1>10, <1>11, <1>12, <1>13, <1>14
          DEF Next, Tzoneset

LEMMA ChosenStep ==
    ASSUME TypeOK, WantKnown, BootPath, Writable, ChosenStays, [Next]_vars
    PROVE  ChosenStays'
<1> USE DEF ChosenStays, tz, etc, tool, Go, NoFault
<1>1. CASE SetTimezone
  BY <1>1 DEF SetTimezone
<1>2. CASE Overlay
  BY <1>2 DEF Overlay
<1>3. CASE SetTimezoneWritable
  BY <1>3 DEF SetTimezoneWritable
<1>4. CASE LocaltimeFixup
  BY <1>4 DEF LocaltimeFixup, Timezone, Fixed, Writable
<1>5. CASE Stop
  BY <1>5 DEF Stop
<1>6. CASE PowerOff
  BY <1>6 DEF PowerOff
<1>7. ASSUME NEW t \in Tools, TestLock(t) PROVE ChosenStays'
  BY <1>7 DEF TestLock
<1>8. ASSUME NEW t \in Tools, TouchLock(t) PROVE ChosenStays'
  BY <1>8 DEF TouchLock
<1>9. ASSUME NEW t \in Tools, Umount(t) PROVE ChosenStays'
  BY <1>9 DEF Umount
<1>10. ASSUME NEW t \in Tools, Bind(t) PROVE ChosenStays'
  BY <1>10 DEF Bind
<1>11. ASSUME NEW t \in Tools, Echo(t) PROVE ChosenStays'
  BY <1>11 DEF Echo, WantKnown
<1>12. ASSUME NEW t \in Tools, Unlock(t) PROVE ChosenStays'
  BY <1>12 DEF Unlock
<1>13. ASSUME NEW t \in Tools, Kill(t) PROVE ChosenStays'
  BY <1>13 DEF Kill
<1>14. CASE UNCHANGED vars
  BY <1>14 DEF vars
<1> QED BY <1>1, <1>2, <1>3, <1>4, <1>5, <1>6, <1>7, <1>8, <1>9, <1>10, <1>11, <1>12, <1>13, <1>14
          DEF Next, Tzoneset

(***************************************************************************)
(* The theorems                                                             *)
(***************************************************************************)

Invariant ==
    /\ TypeOK /\ WantKnown /\ Locked /\ BootPath /\ Writable /\ ChosenStays
    /\ ~Racing => Shown

LEMMA InvariantHolds == Spec => []Invariant
<1>1. Init => Invariant
  BY TypeInit, LockedInit, BootInit, ShownInit DEF Invariant
<1>2. Invariant /\ [Next]_vars => Invariant'
  <2> SUFFICES ASSUME Invariant, [Next]_vars PROVE Invariant'
    OBVIOUS
  <2> USE DEF Invariant
  <2>1. TypeOK' /\ WantKnown' /\ Locked'
    BY TypeStep, KnownStep, LockedStep
  <2>2. BootPath' /\ Writable'
    BY BootPathStep, WritableStep
  <2>3. ChosenStays'
    BY ChosenStep
  <2>4. ~Racing => Shown'
    BY ShownStep DEF Locked
  <2> QED BY <2>1, <2>2, <2>3, <2>4
<1> QED BY <1>1, <1>2, PTL DEF Spec

\* Every variable keeps its type; only zones are ever bound.
THEOREM TypeCorrect == Spec => []TypeOK
<1>1. Invariant => TypeOK
  BY DEF Invariant
<1> QED BY <1>1, InvariantHolds, PTL

\* No way out of tzoneset leaves its lock file, unless it is killed.
THEOREM LockIsFreed == Spec => []LockFreed
<1>1. Invariant => LockFreed
  BY DEF Invariant, Locked
<1> QED BY <1>1, InvariantHolds, PTL

\* The zone shown is the zone named.
THEOREM ZonesMatch == ~Racing => (Spec => []ZoneMatches)
<1>1. CASE ~Racing
  <2>1. Invariant => ZoneMatches
    BY <1>1 DEF Invariant, Shown, ZoneMatches, Inside
  <2>2. Spec => []ZoneMatches
    BY <2>1, InvariantHolds, PTL
  <2> QED BY <2>2
<1> QED BY <1>1

\* A zone that was set lasts, through boots, failures and power cuts.
THEOREM ZoneIsKept == ~Racing => (Spec => []ZoneKept)
<1>1. CASE ~Racing
  <2>1. Invariant => ZoneKept
    BY <1>1, ZonesAssumption DEF Invariant, Shown, ChosenStays, Writable, ZoneKept, Inside,
       Timezone, ZonesAssumption
  <2>2. Spec => []ZoneKept
    BY <2>1, InvariantHolds, PTL
  <2> QED BY <2>2
<1> QED BY <1>1

(***************************************************************************)
(* The promise about /etc is used as it is meant                            *)
(***************************************************************************)

LEMMA MountStep ==
    ASSUME [Next]_vars
    PROVE  [Mount!Next]_(Mount!vars)
<1> USE DEF Mount!vars, tz, etc, tool, Go, NoFault, Fault
<1>1. CASE SetTimezone
  <2>1. Mount!Begin \/ UNCHANGED Mount!vars
    BY <1>1 DEF SetTimezone, Mount!Begin
  <2> QED BY <2>1 DEF Mount!Next
<1>2. CASE Overlay
  <2>1. Mount!Settle
    BY <1>2 DEF Overlay
  <2> QED BY <2>1 DEF Mount!Next
<1>3. CASE SetTimezoneWritable
  BY <1>3 DEF SetTimezoneWritable
<1>4. CASE LocaltimeFixup
  BY <1>4 DEF LocaltimeFixup
<1>5. CASE Stop
  <2>1. Mount!Stop
    BY <1>5 DEF Stop, Mount!Stop
  <2> QED BY <2>1 DEF Mount!Next
<1>6. CASE PowerOff
  <2>1. Mount!PowerOff
    BY <1>6 DEF PowerOff, Mount!PowerOff, Mount!Init
  <2> QED BY <2>1 DEF Mount!Next
<1>7. ASSUME NEW t \in Tools, Tzoneset(t) PROVE UNCHANGED Mount!vars
  BY <1>7 DEF Tzoneset, TestLock, TouchLock, Umount, Bind, Echo, Unlock, Kill
<1>8. CASE UNCHANGED vars
  BY <1>8 DEF vars
<1> QED BY <1>1, <1>2, <1>3, <1>4, <1>5, <1>6, <1>7, <1>8 DEF Next

\* The timezone functions and tzoneset, killed or not, leave /etc and the flag as
\* mount_unionfs_start has settled them: what EtcMount promises is enough.
THEOREM TimezoneKeepsToMount == Spec => MountSpec
<1>1. Init => Mount!Init
  BY DEF Init, Mount!Init
<1>2. [Next]_vars => [Mount!Next]_(Mount!vars)
  BY MountStep
<1> QED BY <1>1, <1>2, PTL DEF Spec, MountSpec, Mount!Spec
=============================================================================
