------------------------------ MODULE Timezone ------------------------------
(***************************************************************************)
(* The timezone of a device.  /etc/localtime is a link to                   *)
(* /usr/share/zoneinfo/localtime, and the file of the current zone is bound *)
(* over that; /etc/timezone has the zone's name.  mount_early binds the     *)
(* zone before /etc gets its overlay, mount_unionfs once more after it      *)
(* (localtime_fixup), and tzoneset changes both in a running system.        *)
(*                                                                          *)
(* What mount_unionfs_start makes of /etc is any outcome that EtcMount      *)
(* promises, which EtcOverlay implements.                                   *)
(***************************************************************************)
EXTENDS Integers, Sequences

CONSTANTS
    Tools,          \* copies of tzoneset that may run at the same time
    Zones,          \* zones with a file in /usr/share/zoneinfo
    Default,        \* the zone of the image, "Universal"
    None,           \* no such file; no zone
    Bogus,          \* a name that is no zone's
    Racing,         \* may one copy start between another's test and touch?
    MaxFaults,      \* bound: commands that fail, copies that are killed
    MaxBoots,       \* bound: power cuts and shutdowns
    MaxCalls        \* bound: calls of tzoneset in one boot

ASSUME ZonesAssumption ==
    Default \in Zones /\ None \notin Zones /\ Bogus \notin Zones /\ None # Bogus

ASSUME RacingAssumption == Racing \in BOOLEAN

ASSUME BoundsAssumption ==
    MaxFaults \in Nat /\ MaxBoots \in Nat /\ MaxCalls \in Nat

Names == Zones \cup {Bogus}

VARIABLES
    rootfs,     \* /etc/timezone of the root file system
    upper,      \* /etc/timezone in the upper layer of the overlay
    badLink,    \* /etc/localtime in the upper layer points elsewhere
    writable,   \* /etc has its overlay
    flag,       \* etc_is_writable_g of mount_unionfs
    tmp,        \* /tmp/timezone, when it is bound over /etc/timezone
    binds,      \* zones bound over zoneinfo/localtime, the last one on top
    lock,       \* the lock file of tzoneset
    pc,         \* where the boot is
    at, want,   \* where each tzoneset is, the zone it has been told
    chosen,     \* history: the last zone that tzoneset put in the upper layer
    failed,     \* history: steps that failed in this boot
    faults, boots, calls

tz == <<upper, badLink, tmp, binds, chosen>>
etc == <<writable, flag>>
tool == <<lock, at, want, calls>>
vars == <<rootfs, tz, etc, tool, pc, failed, faults, boots>>

TypeOK ==
    /\ rootfs \in {None, Default}
    /\ upper \in Names \cup {None}
    /\ tmp \in Names \cup {None}
    /\ binds \in Seq(Zones)
    /\ badLink \in BOOLEAN /\ writable \in BOOLEAN /\ flag \in BOOLEAN /\ lock \in BOOLEAN
    /\ pc \in {"off", "early", "overlay", "tz", "local", "up", "stopped"}
    /\ at \in [Tools -> {"idle", "touch", "umount", "bind", "echo", "unlock"}]
    /\ want \in [Tools -> Names]
    /\ chosen \in Names \cup {None}
    /\ failed \subseteq {"early", "overlay", "tz", "local", "bind", "kill"}
    /\ faults \in 0..MaxFaults
    /\ boots \in 0..MaxBoots
    /\ calls \in 0..MaxCalls

\* The name in /etc/timezone, and whether that can be written.
Timezone ==
    IF tmp # None THEN tmp
    ELSE IF writable /\ upper # None THEN upper ELSE rootfs

\* The time the system shows: without a bind the image's default zone.
Localtime == IF binds = <<>> THEN Default ELSE binds[Len(binds)]

\* readlink -f /etc/localtime leads to zoneinfo/localtime.
LinkGood == ~(writable /\ badLink)

Pop(s) == IF s = <<>> THEN s ELSE SubSeq(s, 1, Len(s) - 1)

Init ==
    /\ rootfs \in {None, Default}
    /\ upper \in Names \cup {None}
    /\ badLink \in BOOLEAN
    /\ writable = FALSE /\ flag = FALSE /\ lock = FALSE
    /\ tmp = None /\ binds = <<>>
    /\ pc = "off"
    /\ at = [t \in Tools |-> "idle"]
    /\ want = [t \in Tools |-> Bogus]
    /\ chosen = None /\ failed = {}
    /\ faults = 0 /\ boots = 0 /\ calls = 0

Fault(step) ==
    /\ faults < MaxFaults
    /\ faults' = faults + 1
    /\ failed' = failed \cup {step}

NoFault == UNCHANGED <<faults, failed>>

(***************************************************************************)
(* Boot                                                                     *)
(***************************************************************************)

\* mount_early_set_timezone, before there is an overlay.  When it fails,
\* mount_early mounts nothing else, /mnt/flash neither.
SetTimezone ==
    /\ pc = "off"
    /\ IF rootfs = None THEN UNCHANGED binds /\ NoFault
       ELSE \/ binds' = Append(binds, rootfs) /\ NoFault
            \/ UNCHANGED binds /\ Fault("early")
    /\ pc' = "overlay"
    /\ UNCHANGED <<rootfs, upper, badLink, tmp, chosen, etc, tool, boots>>

\* The promise of mount_unionfs_start about /etc.  What is needed for an upper
\* layer is there at most when mount_early has gone past the timezone.
Mount == INSTANCE EtcMount WITH
            flash <- pc # "off" /\ "early" \notin failed,
            settled <- pc \in {"tz", "local", "up", "stopped"},
            faulty <- "overlay" \in failed

\* mount_unionfs_start: /etc gets its overlay, is not meant to have one, or
\* loses it when a later overlay fails, and then the flag stays on.
Overlay ==
    /\ pc = "overlay" /\ pc' = "tz"
    /\ NoFault \/ Fault("overlay")
    /\ Mount!Settle
    /\ UNCHANGED <<rootfs, tz, tool, boots>>

\* set_timezone_writable
SetTimezoneWritable ==
    /\ pc = "tz"
    /\ IF flag \/ Timezone = None THEN UNCHANGED tmp /\ NoFault
       ELSE \/ tmp' = Timezone /\ NoFault
            \/ UNCHANGED tmp /\ Fault("tz")
    /\ pc' = "local"
    /\ UNCHANGED <<rootfs, upper, badLink, binds, chosen, etc, tool, boots>>

\* Plausible bugs: the name is not checked; it is not even read.
FixedUnchecked == IF Timezone # None THEN Timezone ELSE Default
FixedDefault == Default

\* The zone localtime_fixup goes by.
Fixed == IF Timezone \in Zones THEN Timezone ELSE Default

\* A plausible bug: the zone that mount_early bound is left where it is.
LocaltimeFixupOnce ==
    /\ pc = "local"
    /\ upper' = IF flag /\ writable THEN Fixed ELSE upper
    /\ badLink' = (badLink /\ ~(flag /\ writable))
    /\ binds' = IF flag /\ binds = <<>> THEN <<Fixed>> ELSE binds
    /\ NoFault
    /\ pc' = "up"
    /\ UNCHANGED <<rootfs, tmp, chosen, etc, tool, boots>>

\* localtime_fixup repairs the name and the link, which takes more than its flag
\* says if /etc is read-only, and binds the zone in the place of the first one.
LocaltimeFixup ==
    /\ pc = "local"
    /\ IF ~flag THEN UNCHANGED <<upper, badLink, binds>> /\ NoFault
       ELSE /\ upper' = IF writable /\ Timezone # Fixed THEN Fixed ELSE upper
            /\ badLink' = (badLink /\ ~writable)
            /\ \/ binds' = Append(Pop(binds), Fixed) /\ NoFault
               \/ binds' = Pop(binds) /\ Fault("local")
    /\ pc' = "up"
    /\ UNCHANGED <<rootfs, tmp, chosen, etc, tool, boots>>

(***************************************************************************)
(* tzoneset                                                                 *)
(***************************************************************************)

Go(t, step) == at' = [at EXCEPT ![t] = step]

\* The caller's discipline unless Racing: nobody else is about to take the lock.
Turn == \A u \in Tools : at[u] # "touch"

\* check_env, and lock_op up to its test; in every other case it exits here.
TestLock(t) ==
    /\ pc = "up" /\ at[t] = "idle" /\ calls < MaxCalls
    /\ Timezone # None /\ LinkGood /\ ~lock
    /\ Racing \/ Turn
    /\ calls' = calls + 1
    /\ \E z \in Names : want' = [want EXCEPT ![t] = z]
    /\ Go(t, "touch")
    /\ NoFault
    /\ UNCHANGED <<rootfs, tz, etc, lock, pc, boots>>

\* A plausible bug: an unknown offset ends the program, and the lock stays.
TouchLockAndLeave(t) ==
    /\ at[t] = "touch"
    /\ lock' = TRUE
    /\ Go(t, IF want[t] \in Zones THEN "umount" ELSE "idle")
    /\ NoFault
    /\ UNCHANGED <<rootfs, tz, etc, want, calls, pc, boots>>

\* Bad parameters or a time that cannot be set unlock at once, and so does an
\* offset that has no zone.
TouchLock(t) ==
    /\ at[t] = "touch"
    /\ lock' = TRUE
    /\ \/ want[t] \in Zones /\ Go(t, "umount")
       \/ Go(t, "unlock")
    /\ NoFault
    /\ UNCHANGED <<rootfs, tz, etc, want, calls, pc, boots>>

Umount(t) ==
    /\ at[t] = "umount"
    /\ binds' = Pop(binds)
    /\ Go(t, "bind")
    /\ NoFault
    /\ UNCHANGED <<rootfs, upper, badLink, tmp, chosen, etc, lock, want, calls, pc, boots>>

Bind(t) ==
    /\ at[t] = "bind"
    /\ \/ binds' = Append(binds, want[t]) /\ Go(t, "echo") /\ NoFault
       \/ UNCHANGED binds /\ Go(t, "unlock") /\ Fault("bind")
    /\ UNCHANGED <<rootfs, upper, badLink, tmp, chosen, etc, lock, want, calls, pc, boots>>

\* The name goes to what is mounted on /etc/timezone, or nowhere.
Echo(t) ==
    /\ at[t] = "echo"
    /\ IF tmp # None THEN tmp' = want[t] /\ UNCHANGED <<upper, chosen>>
       ELSE IF writable THEN upper' = want[t] /\ chosen' = want[t] /\ UNCHANGED tmp
       ELSE UNCHANGED <<tmp, upper, chosen>>
    /\ Go(t, "unlock")
    /\ NoFault
    /\ UNCHANGED <<rootfs, badLink, binds, etc, lock, want, calls, pc, boots>>

Unlock(t) ==
    /\ at[t] = "unlock"
    /\ lock' = FALSE
    /\ Go(t, "idle")
    /\ NoFault
    /\ UNCHANGED <<rootfs, tz, etc, want, calls, pc, boots>>

\* A tool is killed; its lock file stays.
Kill(t) ==
    /\ at[t] # "idle"
    /\ Fault("kill")
    /\ Go(t, "idle")
    /\ UNCHANGED <<rootfs, tz, etc, lock, want, calls, pc, boots>>

(***************************************************************************)
(* Shutdown                                                                 *)
(***************************************************************************)

\* unset_timezone_writable and mount_unionfs_stop.  mount_early_unset_timezone
\* builds its path from a variable it has not, so the zone stays bound.
Stop ==
    /\ pc = "up"
    /\ tmp' = None /\ writable' = FALSE
    /\ pc' = "stopped"
    /\ NoFault
    /\ UNCHANGED <<rootfs, upper, badLink, binds, chosen, flag, tool, boots>>

\* A write to /etc/timezone in the upper layer that can be cut short.
Writing ==
    \/ pc = "local" /\ flag /\ writable /\ Timezone # Fixed
    \/ writable /\ tmp = None /\ \E t \in Tools : at[t] = "echo"

PowerOff ==
    /\ pc # "off" /\ boots < MaxBoots
    /\ boots' = boots + 1
    /\ \/ UNCHANGED <<upper, chosen>>
       \/ Writing /\ upper' = Bogus /\ chosen' = None
    /\ writable' = FALSE /\ flag' = FALSE /\ lock' = FALSE
    /\ tmp' = None /\ binds' = <<>>
    /\ at' = [t \in Tools |-> "idle"]
    /\ pc' = "off" /\ failed' = {} /\ calls' = 0
    /\ UNCHANGED <<rootfs, badLink, want, faults>>

Tzoneset(t) ==
    \/ TestLock(t) \/ TouchLock(t) \/ Umount(t) \/ Bind(t) \/ Echo(t)
    \/ Unlock(t) \/ Kill(t)

Next ==
    \/ SetTimezone \/ Overlay \/ SetTimezoneWritable \/ LocaltimeFixup
    \/ Stop \/ PowerOff
    \/ \E t \in Tools : Tzoneset(t)

Spec == Init /\ [][Next]_vars

(***************************************************************************)
(* Properties                                                               *)
(***************************************************************************)

\* The tools that are past lock_op.
Inside == {t \in Tools : at[t] \in {"umount", "bind", "echo", "unlock"}}

\* "Only one instance of $this_e can run at any given time" (lock_op): no two
\* copies are past it.  The code breaks this when Racing: a copy may pass the test
\* before another, that has passed it too, has made the lock file.
OneAtATime == \A t, u \in Inside : t = u

\* The lock file is there only for a tool that is to remove it, or for one that
\* was killed: no way out of tzoneset leaves it behind.
LockFreed == lock => Inside # {} \/ "kill" \in failed

\* In a boot without a failure, and while no tzoneset changes it, the system
\* shows the time of the zone that /etc/timezone names, with an overlay or
\* without, whatever zone mount_early had bound and whatever earlier boots and
\* power cuts left in the upper layer.
ZoneMatches ==
    pc = "up" /\ failed = {} /\ Inside = {} /\ Timezone # None =>
        Localtime = Timezone

\* A zone set while /etc has its overlay is the zone of every later boot with
\* the overlay, until tzoneset sets another; only power cut in the middle of the
\* write takes it away.
ZoneKept ==
    pc = "up" /\ failed = {} /\ Inside = {} /\ writable /\ chosen # None =>
        Timezone = chosen /\ Localtime = chosen

\* The timezone functions and tzoneset, killed or not, leave /etc and the flag as
\* mount_unionfs_start has settled them, until the overlays are unmounted.
MountSpec == Mount!Spec
=============================================================================
