----------------------------- MODULE EtcOverlay -----------------------------
(***************************************************************************)
(* mount_unionfs: at every boot, after mount_early, it makes /etc, /data    *)
(* and /lib/firmware writable by overlays whose upper layer is in           *)
(* /mnt/flash.  Where /etc gets no overlay, it binds copies in /mnt/flash   *)
(* over three files of /etc that loginNagger writes.                        *)
(*                                                                          *)
(* The content of a file is 0 for the one in the root file system and n for *)
(* the nth edit.  What the script does for the timezone is in Timezone.     *)
(***************************************************************************)
EXTENDS Integers

CONSTANTS
    MaxEdits,       \* bound: edits by the user
    MaxFaults,      \* bound: commands that fail for a passing reason
    MaxBoots        \* bound: power cuts and shutdowns

ASSUME BoundsAssumption ==
    MaxEdits \in Nat /\ MaxFaults \in Nat /\ MaxBoots \in Nat

Dirs == {"etc", "data", "firmware"}

\* The files bound one by one, in the order of bind_mount_nagger_files.
Files == {"shadow", "dropbear", "securetty"}
FileOrder == [i \in 1..3 |->
                 IF i = 1 THEN "shadow" ELSE IF i = 2 THEN "dropbear" ELSE "securetty"]

Missing == -1       \* no such file
Torn == -2          \* a copy that was cut short
Contents == {Missing, Torn} \cup 0..MaxEdits

VARIABLES
    platform,   \* kernel command line and build
    flash,      \* /mnt/flash is mounted and writable
    over,       \* directories with an overlay
    flag,       \* etc_is_writable_g of the script
    mdev,       \* mdev.conf in the upper layer of /etc: without the ECM entries
                \* (plain), with one (half), with both (hooked), or the same as in
                \* the rootfs
    upper,      \* the three files in the upper layer of /etc
    copy,       \* their copies in /mnt/flash/rootfs
    shown,      \* the files bound over them in /etc
    pc, file,   \* where the script is, and at which of the three files
    edits,      \* edits so far
    last,       \* history: the last edit of each file, with /etc as intended,
                \* since /mnt/flash was formatted
    failed,     \* history: steps that failed in this boot
    faults, boots

vars == <<platform, flash, over, flag, mdev, upper, copy, shown, pc, file,
          edits, last, failed, faults, boots>>

Steps == {"off", "start", "mdev", "mdev2", "diff", "etc", "data", "firmware",
          "fixup", "copy", "bind", "up", "remount", "stopped"}

TypeOK ==
    /\ platform \in [fudge : {"true", "false", "none"}, ima : BOOLEAN, firmware : BOOLEAN]
    /\ flash \in BOOLEAN /\ flag \in BOOLEAN
    /\ over \subseteq Dirs
    /\ mdev \in {"none", "plain", "half", "hooked", "same"}
    /\ upper \in [Files -> Contents]
    /\ copy \in [Files -> Contents]
    /\ shown \in [Files -> Contents]
    /\ last \in [Files -> 0..MaxEdits]
    /\ pc \in Steps /\ file \in 1..3
    /\ edits \in 0..MaxEdits
    /\ failed \subseteq {"flash", "format", "mdev", "copy", "bind"} \cup Dirs
    /\ faults \in 0..MaxFaults
    /\ boots \in 0..MaxBoots

\* is_fudge_ro_rootfs_allowed: without fudge_ro_rootfs on the command line its
\* test, [ -z rootfs_ro ], looks at a word and not at a variable: allowed.
Allowed == platform.fudge # "false"

\* is_etc_overlay_disabled
EtcWanted == Allowed /\ ~platform.ima
Wanted == (IF platform.ima THEN {} ELSE {"etc"}) \cup {"data"}
             \cup (IF platform.firmware THEN {"firmware"} ELSE {})

Init ==
    /\ platform \in [fudge : {"true", "false", "none"}, ima : BOOLEAN, firmware : BOOLEAN]
    /\ flash = FALSE /\ flag = FALSE
    /\ over = {}
    /\ mdev \in {"none", "plain"}
    /\ upper = [f \in Files |-> Missing]
    /\ copy = [f \in Files |-> Missing]
    /\ shown = [f \in Files |-> Missing]
    /\ last = [f \in Files |-> 0]
    /\ pc = "off" /\ file = 1
    /\ edits = 0 /\ failed = {} /\ faults = 0 /\ boots = 0

Fault(step) ==
    /\ faults < MaxFaults
    /\ faults' = faults + 1
    /\ failed' = failed \cup {step}

NoFault == UNCHANGED <<faults, failed>>

\* mount_early_user_start mounts /mnt/flash, or does not, or reformats it first
\* (DataPartition); then there is nothing left to keep.
UserStart ==
    /\ pc = "off"
    /\ \/ flash' = TRUE /\ NoFault /\ UNCHANGED <<mdev, upper, copy, last>>
       \/ flash' = FALSE /\ Fault("flash") /\ UNCHANGED <<mdev, upper, copy, last>>
       \/ /\ flash' = TRUE /\ Fault("format")
          /\ mdev' = "none"
          /\ upper' = [f \in Files |-> Missing] /\ copy' = [f \in Files |-> Missing]
          /\ last' = [f \in Files |-> 0]
    /\ pc' = "start"
    /\ UNCHANGED <<platform, over, flag, shown, file, edits, boots>>

(***************************************************************************)
(* mount_unionfs_start                                                      *)
(***************************************************************************)

overlay == <<over, flag>>
binds == <<copy, shown, file>>
user == <<upper, edits, last>>

Start ==
    /\ pc = "start"
    /\ pc' = IF ~Allowed THEN "fixup"
             ELSE IF platform.ima THEN "data"
             ELSE IF flash /\ mdev # "none" THEN "mdev" ELSE "etc"
    /\ NoFault
    /\ UNCHANGED <<platform, flash, overlay, mdev, binds, user, boots>>

\* A grep for the script's name decides whether the entries are there.  The
\* results of the two appends are not looked at.
HookFirst ==
    /\ pc = "mdev"
    /\ \/ mdev # "plain" /\ pc' = "diff" /\ NoFault /\ UNCHANGED mdev
       \/ mdev = "plain" /\ pc' = "mdev2" /\ NoFault /\ mdev' = "half"
       \/ mdev = "plain" /\ pc' = "mdev2" /\ Fault("mdev") /\ UNCHANGED mdev
    /\ UNCHANGED <<platform, flash, overlay, binds, user, boots>>

\* The file of the last release becomes that of this one, a user's does not.
HookSecond ==
    /\ pc = "mdev2"
    /\ \/ mdev = "half" /\ mdev' \in {"hooked", "same"} /\ NoFault
       \/ mdev = "plain" /\ mdev' = "half" /\ NoFault
       \/ Fault("mdev") /\ UNCHANGED mdev
    /\ pc' = "diff"
    /\ UNCHANGED <<platform, flash, overlay, binds, user, boots>>

DropSame ==
    /\ pc = "diff"
    /\ mdev' = IF mdev = "same" THEN "none" ELSE mdev
    /\ pc' = "etc"
    /\ NoFault
    /\ UNCHANGED <<platform, flash, overlay, binds, user, boots>>

\* mount_unionfs_dir: there is no upper layer without /mnt/flash.
Mounted(dir) == flash /\ over' = over \cup {dir} /\ NoFault
NotMounted(dir) == IF flash THEN Fault(dir) ELSE NoFault

\* A plausible bug: the flag is set before the mount is tried.
MountEtcFlagFirst ==
    /\ pc = "etc" /\ flag' = TRUE
    /\ \/ Mounted("etc") /\ pc' = "data"
       \/ NotMounted("etc") /\ pc' = "fixup" /\ UNCHANGED over
    /\ UNCHANGED <<platform, flash, mdev, binds, user, boots>>

MountEtc ==
    /\ pc = "etc"
    /\ \/ Mounted("etc") /\ flag' = TRUE /\ pc' = "data"
       \/ NotMounted("etc") /\ pc' = "fixup" /\ UNCHANGED <<over, flag>>
    /\ UNCHANGED <<platform, flash, mdev, binds, user, boots>>

\* A plausible bug: the overlay of /etc stays when that of /data fails.
MountDataAlone ==
    /\ pc = "data"
    /\ \/ Mounted("data") /\ pc' = IF platform.firmware THEN "firmware" ELSE "fixup"
       \/ NotMounted("data") /\ UNCHANGED over /\ pc' = "fixup"
    /\ UNCHANGED <<platform, flash, flag, mdev, binds, user, boots>>

\* The flag stays on when the overlay of /etc is taken away again.
MountData ==
    /\ pc = "data"
    /\ \/ Mounted("data") /\ pc' = IF platform.firmware THEN "firmware" ELSE "fixup"
       \/ NotMounted("data") /\ over' = over \ {"etc"} /\ pc' = "fixup"
    /\ UNCHANGED <<platform, flash, flag, mdev, binds, user, boots>>

MountFirmware ==
    /\ pc = "firmware"
    /\ \/ Mounted("firmware")
       \/ NotMounted("firmware") /\ over' = over \ {"data", "etc"}
    /\ pc' = "fixup"
    /\ UNCHANGED <<platform, flash, flag, mdev, binds, user, boots>>

(***************************************************************************)
(* mount_fixup                                                              *)
(***************************************************************************)

\* A plausible bug: the flag is trusted, and not the table of mounts.
FixupByFlag ==
    /\ pc = "fixup"
    /\ pc' = IF flag \/ ~flash THEN "up" ELSE "copy"
    /\ file' = 1
    /\ NoFault
    /\ UNCHANGED <<platform, flash, overlay, mdev, copy, shown, user, boots>>

\* is_bindmount_nagger_files looks at what is mounted.
Fixup ==
    /\ pc = "fixup"
    /\ pc' = IF "etc" \in over \/ ~flash THEN "up" ELSE "copy"
    /\ file' = 1
    /\ NoFault
    /\ UNCHANGED <<platform, flash, overlay, mdev, copy, shown, user, boots>>

\* A plausible bug: the file is copied at every boot.
CopyFileAlways ==
    LET f == FileOrder[file] IN
    /\ pc = "copy"
    /\ copy' = [copy EXCEPT ![f] = 0]
    /\ pc' = "bind"
    /\ NoFault
    /\ UNCHANGED <<platform, flash, overlay, mdev, shown, file, user, boots>>

\* The first time a file is copied from the root file system; the result of cp
\* is not looked at.
CopyFile ==
    LET f == FileOrder[file] IN
    /\ pc = "copy"
    /\ \/ copy[f] # Missing /\ UNCHANGED copy /\ NoFault
       \/ copy[f] = Missing /\ copy' = [copy EXCEPT ![f] = 0] /\ NoFault
       \/ /\ copy[f] = Missing /\ Fault("copy")
          /\ \E c \in {Missing, Torn} : copy' = [copy EXCEPT ![f] = c]
    /\ pc' = "bind"
    /\ UNCHANGED <<platform, flash, overlay, mdev, shown, file, user, boots>>

\* The first file that cannot be bound ends the work.
BindFile ==
    LET f == FileOrder[file] IN
    /\ pc = "bind"
    /\ \/ /\ copy[f] # Missing
          /\ shown' = [shown EXCEPT ![f] = copy[f]]
          /\ IF file < 3 THEN file' = file + 1 /\ pc' = "copy"
                         ELSE UNCHANGED file /\ pc' = "up"
          /\ NoFault
       \/ /\ IF copy[f] = Missing THEN NoFault ELSE Fault("bind")
          /\ pc' = "up"
          /\ UNCHANGED <<shown, file>>
    /\ UNCHANGED <<platform, flash, overlay, mdev, copy, user, boots>>

(***************************************************************************)
(* The system is up                                                         *)
(***************************************************************************)

\* /etc is as the platform wants it: what is written now is meant to stay.
AsIntended == "etc" \in over <=> EtcWanted

Written(f) ==
    /\ edits < MaxEdits
    /\ edits' = edits + 1
    /\ last' = IF AsIntended THEN [last EXCEPT ![f] = edits + 1] ELSE last

\* A program writes one of the files in place.
EditFile(f) ==
    /\ pc = "up" /\ Written(f)
    /\ \/ /\ "etc" \in over
          /\ upper' = [upper EXCEPT ![f] = edits + 1]
          /\ UNCHANGED <<copy, shown>>
       \/ /\ "etc" \notin over /\ shown[f] # Missing
          /\ copy' = [copy EXCEPT ![f] = edits + 1]
          /\ shown' = [shown EXCEPT ![f] = edits + 1]
          /\ UNCHANGED upper
    /\ NoFault
    /\ UNCHANGED <<platform, flash, overlay, mdev, pc, file, boots>>

EditMdev ==
    /\ pc = "up" /\ "etc" \in over
    /\ mdev' \in {"plain", "hooked"}
    /\ NoFault
    /\ UNCHANGED <<platform, flash, overlay, binds, user, pc, boots>>

\* loginNagger without an overlay: passwd -p replaces the copy by a new file,
\* and the bind in /etc still shows the old one ...
Passwd ==
    /\ pc = "up" /\ "etc" \notin over /\ flash
    /\ copy["shadow"] \notin {Missing, Torn}
    /\ Written("shadow")
    /\ copy' = [copy EXCEPT !["shadow"] = edits + 1]
    /\ pc' = "remount"
    /\ NoFault
    /\ UNCHANGED <<platform, flash, overlay, mdev, upper, shown, file, boots>>

\* ... until RemountNaggerFiles.
Remount ==
    /\ pc = "remount"
    /\ \/ shown' = [shown EXCEPT !["shadow"] = copy["shadow"]] /\ NoFault
       \/ shown' = [shown EXCEPT !["shadow"] = Missing] /\ Fault("bind")
    /\ pc' = "up"
    /\ UNCHANGED <<platform, flash, overlay, mdev, copy, file, user, boots>>

\* mount_unionfs_stop, run by rcK; the binds stay until umount -a.
Stop ==
    /\ pc = "up"
    /\ over' = IF Allowed THEN {} ELSE over
    /\ pc' = "stopped"
    /\ NoFault
    /\ UNCHANGED <<platform, flash, flag, mdev, binds, user, boots>>

\* Power goes, at any time; a copy or the two entries may be left half done.
PowerOff ==
    /\ pc # "off" /\ boots < MaxBoots
    /\ boots' = boots + 1
    /\ LET f == FileOrder[file] IN
          \/ UNCHANGED copy
          \/ /\ pc = "copy" /\ copy[f] = Missing
             /\ copy' = [copy EXCEPT ![f] = Torn]
    /\ flash' = FALSE /\ over' = {} /\ flag' = FALSE
    /\ shown' = [f \in Files |-> Missing]
    /\ pc' = "off" /\ file' = 1 /\ failed' = {}
    /\ UNCHANGED <<platform, mdev, user, faults>>

Next ==
    \/ UserStart \/ Start \/ HookFirst \/ HookSecond \/ DropSame
    \/ MountEtc \/ MountData \/ MountFirmware
    \/ Fixup \/ CopyFile \/ BindFile
    \/ (\E f \in Files : EditFile(f)) \/ EditMdev \/ Passwd \/ Remount
    \/ Stop \/ PowerOff

Spec == Init /\ [][Next]_vars

(***************************************************************************)
(* What the functions after it see of it                                    *)
(***************************************************************************)

Settled == pc \in {"fixup", "copy", "bind", "up", "remount", "stopped"}

Mount == INSTANCE EtcMount WITH
            settled <- Settled,
            writable <- Settled /\ "etc" \in over,
            flag <- Settled /\ flag,
            faulty <- Settled /\ failed \cap {"data", "firmware"} # {}

(***************************************************************************)
(* Properties                                                               *)
(***************************************************************************)

\* What is in /etc/f.
Visible(f) ==
    IF shown[f] # Missing THEN shown[f]
    ELSE IF "etc" \in over /\ upper[f] # Missing THEN upper[f] ELSE 0

\* After mount_unionfs_start the wanted overlays are all there or none is, and
\* etc_is_writable_g, which the timezone functions go by, is right about /etc
\* unless a later overlay failed: only then is it on and /etc is read-only.
OverlayOutcome ==
    pc \in {"fixup", "copy", "bind", "up", "remount"} =>
        /\ over \in {{}, Wanted}
        /\ "etc" \in over => flag
        /\ flag /\ "etc" \notin over => failed \cap {"data", "firmware"} # {}

\* In each boot the script decides once what becomes of /etc, with one of the
\* outcomes that the timezone functions are written for; no edit, password
\* change, bind or failure of these changes the table of mounts or the flag.
MountSpec == Mount!Spec

\* Once up with /mnt/flash, /etc/shadow, /etc/default/dropbear and
\* /etc/securetty can be written, whichever overlay failed: mount_fixup replaces
\* the overlay by binds, which only a failed copy or bind prevents.
NaggerReady ==
    pc = "up" /\ failed \cap {"flash", "copy", "bind"} = {} =>
        "etc" \in over \/ \A f \in Files : shown[f] # Missing

\* In a boot without a failed command every file has its last edit, whatever
\* boots with failures, power cuts and remounts came between, as long as the
\* edit was made with /etc as the platform wants it, and /mnt/flash was not
\* formatted since.  (A copy cut short by a loss
\* of power or a failed cp stays: its presence is all that is looked at.)
EditsKept ==
    pc = "up" /\ failed = {} =>
        \A f \in Files : Visible(f) \in {last[f], Torn}
=============================================================================
