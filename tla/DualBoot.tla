------------------------------ MODULE DualBoot ------------------------------
(***************************************************************************)
(* Booting from one of two halves of the flash. Every half has a root file *)
(* system (system, system2), a Legato framework (lefwkro, lefwkro2) and a  *)
(* modem firmware (modem, modem2). Three scripts mount them one after the  *)
(* other: init.sh in the initramfs, mount_early.in and find_partitions.sh. *)
(* Each asks swidssd which half to use; when its image cannot be mounted   *)
(* it marks that image bad through swidssd and reboots at once, and the    *)
(* boot loader (external) chooses among the halves that are left.          *)
(*                                                                         *)
(* On a single system there is no swidssd and only half 1. The modules are *)
(* not fused: check_security_auth reports no security.                     *)
(***************************************************************************)
EXTENDS Naturals

CONSTANTS
    Platforms,  \* the builds and kernel command lines looked at
    Images,     \* what the flash holds at first
    MaxFaults,  \* transient command failures in a behaviour
    MaxResets   \* reboots by the user and power cuts in a behaviour

VARIABLES
    platform,   \* the build and its kernel command line, fixed for good
    image,      \* image[n][h]: what the partition of image n in half h holds
    marked,     \* the images marked bad in the memory shared with swidssd
    chosen,     \* the halves the boot loader told Linux to use
    half,       \* the half each script of this boot turned to, 0 before
    blk,        \* the block device of the root file system came up
    mounted,    \* the images mounted in this boot
    pc,         \* the step of the boot that runs next
    victim,     \* the image swap_dual_system is called for
    faults,     \* transient failures so far
    faulted,    \* a transient failure happened in this boot
    resets      \* resets so far

storage == <<image, marked, chosen>>
boot == <<half, blk, mounted, pc, victim>>
budget == <<faults, faulted, resets>>
vars == <<platform, storage, boot, budget>>

Halves == {1, 2}
Names == {"system", "legato", "modem"}

(* What the partition of an image holds: the image; an UBI container that  *)
(* cannot be mounted; something that is no UBI container, which YAFFS2     *)
(* takes for itself; nothing at all.                                       *)
Contents == {"good", "bad", "raw", "erased"}
IsUbi(c) == c \in {"good", "bad"}

(* "dual": /proc/proc_buffer and swidssd exist. "yaffs": the kernel knows  *)
(* YAFFS2. "wait" is rootfs.wait=true, "fixed" is rootfs.dev=, "ima" is    *)
(* ima_appraise=. "slow": mdev can take longer than the 60 ms of           *)
(* wait_on_dev to create /dev/ubi1_0.                                      *)
AllPlatforms ==
    [dual : BOOLEAN, yaffs : BOOLEAN, wait : BOOLEAN, fixed : BOOLEAN,
     ima : BOOLEAN, slow : BOOLEAN]

AllImages == [Names -> [Halves -> Contents]]

ASSUME PlatformAssumption == Platforms \subseteq AllPlatforms
ASSUME ImageAssumption == Images \subseteq AllImages
ASSUME BoundsAssumption == MaxFaults \in Nat /\ MaxResets \in Nat

-----------------------------------------------------------------------------
(* Outcomes of a command.                                                  *)

Fault ==
    /\ faults < MaxFaults
    /\ faults' = faults + 1
    /\ faulted' = TRUE
    /\ UNCHANGED resets

Succeeds(needs) == needs /\ UNCHANGED budget
Fails(needs) == (~needs /\ UNCHANGED budget) \/ (needs /\ Fault)

(* swidssd read: half 2 only if it says so; half 1 on a single system and  *)
(* when swidssd fails.                                                     *)
HalfToUse(flag, h) ==
    \/ ~platform.dual /\ h = 1 /\ UNCHANGED budget
    \/ platform.dual /\ h = flag /\ UNCHANGED budget
    \/ platform.dual /\ h = 1 /\ Fault

(* mount -t yaffs2 mounts whatever is there and wipes what is not YAFFS2;  *)
(* an erased partition may or may not be written to.                       *)
YaffsTakes(n, h) ==
    \E c \in (IF image[n][h] = "erased" THEN {"erased", "raw"} ELSE {"raw"}) :
        image' = [image EXCEPT ![n][h] = c]

(* swap_dual_system for an image that is in DUAL_PARTI_LIST.  Its grep for  *)
(* mtd1 also finds mtd10 and later ones, but /proc/mtd has mtd1 first and   *)
(* do_swap looks at the first name it is given: the partition is the one.   *)
Swap(n) == pc' = "swap" /\ victim' = <<n, half[n]>>

GoTo(label) == pc' = label /\ UNCHANGED victim

-----------------------------------------------------------------------------
(* init.sh.                                                                *)

(* ima_setup, before any partition is chosen: record_rootfs_image_status   *)
(* has no partition to mark and init gives up.                             *)
ImaSetup ==
    /\ pc = "ima"
    /\ \/ UNCHANGED budget /\ GoTo("linux_flag")
       \/ platform.ima /\ Fault /\ GoTo("dead")
    /\ UNCHANGED <<platform, storage, half, blk, mounted>>

(* record_rootfs_image_status after a failed method: a root device named   *)
(* on the command line (half 0) is nothing that could be swapped.          *)
RootfsFailed ==
    \/ platform.dual /\ half.system # 0 /\ Swap("system")
    \/ ~platform.dual /\ GoTo("dead")
    \/ half.system = 0 /\ GoTo("dead")

(* The head of set_boot_dev.                                               *)
LinuxFlag ==
    /\ pc = "linux_flag"
    /\ \/ /\ platform.fixed
          /\ blk' = TRUE /\ GoTo("mount_rootfs")
          /\ UNCHANGED <<half, budget>>
       \/ /\ ~platform.fixed
          /\ \E h \in Halves :
                HalfToUse(chosen.linux, h) /\ half' = [half EXCEPT !.system = h]
          /\ GoTo("attach_rootfs") /\ UNCHANGED blk
    /\ UNCHANGED <<platform, storage, mounted>>

(* The UBI magic number, ubiattach and wait_on_file; what is no UBI        *)
(* container is taken for YAFFS2, on the MTD block device.                 *)
AttachRootfs ==
    /\ pc = "attach_rootfs"
    /\ LET c == image.system[half.system]
       IN \/ IsUbi(c) /\ UNCHANGED <<blk, budget>> /\ GoTo("ubiblock")
          \/ c = "bad" /\ RootfsFailed /\ UNCHANGED <<blk, budget>>
          \/ c = "good" /\ Fault /\ RootfsFailed /\ UNCHANGED blk
          \/ ~IsUbi(c) /\ blk' = TRUE /\ GoTo("mount_rootfs") /\ UNCHANGED budget
    /\ UNCHANGED <<platform, storage, half, mounted>>

(* ubiblock --create, its result ignored.                                  *)
CreateBlock ==
    /\ pc = "ubiblock"
    /\ blk' \in BOOLEAN
    /\ IF blk' THEN UNCHANGED budget ELSE Fault
    /\ GoTo("mount_rootfs")
    /\ UNCHANGED <<platform, storage, half, mounted>>

(* checkpoint_rootfs. With rootfs.wait=true it waits for the block device  *)
(* for as long as it takes. The file system must have a /bin.              *)
MountRootfs ==
    /\ pc = "mount_rootfs"
    /\ platform.wait => blk
    /\ LET h == half.system
           can == blk /\ (h # 0 => image.system[h] = "good")
       IN /\ \/ /\ Succeeds(can)
                /\ mounted' = mounted \cup {"system"}
                /\ GoTo("legato_flag")
             \/ Fails(can) /\ RootfsFailed /\ UNCHANGED mounted
          /\ IF h # 0 /\ ~IsUbi(image.system[h]) /\ platform.yaffs
             THEN YaffsTakes("system", h)
             ELSE UNCHANGED image
    /\ UNCHANGED <<platform, marked, chosen, half, blk>>

-----------------------------------------------------------------------------
(* mount_early.in.                                                         *)

(* mount_early_start stops before mount_early_legato_start when the user   *)
(* partition is in error, and Legato is then not mounted.                  *)
UserFailed ==
    /\ pc = "legato_flag"
    /\ Fault
    /\ GoTo("modem_flag")
    /\ UNCHANGED <<platform, storage, half, blk, mounted>>

(* Variants of LegatoFlag: swidssd is not asked; YAFFS2 is tried first.    *)
LegatoFlagFirst ==
    /\ pc = "legato_flag"
    /\ half' = [half EXCEPT !.legato = 1]
    /\ GoTo("mount_legato")
    /\ UNCHANGED <<platform, storage, blk, mounted, budget>>

LegatoFlagYaffs ==
    /\ pc = "legato_flag"
    /\ \E h \in Halves :
          HalfToUse(chosen.linux, h) /\ half' = [half EXCEPT !.legato = h]
    /\ GoTo("yaffs_legato")
    /\ UNCHANGED <<platform, storage, blk, mounted>>

(* The head of mount_early_legato_start.                                   *)
LegatoFlag ==
    /\ pc = "legato_flag"
    /\ \E h \in Halves :
          HalfToUse(chosen.linux, h) /\ half' = [half EXCEPT !.legato = h]
    /\ GoTo("mount_legato")
    /\ UNCHANGED <<platform, storage, blk, mounted>>

(* Variant of HandleLegatoFail: the backup image is not asked for.         *)
HandleLegatoFailStays == GoTo("yaffs_legato")

(* Variant of HandleLegatoFail: an empty partition is an error, too.       *)
HandleLegatoFailEmpty ==
    \/ platform.dual /\ Swap("legato")
    \/ ~platform.dual /\ GoTo("yaffs_legato")

(* handle_legato_fail_issue: an empty partition is no reason to reboot.    *)
HandleLegatoFail ==
    LET swap == platform.dual /\ image.legato[half.legato] # "erased"
    IN \/ swap /\ Swap("legato")
       \/ ~swap /\ GoTo("yaffs_legato")

(* mount_ubifs of the squashfs volume.                                     *)
MountLegato ==
    /\ pc = "mount_legato"
    /\ LET can == image.legato[half.legato] = "good"
       IN \/ /\ Succeeds(can)
             /\ mounted' = mounted \cup {"legato"}
             /\ GoTo("modem_flag")
          \/ Fails(can) /\ HandleLegatoFail /\ UNCHANGED mounted
    /\ UNCHANGED <<platform, storage, half, blk>>

(* mount_yaffs_fs where the kernel knows YAFFS2; "mounting legato          *)
(* partition is not compulsory for the system to boot".                    *)
YaffsLegato ==
    /\ pc = "yaffs_legato"
    /\ \/ /\ Succeeds(platform.yaffs)
          /\ YaffsTakes("legato", half.legato)
       \/ Fails(platform.yaffs) /\ UNCHANGED image
    /\ GoTo("modem_flag")
    /\ UNCHANGED <<platform, marked, chosen, half, blk, mounted>>

-----------------------------------------------------------------------------
(* find_partitions.sh.                                                     *)

ModemFlag ==
    /\ pc = "modem_flag"
    /\ \E h \in Halves :
          HalfToUse(chosen.modem, h) /\ half' = [half EXCEPT !.modem = h]
    /\ GoTo("mount_modem")
    /\ UNCHANGED <<platform, storage, blk, mounted>>

ModemFailed ==
    \/ platform.dual /\ Swap("modem")
    \/ ~platform.dual /\ GoTo("up")

(* FindAndMountUBI. What is no UBI container is mounted as YAFFS2.         *)
MountModem ==
    /\ pc = "mount_modem"
    /\ LET h == half.modem
           c == image.modem[h]
           can == IF IsUbi(c) THEN c = "good" ELSE platform.yaffs
       IN \/ /\ Succeeds(can)
             /\ mounted' = mounted \cup {"modem"}
             /\ IF IsUbi(c) THEN UNCHANGED image ELSE YaffsTakes("modem", h)
             /\ GoTo("up")
          \/ /\ \/ Fails(can)
                \/ IsUbi(c) /\ platform.slow /\ UNCHANGED budget
             /\ ModemFailed
             /\ UNCHANGED <<image, mounted>>
    /\ UNCHANGED <<platform, marked, chosen, half, blk>>

-----------------------------------------------------------------------------
(* What every boot begins with.                                            *)
Restart ==
    /\ pc' = "off" /\ faulted' = FALSE
    /\ half' = [n \in Names |-> 0] /\ blk' = FALSE /\ mounted' = {}
    /\ UNCHANGED victim

(* Variant of DoSwap: the half that is not in use is marked.               *)
DoSwapOther ==
    /\ pc = "swap"
    /\ marked' = marked \cup {<<victim[1], 3 - victim[2]>>}
    /\ Restart
    /\ UNCHANGED <<platform, image, chosen, faults, resets>>

(* do_swap: swidssd write, whose result is not looked at, sync, sysrq b.   *)
DoSwap ==
    /\ pc = "swap"
    /\ \/ marked' = marked \cup {victim} /\ UNCHANGED faults
       \/ /\ faults < MaxFaults /\ faults' = faults + 1
          /\ UNCHANGED marked
    /\ Restart
    /\ UNCHANGED <<platform, image, chosen, resets>>

(* The boot loader keeps the half it last chose while none of the images   *)
(* is marked there, then tries the other one.                              *)
Clean(h, ns) == \A n \in ns : <<n, h>> \notin marked

Choices(h, ns) ==
    IF Clean(h, ns) THEN {h}
    ELSE IF Clean(3 - h, ns) THEN {3 - h} ELSE Halves

BootLoader ==
    /\ pc = "off"
    /\ chosen' \in [linux : Choices(chosen.linux, {"system", "legato"}),
                    modem : Choices(chosen.modem, {"modem"})]
    /\ GoTo("ima")
    /\ UNCHANGED <<platform, image, marked, half, blk, mounted, budget>>

(* A reboot by the user, a power cut anywhere, a watchdog bite.            *)
Reset ==
    /\ pc # "off"
    /\ resets < MaxResets /\ resets' = resets + 1
    /\ Restart
    /\ UNCHANGED <<platform, storage, faults>>

-----------------------------------------------------------------------------
Init ==
    /\ platform \in Platforms
    /\ image \in Images
    /\ marked = {} /\ chosen \in [linux : Halves, modem : Halves]
    /\ half = [n \in Names |-> 0] /\ blk = FALSE /\ mounted = {}
    /\ pc = "off" /\ victim = <<"system", 0>>
    /\ faults = 0 /\ faulted = FALSE /\ resets = 0

InitSh == ImaSetup \/ LinuxFlag \/ AttachRootfs \/ CreateBlock \/ MountRootfs
MountEarly == UserFailed \/ LegatoFlag \/ MountLegato \/ YaffsLegato
FindPartitions == ModemFlag \/ MountModem
BootStep == BootLoader \/ InitSh \/ MountEarly \/ FindPartitions \/ DoSwap

Next == BootStep \/ Reset

Spec == Init /\ [][Next]_vars

(* The boot goes on by itself; resets are up to the user.                  *)
Fairness == WF_vars(BootStep)
FairSpec == Spec /\ Fairness

-----------------------------------------------------------------------------
(* Properties.                                                             *)

Labels ==
    {"off", "ima", "linux_flag", "attach_rootfs", "ubiblock", "mount_rootfs",
     "legato_flag", "mount_legato", "yaffs_legato", "modem_flag",
     "mount_modem", "up", "swap", "dead"}

PlatformTyped == platform \in AllPlatforms

StorageTyped ==
    /\ image \in AllImages
    /\ marked \subseteq Names \X Halves
    /\ chosen \in [linux : Halves, modem : Halves]

BootTyped ==
    /\ half \in [Names -> {0} \cup Halves]
    /\ blk \in BOOLEAN
    /\ mounted \subseteq Names
    /\ pc \in Labels
    /\ victim \in Names \X ({0} \cup Halves)
    /\ pc = "swap" => victim[2] # 0

BudgetTyped ==
    faults \in 0..MaxFaults /\ resets \in 0..MaxResets /\ faulted \in BOOLEAN

(* Every variable has its type, and what is about to be marked bad is an   *)
(* image of one of the two halves.                                         *)
TypeOK == PlatformTyped /\ StorageTyped /\ BootTyped /\ BudgetTyped

(* An image is marked bad, and so lost as a fallback, only if it cannot be *)
(* mounted, unless a command failed for a passing reason or the modem's    *)
(* device node took longer than find_partitions.sh allows. An empty Legato *)
(* partition is never marked.                                              *)
MarksDeserved ==
    faults = 0 =>
        \A v \in marked :
            /\ image[v[1]][v[2]] = "good" => v[1] = "modem" /\ platform.slow
            /\ v[1] = "legato" => image[v[1]][v[2]] # "erased"

(* A reboot the scripts ask for gets the module further: it takes an image *)
(* out of the running that was in it, while the boot loader still has a    *)
(* half to offer. (A module whose both halves are marked may well reboot   *)
(* for ever.)                                                              *)
SwapsProgress ==
    [][pc = "swap" /\ pc' = "off" /\ ~faulted /\ UNCHANGED <<faults, resets>>
           /\ (\E h \in Halves : Clean(h, {"system", "legato"}))
           /\ (\E h \in Halves : Clean(h, {"modem"}))
       => victim \in marked' \ marked]_vars

(* Legato comes from the half the root file system came from, although the *)
(* initramfs and mount_early.in each ask for it on their own.              *)
SameHalf ==
    ~faulted /\ half.system # 0 /\ half.legato # 0 => half.legato = half.system

(* The YAFFS2 fallback wipes no Legato image that could be mounted and,    *)
(* where there is a backup, nothing but an empty partition.                *)
LegatoKept ==
    [][\A h \in Halves : image'.legato[h] # image.legato[h] =>
           \/ image.legato[h] = "erased"
           \/ ~platform.dual /\ (image.legato[h] = "good" => faulted)]_vars

(* One half has all it takes for Linux, one for the modem.                 *)
Bootable ==
    /\ platform.dual => \E h \in Halves : image.system[h] = "good" /\ image.legato[h] = "good"
    /\ platform.dual => \E h \in Halves : image.modem[h] = "good"
    /\ ~platform.dual => image.system[1] = "good"

(* How far a boot has come: the scripts run one after the other.           *)
Rank ==
    [l \in Labels |->
        CASE l = "off" -> 0 [] l = "ima" -> 1 [] l = "linux_flag" -> 2
          [] l = "attach_rootfs" -> 3 [] l = "ubiblock" -> 4 [] l = "mount_rootfs" -> 5
          [] l = "legato_flag" -> 6 [] l = "mount_legato" -> 7 [] l = "yaffs_legato" -> 8
          [] l = "modem_flag" -> 9 [] l = "mount_modem" -> 10 [] OTHER -> 11]

(* Why a module with a bootable half cannot reboot for ever, or give up:   *)
(* as long as no command fails for a passing reason, every step of its     *)
(* boot gets it further, and a reboot of the scripts takes one more of the *)
(* six images out of the running, never one that it needs to come up.      *)
GetsCloser ==
    [][faults' = 0 /\ UNCHANGED resets /\ Bootable /\ ~platform.slow =>
           /\ pc' # "dead" /\ Bootable'
           /\ \/ victim \in marked' \ marked /\ image[victim[1]][victim[2]] # "good"
              \/ pc # "swap" /\ Rank[pc'] > Rank[pc] /\ UNCHANGED marked]_vars

(* A module with one bootable half comes up, whatever its other half is    *)
(* like; a single system comes up without Legato and modem. (A command     *)
(* that fails for a passing reason may get a good image marked.)           *)
ComesUp ==
    (pc = "off" /\ faults = 0 /\ Bootable /\ ~platform.slow)
    ~> (pc = "up" \/ faults > 0)

=============================================================================
