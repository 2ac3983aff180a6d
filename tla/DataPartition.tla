--------------------------- MODULE DataPartition ---------------------------
(***************************************************************************)
(* The boot-time life of one writable UBI partition: "userapp" mounted by  *)
(* mount_early_user_start and "swirw" mounted by mount_early_userrw_start  *)
(* (meta-swi-mdm9xxx, recipes-core/initscripts/files/mount_early.in, the   *)
(* variant built for every machine but mdm9x15).                           *)
(*                                                                         *)
(* Three actors share the partition: the boot script, mdev, which creates  *)
(* and removes the /dev/ubiN and /dev/ubiN_V nodes behind the script's     *)
(* back, and the power supply, which may fail between any two commands.    *)
(***************************************************************************)
EXTENDS Naturals, Sequences

CONSTANTS
    MaxFaults,  \* transient command failures in a behaviour
    MaxBoots    \* reboots and power cuts in a behaviour

ASSUME BoundsAssumption == MaxFaults \in Nat /\ MaxBoots \in Nat

VARIABLES
    platform,   \* the build and its kernel command line, fixed for good
    content,    \* what the MTD partition holds on flash
    data,       \* whether that content carries files of the user
    attached,   \* the kernel has the partition attached as UBI device N
    nodes,      \* the device nodes present in /dev
    uevents,    \* node changes the kernel announced and mdev has not made
    mounted,    \* the file system mounted on the partition's mount point
    pc,         \* the command the script runs next
    opt,        \* the entry of mount_ubifs_multi_mount_options' list tried
    created,    \* create_single_ubi_vol has succeeded in this boot
    ret,        \* what the start method returned in this boot
    faults,     \* transient failures so far
    faulted,    \* a transient failure happened in this boot
    boots       \* boots so far

flash == <<content, data>>
kernel == <<attached, nodes, uevents, mounted>>
script == <<pc, opt, created, ret>>
budget == <<faults, faulted, boots>>
vars == <<platform, flash, kernel, script, budget>>

-----------------------------------------------------------------------------
(* The platform. "fudge" is the fudge_ro_rootfs= argument, "forced" the    *)
(* user1_fs= argument, "yaffs" YAFFS2_KERN_SUPPORT, "quota" whether UBIFS  *)
(* accepts the quota mount options. "lag" says how far mdev trails the     *)
(* kernel: not at all, behind the script's next command but never for the  *)
(* 3 s wait_on_file allows, or longer than that.                           *)

Lags == {"none", "short", "long"}

Platforms ==
    [method : {"user"}, fudge : {"true", "false", "unset"},
     forced : {"none", "ubifs", "yaffs2"}, yaffs : BOOLEAN,
     quota : BOOLEAN, lag : Lags]
    \cup
    [method : {"userrw"}, fudge : {"unset"}, forced : {"none"},
     yaffs : BOOLEAN, quota : BOOLEAN, lag : Lags]

(* A UBI container with no volume, with a mountable UBIFS volume, with a   *)
(* volume whose file system is damaged; a YAFFS2 file system; a blank      *)
(* partition; and one left half written by ubiformat.                      *)
UbiContents == {"ubi_novol", "ubifs", "ubifs_bad"}
WithVolume == {"ubifs", "ubifs_bad"}
Contents == UbiContents \cup {"yaffs2", "erased", "partial"}

(* The file system the start method is meant to mount as it stands.        *)
Wanted ==
    \/ content = "ubifs" /\ platform.forced # "yaffs2"
    \/ /\ content = "yaffs2"
       /\ platform.method = "user" /\ platform.yaffs
       /\ platform.forced # "ubifs"

-----------------------------------------------------------------------------
(* mdev. The kernel announces a node and returns to the script; mdev       *)
(* creates or removes it later, in the order of the announcements.         *)

Add(d) == [act |-> "add", dev |-> d]
Remove(d) == [act |-> "remove", dev |-> d]

HasVolume == content \in WithVolume

AttachEvents ==
    IF HasVolume THEN <<Add("dev"), Add("vol")>> ELSE <<Add("dev")>>

DetachEvents ==
    IF HasVolume THEN <<Remove("vol"), Remove("dev")>> ELSE <<Remove("dev")>>

Mdev ==
    /\ uevents # <<>>
    /\ LET e == Head(uevents)
       IN nodes' = IF e.act = "add" THEN nodes \cup {e.dev}
                                    ELSE nodes \ {e.dev}
    /\ uevents' = Tail(uevents)
    /\ UNCHANGED <<platform, flash, attached, mounted, script, budget>>

(* The script runs its next command: with no lag, mdev is done by then.    *)
Runs(label) ==
    /\ pc = label
    /\ platform.lag = "none" => uevents = <<>>

(* wait_on_file gives up: the node is not there, and either it was not     *)
(* going to come or mdev took longer than 3 s.                             *)
TimesOut(d) ==
    /\ d \notin nodes
    /\ uevents = <<>> \/ platform.lag = "long"

-----------------------------------------------------------------------------
(* Outcomes of a command. It succeeds when what it needs is there, unless  *)
(* it fails for a passing reason (I/O error, out of memory).               *)

Fault ==
    /\ faults < MaxFaults
    /\ faults' = faults + 1
    /\ faulted' = TRUE
    /\ UNCHANGED boots

Succeeds(needs) == needs /\ UNCHANGED budget
Fails(needs) == (~needs /\ UNCHANGED budget) \/ (needs /\ Fault)

(* ubidetach -m, refused while a volume is mounted: fs is the file system   *)
(* that is mounted when the command runs.                                  *)
UbiDetach(fs) ==
    IF attached /\ fs # "ubifs"
    THEN attached' = FALSE /\ uevents' = uevents \o DetachEvents
    ELSE UNCHANGED <<attached, uevents>>

(* mount -t yaffs2: "takes no prisoners", it mounts whatever is there and  *)
(* anything that is not YAFFS2 becomes an empty YAFFS2 file system.        *)
YaffsMounts ==
    \/ /\ Succeeds(platform.yaffs)
       /\ mounted' = "yaffs2"
       /\ content' = "yaffs2"
       /\ data' = IF content = "yaffs2" THEN data ELSE "none"
    \/ /\ Fails(platform.yaffs)
       /\ UNCHANGED <<mounted, content, data>>

-----------------------------------------------------------------------------
(* Where the script goes from one method to the next.                      *)

Return(r) == pc' = "done" /\ ret' = r /\ UNCHANGED <<opt, created>>
GoTo(label) == pc' = label /\ UNCHANGED <<opt, created, ret>>

(* UBIFS or nothing: userrw, and a user partition forced to be UBIFS.      *)
UbifsOnly == platform.method = "userrw" \/ platform.forced = "ubifs"

(* What follows when every mount option failed is up to the start method.  *)
AllTriesFailed ==
    \/ created /\ UbifsOnly /\ Return("ERR")
    \/ created /\ ~UbifsOnly /\ GoTo("yaffs_back")
    \/ ~created /\ ~UbifsOnly /\ platform.yaffs /\ GoTo("yaffs_try")
    \/ ~created /\ (UbifsOnly \/ ~platform.yaffs) /\ GoTo("format")

(* Variant of TryFailed: only the first mount options are tried.           *)
TryFailedFirstOnly == AllTriesFailed

(* One mount_ubifs call failed: the next mount options are tried, if any.  *)
TryFailed ==
    \/ opt = 1 /\ pc' = "probe" /\ opt' = 2 /\ UNCHANGED <<created, ret>>
    \/ opt = 2 /\ AllTriesFailed

(* Variant of CreateFailed: the failure is not reported.                   *)
CreateFailedUnreported == Return("OK")

(* create_single_ubi_vol failed.                                           *)
CreateFailed ==
    \/ UbifsOnly /\ Return("ERR")
    \/ ~UbifsOnly /\ GoTo("yaffs_back")

-----------------------------------------------------------------------------
(* is_fudge_ro_rootfs_allowed. Without the boot argument the code tests    *)
(* the literal words rootfs_ro and flashfs_rw, which are never empty.      *)
FudgeAllowed == platform.fudge # "false"

(* Only the user method asks.                                              *)
Allowed == platform.method = "user" => FudgeAllowed

(* The first lines of mount_early_user_start and mount_early_userrw_start. *)
Start ==
    /\ Runs("start")
    /\ \/ ~Allowed /\ Return("OK")
       \/ Allowed /\ platform.forced = "yaffs2" /\ GoTo("yaffs_back")
       \/ Allowed /\ platform.forced # "yaffs2" /\ GoTo("probe")
    /\ UNCHANGED <<platform, flash, kernel, budget>>

(* Variant of Probe: mount_ubifs attaches without looking for /dev/ubiN.   *)
ProbeAlwaysAttaches ==
    /\ Runs("probe")
    /\ IF content = "erased" THEN TryFailed ELSE GoTo("attach")
    /\ UNCHANGED <<platform, flash, kernel, budget>>

(* mount_ubifs: is_partition_erased, then the look for /dev/ubiN.          *)
Probe ==
    /\ Runs("probe")
    /\ \/ content = "erased" /\ TryFailed
       \/ content # "erased" /\ "dev" \in nodes /\ GoTo("mount")
       \/ content # "erased" /\ "dev" \notin nodes /\ GoTo("attach")
    /\ UNCHANGED <<platform, flash, kernel, budget>>

Attach ==
    /\ Runs("attach")
    /\ LET can == ~attached /\ content \in UbiContents
       IN \/ /\ Succeeds(can)
             /\ attached' = TRUE
             /\ uevents' = uevents \o AttachEvents
             /\ GoTo("wait")
          \/ /\ Fails(can)
             /\ TryFailed
             /\ UNCHANGED <<attached, uevents>>
    /\ UNCHANGED <<platform, flash, nodes, mounted>>

(* wait_on_file /dev/ubiN_V. Giving up leaves the device attached.         *)
Wait ==
    /\ Runs("wait")
    /\ \/ "vol" \in nodes /\ GoTo("mount")
       \/ TimesOut("vol") /\ TryFailed
    /\ UNCHANGED <<platform, flash, kernel, budget>>

(* Variant of Mount: the error path forgets ubidetach.                     *)
MountKeepsDevice ==
    /\ Runs("mount")
    /\ LET can == /\ attached /\ "vol" \in nodes /\ content = "ubifs"
                  /\ opt = 1 => platform.quota
       IN \/ /\ Succeeds(can)
             /\ mounted' = "ubifs"
             /\ IF opt = 1 THEN GoTo("quota") ELSE Return("OK")
          \/ Fails(can) /\ TryFailed /\ UNCHANGED mounted
    /\ UNCHANGED <<platform, flash, nodes, attached, uevents>>

(* mount -t ubifs, and ubidetach when it fails.                            *)
Mount ==
    /\ Runs("mount")
    /\ LET can == /\ attached /\ "vol" \in nodes /\ content = "ubifs"
                  /\ opt = 1 => platform.quota
       IN \/ /\ Succeeds(can)
             /\ mounted' = "ubifs"
             /\ IF opt = 1 THEN GoTo("quota") ELSE Return("OK")
             /\ UNCHANGED <<attached, uevents>>
          \/ /\ Fails(can)
             /\ UNCHANGED mounted
             /\ UbiDetach(mounted)
             /\ TryFailed
    /\ UNCHANGED <<platform, flash, nodes>>

(* Variant of Quota: the error path forgets umount.                        *)
QuotaStaysMounted ==
    /\ Runs("quota")
    /\ \/ Succeeds(TRUE) /\ Return("OK")
       \/ Fails(TRUE) /\ TryFailed
    /\ UNCHANGED <<platform, flash, kernel>>

(* quotacheck_ug on the file system mounted with quotas; umount and        *)
(* ubidetach when the quota files could not be repaired.                   *)
Quota ==
    /\ Runs("quota")
    /\ \/ /\ Succeeds(TRUE)
          /\ Return("OK")
          /\ UNCHANGED <<attached, uevents, mounted>>
       \/ /\ Fails(TRUE)
          /\ mounted' = "none"
          /\ UbiDetach("none")
          /\ TryFailed
    /\ UNCHANGED <<platform, flash, nodes>>

(* mount_yaffs_fs, its result ignored.                                     *)
YaffsTry ==
    /\ Runs("yaffs_try")
    /\ YaffsMounts
    /\ GoTo("yaffs_empty")
    /\ UNCHANGED <<platform, attached, nodes, uevents>>

(* is_yaffs2_empty: an empty file system is unmounted, to become UBIFS.    *)
YaffsEmpty ==
    /\ Runs("yaffs_empty")
    /\ IF mounted = "yaffs2" /\ data = "none"
       THEN mounted' = "none" /\ GoTo("format")
       ELSE Return("OK") /\ UNCHANGED mounted
    /\ UNCHANGED <<platform, flash, attached, nodes, uevents, budget>>

(* create_single_ubi_vol. ubiformat refuses an attached partition; once it *)
(* has begun, nothing of the old content can be read back.                 *)
Format ==
    /\ Runs("format")
    /\ \/ /\ Succeeds(~attached)
          /\ content' = "partial" /\ data' = "none"
          /\ GoTo("formatting")
       \/ /\ Fails(~attached)
          /\ CreateFailed
          /\ UNCHANGED flash
    /\ UNCHANGED <<platform, kernel>>

Formatting ==
    /\ Runs("formatting")
    /\ \/ Succeeds(TRUE) /\ content' = "ubi_novol" /\ GoTo("create_attach")
       \/ Fails(TRUE) /\ CreateFailed /\ UNCHANGED content
    /\ UNCHANGED <<platform, data, kernel>>

CreateAttach ==
    /\ Runs("create_attach")
    /\ LET can == ~attached /\ content \in UbiContents
       IN \/ /\ Succeeds(can)
             /\ attached' = TRUE
             /\ uevents' = uevents \o AttachEvents
             /\ GoTo("create_wait")
          \/ /\ Fails(can)
             /\ CreateFailed
             /\ UNCHANGED <<attached, uevents>>
    /\ UNCHANGED <<platform, flash, nodes, mounted>>

(* wait_on_file /dev/ubiN. Giving up leaves the device attached.           *)
CreateWait ==
    /\ Runs("create_wait")
    /\ \/ "dev" \in nodes /\ GoTo("mkvol")
       \/ TimesOut("dev") /\ CreateFailed
    /\ UNCHANGED <<platform, flash, kernel, budget>>

(* ubimkvol, then ubidetach whatever came of it; UBIFS formats the empty   *)
(* volume when it is first mounted.                                        *)
MakeVolume ==
    /\ Runs("mkvol")
    /\ LET can == attached /\ "dev" \in nodes
       IN \/ /\ Succeeds(can)
             /\ content' = "ubifs"
             /\ uevents' = uevents \o
                           <<Add("vol"), Remove("vol"), Remove("dev")>>
             /\ attached' = FALSE
             /\ pc' = "probe" /\ opt' = 1 /\ created' = TRUE
             /\ UNCHANGED ret
          \/ /\ Fails(can)
             /\ UbiDetach(mounted)
             /\ CreateFailed
             /\ UNCHANGED content
    /\ UNCHANGED <<platform, data, nodes, mounted>>

(* mount_yaffs_fs as the forced file system or the last resort; the start  *)
(* method reports success whatever came of it.                             *)
YaffsBack ==
    /\ Runs("yaffs_back")
    /\ YaffsMounts
    /\ Return("OK")
    /\ UNCHANGED <<platform, attached, nodes, uevents>>

-----------------------------------------------------------------------------
(* The running system writes files to the mounted partition.               *)
UseFs ==
    /\ pc = "done"
    /\ mounted # "none"
    /\ data' = "user"
    /\ UNCHANGED <<platform, content, kernel, script, budget>>

(* mount_early_user_stop, mount_early_userrw_stop: a lazy umount, then     *)
(* ubidetach, which fails while old clients keep the file system busy.     *)
Stop ==
    /\ Runs("done")
    /\ pc' = "stopped"
    /\ mounted' = IF Allowed THEN "none" ELSE mounted
    /\ \/ Allowed /\ mounted = "ubifs" /\ UbiDetach("none")
       \/ UNCHANGED <<attached, uevents>>
    /\ UNCHANGED <<platform, flash, nodes, opt, created, ret, budget>>

(* A reboot after the stop scripts, or a power cut anywhere: what the      *)
(* kernel and the script held is gone, what is on flash stays.             *)
Reboot ==
    /\ boots < MaxBoots
    /\ boots' = boots + 1
    /\ faulted' = FALSE
    /\ attached' = FALSE /\ nodes' = {} /\ uevents' = <<>>
    /\ mounted' = "none"
    /\ pc' = "start" /\ opt' = 1 /\ created' = FALSE /\ ret' = "none"
    /\ UNCHANGED <<platform, flash, faults>>

-----------------------------------------------------------------------------
Init ==
    /\ platform \in Platforms
    /\ \E c \in Contents, d \in {"user", "none"} :
          /\ d = "user" => c \in {"ubifs", "yaffs2"}
          /\ content = c /\ data = d
    /\ attached = FALSE /\ nodes = {} /\ uevents = <<>> /\ mounted = "none"
    /\ pc = "start" /\ opt = 1 /\ created = FALSE /\ ret = "none"
    /\ faults = 0 /\ faulted = FALSE /\ boots = 0

MountStep == Start \/ Probe \/ Attach \/ Wait \/ Mount \/ Quota
YaffsStep == YaffsTry \/ YaffsEmpty \/ YaffsBack
CreateStep == Format \/ Formatting \/ CreateAttach \/ CreateWait \/ MakeVolume
ScriptStep == MountStep \/ YaffsStep \/ CreateStep

Next == ScriptStep \/ Mdev \/ UseFs \/ Stop \/ Reboot

Spec == Init /\ [][Next]_vars

(* The init process keeps running the script, and mdev keeps up with its   *)
(* queue; nothing obliges the power to fail or the system to be stopped.   *)
FairSpec == Spec /\ WF_vars(ScriptStep) /\ WF_vars(Mdev)

-----------------------------------------------------------------------------
(* Properties.                                                             *)

UEvent == [act : {"add", "remove"}, dev : {"dev", "vol"}]

Labels ==
    {"start", "probe", "attach", "wait", "mount", "quota",
     "yaffs_try", "yaffs_empty", "yaffs_back", "format", "formatting",
     "create_attach", "create_wait", "mkvol", "done", "stopped"}

StateTyped ==
    /\ platform \in Platforms
    /\ content \in Contents /\ data \in {"user", "none"}
    /\ attached \in BOOLEAN
    /\ nodes \in SUBSET {"dev", "vol"}
    /\ mounted \in {"none", "ubifs", "yaffs2"}
    /\ pc \in Labels /\ opt \in {1, 2} /\ created \in BOOLEAN
    /\ ret \in {"none", "OK", "ERR"}

QueueTyped == uevents \in Seq(UEvent)

BudgetTyped ==
    faults \in 0..MaxFaults /\ boots \in 0..MaxBoots /\ faulted \in BOOLEAN

(* Every variable has its type.                                            *)
TypeOK == StateTyped /\ QueueTyped /\ BudgetTyped

(* The boot does not refuse the partition, and it has a kernel for the     *)
(* file system it is told to use.                                          *)
Serviceable ==
    /\ Allowed
    /\ platform.forced = "yaffs2" => platform.yaffs

(* The result the start method hands to mount_early_start, which gives up  *)
(* on the rest of the boot mounts when it is not OK, agrees with what is   *)
(* mounted: always for userrw and for a forced UBIFS, and an error never   *)
(* leaves something mounted.                                               *)
ResultTruthful ==
    pc = "done" =>
        /\ ret = "ERR" => mounted = "none"
        /\ ret = "OK" /\ Allowed /\ UbifsOnly => mounted = "ubifs"

(* The error paths release the UBI device: a boot without a transient      *)
(* failure never ends with the partition attached and not mounted.         *)
NoAttachLeak ==
    /\ pc = "done" /\ ~faulted /\ platform.lag = "none"
    => (attached <=> mounted = "ubifs")

(* Whatever earlier failures and power cuts have left on flash, a boot in   *)
(* which nothing fails ends with the partition mounted, by whichever way:  *)
(* as it is, without quotas, through the YAFFS2 probe, or formatted anew.  *)
HealthyBootMounts ==
    /\ pc = "done" /\ ~faulted /\ platform.lag = "none" /\ Serviceable
    => mounted # "none"

(* create_single_ubi_vol never works on a partition that is mounted, be it *)
(* as UBIFS or through the YAFFS2 probe.                                   *)
FormatsUnmounted ==
    pc \in {"formatting", "create_attach", "create_wait", "mkvol"}
        => mounted = "none"

(* The user's files are lost only in a boot where a command failed, where  *)
(* mdev trailed the script, or where flash holds a file system the         *)
(* platform is not meant to mount.                                         *)
LosesData == data = "user" /\ data' = "none"
DataKept == [][LosesData => faulted \/ platform.lag # "none" \/ ~Wanted]_vars

(* The retry without quotas works on platforms that have no quota support: *)
(* as long as mdev keeps within the 3 s that wait_on_file allows, it does  *)
(* not cost the user the files.                                            *)
RetryKeepsData ==
    [][LosesData => faulted \/ platform.lag = "long" \/ ~Wanted]_vars

(* What the users of the mount point rely on: while it is mounted, only    *)
(* their own writes change what it holds.                                  *)
Store == INSTANCE DataStore WITH up <- mounted # "none"
StoreSpec == Store!Spec

(* Once nothing fails any more, the last boot mounts the partition.        *)
LastBootMounts ==
    (pc = "start" /\ boots = MaxBoots /\ faults = MaxFaults
        /\ platform.lag = "none" /\ Serviceable)
    ~> (mounted # "none")

=============================================================================
