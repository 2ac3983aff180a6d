# Verification of meta-swi

`meta-swi` holds the Yocto layers of the Sierra Wireless modules that run Legato.
Most of it is metadata. The program logic is in the scripts and tools that the
layers install on the module: they choose a half of the flash to boot from, mount,
format and check flash partitions, make `/etc` writable, keep the timezone, drive GPIO
expanders and an audio codec, and hold the module awake. They run against hardware
and a kernel that answer asynchronously, with commands that may fail, and power may
go at any moment. None of this is covered by a test of the repository.

This directory has TLA+ models of those programs, TLC runs over small instances,
and TLAPS proofs for every value of the constants. `PROJECT.json` lists the
components, the runs, the lines of source behind every definition (`map`), what is
hard to test (`hazards`) and the main theorems.

Paths below are relative to the root of the repository. ME is
`meta-swi-mdm9xxx/recipes-core/initscripts/files/mount_early.in`, MU is
`common/recipes-core/initscripts/files/mount_unionfs.in`.

## 1. Inventory

### What is modelled

| Part | State it keeps | Operations | Modules |
|---|---|---|---|
| Writable flash partitions, `mount_early_user_*` and `mount_early_userrw_*` in ME | content of the MTD partition, UBI attachment, `/dev/ubiN*`, the mount | start (mount, retry without quotas, YAFFS2 probe, reformat), stop | DataPartition, DataStore, DataPartition_proofs |
| Quota files, `quotacheck_ug` in ME | `aquota.user`, `aquota.group` and their backups | check, restore, recreate, back up | QuotaCheck, QuotaCheck_proofs |
| Dual system boot: `init.sh` of the initramfs, Legato in ME, `find_partitions.sh`, `functions.env` | images in both halves of the flash, marks in the memory of swidssd, the half in use | attach and mount root, Legato, modem; mark, swap and reboot | DualBoot, MCDualBoot, DualBoot_proofs |
| Overlays and bound files of `/etc`: MU, part of `loginNagger` | upper layers and copies in `/mnt/flash`, overlays and binds | start, `mount_fixup`, edits, password change, stop | EtcOverlay, EtcMount, EtcOverlay_proofs |
| Timezone: ME, MU, `tzoneset` | the bind over `zoneinfo/localtime`, `/etc/timezone`, lock file | set at boot, write, repair, `tzoneset`, unset | Timezone, Timezone_proofs |
| Pins of the MangOH expanders: `gpioexp.c` | registers of three SX1509 behind an I2C switch | every option word | GpioExpander, GpioPins, MCGpioExpander, GpioExpander_proofs |
| Menu tool for the same board: `i2cgpioctl.c` | the same registers, the I2C switch, pending interrupts | every command of the menu, probing, waiting for an interrupt | I2cScripts, I2cGpioCtl, MCI2cGpioCtl, Programs_proofs |
| Audio codec driver: `wm8944.c` | codec registers, `vmid_refcount`, the queued power-off work, what unmute remembers | format, parameters, mute, trigger, widget events, bias, suspend, controls | AudioPaths, AudioCodec, MCAudioCodec, AudioCodec_proofs |
| Wake lock of the USB link: `linkmon.c` | the wake lock, the epoll entry | read, lock, wait, leave | LinkMon, Programs_proofs |
| ftp client: `ftp.c` | the data connection, its queued events, the file, the exit status | request, handle, test, transfer | FtpSession |

### How the parts interact

At boot, in the order of the rc links: `init.sh` mounts the root file system
(DualBoot); `mount_early` S02 binds the timezone (Timezone), mounts userrw and user
(DataPartition, whose mount ends with `quotacheck_ug`, QuotaCheck) and Legato
(DualBoot); `mount_unionfs` S04 makes the overlays over `/mnt/flash` (EtcOverlay)
and repairs the timezone (Timezone); `find_partitions` S08 mounts the modem image
(DualBoot). mdev works in the background all the time. At shutdown rcK runs the
stop methods in reverse. Once the module is up, `linkmon` decides whether it may
suspend, `gpioexp` and `i2cgpioctl` work on one set of expanders, the audio framework of
the kernel calls `wm8944.c`, and the ftp client follows the data connection.

The modules do not share variables. Where one needs another, it takes *any*
outcome the other promises, so that a check of one stays valid when the other
gets more detail:

* QuotaCheck -> DataPartition: the quota check is one command that succeeds or
  fails; QuotaCheck shows what success means (`ResultHonest`, `CopiesMade`).
* DataPartition -> EtcOverlay: `/mnt/flash` is mounted, is not, or comes up empty
  after a failure (`UserStart`); while it is mounted its files change only when
  programs write them (`DataStore`).
* EtcOverlay -> Timezone: `/etc` has its overlay and the flag says so, has none and
  the flag says so, or has none and the flag is wrong after a failure of a later
  overlay. That is the module `EtcMount`: EtcOverlay is proved to implement it, for every
  platform and every failure (`OverlayImplementsMount`), and Timezone is composed
  with it: its action `Overlay` is `EtcMount!Settle`, with all its outcomes, and nothing else
  in it moves what EtcMount speaks of (`TimezoneKeepsToMount`).
* ME -> Timezone: when the timezone cannot be set, mount_early mounts nothing else,
  so no overlay follows (`Overlay`, guard on `"early"`).

### What is not modelled

| Part | Why |
|---|---|
| `bringup_ecm.sh`, `bridge_ecm.sh` | planned (EcmLink): handlers that mdev starts and does not wait for |
| `control_msm_watchdog.sh`, `restart_swi_apps`, `swiapplaunch.sh`, rcS, rcK, `startlegato.sh` | planned (AppGuard): one instance, restarts, the watchdog |
| `mount_swirw.sh` (sdx55) | planned: the sdx55 variant of DataPartition and EtcOverlay |
| `tiwifi.sh`, `qca9377.sh` | their gpioexp calls are options GpioExpander knows; the rest drives programs from outside |
| cwetool, yoctocwetool, signing scripts, `build.py` | sequential file converters of the build host |
| start-up GPIO, other targets' init scripts, start_usb, hibernation hooks | wrappers and straight-line scripts |
| recipes, classes, kernel and package patches, firmware | data for a build |

Of `wm8944.c`, which is partly modelled: the tone, filter and companding controls,
the register poke of debugfs, platform data, interrupts and probing (registers that no
step depends on). Of `ftp.c`: progress messages. Of `i2cgpioctl.c`: the check of the bus
before the loop, and an end of the input (its waits for Enter then never end).

External to the repository, and modelled by how the programs use them: the kernel
(UBI, mount, suspend, epoll), mdev, the boot loader, swidssd, quotacheck, the users of
files, the ASoC framework, the SX1509 expanders, curl, the data connection service.

## 2. The modules

Every script runs in the model as a program counter `pc` and one action per
command or group of commands without an observable point in between. A command
that can fail for a passing reason (I/O error, no memory) has a second outcome,
paid from `faults`; what fails because of the state (no volume, no node) fails for
free. Power cuts (`Reboot`, `PowerOff`, `Crash`, `Reset`) clear what lives in RAM,
may leave a write half done, and keep the flash. In each module the operators
introduced as "a plausible bug" or "Variant" are the code with one mistake; they
are not part of the specification, and the properties have been seen to fail on them.

### DataPartition (ME 141-1284, functions.env)

`platform` is the kernel command line and build (fudge, forced file system,
YAFFS2, quota support, how far mdev trails). `content` and `data` are the flash,
`attached` the kernel's view, `nodes` what is in `/dev`, `uevents` what mdev has
yet to do: the script tests `nodes`, never `attached`, and that is what makes it
hard. The actions follow `mount_ubifs` (Probe, Attach, Wait, Mount, Quota),
`mount_ubifs_multi_mount_options` (the list of options), the YAFFS2 probe,
`create_single_ubi_vol` and stop. `DataStore` is the abstract promise to programs
that use the mount point; the mapping is `up <- mounted # "none"`.

* `ResultTruthful`: what start returns agrees with what is mounted.
* `HealthyBootMounts`: a start method that comes to its end without a failed command and
  with a prompt mdev has the partition mounted, whatever is on flash, where the platform
  can mount it at all.
* `LastBootMounts` (liveness): whatever a crash left, a boot in which nothing fails
  comes to that end.
* `NoAttachLeak`: error paths release the device. `FormatsUnmounted` (proved): no format
  under a mount. `DataKept`: the user's files are lost only for a reason.
* `StoreSpec`: refinement of DataStore.

### QuotaCheck (ME 257-345)

The whole of `quotacheck_ug`. A quota file is missing, bad, fresh, or has the
administrator's limits, which nothing can recompute.

* `ResultHonest`: success means that both files have been checked and are good.
* `CopiesMade`: a check that ends with success and in which no command failed leaves the
  backup of each item the same as its file.
* `BackupReady`: without a failed command, whatever an earlier cut left, the backup is good.
* `LimitsKept`: the last copy of the limits survives every cut.

### DualBoot (init.sh, ME, find_partitions.sh, functions.env)

`image[n][h]` is what the partition of image n in half h holds, `marked` what
swidssd has been told is bad, `chosen` what the boot loader picked, `half[n]` what
each script thinks is in use: every script asks for itself, and on failure falls
back to half 1. `MarksDeserved`, `SwapsProgress`, `SameHalf`, `LegatoKept`, and the
liveness property `ComesUp`, whose ranking is `GetsCloser`.

### EtcOverlay (MU, functions.env, loginNagger 34-133)

`over` is the set of directories with an overlay, `flag` is `etc_is_writable_g`.
`upper` and `copy` hold the content of the three nagger files in the two places
that last, `shown` what is bound in front of `/etc`: a bind keeps showing the old
inode when passwd replaces the copy, until RemountNaggerFiles. `mdev` follows the
two lines that are appended to mdev.conf one after the other; either append may fail,
and nobody looks. `last` and `failed` are history. `OverlayOutcome`, `NaggerReady`,
`EditsKept`.

EtcMount is the promise about `/etc`: `settled` once mount_unionfs_start has returned,
then one of three outcomes, which stands until the overlays are unmounted. EtcOverlay
maps `settled` to the steps after the overlays, and `writable` and `flag` to false before
them, since nobody looks at them while the overlays come and go. `MountSpec`: refinement
of EtcMount.

### Timezone (tzoneset, MU, ME)

`binds` is the stack of mounts on one file (umount takes the top one away); `tmp`
the file that stands in for a read-only `/etc/timezone`. Every copy of tzoneset is
a process; `Overlay` is a step of EtcMount; `Racing` says whether one may start between another's test of the lock
file and its touch. `LockFreed`, `ZoneMatches`, `ZoneKept`; `OneAtATime` is what the
comments of tzoneset want and the race breaks (section 6).

### GpioExpander (gpioexp.c)

A register is the set of its bits that are 1, shared by eight pins, read and
written back in two steps. `Requested` does the conversion of the arguments to
unsigned char. The expanders start with whatever is in their registers. `Crowded` says
whether copies may work on one bank at the same time.
`ZeroMeansDone`, `PullsExclusive`, and `PinsSpec`: refinement of `GpioPins`, where a
tool changes only the pin it was started for.

### I2cScripts, I2cGpioCtl (i2cgpioctl.c)

I2cScripts is the data of the menu: what each command writes, transfer by transfer, a
byte being the set of its bits. I2cGpioCtl is the program: the loop (`Begin`), where a
word that scanf cannot read repeats the command of before (`Mistype`); `Write`, one
transfer, whose failure most scripts forget; `Conclude`, which looks at the last result;
the probe, where a busy address leaves the previous one selected; and the wait for an
interrupt (`Enter`, `Look`, `Data`, `Clear`). The expanders sense edges, keep the
interrupt sources, and reset after two keys in a row; behind a closed switch they do not
answer (`Reaches`). `recent` and `moved` are history.

* `SuccessIsDone`: after "Successed!" the lights, registers and the switch are as asked.
* `SeenHappened`: an interrupt that is reported belongs to the pin that is watched, and
  is newer than the last clearing.
* `NeverOverlooked`: a look after the watched pin has moved finds it.
* `NoneMissed` (liveness): so a pin that moves during the wait is noticed.

### AudioPaths, AudioCodec (wm8944.c)

AudioPaths has the widgets, routes and switches of the chip and what DAPM powers for
a set of switches and streams. AudioCodec is the driver: `reg` the registers, `saved`
and `held` what `wm8944_unmute` keeps between its reads and its writes, `refcount` and
`pm` the references to VMID, `dapm` the progress of one DAPM run, `pending`, `work` and
`kept` the power-off work. A handler that sleeps is two steps. Operations of the streams take
turns (`PcmFree`, pcm_mutex), DAPM runs take turns, and the work takes turns with nobody:
each of its eleven writes to a field of the model is a step (`MuteSeq`, `OffSeq`; the LDO and
the discharge of the outputs are left out), and one before them reads the capture gain and
ramps the volume down.

* `Heard`: playback that was powered up while no work was about is heard until somebody
  mutes or stops it.
* `WireFormat`: the interface has the rate, frame format and width of what is open.
* `RefsMatch`: the counts agree with what is powered.
* `StopsQuiet` (liveness): a stop ends with the output muted and without power, whatever
  comes between the writes of the work: closing the stream, capture, switches, volumes.
  Excused are a DAPM run that powers the playback up again, one that powers up VMID right
  in the middle of the work (what it switches on behind the work stays on), and a system
  that suspends first.

What the model assumes: the read and the write of one call of set_dai_fmt, hw_params or
mute are one step; the user leaves alone the controls that mute or power what the
driver drives itself, and those that write bits which set_dai_fmt and hw_params build:
interface format, word length, companding, "ZC Timeout Clock Switch" (`RawControls`);
the machine driver (kernel patch 0004) calls set_dai_fmt with I2S and the codec as slave
when a stream is opened, and pmdown_time is 0.

### LinkMon (linkmon.c)

`link` is the cable, `ready` what the driver has signalled, `source` the wakeup source
behind EPOLLWAKEUP, `awake` the system, which suspends whenever neither lock nor source
holds it. `NoSleepWhileUp`; `LockFollows` (liveness).

### FtpSession (ftp.c)

`events` are the reports of the data connection that the event loop has yet to hand to
`ConnectionStateHandler`; `local` and `remote` the copies of the file; `res` what curl has
returned. `FailureReported` is what the code wants and does not keep (section 6).

## 3. The runs

| Run | Bounds | Distinct states | Shows |
|---|---|---|---|
| partition_safety | every platform and content; 2 faults, 2 reboots | 188 098 | all of DataPartition, refinement and liveness included |
| dualboot_swap | every pair of troubles in the six partitions, at most one platform peculiarity; 1 fault, 1 reset | 2 740 524 | DualBoot, liveness included |
| gpio_banks | 2 tools, pins 7 and 8 of expander 1, and expander 4; 2 options, 1 failed transfer | 22 314 | exit status, pulls, refinement |
| quota_safety | 2 failures, 3 files gone bad, 3 power cuts | 43 815 | QuotaCheck |
| etc_safety | every platform; 2 edits, 2 failures, 2 power cuts (3 boots) | 333 256 | EtcOverlay, refinement included |
| timezone_safety | 2 tools, 3 zones; 1 failure, 2 power cuts, 3 calls per boot | 702 934 | Timezone without the race |
| codec_streams | 2 volumes, rates and widths, 2 switches of a path; 2 parameters, controls or suspends | 1 484 602 | AudioCodec |
| i2c_menu | every command, 2 in a row; 2 pins of one bank, 2 moves, 1 failed transfer | 1 123 524 | I2cGpioCtl |
| linkmon_cable | 4 changes of the link | 219 | LinkMon |

Three more runs have a property that a comment of the repository states and the
code does not keep: partition_retry, timezone_race and ftp_exit (section 6).

Why the bounds are enough to meet the cases: a second boot is needed to see what a
crash left, and a third to see what the repair left; two failures cover a failed
command and a failed attempt at its repair; two edits tell the last one from the
one before; two commands of the menu show what one leaves for the next; two
operations of the codec let one stream be set up and the other changed under it, or a
suspend, a switch or a volume come in between, while opening, starting, stopping and closing
are not bounded at all (for any number of operations `Heard`, `WireFormat` and `RefsMatch`
are proved; `StopsQuiet` with a third is beyond the time of a run); two
tools and a bank border are the smallest configuration with a
neighbour on each side. Every action is taken in some passing run, but for those of
FtpSession, which has none. The theorems below have no such bounds. Symmetry is used in `gpio_banks` only (the
tools are interchangeable and no liveness is checked there). Deadlock is not
checked where the modelled system stops for good: the last boot has an end once
the bound on reboots is reached.

## 4. Fairness

Five runs need it.

* `partition_safety`: weak fairness of the script as a whole, because init keeps
  running it and every command it waits for returns or times out, and of mdev,
  because the kernel starts a helper for every uevent. Neither power cuts nor
  stops nor failures are obliged to happen.
* `dualboot_swap`: weak fairness of the next step of the boot. A reset from outside is never obliged. `MountRootfs` may be disabled for good, when
  the block device does not come and the command line says to wait for it; `ComesUp`
  is stated for behaviours without such a failure.
* `codec_streams`: weak fairness of the work, which a kernel worker takes up and carries
  on with. Nobody has to play, no DAPM run has to go on, and a suspended system need not
  wake up: that is why `StopsQuiet` excuses one.
* `i2c_menu`: weak fairness of the program's steps, the user's Enter among them, as long
  as a command is being done. Nobody has to type one.
* `linkmon_cable`: weak fairness of the program while the system runs. It need not
  suspend, and need not be woken by anything but the link.

## 5. The proofs

6 759 obligations, all discharged by SMT, Zenon and PTL; bounds are any naturals,
and sets of tools, zones, images and arguments are any that satisfy the named
ASSUMEs, which every run evaluates.

| Module | Theorems | The inductive invariant |
|---|---|---|
| DataPartition_proofs | TypeCorrect, FormatsOnlyUnmounted, ResultIsTruthful, FilesKept, DeviceIsReleased, PartitionImplementsStore, HealthyBoots, StartComesToItsEnd | `MountInv` ties `mounted` to `pc`. `DataInv`: in a boot without failures that finds a partition it should mount, UBI device, nodes and the queue of uevents are in step (`Idle`, `Attaching`, `Detaching`); without the queue in the invariant, a node could be older than the detach. `LeakInv` does the same for every content of the flash: `InStep` (nodes and queue follow the device), `HeldAt` (where it is attached; a container without a volume stays so between the first and the second mount options). `Hopeful`: a new file system is there only for the last attempts, which then cannot fail, and YAFFS2 is tried only by a kernel that has it. `Rank` is how far the start method has come |
| DualBoot_proofs | TypeCorrect, MarksAreDeserved, BothUseSameHalf, LegatoIsKept, SwapsMakeProgress, BootsGetCloser | `HalfSet` (a script past its question has a half), `MarkInv` (the victim of a pending swap deserves it too), `SameHalfInv` (what swidssd would answer does not change in between), `ProgressInv` (the boot runs from halves with nothing marked while there are any, and it is these that a swap is called for); `CloserInv` puts them together |
| GpioExpander_proofs | TypeCorrect, SerialImplementsPins, ZeroVouches, PullsApart | `Apart` (busy tools are on different banks) and `Fresh` (what a tool has read is still in the register): the read-modify-write is then atomic. `Doing`: what a tool has yet to set is the rest of its option, and what it has set still stands |
| QuotaCheck_proofs | TypeCorrect, OkIsHonest, CopiesAreMade, LimitsSurvive, BackupsAreReady | `RepairInv`: at each step of the repair, which of file and backup can be bad; `BackupInv`: without a failed command, the backup of an item that is done is good |
| EtcOverlay_proofs | TypeCorrect, OverlayImplementsMount, OverlaysAllOrNone, FilesReady, LastEditKept | `Overlays` (which overlays are there at each step), `NothingYet` (before the overlays none has failed; the step that fails one takes that of `/etc` away), `Binds` (all files before the present one are bound), `Kept` (the place that lasts has the last edit; what is shown is that place, but between passwd and the remount) |
| Timezone_proofs | TypeCorrect, TimezoneKeepsToMount, LockIsFreed, ZonesMatch, ZoneIsKept | `WantKnown` (what is to be bound is a zone), `Locked` (a tool at work is alone and has the lock), `BootPath`, `Writable` (when the flag errs), `Shown` (zone shown = zone named but between umount and echo), `ChosenStays` |
| AudioCodec_proofs | TypeCorrect, ReferencesMatch, PlaybackHeard, InterfaceMatches | `RefsInv` adds the steps of a DAPM run at which VMID is not yet powered; `HeardInv`: as long as the work has not cut (`~cut`) the chip has power, and undisturbed playback (`clean`) means no work queued or running, VMID on, outputs not muted; `WireInv`: the frame format stands while a stream is open, whatever the width bits are |
| Programs_proofs (i2cgpioctl) | MenuTypeCorrect, SeenIsTrue, SuccessIsTrue, NothingOverlooked | `Suits` (where the program is goes with the command it does); `Traced` (the source bit of a watched pin is set only if the pin is in `recent`) and `Noticed` (so is a pin that was just seen); `Scripted` (what is left to do is a tail of the command's script, and the transfers before it stand) and `Told` (what "Successed!" was said of has been done to the end); `Ready` (while a watch waits its four transfers stand) and `Held` (then the interrupt of a pin that has moved is pending) |
| Programs_proofs (linkmon) | LinkTypeCorrect, AwakeWhileUp, BlocksWhenDone | `AwakeInv`: what is signalled and not yet read keeps the system awake, the lock is what was read last, and a link that has changed since is signalled |

Each theorem follows one argument: the invariant holds at first, every action
keeps it (one step per action), and it implies the property; `PTL` joins them.
`ZonesMatch` and `ZoneIsKept` are for `~Racing`; with the race they
are false. `SerialImplementsPins`, `ZeroVouches` and `PullsApart` are for `~Crowded` for the same reason, and
`InterfaceMatches` for `~RawControls` (section 6). The invariants of EtcOverlay, Timezone and
I2cGpioCtl have been checked by TLC, with the bounds of their runs, before they were proved.

`SuccessIsTrue` needs to know of some fifty scripts what each leaves on the board. They
are not run one by one: `Apart` says of a script that no transfer undoes an earlier one,
and that the second key of a reset comes right after the first; every command's script is
shown to be so (`Proper`), and one argument about transfers then serves them all.
Programs_proofs extends both I2cGpioCtl and LinkMon, which share no variable; this is
why the definitions of LinkMon begin with `Link`.

For four of the five liveness properties the part that fairness has nothing to do with is
proved. `BootsGetCloser` is as much of `ComesUp` as can be proved: without a failure the boot of a
module with a bootable half never goes back (`Rank`), and each of its reboots marks one more
of six images, an unusable one. Fairness then brings it to `up`; that last step, which needs
ENABLED of each action, is TLC's. `NothingOverlooked` is the same for `NoneMissed`: the user's
Enter is left to fairness. For `LastBootMounts`, `StartComesToItsEnd` says that each command
of the start method increases `Rank`, whatever fails, and `HealthyBoots` that the end of a
healthy one has the mount. For `LockFollows`, `BlocksWhenDone` says that linkmon blocks with
nothing to read only when the lock is that of the link.

Only model-checked: liveness (`LastBootMounts`, `ComesUp`, `StopsQuiet`, `NoneMissed`,
`LockFollows`), which needs fairness and ENABLED. FtpSession has no theorem. Only proved, and
in no run any more: the types of DataPartition, DualBoot, QuotaCheck, EtcOverlay, AudioCodec, I2cGpioCtl and LinkMon,
`FormatsUnmounted`, and `MountSpec` of Timezone.

## 6. Where code and comments disagree

With a run that shows it (`findings` in PROJECT.json):

* **partition_retry**: ME 637-639 tells of platforms without quota support, where
  the first mount always fails and a second one without quotas follows. The
  second takes the node `/dev/ubiN` for the attached device; if mdev has not yet
  removed it, `ubiattach` is skipped, the mount fails, and the caller reformats.
* **timezone_race**: `tzoneset` 98 wants its lock to be atomic; it tests the lock file (101)
  and then touches it (105), and two copies that start together both pass.
* **ftp_exit**: after a transfer in which curl_easy_perform failed ("we failed", `ftp.c` 223)
  FtpGet returns 0, and the application exits with EXIT_SUCCESS.

Met while modelling, without a run (the models behave so, and the properties
above name the exception):

* `find_partitions.sh` 41 marks a good modem image bad when its node takes longer than
  60 ms; `swap_dual_system` speaks of the bad partition.
* ME 954-955 wants a module without a Legato image to boot. Mounted as YAFFS2 the
  partition is no longer empty, and the next boot swaps halves.
* MU 249-250 append the two lines of ECM to mdev.conf, and nobody looks at the results. When
  one append fails (flash full), or power goes in between, the grep of every later boot finds
  the one line and never adds the other (`HookFirst`, `HookSecond`).
* ME 331 against 327-328: the early return leaves the other item's quota files, although no
  leftovers are wanted (`Create`).
* `gpioexp.c` 416: `SetRegVal` reports the bit set, and another copy working on the same
  bank takes it back.
* `wm8944.c`: the work of a stop may run after the next start has powered up, which then
  stays silent; a prepare after stop, pause or underrun raises no DAPM event, so
  nothing undoes what the work did (1280). Stopping or muting playback mutes the microphone of
  a running capture and takes VMID away from it (661, 1243). A user's volume set after the
  first unmute is overwritten by the next (443). The capture gain read before a sleep
  is written back after it (440, 473). LINE_MUTE is never cleared. Companding bits
  stay after S8 (1167). Parameters of capture change the width of running playback.
  A capture without playback leaves VMID on; one that starts in the middle of the work may
  leave the speaker drivers powered without an output. "ZC Timeout Clock Switch" shares bit 0 of ADDCNTRL
  with the sample rate (1166).
* `i2cgpioctl.c`: a failed read is -1 and is taken for an interrupt or a removed card (1163);
  "Successed!" is the last transfer's (1616); clearing all interrupts after the level was
  read loses an edge (1177); one light sets the direction of the whole bank (708);
  a busy address leaves the previous one to be probed (106); a word repeats the last command (507).
* `linkmon.c` 88: leaving keeps the wake lock as it is, and nothing starts it again.
* `ftp.c` 336: an event before the handler is registered is lost; a failed test leaves
  its socket open (265).

Met while reading, and not in a model unless said:

* MU 86: `set_timezone_writable` relies on a flag that stays on when the overlay of
  `/etc` was undone, while line 80 promises a writable `/etc/timezone` even then. The
  models have it (`MountData`, `Timezone!Overlay`).
* ME 1486: `mount_early_unset_timezone` builds a path from a variable it does not
  have, so the zone stays bound (`Timezone!Stop`).
* ME 296 against 270-272: the check of one file is run without `yes` and may stop and ask.
* `gpioexp.c` 464 against 462 (`Requested`): expander 258 is taken for expander 2.
* `functions.env` 157 against 154: `[ -z rootfs_ro ]` tests a word, not a variable.
* Bound files cut short stay for good after a power cut (`EditsKept` names the exception).

## 7. Plan

The order was: what decides whether the module boots and keeps its data first
(DataPartition, DualBoot), then what these rely on (QuotaCheck), then what relies on
them (EtcOverlay, Timezone), with the devices beside (GpioExpander, I2cGpioCtl,
AudioCodec, LinkMon). Still to come:

1. **EcmLink**: one process per mdev handler of `bringup_ecm.sh`: two add handlers can
   overlap between the stop of dnsmasq, the append to its leases and its start. State: interface, DHCP configuration, leases,
   dnsmasq, firewall rules. To show: once the last handler of a burst of events is
   done, dnsmasq runs and the rules belong to the interfaces that are there.
2. **AppGuard**: `restart_swi_apps` (one instance, decided by counting lines of ps),
   `swiapplaunch.sh`, `control_msm_watchdog.sh`; liveness of restart.
3. **SwirwMount**: `mount_swirw.sh` of the sdx55; to refine DataStore as DataPartition does.
4. i2cgpioctl and gpioexp on one board: whole registers against single bits.
5. Composition: EtcOverlay on top of DataStore, whose `Write` must then tell a torn copy
   and a removed file from a written one.
