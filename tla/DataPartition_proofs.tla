----------------------- MODULE DataPartition_proofs -----------------------
(***************************************************************************)
(* Theorems about DataPartition for every number of failures and reboots,  *)
(* with their TLAPS proofs.                                                *)
(***************************************************************************)
EXTENDS DataPartition, TLAPS

(***************************************************************************)
(* Type correctness.                                                       *)
(***************************************************************************)

LEMMA EventsTyped ==
    /\ AttachEvents \in Seq(UEvent)
    /\ DetachEvents \in Seq(UEvent)
    /\ <<Add("vol"), Remove("vol"), Remove("dev")>> \in Seq(UEvent)
  <1> DEFINE ad == Add("dev")
             av == Add("vol")
             rd == Remove("dev")
             rv == Remove("vol")
  <1>1. ad \in UEvent /\ av \in UEvent /\ rd \in UEvent /\ rv \in UEvent
    BY DEF Add, Remove, UEvent
  <1> HIDE DEF ad, av, rd, rv
  <1>2. /\ <<ad, av>> \in Seq(UEvent) /\ <<ad>> \in Seq(UEvent)
        /\ <<rv, rd>> \in Seq(UEvent) /\ <<rd>> \in Seq(UEvent)
        /\ <<av, rv, rd>> \in Seq(UEvent)
    BY <1>1
  <1> QED
    BY <1>2 DEF AttachEvents, DetachEvents, ad, av, rd, rv

LEMMA TypeInit == Init => TypeOK
  <1>1. Init => StateTyped
    BY DEF Init, StateTyped, Labels
  <1>2. Init => BudgetTyped
    <2>1. Init => faults = 0 /\ boots = 0 /\ faulted = FALSE
      BY DEF Init
    <2>2. 0 \in 0..MaxFaults /\ 0 \in 0..MaxBoots
      BY BoundsAssumption DEF BoundsAssumption
    <2> QED
      BY <2>1, <2>2 DEF BudgetTyped
  <1>3. Init => QueueTyped
    BY DEF Init, QueueTyped
  <1> QED
    BY <1>1, <1>2, <1>3 DEF TypeOK

(* A command that fails or not is all that touches the budget, but for the *)
(* reboot.                                                                 *)
LEMMA BudgetStep == [Next]_vars => UNCHANGED budget \/ Fault \/ Reboot
  BY DEF Next, ScriptStep, MountStep, YaffsStep, CreateStep, Start, Probe, Attach,
         Wait, Mount, Quota, YaffsTry, YaffsEmpty, YaffsBack, YaffsMounts, Format,
         Formatting, CreateAttach, CreateWait, MakeVolume, Mdev, UseFs, Stop,
         Succeeds, Fails, vars

LEMMA BudgetTypedStep == BudgetTyped /\ [Next]_vars => BudgetTyped'
  <1> SUFFICES ASSUME BudgetTyped, [Next]_vars PROVE BudgetTyped'
    OBVIOUS
  <1>1. CASE UNCHANGED budget
    BY <1>1 DEF budget, BudgetTyped
  <1>2. CASE Fault
    <2>1. faults' \in 0..MaxFaults
      BY <1>2, BoundsAssumption DEF BoundsAssumption, Fault, BudgetTyped
    <2> QED
      BY <1>2, <2>1 DEF Fault, BudgetTyped
  <1>3. CASE Reboot
    <2>1. boots' \in 0..MaxBoots
      BY <1>3, BoundsAssumption DEF BoundsAssumption, Reboot, BudgetTyped
    <2> QED
      BY <1>3, <2>1 DEF Reboot, BudgetTyped
  <1> QED
    BY <1>1, <1>2, <1>3, BudgetStep

(* What can happen to the queue of uevents in a step.                      *)
LEMMA QueueStep ==
    [Next]_vars =>
        \/ UNCHANGED uevents
        \/ uevents # <<>> /\ uevents' = Tail(uevents)
        \/ uevents' = uevents \o AttachEvents
        \/ uevents' = uevents \o DetachEvents
        \/ uevents' = uevents \o <<Add("vol"), Remove("vol"), Remove("dev")>>
        \/ uevents' = <<>>
  BY DEF Next, ScriptStep, MountStep, YaffsStep, CreateStep, Start, Probe, Attach,
         Wait, Mount, Quota, YaffsTry, YaffsEmpty, YaffsBack, Format, Formatting,
         CreateAttach, CreateWait, MakeVolume, UbiDetach, Mdev, UseFs, Stop, Reboot,
         kernel, vars

LEMMA ConcatTyped ==
  ASSUME NEW S, NEW s \in Seq(S), NEW t \in Seq(S)
  PROVE  s \o t \in Seq(S)
  OBVIOUS

LEMMA TailTyped ==
  ASSUME NEW S, NEW s \in Seq(S), s # <<>>
  PROVE  Head(s) \in S /\ Tail(s) \in Seq(S)
  OBVIOUS

LEMMA QueueTypedStep == QueueTyped /\ [Next]_vars => QueueTyped'
  <1> SUFFICES ASSUME uevents \in Seq(UEvent), [Next]_vars
               PROVE uevents' \in Seq(UEvent)
    BY DEF QueueTyped
  <1> DEFINE ea == AttachEvents
             ed == DetachEvents
             em == <<Add("vol"), Remove("vol"), Remove("dev")>>
  <1>1. \/ uevents' = uevents
        \/ uevents # <<>> /\ uevents' = Tail(uevents)
        \/ uevents' = uevents \o ea
        \/ uevents' = uevents \o ed
        \/ uevents' = uevents \o em
        \/ uevents' = <<>>
    BY QueueStep
  <1>2. ea \in Seq(UEvent) /\ ed \in Seq(UEvent) /\ em \in Seq(UEvent)
    BY EventsTyped
  <1> HIDE DEF ea, ed, em
  <1>3. <<>> \in Seq(UEvent)
    OBVIOUS
  <1>4. uevents # <<>> => Tail(uevents) \in Seq(UEvent)
    BY TailTyped
  <1>5. /\ uevents \o ea \in Seq(UEvent)
        /\ uevents \o ed \in Seq(UEvent)
        /\ uevents \o em \in Seq(UEvent)
    BY <1>2, ConcatTyped
  <1> QED
    BY <1>1, <1>3, <1>4, <1>5

LEMMA StateTypedStep == StateTyped /\ QueueTyped /\ [Next]_vars => StateTyped'
  <1> SUFFICES ASSUME StateTyped, QueueTyped, [Next]_vars PROVE StateTyped'
    OBVIOUS
  <1> USE DEF StateTyped
  <1>1. CASE Start
    BY <1>1 DEF Start, Return, GoTo, Labels, Runs, flash, kernel, budget
  <1>2. CASE Probe
    BY <1>2 DEF Probe, TryFailed, AllTriesFailed, Return, GoTo, Labels, Runs, flash, kernel, budget
  <1>3. CASE Attach
    BY <1>3
    DEF Attach, TryFailed, AllTriesFailed, Return, GoTo, Labels, Runs, Succeeds, Fails,
        flash, kernel, budget
  <1>4. CASE Wait
    BY <1>4 DEF Wait, TryFailed, AllTriesFailed, Return, GoTo, Labels, Runs, flash, kernel, budget
  <1>5. CASE Mount
    BY <1>5
    DEF Mount, UbiDetach, TryFailed, AllTriesFailed, Return, GoTo, Labels, Runs, Succeeds, Fails,
        flash, kernel, budget
  <1>6. CASE Quota
    BY <1>6
    DEF Quota, UbiDetach, TryFailed, AllTriesFailed, Return, GoTo, Labels, Runs, Succeeds, Fails,
        flash, kernel, budget
  <1>7. CASE YaffsTry
    BY <1>7 DEF YaffsTry, YaffsMounts, Contents, GoTo, Labels, Runs, Succeeds,
                Fails, flash, kernel, budget
  <1>8. CASE YaffsEmpty
    BY <1>8 DEF YaffsEmpty, Return, GoTo, Labels, Runs, flash, kernel, budget
  <1>9. CASE YaffsBack
    BY <1>9 DEF YaffsBack, YaffsMounts, Contents, Return, Labels, Runs, Succeeds,
                Fails, flash, kernel, budget
  <1>10. CASE Format
    BY <1>10 DEF Format, CreateFailed, Contents, Return, GoTo, Labels, Runs,
                 Succeeds, Fails, flash, kernel, budget
  <1>11. CASE Formatting
    BY <1>11 DEF Formatting, CreateFailed, Contents, UbiContents, Return, GoTo,
                 Labels, Runs, Succeeds, Fails, flash, kernel, budget
  <1>12. CASE CreateAttach
    BY <1>12
    DEF CreateAttach, CreateFailed, Return, GoTo, Labels, Runs, Succeeds, Fails,
        flash, kernel, budget
  <1>13. CASE CreateWait
    BY <1>13 DEF CreateWait, CreateFailed, Return, GoTo, Labels, Runs, flash,
                 kernel, budget
  <1>14. CASE MakeVolume
    BY <1>14
    DEF MakeVolume, UbiDetach, CreateFailed, Contents, UbiContents, Return, GoTo,
        Labels, Runs, Succeeds, Fails, flash, kernel, budget
  <1>15. CASE Mdev
    <2>1. Head(uevents) \in UEvent
      BY <1>15, TailTyped DEF Mdev, QueueTyped
    <2>2. Head(uevents).dev \in {"dev", "vol"}
      BY <2>1 DEF UEvent
    <2>3. nodes' \in SUBSET {"dev", "vol"}
      BY <1>15, <2>2 DEF Mdev
    <2>4. UNCHANGED <<platform, flash, attached, mounted, script>>
      BY <1>15 DEF Mdev
    <2> QED
      BY <2>3, <2>4 DEF flash, script
  <1>16. CASE UseFs
    BY <1>16 DEF UseFs, kernel, script, budget
  <1>17. CASE Stop
    BY <1>17 DEF Stop, UbiDetach, Labels, Runs, flash, budget
  <1>18. CASE Reboot
    <2>1. UNCHANGED <<platform, content, data>>
      BY <1>18 DEF Reboot, flash
    <2>2. /\ attached' = FALSE /\ nodes' = {} /\ mounted' = "none"
          /\ pc' = "start" /\ opt' = 1 /\ created' = FALSE /\ ret' = "none"
      BY <1>18 DEF Reboot
    <2> QED
      BY <2>1, <2>2 DEF Labels
  <1>19. CASE UNCHANGED vars
    BY <1>19 DEF vars, flash, kernel, script, budget
  <1> QED
    BY <1>1, <1>2, <1>3, <1>4, <1>5, <1>6, <1>7, <1>8, <1>9, <1>10, <1>11, <1>12,
       <1>13, <1>14, <1>15, <1>16, <1>17, <1>18, <1>19
    DEF Next, ScriptStep, MountStep, YaffsStep, CreateStep

(* Every variable keeps its type, whatever the bounds.                     *)
THEOREM TypeCorrect == Spec => []TypeOK
  <1>1. TypeOK /\ [Next]_vars => TypeOK'
    BY StateTypedStep, QueueTypedStep, BudgetTypedStep DEF TypeOK
  <1> QED
    BY TypeInit, <1>1, PTL DEF Spec

(***************************************************************************)
(* The mount point and the result.                                         *)
(***************************************************************************)

(* Nothing is mounted while the script looks for a way to mount, the       *)
(* YAFFS2 fallback is never taken for a partition that must be UBIFS, and  *)
(* the result says what became of it.                                      *)
MountInv ==
    /\ pc \notin {"quota", "yaffs_empty", "done", "stopped"} => mounted = "none"
    /\ pc = "quota" => mounted = "ubifs"
    /\ pc \in {"yaffs_try", "yaffs_empty", "yaffs_back"} => ~UbifsOnly
    /\ pc = "done" /\ ret = "ERR" => mounted = "none"
    /\ pc = "done" /\ Allowed /\ UbifsOnly => ret = "ERR" \/ mounted = "ubifs"

LEMMA MountInvInit == Init => MountInv
  BY DEF Init, MountInv

LEMMA MountInvStep == MountInv /\ StateTyped /\ [Next]_vars => MountInv'
  <1> SUFFICES ASSUME MountInv, StateTyped, [Next]_vars PROVE MountInv'
    OBVIOUS
  <1> USE DEF MountInv, Allowed, FudgeAllowed, UbifsOnly
  <1>1. CASE Start
    <2>1. platform.method \in {"user", "userrw"}
          /\ (platform.method = "userrw" => platform.forced = "none")
      BY DEF StateTyped, Platforms
    <2> QED
      BY <1>1, <2>1 DEF Start, Return, GoTo, Runs, flash, kernel, budget
  <1>2. CASE Probe \/ Wait
    BY <1>2 DEF Probe, Wait, TryFailed, AllTriesFailed, Return, GoTo, Runs, flash,
                kernel, budget
  <1>3. CASE Attach
    BY <1>3 DEF Attach, TryFailed, AllTriesFailed, Return, GoTo, Runs
  <1>4. CASE Mount
    BY <1>4 DEF Mount, TryFailed, AllTriesFailed, Return, GoTo, Runs
  <1>5. CASE Quota
    BY <1>5 DEF Quota, TryFailed, AllTriesFailed, Return, GoTo, Runs
  <1>6. CASE YaffsTry \/ YaffsEmpty \/ YaffsBack
    BY <1>6 DEF YaffsTry, YaffsEmpty, YaffsBack, YaffsMounts, Return, GoTo, Runs
  <1>7. CASE Format \/ Formatting \/ CreateAttach \/ CreateWait \/ MakeVolume
    BY <1>7 DEF Format, Formatting, CreateAttach, CreateWait, MakeVolume,
                CreateFailed, Return, GoTo, Runs, kernel, flash
  <1>8. CASE Mdev \/ UseFs
    BY <1>8 DEF Mdev, UseFs, kernel, script
  <1>9. CASE Stop
    BY <1>9 DEF Stop, Runs
  <1>10. CASE Reboot
    BY <1>10 DEF Reboot
  <1>11. CASE UNCHANGED vars
    BY <1>11 DEF vars, kernel, script
  <1> QED
    BY <1>1, <1>2, <1>3, <1>4, <1>5, <1>6, <1>7, <1>8, <1>9, <1>10, <1>11
    DEF Next, ScriptStep, MountStep, YaffsStep, CreateStep

LEMMA MountCorrect == Spec => []MountInv
  BY TypeCorrect, MountInvInit, MountInvStep, PTL DEF Spec, TypeOK

(* The partition is never formatted under a mounted file system.           *)
THEOREM FormatsOnlyUnmounted == Spec => []FormatsUnmounted
  <1>1. MountInv => FormatsUnmounted
    BY DEF MountInv, FormatsUnmounted
  <1> QED
    BY <1>1, MountCorrect, PTL

(* What the start method reports agrees with what is mounted, whatever     *)
(* failed on the way.                                                      *)
THEOREM ResultIsTruthful == Spec => []ResultTruthful
  <1>1. MountInv => ResultTruthful
    BY DEF MountInv, ResultTruthful
  <1> QED
    BY <1>1, MountCorrect, PTL

(***************************************************************************)
(* The user's files.                                                       *)
(***************************************************************************)

(* A boot in which nothing goes wrong, on a partition that holds files of  *)
(* the user in the file system the platform mounts.                        *)
Good == ~faulted /\ platform.lag = "none" /\ Wanted /\ data = "user"

Detaching ==
    /\ ~attached
    /\ \/ uevents = <<Remove("vol"), Remove("dev")>> /\ nodes = {"dev", "vol"}
       \/ uevents = <<Remove("dev")>> /\ nodes = {"dev"}
       \/ uevents = <<>> /\ nodes = {}

Attaching ==
    /\ attached
    /\ \/ uevents = <<Add("dev"), Add("vol")>> /\ nodes = {}
       \/ uevents = <<Add("vol")>> /\ nodes = {"dev"}
       \/ uevents = <<>> /\ nodes = {"dev", "vol"}

Idle == ~attached /\ uevents = <<>> /\ nodes = {}

(* Where such a boot can be, and what mdev still has to do there.          *)
GoodUbifs ==
    /\ pc \in {"start", "probe", "attach", "wait", "mount", "quota", "done",
               "stopped"}
    /\ pc = "start" => Idle
    /\ pc = "probe" => Detaching
    /\ pc = "attach" => Idle
    /\ pc = "wait" => Attaching
    /\ pc = "mount" => attached /\ nodes = {"dev", "vol"} /\ uevents = <<>>
    /\ pc \in {"probe", "attach", "wait", "mount"} /\ opt = 2 => ~platform.quota
    /\ pc = "start" => opt = 1

GoodYaffs ==
    /\ pc \in {"start", "probe", "attach", "yaffs_try", "yaffs_empty",
               "yaffs_back", "done", "stopped"}
    /\ pc \in {"start", "probe", "attach"} => Idle /\ ~created
    /\ pc = "yaffs_empty" => mounted = "yaffs2"

DataInv ==
    /\ pc \in {"formatting", "create_attach", "create_wait", "mkvol"}
        => data = "none"
    /\ Good => /\ content = "ubifs" => GoodUbifs
               /\ content = "yaffs2" => GoodYaffs

LEMMA QueueFacts ==
  /\ \A x, y : Head(<<x, y>>) = x /\ Tail(<<x, y>>) = <<y>> /\ <<x, y>> # <<>>
  /\ \A x : Head(<<x>>) = x /\ Tail(<<x>>) = <<>> /\ <<x>> # <<>>
  /\ \A x, y : <<>> \o <<x, y>> = <<x, y>>
  OBVIOUS

LEMMA EventFields ==
  \A d : /\ Add(d).act = "add" /\ Add(d).dev = d
         /\ Remove(d).act = "remove" /\ Remove(d).dev = d
  BY DEF Add, Remove

(* mdev works off the queue of a detach or of an attach.                   *)
LEMMA MdevDetaching == Detaching /\ Mdev => Detaching'
  <1> SUFFICES ASSUME Detaching, Mdev PROVE Detaching'
    OBVIOUS
  <1>1. CASE uevents = <<Remove("vol"), Remove("dev")>> /\ nodes = {"dev", "vol"}
    BY <1>1, QueueFacts, EventFields DEF Mdev, Detaching
  <1>2. CASE uevents = <<Remove("dev")>> /\ nodes = {"dev"}
    BY <1>2, QueueFacts, EventFields DEF Mdev, Detaching
  <1> QED
    BY <1>1, <1>2 DEF Mdev, Detaching

LEMMA MdevAttaching == Attaching /\ Mdev => Attaching'
  <1> SUFFICES ASSUME Attaching, Mdev PROVE Attaching'
    OBVIOUS
  <1>1. CASE uevents = <<Add("dev"), Add("vol")>> /\ nodes = {}
    BY <1>1, QueueFacts, EventFields DEF Mdev, Attaching
  <1>2. CASE uevents = <<Add("vol")>> /\ nodes = {"dev"}
    BY <1>2, QueueFacts, EventFields DEF Mdev, Attaching
  <1> QED
    BY <1>1, <1>2 DEF Mdev, Attaching

(* The script attaches from rest, and detaches once the nodes are there.   *)
LEMMA AttachFromIdle ==
    Idle /\ content = "ubifs" /\ attached' = TRUE /\ nodes' = nodes
        /\ uevents' = uevents \o AttachEvents => Attaching'
  BY QueueFacts DEF Idle, Attaching, AttachEvents, HasVolume, WithVolume

LEMMA DetachFromRest ==
    /\ content = "ubifs" /\ attached /\ uevents = <<>> /\ nodes = {"dev", "vol"}
    /\ UbiDetach("none") /\ nodes' = nodes
    => Detaching'
  BY QueueFacts DEF UbiDetach, Detaching, DetachEvents, HasVolume, WithVolume

LEMMA RestAfterWait ==
    /\ Attaching /\ uevents = <<>> => nodes = {"dev", "vol"}
    /\ Detaching /\ uevents = <<>> => nodes = {}
  BY QueueFacts DEF Attaching, Detaching

LEMMA DataInvInit == Init => DataInv
  BY DEF Init, DataInv, Good, GoodUbifs, GoodYaffs, Idle

LEMMA DataInvStep ==
    DataInv /\ MountInv /\ StateTyped /\ [Next]_vars => DataInv'
  <1> SUFFICES ASSUME DataInv, MountInv, StateTyped, [Next]_vars
               PROVE DataInv'
    OBVIOUS
  <1>1. CASE Start
    <2>1. content' = content /\ data' = data /\ UNCHANGED <<platform, kernel, budget>>
      BY <1>1 DEF Start, flash
    <2>2. Good' => Good
      BY <2>1 DEF Good, Wanted, budget
    <2>3. Idle => Detaching'
      BY <2>1 DEF Idle, Detaching, kernel
    <2>4. Idle => Idle'
      BY <2>1 DEF Idle, kernel
    <2> QED
      BY <1>1, <2>1, <2>2, <2>3, <2>4
      DEF Start, DataInv, Good, GoodUbifs, GoodYaffs, Runs, Return, GoTo, Wanted,
          Allowed
  <1>2. CASE Probe
    <2>1. UNCHANGED <<platform, content, data, attached, nodes, uevents, faulted>>
      BY <1>2 DEF Probe, flash, kernel, budget
    <2>2. Good' => Good
      BY <2>1 DEF Good, Wanted
    <2>3. Good => uevents = <<>>
      BY <1>2 DEF Good, Probe, Runs
    <2>4. Detaching /\ uevents = <<>> => Idle'
      BY <2>1, RestAfterWait DEF Idle, Detaching
    <2>5. Idle => Idle' /\ "dev" \notin nodes
      BY <2>1 DEF Idle
    <2>6. pc = "probe" /\ pc' \in {"probe", "attach", "mount", "done", "yaffs_back",
                                 "yaffs_try", "format"}
      BY <1>2 DEF Probe, Runs, TryFailed, AllTriesFailed, GoTo, Return
    <2>7. content # "erased" /\ "dev" \notin nodes =>
              pc' = "attach" /\ UNCHANGED <<opt, created>>
      BY <1>2 DEF Probe, GoTo
    <2>8. Good /\ content = "ubifs" =>
              Idle' /\ "dev" \notin nodes /\ (opt = 2 => ~platform.quota)
      <3>1. Idle' => "dev" \notin nodes
        BY <2>1 DEF Idle
      <3> QED
        BY <2>3, <2>4, <2>6, <3>1 DEF DataInv, GoodUbifs
    <2>9. Good /\ content = "yaffs2" => Idle' /\ "dev" \notin nodes /\ ~created
      BY <2>5, <2>6 DEF DataInv, GoodYaffs
    <2> QED
      BY <2>1, <2>2, <2>6, <2>7, <2>8, <2>9 DEF DataInv, GoodUbifs, GoodYaffs
  <1>3. CASE Attach
    <2>1. UNCHANGED <<platform, content, data, nodes>> /\ pc = "attach"
      BY <1>3 DEF Attach, flash, Runs
    <2>2. Good' => Good /\ ~faulted'
      BY <1>3, <2>1 DEF Good, Wanted, Attach, Succeeds, Fails, Fault, budget
    <2>3. CASE content = "ubifs" /\ Good'
      <3>1. Idle
        BY <2>1, <2>2, <2>3 DEF DataInv, GoodUbifs
      <3>2. /\ attached' = TRUE /\ uevents' = uevents \o AttachEvents
            /\ pc' = "wait" /\ opt' = opt
        BY <1>3, <2>2, <2>3, <3>1
        DEF Attach, Succeeds, Fails, Fault, GoTo, Idle, UbiContents
      <3>3. Attaching'
        BY <2>1, <2>3, <3>1, <3>2, AttachFromIdle
      <3>4. opt = 2 => ~platform.quota
        BY <2>1, <2>2, <2>3 DEF DataInv, GoodUbifs
      <3> QED
        BY <2>1, <2>3, <3>2, <3>3, <3>4 DEF DataInv, GoodUbifs
    <2>4. CASE content = "yaffs2" /\ Good'
      <3>1. Idle /\ ~created /\ Wanted
        BY <2>1, <2>2, <2>4 DEF DataInv, GoodYaffs, Good
      <3>2. /\ UNCHANGED <<attached, uevents>>
            /\ TryFailed
        BY <1>3, <2>4 DEF Attach, Succeeds, UbiContents
      <3>3. Idle'
        BY <2>1, <3>1, <3>2 DEF Idle
      <3>4. platform.yaffs /\ ~UbifsOnly
        BY <2>4, <3>1 DEF Wanted, UbifsOnly
      <3>5. pc' \in {"probe", "yaffs_try"} /\ created' = created
        BY <3>1, <3>2, <3>4 DEF TryFailed, AllTriesFailed, GoTo
      <3> QED
        BY <2>1, <2>4, <3>1, <3>3, <3>5 DEF DataInv, GoodYaffs
    <2> QED
      BY <1>3, <2>1, <2>3, <2>4
      DEF DataInv, Good, Wanted, Attach, TryFailed, AllTriesFailed, GoTo, Return
  <1>4. CASE Wait
    <2>1. UNCHANGED <<platform, content, data, attached, nodes, uevents, faulted>>
          /\ pc = "wait"
      BY <1>4 DEF Wait, flash, kernel, budget, Runs
    <2>2. Good' => Good /\ uevents = <<>>
      BY <1>4, <2>1 DEF Good, Wanted, Wait, Runs
    <2>3. Good /\ content = "ubifs" =>
              nodes = {"dev", "vol"} /\ attached /\ (opt = 2 => ~platform.quota)
      BY <1>4, <2>1, RestAfterWait
      DEF DataInv, GoodUbifs, Good, Wait, Runs, Attaching
    <2>4. Good /\ content = "ubifs" => pc' = "mount" /\ opt' = opt
      BY <1>4, <2>3 DEF Wait, TimesOut, GoTo
    <2> QED
      BY <1>4, <2>1, <2>2, <2>3, <2>4
      DEF DataInv, GoodUbifs, GoodYaffs, Good, Wanted, Wait, TryFailed,
          AllTriesFailed, GoTo, Return
  <1>5. CASE Mount
    <2>1. UNCHANGED <<platform, content, data, nodes>> /\ pc = "mount"
          /\ mounted = "none"
      BY <1>5 DEF Mount, flash, Runs, MountInv
    <2>2. Good' => Good /\ ~faulted'
      BY <1>5, <2>1 DEF Good, Wanted, Mount, Succeeds, Fails, Fault, budget
    <2>3. CASE content = "ubifs" /\ Good'
      <3>1. /\ attached /\ nodes = {"dev", "vol"} /\ uevents = <<>>
            /\ opt = 2 => ~platform.quota
        BY <2>1, <2>2, <2>3 DEF DataInv, GoodUbifs
      <3>2. CASE pc' \in {"quota", "done"}
        BY <2>1, <2>3, <3>2 DEF DataInv, GoodUbifs
      <3>3. CASE pc' \notin {"quota", "done"}
        <4>1. ~(opt = 1 => platform.quota) /\ UbiDetach("none") /\ TryFailed
          BY <1>5, <2>1, <2>2, <2>3, <3>1, <3>3
          DEF Mount, Succeeds, Fails, Fault, GoTo, Return
        <4>2. pc' = "probe" /\ ~platform.quota
          BY <4>1 DEF TryFailed
        <4>3. Detaching'
          BY <2>1, <2>3, <3>1, <4>1, DetachFromRest
        <4> QED
          BY <2>1, <2>3, <4>2, <4>3 DEF DataInv, GoodUbifs
      <3> QED
        BY <3>2, <3>3
    <2>4. CASE content = "yaffs2" /\ Good'
      BY <2>1, <2>2, <2>4 DEF DataInv, GoodYaffs
    <2> QED
      BY <1>5, <2>1, <2>3, <2>4
      DEF DataInv, Good, Wanted, Mount, TryFailed, AllTriesFailed, GoTo, Return
  <1>6. CASE Quota
    <2>1. UNCHANGED <<platform, content, data>> /\ pc = "quota"
      BY <1>6 DEF Quota, flash, Runs
    <2>2. Good' => Good /\ pc' = "done"
      BY <1>6, <2>1
      DEF Good, Wanted, Quota, Succeeds, Fails, Fault, budget, Return
    <2> QED
      BY <1>6, <2>1, <2>2
      DEF DataInv, GoodUbifs, GoodYaffs, Good, Wanted, Quota, TryFailed,
          AllTriesFailed, GoTo, Return
  <1>7. CASE YaffsTry
    <2>1. UNCHANGED platform /\ pc = "yaffs_try" /\ pc' = "yaffs_empty"
      BY <1>7 DEF YaffsTry, Runs, GoTo
    <2>2. Good' => Good /\ content = content' /\ (content = "yaffs2" => mounted' = "yaffs2")
      BY <1>7, <2>1
      DEF Good, Wanted, YaffsTry, YaffsMounts, Succeeds, Fails, Fault, budget
    <2> QED
      BY <2>1, <2>2 DEF DataInv, GoodUbifs, GoodYaffs
  <1>8. CASE YaffsEmpty
    <2>1. UNCHANGED <<platform, content, data, faulted>> /\ pc = "yaffs_empty"
      BY <1>8 DEF YaffsEmpty, Runs, flash, budget
    <2>2. data = "user" => pc' = "done"
      BY <1>8 DEF YaffsEmpty, Return
    <2>3. pc' \in {"done", "format"}
      BY <1>8 DEF YaffsEmpty, Return, GoTo
    <2> QED
      BY <2>1, <2>2, <2>3 DEF DataInv, GoodUbifs, GoodYaffs, Good, Wanted
  <1>9. CASE YaffsBack
    <2>1. UNCHANGED platform /\ pc' = "done"
      BY <1>9 DEF YaffsBack, Return
    <2> QED
      BY <2>1 DEF DataInv, GoodUbifs, GoodYaffs
  <1>10. CASE Format
    <2>1. UNCHANGED platform /\ pc = "format"
      BY <1>10 DEF Format, Runs
    <2>2. CASE data' = "none"
      BY <2>2 DEF DataInv, Good
    <2>3. CASE UNCHANGED flash /\ CreateFailed
      <3>1. Good' => Good
        BY <1>10, <2>1, <2>3
        DEF Good, Wanted, flash, Format, Succeeds, Fails, Fault, budget
      <3> QED
        BY <2>1, <2>3, <3>1
        DEF DataInv, GoodUbifs, GoodYaffs, flash, CreateFailed, Return, GoTo
    <2> QED
      BY <1>10, <2>2, <2>3 DEF Format
  <1>11. CASE Formatting
    <2>1. data' = data /\ data = "none"
      BY <1>11 DEF Formatting, Runs, DataInv
    <2> QED
      BY <2>1 DEF DataInv, Good
  <1>12. CASE CreateAttach \/ CreateWait
    <2>1. data' = data /\ data = "none"
      BY <1>12 DEF CreateAttach, CreateWait, Runs, DataInv, flash
    <2> QED
      BY <2>1 DEF DataInv, Good
  <1>13. CASE MakeVolume
    <2>1. data' = data /\ data = "none"
      BY <1>13 DEF MakeVolume, Runs, DataInv
    <2> QED
      BY <2>1 DEF DataInv, Good
  <1>14. CASE Mdev
    <2>1. UNCHANGED <<platform, content, data, attached, mounted, pc, opt, created, faulted>>
      BY <1>14 DEF Mdev, flash, script, budget
    <2>2. Good' => Good
      BY <2>1 DEF Good, Wanted
    <2>3. ~Idle /\ uevents # <<>>
      BY <1>14 DEF Mdev, Idle
    <2>4. (Detaching => Detaching') /\ (Attaching => Attaching')
      BY <1>14, MdevDetaching, MdevAttaching
    <2> QED
      BY <2>1, <2>2, <2>3, <2>4 DEF DataInv, GoodUbifs, GoodYaffs
  <1>15. CASE UseFs
    <2>1. pc = "done" /\ pc' = "done"
      BY <1>15 DEF UseFs, script
    <2> QED
      BY <2>1 DEF DataInv, GoodUbifs, GoodYaffs
  <1>16. CASE Stop
    <2>1. pc' = "stopped"
      BY <1>16 DEF Stop
    <2> QED
      BY <2>1 DEF DataInv, GoodUbifs, GoodYaffs
  <1>17. CASE Reboot
    <2>1. /\ pc' = "start" /\ opt' = 1 /\ created' = FALSE
          /\ attached' = FALSE /\ nodes' = {} /\ uevents' = <<>>
      BY <1>17 DEF Reboot
    <2>2. Idle'
      BY <2>1 DEF Idle
    <2> QED
      BY <2>1, <2>2 DEF DataInv, GoodUbifs, GoodYaffs
  <1>18. CASE UNCHANGED vars
    <2>1. UNCHANGED <<platform, content, data, attached, nodes, uevents, mounted, pc,
                      opt, created, faulted>>
      BY <1>18 DEF vars, flash, kernel, script, budget
    <2> QED
      BY <2>1 DEF DataInv, Good, Wanted, GoodUbifs, GoodYaffs, Idle, Detaching,
                  Attaching
  <1> QED
    BY <1>1, <1>2, <1>3, <1>4, <1>5, <1>6, <1>7, <1>8, <1>9, <1>10, <1>11, <1>12,
       <1>13, <1>14, <1>15, <1>16, <1>17, <1>18
    DEF Next, ScriptStep, MountStep, YaffsStep, CreateStep

LEMMA DataInvCorrect == Spec => []DataInv
  BY TypeCorrect, MountCorrect, DataInvInit, DataInvStep, PTL DEF Spec, TypeOK

(* Only formatting and the YAFFS2 mount lose files.                        *)
LEMMA LosingSteps ==
    LosesData /\ [Next]_vars => Format \/ YaffsTry \/ YaffsBack
  BY DEF LosesData, Next, ScriptStep, MountStep, YaffsStep, CreateStep, Start,
         Probe, Attach, Wait, Mount, Quota, YaffsEmpty, Formatting, CreateAttach,
         CreateWait, MakeVolume, Mdev, UseFs, Stop, Reboot, flash, vars

(* A boot without a failure, with a prompt mdev, keeps the user's files on *)
(* every platform, for every number of failures and power cuts before it.  *)
THEOREM FilesKept == Spec => DataKept
  <1>1. DataInv /\ [Next]_vars
        => [LosesData => faulted \/ platform.lag # "none" \/ ~Wanted]_vars
    <2> SUFFICES ASSUME DataInv, [Next]_vars, LosesData, Good PROVE FALSE
      BY DEF LosesData, Good
    <2>1. content \in {"ubifs", "yaffs2"}
      BY DEF Good, Wanted
    <2>2. pc # "format"
      BY <2>1 DEF DataInv, GoodUbifs, GoodYaffs
    <2>3. content # "ubifs" \/ pc \notin {"yaffs_try", "yaffs_back"}
      BY <2>1 DEF DataInv, GoodUbifs
    <2>4. CASE Format
      BY <2>2, <2>4 DEF Format, Runs
    <2>5. CASE YaffsTry \/ YaffsBack
      <3>1. content = "yaffs2"
        BY <2>1, <2>3, <2>5 DEF YaffsTry, YaffsBack, Runs
      <3>2. data' = data
        BY <2>5, <3>1 DEF YaffsTry, YaffsBack, YaffsMounts
      <3> QED
        BY <3>2 DEF LosesData
    <2> QED
      BY <2>4, <2>5, LosingSteps
  <1> QED
    BY <1>1, DataInvCorrect, PTL DEF Spec, DataKept

(***************************************************************************)
(* Refinement of DataStore.                                                *)
(***************************************************************************)

LEMMA StoreStep ==
    MountInv /\ StateTyped /\ [Next]_vars => [Store!Next]_(Store!vars)
  <1> SUFFICES ASSUME MountInv, StateTyped, [Next]_vars
               PROVE  [Store!Next]_(Store!vars)
    OBVIOUS
  <1> USE DEF Store!vars, Store!Next, Store!Open, Store!Wipe, Store!Write, Store!Close
  <1>1. CASE Start \/ Probe \/ Attach \/ Wait
    BY <1>1 DEF Start, Probe, Attach, Wait, flash, kernel
  <1>2. CASE Mount
    BY <1>2 DEF Mount, Runs, flash, MountInv
  <1>3. CASE Quota
    BY <1>3 DEF Quota, Runs, flash, MountInv
  <1>4. CASE YaffsTry \/ YaffsBack
    <2>1. mounted = "none"
      BY <1>4 DEF YaffsTry, YaffsBack, Runs, MountInv
    <2>2. \/ mounted' = "yaffs2" /\ data' \in {data, "none"}
          \/ UNCHANGED <<mounted, data>>
      BY <1>4 DEF YaffsTry, YaffsBack, YaffsMounts
    <2> QED
      BY <2>1, <2>2
  <1>5. CASE YaffsEmpty
    BY <1>5 DEF YaffsEmpty, flash
  <1>6. CASE Format \/ Formatting \/ CreateAttach \/ CreateWait \/ MakeVolume
    <2>1. mounted = "none" /\ mounted' = mounted
      BY <1>6 DEF Format, Formatting, CreateAttach, CreateWait, MakeVolume, Runs,
                  MountInv, kernel
    <2>2. data' \in {data, "none"}
      BY <1>6 DEF Format, Formatting, CreateAttach, CreateWait, MakeVolume, flash
    <2> QED
      BY <2>1, <2>2
  <1>7. CASE Mdev \/ UseFs
    BY <1>7 DEF Mdev, UseFs, flash, kernel
  <1>8. CASE Stop \/ Reboot
    BY <1>8 DEF Stop, Reboot, flash
  <1>9. CASE UNCHANGED vars
    BY <1>9 DEF vars, flash, kernel
  <1> QED
    BY <1>1, <1>2, <1>3, <1>4, <1>5, <1>6, <1>7, <1>8, <1>9
    DEF Next, ScriptStep, MountStep, YaffsStep, CreateStep

(* The boot scripts keep the promise that DataStore states.                *)
THEOREM PartitionImplementsStore == Spec => StoreSpec
  <1>1. Init => Store!Init
    BY DEF Init, Store!Init
  <1> QED
    BY <1>1, StoreStep, TypeCorrect, MountCorrect, PTL
    DEF Spec, StoreSpec, Store!Spec, TypeOK

(***************************************************************************)
(* The UBI device is released.                                             *)
(***************************************************************************)

(* A boot in which no command fails for a passing reason and mdev keeps up. *)
Calm == ~faulted /\ platform.lag = "none"

(* A device without a volume comes up; one whose volume was just made goes. *)
AttachingBare ==
    /\ attached
    /\ \/ uevents = <<Add("dev")>> /\ nodes = {}
       \/ uevents = <<>> /\ nodes = {"dev"}

DetachingNew ==
    /\ ~attached
    /\ uevents = <<Add("vol"), Remove("vol"), Remove("dev")>> /\ nodes = {"dev"}

(* Nodes and queue are in step with the device.                            *)
InStep ==
    /\ attached /\ HasVolume => Attaching
    /\ attached /\ ~HasVolume => AttachingBare
    /\ ~attached => Detaching \/ DetachingNew

(* Where the device is attached. The first mount options leave a container *)
(* without a volume attached (Wait), the second find and release it.       *)
Bare == content = "ubi_novol"

HeldAt ==
    /\ pc \in {"start", "attach", "yaffs_try", "yaffs_empty", "yaffs_back",
               "format", "formatting", "create_attach"} => ~attached
    /\ pc \in {"wait", "mount", "quota", "create_wait", "mkvol"} => attached
    /\ pc = "start" => opt = 1
    /\ pc = "probe" => (attached <=> opt = 2 /\ Bare)
    /\ pc = "attach" => ~(opt = 2 /\ Bare)
    /\ pc = "wait" /\ Bare => opt = 1
    /\ pc = "mount" /\ Bare => opt = 2
    /\ pc \in {"create_attach", "create_wait", "mkvol"} => Bare
    /\ pc = "yaffs_empty" => mounted # "ubifs"
    /\ pc = "done" => (attached <=> mounted = "ubifs")

LeakInv ==
    Calm /\ pc # "stopped" =>
        InStep /\ HeldAt /\ (attached => content \in UbiContents)

LEMMA LongQueueFacts ==
  \A x, y, z : /\ Head(<<x, y, z>>) = x /\ Tail(<<x, y, z>>) = <<y, z>>
               /\ <<x, y, z>> # <<>> /\ <<>> \o <<x, y, z>> = <<x, y, z>>
               /\ <<>> \o <<x>> = <<x>>
  OBVIOUS

(* When mdev is done, the nodes tell what is attached.                     *)
LEMMA RestNodes ==
    InStep /\ uevents = <<>> =>
        /\ attached /\ HasVolume => nodes = {"dev", "vol"}
        /\ attached /\ ~HasVolume => nodes = {"dev"}
        /\ ~attached => nodes = {}
  BY QueueFacts, LongQueueFacts
  DEF InStep, Attaching, AttachingBare, Detaching, DetachingNew

LEMMA MdevInStep == InStep /\ Mdev => InStep'
  <1> SUFFICES ASSUME InStep, Mdev PROVE InStep'
    OBVIOUS
  <1>1. attached' = attached /\ (HasVolume' <=> HasVolume)
    BY DEF Mdev, flash, HasVolume
  <1>2. AttachingBare => AttachingBare'
    BY QueueFacts, EventFields DEF Mdev, AttachingBare
  <1>3. DetachingNew => Detaching'
    BY LongQueueFacts, EventFields DEF Mdev, DetachingNew, Detaching
  <1> QED
    BY <1>1, <1>2, <1>3, MdevAttaching, MdevDetaching DEF InStep

(* Attaching and detaching at rest.                                        *)
LEMMA AttachInStep ==
    /\ ~attached /\ InStep /\ uevents = <<>> /\ UNCHANGED <<nodes, content>>
    /\ attached' = TRUE /\ uevents' = uevents \o AttachEvents
    => InStep'
  <1> SUFFICES ASSUME ~attached, nodes = {}, uevents = <<>>, UNCHANGED <<nodes, content>>,
                      attached' = TRUE, uevents' = uevents \o AttachEvents
               PROVE  InStep'
    BY RestNodes
  <1>1. HasVolume => uevents' = <<Add("dev"), Add("vol")>>
    BY QueueFacts DEF AttachEvents
  <1>2. ~HasVolume => uevents' = <<Add("dev")>>
    BY LongQueueFacts DEF AttachEvents
  <1> QED
    BY <1>1, <1>2 DEF InStep, Attaching, AttachingBare, HasVolume

LEMMA DetachInStep ==
    /\ attached /\ InStep /\ uevents = <<>> /\ UNCHANGED nodes
    /\ attached' = FALSE /\ uevents' = uevents \o DetachEvents
    => InStep'
  <1> SUFFICES ASSUME attached, InStep, uevents = <<>>, UNCHANGED nodes,
                      attached' = FALSE, uevents' = uevents \o DetachEvents
               PROVE  InStep'
    OBVIOUS
  <1>1. HasVolume => uevents' = <<Remove("vol"), Remove("dev")>> /\ nodes = {"dev", "vol"}
    BY QueueFacts, RestNodes DEF DetachEvents
  <1>2. ~HasVolume => uevents' = <<Remove("dev")>> /\ nodes = {"dev"}
    BY LongQueueFacts, RestNodes DEF DetachEvents
  <1> QED
    BY <1>1, <1>2 DEF InStep, Detaching

(* Nothing happens to the device.                                          *)
LEMMA SameInStep ==
    /\ InStep /\ UNCHANGED <<attached, nodes, uevents>>
    /\ content' = content \/ ~attached
    => InStep'
  BY DEF InStep, Attaching, AttachingBare, Detaching, DetachingNew, HasVolume

LEMMA LeakInvStep == LeakInv /\ MountInv /\ StateTyped /\ [Next]_vars => LeakInv'
  <1> SUFFICES ASSUME LeakInv, MountInv, StateTyped, [Next]_vars, Calm', pc' # "stopped"
               PROVE  InStep' /\ HeldAt' /\ (attached' => content' \in UbiContents)
    BY DEF LeakInv
  <1>0. opt \in {1, 2} /\ content \in Contents
    BY DEF StateTyped
  <1> DEFINE Here == /\ Calm /\ InStep /\ HeldAt /\ (attached => content \in UbiContents)
                     /\ faulted' = faulted
             Rest == /\ uevents = <<>>
                     /\ attached /\ HasVolume => nodes = {"dev", "vol"}
                     /\ attached /\ ~HasVolume => nodes = {"dev"}
                     /\ ~attached => nodes = {}
  <1>a. ASSUME UNCHANGED <<platform, budget>>, pc # "stopped" PROVE Here
    BY <1>a DEF LeakInv, Calm, budget
  <1>b. ASSUME Here, uevents = <<>> PROVE Rest
    BY <1>b, RestNodes
  <1>1. CASE Start \/ Probe \/ Wait
    <2>1. /\ UNCHANGED <<platform, budget, content, mounted, attached, nodes, uevents>>
          /\ pc \in {"start", "probe", "wait"}
          /\ platform.lag = "none" => uevents = <<>>
      BY <1>1 DEF Start, Probe, Wait, Runs, flash, kernel
    <2>2. Here /\ Rest
      BY <1>a, <1>b, <2>1 DEF Calm
    <2>3. InStep' /\ (attached' => content' \in UbiContents)
      BY <2>1, <2>2, SameInStep
    <2>4. HeldAt'
      <3>1. CASE Start
        BY <1>0, <2>1, <2>2, <3>1
        DEF Start, Runs, Return, GoTo, HeldAt, Bare, MountInv
      <3>2. CASE Probe
        <4>1. pc = "probe" /\ (attached <=> opt = 2 /\ Bare)
          BY <2>2, <3>2 DEF Probe, Runs, HeldAt
        <4>2. /\ "dev" \in nodes <=> attached
              /\ content = "erased" => ~Bare /\ ~attached
          BY <2>2, <4>1 DEF Bare
        <4> QED
          BY <1>0, <2>1, <3>2, <4>1, <4>2
          DEF Probe, TryFailed, AllTriesFailed, Return, GoTo, HeldAt, Bare, MountInv
      <3>3. CASE Wait
        <4>1. pc = "wait" /\ attached /\ (Bare => opt = 1)
          BY <2>2, <3>3 DEF Wait, Runs, HeldAt
        <4>2. "vol" \in nodes <=> ~Bare
          BY <2>2, <4>1 DEF Bare, HasVolume, WithVolume, UbiContents
        <4> QED
          BY <1>0, <2>1, <3>3, <4>1, <4>2
          DEF Wait, TimesOut, TryFailed, Return, GoTo, HeldAt, Bare, MountInv
      <3> QED
        BY <1>1, <3>1, <3>2, <3>3
    <2> QED
      BY <2>3, <2>4
  <1>2. CASE Attach \/ CreateAttach
    <2>1. /\ UNCHANGED <<platform, content, mounted, nodes>>
          /\ pc \in {"attach", "create_attach"}
          /\ platform.lag = "none" => uevents = <<>>
      BY <1>2 DEF Attach, CreateAttach, Runs, flash
    <2>2. UNCHANGED budget
      BY <1>2 DEF Attach, CreateAttach, Succeeds, Fails, Fault, Calm
    <2>3. Here /\ Rest /\ ~attached
      BY <1>a, <1>b, <2>1, <2>2 DEF Calm, HeldAt
    <2>4. CASE content \in UbiContents
      <3>1. /\ attached' = TRUE /\ uevents' = uevents \o AttachEvents
            /\ \/ pc = "attach" /\ pc' = "wait" /\ opt' = opt
               \/ pc = "create_attach" /\ pc' = "create_wait"
        BY <1>2, <2>3, <2>4
        DEF Attach, CreateAttach, Runs, Succeeds, Fails, Fault, Calm, GoTo
      <3>2. InStep'
        BY <2>1, <2>3, <3>1, AttachInStep
      <3>3. HeldAt'
        BY <1>0, <2>1, <2>3, <3>1 DEF HeldAt, Bare
      <3> QED
        BY <2>1, <2>4, <3>2, <3>3
    <2>5. CASE content \notin UbiContents
      <3>1. pc = "attach" /\ UNCHANGED <<attached, uevents>> /\ TryFailed /\ ~Bare
        BY <1>2, <2>1, <2>3, <2>5
        DEF Attach, CreateAttach, Runs, Succeeds, HeldAt, Bare, UbiContents
      <3>2. InStep'
        BY <2>1, <2>3, <3>1, SameInStep
      <3>3. mounted = "none"
        BY <3>1 DEF MountInv
      <3>4. HeldAt'
        BY <1>0, <2>1, <2>3, <3>1, <3>3
        DEF TryFailed, AllTriesFailed, Return, GoTo, HeldAt, Bare
      <3> QED
        BY <2>1, <2>3, <3>1, <3>2, <3>4
    <2> QED
      BY <2>4, <2>5
  <1>3. CASE Mount
    <2>1. /\ UNCHANGED <<platform, content, nodes>> /\ pc = "mount" /\ mounted = "none"
          /\ platform.lag = "none" => uevents = <<>>
      BY <1>3 DEF Mount, Runs, flash, MountInv
    <2>2. UNCHANGED budget
      BY <1>3 DEF Mount, Succeeds, Fails, Fault, Calm
    <2>3. Here /\ Rest /\ attached /\ (Bare => opt = 2)
      BY <1>a, <1>b, <2>1, <2>2 DEF Calm, HeldAt
    <2>4. CASE mounted' = "ubifs"
      <3>1. /\ UNCHANGED <<attached, uevents>> /\ pc' \in {"quota", "done"}
        BY <1>3, <2>1, <2>4 DEF Mount, GoTo, Return
      <3>2. InStep'
        BY <2>1, <2>3, <3>1, SameInStep
      <3> QED
        BY <2>1, <2>3, <2>4, <3>1, <3>2 DEF HeldAt
    <2>5. CASE mounted' # "ubifs"
      <3>1. UbiDetach("none") /\ TryFailed /\ mounted' = "none"
        BY <1>3, <2>1, <2>5 DEF Mount
      <3>2. attached' = FALSE /\ uevents' = uevents \o DetachEvents
        BY <2>3, <3>1 DEF UbiDetach
      <3>3. InStep'
        BY <2>1, <2>3, <3>2, DetachInStep
      <3>4. HeldAt'
        BY <1>0, <2>1, <2>3, <3>1, <3>2
        DEF TryFailed, AllTriesFailed, Return, GoTo, HeldAt, Bare
      <3> QED
        BY <3>2, <3>3, <3>4
    <2> QED
      BY <2>4, <2>5
  <1>4. CASE Quota
    <2>1. /\ UNCHANGED <<platform, budget, content, nodes, attached, uevents>>
          /\ mounted' = mounted /\ pc' = "done" /\ pc = "quota"
      BY <1>4 DEF Quota, Succeeds, Fails, Fault, Calm, Runs, Return, flash
    <2>2. Here /\ attached /\ mounted = "ubifs"
      BY <1>a, <2>1 DEF HeldAt, MountInv
    <2>3. InStep'
      BY <2>1, <2>2, SameInStep
    <2> QED
      BY <2>1, <2>2, <2>3 DEF HeldAt
  <1>5. CASE YaffsTry \/ YaffsEmpty \/ YaffsBack \/ Format \/ Formatting
    <2>1. /\ UNCHANGED <<platform, attached, nodes, uevents>>
          /\ pc \in {"yaffs_try", "yaffs_empty", "yaffs_back", "format", "formatting"}
      BY <1>5 DEF YaffsTry, YaffsEmpty, YaffsBack, Format, Formatting, Runs, kernel
    <2>2. Calm /\ faulted' = faulted
      BY <1>5, <2>1
      DEF YaffsTry, YaffsEmpty, YaffsBack, Format, Formatting, YaffsMounts, Succeeds,
          Fails, Fault, budget, Calm
    <2>3. Here /\ ~attached
      BY <2>1, <2>2 DEF LeakInv, HeldAt
    <2>4. InStep'
      BY <2>1, <2>3, SameInStep
    <2>5. HeldAt'
      <3>1. CASE YaffsTry \/ YaffsBack
        BY <2>1, <2>3, <3>1
        DEF YaffsTry, YaffsBack, YaffsMounts, Runs, Return, GoTo, HeldAt, MountInv
      <3>2. CASE YaffsEmpty
        BY <2>1, <2>3, <3>2 DEF YaffsEmpty, Runs, Return, GoTo, HeldAt
      <3>3. CASE Format
        BY <2>1, <2>2, <2>3, <3>3
        DEF Format, Succeeds, Fails, Fault, Runs, GoTo, HeldAt, Calm
      <3>4. CASE Formatting
        BY <2>1, <2>2, <2>3, <3>4
        DEF Formatting, Succeeds, Fails, Fault, Runs, GoTo, HeldAt, Calm, Bare
      <3> QED
        BY <1>5, <3>1, <3>2, <3>3, <3>4
    <2> QED
      BY <2>1, <2>3, <2>4, <2>5
  <1>6. CASE CreateWait
    <2>1. /\ UNCHANGED <<platform, budget, content, mounted, attached, nodes, uevents>>
          /\ pc = "create_wait" /\ (platform.lag = "none" => uevents = <<>>)
      BY <1>6 DEF CreateWait, Runs, flash, kernel
    <2>2. Here /\ Rest /\ attached /\ Bare
      BY <1>a, <1>b, <2>1 DEF Calm, HeldAt
    <2>3. pc' = "mkvol"
      BY <1>6, <2>2 DEF CreateWait, TimesOut, GoTo
    <2>4. InStep'
      BY <2>1, <2>2, SameInStep
    <2> QED
      BY <2>1, <2>2, <2>3, <2>4 DEF HeldAt, Bare
  <1>7. CASE MakeVolume
    <2>1. /\ UNCHANGED <<platform, mounted, nodes>> /\ pc = "mkvol"
          /\ platform.lag = "none" => uevents = <<>>
      BY <1>7 DEF MakeVolume, Runs
    <2>2. Calm
      BY <1>7, <2>1 DEF MakeVolume, Succeeds, Fails, Fault, budget, Calm
    <2>3. /\ InStep /\ HeldAt /\ attached /\ Bare /\ uevents = <<>>
      BY <2>1, <2>2 DEF LeakInv, Calm, HeldAt
    <2>4. nodes = {"dev"}
      BY <2>3, RestNodes DEF Bare, HasVolume, WithVolume
    <2>5. /\ attached' = FALSE /\ content' = "ubifs" /\ pc' = "probe" /\ opt' = 1
          /\ uevents' = uevents \o <<Add("vol"), Remove("vol"), Remove("dev")>>
      BY <1>7, <2>3, <2>4 DEF MakeVolume, Succeeds, Fails, Fault, Calm
    <2>6. DetachingNew'
      BY <2>1, <2>3, <2>4, <2>5, LongQueueFacts DEF DetachingNew
    <2> QED
      BY <2>5, <2>6 DEF InStep, HeldAt
  <1>8. CASE Mdev
    <2>1. UNCHANGED <<platform, budget, content, attached, mounted, pc, opt>>
      BY <1>8 DEF Mdev, flash, script
    <2>2. Here
      BY <1>a, <2>1
    <2>3. InStep'
      BY <1>8, <2>2, MdevInStep
    <2> QED
      BY <2>1, <2>2, <2>3 DEF HeldAt, Bare
  <1>9. CASE UseFs \/ UNCHANGED vars
    <2>1. UNCHANGED <<platform, budget, content, kernel, pc, opt>>
      BY <1>9 DEF UseFs, vars, flash, script
    <2>2. Here /\ UNCHANGED <<attached, nodes, uevents, mounted>>
      BY <1>a, <2>1 DEF kernel
    <2>3. InStep'
      BY <2>1, <2>2, SameInStep
    <2> QED
      BY <2>1, <2>2, <2>3 DEF HeldAt, Bare
  <1>10. CASE Reboot
    <2>1. /\ ~attached' /\ nodes' = {} /\ uevents' = <<>> /\ mounted' = "none"
          /\ pc' = "start" /\ opt' = 1
      BY <1>10 DEF Reboot
    <2> QED
      BY <2>1 DEF InStep, Detaching, HeldAt
  <1>11. CASE Stop
    BY <1>11 DEF Stop
  <1> QED
    BY <1>1, <1>2, <1>3, <1>4, <1>5, <1>6, <1>7, <1>8, <1>9, <1>10, <1>11
    DEF Next, ScriptStep, MountStep, YaffsStep, CreateStep

LEMMA LeakHolds == Spec => []LeakInv
  <1>1. Init => LeakInv
    BY DEF Init, LeakInv, InStep, Detaching, HeldAt
  <1> QED
    BY <1>1, TypeCorrect, MountCorrect, LeakInvStep, PTL DEF Spec, TypeOK

(* In a boot without a failure and with a prompt mdev, every error path    *)
(* releases the UBI device, on any platform and whatever the flash holds.  *)
THEOREM DeviceIsReleased == Spec => []NoAttachLeak
  <1>1. LeakInv => NoAttachLeak
    BY DEF LeakInv, Calm, HeldAt, NoAttachLeak
  <1> QED
    BY <1>1, LeakHolds, PTL

(***************************************************************************)
(* The partition is mounted in the end.                                    *)
(***************************************************************************)

(* A new file system has been made for the last attempts only, which then  *)
(* cannot fail; YAFFS2 is only tried by a kernel that has it, and then     *)
(* mounts whatever is there.                                               *)
Hopeful ==
    /\ created => /\ content = "ubifs"
                  /\ pc \in {"probe", "attach", "wait", "mount", "quota", "done", "stopped"}
    /\ pc \in {"yaffs_try", "yaffs_back"} => platform.yaffs
    /\ pc = "yaffs_empty" => mounted = "yaffs2"
    /\ pc = "done" => mounted # "none"

HopeInv == Calm /\ Serviceable => Hopeful

(* Mount options that fail leave a way: the last ones do not fail for a    *)
(* partition that was just made.                                           *)
LEMMA FailedTry ==
    ASSUME StateTyped, Hopeful, TryFailed, pc \in {"probe", "attach", "wait", "mount"},
           UNCHANGED <<platform, content>>, opt = 2 => content # "ubifs"
    PROVE  Hopeful'
  <1>1. opt = 2 => ~created
    BY DEF Hopeful
  <1>2. CASE opt = 1
    BY <1>2 DEF TryFailed, Hopeful
  <1>3. CASE opt = 2
    <2>1. /\ pc' \in {"yaffs_try", "format"} /\ created' = created
          /\ pc' = "yaffs_try" => platform.yaffs
      BY <1>1, <1>3 DEF TryFailed, AllTriesFailed, GoTo
    <2> QED
      BY <1>1, <1>3, <2>1 DEF Hopeful
  <1> QED
    BY <1>2, <1>3 DEF TryFailed

LEMMA HopeStep ==
    HopeInv /\ LeakInv /\ MountInv /\ StateTyped /\ [Next]_vars => HopeInv'
  <1> SUFFICES ASSUME HopeInv, LeakInv, MountInv, StateTyped, [Next]_vars, Calm', Serviceable'
               PROVE  Hopeful'
    BY DEF HopeInv
  <1> DEFINE Held == InStep /\ HeldAt
  <1>0. platform' = platform /\ Serviceable /\ platform.lag = "none"
    <2>1. platform' = platform
      BY DEF Next, ScriptStep, MountStep, YaffsStep, CreateStep, Start, Probe, Attach, Wait, Mount,
             Quota, YaffsTry, YaffsEmpty, YaffsBack, Format, Formatting, CreateAttach, CreateWait,
             MakeVolume, Mdev, UseFs, Stop, Reboot, vars
    <2> QED
      BY <2>1 DEF Serviceable, Allowed, FudgeAllowed, Calm
  <1>a. ASSUME faulted' = faulted PROVE Calm /\ Hopeful
    BY <1>a, <1>0 DEF Calm, HopeInv
  <1>b. ASSUME faulted' = faulted, pc # "stopped" PROVE Held
    BY <1>a, <1>b DEF LeakInv
  <1>1. CASE Start
    <2>1. UNCHANGED <<content, faulted, created>> /\ pc = "start"
      BY <1>1 DEF Start, Runs, Return, GoTo, flash, budget
    <2>2. Hopeful
      BY <1>a, <2>1
    <2>3. ~created /\ pc' \in {"probe", "yaffs_back"} /\ (pc' = "yaffs_back" => platform.yaffs)
      BY <1>0, <1>1, <2>1, <2>2 DEF Hopeful, Start, GoTo, Serviceable
    <2> QED
      BY <1>0, <2>1, <2>3 DEF Hopeful
  <1>2. CASE Probe
    <2>1. UNCHANGED <<content, faulted, attached, nodes>> /\ pc = "probe"
      BY <1>2 DEF Probe, Runs, flash, kernel, budget
    <2>2. Hopeful
      BY <1>a, <2>1
    <2>3. CASE content = "erased"
      BY <1>0, <1>2, <2>1, <2>2, <2>3, FailedTry DEF Probe
    <2>4. CASE content # "erased"
      BY <1>0, <1>2, <2>1, <2>2, <2>4 DEF Probe, GoTo, Hopeful
    <2> QED
      BY <2>3, <2>4
  <1>3. CASE Attach
    <2>1. UNCHANGED <<content, faulted>> /\ pc = "attach"
      BY <1>3 DEF Attach, Runs, flash, Succeeds, Fails, Fault, Calm, budget
    <2>2. Hopeful /\ ~attached
      BY <1>a, <1>b, <2>1 DEF HeldAt
    <2>3. CASE pc' = "wait" /\ UNCHANGED created
      BY <1>0, <2>1, <2>2, <2>3 DEF Hopeful
    <2>4. CASE TryFailed /\ content # "ubifs"
      BY <1>0, <2>1, <2>2, <2>4, FailedTry
    <2>5. content = "ubifs" => content \in UbiContents
      BY DEF UbiContents
    <2> QED
      BY <1>3, <2>1, <2>2, <2>3, <2>4, <2>5 DEF Attach, Succeeds, Fails, Fault, Calm, GoTo
  <1>4. CASE Wait
    <2>1. UNCHANGED <<content, faulted>> /\ pc = "wait" /\ uevents = <<>>
      BY <1>0, <1>4 DEF Wait, Runs, flash, budget
    <2>2. Hopeful /\ Held
      BY <1>a, <1>b, <2>1
    <2>3. content = "ubifs" => "vol" \in nodes
      BY <2>1, <2>2, RestNodes DEF HeldAt, HasVolume, WithVolume
    <2>4. CASE GoTo("mount")
      BY <1>0, <2>1, <2>2, <2>4 DEF GoTo, Hopeful
    <2>5. CASE TimesOut("vol") /\ TryFailed
      BY <1>0, <2>1, <2>2, <2>3, <2>5, FailedTry DEF TimesOut
    <2> QED
      BY <1>4, <2>4, <2>5 DEF Wait
  <1>5. CASE Mount
    <2>1. UNCHANGED <<content, faulted>> /\ pc = "mount" /\ uevents = <<>>
      BY <1>0, <1>5 DEF Mount, Runs, flash, Succeeds, Fails, Fault, Calm, budget
    <2>2. Hopeful /\ Held
      BY <1>a, <1>b, <2>1
    <2>3. content = "ubifs" => "vol" \in nodes /\ attached
      BY <2>1, <2>2, RestNodes DEF HeldAt, HasVolume, WithVolume
    <2>4. CASE mounted' = "ubifs" /\ pc' \in {"quota", "done"} /\ UNCHANGED created
      BY <1>0, <2>1, <2>2, <2>4 DEF Hopeful
    <2>5. CASE TryFailed /\ (opt = 2 => content # "ubifs")
      BY <1>0, <2>1, <2>2, <2>5, FailedTry
    <2>6. opt \in {1, 2}
      BY DEF StateTyped
    <2> QED
      BY <1>5, <2>1, <2>3, <2>4, <2>5, <2>6 DEF Mount, Succeeds, Fails, Fault, Calm, GoTo, Return
  <1>6. CASE Quota
    <2>1. UNCHANGED <<content, created, mounted, faulted>> /\ pc = "quota" /\ pc' = "done"
      BY <1>6 DEF Quota, Succeeds, Fails, Fault, Calm, Runs, Return, flash, budget
    <2>2. mounted = "ubifs" /\ Hopeful
      BY <1>a, <2>1 DEF MountInv
    <2> QED
      BY <2>1, <2>2 DEF Hopeful
  <1>7. CASE YaffsTry \/ YaffsBack
    <2>1. faulted' = faulted /\ pc \in {"yaffs_try", "yaffs_back"}
      BY <1>7 DEF YaffsTry, YaffsBack, YaffsMounts, Runs, Succeeds, Fails, Fault, Calm, budget
    <2>2. platform.yaffs /\ ~created
      BY <1>a, <2>1 DEF Hopeful
    <2>3. mounted' = "yaffs2" /\ created' = created /\ pc' \in {"yaffs_empty", "done"}
      BY <1>7, <2>2
      DEF YaffsTry, YaffsBack, YaffsMounts, Succeeds, Fails, Fault, Calm, GoTo, Return
    <2> QED
      BY <2>2, <2>3 DEF Hopeful
  <1>8. CASE YaffsEmpty
    <2>1. UNCHANGED <<faulted, created>> /\ pc = "yaffs_empty" /\ pc' \in {"done", "format"}
      BY <1>8 DEF YaffsEmpty, Runs, Return, GoTo, budget
    <2>2. mounted = "yaffs2" /\ ~created
      BY <1>a, <2>1 DEF Hopeful
    <2>3. pc' = "done" => mounted' = "yaffs2"
      BY <1>8, <2>2 DEF YaffsEmpty, GoTo
    <2> QED
      BY <2>1, <2>2, <2>3 DEF Hopeful
  <1>9. CASE Format \/ Formatting \/ CreateAttach \/ CreateWait
    <2>1. /\ faulted' = faulted
          /\ pc \in {"format", "formatting", "create_attach", "create_wait"}
      BY <1>9 DEF Format, Formatting, CreateAttach, CreateWait, Runs, Succeeds, Fails, Fault, Calm,
                  budget
    <2>2. Hopeful /\ Held /\ ~created
      BY <1>a, <1>b, <2>1 DEF Hopeful
    <2>3. pc' \in {"formatting", "create_attach", "create_wait", "mkvol"} /\ created' = created
      <3>1. CASE Format \/ Formatting
        BY <2>1, <2>2, <3>1 DEF Format, Formatting, Runs, Succeeds, Fails, Fault, Calm, GoTo, HeldAt
      <3>2. CASE CreateAttach
        BY <2>1, <2>2, <3>2
        DEF CreateAttach, Runs, Succeeds, Fails, Fault, Calm, GoTo, HeldAt, Bare, UbiContents
      <3>3. CASE CreateWait
        <4>1. pc = "create_wait" /\ uevents = <<>>
          BY <1>0, <3>3 DEF CreateWait, Runs
        <4>2. "dev" \in nodes
          BY <2>2, <4>1, RestNodes DEF HeldAt, Bare, HasVolume, WithVolume
        <4> QED
          BY <3>3, <4>2 DEF CreateWait, TimesOut, GoTo
      <3> QED
        BY <1>9, <3>1, <3>2, <3>3
    <2> QED
      BY <2>2, <2>3 DEF Hopeful
  <1>10. CASE MakeVolume
    <2>1. faulted' = faulted /\ pc = "mkvol" /\ uevents = <<>>
      BY <1>0, <1>10 DEF MakeVolume, Runs, Succeeds, Fails, Fault, Calm, budget
    <2>2. Held
      BY <1>b, <2>1
    <2>3. attached /\ "dev" \in nodes
      BY <2>1, <2>2, RestNodes DEF HeldAt, Bare, HasVolume, WithVolume
    <2>4. content' = "ubifs" /\ pc' = "probe"
      BY <1>10, <2>3 DEF MakeVolume, Succeeds, Fails, Fault, Calm
    <2> QED
      BY <2>4 DEF Hopeful
  <1>11. CASE Mdev \/ UseFs \/ Stop \/ UNCHANGED vars
    <2>1. UNCHANGED <<content, created, faulted>>
      BY <1>11 DEF Mdev, UseFs, Stop, vars, flash, script, budget
    <2>2. Hopeful
      BY <1>a, <2>1
    <2>3. CASE pc' = pc /\ mounted' = mounted
      BY <1>0, <2>1, <2>2, <2>3 DEF Hopeful
    <2>4. CASE pc' = "stopped" /\ pc = "done"
      BY <1>0, <2>1, <2>2, <2>4 DEF Hopeful
    <2> QED
      BY <1>11, <2>3, <2>4 DEF Mdev, UseFs, Stop, Runs, vars, kernel, script
  <1>12. CASE Reboot
    BY <1>12 DEF Reboot, Hopeful
  <1> QED
    BY <1>1, <1>2, <1>3, <1>4, <1>5, <1>6, <1>7, <1>8, <1>9, <1>10, <1>11, <1>12
    DEF Next, ScriptStep, MountStep, YaffsStep, CreateStep

(* A boot in which nothing fails has the partition mounted when the start  *)
(* method is done, for every platform that can mount it at all and for     *)
(* everything that earlier boots, failures and power cuts leave on flash.  *)
THEOREM HealthyBoots == Spec => []HealthyBootMounts
  <1>1. Init => HopeInv
    BY DEF Init, HopeInv, Hopeful
  <1>2. HopeInv => HealthyBootMounts
    BY DEF HopeInv, Hopeful, Calm, HealthyBootMounts
  <1> QED
    BY <1>1, <1>2, TypeCorrect, MountCorrect, LeakHolds, HopeStep, PTL DEF Spec, TypeOK

(* How far the start method has come: the mount options one after the      *)
(* other, the YAFFS2 probe, the new file system, both mount options again  *)
(* for it, and the way back to YAFFS2.                                     *)
Place ==
    [start |-> 1, probe |-> 2, attach |-> 3, wait |-> 4, mount |-> 5, quota |-> 6,
     yaffs_try |-> 16, yaffs_empty |-> 17, format |-> 18, formatting |-> 19,
     create_attach |-> 20, create_wait |-> 21, mkvol |-> 22,
     yaffs_back |-> 40, done |-> 41, stopped |-> 42]

Trying == pc \in {"probe", "attach", "wait", "mount", "quota"}

Rank ==
    Place[pc] + (IF Trying /\ opt = 2 THEN 7 ELSE 0) + (IF Trying /\ created THEN 23 ELSE 0)

CameFurther == ScriptStep => Rank' > Rank

LEMMA RankStep == StateTyped /\ [Next]_vars => [CameFurther]_vars
  <1> SUFFICES ASSUME StateTyped, ScriptStep PROVE Rank' > Rank
    BY DEF CameFurther
  <1>0. opt \in {1, 2} /\ created \in BOOLEAN
    BY DEF StateTyped
  <1>a. ASSUME TryFailed, Trying PROVE Rank' > Rank
    BY <1>0, <1>a DEF TryFailed, AllTriesFailed, Return, GoTo, Rank, Trying, Place
  <1>b. ASSUME CreateFailed, pc \in {"format", "formatting", "create_attach", "create_wait", "mkvol"}
        PROVE  Rank' > Rank
    BY <1>b DEF CreateFailed, Return, GoTo, Rank, Trying, Place
  <1>1. CASE Start
    BY <1>0, <1>1 DEF Start, Runs, Return, GoTo, Rank, Trying, Place
  <1>c. ASSUME GoTo("attach") \/ GoTo("wait") \/ GoTo("mount") \/ GoTo("quota") \/ Return("OK"),
               Trying, Place[pc'] > Place[pc]
        PROVE  Rank' > Rank
    BY <1>0, <1>c DEF GoTo, Return, Rank, Trying, Place
  <1>2. CASE Probe \/ Attach \/ Wait \/ Mount \/ Quota
    <2>1. /\ Trying
          /\ \/ TryFailed
             \/ /\ GoTo("attach") \/ GoTo("wait") \/ GoTo("mount") \/ GoTo("quota") \/ Return("OK")
                /\ Place[pc'] > Place[pc]
      <3>1. CASE Probe
        BY <3>1 DEF Probe, Runs, GoTo, Trying, Place
      <3>2. CASE Attach
        BY <3>2 DEF Attach, Runs, GoTo, Trying, Place
      <3>3. CASE Wait
        BY <3>3 DEF Wait, Runs, GoTo, Trying, Place
      <3>4. CASE Mount
        <4>1. pc = "mount" /\ (TryFailed \/ GoTo("quota") \/ Return("OK"))
          BY <3>4 DEF Mount, Runs
        <4> QED
          BY <4>1 DEF GoTo, Return, Trying, Place
      <3>5. CASE Quota
        <4>1. pc = "quota" /\ (TryFailed \/ Return("OK"))
          BY <3>5 DEF Quota, Runs
        <4> QED
          BY <4>1 DEF Return, Trying, Place
      <3> QED
        BY <1>2, <3>1, <3>2, <3>3, <3>4, <3>5
    <2> QED
      BY <1>a, <1>c, <2>1
  <1>3. CASE YaffsTry \/ YaffsEmpty \/ YaffsBack
    BY <1>3 DEF YaffsTry, YaffsEmpty, YaffsBack, Runs, Return, GoTo, Rank, Trying, Place
  <1>4. CASE Format \/ Formatting \/ CreateAttach \/ CreateWait
    <2>1. /\ pc \in {"format", "formatting", "create_attach", "create_wait"}
          /\ \/ CreateFailed
             \/ pc = "format" /\ GoTo("formatting")
             \/ pc = "formatting" /\ GoTo("create_attach")
             \/ pc = "create_attach" /\ GoTo("create_wait")
             \/ pc = "create_wait" /\ GoTo("mkvol")
      BY <1>4 DEF Format, Formatting, CreateAttach, CreateWait, Runs
    <2> QED
      BY <1>b, <2>1 DEF GoTo, Rank, Trying, Place
  <1>5. CASE MakeVolume
    <2>1. pc = "mkvol" /\ (CreateFailed \/ (pc' = "probe" /\ opt' = 1 /\ created' = TRUE))
      BY <1>5 DEF MakeVolume, Runs
    <2> QED
      BY <1>b, <2>1 DEF Rank, Trying, Place
  <1> QED
    BY <1>1, <1>2, <1>3, <1>4, <1>5 DEF ScriptStep, MountStep, YaffsStep, CreateStep

(* The start method comes nearer to its end with every command, whatever   *)
(* fails: no way to mount the partition is taken twice, and what follows   *)
(* the new file system never leads to another one.                         *)
THEOREM StartComesToItsEnd == Spec => [][CameFurther]_vars
  BY TypeCorrect, RankStep, PTL DEF Spec, TypeOK

=============================================================================
