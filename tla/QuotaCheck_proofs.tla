------------------------- MODULE QuotaCheck_proofs --------------------------
(***************************************************************************)
(* Proofs about QuotaCheck, for any bounds.                                 *)
(***************************************************************************)
EXTENDS QuotaCheck, TLAPS

\* Everything but the three counters.
FileTypes ==
    /\ main \in [Items -> Contents] /\ bak \in [Items -> Contents]
    /\ pc \in Running \cup Ended \cup {"off", "asking"}
    /\ item \in Items
    /\ fault \in BOOLEAN

\* While the second item is repaired, the first one is good; at the end both are.
DoneInv ==
    /\ pc = "ok" => \A i \in Items : main[i] \in Good
    /\ pc \in Running \ {"both"} /\ item = "group" => main["user"] \in Good
    /\ pc = "save" => main[item] \in Good

\* A backup never knows limits that a new file does not.  Without a failed
\* command, a file is only replaced when it is of no use, and
\* the backup only removed when it is of no use either.
RepairInv ==
    /\ \A i \in Items : main[i] = "fresh" => bak[i] # "limits"
    /\ pc \in {"create", "save"} => bak[item] = "none"
    /\ pc = "create" => main[item] = "none"
    /\ pc = "save" => main[item] = "fresh"
    /\ ~fault =>
          /\ pc = "restore" => main[item] \notin Good
          /\ pc = "copy" => main[item] \notin Good
          /\ pc = "recheck" => main[item] = bak[item]
          /\ pc = "purge" => main[item] \notin Good /\ bak[item] \notin Good
          /\ pc # "err"

\* Without a failed command, the backup of an item that is done is good, and until
\* limits are set it is a copy of the file: the second repair leaves both alone.
BackupInv ==
    ~fault =>
        /\ pc = "ok" => \A i \in Items : bak[i] \in Good
        /\ pc \in Running \ {"both"} /\ item = "group" =>
              bak["user"] \in Good /\ bak["user"] = main["user"]

IInv == FileTypes /\ DoneInv /\ RepairInv /\ BackupInv

LEMMA InitIInv == Init => IInv
BY DEF Init, IInv, FileTypes, DoneInv, RepairInv, BackupInv, Items, Good, Contents, Running, Ended

LEMMA FaultType ==
    ASSUME fault \in BOOLEAN, Fault \/ NoFault
    PROVE  fault' \in BOOLEAN /\ (fault => fault') /\ (Fault => fault')
BY DEF Fault, NoFault

\* The outcomes of the checks of one item.
LEMMA CheckItemCases ==
    ASSUME IInv, CheckItem
    PROVE  /\ pc = "check" /\ fault' \in BOOLEAN /\ (fault => fault')
           /\ \/ /\ main[item] \in Good /\ UNCHANGED main /\ NextItem
                 /\ bak' = [i \in Items |-> IF i = item THEN main[i] ELSE bak[i]]
              \/ /\ UNCHANGED files /\ UNCHANGED item
                 /\ pc' = (IF bak[item] # "none" THEN "restore" ELSE "purge")
                 /\ main[item] \notin Good \/ fault'
              \/ UNCHANGED files /\ UNCHANGED item /\ pc' = "asking"
<1>1. \A i : i \in {item} <=> i = item
  OBVIOUS
<1>2. /\ pc = "check"
      /\ \/ main[item] \in Good /\ Rewrite({item}) /\ NoFault /\ NextItem
         \/ main[item] \notin Good /\ NoFault /\ UNCHANGED files /\ UNCHANGED item /\ pc' = (IF bak[item] # "none" THEN "restore" ELSE "purge")
         \/ Fault /\ UNCHANGED files /\ UNCHANGED item /\ pc' = (IF bak[item] # "none" THEN "restore" ELSE "purge")
         \/ NoFault /\ UNCHANGED files /\ UNCHANGED item /\ pc' = "asking"
  <2> HIDE DEF NextItem, Rewrite, NoFault, Fault
  <2> QED BY <1>1 DEF CheckItem, Check, Accepts, Goto
<1>3. Rewrite({item}) => UNCHANGED main /\ bak' = [i \in Items |-> IF i = item THEN main[i] ELSE bak[i]]
  BY <1>1 DEF Rewrite
<1> QED BY <1>2, <1>3, FaultType DEF IInv, FileTypes

LEMMA RecheckCases ==
    ASSUME IInv, Recheck
    PROVE  /\ pc = "recheck" /\ fault' \in BOOLEAN /\ (fault => fault')
           /\ \/ /\ main[item] \in Good /\ UNCHANGED main /\ NextItem
                 /\ bak' = [i \in Items |-> IF i = item THEN main[i] ELSE bak[i]]
              \/ /\ UNCHANGED files /\ UNCHANGED item
                 /\ pc' = "purge"
                 /\ main[item] \notin Good \/ fault'
              \/ UNCHANGED files /\ UNCHANGED item /\ pc' = "asking"
<1>1. \A i : i \in {item} <=> i = item
  OBVIOUS
<1>2. /\ pc = "recheck"
      /\ \/ main[item] \in Good /\ Rewrite({item}) /\ NoFault /\ NextItem
         \/ main[item] \notin Good /\ NoFault /\ UNCHANGED files /\ UNCHANGED item /\ pc' = "purge"
         \/ Fault /\ UNCHANGED files /\ UNCHANGED item /\ pc' = "purge"
         \/ NoFault /\ UNCHANGED files /\ UNCHANGED item /\ pc' = "asking"
  <2> HIDE DEF NextItem, Rewrite, NoFault, Fault
  <2> QED BY <1>1 DEF Recheck, Check, Accepts, Goto
<1>3. Rewrite({item}) => UNCHANGED main /\ bak' = [i \in Items |-> IF i = item THEN main[i] ELSE bak[i]]
  BY <1>1 DEF Rewrite
<1> QED BY <1>2, <1>3, FaultType DEF IInv, FileTypes

LEMMA CheckTwo ==
    ASSUME IInv, CheckBoth
    PROVE  /\ pc = "both" /\ fault' \in BOOLEAN /\ (fault => fault')
           /\ \/ /\ \A i \in Items : main[i] \in Good
                 /\ UNCHANGED <<main, item>> /\ pc' = "ok"
                 /\ bak' = [i \in Items |-> main[i]]
              \/ /\ UNCHANGED files /\ pc' = "check" /\ item' = "user"
BY FaultType DEF CheckBoth, Check, Accepts, Rewrite, Goto, files, IInv, FileTypes

LEMMA StepIInv ==
    ASSUME IInv, Step
    PROVE  IInv'
<1> USE DEF IInv, FileTypes, DoneInv, RepairInv, BackupInv, Items, Good, Contents, Running, Ended
<1>1. CASE Start
  BY <1>1 DEF Start, files
<1>2. CASE CheckBoth
  BY <1>2, CheckTwo DEF files
<1>3. CASE CheckItem
  BY <1>3, CheckItemCases DEF NextItem, files
<1>4. CASE Restore
  BY <1>4 DEF Restore, NoFault, Goto
<1>5. CASE CopyBackup
  BY <1>5, FaultType DEF CopyBackup, Goto, NoFault, Fault
<1>6. CASE Recheck
  BY <1>6, RecheckCases DEF NextItem, files
<1>7. CASE Purge
  BY <1>7 DEF Purge, RemoveItem, NoFault, Goto
<1>8. CASE Create
  BY <1>8 DEF Create, RemoveItem, NoFault, Fault, Goto
<1>9. CASE Save
  BY <1>9, FaultType DEF Save, NextItem, NoFault, Fault
<1> QED BY <1>1, <1>2, <1>3, <1>4, <1>5, <1>6, <1>7, <1>8, <1>9 DEF Step

LEMMA NextIInv ==
    ASSUME IInv, [Next]_vars
    PROVE  IInv'
<1> USE DEF IInv, FileTypes, DoneInv, RepairInv, BackupInv, Items, Good, Contents, Running, Ended
<1>1. CASE UNCHANGED vars
  BY <1>1 DEF vars, files
<1>2. CASE SetLimits
  BY <1>2 DEF SetLimits
<1>3. CASE GoesBad
  BY <1>3 DEF GoesBad
<1>4. CASE SwitchOff
  BY <1>4 DEF SwitchOff, files
<1>5. CASE Crash
  <2>1. /\ main' \in [Items -> Contents] /\ bak' \in [Items -> Contents]
        /\ \A i \in Items : main'[i] = "fresh" => bak'[i] # "limits"
    BY <1>5 DEF Crash, TornFiles, TornCheck, files
  <2> QED BY <1>5, <2>1 DEF Crash
<1> QED BY <1>1, <1>2, <1>3, <1>4, <1>5, StepIInv DEF Next

LEMMA SpecIInv == Spec => []IInv
BY InitIInv, NextIInv, PTL DEF Spec

LEMMA InitCounts == Init => faults \in 0..MaxFaults /\ bads \in 0..MaxBad /\ crashes \in 0..MaxCrashes
BY BoundsAssumption DEF Init, BoundsAssumption

Counts == faults \in 0..MaxFaults /\ bads \in 0..MaxBad /\ crashes \in 0..MaxCrashes

\* A step counts at most one event, and none past its bound.
LEMMA CountSteps ==
    ASSUME [Next]_vars
    PROVE  /\ faults' = faults \/ (faults < MaxFaults /\ faults' = faults + 1)
           /\ bads' = bads \/ (bads < MaxBad /\ bads' = bads + 1)
           /\ crashes' = crashes \/ (crashes < MaxCrashes /\ crashes' = crashes + 1)
BY DEF Next, Step, vars, counts, Start, CheckBoth, CheckItem, Restore, CopyBackup, Recheck,
       Purge, Create, Save, SetLimits, GoesBad, SwitchOff, Crash, Check, NextItem, Goto,
       Fault, NoFault

LEMMA NextCounts ==
    ASSUME Counts, [Next]_vars
    PROVE  Counts'
BY CountSteps, BoundsAssumption DEF Counts, BoundsAssumption

\* Every variable keeps its type.
THEOREM TypeCorrect == Spec => []TypeOK
<1>1. Init => Counts
  BY InitCounts DEF Counts
<1>2. IInv /\ Counts => TypeOK
  BY DEF IInv, FileTypes, Counts, TypeOK
<1> QED BY SpecIInv, <1>1, <1>2, NextCounts, PTL DEF Spec

\* SWI_OK means that both files have passed a check: the file repaired first is
\* not touched while the other one is repaired.
THEOREM OkIsHonest == Spec => []ResultHonest
<1>1. IInv => ResultHonest
  BY DEF IInv, DoneInv, ResultHonest
<1> QED BY SpecIInv, <1>1, PTL

\* SWI_OK without a failed command means that both backups can be used too.
THEOREM BackupsAreReady == Spec => []BackupReady
<1>1. IInv => BackupReady
  BY DEF IInv, BackupInv, BackupReady
<1> QED BY SpecIInv, <1>1, PTL

\* SWI_OK without a failed command leaves two copies of every item, the same.
THEOREM CopiesAreMade == Spec => CopiesMade
<1> DEFINE Copied == pc # "ok" /\ pc' = "ok" /\ ~fault' => bak' = main'
<1> USE DEF Items, Good, Contents, Running, Ended
<1>1. ASSUME IInv, Step PROVE Copied
  <2> SUFFICES ASSUME pc # "ok", pc' = "ok", ~fault'
               PROVE  bak' = main'
    OBVIOUS
  <2> USE DEF IInv, FileTypes, RepairInv, BackupInv
  <2>1. CASE CheckBoth
    BY <1>1, <2>1, CheckTwo
  <2>2. CASE CheckItem \/ Recheck
    BY <1>1, <2>2, CheckItemCases, RecheckCases DEF NextItem
  <2>3. CASE Save
    BY <1>1, <2>3 DEF Save, NextItem, NoFault, Fault
  <2>4. CASE Start \/ Restore \/ CopyBackup \/ Purge \/ Create
    BY <2>4 DEF Start, Restore, CopyBackup, Purge, Create, Goto
  <2> QED BY <1>1, <2>1, <2>2, <2>3, <2>4 DEF Step
<1>2. IInv /\ [Next]_vars => [Copied]_vars
  BY <1>1 DEF Next, SetLimits, GoesBad, SwitchOff, Crash
<1> QED BY SpecIInv, <1>2, PTL DEF Spec, CopiesMade

\* The last copy of an item's limits survives every step of the script and every
\* loss of power, in boots without a failed command.
THEOREM LimitsSurvive == Spec => LimitsKept
<1> DEFINE Kept == \A i \in Items : HasLimits(i) /\ ~fault' => HasLimits(i)'
<1> USE DEF HasLimits, Items, Good, Contents, Running, Ended
<1>1. ASSUME IInv, Step PROVE Kept
  <2> USE DEF IInv, FileTypes, RepairInv
  <2>1. CASE Start
    BY <1>1, <2>1 DEF Start, files
  <2>2. CASE CheckBoth
    BY <1>1, <2>2, CheckTwo DEF files
  <2>3. CASE CheckItem \/ Recheck
    <3>1. \/ /\ main[item] \in Good /\ UNCHANGED main
             /\ bak' = [i \in Items |-> IF i = item THEN main[i] ELSE bak[i]]
          \/ UNCHANGED files
      BY <1>1, <2>3, CheckItemCases, RecheckCases
    <3> QED BY <1>1, <3>1 DEF files
  <2>4. CASE Restore
    BY <1>1, <2>4 DEF Restore, NoFault
  <2>5. CASE CopyBackup
    BY <1>1, <2>5 DEF CopyBackup, NoFault, Fault
  <2>6. CASE Purge
    BY <1>1, <2>6 DEF Purge, RemoveItem, NoFault
  <2>7. CASE Create
    BY <1>1, <2>7 DEF Create, RemoveItem, NoFault, Fault
  <2>8. CASE Save
    BY <1>1, <2>8 DEF Save, NoFault, Fault
  <2> QED BY <1>1, <2>1, <2>2, <2>3, <2>4, <2>5, <2>6, <2>7, <2>8 DEF Step
<1>2. ASSUME IInv, Crash PROVE Kept
  <2> USE DEF IInv, FileTypes, RepairInv
  <2>1. CASE UNCHANGED files
    BY <1>2, <2>1 DEF files
  <2>2. CASE TornCheck(Items) \/ TornCheck({item})
    BY <1>2, <2>2 DEF TornCheck
  <2>3. CASE pc = "copy" /\ main' = [main EXCEPT ![item] = "bad"] /\ UNCHANGED bak
    BY <1>2, <2>3 DEF Crash
  <2>4. CASE pc = "save" /\ bak' = [bak EXCEPT ![item] = "bad"] /\ UNCHANGED main
    BY <1>2, <2>4
  <2> QED BY <1>2, <2>1, <2>2, <2>3, <2>4 DEF Crash, TornFiles
<1>3. IInv /\ [Next]_vars => [Step \/ Crash => Kept]_vars
  BY <1>1, <1>2 DEF Next
<1> QED BY SpecIInv, <1>3, PTL DEF Spec, LimitsKept
=============================================================================
