----------------------------- MODULE QuotaCheck -----------------------------
(***************************************************************************)
(* quotacheck_ug of mount_early.in: at every boot, check the user and the   *)
(* group quota file of the file system that was just mounted, and repair    *)
(* them from their backups or from nothing.                                 *)
(*                                                                          *)
(* A quota file also holds the limits an administrator has set, which no    *)
(* scan of the file system can recover: a file made anew has none.  The     *)
(* power may go at any point, and what was half written then is bad.        *)
(*                                                                          *)
(* quotacheck itself is external: it accepts a file unless it is bad or     *)
(* missing, and, as it is called with -b, keeps the file it replaces as the  *)
(* backup.  Without the program (quota_check is /bin/true) nothing is done. *)
(***************************************************************************)
EXTENDS Naturals

CONSTANTS
    MaxFaults,      \* bound: commands that fail for a passing reason
    MaxBad,         \* bound: files that go bad by themselves
    MaxCrashes      \* bound: losses of power during the check

ASSUME BoundsAssumption ==
    MaxFaults \in Nat /\ MaxBad \in Nat /\ MaxCrashes \in Nat

Items == {"user", "group"}
Good == {"fresh", "limits"}
Contents == Good \cup {"none", "bad"}

VARIABLES
    main, bak,      \* aquota.user and aquota.group, and their backups
    pc, item,       \* where quotacheck_ug is, the item of its loop
    fault,          \* a command failed for a passing reason in this boot
    faults, bads, crashes

files == <<main, bak>>
counts == <<bads, crashes>>
vars == <<files, pc, item, fault, faults, counts>>

Running == {"both", "check", "restore", "copy", "recheck", "purge", "create", "save"}
Ended == {"ok", "err"}

TypeOK ==
    /\ main \in [Items -> Contents] /\ bak \in [Items -> Contents]
    /\ pc \in Running \cup Ended \cup {"off", "asking"}
    /\ item \in Items
    /\ fault \in BOOLEAN
    /\ faults \in 0..MaxFaults /\ bads \in 0..MaxBad /\ crashes \in 0..MaxCrashes

Init ==
    /\ main = [i \in Items |-> "none"] /\ bak = [i \in Items |-> "none"]
    /\ pc = "off" /\ item = "user"
    /\ fault = FALSE /\ faults = 0 /\ bads = 0 /\ crashes = 0

Fault == faults < MaxFaults /\ faults' = faults + 1 /\ fault' = TRUE
NoFault == UNCHANGED <<faults, fault>>

Goto(label) == pc' = label /\ UNCHANGED <<item, counts>>

(***************************************************************************)
(* quotacheck                                                               *)
(***************************************************************************)

Accepts(is) == \A i \in is : main[i] \in Good

\* The files that were checked are written again, the old ones are the backups.
Rewrite(is) ==
    /\ bak' = [i \in Items |-> IF i \in is THEN main[i] ELSE bak[i]]
    /\ UNCHANGED main

\* quotacheck -b on these files, and where the script goes with its result.
\* With nobody answering, it may stop at a bad file and ask.
Check(is, answered, yes, no) ==
    \/ /\ Accepts(is) /\ Rewrite(is)
       /\ NoFault /\ yes
    \/ /\ ~Accepts(is) /\ NoFault /\ no
       /\ UNCHANGED files
    \/ /\ Accepts(is) /\ Fault /\ no
       /\ UNCHANGED files
    \/ /\ ~answered /\ \E i \in is : main[i] = "bad"
       /\ NoFault /\ Goto("asking")
       /\ UNCHANGED files

(***************************************************************************)
(* quotacheck_ug                                                            *)
(***************************************************************************)

Start ==
    /\ pc = "off" /\ fault' = FALSE
    /\ pc' = "both" /\ UNCHANGED <<files, item, faults, counts>>

\* yes | quotacheck -ugmb
CheckBoth ==
    /\ pc = "both"
    /\ Check(Items, TRUE, Goto("ok"),
             pc' = "check" /\ item' = "user" /\ UNCHANGED counts)

\* The next item of the loop, or its end.
NextItem ==
    /\ IF item = "user" THEN pc' = "check" /\ item' = "group"
                        ELSE pc' = "ok" /\ item' = item
    /\ UNCHANGED counts

\* A plausible bug: the backup is not tried.
CheckItemPurges == pc = "check" /\ Check({item}, FALSE, NextItem, Goto("purge"))

\* A plausible bug: the check of one file is called without -b.
CheckItemNoBackup ==
    /\ pc = "check" /\ NoFault /\ UNCHANGED files
    /\ \/ Accepts({item}) /\ NextItem
       \/ ~Accepts({item}) /\ Goto(IF bak[item] # "none" THEN "restore" ELSE "purge")

\* quotacheck of one item; is there a backup file that is not empty?
CheckItem ==
    /\ pc = "check"
    /\ Check({item}, FALSE, NextItem,
             Goto(IF bak[item] # "none" THEN "restore" ELSE "purge"))

\* rm -f of the file, then cp of the backup.
Restore ==
    /\ pc = "restore"
    /\ main' = [main EXCEPT ![item] = "none"]
    /\ NoFault /\ Goto("copy") /\ UNCHANGED bak

CopyBackup ==
    /\ pc = "copy" /\ Goto("recheck") /\ UNCHANGED bak
    /\ \/ main' = [main EXCEPT ![item] = bak[item]] /\ NoFault
       \/ main' = [main EXCEPT ![item] = "bad"] /\ Fault

\* A plausible bug: a restored backup is taken for good without a check.
RecheckSkipped == pc = "recheck" /\ NextItem /\ NoFault /\ UNCHANGED files

Recheck ==
    /\ pc = "recheck"
    /\ Check({item}, FALSE, NextItem, Goto("purge"))

\* rm -f aquota.item*
RemoveItem ==
    /\ main' = [main EXCEPT ![item] = "none"]
    /\ bak' = [bak EXCEPT ![item] = "none"]

Purge == pc = "purge" /\ RemoveItem /\ NoFault /\ Goto("create")

\* quotacheck -c makes the file from a scan; giving up removes what is left.
Create ==
    /\ pc = "create"
    /\ \/ /\ main' = [main EXCEPT ![item] = "fresh"] /\ UNCHANGED bak
          /\ NoFault /\ Goto("save")
       \/ RemoveItem /\ Fault /\ Goto("err")

\* A plausible bug: a new file gets no backup.
SaveNothing == pc = "save" /\ NextItem /\ NoFault /\ UNCHANGED files

\* cp of the new file to the backup; its result is not looked at.
Save ==
    /\ pc = "save" /\ NextItem /\ UNCHANGED main
    /\ \/ bak' = [bak EXCEPT ![item] = main[item]] /\ NoFault
       \/ bak' = [bak EXCEPT ![item] = "bad"] /\ Fault

Step ==
    \/ Start \/ CheckBoth \/ CheckItem \/ Restore \/ CopyBackup \/ Recheck
    \/ Purge \/ Create \/ Save

(***************************************************************************)
(* The rest of the module                                                   *)
(***************************************************************************)

\* After the check the administrator may set limits, and files may go bad;
\* the module is switched off some time.
SetLimits ==
    /\ pc = "ok"
    /\ \E i \in Items : main[i] \in Good /\ main' = [main EXCEPT ![i] = "limits"]
    /\ UNCHANGED <<bak, pc, item, fault, faults, counts>>

GoesBad ==
    /\ pc = "off" /\ bads < MaxBad /\ bads' = bads + 1
    /\ \E i \in Items :
          \/ main[i] # "none" /\ main' = [main EXCEPT ![i] = "bad"] /\ UNCHANGED bak
          \/ bak[i] # "none" /\ bak' = [bak EXCEPT ![i] = "bad"] /\ UNCHANGED main
    /\ UNCHANGED <<pc, item, fault, faults, crashes>>

SwitchOff ==
    /\ pc \in Ended /\ pc' = "off" /\ item' = "user"
    /\ UNCHANGED <<files, fault, faults, counts>>

\* quotacheck renames the old file to the backup, then the new file to it.
TornCheck(is) ==
    \E i \in is : /\ main[i] \in Good
                  /\ bak' = [bak EXCEPT ![i] = main[i]]
                  /\ main' = [main EXCEPT ![i] = "none"]

TornFiles ==
    \/ UNCHANGED files
    \/ pc = "both" /\ TornCheck(Items)
    \/ pc \in {"check", "recheck"} /\ TornCheck({item})
    \/ pc = "copy" /\ main' = [main EXCEPT ![item] = "bad"] /\ UNCHANGED bak
    \/ pc = "save" /\ bak' = [bak EXCEPT ![item] = "bad"] /\ UNCHANGED main

Crash ==
    /\ pc \in Running \cup {"asking"} /\ crashes < MaxCrashes
    /\ crashes' = crashes + 1
    /\ TornFiles
    /\ pc' = "off" /\ item' = "user"
    /\ UNCHANGED <<fault, faults, bads>>

Next == Step \/ SetLimits \/ GoesBad \/ SwitchOff \/ Crash

Spec == Init /\ [][Next]_vars

(***************************************************************************)
(* Properties                                                               *)
(***************************************************************************)

\* When quotacheck_ug returns SWI_OK, both quota files have passed a check and
\* nothing has touched them since, whatever was repaired on the way and wherever
\* earlier boots were cut off (SetLimits keeps them good).
ResultHonest == pc = "ok" => \A i \in Items : main[i] \in Good

\* SWI_OK without a failed command also means that both backups are good ("Make
\* sure that backup file always exists", "Make sure corrupt backup file is not
\* used"): the next boot can lose any one of the files.
BackupReady == pc = "ok" /\ ~fault => \A i \in Items : bak[i] \in Good

\* A boot that comes to SWI_OK without a failed command leaves each backup a copy
\* of its file, whether it was accepted, restored or made anew, and whatever was
\* done for the other item meanwhile: limits that were set before are then there
\* twice, and the loss of either file before the next boot does not lose them.
CopiesMade ==
    [][pc # "ok" /\ pc' = "ok" /\ ~fault' => bak' = main']_vars

HasLimits(i) == main[i] = "limits" \/ bak[i] = "limits"

\* No step of the script, and no loss of power during one, destroys the last copy
\* of the limits of an item: the file is removed only while its backup is good or
\* neither can be used.  This is so in boots without a failed command.
LimitsKept ==
    [][Step \/ Crash => \A i \in Items : HasLimits(i) /\ ~fault' => HasLimits(i)']_vars
=============================================================================
