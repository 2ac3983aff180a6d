------------------------------ MODULE LinkMon -------------------------------
(***************************************************************************)
(* linkmon holds a wake lock while the USB link is up.  Beside it: a cable  *)
(* that comes and goes, a driver that signals each change, and a system     *)
(* that suspends at any moment when neither the lock nor a wakeup source    *)
(* keeps it awake.                                                          *)
(***************************************************************************)
EXTENDS Naturals

CONSTANT MaxChanges     \* bound: changes of the link

ASSUME ChangesAssumption == MaxChanges \in Nat

VARIABLES
    pc,         \* where the program is
    status,     \* link_status
    locked,     \* the wake lock; it outlives the program
    link,       \* the USB link is up
    ready,      \* the driver has a change that was not read
    source,     \* the wakeup source of the epoll entry is active
    awake,      \* the system runs
    changes

linkVars == <<pc, status, locked, link, ready, source, awake, changes>>

LinkTypeOK ==
    /\ pc \in {"start", "open", "read", "lock", "wait", "blocked", "gone"}
    /\ status \in BOOLEAN /\ locked \in BOOLEAN /\ link \in BOOLEAN
    /\ ready \in BOOLEAN /\ source \in BOOLEAN /\ awake \in BOOLEAN
    /\ changes \in 0..MaxChanges

LinkInit ==
    /\ pc = "start" /\ status = FALSE /\ locked = FALSE
    /\ link \in BOOLEAN /\ ready = FALSE /\ source = FALSE
    /\ awake = TRUE /\ changes = 0

\* A plausible bug: the entry is added without EPOLLWAKEUP.
EventsPlain == {"EPOLLIN"}

\* ev.events.
Events == {"EPOLLWAKEUP", "EPOLLIN"}

Registered == pc \in {"read", "lock", "wait", "blocked"}

(***************************************************************************)
(* The program                                                              *)
(***************************************************************************)

\* wake_lock_unlock: one of two files of the kernel is written.
LockUnlock(up) == locked' = up

\* The wake lock comes first.
Start ==
    /\ pc = "start" /\ awake
    /\ pc' = "open" /\ LockUnlock(TRUE)
    /\ UNCHANGED <<status, link, ready, source, awake, changes>>

\* A plausible bug: the loop waits first.
FirstWaits == "wait"

\* The loop begins with a read.
First == "read"

\* open, epoll_create, epoll_ctl.  What the driver has to report is noticed
\* when the entry is added.
Open ==
    /\ pc = "open" /\ awake
    /\ pc' = First /\ source' = (ready /\ "EPOLLWAKEUP" \in Events)
    /\ UNCHANGED <<status, locked, link, ready, awake, changes>>

Read ==
    /\ pc = "read" /\ awake
    /\ pc' = "lock" /\ status' = link /\ ready' = FALSE
    /\ UNCHANGED <<locked, link, source, awake, changes>>

Lock ==
    /\ pc = "lock" /\ awake
    /\ pc' = "wait" /\ LockUnlock(status)
    /\ UNCHANGED <<status, link, ready, source, awake, changes>>

\* epoll_wait looks for a change; when there is none it lets go of the wakeup
\* source and blocks.  EINTR comes back here.
Wait ==
    /\ pc \in {"wait", "blocked"} /\ awake
    /\ \/ ready /\ pc' = "read" /\ UNCHANGED source
       \/ ~ready /\ pc' = "blocked" /\ source' = FALSE
    /\ UNCHANGED <<status, locked, link, ready, awake, changes>>

\* A call fails, and the program leaves.  It gives nothing back but its files.
Leave ==
    /\ pc # "gone" /\ awake
    /\ pc' = "gone" /\ source' = FALSE
    /\ UNCHANGED <<status, locked, link, ready, awake, changes>>

(***************************************************************************)
(* The cable and the system                                                 *)
(***************************************************************************)

\* The driver signals; with EPOLLWAKEUP that keeps, or makes, the system awake.
Change ==
    /\ changes < MaxChanges /\ changes' = changes + 1
    /\ link' = ~link /\ ready' = TRUE
    /\ source' = (source \/ (Registered /\ "EPOLLWAKEUP" \in Events))
    /\ awake' = (awake \/ source')
    /\ UNCHANGED <<pc, status, locked>>

Suspend ==
    /\ awake /\ ~locked /\ ~source
    /\ awake' = FALSE
    /\ UNCHANGED <<pc, status, locked, link, ready, source, changes>>

\* The system wakes up for another reason.
Resume ==
    /\ ~awake /\ awake' = TRUE
    /\ UNCHANGED <<pc, status, locked, link, ready, source, changes>>

Step == Start \/ Open \/ Read \/ Lock \/ Wait

LinkNext == Step \/ Leave \/ Change \/ Suspend \/ Resume

LinkSpec == LinkInit /\ [][LinkNext]_linkVars

\* The program is scheduled while the system runs, and its calls need not fail.
\* The system need not suspend, and nothing else need wake it up.
LinkFairSpec == LinkSpec /\ WF_linkVars(Step)

(***************************************************************************)
(* Properties                                                               *)
(***************************************************************************)

\* Once the lock is taken and until the program leaves, the system does not
\* sleep while the link is up, however the cable's changes fall between the
\* read, the writing of the lock and the wait.
NoSleepWhileUp == ~awake /\ pc \notin {"start", "gone"} => ~link

\* The lock follows the last change of the link, so that the system can sleep
\* again, or the program has left; no change is lost between the read and the
\* wait.  A system that sleeps has the lock of a link that is down.
LockFollows == link # locked ~> (link = locked \/ pc = "gone" \/ ~awake)
=============================================================================
