----------------------------- MODULE DataStore -----------------------------
(***************************************************************************)
(* What a writable partition promises the programs that use its mount      *)
(* point (/mnt/flash, /mnt/userrw): it is up or down; it may come up       *)
(* empty, and it may be wiped while it is down, but while it is up its     *)
(* files change only when the programs write them.                         *)
(***************************************************************************)
VARIABLES
    up,     \* the file system is mounted
    data    \* it holds files of the user ("user") or none ("none")

vars == <<up, data>>

Init == up = FALSE /\ data \in {"user", "none"}

Open == ~up /\ up' = TRUE /\ data' \in {data, "none"}

Wipe == ~up /\ up' = FALSE /\ data' = "none"

Write == up /\ data' = "user" /\ UNCHANGED up

Close == up /\ up' = FALSE /\ UNCHANGED data

Next == Open \/ Wipe \/ Write \/ Close

Spec == Init /\ [][Next]_vars
=============================================================================
