------------------------------ MODULE EtcMount ------------------------------
(***************************************************************************)
(* What mount_unionfs_start promises about /etc to what comes after it in   *)
(* one boot, first of all the timezone functions: one outcome, that stays    *)
(* until the overlays are unmounted, and a flag that is believed.  The flag  *)
(* says that /etc is writable, and errs only after the overlay of another    *)
(* directory has failed.                                                    *)
(***************************************************************************)
VARIABLES
    flash,      \* there is a place for the upper layers, /mnt/flash
    settled,    \* mount_unionfs_start is done with the overlays
    writable,   \* /etc has its overlay
    flag,       \* etc_is_writable_g
    faulty      \* an overlay other than that of /etc could not be made

vars == <<flash, settled, writable, flag, faulty>>

Init == ~flash /\ ~settled /\ ~writable /\ ~flag /\ ~faulty

\* /mnt/flash is mounted, at most once in a boot.
Begin ==
    /\ ~flash /\ ~settled
    /\ flash' = TRUE
    /\ UNCHANGED <<settled, writable, flag, faulty>>

Settle ==
    /\ ~settled
    /\ settled' = TRUE
    /\ \/ flash /\ writable' = TRUE /\ flag' = TRUE /\ faulty' = FALSE
       \/ writable' = FALSE /\ flag' = FALSE /\ (faulty' => flash)
       \/ flash /\ writable' = FALSE /\ flag' = TRUE /\ faulty' = TRUE
    /\ UNCHANGED flash

\* mount_unionfs_stop
Stop ==
    /\ settled
    /\ writable' = FALSE
    /\ UNCHANGED <<flash, settled, flag, faulty>>

PowerOff == Init'

Next == Begin \/ Settle \/ Stop \/ PowerOff

Spec == Init /\ [][Next]_vars
=============================================================================
