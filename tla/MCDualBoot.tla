----------------------------- MODULE MCDualBoot -----------------------------
(***************************************************************************)
(* Instances of DualBoot for TLC.                                          *)
(***************************************************************************)
EXTENDS DualBoot, FiniteSets

(* Flash contents with at most two of the six partitions in trouble: every *)
(* pair of failures, be it in the same half or across the halves.          *)
MCImages ==
    {i \in AllImages :
        Cardinality({v \in Names \X Halves : i[v[1]][v[2]] # "good"}) <= 2}

(* At most one of the peculiarities at a time.                             *)
MCPlain ==
    {p \in AllPlatforms :
        Cardinality({f \in {"wait", "fixed", "ima", "slow"} : p[f]}) <= 1}

=============================================================================
