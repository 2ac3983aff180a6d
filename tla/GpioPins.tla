------------------------------ MODULE GpioPins ------------------------------
(***************************************************************************)
(* What the callers of gpioexp count on: every pin of the three expanders   *)
(* has settings of its own, and a run of the program changes the settings   *)
(* of the one pin it was started for, one setting at a time.  The detailed  *)
(* module is GpioExpander.                                                  *)
(***************************************************************************)

CONSTANTS
    Tools,      \* running copies of gpioexp
    Pins,       \* all pins of all expanders
    Regs,       \* the settings of a pin
    None        \* no pin

VARIABLES
    on,         \* on[r] is the set of pins whose setting r is 1
    at          \* at[t] is the pin the tool t works on

vars == <<on, at>>

\* The settings are what the board and earlier runs have left.
Init == on \in [Regs -> SUBSET Pins] /\ at = [t \in Tools |-> None]

Take(t) ==
    /\ at[t] = None
    /\ \E p \in Pins : at' = [at EXCEPT ![t] = p]
    /\ UNCHANGED on

Set(t) ==
    /\ at[t] \in Pins
    /\ \E r \in Regs :
          \/ on' = [on EXCEPT ![r] = @ \cup {at[t]}]
          \/ on' = [on EXCEPT ![r] = @ \ {at[t]}]
    /\ UNCHANGED at

Leave(t) == at' = [at EXCEPT ![t] = None] /\ UNCHANGED on

Next == \E t \in Tools : Take(t) \/ Set(t) \/ Leave(t)

Spec == Init /\ [][Next]_vars
=============================================================================
