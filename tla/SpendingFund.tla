--------------------------- MODULE SpendingFund ---------------------------
(***************************************************************************)
(* What Budget Control promises of the money of a budget: submitting and   *)
(* approving reserve nothing, a commitment reserves what it needs out of   *)
(* what is free, and is settled for at most that or released, once.        *)
(***************************************************************************)
EXTENDS Integers

CONSTANT Purchases     \* what the money is spent on

VARIABLES free,        \* the money nobody has reserved
          state,       \* of each purchase
          held         \* what a held purchase has reserved

vars == <<free, state, held>>

Init ==
    /\ free \in Nat
    /\ state = [p \in Purchases |-> "open"]
    /\ held = [p \in Purchases |-> 0]

(* The allocation, an adjustment or a correction: never below zero. *)
Change ==
    /\ free' \in Nat
    /\ UNCHANGED <<state, held>>

Reserve(p) ==
    /\ state[p] = "open"
    /\ \E n \in 1 .. free :
          /\ free' = free - n
          /\ held' = [held EXCEPT ![p] = n]
    /\ state' = [state EXCEPT ![p] = "held"]

Spend(p) ==
    /\ state[p] = "held"
    /\ \E n \in 1 .. held[p] : free' = free + held[p] - n
    /\ state' = [state EXCEPT ![p] = "spent"]
    /\ held' = [held EXCEPT ![p] = 0]

Release(p) ==
    /\ state[p] = "held"
    /\ free' = free + held[p]
    /\ state' = [state EXCEPT ![p] = "released"]
    /\ held' = [held EXCEPT ![p] = 0]

Next == Change \/ \E p \in Purchases : Reserve(p) \/ Spend(p) \/ Release(p)

Spec == Init /\ [][Next]_vars
===========================================================================
