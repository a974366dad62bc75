-------------------------- MODULE MCBudgetLedger --------------------------
EXTENDS BudgetLedger, TLC

(* Neither the calls, the requests nor the keys are told apart. *)
Symmetry == Permutations(Calls) \cup Permutations(Requests) \cup Permutations(Keys)

(* A negative number, which a .cfg cannot write. *)
UpAndDown == {-1, 1}
===========================================================================
