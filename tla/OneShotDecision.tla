-------------------------- MODULE OneShotDecision --------------------------
(***************************************************************************)
(* What governed approval promises, with no process, lock, store or crash: *)
(* every proposed action gets one decision, a decision once taken is never *)
(* taken back, and only an approved action is run -- by one run, once.     *)
(* GovernedApproval is shown to implement this module.                     *)
(***************************************************************************)

CONSTANTS
    Actions,   \* the governed actions
    Runs       \* the identities a run of an action can have

VARIABLES
    decision,  \* decision[a]: what has been decided about a
    runs       \* runs[a]: the runs of a that reached the adapter

vars == <<decision, runs>>

Decisions == {"none", "pending", "approved", "rejected"}

TypeOK ==
    /\ decision \in [Actions -> Decisions]
    /\ runs \in [Actions -> SUBSET Runs]

Init ==
    /\ decision = [a \in Actions |-> "none"]
    /\ runs = [a \in Actions |-> {}]

(* The policy decides at once, or leaves the decision to a human. *)
Propose(a) ==
    /\ decision[a] = "none"
    /\ \E d \in {"pending", "approved", "rejected"} :
          decision' = [decision EXCEPT ![a] = d]
    /\ UNCHANGED runs

(* A human decides a pending action. *)
Decide(a) ==
    /\ decision[a] = "pending"
    /\ \E d \in {"approved", "rejected"} :
          decision' = [decision EXCEPT ![a] = d]
    /\ UNCHANGED runs

(* An approved action that has not run reaches the adapter. *)
Run(a) ==
    /\ decision[a] = "approved"
    /\ runs[a] = {}
    /\ \E r \in Runs : runs' = [runs EXCEPT ![a] = {r}]
    /\ UNCHANGED decision

Next == \E a \in Actions : Propose(a) \/ Decide(a) \/ Run(a)

Spec == Init /\ [][Next]_vars
=============================================================================
