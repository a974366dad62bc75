------------------------ MODULE MCGovernedApproval ------------------------
(* Finite instances of GovernedApproval for TLC. *)
EXTENDS GovernedApproval, TLC

(* Actions and requests are told apart only by equality, so both are        *)
(* symmetric; an instance with one action permutes its requests.            *)
RequestSymmetry == Permutations(Requests)
Symmetry == Permutations(Actions) \cup RequestSymmetry
=============================================================================
