------------------------- MODULE MCAgentAuthority -------------------------
EXTENDS AgentAuthority, TLC

(* Operators are not in it: one of them is also an agent's id. *)
Symmetry ==
  Permutations(Grants) \cup Permutations(Scopes) \cup Permutations(Proposals)
    \cup Permutations(Approvals)
==========================================================================
