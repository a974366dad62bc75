-------------------------- MODULE AgentAuthority --------------------------
(***************************************************************************)
(* What stands between an agent and an action (agent/authority.py,          *)
(* agent/adapter.py, ops/separation.py): a grant an operator issues, a       *)
(* proposal that names it, the hold the Core makes of the proposal, and the  *)
(* rule that the operator who approves the hold is neither the one who       *)
(* granted nor the agent.  POST /agent/authority/grant, /agent/act and the   *)
(* approval routes run in threads; grants and holds are durable, who is      *)
(* behind a hold is remembered in memory.                                    *)
(*                                                                         *)
(* The Core is GovernedApproval's subject: here a proposal is denied, held,  *)
(* executed or raises, and an approval continues a hold once.  RMT_AGENT and *)
(* RMT_AUTH_SEPARATION are on.                                               *)
(***************************************************************************)
EXTENDS Naturals, FiniteSets

CONSTANTS
  Operators,     \* authenticated operators
  Agents,        \* agent ids; one may be an operator's name
  Scopes,        \* pairs of operation and target
  Grants,        \* grant ids
  Proposals,     \* threads of POST /agent/act; each makes one hold at most
  Approvals,     \* threads of the approval routes
  Outcomes,      \* what the Core may do with a proposal
  EarlyIds,      \* may an approver take an id from GET /ops/holds?
  RecordingFails, \* may record_hold_provenance swallow an exception?
  WritesFail,    \* may the write of a grant, or of what is learned, fail?
  MaxRestarts,   \* bound on restarts
  None

ASSUME NamesAssumption ==
  /\ None \notin Operators \cup Agents \cup Scopes \cup Grants \cup Proposals
  /\ Proposals \cap Approvals = {}
  /\ Outcomes \subseteq {"denied", "held", "executed", "raised"}
  /\ {EarlyIds, RecordingFails, WritesFail} \subseteq BOOLEAN
  /\ MaxRestarts \in Nat

VARIABLES
  grants,      \* AuthorityGrantStorage in memory
  disk,        \* and on disk
  holds,       \* the holds of proposals: pending or approved
  provenance,  \* _provenance: who is behind a hold
  pc,          \* where each thread is
  proposal,    \* what each proposal says
  answer,      \* what each proposal was answered
  approval,    \* the approver and the hold of each approval
  approver,    \* history: who approved a hold
  before,      \* history: the holds proposed in earlier process lives
  unrecorded,  \* history: the holds whose provenance was not recorded
  early,       \* history: the holds an approver was let through to too soon
  issued,      \* history: the grant ids that were drawn
  used,        \* history: the grants that consume() reported consumed
  restarts

grantVars == <<grants, disk, issued>>
holdVars == <<holds, provenance, approver, before, unrecorded, early>>
threadVars == <<pc, proposal, answer, approval>>
vars == <<grantVars, holdVars, threadVars, used, restarts>>
----------------------------------------------------------------------------
GrantRecords == [by : Operators, scope : Scopes, live : BOOLEAN, consumed : BOOLEAN]
ProposalRecords == [agent : Agents, grant : Grants \cup {None}, scope : Scopes]
ApprovalRecords == [by : Operators, hold : Proposals]
Origins == [by : Operators \cup {None}, agent : Agents]
Steps == {"idle", "checking", "governing", "consuming", "recording", "answering", "done"}
Answers == {"none", "no_authority", "error", "denied", "hold", "allow", "failed"}
ApprovalSteps == {"idle", "separating", "approving", "done"}
Accepted == {"held", "executed"}

ASSUME RecordsAssumption ==
  None \notin GrantRecords \cup ProposalRecords \cup ApprovalRecords \cup Origins

TypeOK ==
  /\ grants \in [Grants -> GrantRecords \cup {None}]
  /\ disk \in [Grants -> GrantRecords \cup {None}]
  /\ holds \in [Proposals -> {"none", "pending", "approved", "executed"}]
  /\ provenance \in [Proposals -> Origins \cup {None}]
  /\ pc \in [Proposals \cup Approvals -> Steps \cup ApprovalSteps]
  /\ proposal \in [Proposals -> ProposalRecords \cup {None}]
  /\ answer \in [Proposals -> Answers]
  /\ approval \in [Approvals -> ApprovalRecords \cup {None}]
  /\ approver \in [Proposals -> Operators \cup {None}]
  /\ before \subseteq Proposals
  /\ unrecorded \subseteq Proposals
  /\ early \subseteq Proposals
  /\ issued \subseteq Grants
  /\ used \subseteq Grants
  /\ restarts \in 0..MaxRestarts

Init ==
  /\ grants = [g \in Grants |-> None]
  /\ disk = [g \in Grants |-> None]
  /\ holds = [p \in Proposals |-> "none"]
  /\ provenance = [p \in Proposals |-> None]
  /\ pc = [t \in Proposals \cup Approvals |-> "idle"]
  /\ proposal = [p \in Proposals |-> None]
  /\ answer = [p \in Proposals |-> "none"]
  /\ approval = [a \in Approvals |-> None]
  /\ approver = [p \in Proposals |-> None]
  /\ before = {} /\ unrecorded = {} /\ early = {}
  /\ issued = {}
  /\ used = {}
  /\ restarts = 0

Goto(t, step) == pc' = [pc EXCEPT ![t] = step]
----------------------------------------------------------------------------
(* DurableStore: memory first, then the write, whose failure raises in the    *)
(* caller.  An update of a row that was never written changes nothing.        *)
Written == IF WritesFail THEN BOOLEAN ELSE {TRUE}

Grant(g, o, s) ==
  LET record == [by |-> o, scope |-> s, live |-> TRUE, consumed |-> FALSE] IN
  /\ g \notin issued
  /\ issued' = issued \cup {g}
  /\ grants' = [grants EXCEPT ![g] = record]
  /\ \E written \in Written : disk' = IF written THEN [disk EXCEPT ![g] = record] ELSE disk
  /\ UNCHANGED <<holdVars, threadVars, used, restarts>>

(* Mutant: the grant is marked in memory only. *)
MarkInMemory(g, written) ==
  /\ grants' = [grants EXCEPT ![g].consumed = TRUE]
  /\ UNCHANGED disk

MarkConsumed(g, written) ==
  /\ grants' = [grants EXCEPT ![g].consumed = TRUE]
  /\ disk' = IF written /\ disk[g] # None THEN [disk EXCEPT ![g].consumed = TRUE] ELSE disk

(* A grant past its expires_at, which memory and disk both have. *)
Lapsed(record) == IF record = None THEN None ELSE [record EXCEPT !.live = FALSE]

Expire(g) ==
  /\ grants[g] # None /\ grants[g].live
  /\ grants' = [grants EXCEPT ![g] = Lapsed(@)]
  /\ disk' = [disk EXCEPT ![g] = Lapsed(@)]
  /\ UNCHANGED issued
  /\ UNCHANGED <<holdVars, threadVars, used, restarts>>
----------------------------------------------------------------------------
(* propose_and_govern. *)

Submit(p) ==
  /\ pc[p] = "idle"
  /\ proposal[p] = None
  /\ \E r \in ProposalRecords : proposal' = [proposal EXCEPT ![p] = r]
  /\ Goto(p, "checking")
  /\ UNCHANGED <<grantVars, holdVars, answer, approval, used, restarts>>

(* AuthorityStore.check. *)
Authorized(r) ==
  /\ r.grant # None
  /\ grants[r.grant] # None
  /\ ~grants[r.grant].consumed
  /\ grants[r.grant].live
  /\ grants[r.grant].scope = r.scope

(* Mutant: consumed before the proposal is accepted. *)
CheckConsumes(p) ==
  /\ pc[p] = "checking"
  /\ IF Authorized(proposal[p])
       THEN /\ MarkConsumed(proposal[p].grant, TRUE)
            /\ Goto(p, "governing")
            /\ UNCHANGED answer
       ELSE /\ Goto(p, "done")
            /\ answer' = [answer EXCEPT ![p] = "no_authority"]
            /\ UNCHANGED <<grants, disk>>
  /\ UNCHANGED <<issued, holdVars, proposal, approval, used, restarts>>

Check(p) ==
  /\ pc[p] = "checking"
  /\ IF Authorized(proposal[p])
       THEN Goto(p, "governing") /\ UNCHANGED answer
       ELSE Goto(p, "done") /\ answer' = [answer EXCEPT ![p] = "no_authority"]
  /\ UNCHANGED <<grantVars, holdVars, proposal, approval, used, restarts>>

(* execute_governed_action.  When it raises, its hold may have been saved,   *)
(* or the action executed.                                                   *)
Govern(p) ==
  /\ pc[p] = "governing"
  /\ \E outcome \in Outcomes :
       \/ /\ outcome = "denied"
          /\ answer' = [answer EXCEPT ![p] = "denied"]
          /\ Goto(p, "done")
          /\ UNCHANGED holds
       \/ /\ outcome = "raised"
          /\ answer' = [answer EXCEPT ![p] = "error"]
          /\ Goto(p, "done")
          /\ \/ UNCHANGED holds
             \/ \E made \in {"pending", "executed"} : holds' = [holds EXCEPT ![p] = made]
       \/ /\ outcome \in Accepted
          /\ holds' = [holds EXCEPT ![p] = IF outcome = "held" THEN "pending" ELSE "executed"]
          /\ Goto(p, "consuming")
          /\ UNCHANGED answer
  /\ UNCHANGED <<grantVars, provenance, approver, before, unrecorded, early, proposal, approval,
                 used, restarts>>

(* AuthorityStore.consume: a grant that is consumed already is no failure.   *)
Consume(p) ==
  LET g == proposal[p].grant
      after == IF holds[p] = "executed" THEN "answering" ELSE "recording"
  IN
  /\ pc[p] = "consuming"
  /\ \/ /\ grants[g].consumed
        /\ Goto(p, after)
        /\ UNCHANGED <<grants, disk, used, answer>>
     \/ /\ ~grants[g].consumed
        /\ MarkConsumed(g, TRUE)
        /\ used' = used \cup {g}
        /\ Goto(p, after)
        /\ UNCHANGED answer
     \/ /\ ~grants[g].consumed /\ WritesFail
        /\ MarkConsumed(g, FALSE)
        /\ Goto(p, "done")
        /\ answer' = [answer EXCEPT ![p] = "failed"]
        /\ UNCHANGED used
  /\ UNCHANGED <<issued, holdVars, proposal, approval, restarts>>

(* record_hold_provenance: in memory, and of the grant as it now reads.  It *)
(* is fail-open: an exception, as when another thread changes the entries    *)
(* that _prune goes through, is swallowed and nothing is recorded.           *)
OriginOf(p) == [by |-> grants[proposal[p].grant].by, agent |-> proposal[p].agent]

Record(p) ==
  /\ pc[p] = "recording"
  /\ \/ /\ provenance' = [provenance EXCEPT ![p] = OriginOf(p)]
        /\ UNCHANGED unrecorded
     \/ /\ RecordingFails
        /\ unrecorded' = unrecorded \cup {p}
        /\ UNCHANGED provenance
  /\ Goto(p, "answering")
  /\ UNCHANGED <<grantVars, holds, approver, before, early, proposal, answer, approval, used,
                 restarts>>

(* record_learning first; what it raises is the answer. *)
Answer(p) ==
  /\ pc[p] = "answering"
  /\ \E written \in Written :
       answer' = [answer EXCEPT ![p] = IF ~written THEN "failed"
                                       ELSE IF holds[p] = "executed" THEN "allow" ELSE "hold"]
  /\ Goto(p, "done")
  /\ UNCHANGED <<grantVars, holdVars, proposal, approval, used, restarts>>

Propose(p) == Submit(p) \/ Check(p) \/ Govern(p) \/ Consume(p) \/ Record(p) \/ Answer(p)
----------------------------------------------------------------------------
(* The approval routes. *)

Known(p) == answer[p] = "hold" \/ (EarlyIds /\ holds[p] \in {"pending", "approved"})

Approach(a) ==
  /\ pc[a] = "idle"
  /\ \E o \in Operators, p \in {q \in Proposals : Known(q)} :
       approval' = [approval EXCEPT ![a] = [by |-> o, hold |-> p]]
  /\ Goto(a, "separating")
  /\ UNCHANGED <<grantVars, holdVars, proposal, answer, used, restarts>>

(* Mutant: only the operator who granted is kept apart. *)
SeparateFromGrantor(o, p) == provenance[p] # None => o # provenance[p].by

(* check_separation: a hold without provenance is no agent's. *)
Separate(o, p) ==
  provenance[p] # None => o # provenance[p].by /\ o # provenance[p].agent

(* A hold's proposal has passed its recording when it is answered with the   *)
(* hold, or about to be.                                                     *)
PassedRecording(p) ==
  (pc[p] = "answering" /\ holds[p] # "executed") \/ answer[p] = "hold"

CheckSeparation(a) ==
  LET p == approval[a].hold IN
  /\ pc[a] = "separating"
  /\ IF Separate(approval[a].by, p)
       THEN /\ Goto(a, "approving")
            /\ early' = IF PassedRecording(p) THEN early ELSE early \cup {p}
       ELSE Goto(a, "done") /\ UNCHANGED early
  /\ UNCHANGED <<grantVars, holds, provenance, approver, before, unrecorded, proposal, answer,
                 approval, used, restarts>>

(* The Core continues a pending hold, under the continuation lock. *)
Approve(a) ==
  /\ pc[a] = "approving"
  /\ IF holds[approval[a].hold] = "pending"
       THEN /\ holds' = [holds EXCEPT ![approval[a].hold] = "approved"]
            /\ approver' = [approver EXCEPT ![approval[a].hold] = approval[a].by]
       ELSE UNCHANGED <<holds, approver>>
  /\ Goto(a, "done")
  /\ UNCHANGED <<grantVars, provenance, before, unrecorded, early, proposal, answer, approval,
                 used, restarts>>

Continue(a) == Approach(a) \/ CheckSeparation(a) \/ Approve(a)
----------------------------------------------------------------------------
(* The threads die, memory is read back from disk, and provenance is gone.   *)
(* A hold whose save raised was in memory only.                              *)
Restart ==
  /\ restarts < MaxRestarts
  /\ restarts' = restarts + 1
  /\ grants' = disk
  /\ provenance' = [p \in Proposals |-> None]
  /\ before' = before \cup {p \in Proposals : holds[p] # "none"}
  /\ pc' = [t \in Proposals \cup Approvals |-> IF pc[t] = "idle" THEN "idle" ELSE "done"]
  /\ \E lost \in SUBSET {p \in Proposals : answer[p] = "error" /\ holds[p] # "executed"} :
       holds' = [p \in Proposals |-> IF p \in lost THEN "none" ELSE holds[p]]
  /\ UNCHANGED <<disk, issued, approver, unrecorded, early, proposal, answer, approval, used>>

Next ==
  \/ \E g \in Grants, o \in Operators, s \in Scopes : Grant(g, o, s)
  \/ \E g \in Grants : Expire(g)
  \/ \E p \in Proposals : Propose(p)
  \/ \E a \in Approvals : Continue(a)
  \/ Restart

Spec == Init /\ [][Next]_vars
----------------------------------------------------------------------------
(* A grant that was consumed authorizes no later proposal, also after a       *)
(* restart: "single-use", for proposals that come one after the other.        *)
UsedIsSpent ==
  [][\A p \in Proposals :
       pc[p] = "checking" /\ pc'[p] = "governing" => proposal[p].grant \notin used]_vars

(* A proposal that is denied, or that raises, leaves its grant intact: behind *)
(* every consumed grant is a hold or an execution of a proposal that named it. *)
ConsumedIsAccepted ==
  \A g \in Grants : grants[g] # None /\ grants[g].consumed =>
    \E p \in Proposals : proposal[p] # None /\ proposal[p].grant = g /\ holds[p] # "none"

GrantorOf(p) == IF grants[proposal[p].grant] = None THEN None ELSE grants[proposal[p].grant].by
Separated(p) ==
  approver[p] # None => approver[p] # GrantorOf(p) /\ approver[p] # proposal[p].agent

Unguarded == before \cup unrecorded \cup early

(* In the process life an agent's hold is proposed in, it is approved neither *)
(* by the operator who granted nor by the agent, also by an approver who has  *)
(* its id early, unless recording its provenance failed or an approver was    *)
(* let through before the proposal had come to record it.                     *)
SeparatedThisLife == \A p \in Proposals \ Unguarded : Separated(p)

(* What ops/separation.py says of a restart: the hold of an agent is never    *)
(* approved by the operator who granted or by the agent, since "a held agent  *)
(* proposal that outlives a process restart cannot be continued anyway".      *)
SeparatedForEver == \A p \in Proposals : Separated(p)
============================================================================
