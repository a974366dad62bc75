------------------------- MODULE GovernedApproval -------------------------
(***************************************************************************)
(* The governed lifecycle of the Core: execute_governed_action proposes an *)
(* action, the approval policy rejects it, approves it or holds it for a   *)
(* human, approve_held_action resolves a hold, and the execution engine    *)
(* takes an authorized action to its adapter and leaves the evidence.      *)
(*                                                                         *)
(* Every route is a sync FastAPI handler, so each request is a thread of   *)
(* the one server process and a step below is what a thread does between   *)
(* two writes to a store.  A thread serves one request and is named by it: *)
(* an action names the thread that proposes it, a member of Requests is a  *)
(* call of /approve or /homelab/approve.  approval_id, authorization_id    *)
(* and execution_id are fresh uuids, so a hold is named by its action and  *)
(* an authorization and an execution by the thread they belong to.         *)
(*                                                                         *)
(* The stores keep a list in memory in front of SQLite.  Hold and record   *)
(* have both copies here because they can differ; the append-only stores   *)
(* (authorizations, audit, trace, verification) are read back only by the  *)
(* thread that wrote them, so one durable copy stands for them.            *)
(***************************************************************************)
EXTENDS Naturals

CONSTANTS
    Actions,           \* the governed actions, each proposed once
    Requests,          \* the calls of the two approval routes
    Nobody,            \* no thread, or no action
    Versions,          \* versions of the registered policy/risk evaluators
    EarlyIds,          \* may an approver take an id from GET /ops/holds?
    ReconcileMayFail,  \* may a store write fail during the startup reconcile?
    HoldTTL,           \* APPROVAL_HOLD_TTL_SECONDS, in clock ticks
    AuthTTL,           \* AUTHORIZATION_TTL_SECONDS, in clock ticks
    MaxTime,           \* bound: the last tick of the clock
    MaxCrashes,        \* bound: how many times the process dies
    MaxFaults          \* bound: how many store writes raise

ASSUME NamesAssumption ==
    /\ Actions \cap Requests = {}
    /\ Nobody \notin Actions \cup Requests

ASSUME BoundsAssumption ==
    /\ EarlyIds \in BOOLEAN /\ ReconcileMayFail \in BOOLEAN
    /\ HoldTTL \in Nat /\ AuthTTL \in Nat /\ MaxTime \in Nat
    /\ MaxCrashes \in Nat /\ MaxFaults \in Nat

Threads == Actions \cup Requests

VARIABLES
    \* the approval hold and record stores: in memory, and in SQLite
    holdMem, holdDisk, recMem, recDisk,
    plan,              \* what a proposal fixes: adapter, evaluators, hold expiry
    \* the append-only stores, by the thread that wrote them
    authorized, evidence,
    invoked,           \* the threads whose execution reached the adapter
    \* the process
    phase, lock, docker, version, flagged, crashes, faults, now,
    \* the threads
    pc, work, verdict, epoch, until, result, answer

stores  == <<holdMem, holdDisk, recMem, recDisk>>
process == <<phase, docker, version, flagged, crashes>>
locals  == <<work, verdict, epoch>>
vars == <<stores, plan, authorized, evidence, invoked, process, lock, faults,
          now, pc, locals, until, result, answer>>

-----------------------------------------------------------------------------

HoldStatus  == {"none", "pending", "approved", "rejected"}
Decisions   == {"none", "manual_required", "approved", "rejected"}
Terminal    == {"approved", "rejected"}
Verdicts    == {"approve", "reject"}
Kinds       == {"blocked", "audit", "trace", "verification",
                "adapter_execution_failed"}
LockedSteps == {"reading", "resolving", "deciding"}
CoreSteps   == {"minting", "gating", "invoking", "auditing", "tracing",
                "verifying"}
Steps == {"idle", "recording", "waiting", "releasing", "reporting", "done"}
             \cup LockedSteps \cup CoreSteps
Answers == {"none", "error", "lost", "denied", "held", "rejected", "not_found",
            "already_resolved", "expired", "invalid", "executed"}

StoreTypes ==
    /\ holdMem \in [Actions -> HoldStatus] /\ holdDisk \in [Actions -> HoldStatus]
    /\ recMem \in [Actions -> Decisions] /\ recDisk \in [Actions -> Decisions]

ProcessTypes ==
    /\ plan \in [Actions -> [docker : BOOLEAN, version : Versions, expires : Nat]]
    /\ authorized \subseteq Threads /\ invoked \subseteq Threads
    /\ evidence \subseteq Threads \X Kinds
    /\ phase \in {"up", "boot"}
    /\ docker \in BOOLEAN /\ version \in Versions
    /\ flagged \subseteq Threads
    /\ crashes \in Nat /\ now \in Nat

ControlTypes ==
    /\ pc \in [Threads -> Steps] /\ answer \in [Threads -> Answers]
    /\ lock \in Requests \cup {Nobody} /\ faults \in Nat

LocalTypes ==
    /\ work \in [Threads -> Actions \cup {Nobody}]
    /\ verdict \in [Threads -> Verdicts]
    /\ epoch \in [Threads -> Nat] /\ until \in [Threads -> Nat]
    /\ result \in [Threads -> {"none", "completed", "failed"}]

TypeOK == StoreTypes /\ ProcessTypes /\ ControlTypes /\ LocalTypes

Init ==
    /\ holdMem = [a \in Actions |-> "none"] /\ holdDisk = holdMem
    /\ recMem = [a \in Actions |-> "none"] /\ recDisk = recMem
    /\ \E v \in Versions :
          /\ version = v
          /\ plan = [a \in Actions |-> [docker |-> FALSE, version |-> v, expires |-> 0]]
    /\ authorized = {} /\ invoked = {} /\ evidence = {}
    /\ phase = "up" /\ lock = Nobody /\ docker \in BOOLEAN /\ flagged = {}
    /\ crashes = 0 /\ faults = 0 /\ now = 0
    /\ pc = [t \in Threads |-> "idle"]
    /\ work = [t \in Threads |-> IF t \in Actions THEN t ELSE Nobody]
    /\ verdict = [t \in Threads |-> "approve"]
    /\ epoch = [t \in Threads |-> 0] /\ until = [t \in Threads |-> 0]
    /\ result = [t \in Threads |-> "none"]
    /\ answer = [t \in Threads |-> "none"]

-----------------------------------------------------------------------------
(* What a thread does with its step.                                       *)

At(t, step) == phase = "up" /\ pc[t] = step

Goto(t, step) ==
    /\ pc' = [pc EXCEPT ![t] = step]
    /\ UNCHANGED <<answer, faults, lock>>

(* A request that does not hold the lock answers and ends. *)
Answer(t, a) ==
    /\ pc' = [pc EXCEPT ![t] = "done"]
    /\ answer' = [answer EXCEPT ![t] = a]
    /\ UNCHANGED <<faults, lock>>

(* approve_held_action returns: the route leaves the `with` block next. *)
Return(r, a) ==
    /\ pc' = [pc EXCEPT ![r] = "releasing"]
    /\ answer' = [answer EXCEPT ![r] = a]
    /\ UNCHANGED <<faults, lock>>

(* Mutant: the lock is taken without a `with` block. *)
AbortHoldingLock(t) ==
    /\ faults < MaxFaults
    /\ faults' = faults + 1
    /\ pc' = [pc EXCEPT ![t] = "done"]
    /\ answer' = [answer EXCEPT ![t] = "error"]
    /\ UNCHANGED lock

(* A write raises: the exception leaves the handler, and the `with` block  *)
(* of a route that holds the lock.                                         *)
Abort(t) ==
    /\ faults < MaxFaults
    /\ faults' = faults + 1
    /\ pc' = [pc EXCEPT ![t] = "done"]
    /\ answer' = [answer EXCEPT ![t] = "error"]
    /\ lock' = IF lock = t THEN Nobody ELSE lock

(* The Core has returned its outcome dict for an execution. *)
AfterCore(t) == IF t \in Requests THEN "releasing" ELSE "reporting"

-----------------------------------------------------------------------------
(* execute_governed_action                                                 *)

(* resolve_assessment fails, or the action policy does not allow the action. *)
ProposeDenied(a) ==
    /\ At(a, "idle")
    /\ Answer(a, "denied")
    /\ epoch' = [epoch EXCEPT ![a] = crashes]
    /\ UNCHANGED <<stores, plan, authorized, evidence, invoked, process, now,
                   work, verdict, until, result>>

(* ApprovalMode.REJECT: only the record is saved. *)
ProposeRejected(a) ==
    /\ At(a, "idle")
    /\ epoch' = [epoch EXCEPT ![a] = crashes]
    /\ recMem' = [recMem EXCEPT ![a] = "rejected"]
    /\ \/ recDisk' = [recDisk EXCEPT ![a] = "rejected"] /\ Answer(a, "rejected")
       \/ UNCHANGED recDisk /\ Abort(a)
    /\ UNCHANGED <<holdMem, holdDisk, plan, authorized, evidence, invoked,
                   process, now, work, verdict, until, result>>

(* The adapter is the configured engine when it is registered and the      *)
(* simulation adapter otherwise.                                           *)
Adapters == {FALSE, docker}

(* ApprovalMode.MANUAL: hold_for_manual_approval saves the hold first. *)
ProposeHeld(a) ==
    /\ At(a, "idle")
    /\ epoch' = [epoch EXCEPT ![a] = crashes]
    /\ \E d \in Adapters :
          plan' = [plan EXCEPT ![a] = [docker |-> d, version |-> version,
                                       expires |-> now + HoldTTL]]
    /\ holdMem' = [holdMem EXCEPT ![a] = "pending"]
    /\ \/ holdDisk' = [holdDisk EXCEPT ![a] = "pending"] /\ Goto(a, "recording")
       \/ UNCHANGED holdDisk /\ Abort(a)
    /\ UNCHANGED <<recMem, recDisk, authorized, evidence, invoked, process, now,
                   work, verdict, until, result>>

(* ... and then the record that resolving the hold will update. *)
RecordHold(a) ==
    /\ At(a, "recording")
    /\ recMem' = [recMem EXCEPT ![a] = "manual_required"]
    /\ \/ recDisk' = [recDisk EXCEPT ![a] = "manual_required"] /\ Answer(a, "held")
       \/ UNCHANGED recDisk /\ Abort(a)
    /\ UNCHANGED <<holdMem, holdDisk, plan, authorized, evidence, invoked,
                   process, now, locals, until, result>>

(* ApprovalMode.AUTO: the record is saved as approved. *)
ProposeAuto(a) ==
    /\ At(a, "idle")
    /\ epoch' = [epoch EXCEPT ![a] = crashes]
    /\ \E d \in Adapters :
          plan' = [plan EXCEPT ![a].docker = d, ![a].version = version]
    /\ recMem' = [recMem EXCEPT ![a] = "approved"]
    /\ \/ recDisk' = [recDisk EXCEPT ![a] = "approved"] /\ Goto(a, "minting")
       \/ UNCHANGED recDisk /\ Abort(a)
    /\ UNCHANGED <<holdMem, holdDisk, authorized, evidence, invoked, process,
                   now, work, verdict, until, result>>

-----------------------------------------------------------------------------
(* approve_held_action under the continuation lock of the two routes       *)

(* Whose approval_id an approver can hold: one a proposal answered with    *)
(* (or the id of something that was never a hold), and with EarlyIds one   *)
(* that GET /ops/holds lists because the hold reads pending in memory.     *)
Known(a) ==
    \/ pc[a] = "done" /\ answer[a] \notin {"error", "lost"}
    \/ EarlyIds /\ holdMem[a] = "pending"

Submit(r) ==
    /\ At(r, "idle")
    /\ \E a \in Actions, v \in Verdicts :
          /\ Known(a)
          /\ work' = [work EXCEPT ![r] = a]
          /\ verdict' = [verdict EXCEPT ![r] = v]
    /\ epoch' = [epoch EXCEPT ![r] = crashes]
    /\ Goto(r, "waiting")
    /\ UNCHANGED <<stores, plan, authorized, evidence, invoked, process, now,
                   until, result>>

(* Mutant: the routes call the Core without the continuation lock. *)
NoLock == TRUE

LockFree == lock = Nobody

Acquire(r) ==
    /\ At(r, "waiting")
    /\ LockFree
    /\ lock' = r
    /\ pc' = [pc EXCEPT ![r] = "reading"]
    /\ UNCHANGED <<stores, plan, authorized, evidence, invoked, process, faults,
                   now, locals, until, result, answer>>

(* Mutant: the expiry is a timer of the process that held the action. *)
ExpiredInItsProcess(a) == plan[a].expires < now /\ epoch[a] = crashes

Expired(a) == plan[a].expires < now

(* The hold is looked up and its status, its expiry and the evaluators it  *)
(* was assessed by are checked.  An expired hold is rejected in memory.    *)
ReadHold(r) ==
    /\ At(r, "reading")
    /\ LET a == work[r] IN
       \/ /\ holdMem[a] = "none"
          /\ Return(r, "not_found") /\ UNCHANGED holdMem
       \/ /\ holdMem[a] \in Terminal
          /\ Return(r, "already_resolved") /\ UNCHANGED holdMem
       \/ /\ holdMem[a] = "pending" /\ Expired(a)
          /\ holdMem' = [holdMem EXCEPT ![a] = "rejected"]
          /\ Return(r, "expired")
       \/ /\ holdMem[a] = "pending" /\ ~Expired(a)
          /\ verdict[r] = "approve" /\ plan[a].version # version
          /\ Return(r, "invalid") /\ UNCHANGED holdMem
       \/ /\ holdMem[a] = "pending" /\ ~Expired(a)
          /\ verdict[r] = "reject" \/ plan[a].version = version
          /\ Goto(r, "resolving") /\ UNCHANGED holdMem
    /\ UNCHANGED <<holdDisk, recMem, recDisk, plan, authorized, evidence,
                   invoked, process, now, locals, until, result>>

(* Mutant: the verdict is stored as it came. *)
RawVerdict(r) == verdict[r]

Decision(r) == IF verdict[r] = "approve" THEN "approved" ELSE "rejected"

(* hold.status is set on the object in memory and never saved. *)
ResolveHold(r) ==
    /\ At(r, "resolving")
    /\ holdMem' = [holdMem EXCEPT ![work[r]] = Decision(r)]
    /\ Goto(r, "deciding")
    /\ UNCHANGED <<holdDisk, recMem, recDisk, plan, authorized, evidence,
                   invoked, process, now, locals, until, result>>

(* Mutant: resolving the hold does not touch the record. *)
AmendNothing(store, a, d) == store

(* approval_record_storage.update does nothing when there is no record, and *)
(* the UPDATE changes no row when the record never reached the disk.        *)
Amend(store, a, d) == IF store[a] = "none" THEN store ELSE [store EXCEPT ![a] = d]

RecordDecision(r) ==
    /\ At(r, "deciding")
    /\ recMem' = Amend(recMem, work[r], Decision(r))
    /\ \/ /\ recDisk' = IF recMem[work[r]] = "none" THEN recDisk
                        ELSE Amend(recDisk, work[r], Decision(r))
          /\ IF verdict[r] = "approve" THEN Goto(r, "minting")
                                       ELSE Return(r, "rejected")
       \/ recMem[work[r]] # "none" /\ UNCHANGED recDisk /\ Abort(r)
    /\ UNCHANGED <<holdMem, holdDisk, plan, authorized, evidence, invoked,
                   process, now, locals, until, result>>

-----------------------------------------------------------------------------
(* The authorization, and execution_engine.execute                         *)

(* create_manual_authorization / create_execution_authorization, saved. *)
Mint(t) ==
    /\ At(t, "minting")
    /\ \/ /\ authorized' = authorized \cup {t}
          /\ until' = [until EXCEPT ![t] = now + AuthTTL]
          /\ Goto(t, "gating")
       \/ UNCHANGED <<authorized, until>> /\ Abort(t)
    /\ UNCHANGED <<stores, plan, evidence, invoked, process, now, locals, result>>

(* Mutant: a failed save() of evidence is logged and swallowed. *)
WriteFailOpen(t, kind, step) ==
    \/ evidence' = evidence \cup {<<t, kind>>} /\ Goto(t, step)
    \/ /\ faults < MaxFaults /\ faults' = faults + 1
       /\ pc' = [pc EXCEPT ![t] = step]
       /\ UNCHANGED <<evidence, answer, lock>>

(* save() of one evidence record; the thread goes on only if it succeeds. *)
Write(t, kind, step) ==
    \/ evidence' = evidence \cup {<<t, kind>>} /\ Goto(t, step)
    \/ UNCHANGED evidence /\ Abort(t)

(* The engine refuses an authorization that has expired, with a blocked    *)
(* trace.  Its other comparisons are between an authorization and a        *)
(* request made from the same hold or assessment by this thread.           *)
Block(t) ==
    /\ At(t, "gating")
    /\ until[t] < now
    /\ result' = [result EXCEPT ![t] = "failed"]
    /\ Write(t, "blocked", AfterCore(t))
    /\ UNCHANGED <<stores, plan, authorized, invoked, process, now, locals, until>>

(* adapter_registry.get: docker is there only if the daemon answered when  *)
(* this process started, and even then it may not support the operation.   *)
(* The engine returns a failed result and writes nothing.                  *)
NoAdapter(t) ==
    /\ At(t, "gating")
    /\ until[t] >= now
    /\ plan[work[t]].docker
    /\ result' = [result EXCEPT ![t] = "failed"]
    /\ Goto(t, AfterCore(t))
    /\ UNCHANGED <<stores, plan, authorized, evidence, invoked, process, now,
                   locals, until>>

PassGate(t) ==
    /\ At(t, "gating")
    /\ until[t] >= now
    /\ plan[work[t]].docker => docker
    /\ Goto(t, "invoking")
    /\ UNCHANGED <<stores, plan, authorized, evidence, invoked, process, now,
                   locals, until, result>>

(* adapter.execute: the simulation adapter always completes, docker may    *)
(* fail, with the operation done or not.                                   *)
Invoke(t) ==
    /\ At(t, "invoking")
    /\ invoked' = invoked \cup {t}
    /\ \E res \in {"completed"} \cup (IF plan[work[t]].docker THEN {"failed"} ELSE {}) :
          result' = [result EXCEPT ![t] = res]
    /\ Goto(t, "auditing")
    /\ UNCHANGED <<stores, plan, authorized, evidence, process, now, locals, until>>

Audit(t) ==
    /\ At(t, "auditing")
    /\ Write(t, "audit", "tracing")
    /\ UNCHANGED <<stores, plan, authorized, invoked, process, now, locals,
                   until, result>>

Trace(t) ==
    /\ At(t, "tracing")
    /\ Write(t, "trace", IF result[t] = "completed" THEN "verifying" ELSE AfterCore(t))
    /\ UNCHANGED <<stores, plan, authorized, invoked, process, now, locals,
                   until, result>>

(* verify_execution runs only after a success and always saves a result. *)
Verify(t) ==
    /\ At(t, "verifying")
    /\ Write(t, "verification", AfterCore(t))
    /\ UNCHANGED <<stores, plan, authorized, invoked, process, now, locals,
                   until, result>>

(* The route leaves the `with` block; its answer is fixed. *)
Release(r) ==
    /\ At(r, "releasing")
    /\ lock' = Nobody
    /\ pc' = [pc EXCEPT ![r] = IF answer[r] = "none" THEN "reporting" ELSE "done"]
    /\ UNCHANGED <<stores, plan, authorized, evidence, invoked, process, faults,
                   now, locals, until, result, answer>>

(* record_failed_execution_evidence (E3), outside the lock: an execution   *)
(* that failed and has no verification record gets one.  Fail-open.        *)
Report(t) ==
    /\ At(t, "reporting")
    /\ \/ /\ result[t] = "failed" /\ <<t, "verification">> \notin evidence
          /\ evidence' = evidence \cup {<<t, "adapter_execution_failed">>}
          /\ UNCHANGED faults
       \/ /\ result[t] = "failed" /\ faults < MaxFaults
          /\ faults' = faults + 1 /\ UNCHANGED evidence
       \/ /\ result[t] = "completed" /\ UNCHANGED <<evidence, faults>>
    /\ pc' = [pc EXCEPT ![t] = "done"]
    /\ answer' = [answer EXCEPT ![t] = "executed"]
    /\ UNCHANGED <<stores, plan, authorized, invoked, process, lock, now,
                   locals, until, result>>

-----------------------------------------------------------------------------
(* The process: death, start, and the startup reconcile                    *)

InFlight(t) == pc[t] \notin {"idle", "done"}

(* The process dies and a new one loads the stores from SQLite.  The new   *)
(* process may find no docker daemon and may carry other evaluators.       *)
Restart ==
    /\ crashes < MaxCrashes
    /\ crashes' = crashes + 1
    /\ phase' = "boot"
    /\ holdMem' = holdDisk /\ recMem' = recDisk
    /\ docker' \in BOOLEAN /\ version' \in Versions
    /\ lock' = Nobody
    /\ pc' = [t \in Threads |-> IF InFlight(t) THEN "done" ELSE pc[t]]
    /\ answer' = [t \in Threads |-> IF InFlight(t) THEN "lost" ELSE answer[t]]
    /\ UNCHANGED <<holdDisk, recDisk, plan, authorized, evidence, invoked,
                   flagged, faults, now, locals, until, result>>

StaleApproval(a) == holdMem[a] = "pending" /\ recMem[a] = "approved"

(* reconcile_holds_against_records: a pending hold whose record is         *)
(* terminal is corrected, on disk too.                                     *)
Stale(a) == holdMem[a] = "pending" /\ recMem[a] \in Terminal

(* audit_authorizations: what the E6 audit logs, given these holds. *)
Divergent(holds) ==
    {t \in authorized : \/ recMem[work[t]] # "approved"
                        \/ holds[work[t]] = "pending"}

ReconcileHold(a) ==
    /\ phase = "boot"
    /\ Stale(a)
    /\ holdMem' = [holdMem EXCEPT ![a] = recMem[a]]
    /\ holdDisk' = [holdDisk EXCEPT ![a] = recMem[a]]
    /\ UNCHANGED <<recMem, recDisk, plan, authorized, evidence, invoked,
                   process, lock, faults, now, pc, locals, until, result, answer>>

(* The loop is inside one try: a write that raises ends it, with the hold  *)
(* at hand corrected in memory only and the rest not looked at.            *)
ReconcileFails(a) ==
    /\ phase = "boot"
    /\ ReconcileMayFail /\ faults < MaxFaults
    /\ Stale(a)
    /\ faults' = faults + 1
    /\ holdMem' = [holdMem EXCEPT ![a] = recMem[a]]
    /\ flagged' = Divergent(holdMem')
    /\ phase' = "up"
    /\ UNCHANGED <<holdDisk, recMem, recDisk, plan, authorized, evidence,
                   invoked, docker, version, crashes, lock, now, pc, locals,
                   until, result, answer>>

FinishStartup ==
    /\ phase = "boot"
    /\ \A a \in Actions : ~Stale(a)
    /\ flagged' = Divergent(holdMem)
    /\ phase' = "up"
    /\ UNCHANGED <<stores, plan, authorized, evidence, invoked, docker, version,
                   crashes, lock, faults, now, pc, locals, until, result, answer>>

Tick ==
    /\ now < MaxTime
    /\ now' = now + 1
    /\ UNCHANGED <<stores, plan, authorized, evidence, invoked, process, lock,
                   faults, pc, locals, until, result, answer>>

(* Every request has been served and nothing is left to start. *)
Quiet ==
    /\ phase = "up"
    /\ \A t \in Threads : pc[t] \in {"idle", "done"}
    /\ UNCHANGED vars

-----------------------------------------------------------------------------

Proposal(a) == \/ ProposeDenied(a) \/ ProposeRejected(a) \/ ProposeHeld(a)
               \/ RecordHold(a) \/ ProposeAuto(a)

Approval(r) == \/ Acquire(r) \/ ReadHold(r) \/ ResolveHold(r)
               \/ RecordDecision(r) \/ Release(r)

Execution(t) == \/ Mint(t) \/ Block(t) \/ NoAdapter(t) \/ PassGate(t) \/ Invoke(t)
                \/ Audit(t) \/ Trace(t) \/ Verify(t) \/ Report(t)

Startup == FinishStartup \/ \E a \in Actions : ReconcileHold(a) \/ ReconcileFails(a)

Next ==
    \/ \E a \in Actions : Proposal(a)
    \/ \E r \in Requests : Submit(r) \/ Approval(r)
    \/ \E t \in Threads : Execution(t)
    \/ Startup
    \/ Restart \/ Tick \/ Quiet

Spec == Init /\ [][Next]_vars

(* The scheduler runs every live thread, a store answers or raises, and an *)
(* adapter call returns.  Nobody has to propose, approve or crash.         *)
Fairness ==
    /\ \A a \in Actions : WF_vars(RecordHold(a))
    /\ \A r \in Requests : WF_vars(Approval(r))
    /\ \A t \in Threads : WF_vars(Execution(t))
    /\ WF_vars(Startup)

FairSpec == Spec /\ Fairness
-----------------------------------------------------------------------------
(* Safety                                                                  *)

(* A governed action gets at most one execution authorization, whatever    *)
(* approvals race and however often the process restarts between the hold, *)
(* its resolution and the execution (approve_held_action).                 *)
OneAuthorization ==
    \A t, u \in authorized : work[t] = work[u] => t = u

(* The same within one process life, where it rests on the continuation    *)
(* lock and the hold's status in memory alone: it needs neither the record *)
(* nor the reconcile (main.py, _approval_continuation_lock).               *)
OneAuthorizationPerLife ==
    \A t, u \in authorized : work[t] = work[u] /\ epoch[t] = epoch[u] => t = u

(* What reached an adapter had an authorization saved before it, and the   *)
(* durable record of its action reads approved (engine.execute).           *)
InvokedOnlyIfApproved ==
    \A t \in invoked : t \in authorized /\ recDisk[work[t]] = "approved"

(* A rejection is final: once an approver has been told "rejected", or the *)
(* record on disk says so, the action is never authorized -- also after    *)
(* the restart that forgets the status set on the hold in memory.          *)
RejectionIsFinal ==
    /\ \A r \in Requests : answer[r] = "rejected" => recDisk[work[r]] = "rejected"
    /\ \A t \in authorized : recDisk[work[t]] # "rejected"

(* An approver told "approval_expired" knows the action will not run: the  *)
(* expired status is set in memory only, but no restart revives the hold.  *)
ExpiryIsFinal ==
    \A r \in Requests, t \in authorized :
        answer[r] = "expired" => work[t] # work[r]

(* The E6 audit of every startup finds the authorizations consistent with  *)
(* the records and the reconciled holds (audit_authorizations).            *)
StartupAuditClean == flagged = {}

(* The evidence of an execution that the Core has finished. *)
EvidenceOf(t) ==
    /\ t \in authorized
    /\ result[t] = "completed" => t \in invoked /\ <<t, "verification">> \in evidence
    /\ t \in invoked => <<t, "audit">> \in evidence /\ <<t, "trace">> \in evidence

(* "executed" is answered only after the evidence is on disk: audit, trace *)
(* and verification of a success, and for a failure that reached the       *)
(* adapter its audit and trace (engine.execute, E3).                       *)
EvidenceBeforeAnswer ==
    \A t \in Threads : answer[t] = "executed" => EvidenceOf(t)

(* The approval record is authoritative for terminal state: a continuation *)
(* is never let through for a hold whose record already has its decision,  *)
(* whatever status the hold itself has come back with (FROZEN_CORE_DEBT D1).*)
ResolvesOnlyUndecided ==
    [][\A r \in Requests :
          pc[r] = "reading" /\ pc'[r] = "resolving"
              => recMem[work[r]] \notin Terminal]_vars

(* A resolved hold left its decision in the approval record.               *)
ResolutionIsRecorded ==
    \A r \in Requests : r \in authorized => recMem[work[r]] = "approved"

-----------------------------------------------------------------------------
(* Liveness: a request that waits for the lock is answered, also when the  *)
(* threads before it fail on a store write or the process dies.            *)
EveryRequestAnswered ==
    \A r \in Requests : pc[r] = "waiting" ~> pc[r] = "done"

-----------------------------------------------------------------------------
(* Refinement: the durable record is the decision, and the runs of an      *)
(* action are the threads that took it to the adapter.                     *)

DecisionOf(d) == IF d = "manual_required" THEN "pending" ELSE d

Abstract == INSTANCE OneShotDecision WITH
    Runs <- Threads,
    decision <- [a \in Actions |-> DecisionOf(recDisk[a])],
    runs <- [a \in Actions |-> {t \in invoked : work[t] = a}]

(* Every step of the Core is a step of the abstract decision, or none. *)
ImplementsOneShot == Abstract!Spec
=============================================================================
