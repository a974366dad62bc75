---------------------- MODULE GovernedApprovalProofs ----------------------
(***************************************************************************)
(* What holds of GovernedApproval for every set of actions and requests,   *)
(* every bound and every TTL.  Two inductive invariants:                   *)
(*   LifeInv   needs nothing, and gives one authorization per process life;*)
(*   StoreInv  needs ids that come from answers and a startup reconcile    *)
(*             that completes, and gives the rest.                         *)
(***************************************************************************)
EXTENDS GovernedApproval, TLAPS

Before  == {"idle", "recording", "waiting", "reading", "resolving", "deciding",
            "minting"}
Holding == LockedSteps \cup CoreSteps \cup {"releasing"}

-----------------------------------------------------------------------------
(* One process life: the lock, and the hold's status in memory.            *)

(* A request that is past Acquire and not yet past Release holds the lock. *)
LockHeld == \A r \in Requests : pc[r] \in Holding => lock = r

(* A thread in flight started in this life, and the process is up. *)
ThisLife == \A t \in Threads :
    /\ epoch[t] <= crashes
    /\ InFlight(t) => epoch[t] = crashes /\ phase = "up"

(* Proposals and approvals take different steps. *)
OwnSteps ==
    /\ \A a \in Actions : work[a] = a /\ pc[a] \notin LockedSteps \cup {"waiting", "releasing"}
    /\ \A r \in Requests : pc[r] # "recording"
    /\ \A r \in Requests : pc[r] # "idle" => work[r] \in Actions /\ pc[work[r]] # "idle"

(* Nothing is stored for an action before it is proposed. *)
NothingBefore == \A a \in Actions : pc[a] = "idle" =>
    /\ holdMem[a] = "none" /\ holdDisk[a] = "none"
    /\ recMem[a] = "none" /\ recDisk[a] = "none"

(* An action approved by the policy was never held. *)
AutoNotHeld == \A a \in Actions :
    pc[a] \in CoreSteps \cup {"reporting"} \/ a \in authorized
        => holdMem[a] = "none" /\ holdDisk[a] = "none"

(* A thread has its authorization exactly once it has minted it. *)
AuthorizedSteps == \A t \in Threads :
    /\ t \in authorized => pc[t] \notin Before
    /\ pc[t] \in CoreSteps \ {"minting"} => t \in authorized

(* The hold of an action authorized in this life reads resolved. *)
ResolvedThisLife == \A r \in Requests \cap authorized :
    epoch[r] = crashes => holdMem[work[r]] \in Terminal

(* A request on its way to an authorization is alone on its action. *)
AloneThisLife == \A r \in Requests :
    /\ pc[r] = "resolving" => holdMem[work[r]] = "pending"
    /\ pc[r] \in {"deciding", "minting"} =>
          /\ holdMem[work[r]] \in Terminal
          /\ \A u \in authorized : work[u] = work[r] => epoch[u] # crashes

(* Only a thread that is at its end has an answer. *)
AnswerAtEnd == \A t \in Threads :
    pc[t] \notin {"releasing", "done"} => answer[t] = "none"

(* The adapter is reached after the gate, by a thread with authorization. *)
InvokedIsAuthorized == \A t \in invoked :
    t \in authorized /\ pc[t] \notin {"gating", "invoking"}

(* What is on disk at each step after the adapter, and when the Core has   *)
(* returned.                                                               *)
Returned(t) == pc[t] = "reporting" \/ (pc[t] = "releasing" /\ answer[t] = "none")

EvidenceSoFar == \A t \in Threads :
    /\ pc[t] \in {"auditing", "tracing", "verifying"} => t \in invoked
    /\ pc[t] \in {"tracing", "verifying"} => <<t, "audit">> \in evidence
    /\ pc[t] = "verifying" => <<t, "trace">> \in evidence
    /\ Returned(t) => EvidenceOf(t)
    /\ answer[t] = "executed" => EvidenceOf(t)

LifeInv ==
    /\ TypeOK
    /\ LockHeld /\ ThisLife /\ OwnSteps /\ NothingBefore /\ AutoNotHeld
    /\ AuthorizedSteps /\ ResolvedThisLife /\ AloneThisLife
    /\ AnswerAtEnd /\ InvokedIsAuthorized /\ EvidenceSoFar
    /\ OneAuthorizationPerLife

-----------------------------------------------------------------------------
(* Across restarts: the durable record decides.                            *)

(* Approvers take ids from answers, and no write fails while reconciling. *)
Orderly == ~EarlyIds /\ ~ReconcileMayFail

(* A request works on an action whose proposal answered. *)
Answered == \A r \in Requests : pc[r] # "idle" =>
    pc[work[r]] = "done" /\ answer[work[r]] \notin {"error", "lost"}

(* A proposal that answered left both a hold and a record, or no hold. *)
HeldIsStored == \A a \in Actions :
    /\ pc[a] = "recording" => holdMem[a] # "none" /\ holdDisk[a] # "none"
    /\ pc[a] = "done" /\ answer[a] \notin {"error", "lost"} =>
          \/ holdMem[a] = "none" /\ holdDisk[a] = "none"
          \/ /\ holdMem[a] # "none" /\ holdDisk[a] # "none"
             /\ recMem[a] # "none" /\ recDisk[a] # "none"

(* The record in memory is ahead of the one on disk, never against it. *)
RecordAhead == \A a \in Actions :
    /\ recDisk[a] \in Terminal => recMem[a] = recDisk[a]
    /\ recDisk[a] # "none" => recMem[a] # "none"
    /\ pc[a] = "recording" => recMem[a] = "none" /\ recDisk[a] = "none"

(* Once the process is up, no hold is pending against a decided record. *)
NoneStale == phase = "up" => \A a \in Actions : ~Stale(a)

(* An authorized action is recorded as approved, and its hold is resolved. *)
AuthorizedIsApproved == \A t \in authorized :
    /\ recMem[work[t]] = "approved" /\ recDisk[work[t]] = "approved"
    /\ t \in Requests => holdMem[work[t]] # "none"

(* A request on its way to an authorization is alone, and undecided until  *)
(* it decides.                                                             *)
Alone == \A t \in Threads :
    /\ pc[t] \in {"resolving", "deciding"} => recMem[work[t]] \notin Terminal
    /\ pc[t] \in {"deciding", "resolving", "minting"} =>
          \A u \in authorized : work[u] # work[t]
    /\ pc[t] = "minting" => recMem[work[t]] = "approved" /\ recDisk[work[t]] = "approved"

(* An expired hold is never resolved again. *)
ExpiredStays == \A r \in Requests : answer[r] = "expired" =>
    /\ Expired(work[r])
    /\ \A u \in authorized : work[u] # work[r]
    /\ \A u \in Threads : pc[u] \in {"resolving", "deciding", "minting"} => work[u] # work[r]

StoreInv ==
    /\ LifeInv
    /\ Answered /\ HeldIsStored /\ RecordAhead /\ NoneStale
    /\ AuthorizedIsApproved /\ Alone /\ ExpiredStays
    /\ OneAuthorization /\ RejectionIsFinal /\ StartupAuditClean
-----------------------------------------------------------------------------
(* Type correctness.                                                       *)

USE DEF Threads

LEMMA InitType == Init => TypeOK
BY DEF Init, TypeOK, StoreTypes, ProcessTypes, ControlTypes, LocalTypes, HoldStatus,
       Decisions, Verdicts, Kinds, Steps, LockedSteps, CoreSteps, Answers

(* The names of the steps and of the answers the handlers give. *)
LEMMA StepNames ==
    /\ LockedSteps \cup CoreSteps \subseteq Steps
    /\ {"idle", "recording", "waiting", "releasing", "reporting", "done"} \subseteq Steps
    /\ {"reading", "resolving", "deciding"} \subseteq Steps
    /\ {"minting", "gating", "invoking", "auditing", "tracing", "verifying"} \subseteq Steps
BY DEF Steps, LockedSteps, CoreSteps

LEMMA GotoType ==
    ASSUME ControlTypes, NEW t \in Threads, NEW s \in Steps, Goto(t, s)
    PROVE  ControlTypes'
BY DEF ControlTypes, Goto

LEMMA AnswerType ==
    ASSUME ControlTypes, NEW t \in Threads, NEW a \in Answers, Answer(t, a)
    PROVE  ControlTypes'
BY StepNames DEF ControlTypes, Answer

LEMMA ReturnType ==
    ASSUME ControlTypes, NEW r \in Threads, NEW a \in Answers, Return(r, a)
    PROVE  ControlTypes'
BY StepNames DEF ControlTypes, Return

LEMMA AbortType ==
    ASSUME ControlTypes, NEW t \in Threads, Abort(t)
    PROVE  ControlTypes'
BY StepNames DEF ControlTypes, Abort, Answers

LEMMA WriteType ==
    ASSUME ControlTypes, evidence \subseteq Threads \X Kinds,
           NEW t \in Threads, NEW k \in Kinds, NEW s \in Steps, Write(t, k, s)
    PROVE  ControlTypes' /\ evidence' \subseteq Threads \X Kinds
BY GotoType, AbortType DEF Write

LEMMA AfterCoreType == \A t \in Threads : AfterCore(t) \in Steps
BY StepNames DEF AfterCore

LEMMA ProposalType == ASSUME TypeOK, NEW a \in Actions, Proposal(a) PROVE TypeOK'
<1> USE DEF TypeOK
<1>1. CASE ProposeDenied(a)
  <2>1. ControlTypes'
    BY <1>1, AnswerType DEF ProposeDenied, Answers
  <2> QED BY <1>1, <2>1 DEF ProposeDenied, StoreTypes, ProcessTypes, LocalTypes, stores, process
<1>2. CASE ProposeRejected(a)
  <2>1. ControlTypes'
    BY <1>2, AnswerType, AbortType DEF ProposeRejected, Answers
  <2>2. StoreTypes'
    BY <1>2 DEF ProposeRejected, StoreTypes, Decisions
  <2> QED BY <1>2, <2>1, <2>2 DEF ProposeRejected, ProcessTypes, LocalTypes, process
<1>3. CASE ProposeHeld(a)
  <2>1. ControlTypes'
    BY <1>3, GotoType, AbortType, StepNames DEF ProposeHeld
  <2>2. StoreTypes'
    BY <1>3 DEF ProposeHeld, StoreTypes, HoldStatus
  <2>3. plan' \in [Actions -> [docker : BOOLEAN, version : Versions, expires : Nat]]
    <3>1. PICK d \in Adapters : plan' = [plan EXCEPT ![a] =
              [docker |-> d, version |-> version, expires |-> now + HoldTTL]]
      BY <1>3 DEF ProposeHeld
    <3>2. d \in BOOLEAN /\ version \in Versions
      BY <3>1 DEF ProcessTypes, Adapters
    <3>3. now + HoldTTL \in Nat
      BY BoundsAssumption DEF ProcessTypes
    <3> QED BY <3>1, <3>2, <3>3 DEF ProcessTypes
  <2> QED BY <1>3, <2>1, <2>2, <2>3 DEF ProposeHeld, ProcessTypes, LocalTypes, process
<1>4. CASE RecordHold(a)
  <2>1. ControlTypes'
    BY <1>4, AnswerType, AbortType DEF RecordHold, Answers
  <2>2. StoreTypes'
    BY <1>4 DEF RecordHold, StoreTypes, Decisions
  <2> QED BY <1>4, <2>1, <2>2 DEF RecordHold, ProcessTypes, LocalTypes, process, locals
<1>5. CASE ProposeAuto(a)
  <2>1. ControlTypes'
    BY <1>5, GotoType, AbortType, StepNames DEF ProposeAuto
  <2>2. StoreTypes'
    BY <1>5 DEF ProposeAuto, StoreTypes, Decisions
  <2>3. plan' \in [Actions -> [docker : BOOLEAN, version : Versions, expires : Nat]]
    <3>1. PICK d \in Adapters :
              plan' = [plan EXCEPT ![a].docker = d, ![a].version = version]
      BY <1>5 DEF ProposeAuto
    <3>2. d \in BOOLEAN /\ version \in Versions
      BY <3>1 DEF ProcessTypes, Adapters
    <3> QED BY <3>1, <3>2 DEF ProcessTypes
  <2> QED BY <1>5, <2>1, <2>2, <2>3 DEF ProposeAuto, ProcessTypes, LocalTypes, process
<1> QED BY <1>1, <1>2, <1>3, <1>4, <1>5 DEF Proposal

LEMMA SubmitType == ASSUME TypeOK, NEW r \in Requests, Submit(r) PROVE TypeOK'
<1> USE DEF TypeOK
<1>1. ControlTypes'
  BY GotoType, StepNames DEF Submit
<1>2. LocalTypes'
  BY DEF Submit, LocalTypes, ProcessTypes
<1> QED BY <1>1, <1>2 DEF Submit, StoreTypes, ProcessTypes, stores, process

LEMMA ApprovalType == ASSUME TypeOK, NEW r \in Requests, Approval(r) PROVE TypeOK'
<1> USE DEF TypeOK
<1>1. CASE Acquire(r)
  <2>1. ControlTypes'
    BY <1>1, StepNames DEF Acquire, ControlTypes
  <2> QED BY <1>1, <2>1 DEF Acquire, StoreTypes, ProcessTypes, LocalTypes, stores, process, locals
<1>2. CASE ReadHold(r)
  <2>1. ControlTypes'
    BY <1>2, ReturnType, GotoType, StepNames DEF ReadHold, Answers
  <2>2. StoreTypes'
    BY <1>2 DEF ReadHold, StoreTypes, HoldStatus
  <2> QED BY <1>2, <2>1, <2>2 DEF ReadHold, ProcessTypes, LocalTypes, process, locals
<1>3. CASE ResolveHold(r)
  <2>1. ControlTypes'
    BY <1>3, GotoType, StepNames DEF ResolveHold
  <2>2. StoreTypes'
    BY <1>3 DEF ResolveHold, StoreTypes, HoldStatus, Decision
  <2> QED BY <1>3, <2>1, <2>2 DEF ResolveHold, ProcessTypes, LocalTypes, process, locals
<1>4. CASE RecordDecision(r)
  <2>1. ControlTypes'
    BY <1>4, ReturnType, GotoType, AbortType, StepNames DEF RecordDecision, Answers
  <2>2. StoreTypes'
    BY <1>4 DEF RecordDecision, StoreTypes, Decisions, Decision, Amend
  <2> QED BY <1>4, <2>1, <2>2 DEF RecordDecision, ProcessTypes, LocalTypes, process, locals
<1>5. CASE Release(r)
  <2>1. ControlTypes'
    BY <1>5, StepNames DEF Release, ControlTypes
  <2> QED BY <1>5, <2>1 DEF Release, StoreTypes, ProcessTypes, LocalTypes, stores, process, locals
<1> QED BY <1>1, <1>2, <1>3, <1>4, <1>5 DEF Approval

LEMMA ExecutionType == ASSUME TypeOK, NEW t \in Threads, Execution(t) PROVE TypeOK'
<1> USE DEF TypeOK, stores, process, locals
<1>1. CASE Mint(t)
  <2>1. ControlTypes'
    BY <1>1, GotoType, AbortType, StepNames DEF Mint
  <2>2. LocalTypes'
    BY <1>1, BoundsAssumption DEF Mint, LocalTypes, ProcessTypes
  <2> QED BY <1>1, <2>1, <2>2 DEF Mint, StoreTypes, ProcessTypes
<1>2. CASE Block(t)
  <2>1. ControlTypes' /\ evidence' \subseteq Threads \X Kinds
    BY <1>2, WriteType, AfterCoreType DEF Block, Kinds, ProcessTypes
  <2> QED BY <1>2, <2>1 DEF Block, StoreTypes, ProcessTypes, LocalTypes
<1>3. CASE NoAdapter(t)
  <2>1. ControlTypes'
    BY <1>3, GotoType, AfterCoreType DEF NoAdapter
  <2> QED BY <1>3, <2>1 DEF NoAdapter, StoreTypes, ProcessTypes, LocalTypes
<1>4. CASE PassGate(t)
  <2>1. ControlTypes'
    BY <1>4, GotoType, StepNames DEF PassGate
  <2> QED BY <1>4, <2>1 DEF PassGate, StoreTypes, ProcessTypes, LocalTypes
<1>5. CASE Invoke(t)
  <2>1. ControlTypes'
    BY <1>5, GotoType, StepNames DEF Invoke
  <2> QED BY <1>5, <2>1 DEF Invoke, StoreTypes, ProcessTypes, LocalTypes
<1>6. CASE Audit(t)
  <2>1. ControlTypes' /\ evidence' \subseteq Threads \X Kinds
    BY <1>6, WriteType, StepNames DEF Audit, Kinds, ProcessTypes
  <2> QED BY <1>6, <2>1 DEF Audit, StoreTypes, ProcessTypes, LocalTypes
<1>7. CASE Trace(t)
  <2>1. ControlTypes' /\ evidence' \subseteq Threads \X Kinds
    BY <1>7, WriteType, AfterCoreType, StepNames DEF Trace, Kinds, ProcessTypes
  <2> QED BY <1>7, <2>1 DEF Trace, StoreTypes, ProcessTypes, LocalTypes
<1>8. CASE Verify(t)
  <2>1. ControlTypes' /\ evidence' \subseteq Threads \X Kinds
    BY <1>8, WriteType, AfterCoreType DEF Verify, Kinds, ProcessTypes
  <2> QED BY <1>8, <2>1 DEF Verify, StoreTypes, ProcessTypes, LocalTypes
<1>9. CASE Report(t)
  <2>1. ControlTypes'
    BY <1>9, StepNames DEF Report, ControlTypes, Answers
  <2>2. evidence' \subseteq Threads \X Kinds
    BY <1>9 DEF Report, ProcessTypes, Kinds
  <2> QED BY <1>9, <2>1, <2>2 DEF Report, StoreTypes, ProcessTypes, LocalTypes
<1> QED BY <1>1, <1>2, <1>3, <1>4, <1>5, <1>6, <1>7, <1>8, <1>9 DEF Execution

LEMMA StartupType == ASSUME TypeOK, Startup PROVE TypeOK'
<1> USE DEF TypeOK, process, locals
<1>1. CASE FinishStartup
  BY <1>1 DEF FinishStartup, Divergent, StoreTypes, ProcessTypes, ControlTypes, LocalTypes, stores
<1>2. ASSUME NEW a \in Actions, ReconcileHold(a) PROVE TypeOK'
  <2>1. StoreTypes'
    BY <1>2 DEF ReconcileHold, Stale, Terminal, HoldStatus, StoreTypes
  <2> QED BY <1>2, <2>1 DEF ReconcileHold, ProcessTypes, ControlTypes, LocalTypes
<1>3. ASSUME NEW a \in Actions, ReconcileFails(a) PROVE TypeOK'
  <2>1. StoreTypes'
    BY <1>3 DEF ReconcileFails, Stale, Terminal, HoldStatus, StoreTypes
  <2> QED BY <1>3, <2>1 DEF ReconcileFails, Divergent, ProcessTypes, ControlTypes, LocalTypes
<1> QED BY <1>1, <1>2, <1>3 DEF Startup

LEMMA RestartType == ASSUME TypeOK, Restart PROVE TypeOK'
<1> USE DEF TypeOK
<1>1. ControlTypes'
  BY StepNames DEF Restart, ControlTypes, Answers
<1> QED BY <1>1 DEF Restart, StoreTypes, ProcessTypes, LocalTypes, HoldStatus, locals

LEMMA IdleType == ASSUME TypeOK, Tick \/ Quiet \/ UNCHANGED vars PROVE TypeOK'
<1> USE DEF TypeOK, stores, process, locals
<1>1. CASE Tick
  BY <1>1 DEF Tick, StoreTypes, ProcessTypes, ControlTypes, LocalTypes
<1>2. CASE UNCHANGED vars
  BY <1>2 DEF vars, StoreTypes, ProcessTypes, ControlTypes, LocalTypes
<1> QED BY <1>1, <1>2 DEF Quiet

LEMMA NextType == TypeOK /\ [Next]_vars => TypeOK'
BY ProposalType, SubmitType, ApprovalType, ExecutionType, StartupType, RestartType,
   IdleType DEF Next

(* Type correctness: every store, process variable and thread keeps its    *)
(* type, through every interleaving, failed write and restart.             *)
THEOREM TypeCorrect == Spec => []TypeOK
BY InitType, NextType, PTL DEF Spec

-----------------------------------------------------------------------------
(* One process life.                                                       *)

LEMMA LockHeldStep ==
  ASSUME LifeInv, [Next]_vars PROVE LockHeld'
<1> USE DEF LifeInv, TypeOK, ControlTypes, At, Goto, Answer, Return, Abort,
  LockHeld, Holding, LockedSteps, CoreSteps
<1>1. ASSUME NEW a \in Actions, Proposal(a) PROVE LockHeld'
  BY <1>1, NamesAssumption DEF Proposal, ProposeDenied, ProposeRejected,
    ProposeHeld, RecordHold, ProposeAuto
<1>2. ASSUME NEW r \in Requests, Submit(r) PROVE LockHeld'
  BY <1>2 DEF Submit
<1>3. ASSUME NEW r \in Requests, Approval(r) PROVE LockHeld'
  BY <1>3, NamesAssumption DEF Approval, Acquire, ReadHold, ResolveHold,
    RecordDecision, Release, LockFree
<1>4. ASSUME NEW t \in Threads, Execution(t) PROVE LockHeld'
  BY <1>4, NamesAssumption DEF Execution, Mint, Block, NoAdapter, PassGate,
    Invoke, Audit, Trace, Verify, Report, Write, AfterCore
<1>5. CASE Startup
  BY <1>5 DEF Startup, FinishStartup, ReconcileHold, ReconcileFails
<1>6. CASE Restart
  BY <1>6 DEF Restart, InFlight
<1>7. CASE Tick \/ Quiet \/ UNCHANGED vars
  BY <1>7 DEF Tick, Quiet, vars
<1> QED BY <1>1, <1>2, <1>3, <1>4, <1>5, <1>6, <1>7 DEF Next

LEMMA ThisLifeStep ==
  ASSUME LifeInv, [Next]_vars PROVE ThisLife'
<1> USE DEF LifeInv, TypeOK, ControlTypes, At, Goto, Answer, Return, Abort,
  ProcessTypes, LocalTypes, ThisLife, InFlight, process, locals
<1>1. ASSUME NEW a \in Actions, Proposal(a) PROVE ThisLife'
  BY <1>1, NamesAssumption DEF Proposal, ProposeDenied, ProposeRejected,
    ProposeHeld, RecordHold, ProposeAuto
<1>2. ASSUME NEW r \in Requests, Submit(r) PROVE ThisLife'
  BY <1>2, NamesAssumption DEF Submit
<1>3. ASSUME NEW r \in Requests, Approval(r) PROVE ThisLife'
  BY <1>3, NamesAssumption DEF Approval, Acquire, ReadHold, ResolveHold,
    RecordDecision, Release
<1>4. ASSUME NEW t \in Threads, Execution(t) PROVE ThisLife'
  BY <1>4, NamesAssumption DEF Execution, Mint, Block, NoAdapter, PassGate,
    Invoke, Audit, Trace, Verify, Report, Write, AfterCore
<1>5. CASE Startup
  BY <1>5, NamesAssumption DEF Startup, FinishStartup, ReconcileHold,
    ReconcileFails
<1>6. CASE Restart
  BY <1>6, NamesAssumption DEF Restart, InFlight
<1>7. CASE Tick \/ Quiet \/ UNCHANGED vars
  BY <1>7, NamesAssumption DEF Tick, Quiet, vars
<1> QED BY <1>1, <1>2, <1>3, <1>4, <1>5, <1>6, <1>7 DEF Next

LEMMA OwnStepsStep ==
  ASSUME LifeInv, [Next]_vars PROVE OwnSteps'
<1> USE DEF LifeInv, TypeOK, ControlTypes, At, Goto, Answer, Return, Abort,
  LocalTypes, OwnSteps, LockedSteps, NothingBefore, locals, Known
<1>1. ASSUME NEW a \in Actions, Proposal(a) PROVE OwnSteps'
  BY <1>1, NamesAssumption DEF Proposal, ProposeDenied, ProposeRejected,
    ProposeHeld, RecordHold, ProposeAuto
<1>2. ASSUME NEW r \in Requests, Submit(r) PROVE OwnSteps'
  BY <1>2, NamesAssumption DEF Submit
<1>3. ASSUME NEW r \in Requests, Approval(r) PROVE OwnSteps'
  BY <1>3, NamesAssumption DEF Approval, Acquire, ReadHold, ResolveHold,
    RecordDecision, Release
<1>4. ASSUME NEW t \in Threads, Execution(t) PROVE OwnSteps'
  BY <1>4, NamesAssumption DEF Execution, Mint, Block, NoAdapter, PassGate,
    Invoke, Audit, Trace, Verify, Report, Write, AfterCore
<1>5. CASE Startup
  BY <1>5, NamesAssumption DEF Startup, FinishStartup, ReconcileHold,
    ReconcileFails
<1>6. CASE Restart
  BY <1>6, NamesAssumption DEF Restart, InFlight
<1>7. CASE Tick \/ Quiet \/ UNCHANGED vars
  BY <1>7, NamesAssumption DEF Tick, Quiet, vars
<1> QED BY <1>1, <1>2, <1>3, <1>4, <1>5, <1>6, <1>7 DEF Next

LEMMA NothingBeforeStep ==
  ASSUME LifeInv, [Next]_vars PROVE NothingBefore'
<1> USE DEF LifeInv, TypeOK, ControlTypes, At, Goto, Answer, Return, Abort,
  StoreTypes, NothingBefore, OwnSteps, stores
<1>1. ASSUME NEW a \in Actions, Proposal(a) PROVE NothingBefore'
  BY <1>1, NamesAssumption DEF Proposal, ProposeDenied, ProposeRejected,
    ProposeHeld, RecordHold, ProposeAuto
<1>2. ASSUME NEW r \in Requests, Submit(r) PROVE NothingBefore'
  BY <1>2, NamesAssumption DEF Submit
<1>3. ASSUME NEW r \in Requests, Approval(r) PROVE NothingBefore'
  BY <1>3, NamesAssumption DEF Approval, Acquire, ReadHold, ResolveHold,
    RecordDecision, Release, Amend, LockedSteps
<1>4. ASSUME NEW t \in Threads, Execution(t) PROVE NothingBefore'
  BY <1>4, NamesAssumption DEF Execution, Mint, Block, NoAdapter, PassGate,
    Invoke, Audit, Trace, Verify, Report, Write, AfterCore
<1>5. CASE Startup
  BY <1>5, NamesAssumption DEF Startup, FinishStartup, ReconcileHold,
    ReconcileFails, Stale, Terminal
<1>6. CASE Restart
  BY <1>6, NamesAssumption DEF Restart, InFlight
<1>7. CASE Tick \/ Quiet \/ UNCHANGED vars
  BY <1>7, NamesAssumption DEF Tick, Quiet, vars
<1> QED BY <1>1, <1>2, <1>3, <1>4, <1>5, <1>6, <1>7 DEF Next

LEMMA AutoNotHeldStep ==
  ASSUME LifeInv, [Next]_vars PROVE AutoNotHeld'
<1> USE DEF LifeInv, TypeOK, ControlTypes, At, Goto, Answer, Return, Abort,
  StoreTypes, AutoNotHeld, OwnSteps, AuthorizedSteps, AloneThisLife,
  NothingBefore, stores, CoreSteps, LockedSteps, Before
<1>1. ASSUME NEW a \in Actions, Proposal(a) PROVE AutoNotHeld'
  BY <1>1, NamesAssumption DEF Proposal, ProposeDenied, ProposeRejected,
    ProposeHeld, RecordHold, ProposeAuto
<1>2. ASSUME NEW r \in Requests, Submit(r) PROVE AutoNotHeld'
  BY <1>2, NamesAssumption DEF Submit
<1>3. ASSUME NEW r \in Requests, Approval(r) PROVE AutoNotHeld'
  BY <1>3, NamesAssumption DEF Approval, Acquire, ReadHold, ResolveHold,
    RecordDecision, Release, Terminal
<1>4. ASSUME NEW t \in Threads, Execution(t) PROVE AutoNotHeld'
  BY <1>4, NamesAssumption DEF Execution, Mint, Block, NoAdapter, PassGate,
    Invoke, Audit, Trace, Verify, Report, Write, AfterCore
<1>5. CASE Startup
  BY <1>5, NamesAssumption DEF Startup, FinishStartup, ReconcileHold,
    ReconcileFails, Stale, Terminal
<1>6. CASE Restart
  BY <1>6, NamesAssumption DEF Restart, InFlight
<1>7. CASE Tick \/ Quiet \/ UNCHANGED vars
  BY <1>7, NamesAssumption DEF Tick, Quiet, vars
<1> QED BY <1>1, <1>2, <1>3, <1>4, <1>5, <1>6, <1>7 DEF Next

LEMMA AuthorizedStepsStep ==
  ASSUME LifeInv, [Next]_vars PROVE AuthorizedSteps'
<1> USE DEF LifeInv, TypeOK, ControlTypes, At, Goto, Answer, Return, Abort,
  AuthorizedSteps, OwnSteps, Before, CoreSteps, LockedSteps
<1>1. ASSUME NEW a \in Actions, Proposal(a) PROVE AuthorizedSteps'
  BY <1>1, NamesAssumption DEF Proposal, ProposeDenied, ProposeRejected,
    ProposeHeld, RecordHold, ProposeAuto
<1>2. ASSUME NEW r \in Requests, Submit(r) PROVE AuthorizedSteps'
  BY <1>2, NamesAssumption DEF Submit
<1>3. ASSUME NEW r \in Requests, Approval(r) PROVE AuthorizedSteps'
  BY <1>3, NamesAssumption DEF Approval, Acquire, ReadHold, ResolveHold,
    RecordDecision, Release
<1>4. ASSUME NEW t \in Threads, Execution(t) PROVE AuthorizedSteps'
  BY <1>4, NamesAssumption DEF Execution, Mint, Block, NoAdapter, PassGate,
    Invoke, Audit, Trace, Verify, Report, Write, AfterCore
<1>5. CASE Startup
  BY <1>5, NamesAssumption DEF Startup, FinishStartup, ReconcileHold,
    ReconcileFails
<1>6. CASE Restart
  BY <1>6, NamesAssumption DEF Restart, InFlight
<1>7. CASE Tick \/ Quiet \/ UNCHANGED vars
  BY <1>7, NamesAssumption DEF Tick, Quiet, vars
<1> QED BY <1>1, <1>2, <1>3, <1>4, <1>5, <1>6, <1>7 DEF Next

LEMMA ResolvedThisLifeStep ==
  ASSUME LifeInv, [Next]_vars PROVE ResolvedThisLife'
<1> USE DEF LifeInv, TypeOK, ControlTypes, At, Goto, Answer, Return, Abort,
  StoreTypes, LocalTypes, ProcessTypes, ResolvedThisLife, OwnSteps,
  AloneThisLife, AuthorizedSteps, ThisLife, NothingBefore, Before, LockedSteps,
  Terminal, stores, process, locals
<1>1. ASSUME NEW a \in Actions, Proposal(a) PROVE ResolvedThisLife'
  BY <1>1, NamesAssumption DEF Proposal, ProposeDenied, ProposeRejected,
    ProposeHeld, RecordHold, ProposeAuto
<1>2. ASSUME NEW r \in Requests, Submit(r) PROVE ResolvedThisLife'
  BY <1>2, NamesAssumption DEF Submit
<1>3. ASSUME NEW r \in Requests, Approval(r) PROVE ResolvedThisLife'
  BY <1>3, NamesAssumption DEF Approval, Acquire, ReadHold, ResolveHold,
    RecordDecision, Release, Decision
<1>4. ASSUME NEW t \in Threads, Execution(t) PROVE ResolvedThisLife'
  BY <1>4, NamesAssumption DEF Execution, Mint, Block, NoAdapter, PassGate,
    Invoke, Audit, Trace, Verify, Report, Write, AfterCore
<1>5. CASE Startup
  BY <1>5, NamesAssumption DEF Startup, FinishStartup, ReconcileHold,
    ReconcileFails, Stale
<1>6. CASE Restart
  BY <1>6, NamesAssumption DEF Restart, InFlight
<1>7. CASE Tick \/ Quiet \/ UNCHANGED vars
  BY <1>7, NamesAssumption DEF Tick, Quiet, vars
<1> QED BY <1>1, <1>2, <1>3, <1>4, <1>5, <1>6, <1>7 DEF Next

LEMMA AloneThisLifeStep ==
  ASSUME LifeInv, [Next]_vars PROVE AloneThisLife'
<1> USE DEF LifeInv, TypeOK, ControlTypes, At, Goto, Answer, Return, Abort,
  StoreTypes, LocalTypes, ProcessTypes, ResolvedThisLife, OwnSteps,
  AloneThisLife, AutoNotHeld, AuthorizedSteps, LockHeld, ThisLife,
  NothingBefore, Before, Holding, LockedSteps, CoreSteps, Terminal, stores,
  process, locals
<1>1. ASSUME NEW a \in Actions, Proposal(a) PROVE AloneThisLife'
  BY <1>1, NamesAssumption DEF Proposal, ProposeDenied, ProposeRejected,
    ProposeHeld, RecordHold, ProposeAuto
<1>2. ASSUME NEW r \in Requests, Submit(r) PROVE AloneThisLife'
  BY <1>2, NamesAssumption DEF Submit
<1>3. ASSUME NEW r \in Requests, Approval(r) PROVE AloneThisLife'
  BY <1>3, NamesAssumption DEF Approval, Acquire, ReadHold, ResolveHold,
    RecordDecision, Release, Decision
<1>4. ASSUME NEW t \in Threads, Execution(t) PROVE AloneThisLife'
  BY <1>4, NamesAssumption DEF Execution, Mint, Block, NoAdapter, PassGate,
    Invoke, Audit, Trace, Verify, Report, Write, AfterCore
<1>5. CASE Startup
  BY <1>5, NamesAssumption DEF Startup, FinishStartup, ReconcileHold,
    ReconcileFails, Stale, InFlight
<1>6. CASE Restart
  BY <1>6, NamesAssumption DEF Restart, InFlight
<1>7. CASE Tick \/ Quiet \/ UNCHANGED vars
  BY <1>7, NamesAssumption DEF Tick, Quiet, vars
<1> QED BY <1>1, <1>2, <1>3, <1>4, <1>5, <1>6, <1>7 DEF Next

LEMMA AnswerAtEndStep ==
  ASSUME LifeInv, [Next]_vars PROVE AnswerAtEnd'
<1> USE DEF LifeInv, TypeOK, ControlTypes, At, Goto, Answer, Return, Abort,
  AnswerAtEnd
<1>1. ASSUME NEW a \in Actions, Proposal(a) PROVE AnswerAtEnd'
  BY <1>1, NamesAssumption DEF Proposal, ProposeDenied, ProposeRejected,
    ProposeHeld, RecordHold, ProposeAuto
<1>2. ASSUME NEW r \in Requests, Submit(r) PROVE AnswerAtEnd'
  BY <1>2, NamesAssumption DEF Submit
<1>3. ASSUME NEW r \in Requests, Approval(r) PROVE AnswerAtEnd'
  BY <1>3, NamesAssumption DEF Approval, Acquire, ReadHold, ResolveHold,
    RecordDecision, Release
<1>4. ASSUME NEW t \in Threads, Execution(t) PROVE AnswerAtEnd'
  BY <1>4, NamesAssumption DEF Execution, Mint, Block, NoAdapter, PassGate,
    Invoke, Audit, Trace, Verify, Report, Write, AfterCore, OwnSteps,
    LockedSteps
<1>5. CASE Startup
  BY <1>5, NamesAssumption DEF Startup, FinishStartup, ReconcileHold,
    ReconcileFails
<1>6. CASE Restart
  BY <1>6, NamesAssumption DEF Restart, InFlight
<1>7. CASE Tick \/ Quiet \/ UNCHANGED vars
  BY <1>7, NamesAssumption DEF Tick, Quiet, vars
<1> QED BY <1>1, <1>2, <1>3, <1>4, <1>5, <1>6, <1>7 DEF Next

LEMMA InvokedIsAuthorizedStep ==
  ASSUME LifeInv, [Next]_vars PROVE InvokedIsAuthorized'
<1> USE DEF LifeInv, TypeOK, ControlTypes, At, Goto, Answer, Return, Abort,
  ProcessTypes, process, InvokedIsAuthorized, AuthorizedSteps, OwnSteps,
  Before, CoreSteps
<1>1. ASSUME NEW a \in Actions, Proposal(a) PROVE InvokedIsAuthorized'
  BY <1>1, NamesAssumption DEF Proposal, ProposeDenied, ProposeRejected,
    ProposeHeld, RecordHold, ProposeAuto
<1>2. ASSUME NEW r \in Requests, Submit(r) PROVE InvokedIsAuthorized'
  BY <1>2, NamesAssumption DEF Submit
<1>3. ASSUME NEW r \in Requests, Approval(r) PROVE InvokedIsAuthorized'
  BY <1>3, NamesAssumption DEF Approval, Acquire, ReadHold, ResolveHold,
    RecordDecision, Release
<1>4. ASSUME NEW t \in Threads, Execution(t) PROVE InvokedIsAuthorized'
  BY <1>4, NamesAssumption DEF Execution, Mint, Block, NoAdapter, PassGate,
    Invoke, Audit, Trace, Verify, Report, Write, AfterCore, OwnSteps,
    LockedSteps
<1>5. CASE Startup
  BY <1>5, NamesAssumption DEF Startup, FinishStartup, ReconcileHold,
    ReconcileFails
<1>6. CASE Restart
  BY <1>6, NamesAssumption DEF Restart, InFlight
<1>7. CASE Tick \/ Quiet \/ UNCHANGED vars
  BY <1>7, NamesAssumption DEF Tick, Quiet, vars
<1> QED BY <1>1, <1>2, <1>3, <1>4, <1>5, <1>6, <1>7 DEF Next

LEMMA EvidenceSoFarStep ==
  ASSUME LifeInv, [Next]_vars PROVE EvidenceSoFar'
<1> USE NamesAssumption DEF LifeInv, TypeOK, ControlTypes, At, EvidenceSoFar,
  EvidenceOf, Returned
<1>1. ASSUME NEW a \in Actions, Proposal(a) PROVE EvidenceSoFar'
  <2> USE DEF process, Answer, Goto, Abort
  <2>1. CASE ProposeDenied(a) BY <2>1 DEF ProposeDenied
  <2>2. CASE ProposeRejected(a) BY <2>2 DEF ProposeRejected
  <2>3. CASE ProposeHeld(a) BY <2>3 DEF ProposeHeld
  <2>4. CASE RecordHold(a) BY <2>4 DEF RecordHold
  <2>5. CASE ProposeAuto(a) BY <2>5 DEF ProposeAuto
  <2> QED BY <1>1, <2>1, <2>2, <2>3, <2>4, <2>5 DEF Proposal
<1>2. ASSUME NEW r \in Requests, Submit(r) PROVE EvidenceSoFar'
  BY <1>2 DEF Submit, Goto
<1>3. ASSUME NEW r \in Requests, Approval(r) PROVE EvidenceSoFar'
  <2> USE DEF process, Goto, Return, Abort
  <2>1. CASE Acquire(r) BY <2>1 DEF Acquire
  <2>2. CASE ReadHold(r) BY <2>2 DEF ReadHold
  <2>3. CASE ResolveHold(r) BY <2>3 DEF ResolveHold
  <2>4. CASE RecordDecision(r) BY <2>4 DEF RecordDecision
  <2>5. CASE Release(r) BY <2>5 DEF Release
  <2> QED BY <1>3, <2>1, <2>2, <2>3, <2>4, <2>5 DEF Approval
<1>4. ASSUME NEW t \in Threads, Execution(t) PROVE EvidenceSoFar'
  <2> USE DEF process, AnswerAtEnd, AuthorizedSteps, InvokedIsAuthorized,
    Before, CoreSteps, ProcessTypes, LocalTypes, AfterCore, Write, Goto, Abort
  <2>1. CASE Mint(t) BY <2>1 DEF Mint
  <2>2. CASE Block(t)
    <3>1. t \notin invoked
      BY <2>2 DEF Block
    <3>2. CASE Goto(t, AfterCore(t))
      BY <2>2, <3>1, <3>2 DEF Block
    <3>3. CASE Abort(t)
      BY <2>2, <3>1, <3>3 DEF Block
    <3> QED BY <2>2, <3>2, <3>3 DEF Block
  <2>3. CASE NoAdapter(t) BY <2>3 DEF NoAdapter
  <2>4. CASE PassGate(t) BY <2>4 DEF PassGate
  <2>5. CASE Invoke(t) BY <2>5 DEF Invoke
  <2>6. CASE Audit(t)
    <3>1. CASE Goto(t, "tracing")
      BY <2>6, <3>1 DEF Audit
    <3>2. CASE Abort(t)
      BY <2>6, <3>2 DEF Audit
    <3> QED BY <2>6, <3>1, <3>2 DEF Audit
  <2>7. CASE Trace(t)
    <3>1. CASE Goto(t, "verifying")
      BY <2>7, <3>1 DEF Trace
    <3>2. CASE Goto(t, AfterCore(t))
      BY <2>7, <3>2 DEF Trace
    <3>3. CASE Abort(t)
      BY <2>7, <3>3 DEF Trace
    <3> QED BY <2>7, <3>1, <3>2, <3>3 DEF Trace
  <2>8. CASE Verify(t)
    <3>1. CASE Goto(t, AfterCore(t))
      BY <2>8, <3>1 DEF Verify
    <3>2. CASE Abort(t)
      BY <2>8, <3>2 DEF Verify
    <3> QED BY <2>8, <3>1, <3>2 DEF Verify
  <2>9. CASE Report(t) BY <2>9 DEF Report
  <2> QED BY <1>4, <2>1, <2>2, <2>3, <2>4, <2>5, <2>6, <2>7, <2>8, <2>9 DEF
    Execution
<1>5. CASE Startup
  BY <1>5 DEF Startup, FinishStartup, ReconcileHold, ReconcileFails
<1>6. CASE Restart
  BY <1>6 DEF Restart, InFlight
<1>7. CASE Tick \/ Quiet \/ UNCHANGED vars
  BY <1>7 DEF Tick, Quiet, vars, process
<1> QED BY <1>1, <1>2, <1>3, <1>4, <1>5, <1>6, <1>7 DEF Next

LEMMA OnePerLifeStep ==
  ASSUME LifeInv, [Next]_vars PROVE OneAuthorizationPerLife'
<1> USE DEF LifeInv, TypeOK, ControlTypes, At, Goto, Answer, Return, Abort,
  LocalTypes, ProcessTypes, OneAuthorizationPerLife, ResolvedThisLife,
  AloneThisLife, AutoNotHeld, AuthorizedSteps, ThisLife, InFlight, OwnSteps,
  Before, CoreSteps, Terminal, process, locals
<1>1. ASSUME NEW a \in Actions, Proposal(a) PROVE OneAuthorizationPerLife'
  BY <1>1, NamesAssumption DEF Proposal, ProposeDenied, ProposeRejected,
    ProposeHeld, RecordHold, ProposeAuto
<1>2. ASSUME NEW r \in Requests, Submit(r) PROVE OneAuthorizationPerLife'
  BY <1>2, NamesAssumption DEF Submit
<1>3. ASSUME NEW r \in Requests, Approval(r) PROVE OneAuthorizationPerLife'
  BY <1>3, NamesAssumption DEF Approval, Acquire, ReadHold, ResolveHold,
    RecordDecision, Release
<1>4. ASSUME NEW t \in Threads, Execution(t) PROVE OneAuthorizationPerLife'
  BY <1>4, NamesAssumption DEF Execution, Mint, Block, NoAdapter, PassGate,
    Invoke, Audit, Trace, Verify, Report, Write, AfterCore
<1>5. CASE Startup
  BY <1>5, NamesAssumption DEF Startup, FinishStartup, ReconcileHold,
    ReconcileFails
<1>6. CASE Restart
  BY <1>6, NamesAssumption DEF Restart, InFlight
<1>7. CASE Tick \/ Quiet \/ UNCHANGED vars
  BY <1>7, NamesAssumption DEF Tick, Quiet, vars
<1> QED BY <1>1, <1>2, <1>3, <1>4, <1>5, <1>6, <1>7 DEF Next

LEMMA InitLife == Init => LifeInv
<1> SUFFICES ASSUME Init PROVE LifeInv
  OBVIOUS
<1>1. TypeOK
  BY InitType
<1> QED BY <1>1, NamesAssumption DEF Init, LifeInv, LockHeld, Holding,
  LockedSteps, CoreSteps, ThisLife, InFlight, OwnSteps, NothingBefore,
  AutoNotHeld, AuthorizedSteps, ResolvedThisLife, AloneThisLife, AnswerAtEnd,
  InvokedIsAuthorized, EvidenceSoFar, Returned, OneAuthorizationPerLife

LEMMA NextLife == LifeInv /\ [Next]_vars => LifeInv'
<1> SUFFICES ASSUME LifeInv, [Next]_vars PROVE LifeInv'
  OBVIOUS
<1>1. TypeOK'
  BY NextType DEF LifeInv
<1> QED BY <1>1, LockHeldStep, ThisLifeStep, OwnStepsStep, NothingBeforeStep,
  AutoNotHeldStep, AuthorizedStepsStep, ResolvedThisLifeStep,
  AloneThisLifeStep, AnswerAtEndStep, InvokedIsAuthorizedStep,
  EvidenceSoFarStep, OnePerLifeStep DEF LifeInv

THEOREM LifeInvariant == Spec => []LifeInv
BY InitLife, NextLife, PTL DEF Spec

(* However approvals race, the continuation lock and the hold's status in  *)
(* memory give one authorization per action and process life -- also when  *)
(* ids leak from GET /ops/holds and when the startup reconcile fails.      *)
THEOREM AtMostOncePerLife == Spec => []OneAuthorizationPerLife
<1>1. LifeInv => OneAuthorizationPerLife
  BY DEF LifeInv
<1> QED BY <1>1, LifeInvariant, PTL

(* "executed" is answered only after the evidence of the execution is on   *)
(* disk, whichever store write fails and wherever the process dies.        *)
THEOREM EvidenceFirst == Spec => []EvidenceBeforeAnswer
<1>1. LifeInv => EvidenceBeforeAnswer
  BY DEF LifeInv, EvidenceSoFar, EvidenceBeforeAnswer
<1> QED BY <1>1, LifeInvariant, PTL

-----------------------------------------------------------------------------
(* Across restarts.                                                        *)

LEMMA AnsweredStep ==
  ASSUME StoreInv, Orderly, [Next]_vars PROVE Answered'
<1> USE DEF StoreInv, LifeInv, TypeOK, ControlTypes, At, Goto, Answer, Return,
  Abort, LocalTypes, Answered, OwnSteps, locals, Known, Orderly, LockedSteps,
  AnswerAtEnd
<1>1. ASSUME NEW a \in Actions, Proposal(a) PROVE Answered'
  BY <1>1, NamesAssumption DEF Proposal, ProposeDenied, ProposeRejected,
    ProposeHeld, RecordHold, ProposeAuto
<1>2. ASSUME NEW r \in Requests, Submit(r) PROVE Answered'
  BY <1>2, NamesAssumption DEF Submit
<1>3. ASSUME NEW r \in Requests, Approval(r) PROVE Answered'
  BY <1>3, NamesAssumption DEF Approval, Acquire, ReadHold, ResolveHold,
    RecordDecision, Release
<1>4. ASSUME NEW t \in Threads, Execution(t) PROVE Answered'
  BY <1>4, NamesAssumption DEF Execution, Mint, Block, NoAdapter, PassGate,
    Invoke, Audit, Trace, Verify, Report, Write, AfterCore
<1>5. CASE Startup
  BY <1>5, NamesAssumption DEF Startup, FinishStartup, ReconcileHold,
    ReconcileFails
<1>6. CASE Restart
  BY <1>6, NamesAssumption DEF Restart, InFlight
<1>7. CASE Tick \/ Quiet \/ UNCHANGED vars
  BY <1>7, NamesAssumption DEF Tick, Quiet, vars
<1> QED BY <1>1, <1>2, <1>3, <1>4, <1>5, <1>6, <1>7 DEF Next

LEMMA HeldIsStoredStep ==
  ASSUME StoreInv, Orderly, [Next]_vars PROVE HeldIsStored'
<1> USE DEF StoreInv, LifeInv, TypeOK, ControlTypes, At, Goto, Answer, Return,
  Abort, StoreTypes, HeldIsStored, NothingBefore, AutoNotHeld, RecordAhead,
  OwnSteps, CoreSteps, LockedSteps, AloneThisLife, stores
<1>1. ASSUME NEW a \in Actions, Proposal(a) PROVE HeldIsStored'
  BY <1>1, NamesAssumption DEF Proposal, ProposeDenied, ProposeRejected,
    ProposeHeld, RecordHold, ProposeAuto
<1>2. ASSUME NEW r \in Requests, Submit(r) PROVE HeldIsStored'
  BY <1>2, NamesAssumption DEF Submit
<1>3. ASSUME NEW r \in Requests, Approval(r) PROVE HeldIsStored'
  BY <1>3, NamesAssumption DEF Approval, Acquire, ReadHold, ResolveHold,
    RecordDecision, Release, Amend, Decision
<1>4. ASSUME NEW t \in Threads, Execution(t) PROVE HeldIsStored'
  BY <1>4, NamesAssumption DEF Execution, Mint, Block, NoAdapter, PassGate,
    Invoke, Audit, Trace, Verify, Report, Write, AfterCore
<1>5. CASE Startup
  BY <1>5, NamesAssumption DEF Startup, FinishStartup, ReconcileHold,
    ReconcileFails, Stale, Terminal
<1>6. CASE Restart
  BY <1>6, NamesAssumption DEF Restart, InFlight
<1>7. CASE Tick \/ Quiet \/ UNCHANGED vars
  BY <1>7, NamesAssumption DEF Tick, Quiet, vars
<1> QED BY <1>1, <1>2, <1>3, <1>4, <1>5, <1>6, <1>7 DEF Next

LEMMA RecordAheadStep ==
  ASSUME StoreInv, Orderly, [Next]_vars PROVE RecordAhead'
<1> USE DEF StoreInv, LifeInv, TypeOK, ControlTypes, At, Goto, Answer, Return,
  Abort, StoreTypes, RecordAhead, NothingBefore, OwnSteps, Alone, Terminal,
  stores
<1>1. ASSUME NEW a \in Actions, Proposal(a) PROVE RecordAhead'
  BY <1>1, NamesAssumption DEF Proposal, ProposeDenied, ProposeRejected,
    ProposeHeld, RecordHold, ProposeAuto
<1>2. ASSUME NEW r \in Requests, Submit(r) PROVE RecordAhead'
  BY <1>2, NamesAssumption DEF Submit
<1>3. ASSUME NEW r \in Requests, Approval(r) PROVE RecordAhead'
  BY <1>3, NamesAssumption DEF Approval, Acquire, ReadHold, ResolveHold,
    RecordDecision, Release, Amend, Decision, LockedSteps, Answered
<1>4. ASSUME NEW t \in Threads, Execution(t) PROVE RecordAhead'
  BY <1>4, NamesAssumption DEF Execution, Mint, Block, NoAdapter, PassGate,
    Invoke, Audit, Trace, Verify, Report, Write, AfterCore
<1>5. CASE Startup
  BY <1>5, NamesAssumption DEF Startup, FinishStartup, ReconcileHold,
    ReconcileFails
<1>6. CASE Restart
  BY <1>6, NamesAssumption DEF Restart, InFlight
<1>7. CASE Tick \/ Quiet \/ UNCHANGED vars
  BY <1>7, NamesAssumption DEF Tick, Quiet, vars
<1> QED BY <1>1, <1>2, <1>3, <1>4, <1>5, <1>6, <1>7 DEF Next

LEMMA NoneStaleStep ==
  ASSUME StoreInv, Orderly, [Next]_vars PROVE NoneStale'
<1> USE DEF StoreInv, LifeInv, TypeOK, ControlTypes, At, Goto, Answer, Return,
  Abort, StoreTypes, NoneStale, Stale, Terminal, NothingBefore, AloneThisLife,
  OwnSteps, Orderly, stores, process
<1>1. ASSUME NEW a \in Actions, Proposal(a) PROVE NoneStale'
  BY <1>1, NamesAssumption DEF Proposal, ProposeDenied, ProposeRejected,
    ProposeHeld, RecordHold, ProposeAuto
<1>2. ASSUME NEW r \in Requests, Submit(r) PROVE NoneStale'
  BY <1>2, NamesAssumption DEF Submit
<1>3. ASSUME NEW r \in Requests, Approval(r) PROVE NoneStale'
  BY <1>3, NamesAssumption DEF Approval, Acquire, ReadHold, ResolveHold,
    RecordDecision, Release, Amend, Decision
<1>4. ASSUME NEW t \in Threads, Execution(t) PROVE NoneStale'
  BY <1>4, NamesAssumption DEF Execution, Mint, Block, NoAdapter, PassGate,
    Invoke, Audit, Trace, Verify, Report, Write, AfterCore
<1>5. CASE Startup
  BY <1>5, NamesAssumption DEF Startup, FinishStartup, ReconcileHold,
    ReconcileFails
<1>6. CASE Restart
  BY <1>6, NamesAssumption DEF Restart, InFlight
<1>7. CASE Tick \/ Quiet \/ UNCHANGED vars
  BY <1>7, NamesAssumption DEF Tick, Quiet, vars
<1> QED BY <1>1, <1>2, <1>3, <1>4, <1>5, <1>6, <1>7 DEF Next

LEMMA AuthorizedIsApprovedStep ==
  ASSUME StoreInv, Orderly, [Next]_vars PROVE AuthorizedIsApproved'
<1> USE DEF StoreInv, LifeInv, TypeOK, ControlTypes, At, Goto, Answer, Return,
  Abort, StoreTypes, ProcessTypes, LocalTypes, AuthorizedIsApproved,
  AuthorizedSteps, Answered, HeldIsStored, RecordAhead, Alone, AloneThisLife,
  OwnSteps, NothingBefore, Before, Terminal, stores, process, locals
<1>1. ASSUME NEW a \in Actions, Proposal(a) PROVE AuthorizedIsApproved'
  BY <1>1, NamesAssumption DEF Proposal, ProposeDenied, ProposeRejected,
    ProposeHeld, RecordHold, ProposeAuto
<1>2. ASSUME NEW r \in Requests, Submit(r) PROVE AuthorizedIsApproved'
  BY <1>2, NamesAssumption DEF Submit
<1>3. ASSUME NEW r \in Requests, Approval(r) PROVE AuthorizedIsApproved'
  BY <1>3, NamesAssumption DEF Approval, Acquire, ReadHold, ResolveHold,
    RecordDecision, Release, Amend, Decision
<1>4. ASSUME NEW t \in Threads, Execution(t) PROVE AuthorizedIsApproved'
  BY <1>4, NamesAssumption DEF Execution, Mint, Block, NoAdapter, PassGate,
    Invoke, Audit, Trace, Verify, Report, Write, AfterCore
<1>5. CASE Startup
  BY <1>5, NamesAssumption DEF Startup, FinishStartup, ReconcileHold,
    ReconcileFails, Stale
<1>6. CASE Restart
  BY <1>6, NamesAssumption DEF Restart, InFlight
<1>7. CASE Tick \/ Quiet \/ UNCHANGED vars
  BY <1>7, NamesAssumption DEF Tick, Quiet, vars
<1> QED BY <1>1, <1>2, <1>3, <1>4, <1>5, <1>6, <1>7 DEF Next

LEMMA AloneStep ==
  ASSUME StoreInv, Orderly, [Next]_vars PROVE Alone'
<1> USE DEF StoreInv, LifeInv, TypeOK, ControlTypes, At, Goto, Answer, Return,
  Abort, StoreTypes, ProcessTypes, LocalTypes, Alone, LockHeld, Holding,
  LockedSteps, CoreSteps, Answered, HeldIsStored, NoneStale, Stale,
  AuthorizedIsApproved, AuthorizedSteps, AutoNotHeld, AloneThisLife, OwnSteps,
  NothingBefore, Before, Terminal, stores, process, locals
<1>1. ASSUME NEW a \in Actions, Proposal(a) PROVE Alone'
  BY <1>1, NamesAssumption DEF Proposal, ProposeDenied, ProposeRejected,
    ProposeHeld, RecordHold, ProposeAuto
<1>2. ASSUME NEW r \in Requests, Submit(r) PROVE Alone'
  BY <1>2, NamesAssumption DEF Submit
<1>3. ASSUME NEW r \in Requests, Approval(r) PROVE Alone'
  BY <1>3, NamesAssumption DEF Approval, Acquire, ReadHold, ResolveHold,
    RecordDecision, Release, Amend, Decision
<1>4. ASSUME NEW t \in Threads, Execution(t) PROVE Alone'
  BY <1>4, NamesAssumption DEF Execution, Mint, Block, NoAdapter, PassGate,
    Invoke, Audit, Trace, Verify, Report, Write, AfterCore
<1>5. CASE Startup
  BY <1>5, NamesAssumption DEF Startup, FinishStartup, ReconcileHold,
    ReconcileFails, Stale
<1>6. CASE Restart
  BY <1>6, NamesAssumption DEF Restart, InFlight
<1>7. CASE Tick \/ Quiet \/ UNCHANGED vars
  BY <1>7, NamesAssumption DEF Tick, Quiet, vars
<1> QED BY <1>1, <1>2, <1>3, <1>4, <1>5, <1>6, <1>7 DEF Next

LEMMA ExpiredStaysStep ==
  ASSUME StoreInv, Orderly, [Next]_vars PROVE ExpiredStays'
<1> USE NamesAssumption DEF StoreInv, LifeInv, TypeOK, ControlTypes,
  ProcessTypes, LocalTypes, At, Goto, Answer, Return, Abort, ExpiredStays,
  Expired, OwnSteps, AnswerAtEnd, Answered, process, locals
<1>1. ASSUME NEW a \in Actions, Proposal(a) PROVE ExpiredStays'
  <2>1. \A b \in Actions \ {a} : plan'[b] = plan[b]
    <3>1. CASE ProposeHeld(a)
      <4>1. PICK d \in Adapters : plan' = [plan EXCEPT ![a] = [docker |-> d,
        version |-> version, expires |-> now + HoldTTL]]
        BY <3>1 DEF ProposeHeld
      <4> QED BY <4>1
    <3>2. CASE ProposeAuto(a)
      <4>1. PICK d \in Adapters : plan' = [plan EXCEPT ![a].docker = d,
        ![a].version = version]
        BY <3>2 DEF ProposeAuto
      <4> QED BY <4>1
    <3> QED BY <1>1, <3>1, <3>2 DEF Proposal, ProposeDenied, ProposeRejected,
      RecordHold
  <2>2. \A r \in Requests : answer'[r] = answer[r] /\ pc'[r] = pc[r] /\
    work'[r] = work[r]
    BY <1>1 DEF Proposal, ProposeDenied, ProposeRejected, ProposeHeld,
      RecordHold, ProposeAuto
  <2>3. \A r \in Requests : answer[r] = "expired" => work[r] \in Actions \ {a}
    BY <1>1 DEF Proposal, ProposeDenied, ProposeRejected, ProposeHeld,
      RecordHold, ProposeAuto
  <2>4. authorized' = authorized /\ now' = now /\ work' = work
    BY <1>1 DEF Proposal, ProposeDenied, ProposeRejected, ProposeHeld,
      RecordHold, ProposeAuto
  <2>5. \A u \in Threads \ {a} : pc'[u] = pc[u]
    BY <1>1 DEF Proposal, ProposeDenied, ProposeRejected, ProposeHeld,
      RecordHold, ProposeAuto
  <2> QED BY <2>1, <2>2, <2>3, <2>4, <2>5
<1>2. ASSUME NEW r \in Requests, Submit(r) PROVE ExpiredStays'
  <2>1. answer[r] # "expired" /\ answer' = answer /\ plan' = plan /\ now' = now
    /\ authorized' = authorized
    BY <1>2 DEF Submit
  <2>2. \A u \in Threads : u # r => pc'[u] = pc[u] /\ work'[u] = work[u]
    BY <1>2 DEF Submit
  <2>3. pc'[r] = "waiting" /\ r \notin authorized
    BY <1>2 DEF Submit, AuthorizedSteps, Before
  <2> QED BY <2>1, <2>2, <2>3
<1>3. ASSUME NEW r \in Requests, Approval(r) PROVE ExpiredStays'
  BY <1>3 DEF Approval, Acquire, ReadHold, ResolveHold, RecordDecision,
    Release, LockHeld, Holding, LockedSteps, CoreSteps, NoneStale, Stale,
    AuthorizedIsApproved, Terminal
<1>4. ASSUME NEW t \in Threads, Execution(t) PROVE ExpiredStays'
  BY <1>4 DEF Execution, Mint, Block, NoAdapter, PassGate, Invoke, Audit,
    Trace, Verify, Report, Write, AfterCore
<1>5. CASE Startup
  BY <1>5 DEF Startup, FinishStartup, ReconcileHold, ReconcileFails
<1>6. CASE Restart
  BY <1>6 DEF Restart, InFlight
<1>7. CASE Tick \/ Quiet \/ UNCHANGED vars
  BY <1>7 DEF Tick, Quiet, vars
<1> QED BY <1>1, <1>2, <1>3, <1>4, <1>5, <1>6, <1>7 DEF Next

LEMMA OneAuthorizationStep ==
  ASSUME StoreInv, Orderly, [Next]_vars PROVE OneAuthorization'
<1> USE DEF StoreInv, LifeInv, TypeOK, ControlTypes, At, Goto, Answer, Return,
  Abort, ProcessTypes, LocalTypes, OneAuthorization, Alone, AuthorizedSteps,
  OwnSteps, Before, process, locals
<1>1. ASSUME NEW a \in Actions, Proposal(a) PROVE OneAuthorization'
  BY <1>1, NamesAssumption DEF Proposal, ProposeDenied, ProposeRejected,
    ProposeHeld, RecordHold, ProposeAuto
<1>2. ASSUME NEW r \in Requests, Submit(r) PROVE OneAuthorization'
  BY <1>2, NamesAssumption DEF Submit
<1>3. ASSUME NEW r \in Requests, Approval(r) PROVE OneAuthorization'
  BY <1>3, NamesAssumption DEF Approval, Acquire, ReadHold, ResolveHold,
    RecordDecision, Release
<1>4. ASSUME NEW t \in Threads, Execution(t) PROVE OneAuthorization'
  BY <1>4, NamesAssumption DEF Execution, Mint, Block, NoAdapter, PassGate,
    Invoke, Audit, Trace, Verify, Report, Write, AfterCore
<1>5. CASE Startup
  BY <1>5, NamesAssumption DEF Startup, FinishStartup, ReconcileHold,
    ReconcileFails
<1>6. CASE Restart
  BY <1>6, NamesAssumption DEF Restart, InFlight
<1>7. CASE Tick \/ Quiet \/ UNCHANGED vars
  BY <1>7, NamesAssumption DEF Tick, Quiet, vars
<1> QED BY <1>1, <1>2, <1>3, <1>4, <1>5, <1>6, <1>7 DEF Next

LEMMA RejectionIsFinalStep ==
  ASSUME StoreInv, Orderly, [Next]_vars PROVE RejectionIsFinal'
<1> USE DEF StoreInv, LifeInv, TypeOK, ControlTypes, At, Goto, Answer, Return,
  Abort, StoreTypes, ProcessTypes, LocalTypes, RejectionIsFinal,
  AuthorizedIsApproved, Answered, HeldIsStored, RecordAhead, Alone,
  AloneThisLife, AnswerAtEnd, AuthorizedSteps, Before, OwnSteps, Terminal,
  stores, process, locals
<1>1. ASSUME NEW a \in Actions, Proposal(a) PROVE RejectionIsFinal'
  BY <1>1, NamesAssumption DEF Proposal, ProposeDenied, ProposeRejected,
    ProposeHeld, RecordHold, ProposeAuto
<1>2. ASSUME NEW r \in Requests, Submit(r) PROVE RejectionIsFinal'
  BY <1>2, NamesAssumption DEF Submit
<1>3. ASSUME NEW r \in Requests, Approval(r) PROVE RejectionIsFinal'
  BY <1>3, NamesAssumption DEF Approval, Acquire, ReadHold, ResolveHold,
    RecordDecision, Release, Amend, Decision
<1>4. ASSUME NEW t \in Threads, Execution(t) PROVE RejectionIsFinal'
  BY <1>4, NamesAssumption DEF Execution, Mint, Block, NoAdapter, PassGate,
    Invoke, Audit, Trace, Verify, Report, Write, AfterCore
<1>5. CASE Startup
  BY <1>5, NamesAssumption DEF Startup, FinishStartup, ReconcileHold,
    ReconcileFails
<1>6. CASE Restart
  BY <1>6, NamesAssumption DEF Restart, InFlight
<1>7. CASE Tick \/ Quiet \/ UNCHANGED vars
  BY <1>7, NamesAssumption DEF Tick, Quiet, vars
<1> QED BY <1>1, <1>2, <1>3, <1>4, <1>5, <1>6, <1>7 DEF Next

LEMMA StartupAuditCleanStep ==
  ASSUME StoreInv, Orderly, [Next]_vars PROVE StartupAuditClean'
<1> USE DEF StoreInv, LifeInv, TypeOK, ProcessTypes, StartupAuditClean,
  Orderly, process
<1>1. ASSUME NEW a \in Actions, Proposal(a) PROVE StartupAuditClean'
  BY <1>1 DEF Proposal, ProposeDenied, ProposeRejected, ProposeHeld,
    RecordHold, ProposeAuto
<1>2. ASSUME NEW r \in Requests, Submit(r) PROVE StartupAuditClean'
  BY <1>2 DEF Submit
<1>3. ASSUME NEW r \in Requests, Approval(r) PROVE StartupAuditClean'
  BY <1>3 DEF Approval, Acquire, ReadHold, ResolveHold, RecordDecision, Release
<1>4. ASSUME NEW t \in Threads, Execution(t) PROVE StartupAuditClean'
  BY <1>4 DEF Execution, Mint, Block, NoAdapter, PassGate, Invoke, Audit,
    Trace, Verify, Report, Write, AfterCore
<1>5. CASE Startup
  BY <1>5 DEF Startup, FinishStartup, ReconcileHold, ReconcileFails, Divergent,
    AuthorizedIsApproved, OwnSteps, AuthorizedSteps, Before, AutoNotHeld,
    Answered, Stale, Terminal
<1>6. CASE Restart
  BY <1>6 DEF Restart, InFlight
<1>7. CASE Tick \/ Quiet \/ UNCHANGED vars
  BY <1>7 DEF Tick, Quiet, vars
<1> QED BY <1>1, <1>2, <1>3, <1>4, <1>5, <1>6, <1>7 DEF Next

LEMMA InitStore == Init => StoreInv
<1> SUFFICES ASSUME Init PROVE StoreInv
  OBVIOUS
<1>1. LifeInv
  BY InitLife
<1> QED BY <1>1, NamesAssumption DEF Init, StoreInv, Answered, HeldIsStored,
  RecordAhead, NoneStale, Stale, Terminal, AuthorizedIsApproved, Alone,
  ExpiredStays, OneAuthorization, RejectionIsFinal, StartupAuditClean

LEMMA NextStore == Orderly /\ StoreInv /\ [Next]_vars => StoreInv'
<1> SUFFICES ASSUME Orderly, StoreInv, [Next]_vars PROVE StoreInv'
  OBVIOUS
<1>1. LifeInv'
  BY NextLife DEF StoreInv
<1> QED BY <1>1, AnsweredStep, HeldIsStoredStep, RecordAheadStep,
  NoneStaleStep, AuthorizedIsApprovedStep, AloneStep, ExpiredStaysStep,
  OneAuthorizationStep, RejectionIsFinalStep, StartupAuditCleanStep DEF
  StoreInv

THEOREM StoreInvariant == Orderly => (Spec => []StoreInv)
<1> SUFFICES ASSUME Orderly PROVE Spec => []StoreInv
  OBVIOUS
<1>1. StoreInv /\ [Next]_vars => StoreInv'
  BY NextStore
<1> QED BY <1>1, InitStore, PTL DEF Spec

(* An action is authorized at most once over all process lives: racing     *)
(* approvals, repeated approvals after a restart that forgot the hold's    *)
(* status, and writes that fail in between give no second one.             *)
THEOREM AtMostOnce == Orderly => (Spec => []OneAuthorization)
<1> SUFFICES ASSUME Orderly PROVE Spec => []OneAuthorization
  OBVIOUS
<1>1. StoreInv => OneAuthorization
  BY DEF StoreInv
<1> QED BY <1>1, StoreInvariant, PTL

(* Nothing reaches an adapter but on an authorization saved before, for an *)
(* action whose durable record reads approved.                             *)
THEOREM OnlyApproved == Orderly => (Spec => []InvokedOnlyIfApproved)
<1> SUFFICES ASSUME Orderly PROVE Spec => []InvokedOnlyIfApproved
  OBVIOUS
<1>1. StoreInv => InvokedOnlyIfApproved
  BY DEF StoreInv, LifeInv, InvokedIsAuthorized, AuthorizedIsApproved,
    InvokedOnlyIfApproved
<1> QED BY <1>1, StoreInvariant, PTL

(* A rejection an approver was told of is on disk and stays, and a rejected *)
(* action is never authorized.                                             *)
THEOREM RejectionStays == Orderly => (Spec => []RejectionIsFinal)
<1> SUFFICES ASSUME Orderly PROVE Spec => []RejectionIsFinal
  OBVIOUS
<1>1. StoreInv => RejectionIsFinal
  BY DEF StoreInv
<1> QED BY <1>1, StoreInvariant, PTL

(* No restart revives a hold whose approver was told that it had expired.  *)
THEOREM ExpiryStays == Orderly => (Spec => []ExpiryIsFinal)
<1> SUFFICES ASSUME Orderly PROVE Spec => []ExpiryIsFinal
  OBVIOUS
<1>1. StoreInv => ExpiryIsFinal
  BY DEF StoreInv, ExpiredStays, ExpiryIsFinal
<1> QED BY <1>1, StoreInvariant, PTL

(* The E6 audit of every startup finds nothing.                            *)
THEOREM AuditFindsNothing == Orderly => (Spec => []StartupAuditClean)
<1> SUFFICES ASSUME Orderly PROVE Spec => []StartupAuditClean
  OBVIOUS
<1>1. StoreInv => StartupAuditClean
  BY DEF StoreInv
<1> QED BY <1>1, StoreInvariant, PTL

(* A continuation is let through only for a hold whose record is undecided. *)
THEOREM RecordIsAuthoritative == Orderly => (Spec => ResolvesOnlyUndecided)
<1> SUFFICES ASSUME Orderly PROVE Spec => ResolvesOnlyUndecided
  OBVIOUS
<1>1. StoreInv /\ [Next]_vars =>
          [\A r \in Requests : pc[r] = "reading" /\ pc'[r] = "resolving"
               => recMem[work[r]] \notin Terminal]_vars
  <2> SUFFICES ASSUME StoreInv, Next, NEW r \in Requests, pc[r] = "reading",
    pc'[r] = "resolving"
               PROVE  recMem[work[r]] \notin Terminal
    OBVIOUS
  <2> USE NamesAssumption DEF StoreInv, LifeInv, TypeOK, ControlTypes, At,
    Goto, Answer, Return, Abort
  <2>1. PICK s \in Requests : Approval(s)
    BY DEF Next, Proposal, ProposeDenied, ProposeRejected, ProposeHeld,
      RecordHold, ProposeAuto, Submit, Execution, Mint, Block, NoAdapter,
      PassGate, Invoke, Audit, Trace, Verify, Report, Write, AfterCore,
      Startup, FinishStartup, ReconcileHold, ReconcileFails, Restart, InFlight,
      Tick, Quiet, vars
  <2>2. ReadHold(r)
    BY <2>1 DEF Approval, Acquire, ReadHold, ResolveHold, RecordDecision,
      Release
  <2> QED BY <2>2 DEF ReadHold, NoneStale, Stale, OwnSteps, Terminal
<1> QED BY <1>1, StoreInvariant, PTL DEF Spec, ResolvesOnlyUndecided

-----------------------------------------------------------------------------
(* Refinement.                                                             *)

(* The variables of OneShotDecision are functions of three of the Core's.  *)
RunsOf(a) == {t \in invoked : work[t] = a}

LEMMA AbstractStutter ==
  ASSUME recDisk' = recDisk, \A a \in Actions : RunsOf(a)' = RunsOf(a)
  PROVE  UNCHANGED Abstract!vars
BY DEF Abstract!vars, RunsOf

(* A step that writes one record decides that action, or proposes it.      *)
LEMMA AbstractDecision ==
  ASSUME StoreTypes, NEW a \in Actions, NEW d \in Decisions \ {"none"},
         recDisk' = [recDisk EXCEPT ![a] = d],
         \/ recDisk[a] = "none"
         \/ recDisk[a] = "manual_required" /\ d # "manual_required",
         invoked' = invoked, work' = work
  PROVE  Abstract!Next
<1> DEFINE dec(x) == DecisionOf(recDisk[x])
<1>1. \A x \in Actions : dec(x)' = IF x = a THEN DecisionOf(d) ELSE dec(x)
  BY DEF StoreTypes, DecisionOf
<1>2. [x \in Actions |-> dec(x)'] = [[x \in Actions |-> dec(x)] EXCEPT ![a] =
  DecisionOf(d)]
  BY <1>1 DEF StoreTypes
<1>3. CASE recDisk[a] = "none"
  <2>1. dec(a) = "none" /\ DecisionOf(d) \in {"pending", "approved",
    "rejected"}
    BY <1>3 DEF DecisionOf, Decisions
  <2>2. Abstract!Propose(a)
    BY <1>2, <2>1 DEF Abstract!Propose
  <2> QED BY <2>2 DEF Abstract!Next
<1>4. CASE recDisk[a] = "manual_required" /\ d # "manual_required"
  <2>1. dec(a) = "pending" /\ DecisionOf(d) \in {"approved", "rejected"}
    BY <1>4 DEF DecisionOf, Decisions
  <2>2. Abstract!Decide(a)
    BY <1>2, <2>1 DEF Abstract!Decide
  <2> QED BY <2>2 DEF Abstract!Next
<1> QED BY <1>3, <1>4

LEMMA AbstractInit == Init => Abstract!Init
BY DEF Init, Abstract!Init, DecisionOf

LEMMA AbstractNext ==
  ASSUME Orderly, StoreInv, Next
  PROVE  Abstract!Next \/ UNCHANGED Abstract!vars
<1> USE NamesAssumption DEF StoreInv, LifeInv, TypeOK, At
<1>1. ASSUME NEW a \in Actions, Proposal(a) PROVE Abstract!Next \/ UNCHANGED
  Abstract!vars
  <2>1. recDisk[a] = "none"
    BY <1>1 DEF Proposal, ProposeDenied, ProposeRejected, ProposeHeld,
      RecordHold, ProposeAuto, NothingBefore, RecordAhead
  <2>2. invoked' = invoked /\ work' = work
    BY <1>1 DEF Proposal, ProposeDenied, ProposeRejected, ProposeHeld,
      RecordHold, ProposeAuto, locals
  <2>3. \/ recDisk' = recDisk
        \/ \E d \in {"manual_required", "approved", "rejected"} : recDisk' =
          [recDisk EXCEPT ![a] = d]
    BY <1>1 DEF Proposal, ProposeDenied, ProposeRejected, ProposeHeld,
      RecordHold, ProposeAuto, stores
  <2>4. CASE recDisk' = recDisk
    BY <2>2, <2>4, AbstractStutter DEF RunsOf
  <2>5. ASSUME NEW d \in {"manual_required", "approved", "rejected"}, recDisk'
    = [recDisk EXCEPT ![a] = d]
        PROVE  Abstract!Next
    BY <2>1, <2>2, <2>5, AbstractDecision DEF Decisions
  <2> QED BY <2>3, <2>4, <2>5
<1>2. ASSUME NEW r \in Requests, Submit(r) PROVE UNCHANGED Abstract!vars
  <2>1. r \notin invoked
    BY <1>2 DEF Submit, InvokedIsAuthorized, AuthorizedSteps, Before
  <2>2. recDisk' = recDisk /\ invoked' = invoked /\ \A t \in Threads \ {r} :
    work'[t] = work[t]
    BY <1>2 DEF Submit, LocalTypes, stores
  <2>3. \A a \in Actions : RunsOf(a)' = RunsOf(a)
    BY <2>1, <2>2 DEF RunsOf, ProcessTypes
  <2> QED BY <2>2, <2>3, AbstractStutter
<1>3. ASSUME NEW r \in Requests, Approval(r) PROVE Abstract!Next \/ UNCHANGED
  Abstract!vars
  <2>1. invoked' = invoked /\ work' = work
    BY <1>3 DEF Approval, Acquire, ReadHold, ResolveHold, RecordDecision,
      Release, locals
  <2>2. CASE recDisk' = recDisk
    BY <2>1, <2>2, AbstractStutter DEF RunsOf
  <2>3. CASE recDisk' # recDisk
    <3>1. RecordDecision(r)
      BY <1>3, <2>3 DEF Approval, Acquire, ReadHold, ResolveHold, Release,
        stores
    <3>2. work[r] \in Actions /\ recDisk[work[r]] = "manual_required"
      BY <3>1 DEF RecordDecision, OwnSteps, Alone, AloneThisLife, Answered,
        HeldIsStored, RecordAhead, Terminal, StoreTypes, Decisions
    <3>3. recDisk' = [recDisk EXCEPT ![work[r]] = Decision(r)]
      BY <2>3, <3>1, <3>2 DEF RecordDecision, Amend
    <3>4. Decision(r) \in {"approved", "rejected"}
      BY DEF Decision
    <3> QED BY <2>1, <3>2, <3>3, <3>4, AbstractDecision DEF Decisions
  <2> QED BY <2>2, <2>3
<1>4. ASSUME NEW t \in Threads, Execution(t) PROVE Abstract!Next \/ UNCHANGED
  Abstract!vars
  <2>1. recDisk' = recDisk /\ work' = work
    BY <1>4 DEF Execution, Mint, Block, NoAdapter, PassGate, Invoke, Audit,
      Trace, Verify, Report, stores, locals
  <2>2. CASE invoked' = invoked
    BY <2>1, <2>2, AbstractStutter DEF RunsOf
  <2>3. CASE invoked' # invoked
    <3>1. Invoke(t)
      BY <1>4, <2>3 DEF Execution, Mint, Block, NoAdapter, PassGate, Audit,
        Trace, Verify, Report
    <3>2. work[t] \in Actions /\ t \in authorized /\ t \notin invoked /\
      invoked' = invoked \cup {t}
      BY <3>1 DEF Invoke, OwnSteps, AuthorizedSteps, InvokedIsAuthorized,
        CoreSteps
    <3>3. PICK b \in Actions : b = work[t]
      BY <3>2
    <3>4. DecisionOf(recDisk[b]) = "approved"
      BY <3>3, <3>2 DEF AuthorizedIsApproved, DecisionOf
    <3>5. RunsOf(b) = {}
      BY <3>3, <3>2 DEF RunsOf, OneAuthorization, InvokedIsAuthorized
    <3>6. \A a \in Actions : RunsOf(a)' = IF a = b THEN {t} ELSE RunsOf(a)
      BY <2>1, <3>3, <3>2, <3>5 DEF RunsOf
    <3>7. [a \in Actions |-> RunsOf(a)'] = [[a \in Actions |-> RunsOf(a)]
      EXCEPT ![b] = {t}]
      BY <3>6
    <3>8. Abstract!Run(b)
      BY <2>1, <3>4, <3>5, <3>7 DEF Abstract!Run, RunsOf
    <3> QED BY <3>8 DEF Abstract!Next
  <2> QED BY <2>2, <2>3
<1>5. ASSUME Startup \/ Restart \/ Tick \/ Quiet PROVE UNCHANGED Abstract!vars
  <2>1. recDisk' = recDisk /\ work' = work /\ invoked' = invoked
    BY <1>5 DEF Startup, FinishStartup, ReconcileHold, ReconcileFails, Restart,
      Tick, Quiet, vars, stores, locals
  <2> QED BY <2>1, AbstractStutter DEF RunsOf
<1> QED BY <1>1, <1>2, <1>3, <1>4, <1>5 DEF Next

(* The Core, with its stores, lock, failed writes and restarts, implements *)
(* the abstract promise: one decision per action, never taken back, and at *)
(* most one run, of an approved action.                                    *)
THEOREM Refinement == Orderly => (Spec => ImplementsOneShot)
<1> SUFFICES ASSUME Orderly PROVE Spec => ImplementsOneShot
  OBVIOUS
<1>1. StoreInv /\ [Next]_vars => [Abstract!Next]_(Abstract!vars)
  <2>1. CASE Next
    BY <2>1, AbstractNext
  <2>2. CASE UNCHANGED vars
    <3>1. recDisk' = recDisk /\ work' = work /\ invoked' = invoked
      BY <2>2 DEF vars, stores, locals
    <3> QED BY <3>1, AbstractStutter DEF RunsOf
  <2> QED BY <2>1, <2>2
<1> QED BY <1>1, AbstractInit, StoreInvariant, PTL DEF Spec, ImplementsOneShot,
  Abstract!Spec
=============================================================================
