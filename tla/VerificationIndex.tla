------------------------- MODULE VerificationIndex -------------------------
(***************************************************************************)
(* What is known of an execution after its adapter returned: the Core's    *)
(* verification record, the one of the layer above it, the record of an    *)
(* adapter that failed, and the index that collapses them into one         *)
(* effective status, alerts once when that is "unverified" and is rebuilt, *)
(* silently, when the process starts again.                                *)
(*                                                                         *)
(* An execution is worked on by the thread of one request, which may end   *)
(* with the process after any write.  The callers differ in whether they   *)
(* look at result.success before they verify.                              *)
(***************************************************************************)
EXTENDS Naturals, FiniteSets

CONSTANTS
    Executions,   \* execution ids
    Routes,       \* the callers of this instance
    MaxRestarts   \* bound: how often the process ends

(* A remediation is always held first: what it would do after an execution *)
(* at once is not reached with the policies there are.                     *)
AllRoutes ==
    {"execute",     \* POST /execute and the agent adapter
     "continue",    \* POST /homelab/approve
     "approve",     \* POST /approve
     "internal"}    \* budget, self-management and evolution

ASSUME IndexAssumption == Routes \subseteq AllRoutes /\ MaxRestarts \in Nat

(* The caller that verifies a run whether or not it succeeded, and those   *)
(* that record a failed one.                                               *)
Ungated == {"continue"}
Recording == AllRoutes \ {"internal"}

VARIABLES
    request,   \* what each execution is: its caller, adapter and outcome
    stage,     \* how far its thread is; "lost" when the process ended first
    records,   \* the verification store: a status by the layer that wrote it
    audit,     \* the executions whose audit record is in the live store
    matched,   \* the executions whose expected state was observed after them
    rows,      \* the index
    alerts,    \* the alerts sent for each
    restarts

vars == <<request, stage, records, audit, matched, rows, alerts, restarts>>

None == "none"
Adapters == {"docker", "git", "simulation", "module_change"}
Statuses == {"verified_success", "state_mismatch", "observation_unavailable",
             "verification_failure"}
Effective == Statuses \cup {"unverified", "adapter_execution_failed"}

Requests == [route : Routes, adapter : Adapters, success : BOOLEAN, expects : BOOLEAN]
NoRequest == [route |-> None, adapter |-> None, success |-> FALSE, expects |-> FALSE]
NoRecords == [core |-> None, above |-> None, failed |-> FALSE]
NoRow == [effective |-> None, verified |-> FALSE, notified |-> FALSE]

TypeOK ==
    /\ request \in [Executions -> Requests \cup {NoRequest}]
    /\ stage \in [Executions -> {"new", "audited", "cored", "saved", "indexed",
                                 "done", "lost"}]
    /\ records \in [Executions -> [core : Statuses \cup {None},
                                   above : Statuses \cup {None}, failed : BOOLEAN]]
    /\ audit \subseteq Executions
    /\ matched \subseteq Executions
    /\ rows \in [Executions -> [effective : Effective \cup {None}, verified : BOOLEAN,
                                notified : BOOLEAN]]
    /\ alerts \in [Executions -> 0..1]
    /\ restarts \in 0..MaxRestarts

Init ==
    /\ request = [e \in Executions |-> NoRequest]
    /\ stage = [e \in Executions |-> "new"]
    /\ records = [e \in Executions |-> NoRecords]
    /\ audit = {}
    /\ matched = {}
    /\ rows = [e \in Executions |-> NoRow]
    /\ alerts = [e \in Executions |-> 0]
    /\ restarts = 0

-----------------------------------------------------------------------------

(* Evolution and self-management change modules, the console runs          *)
(* containers, an agent may change git tags too; what was held continues   *)
(* with the adapter that its hold names.                                   *)
AdaptersOf(route) ==
    CASE route = "execute" -> {"docker", "git", "simulation"}
      [] route = "continue" -> {"docker", "git", "simulation"}
      [] route = "approve" -> Adapters
      [] route = "internal" -> {"simulation", "module_change"}

(* The engine ran the adapter, which if it only simulates succeeds, and    *)
(* saved the audit record.                                                 *)
Execute(e) ==
    /\ stage[e] = "new"
    /\ \E r \in Requests :
          /\ r.adapter \in AdaptersOf(r.route)
          /\ r.adapter = "simulation" => r.success
          /\ request' = [request EXCEPT ![e] = r]
    /\ audit' = audit \cup {e}
    /\ stage' = [stage EXCEPT ![e] = "audited"]
    /\ UNCHANGED <<records, matched, rows, alerts, restarts>>

(* Mutant: what could not be observed is taken as expected. *)
Optimistic(expects, seen) ==
    CASE ~expects -> "verification_failure"
      [] expects /\ seen # "other" -> "verified_success"
      [] expects /\ seen = "other" -> "state_mismatch"

(* The verifier compares what was expected with what was observed. *)
Verdict(expects, seen) ==
    CASE ~expects -> "verification_failure"
      [] expects /\ seen = "nothing" -> "observation_unavailable"
      [] expects /\ seen = "expected" -> "verified_success"
      [] expects /\ seen = "other" -> "state_mismatch"

Matches(e, seen) == matched' = IF seen = "expected" THEN matched \cup {e} ELSE matched

(* The Core verifies what succeeded.  It observes the module registry only. *)
CoreVerify(e) ==
    /\ stage[e] = "audited"
    /\ stage' = [stage EXCEPT ![e] = "cored"]
    /\ \/ /\ request[e].success
          /\ \E seen \in {"expected", "other", "nothing"} :
                /\ request[e].adapter = "module_change" \/ seen = "nothing"
                /\ records' = [records EXCEPT ![e].core = Verdict(request[e].expects, seen)]
                /\ Matches(e, seen)
       \/ /\ ~request[e].success
          /\ UNCHANGED <<records, matched>>
    /\ UNCHANGED <<request, audit, rows, alerts, restarts>>

-----------------------------------------------------------------------------
(* verify_executed_action.                                                 *)

(* A caller that does not look at the outcome verifies any run that states *)
(* what it expects; for the console, that is looked up above the Core.     *)
Verifies(r) ==
    \/ r.route \in Ungated /\ r.expects
    \/ r.route = "execute" /\ r.success

Observable(adapter) == adapter \in {"docker", "git"}

(* Settle: the state is read until it is the expected one or the time is   *)
(* up, and the last reading counts.  With an observer an expectation can   *)
(* always be looked up.  The record is saved before the index is updated.  *)
Verify(e) ==
    /\ stage[e] = "cored"
    /\ Verifies(request[e])
    /\ stage' = [stage EXCEPT ![e] = "saved"]
    /\ \/ /\ Observable(request[e].adapter)
          /\ \E seen \in {"expected", "other", "nothing"} :
                /\ records' = [records EXCEPT ![e].above = Verdict(TRUE, seen)]
                /\ Matches(e, seen)
       \/ /\ ~Observable(request[e].adapter)
          /\ UNCHANGED <<records, matched>>
    /\ UNCHANGED <<request, audit, rows, alerts, restarts>>

VerifyNothing(e) ==
    /\ stage[e] = "cored"
    /\ ~Verifies(request[e])
    /\ stage' = [stage EXCEPT ![e] = "indexed"]
    /\ UNCHANGED <<request, records, audit, matched, rows, alerts, restarts>>

(* The precedence of the records: a failed adapter, the layer above the    *)
(* Core, the Core where its observation is real.                           *)
Classify(core, above, adapter, failed) ==
    CASE failed -> "adapter_execution_failed"
      [] ~failed /\ above # None -> above
      [] ~failed /\ above = None /\ adapter = "module_change" /\ core # None -> core
      [] OTHER -> "unverified"

Row(effective, notified) ==
    [effective |-> effective, verified |-> effective = "verified_success",
     notified |-> notified]

LiveStatus(e) ==
    Classify(records[e].core, records[e].above, request[e].adapter, FALSE)

Alerting(e) == LiveStatus(e) = "unverified" /\ ~rows[e].notified

(* index.record, then the alert, then mark_notified. *)
Index(e) ==
    /\ stage[e] = "saved"
    /\ stage' = [stage EXCEPT ![e] = "indexed"]
    /\ rows' = [rows EXCEPT ![e] = Row(LiveStatus(e), rows[e].notified \/ Alerting(e))]
    /\ alerts' = [alerts EXCEPT ![e] = IF Alerting(e) THEN @ + 1 ELSE @]
    /\ UNCHANGED <<request, records, audit, matched, restarts>>

(* record_failed_execution_evidence: of a run that has no record yet. *)
RecordFailed(e) ==
    /\ stage[e] = "indexed"
    /\ stage' = [stage EXCEPT ![e] = "done"]
    /\ records' =
         IF /\ request[e].route \in Recording
            /\ ~request[e].success
            /\ records[e] = NoRecords
         THEN [records EXCEPT ![e].failed = TRUE] ELSE records
    /\ UNCHANGED <<request, audit, matched, rows, alerts, restarts>>

-----------------------------------------------------------------------------
(* The process ends and starts again: retention archives audit records and *)
(* then verification records that are old, oldest first, and the index is  *)
(* rebuilt of what is left.                                                *)

RebuiltAdapter(e, kept, audited) ==
    IF kept[e].above # None \/ e \in audited THEN request[e].adapter ELSE None

(* Mutant: the record that was written first decides. *)
RebuiltFirst(e, kept, audited) ==
    Classify(kept[e].core, IF kept[e].core # None THEN kept[e].core ELSE kept[e].above,
             RebuiltAdapter(e, kept, audited), kept[e].failed)

Rebuilt(e, kept, audited) ==
    Classify(kept[e].core, kept[e].above, RebuiltAdapter(e, kept, audited), kept[e].failed)

(* Mutant: history is alerted again. *)
RebuildLoud(kept, audited) ==
    rows' = [e \in Executions |->
               IF kept[e] = NoRecords THEN NoRow
               ELSE Row(Rebuilt(e, kept, audited), FALSE)]

Rebuild(kept, audited) ==
    rows' = [e \in Executions |->
               IF kept[e] = NoRecords THEN NoRow
               ELSE Row(Rebuilt(e, kept, audited), TRUE)]

(* Of one execution the Core's record is older than the one above it. *)
Kept(e) ==
    {records[e], [records[e] EXCEPT !.core = None], NoRecords}

Restart ==
    /\ restarts < MaxRestarts
    /\ restarts' = restarts + 1
    /\ \E archived \in SUBSET audit :
       \E left \in [Executions -> UNION {Kept(e) : e \in Executions}] :
          /\ \A e \in Executions :
                left[e] \in (IF e \in audit \ archived THEN {records[e]} ELSE Kept(e))
          /\ audit' = audit \ archived
          /\ records' = left
          /\ Rebuild(left, audit \ archived)
    /\ stage' = [e \in Executions |->
                   IF stage[e] \in {"new", "done"} THEN stage[e] ELSE "lost"]
    /\ UNCHANGED <<request, matched, alerts>>

Next ==
    \/ \E e \in Executions :
          \/ Execute(e) \/ CoreVerify(e)
          \/ Verify(e) \/ VerifyNothing(e) \/ Index(e) \/ RecordFailed(e)
    \/ Restart

Spec == Init /\ [][Next]_vars

-----------------------------------------------------------------------------
(* Properties.                                                             *)

(* The index says "verified" only of a run whose adapter succeeded and     *)
(* whose expected state was then read from the system by a trusted         *)
(* observer: no adapter can say so of itself (index._classify).            *)
VerifiedWasObserved ==
    \A e \in Executions :
        rows[e].verified => request[e].success /\ e \in matched

(* The row that requests maintain is the row that the records lead to: a   *)
(* restart does not change what the console shows of a finished run.       *)
LiveAgrees ==
    \A e \in Executions :
        rows[e] # NoRow /\ stage[e] \in {"indexed", "done"}
            => rows[e].effective = Rebuilt(e, records, audit)

(* An unverified run is alerted when its row is made, never twice, and     *)
(* never for history after a restart.                                      *)
AlertedOnce ==
    \A e \in Executions :
        /\ alerts[e] <= 1
        /\ rows[e].effective = "unverified" => rows[e].notified
        /\ rows[e].effective = "unverified" /\ restarts = 0 => alerts[e] = 1

(* AGENTS.md section 11: of a run that went to its end, and whose evidence *)
(* is not archived yet, the records tell an adapter that failed from one   *)
(* that succeeded.                                                         *)
FailureDistinguishable ==
    \A e \in Executions :
        stage[e] = "done" /\ e \in audit /\ request[e].route \in Recording
            => (records[e].failed <=> ~request[e].success)

(* What the docstring of execution_evidence.py says of its callers: no     *)
(* verification record is written for a run that failed.                   *)
FailedIsNotVerified ==
    \A e \in Executions :
        stage[e] # "new" /\ ~request[e].success => ~rows[e].verified
=============================================================================
