---------------------- MODULE VerificationIndexProofs ----------------------
(***************************************************************************)
(* The index of verifications for any number of executions and restarts,   *)
(* with callers that verify only what succeeded: nothing is verified that  *)
(* was not observed, rows and records agree, and nobody is alerted twice.  *)
(* The argument follows one execution: what its thread has done tells which*)
(* records and which row there may be, and a restart leaves fewer records  *)
(* and the row of those.                                                   *)
(***************************************************************************)
EXTENDS VerificationIndex, TLAPS

(* The callers that look at result.success. *)
Gated == Routes \cap Ungated = {}

Seen == {"expected", "other", "nothing"}

Verified == "verified_success"

InProgress == {"audited", "cored", "saved"}

(* Before its thread has begun there is nothing, before the index is       *)
(* updated there is no row, and only the last step records a failure.      *)
Early(e) ==
    /\ stage[e] # "new" => request[e] \in Requests
    /\ stage[e] = "new" => records[e] = NoRecords
    /\ stage[e] \in InProgress \cup {"new"} => rows[e] = NoRow /\ alerts[e] = 0
    /\ stage[e] \in InProgress \cup {"indexed"} => e \in audit /\ ~records[e].failed

(* A run that failed is verified by nobody, one that succeeded has no      *)
(* record of a failure, and a record that says verified was observed.      *)
Honest(e) ==
    /\ stage[e] # "new" /\ ~request[e].success
          => records[e].core = None /\ records[e].above = None
    /\ request[e].success => ~records[e].failed
    /\ stage[e] = "saved" => request[e].success
    /\ stage[e] = "indexed" /\ ~request[e].success => rows[e] = NoRow
    /\ Verified \in {records[e].core, records[e].above}
          => request[e].success /\ e \in matched
    /\ rows[e].verified => request[e].success /\ e \in matched

Agreeing(e) ==
    rows[e] # NoRow /\ stage[e] \in {"indexed", "done"}
        => rows[e].effective = Rebuilt(e, records, audit)

Told(e) ==
    /\ rows[e].effective = "unverified" => rows[e].notified
    /\ rows[e].effective = "unverified" /\ restarts = 0 => alerts[e] = 1

Distinguished(e) ==
    stage[e] = "done" /\ e \in audit /\ request[e].route \in Recording
        => (records[e].failed <=> ~request[e].success)

Sane(e) == Early(e) /\ Honest(e) /\ Agreeing(e) /\ Told(e) /\ Distinguished(e)

Inv == TypeOK /\ \A e \in Executions : Sane(e)

-----------------------------------------------------------------------------
(* The two tables.                                                         *)

LEMMA VerdictTable ==
    ASSUME NEW expects \in BOOLEAN, NEW seen \in Seen
    PROVE  /\ Verdict(expects, seen) \in Statuses
           /\ Verdict(expects, seen) = Verified => seen = "expected"
<1>1. CASE ~expects
  <2>1. Verdict(expects, seen) = "verification_failure"
    BY <1>1, Zenon DEF Verdict
  <2> QED BY <2>1 DEF Statuses, Verified
<1>2. CASE expects /\ seen = "nothing"
  <2>1. Verdict(expects, seen) = "observation_unavailable"
    BY <1>2, Zenon DEF Verdict
  <2> QED BY <2>1 DEF Statuses, Verified
<1>3. CASE expects /\ seen = "expected"
  <2>1. Verdict(expects, seen) = "verified_success"
    BY <1>3, Zenon DEF Verdict
  <2> QED BY <2>1, <1>3 DEF Statuses
<1>4. CASE expects /\ seen = "other"
  <2>1. Verdict(expects, seen) = "state_mismatch"
    BY <1>4, Zenon DEF Verdict
  <2> QED BY <2>1 DEF Statuses, Verified
<1> QED BY <1>1, <1>2, <1>3, <1>4 DEF Seen

(* Records that were written come first; a row says verified only when a   *)
(* record does.                                                            *)
LEMMA ClassifyTable ==
    ASSUME NEW core \in Statuses \cup {None}, NEW above \in Statuses \cup {None},
           NEW adapter, NEW failed \in BOOLEAN
    PROVE  /\ Classify(core, above, adapter, failed) \in Effective
           /\ Classify(core, above, adapter, failed) = Verified
                 => Verified \in {core, above}
           /\ ~failed /\ above # None => Classify(core, above, adapter, failed) = above
<1>1. CASE failed
  <2>1. Classify(core, above, adapter, failed) = "adapter_execution_failed"
    BY <1>1, Zenon DEF Classify
  <2> QED BY <1>1, <2>1 DEF Effective, Verified
<1>2. CASE ~failed /\ above # None
  <2>1. Classify(core, above, adapter, failed) = above
    BY <1>2, Zenon DEF Classify
  <2> QED BY <1>2, <2>1 DEF Effective
<1>3. CASE ~failed /\ above = None /\ adapter = "module_change" /\ core # None
  <2>1. Classify(core, above, adapter, failed) = core
    BY <1>3, Zenon DEF Classify
  <2> QED BY <1>3, <2>1 DEF Effective
<1>4. CASE ~failed /\ above = None /\ ~(adapter = "module_change" /\ core # None)
  <2>1. Classify(core, above, adapter, failed) = "unverified"
    BY <1>4, Zenon DEF Classify
  <2> QED BY <1>4, <2>1 DEF Effective, Verified
<1> QED BY <1>1, <1>2, <1>3, <1>4

LEMMA RequestFields ==
    ASSUME NEW r \in Requests \cup {NoRequest}
    PROVE  r.success \in BOOLEAN /\ r.expects \in BOOLEAN
<1>1. CASE r \in Requests
  BY <1>1 DEF Requests
<1>2. CASE r = NoRequest
  BY <1>2 DEF NoRequest
<1> QED BY <1>1, <1>2

LEMMA RowFields ==
    ASSUME NEW effective \in Effective, NEW notified \in BOOLEAN
    PROVE  /\ Row(effective, notified).effective = effective
           /\ Row(effective, notified).verified <=> effective = Verified
           /\ Row(effective, notified).notified = notified
           /\ Row(effective, notified) \in
                [effective : Effective \cup {None}, verified : BOOLEAN, notified : BOOLEAN]
<1> DEFINE verified == effective = "verified_success"
<1>1. verified \in BOOLEAN
  OBVIOUS
<1>2. Row(effective, notified)
        = [effective |-> effective, verified |-> verified, notified |-> notified]
  BY DEF Row
<1>3. verified <=> effective = Verified
  BY DEF Verified
<1> HIDE DEF verified
<1> QED BY <1>1, <1>2, <1>3

LEMMA NoRowFields ==
    /\ NoRow.effective = None /\ ~NoRow.verified /\ ~NoRow.notified
    /\ NoRow \in [effective : Effective \cup {None}, verified : BOOLEAN, notified : BOOLEAN]
BY DEF NoRow

(* The execution of a thread, and the others. *)
Untouched(o) ==
    /\ request'[o] = request[o] /\ stage'[o] = stage[o]
    /\ records'[o] = records[o] /\ rows'[o] = rows[o] /\ alerts'[o] = alerts[o]
    /\ o \in audit' <=> o \in audit
    /\ o \in matched => o \in matched'
    /\ restarts' = restarts

LEMMA Frame ==
    ASSUME NEW o \in Executions, Sane(o), Untouched(o)
    PROVE  Sane(o)'
<1>1. Early(o)' /\ Honest(o)' /\ Told(o)' /\ Distinguished(o)'
  BY DEF Sane, Early, Honest, Told, Distinguished, Untouched
<1>2. Agreeing(o)'
  BY DEF Sane, Agreeing, Untouched, Rebuilt, RebuiltAdapter
<1> QED BY <1>1, <1>2 DEF Sane

-----------------------------------------------------------------------------
(* The steps of a thread.                                                  *)

LEMMA ExecuteStep ==
    ASSUME Inv, Gated, NEW e \in Executions, Execute(e)
    PROVE  Inv'
<1>1. PICK r \in Requests : request' = [request EXCEPT ![e] = r]
  BY DEF Execute
<1>2. TypeOK'
  BY <1>1 DEF Inv, TypeOK, Execute
<1>3. Sane(e)'
  <2>1. request'[e] = r /\ stage'[e] = "audited" /\ records'[e] = NoRecords
        /\ rows'[e] = NoRow /\ alerts'[e] = 0 /\ e \in audit'
    BY <1>1 DEF Inv, TypeOK, Execute, Sane, Early
  <2> QED
    BY <2>1 DEF Sane, Early, Honest, Agreeing, Told, Distinguished, InProgress,
        NoRecords, NoRow, Verified, None
<1>4. \A o \in Executions \ {e} : Sane(o)'
  BY <1>1, Frame DEF Inv, TypeOK, Execute, Untouched
<1> QED BY <1>2, <1>3, <1>4 DEF Inv

LEMMA CoreVerifyStep ==
    ASSUME Inv, Gated, NEW e \in Executions, CoreVerify(e)
    PROVE  Inv'
<1>1. request[e] \in Requests /\ e \in audit /\ ~records[e].failed
      /\ rows[e] = NoRow /\ alerts[e] = 0
  BY DEF Inv, Sane, Early, CoreVerify, InProgress
<1>2. request[e].success \in BOOLEAN /\ request[e].expects \in BOOLEAN
  BY <1>1, RequestFields
<1>3. CASE request[e].success
  <2>1. PICK seen \in Seen :
          /\ records' = [records EXCEPT ![e].core = Verdict(request[e].expects, seen)]
          /\ Matches(e, seen)
    BY <1>3 DEF CoreVerify, Seen
  <2>2. /\ Verdict(request[e].expects, seen) \in Statuses
        /\ Verdict(request[e].expects, seen) = Verified => seen = "expected"
    BY <1>2, VerdictTable
  <2>3. TypeOK'
    <3>1. records' \in [Executions -> [core : Statuses \cup {None},
                                      above : Statuses \cup {None}, failed : BOOLEAN]]
      BY <2>1, <2>2 DEF Inv, TypeOK
    <3>2. matched' \subseteq Executions
      BY <2>1 DEF Inv, TypeOK, Matches
    <3> QED BY <3>1, <3>2 DEF Inv, TypeOK, CoreVerify
  <2>4. /\ records'[e] = [records[e] EXCEPT !.core = Verdict(request[e].expects, seen)]
        /\ seen = "expected" => e \in matched'
        /\ matched \subseteq matched'
    BY <2>1 DEF Inv, TypeOK, Matches
  <2>5. stage'[e] = "cored" /\ request'[e] = request[e] /\ rows'[e] = NoRow
        /\ alerts'[e] = 0 /\ e \in audit'
    BY <1>1 DEF Inv, TypeOK, CoreVerify
  <2>6. Sane(e)'
    <3>1. /\ records'[e].core = Verdict(request[e].expects, seen)
          /\ records'[e].above = records[e].above
          /\ records'[e].failed = records[e].failed
      BY <2>4 DEF Inv, TypeOK
    <3> QED
      BY <1>1, <1>3, <2>2, <2>4, <2>5, <3>1
      DEF Inv, Sane, Early, Honest, Agreeing, Told, Distinguished, InProgress, NoRow, None
  <2>7. \A o \in Executions \ {e} : Sane(o)'
    BY <2>1, <2>4, Frame DEF Inv, TypeOK, CoreVerify, Untouched
  <2> QED BY <2>3, <2>6, <2>7 DEF Inv
<1>4. CASE ~request[e].success
  <2>1. UNCHANGED <<request, records, audit, matched, rows, alerts, restarts>>
        /\ stage' = [stage EXCEPT ![e] = "cored"]
    BY <1>4 DEF CoreVerify
  <2>2. TypeOK'
    BY <2>1 DEF Inv, TypeOK
  <2>3. Sane(e)'
    <3>1. stage'[e] = "cored"
      BY <2>1 DEF Inv, TypeOK
    <3> QED
      BY <1>1, <1>4, <2>1, <3>1
      DEF Inv, Sane, Early, Honest, Agreeing, Told, Distinguished, InProgress, NoRow, None,
          CoreVerify
  <2>4. \A o \in Executions \ {e} : Sane(o)'
    BY <2>1, Frame DEF Inv, TypeOK, Untouched
  <2> QED BY <2>2, <2>3, <2>4 DEF Inv
<1> QED BY <1>2, <1>3, <1>4

LEMMA VerifyStep ==
    ASSUME Inv, Gated, NEW e \in Executions, Verify(e)
    PROVE  Inv'
<1>1. request[e] \in Requests /\ e \in audit /\ ~records[e].failed
      /\ rows[e] = NoRow /\ alerts[e] = 0
  BY DEF Inv, Sane, Early, Verify, InProgress
<1>2. request[e].success
  BY <1>1 DEF Verify, Verifies, Gated, Requests
<1>3. stage' = [stage EXCEPT ![e] = "saved"] /\ stage'[e] = "saved"
      /\ UNCHANGED <<request, audit, rows, alerts, restarts>>
  BY DEF Inv, TypeOK, Verify
<1>4. CASE Observable(request[e].adapter)
  <2>1. PICK seen \in Seen :
          /\ records' = [records EXCEPT ![e].above = Verdict(TRUE, seen)]
          /\ Matches(e, seen)
    BY <1>4 DEF Verify, Seen
  <2>2. /\ Verdict(TRUE, seen) \in Statuses
        /\ Verdict(TRUE, seen) = Verified => seen = "expected"
    BY VerdictTable
  <2>3. TypeOK'
    <3>1. records' \in [Executions -> [core : Statuses \cup {None},
                                      above : Statuses \cup {None}, failed : BOOLEAN]]
      BY <2>1, <2>2 DEF Inv, TypeOK
    <3>2. matched' \subseteq Executions
      BY <2>1 DEF Inv, TypeOK, Matches
    <3> QED BY <1>3, <3>1, <3>2 DEF Inv, TypeOK
  <2>4. /\ records'[e].above = Verdict(TRUE, seen)
        /\ records'[e].core = records[e].core
        /\ records'[e].failed = records[e].failed
        /\ seen = "expected" => e \in matched'
        /\ matched \subseteq matched'
    BY <2>1 DEF Inv, TypeOK, Matches
  <2>5. Sane(e)'
    BY <1>1, <1>2, <1>3, <2>2, <2>4
    DEF Inv, Sane, Early, Honest, Agreeing, Told, Distinguished, InProgress, NoRow, None
  <2>6. \A o \in Executions \ {e} : Sane(o)'
    BY <1>3, <2>1, <2>4, Frame DEF Inv, TypeOK, Untouched
  <2> QED BY <2>3, <2>5, <2>6 DEF Inv
<1>5. CASE ~Observable(request[e].adapter)
  <2>1. UNCHANGED <<records, matched>>
    BY <1>5 DEF Verify
  <2>2. TypeOK'
    BY <1>3, <2>1 DEF Inv, TypeOK
  <2>3. Sane(e)'
    BY <1>1, <1>2, <1>3, <2>1
    DEF Inv, Sane, Early, Honest, Agreeing, Told, Distinguished, InProgress, NoRow, None
  <2>4. \A o \in Executions \ {e} : Sane(o)'
    BY <1>3, <2>1, Frame DEF Inv, TypeOK, Untouched
  <2> QED BY <2>2, <2>3, <2>4 DEF Inv
<1> QED BY <1>4, <1>5

LEMMA VerifyNothingStep ==
    ASSUME Inv, Gated, NEW e \in Executions, VerifyNothing(e)
    PROVE  Inv'
<1>1. request[e] \in Requests /\ e \in audit /\ ~records[e].failed
      /\ rows[e] = NoRow /\ alerts[e] = 0
  BY DEF Inv, Sane, Early, VerifyNothing, InProgress
<1>2. stage' = [stage EXCEPT ![e] = "indexed"] /\ stage'[e] = "indexed"
      /\ UNCHANGED <<request, records, audit, matched, rows, alerts, restarts>>
  BY DEF Inv, TypeOK, VerifyNothing
<1>3. TypeOK'
  BY <1>2 DEF Inv, TypeOK
<1>4. Sane(e)'
  BY <1>1, <1>2
  DEF Inv, Sane, Early, Honest, Agreeing, Told, Distinguished, InProgress, NoRow, None,
      VerifyNothing
<1>5. \A o \in Executions \ {e} : Sane(o)'
  BY <1>2, Frame DEF Inv, TypeOK, Untouched
<1> QED BY <1>3, <1>4, <1>5 DEF Inv

(* The row is made of the records as they are, and alerted as it is made.  *)
LEMMA IndexStep ==
    ASSUME Inv, Gated, NEW e \in Executions, Index(e)
    PROVE  Inv'
<1> DEFINE status == LiveStatus(e)
<1>1. request[e] \in Requests /\ e \in audit /\ ~records[e].failed
      /\ rows[e] = NoRow /\ alerts[e] = 0
  BY DEF Inv, Sane, Early, Index, InProgress
<1>2. stage' = [stage EXCEPT ![e] = "indexed"] /\ stage'[e] = "indexed"
      /\ UNCHANGED <<request, records, audit, matched, restarts>>
  BY DEF Inv, TypeOK, Index
<1>3. Alerting(e) <=> status = "unverified"
  BY <1>1 DEF Alerting, NoRow
<1>4. status \in Effective
      /\ (status = Verified => Verified \in {records[e].core, records[e].above})
  <2>1. records[e].core \in Statuses \cup {None} /\ records[e].above \in Statuses \cup {None}
    BY DEF Inv, TypeOK
  <2> QED BY <2>1, ClassifyTable DEF LiveStatus
<1>5. rows' = [rows EXCEPT ![e] = Row(status, rows[e].notified \/ Alerting(e))]
  BY DEF Index
<1>6. /\ rows'[e].effective = status
      /\ rows'[e].verified <=> status = Verified
      /\ rows'[e].notified <=> status = "unverified"
      /\ rows'[e] \in [effective : Effective \cup {None}, verified : BOOLEAN,
                       notified : BOOLEAN]
  <2> DEFINE told == rows[e].notified \/ Alerting(e)
  <2>1. rows'[e] = Row(status, told)
    BY <1>5 DEF Inv, TypeOK
  <2>2. told \in BOOLEAN /\ (told <=> status = "unverified")
    BY <1>1, <1>3, NoRowFields DEF Alerting
  <2> HIDE DEF told, status
  <2> QED BY <1>4, <2>1, <2>2, RowFields
<1>7. alerts' = [alerts EXCEPT ![e] = IF Alerting(e) THEN 1 ELSE 0]
      /\ alerts'[e] = IF Alerting(e) THEN 1 ELSE 0
  BY <1>1 DEF Inv, TypeOK, Index
<1>8. TypeOK'
  <2>1. rows' \in [Executions -> [effective : Effective \cup {None}, verified : BOOLEAN,
                                 notified : BOOLEAN]]
    BY <1>5, <1>6 DEF Inv, TypeOK
  <2>2. alerts' \in [Executions -> 0..1]
    BY <1>7 DEF Inv, TypeOK
  <2> QED BY <1>2, <2>1, <2>2 DEF Inv, TypeOK
<1>9. request[e].success
  BY DEF Inv, Sane, Honest, Index
<1>10. Agreeing(e)'
  <2>1. RebuiltAdapter(e, records, audit) = request[e].adapter
    BY <1>1 DEF RebuiltAdapter
  <2>2. Rebuilt(e, records, audit) = status
    <3>1. records[e].failed = FALSE
      BY <1>1 DEF Inv, TypeOK
    <3> QED BY <2>1, <3>1 DEF Rebuilt, LiveStatus
  <2>3. Rebuilt(e, records, audit)' = Rebuilt(e, records, audit)
    BY <1>2 DEF Rebuilt, RebuiltAdapter
  <2> QED BY <1>6, <2>2, <2>3 DEF Agreeing
<1>11. Early(e)' /\ Honest(e)' /\ Told(e)' /\ Distinguished(e)'
  BY <1>1, <1>2, <1>3, <1>4, <1>6, <1>7, <1>9
  DEF Inv, Sane, Early, Honest, Told, Distinguished, InProgress
<1>12. \A o \in Executions \ {e} : Sane(o)'
  BY <1>2, <1>5, <1>7, Frame DEF Inv, TypeOK, Untouched
<1> QED BY <1>8, <1>10, <1>11, <1>12 DEF Inv, Sane

LEMMA RecordFailedStep ==
    ASSUME Inv, Gated, NEW e \in Executions, RecordFailed(e)
    PROVE  Inv'
<1> DEFINE fails == request[e].route \in Recording /\ ~request[e].success
                       /\ records[e] = NoRecords
<1>1. request[e] \in Requests /\ e \in audit /\ ~records[e].failed
  BY DEF Inv, Sane, Early, RecordFailed, InProgress
<1>2. stage' = [stage EXCEPT ![e] = "done"] /\ stage'[e] = "done"
      /\ UNCHANGED <<request, audit, matched, rows, alerts, restarts>>
  BY DEF Inv, TypeOK, RecordFailed
<1>3. ~request[e].success => records[e] = NoRecords /\ rows[e] = NoRow
  <2>1. records[e] \in [core : Statuses \cup {None}, above : Statuses \cup {None},
                        failed : BOOLEAN]
    BY DEF Inv, TypeOK
  <2> QED BY <1>1, <2>1 DEF Inv, Sane, Honest, RecordFailed, NoRecords
<1>4. CASE fails
  <2>1. records' = [records EXCEPT ![e].failed = TRUE]
    BY <1>4 DEF RecordFailed
  <2>2. TypeOK'
    BY <1>2, <2>1 DEF Inv, TypeOK
  <2>3. records'[e].core = None /\ records'[e].above = None /\ records'[e].failed
    BY <1>4, <2>1 DEF Inv, TypeOK, NoRecords
  <2>4. Sane(e)'
    BY <1>1, <1>2, <1>3, <1>4, <2>3
    DEF Inv, Sane, Early, Honest, Agreeing, Told, Distinguished, InProgress, Statuses, None,
        Verified, NoRow
  <2>5. \A o \in Executions \ {e} : Sane(o)'
    BY <1>2, <2>1, Frame DEF Inv, TypeOK, Untouched
  <2> QED BY <2>2, <2>4, <2>5 DEF Inv
<1>5. CASE ~fails
  <2>1. records' = records
    BY <1>5 DEF RecordFailed
  <2>2. TypeOK'
    BY <1>2, <2>1 DEF Inv, TypeOK
  <2>3. Rebuilt(e, records, audit)' = Rebuilt(e, records, audit)
    BY <1>2, <2>1 DEF Rebuilt, RebuiltAdapter
  <2>4. Sane(e)'
    BY <1>1, <1>2, <1>3, <1>5, <2>1, <2>3
    DEF Inv, Sane, Early, Honest, Agreeing, Told, Distinguished, InProgress, RecordFailed
  <2>5. \A o \in Executions \ {e} : Sane(o)'
    BY <1>2, <2>1, Frame DEF Inv, TypeOK, Untouched
  <2> QED BY <2>2, <2>4, <2>5 DEF Inv
<1> QED BY <1>4, <1>5

-----------------------------------------------------------------------------
(* A restart: the row of an execution is that of the records it has left.  *)

LEMMA RestartStep ==
    ASSUME Inv, Gated, Restart
    PROVE  Inv'
<1> DEFINE Left == [core : Statuses \cup {None}, above : Statuses \cup {None},
                    failed : BOOLEAN]
<1>1. PICK archived \in SUBSET audit,
           left \in [Executions -> UNION {Kept(e) : e \in Executions}] :
        /\ \A e \in Executions :
              left[e] \in (IF e \in audit \ archived THEN {records[e]} ELSE Kept(e))
        /\ audit' = audit \ archived
        /\ records' = left
        /\ Rebuild(left, audit \ archived)
  BY DEF Restart
<1>2. /\ UNCHANGED <<request, matched, alerts>>
      /\ restarts' \in 1..MaxRestarts
      /\ stage' = [e \in Executions |->
                     IF stage[e] \in {"new", "done"} THEN stage[e] ELSE "lost"]
  BY IndexAssumption DEF Inv, TypeOK, Restart
<1>3. ASSUME NEW e \in Executions
      PROVE  /\ left[e] \in Left
             /\ left[e].core \in {records[e].core, None}
             /\ left[e].above \in {records[e].above, None}
             /\ left[e].failed => records[e].failed
             /\ e \in audit' => left[e] = records[e]
             /\ records[e] = NoRecords => left[e] = NoRecords
  <2>1. records[e] \in Left
    BY DEF Inv, TypeOK
  <2>2. NoRecords \in Left
    BY DEF NoRecords
  <2>3. left[e] \in Kept(e) /\ (e \in audit' => left[e] = records[e])
    BY <1>1 DEF Kept
  <2>4. CASE left[e] = records[e]
    BY <2>1, <2>3, <2>4
  <2>5. CASE left[e] = [records[e] EXCEPT !.core = None]
    BY <2>1, <2>3, <2>5 DEF NoRecords
  <2>6. CASE left[e] = NoRecords
    BY <2>2, <2>3, <2>6 DEF NoRecords
  <2> QED BY <2>3, <2>4, <2>5, <2>6 DEF Kept
<1>4. ASSUME NEW e \in Executions
      PROVE  /\ left[e] = NoRecords => rows'[e] = NoRow
             /\ left[e] # NoRecords =>
                   rows'[e] = Row(Rebuilt(e, left, audit'), TRUE)
  BY <1>1 DEF Rebuild
<1>5. ASSUME NEW e \in Executions
      PROVE  /\ Rebuilt(e, left, audit') \in Effective
             /\ Rebuilt(e, left, audit') = Verified
                   => Verified \in {left[e].core, left[e].above}
  BY <1>3, ClassifyTable DEF Rebuilt
<1>6. ASSUME NEW e \in Executions
      PROVE  /\ rows'[e] \in [effective : Effective \cup {None}, verified : BOOLEAN,
                              notified : BOOLEAN]
             /\ rows'[e].effective = "unverified" => rows'[e].notified
             /\ rows'[e].verified => Verified \in {left[e].core, left[e].above}
             /\ rows'[e] # NoRow => rows'[e].effective = Rebuilt(e, left, audit')
  <2>1. CASE left[e] = NoRecords
    <3>1. rows'[e] = NoRow
      BY <1>4, <2>1
    <3> QED BY <3>1, NoRowFields DEF None
  <2>2. CASE left[e] # NoRecords
    <3> DEFINE status == Rebuilt(e, left, audit')
    <3>1. rows'[e] = Row(status, TRUE)
      BY <1>4, <2>2
    <3>2. status \in Effective
          /\ (status = Verified => Verified \in {left[e].core, left[e].above})
      BY <1>5
    <3>3. TRUE \in BOOLEAN
      OBVIOUS
    <3> HIDE DEF status
    <3>4. /\ Row(status, TRUE).effective = status
          /\ Row(status, TRUE).verified <=> status = Verified
          /\ Row(status, TRUE).notified = TRUE
          /\ Row(status, TRUE) \in [effective : Effective \cup {None}, verified : BOOLEAN,
                                    notified : BOOLEAN]
      BY <3>2, <3>3, RowFields
    <3>5. rows'[e].effective = status
      BY <3>1, <3>4
    <3>6. rows'[e].verified => Verified \in {left[e].core, left[e].above}
      BY <3>1, <3>2, <3>4
    <3> QED BY <3>1, <3>4, <3>5, <3>6 DEF status
  <2> QED BY <2>1, <2>2
<1>7. TypeOK'
  <2>1. records' \in [Executions -> Left]
    BY <1>1, <1>3
  <2>2. rows' \in [Executions -> [effective : Effective \cup {None}, verified : BOOLEAN,
                                 notified : BOOLEAN]]
    <3>1. DOMAIN rows' = Executions /\ rows' = [e \in Executions |-> rows'[e]]
      BY <1>1 DEF Rebuild
    <3>2. ASSUME NEW e \in Executions
          PROVE  rows'[e] \in [effective : Effective \cup {None}, verified : BOOLEAN,
                               notified : BOOLEAN]
      BY <1>6
    <3> QED BY <3>1, <3>2
  <2> QED BY <1>1, <1>2, <2>1, <2>2 DEF Inv, TypeOK
<1>8. ASSUME NEW e \in Executions
      PROVE  Sane(e)'
  <2>1. stage'[e] \in {"new", "done", "lost"} /\ (stage'[e] # "lost" => stage'[e] = stage[e])
    BY <1>2
  <2>2. rows'[e].effective = "unverified" => rows'[e].notified
    BY <1>6
  <2>3. rows'[e].verified => Verified \in {left[e].core, left[e].above}
    BY <1>6
  <2>4. stage[e] = "new" => rows'[e] = NoRow /\ left[e] = NoRecords
    BY <1>3, <1>4 DEF Inv, Sane, Early
  <2>5. Early(e)'
    BY <1>1, <1>2, <2>1, <2>4 DEF Inv, Sane, Early, InProgress
  <2>6. Honest(e)'
    <3>1. Honest(e)
      BY DEF Inv, Sane
    <3>2. records'[e] = left[e] /\ request'[e] = request[e]
      BY <1>1, <1>2
    <3>3. Verified \in {left[e].core, left[e].above}
             => Verified \in {records[e].core, records[e].above}
      BY <1>3 DEF Verified, None
    <3>4. stage'[e] # "new" => stage[e] # "new"
      BY <1>2
    <3> QED BY <1>2, <1>3, <2>1, <2>3, <3>1, <3>2, <3>3, <3>4 DEF Honest
  <2>7. Agreeing(e)'
    <3>1. Rebuilt(e, records, audit)' = Rebuilt(e, left, audit')
      BY <1>1, <1>2 DEF Rebuilt, RebuiltAdapter
    <3> QED BY <1>6, <3>1 DEF Agreeing
  <2>8. Told(e)' /\ Distinguished(e)'
    BY <1>1, <1>2, <1>3, <2>1, <2>2 DEF Inv, Sane, Told, Distinguished
  <2> QED BY <2>5, <2>6, <2>7, <2>8 DEF Sane
<1> QED BY <1>7, <1>8 DEF Inv

-----------------------------------------------------------------------------

LEMMA InitInv == ASSUME Init PROVE Inv
<1>1. TypeOK
  BY IndexAssumption DEF Init, TypeOK, NoRecords, NoRow
<1>2. ASSUME NEW e \in Executions PROVE Sane(e)
  BY <1>2
  DEF Init, Sane, Early, Honest, Agreeing, Told, Distinguished, InProgress, NoRecords, NoRow,
      NoRequest, None, Verified
<1> QED BY <1>1, <1>2 DEF Inv

LEMMA StepInv == ASSUME Inv, Gated, [Next]_vars PROVE Inv'
<1>1. CASE UNCHANGED vars
  <2>1. TypeOK'
    BY <1>1 DEF Inv, TypeOK, vars
  <2>2. ASSUME NEW e \in Executions PROVE Sane(e)'
    BY <1>1, Frame DEF Inv, Untouched, vars
  <2> QED BY <2>1, <2>2 DEF Inv
<1>2. CASE Next
  BY <1>2, ExecuteStep, CoreVerifyStep, VerifyStep, VerifyNothingStep, IndexStep,
     RecordFailedStep, RestartStep DEF Next
<1> QED BY <1>1, <1>2

LEMMA IndexInvariant == ASSUME Gated PROVE Spec => []Inv
<1>1. Init => Inv
  BY InitInv
<1>2. Inv /\ [Next]_vars => Inv'
  BY StepInv
<1> QED BY <1>1, <1>2, PTL DEF Spec

(* Every variable keeps its type; in particular no execution is alerted    *)
(* twice (verify_executed_action, rebuild).                                *)
THEOREM TypeCorrect == Gated => (Spec => []TypeOK)
<1> SUFFICES ASSUME Gated PROVE Spec => []TypeOK
  OBVIOUS
<1>1. Inv => TypeOK
  BY DEF Inv
<1> QED BY <1>1, IndexInvariant, PTL

(* With callers that look at result.success, a row says verified only of a *)
(* run that succeeded and was observed in its expected state               *)
(* (index._classify, Verifier.verify).                                     *)
THEOREM VerifiedIsObserved == Gated => (Spec => []VerifiedWasObserved)
<1> SUFFICES ASSUME Gated PROVE Spec => []VerifiedWasObserved
  OBVIOUS
<1>1. Inv => VerifiedWasObserved
  BY DEF Inv, Sane, Honest, VerifiedWasObserved
<1> QED BY <1>1, IndexInvariant, PTL

(* The live row is the one a rebuild would make of the same records        *)
(* (index.record and index.rebuild).                                       *)
THEOREM RowsAgree == Gated => (Spec => []LiveAgrees)
<1> SUFFICES ASSUME Gated PROVE Spec => []LiveAgrees
  OBVIOUS
<1>1. Inv => LiveAgrees
  BY DEF Inv, Sane, Agreeing, LiveAgrees
<1> QED BY <1>1, IndexInvariant, PTL

(* One alert of each unverified run, none of history after a restart       *)
(* (_update_index_and_notify, the silent rebuild).                         *)
THEOREM AlertsOnce == Gated => (Spec => []AlertedOnce)
<1> SUFFICES ASSUME Gated PROVE Spec => []AlertedOnce
  OBVIOUS
<1>1. ASSUME TypeOK, NEW e \in Executions PROVE alerts[e] <= 1
  BY <1>1 DEF TypeOK
<1>2. Inv => AlertedOnce
  BY <1>1 DEF Inv, Sane, Told, AlertedOnce
<1> QED BY <1>2, IndexInvariant, PTL

(* The records of a run that went to its end tell whether its adapter      *)
(* failed, as long as they are not archived                                *)
(* (record_failed_execution_evidence).                                     *)
THEOREM FailuresDistinguished == Gated => (Spec => []FailureDistinguishable)
<1> SUFFICES ASSUME Gated PROVE Spec => []FailureDistinguishable
  OBVIOUS
<1>1. Inv => FailureDistinguishable
  BY DEF Inv, Sane, Distinguished, FailureDistinguishable
<1> QED BY <1>1, IndexInvariant, PTL
============================================================================
