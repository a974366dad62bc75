----------------------- MODULE AgentAuthorityProofs -----------------------
(***************************************************************************)
(* What holds of AgentAuthority for every set of operators, agents, grants, *)
(* proposals and approvals, and every number of restarts.  Two inductive    *)
(* invariants: AgentInv is of grants and answers; LifeInv adds what is known *)
(* of who is behind a hold until a restart, and gives the separation.       *)
(***************************************************************************)
EXTENDS AgentAuthority, TLAPS

-----------------------------------------------------------------------------
Governed == {"governing", "consuming", "recording", "answering"}
Held     == {"consuming", "recording", "answering"}

(* A proposal under way says something, and past the check it names a grant  *)
(* that memory has.                                                          *)
Named(p) ==
  /\ proposal[p] # None
  /\ proposal[p].grant \in Grants
  /\ grants[proposal[p].grant] # None

NamedInv == \A p \in Proposals :
  /\ pc[p] = "checking" => proposal[p] # None
  /\ pc[p] \in Governed => Named(p)

ApprovalNamed == \A a \in Approvals :
  pc[a] \in {"separating", "approving"} => approval[a] # None

(* An id that memory or disk has was drawn. *)
IssuedInv == \A g \in Grants :
  (grants[g] # None \/ disk[g] # None) => g \in issued

(* What was used reads consumed, in memory and on disk. *)
SpentInv == \A g \in used :
  /\ g \in issued
  /\ grants[g] # None => grants[g].consumed
  /\ disk[g] # None => disk[g].consumed

(* Only a proposal at its end has an answer; a held one has a hold. *)
AnsweredInv == \A p \in Proposals :
  /\ pc[p] # "done" => answer[p] = "none"
  /\ pc[p] \in Held => holds[p] # "none"
  /\ answer[p] = "hold" => holds[p] # "none" /\ proposal[p] # None

(* Behind a consumed grant, in memory or on disk, is a proposal the Core     *)
(* accepted.                                                                 *)
Backs(p, g) ==
  /\ proposal[p] # None /\ proposal[p].grant = g
  /\ holds[p] # "none" /\ answer[p] # "error"
  /\ pc[p] \notin {"idle", "checking", "governing"}

Consumed(g) ==
  \/ grants[g] # None /\ grants[g].consumed
  \/ disk[g] # None /\ disk[g].consumed

BackedInv == \A g \in Grants : Consumed(g) => \E p \in Proposals : Backs(p, g)

AgentInv ==
  /\ TypeOK /\ NamedInv /\ ApprovalNamed
  /\ IssuedInv /\ SpentInv /\ AnsweredInv /\ BackedInv

(* A hold that passed its recording in this life, and whose recording did    *)
(* not fail, has the provenance of its proposal.                             *)
Recorded(p) ==
  /\ Named(p)
  /\ provenance[p] # None
  /\ provenance[p].by = grants[proposal[p].grant].by
  /\ provenance[p].agent = proposal[p].agent

RecordedInv ==
  \A p \in Proposals \ (before \cup unrecorded) : PassedRecording(p) => Recorded(p)

(* An approval past the check is of another operator.                        *)
Cleared(a) ==
  pc[a] = "approving" /\ approval[a].hold \notin Unguarded =>
    /\ Recorded(approval[a].hold)
    /\ approval[a].by # GrantorOf(approval[a].hold)
    /\ approval[a].by # proposal[approval[a].hold].agent

ApprovingInv == \A a \in Approvals : Cleared(a)

(* What was approved is a hold of this life or of one before.                *)
ApprovedInv == \A p \in Proposals : approver[p] # None =>
  /\ p \in before \/ holds[p] # "none"
  /\ p \notin Unguarded => Recorded(p)

LifeInv == AgentInv /\ RecordedInv /\ ApprovingInv /\ ApprovedInv /\ SeparatedThisLife

-----------------------------------------------------------------------------
(* Grant records.                                                            *)

(* Marking a record consumed, or lapsed, keeps who granted and for what.     *)
LEMMA RecordUpdates ==
  ASSUME NEW r \in GrantRecords
  PROVE  /\ [r EXCEPT !.consumed = TRUE] \in GrantRecords
         /\ [r EXCEPT !.consumed = TRUE].by = r.by
         /\ [r EXCEPT !.consumed = TRUE].consumed
         /\ [r EXCEPT !.live = FALSE] \in GrantRecords
         /\ [r EXCEPT !.live = FALSE].by = r.by
         /\ [r EXCEPT !.live = FALSE].consumed = r.consumed
BY DEF GrantRecords

(* What lapsed keeps who granted and whether it was consumed.                *)
LEMMA LapsedRecord ==
  ASSUME NEW r \in GrantRecords \cup {None}
  PROVE  /\ Lapsed(r) \in GrantRecords \cup {None}
         /\ Lapsed(r) = None <=> r = None
         /\ r # None => Lapsed(r).by = r.by /\ Lapsed(r).consumed = r.consumed
<1>1. CASE r = None
  BY <1>1 DEF Lapsed
<1>2. CASE r # None
  BY <1>2, RecordUpdates, RecordsAssumption DEF Lapsed
<1> QED
  BY <1>1, <1>2

(* What AuthorityStore does to memory and disk when it marks a grant. *)
LEMMA Marking ==
  ASSUME TypeOK, NEW g \in Grants, grants[g] # None,
         NEW written \in BOOLEAN, MarkConsumed(g, written)
  PROVE  /\ grants' \in [Grants -> GrantRecords \cup {None}]
         /\ \A h \in Grants : h # g => grants'[h] = grants[h] /\ disk'[h] = disk[h]
         /\ grants'[g] # None /\ grants'[g].by = grants[g].by /\ grants'[g].consumed
         /\ disk' \in [Grants -> GrantRecords \cup {None}]
         /\ disk[g] = None => disk'[g] = None
         /\ disk[g] # None => disk'[g] # None
         /\ disk[g] # None /\ written => disk'[g].consumed
         /\ disk[g] # None /\ ~written => disk'[g] = disk[g]
<1>1. grants \in [Grants -> GrantRecords \cup {None}] /\ disk \in [Grants -> GrantRecords \cup {None}]
  BY DEF TypeOK
<1>2. grants' = [grants EXCEPT ![g] = [grants[g] EXCEPT !.consumed = TRUE]]
  BY DEF MarkConsumed
<1>3. grants[g] \in GrantRecords
  BY <1>1
<1>4. /\ grants' \in [Grants -> GrantRecords \cup {None}]
      /\ \A h \in Grants : h # g => grants'[h] = grants[h]
      /\ grants'[g] # None /\ grants'[g].by = grants[g].by /\ grants'[g].consumed
  <2>1. PICK m \in GrantRecords :
          /\ m = [grants[g] EXCEPT !.consumed = TRUE]
          /\ m.by = grants[g].by /\ m.consumed
    BY <1>3, RecordUpdates, Zenon
  <2>2. m # None
    BY RecordsAssumption
  <2>3. grants' = [grants EXCEPT ![g] = m]
    BY <1>2, <2>1
  <2> QED
    BY <1>1, <2>1, <2>2, <2>3
<1>5. CASE written /\ disk[g] # None
  <2>1. disk' = [disk EXCEPT ![g] = [disk[g] EXCEPT !.consumed = TRUE]]
    BY <1>5 DEF MarkConsumed
  <2>2. disk[g] \in GrantRecords
    BY <1>1, <1>5
  <2> QED
    BY <1>1, <1>4, <1>5, <2>1, <2>2, RecordUpdates, RecordsAssumption
<1>6. CASE ~(written /\ disk[g] # None)
  BY <1>1, <1>4, <1>6 DEF MarkConsumed
<1> QED
  BY <1>5, <1>6

(* The passing of expires_at, in memory and on disk.                         *)
LEMMA Lapsing ==
  ASSUME TypeOK, NEW g \in Grants, Expire(g)
  PROVE  /\ grants' \in [Grants -> GrantRecords \cup {None}]
         /\ disk' \in [Grants -> GrantRecords \cup {None}]
         /\ \A h \in Grants :
              /\ grants'[h] = None <=> grants[h] = None
              /\ disk'[h] = None <=> disk[h] = None
              /\ grants[h] # None =>
                   grants'[h].by = grants[h].by /\ grants'[h].consumed = grants[h].consumed
              /\ disk[h] # None => disk'[h].consumed = disk[h].consumed
<1>1. grants \in [Grants -> GrantRecords \cup {None}] /\ disk \in [Grants -> GrantRecords \cup {None}]
  BY DEF TypeOK
<1>2. grants' = [grants EXCEPT ![g] = Lapsed(grants[g])] /\ disk' = [disk EXCEPT ![g] = Lapsed(disk[g])]
  BY DEF Expire
<1> QED
  BY <1>1, <1>2, LapsedRecord

(* The outcomes of consume(): the grant was consumed already, or is marked.  *)
LEMMA Consuming ==
  ASSUME TypeOK, NamedInv, NEW p \in Proposals, Consume(p)
  PROVE  /\ Named(p)
         /\ \/ UNCHANGED <<grants, disk, used>>
            \/ \E written \in BOOLEAN :
                 /\ MarkConsumed(proposal[p].grant, written)
                 /\ used' = IF written THEN used \cup {proposal[p].grant} ELSE used
         /\ \A h \in Grants : grants[h] # None =>
              grants'[h] # None /\ grants'[h].by = grants[h].by
<1>1. Named(p)
  BY DEF NamedInv, Consume, Governed
<1>2. \/ UNCHANGED <<grants, disk, used>>
      \/ \E written \in BOOLEAN :
           /\ MarkConsumed(proposal[p].grant, written)
           /\ used' = IF written THEN used \cup {proposal[p].grant} ELSE used
  BY DEF Consume
<1>3. ASSUME NEW written \in BOOLEAN, MarkConsumed(proposal[p].grant, written),
             NEW h \in Grants, grants[h] # None
      PROVE  grants'[h] # None /\ grants'[h].by = grants[h].by
  BY <1>1, <1>3, Marking DEF Named
<1> QED
  BY <1>1, <1>2, <1>3

(* Where consume() leaves its proposal.                                      *)
LEMMA AfterConsume ==
  ASSUME TypeOK, NEW p \in Proposals, Consume(p)
  PROVE  /\ UNCHANGED <<proposal, approval, issued, holdVars>>
         /\ pc[p] = "consuming"
         /\ \A t \in Proposals \cup Approvals : t # p => pc'[t] = pc[t]
         /\ pc'[p] \in {"recording", "answering", "done"}
         /\ pc'[p] = "answering" => holds[p] = "executed"
         /\ \A q \in Proposals : q # p => answer'[q] = answer[q]
         /\ answer'[p] = answer[p] \/ (answer'[p] = "failed" /\ pc'[p] = "done")
<1>1. pc \in [Proposals \cup Approvals -> Steps \cup ApprovalSteps] /\ answer \in [Proposals -> Answers]
  BY DEF TypeOK
<1>2. \/ Goto(p, IF holds[p] = "executed" THEN "answering" ELSE "recording") /\ answer' = answer
      \/ Goto(p, "done") /\ answer' = [answer EXCEPT ![p] = "failed"]
  BY DEF Consume
<1>3. UNCHANGED <<proposal, approval, issued, holdVars>> /\ pc[p] = "consuming"
  BY DEF Consume
<1> QED
  BY <1>1, <1>2, <1>3 DEF Goto

(* Every variable keeps its type: what Consume and Record read of a grant is  *)
(* there.                                                                    *)
LEMMA TypeStep ==
  ASSUME TypeOK, NamedInv, ApprovalNamed, [Next]_vars
  PROVE  TypeOK'
<1>1. ASSUME NEW g \in Grants, NEW o \in Operators, NEW s \in Scopes, Grant(g, o, s) PROVE TypeOK'
  BY <1>1 DEF Grant, vars, grantVars, holdVars, threadVars, TypeOK, Steps, ApprovalSteps, Answers, GrantRecords
<1>2. ASSUME NEW g \in Grants, Expire(g) PROVE TypeOK'
  BY <1>2, Lapsing DEF Expire, vars, grantVars, holdVars, threadVars, TypeOK, Steps, ApprovalSteps, Answers
<1>3. ASSUME NEW p \in Proposals, Submit(p) PROVE TypeOK'
  BY <1>3, NamesAssumption DEF Submit, Goto, vars, grantVars, holdVars, threadVars, TypeOK, Steps, ApprovalSteps, Answers
<1>4. ASSUME NEW p \in Proposals, Check(p) PROVE TypeOK'
  BY <1>4, NamesAssumption DEF Check, Goto, vars, grantVars, holdVars, threadVars, TypeOK, Steps, ApprovalSteps, Answers
<1>5. ASSUME NEW p \in Proposals, Govern(p) PROVE TypeOK'
  BY <1>5, NamesAssumption DEF Govern, Goto, vars, grantVars, holdVars, threadVars, TypeOK, Steps, ApprovalSteps, Answers
<1>6. ASSUME NEW p \in Proposals, Consume(p) PROVE TypeOK'
  <2>1. /\ grants' \in [Grants -> GrantRecords \cup {None}]
        /\ disk' \in [Grants -> GrantRecords \cup {None}]
        /\ used' \subseteq Grants
    BY <1>6, Consuming, Marking DEF Named, TypeOK
  <2> QED
    BY <1>6, <2>1 DEF Consume, Goto, vars, grantVars, holdVars, threadVars, TypeOK, Steps, ApprovalSteps, Answers
<1>7. ASSUME NEW p \in Proposals, Record(p) PROVE TypeOK'
  <2>1. Named(p)
    BY <1>7 DEF NamedInv, Record, Governed
  <2>2. OriginOf(p) \in Origins
    BY <2>1 DEF Named, OriginOf, Origins, TypeOK, GrantRecords, ProposalRecords
  <2> QED
    BY <1>7, <2>2 DEF Record, Goto, vars, grantVars, holdVars, threadVars, TypeOK, Steps, ApprovalSteps, Answers
<1>8. ASSUME NEW p \in Proposals, Answer(p) PROVE TypeOK'
  BY <1>8, NamesAssumption DEF Answer, Goto, vars, grantVars, holdVars, threadVars, TypeOK, Steps, ApprovalSteps, Answers
<1>9. ASSUME NEW a \in Approvals, Approach(a) PROVE TypeOK'
  BY <1>9 DEF Approach, Goto, vars, grantVars, holdVars, threadVars, TypeOK, Steps, ApprovalSteps, Answers, ApprovalRecords
<1>10. ASSUME NEW a \in Approvals, CheckSeparation(a) PROVE TypeOK'
  <2>1. approval[a].hold \in Proposals
    BY <1>10 DEF CheckSeparation, ApprovalNamed, TypeOK, ApprovalRecords
  <2>2. /\ pc' \in [Proposals \cup Approvals -> Steps \cup ApprovalSteps]
        /\ early' \subseteq Proposals
    BY <1>10, <2>1, NamesAssumption DEF CheckSeparation, Goto, TypeOK, Steps, ApprovalSteps
  <2> QED
    BY <1>10, <2>2 DEF CheckSeparation, grantVars, TypeOK
<1>11. ASSUME NEW a \in Approvals, Approve(a) PROVE TypeOK'
  <2>1. approval[a] # None
    BY <1>11 DEF ApprovalNamed, Approve
  <2>2. approval[a] \in ApprovalRecords
    BY <2>1 DEF TypeOK
  <2>3. approval[a].by \in Operators /\ approval[a].hold \in Proposals
    BY <2>2 DEF ApprovalRecords
  <2> QED
    BY <1>11, <2>3 DEF Approve, Goto, vars, grantVars, holdVars, threadVars, TypeOK, Steps, ApprovalSteps, Answers
<1>12. CASE Restart
  BY <1>12, NamesAssumption DEF Restart, vars, grantVars, holdVars, threadVars, TypeOK, Steps, ApprovalSteps, Answers
<1>13. CASE UNCHANGED vars
  BY <1>13 DEF vars, grantVars, holdVars, threadVars, TypeOK
<1> QED
  BY <1>1, <1>2, <1>3, <1>4, <1>5, <1>6, <1>7, <1>8, <1>9, <1>10, <1>11, <1>12, <1>13 DEF Next, Propose, Continue

(* But for a restart, a grant that memory has stays, and keeps who granted.  *)
LEMMA GrantsKept ==
  ASSUME TypeOK, NamedInv, IssuedInv, [Next]_vars, ~Restart,
         NEW h \in Grants, grants[h] # None
  PROVE  grants'[h] # None /\ grants'[h].by = grants[h].by
<1>1. ASSUME NEW g \in Grants, NEW o \in Operators, NEW s \in Scopes, Grant(g, o, s)
      PROVE  grants'[h] = grants[h]
  BY <1>1 DEF Grant, IssuedInv, TypeOK
<1>2. ASSUME NEW g \in Grants, Expire(g)
      PROVE  grants'[h] # None /\ grants'[h].by = grants[h].by
  BY <1>2, Lapsing
<1>3. ASSUME NEW p \in Proposals, Consume(p)
      PROVE  grants'[h] # None /\ grants'[h].by = grants[h].by
  BY <1>3, Consuming
<1>4. ASSUME NEW p \in Proposals,
             Submit(p) \/ Check(p) \/ Govern(p) \/ Record(p) \/ Answer(p)
      PROVE  grants' = grants
  BY <1>4 DEF Submit, Check, Govern, Record, Answer, grantVars
<1>5. ASSUME NEW a \in Approvals, Continue(a)
      PROVE  grants' = grants
  BY <1>5 DEF Continue, Approach, CheckSeparation, Approve, grantVars
<1>6. CASE UNCHANGED vars
  BY <1>6 DEF vars, grantVars
<1> QED
  BY <1>1, <1>2, <1>3, <1>4, <1>5, <1>6 DEF Next, Propose

(* A proposal past its check keeps a grant that memory has.                  *)
LEMMA NamedStep ==
  ASSUME TypeOK, NamedInv, IssuedInv, TypeOK', [Next]_vars
  PROVE  NamedInv'
<1>1. ASSUME NEW g \in Grants, NEW o \in Operators, NEW s \in Scopes, Grant(g, o, s) PROVE NamedInv'
  <2>1. \A h \in Grants : grants[h] # None => grants'[h] # None
    BY <1>1 DEF Grant, IssuedInv, TypeOK
  <2> QED
    BY <1>1, <2>1 DEF Grant, vars, grantVars, holdVars, threadVars, TypeOK, NamedInv, Named, Governed
<1>2. ASSUME NEW g \in Grants, Expire(g) PROVE NamedInv'
  <2>1. \A h \in Grants : grants[h] # None => grants'[h] # None
    BY <1>2, Lapsing
  <2> QED
    BY <1>2, <2>1 DEF Expire, vars, grantVars, holdVars, threadVars, TypeOK, NamedInv, Named, Governed
<1>3. ASSUME NEW p \in Proposals, Submit(p) PROVE NamedInv'
  <2>1. proposal'[p] # None
    BY <1>3, RecordsAssumption DEF Submit, TypeOK
  <2> QED
    BY <1>3, <2>1, NamesAssumption DEF Submit, Goto, vars, grantVars, holdVars, threadVars, TypeOK, NamedInv, Named, Governed
<1>4. ASSUME NEW p \in Proposals, Check(p) PROVE NamedInv'
  <2>1. pc'[p] = "governing" => Named(p)
    BY <1>4, NamesAssumption DEF Check, Goto, NamedInv, Named, Authorized, TypeOK, ProposalRecords
  <2> QED
    BY <1>4, <2>1, NamesAssumption DEF Check, Goto, vars, grantVars, holdVars, threadVars, TypeOK, NamedInv, Named, Governed
<1>5. ASSUME NEW p \in Proposals, Govern(p) PROVE NamedInv'
  BY <1>5, NamesAssumption DEF Govern, Goto, vars, grantVars, holdVars, threadVars, TypeOK, NamedInv, Named, Governed
<1>6. ASSUME NEW p \in Proposals, Consume(p) PROVE NamedInv'
  <2>1. /\ \A h \in Grants : grants[h] # None => grants'[h] # None
        /\ Named(p)
    BY <1>6, Consuming
  <2>2. /\ proposal' = proposal
        /\ \A q \in Proposals : q # p => pc'[q] = pc[q]
        /\ pc'[p] # "checking"
    BY <1>6, NamesAssumption DEF Consume, Goto, threadVars, TypeOK
  <2> QED
    BY <2>1, <2>2 DEF NamedInv, Named
<1>7. ASSUME NEW p \in Proposals, Record(p) PROVE NamedInv'
  BY <1>7, NamesAssumption DEF Record, Goto, vars, grantVars, holdVars, threadVars, TypeOK, NamedInv, Named, Governed
<1>8. ASSUME NEW p \in Proposals, Answer(p) PROVE NamedInv'
  BY <1>8, NamesAssumption DEF Answer, Goto, vars, grantVars, holdVars, threadVars, TypeOK, NamedInv, Named, Governed
<1>9. ASSUME NEW a \in Approvals, Approach(a) PROVE NamedInv'
  BY <1>9, NamesAssumption DEF Approach, Goto, vars, grantVars, holdVars, threadVars, TypeOK, NamedInv, Named, Governed
<1>10. ASSUME NEW a \in Approvals, CheckSeparation(a) PROVE NamedInv'
  BY <1>10, NamesAssumption DEF CheckSeparation, PassedRecording, Goto, vars, grantVars, holdVars, threadVars, TypeOK, NamedInv, Named, Governed
<1>11. ASSUME NEW a \in Approvals, Approve(a) PROVE NamedInv'
  BY <1>11, NamesAssumption DEF Approve, Goto, vars, grantVars, holdVars, threadVars, TypeOK, NamedInv, Named, Governed
<1>12. CASE Restart
  BY <1>12 DEF Restart, NamedInv, Named, Governed
<1>13. CASE UNCHANGED vars
  BY <1>13 DEF vars, grantVars, holdVars, threadVars, NamedInv, Named, Governed
<1> QED
  BY <1>1, <1>2, <1>3, <1>4, <1>5, <1>6, <1>7, <1>8, <1>9, <1>10, <1>11, <1>12, <1>13 DEF Next, Propose, Continue

(* An approval under way has an approver and a hold.                         *)
LEMMA ApprovalStep ==
  ASSUME TypeOK, ApprovalNamed, [Next]_vars
  PROVE  ApprovalNamed'
<1>1. ASSUME NEW g \in Grants, NEW o \in Operators, NEW s \in Scopes, Grant(g, o, s) PROVE ApprovalNamed'
  BY <1>1, NamesAssumption DEF Grant, vars, grantVars, holdVars, threadVars, TypeOK, ApprovalNamed
<1>2. ASSUME NEW g \in Grants, Expire(g) PROVE ApprovalNamed'
  BY <1>2, NamesAssumption DEF Expire, vars, grantVars, holdVars, threadVars, TypeOK, ApprovalNamed
<1>3. ASSUME NEW p \in Proposals, Submit(p) PROVE ApprovalNamed'
  BY <1>3, NamesAssumption DEF Submit, Goto, vars, grantVars, holdVars, threadVars, TypeOK, ApprovalNamed
<1>4. ASSUME NEW p \in Proposals, Check(p) PROVE ApprovalNamed'
  BY <1>4, NamesAssumption DEF Check, Goto, vars, grantVars, holdVars, threadVars, TypeOK, ApprovalNamed
<1>5. ASSUME NEW p \in Proposals, Govern(p) PROVE ApprovalNamed'
  BY <1>5, NamesAssumption DEF Govern, Goto, vars, grantVars, holdVars, threadVars, TypeOK, ApprovalNamed
<1>6. ASSUME NEW p \in Proposals, Consume(p) PROVE ApprovalNamed'
  BY <1>6, NamesAssumption DEF Consume, Goto, vars, grantVars, holdVars, threadVars, TypeOK, ApprovalNamed
<1>7. ASSUME NEW p \in Proposals, Record(p) PROVE ApprovalNamed'
  BY <1>7, NamesAssumption DEF Record, Goto, vars, grantVars, holdVars, threadVars, TypeOK, ApprovalNamed
<1>8. ASSUME NEW p \in Proposals, Answer(p) PROVE ApprovalNamed'
  BY <1>8, NamesAssumption DEF Answer, Goto, vars, grantVars, holdVars, threadVars, TypeOK, ApprovalNamed
<1>9. ASSUME NEW a \in Approvals, Approach(a) PROVE ApprovalNamed'
  <2>1. approval'[a] # None
    BY <1>9, RecordsAssumption DEF Approach, ApprovalRecords, TypeOK, Known
  <2> QED
    BY <1>9, <2>1, NamesAssumption DEF Approach, Goto, vars, grantVars, holdVars, threadVars, TypeOK, ApprovalNamed
<1>10. ASSUME NEW a \in Approvals, CheckSeparation(a) PROVE ApprovalNamed'
  BY <1>10, NamesAssumption DEF CheckSeparation, PassedRecording, Goto, vars, grantVars, holdVars, threadVars, TypeOK, ApprovalNamed
<1>11. ASSUME NEW a \in Approvals, Approve(a) PROVE ApprovalNamed'
  BY <1>11, NamesAssumption DEF Approve, Goto, vars, grantVars, holdVars, threadVars, TypeOK, ApprovalNamed
<1>12. CASE Restart
  BY <1>12, NamesAssumption DEF Restart, vars, grantVars, holdVars, threadVars, TypeOK, ApprovalNamed
<1>13. CASE UNCHANGED vars
  BY <1>13, NamesAssumption DEF vars, grantVars, holdVars, threadVars, TypeOK, ApprovalNamed
<1> QED
  BY <1>1, <1>2, <1>3, <1>4, <1>5, <1>6, <1>7, <1>8, <1>9, <1>10, <1>11, <1>12, <1>13 DEF Next, Propose, Continue

(* Ids are drawn once, and what is used stays spent.                         *)
LEMMA GrantsStep ==
  ASSUME TypeOK, NamedInv, IssuedInv, SpentInv, [Next]_vars
  PROVE  (IssuedInv /\ SpentInv)'
<1>1. ASSUME NEW g \in Grants, NEW o \in Operators, NEW s \in Scopes, Grant(g, o, s) PROVE (IssuedInv /\ SpentInv)'
  BY <1>1, RecordsAssumption DEF Grant, vars, grantVars, holdVars, threadVars, TypeOK, IssuedInv, SpentInv
<1>2. ASSUME NEW g \in Grants, Expire(g) PROVE (IssuedInv /\ SpentInv)'
  <2>1. /\ UNCHANGED <<issued, used>>
        /\ used \subseteq Grants
    BY <1>2 DEF Expire, vars, grantVars, holdVars, threadVars, TypeOK
  <2> QED
    BY <1>2, <2>1, Lapsing DEF IssuedInv, SpentInv
<1>3. ASSUME NEW p \in Proposals, Submit(p) PROVE (IssuedInv /\ SpentInv)'
  <2>1. UNCHANGED <<grants, disk, issued, used>>
    BY <1>3 DEF Submit, Goto, vars, grantVars, holdVars, threadVars
  <2> QED
    BY <2>1 DEF IssuedInv, SpentInv
<1>4. ASSUME NEW p \in Proposals, Check(p) PROVE (IssuedInv /\ SpentInv)'
  <2>1. UNCHANGED <<grants, disk, issued, used>>
    BY <1>4 DEF Check, Goto, vars, grantVars, holdVars, threadVars
  <2> QED
    BY <2>1 DEF IssuedInv, SpentInv
<1>5. ASSUME NEW p \in Proposals, Govern(p) PROVE (IssuedInv /\ SpentInv)'
  <2>1. UNCHANGED <<grants, disk, issued, used>>
    BY <1>5 DEF Govern, Goto, vars, grantVars, holdVars, threadVars
  <2> QED
    BY <2>1 DEF IssuedInv, SpentInv
<1>6. ASSUME NEW p \in Proposals, Consume(p) PROVE (IssuedInv /\ SpentInv)'
  <2>1. Named(p) /\ UNCHANGED issued
    BY <1>6, Consuming DEF Consume
  <2>2. CASE UNCHANGED <<grants, disk, used>>
    BY <2>1, <2>2 DEF IssuedInv, SpentInv
  <2>3. ASSUME NEW written \in BOOLEAN, MarkConsumed(proposal[p].grant, written),
               used' = IF written THEN used \cup {proposal[p].grant} ELSE used
        PROVE  (IssuedInv /\ SpentInv)'
    <3>1. used \subseteq Grants
      BY DEF TypeOK
    <3> QED
      BY <2>1, <2>3, <3>1, Marking DEF Named, IssuedInv, SpentInv
  <2> QED
    BY <1>6, <2>2, <2>3, Consuming
<1>7. ASSUME NEW p \in Proposals, Record(p) PROVE (IssuedInv /\ SpentInv)'
  <2>1. UNCHANGED <<grants, disk, issued, used>>
    BY <1>7 DEF Record, Goto, vars, grantVars, holdVars, threadVars
  <2> QED
    BY <2>1 DEF IssuedInv, SpentInv
<1>8. ASSUME NEW p \in Proposals, Answer(p) PROVE (IssuedInv /\ SpentInv)'
  <2>1. UNCHANGED <<grants, disk, issued, used>>
    BY <1>8 DEF Answer, Goto, vars, grantVars, holdVars, threadVars
  <2> QED
    BY <2>1 DEF IssuedInv, SpentInv
<1>9. ASSUME NEW a \in Approvals, Approach(a) PROVE (IssuedInv /\ SpentInv)'
  <2>1. UNCHANGED <<grants, disk, issued, used>>
    BY <1>9 DEF Approach, Goto, vars, grantVars, holdVars, threadVars
  <2> QED
    BY <2>1 DEF IssuedInv, SpentInv
<1>10. ASSUME NEW a \in Approvals, CheckSeparation(a) PROVE (IssuedInv /\ SpentInv)'
  <2>1. UNCHANGED <<grants, disk, issued, used>>
    BY <1>10 DEF CheckSeparation, Goto, vars, grantVars, holdVars, threadVars
  <2> QED
    BY <2>1 DEF IssuedInv, SpentInv
<1>11. ASSUME NEW a \in Approvals, Approve(a) PROVE (IssuedInv /\ SpentInv)'
  <2>1. UNCHANGED <<grants, disk, issued, used>>
    BY <1>11 DEF Approve, Goto, vars, grantVars, holdVars, threadVars
  <2> QED
    BY <2>1 DEF IssuedInv, SpentInv
<1>12. CASE Restart
  BY <1>12 DEF Restart, IssuedInv, SpentInv
<1>13. CASE UNCHANGED vars
  <2>1. UNCHANGED <<grants, disk, issued, used>>
    BY <1>13 DEF vars, grantVars, holdVars, threadVars
  <2> QED
    BY <2>1 DEF IssuedInv, SpentInv
<1> QED
  BY <1>1, <1>2, <1>3, <1>4, <1>5, <1>6, <1>7, <1>8, <1>9, <1>10, <1>11, <1>12, <1>13 DEF Next, Propose, Continue

(* Only a proposal at its end has an answer; one that is held has a hold.    *)
LEMMA AnsweredStep ==
  ASSUME TypeOK, NamedInv, AnsweredInv, [Next]_vars
  PROVE  AnsweredInv'
<1>1. ASSUME NEW g \in Grants, NEW o \in Operators, NEW s \in Scopes, Grant(g, o, s) PROVE AnsweredInv'
  BY <1>1, NamesAssumption DEF Grant, vars, grantVars, holdVars, threadVars, AnsweredInv, Held, TypeOK
<1>2. ASSUME NEW g \in Grants, Expire(g) PROVE AnsweredInv'
  BY <1>2, NamesAssumption DEF Expire, vars, grantVars, holdVars, threadVars, AnsweredInv, Held, TypeOK
<1>3. ASSUME NEW p \in Proposals, Submit(p) PROVE AnsweredInv'
  <2>1. proposal'[p] # None
    BY <1>3, RecordsAssumption DEF Submit, TypeOK
  <2> QED
    BY <1>3, <2>1, NamesAssumption DEF Submit, Goto, vars, grantVars, holdVars, threadVars, AnsweredInv, Held, TypeOK
<1>4. ASSUME NEW p \in Proposals, Check(p) PROVE AnsweredInv'
  BY <1>4, NamesAssumption DEF Check, Goto, vars, grantVars, holdVars, threadVars, AnsweredInv, Held, TypeOK
<1>5. ASSUME NEW p \in Proposals, Govern(p) PROVE AnsweredInv'
  <2>1. proposal[p] # None
    BY <1>5 DEF Govern, NamedInv, Named, Governed
  <2> QED
    BY <1>5, <2>1, NamesAssumption DEF Govern, Goto, vars, grantVars, holdVars, threadVars, AnsweredInv, Held, TypeOK, Accepted
<1>6. ASSUME NEW p \in Proposals, Consume(p) PROVE AnsweredInv'
  <2>1. UNCHANGED <<proposal, holds>>
    BY <1>6, AfterConsume DEF holdVars
  <2> QED
    BY <1>6, <2>1, AfterConsume DEF AnsweredInv, Held
<1>7. ASSUME NEW p \in Proposals, Record(p) PROVE AnsweredInv'
  BY <1>7, NamesAssumption DEF Record, Goto, vars, grantVars, holdVars, threadVars, AnsweredInv, Held, TypeOK
<1>8. ASSUME NEW p \in Proposals, Answer(p) PROVE AnsweredInv'
  <2>1. proposal[p] # None
    BY <1>8 DEF Answer, NamedInv, Named, Governed
  <2> QED
    BY <1>8, <2>1, NamesAssumption DEF Answer, Goto, vars, grantVars, holdVars, threadVars, AnsweredInv, Held, TypeOK
<1>9. ASSUME NEW a \in Approvals, Approach(a) PROVE AnsweredInv'
  BY <1>9, NamesAssumption DEF Approach, Goto, vars, grantVars, holdVars, threadVars, AnsweredInv, Held, TypeOK
<1>10. ASSUME NEW a \in Approvals, CheckSeparation(a) PROVE AnsweredInv'
  BY <1>10, NamesAssumption DEF CheckSeparation, PassedRecording, Goto, vars, grantVars, holdVars, threadVars, AnsweredInv, Held, TypeOK
<1>11. ASSUME NEW a \in Approvals, Approve(a) PROVE AnsweredInv'
  BY <1>11, NamesAssumption DEF Approve, Goto, vars, grantVars, holdVars, threadVars, AnsweredInv, Held, TypeOK
<1>12. CASE Restart
  BY <1>12, NamesAssumption DEF Restart, vars, grantVars, holdVars, threadVars, AnsweredInv, Held, TypeOK
<1>13. CASE UNCHANGED vars
  BY <1>13 DEF vars, grantVars, holdVars, threadVars, AnsweredInv
<1> QED
  BY <1>1, <1>2, <1>3, <1>4, <1>5, <1>6, <1>7, <1>8, <1>9, <1>10, <1>11, <1>12, <1>13 DEF Next, Propose, Continue

(* A proposal that stands behind a consumed grant stands behind it for ever. *)
LEMMA BacksKept ==
  ASSUME TypeOK, AnsweredInv, NEW q \in Proposals, NEW h \in Grants, Backs(q, h), [Next]_vars
  PROVE  Backs(q, h)'
<1>1. ASSUME NEW g \in Grants, NEW o \in Operators, NEW s \in Scopes, Grant(g, o, s) PROVE Backs(q, h)'
  BY <1>1, NamesAssumption DEF Grant, vars, grantVars, holdVars, threadVars, Backs, TypeOK
<1>2. ASSUME NEW g \in Grants, Expire(g) PROVE Backs(q, h)'
  BY <1>2, NamesAssumption DEF Expire, vars, grantVars, holdVars, threadVars, Backs, TypeOK
<1>3. ASSUME NEW p \in Proposals, Submit(p) PROVE Backs(q, h)'
  BY <1>3, NamesAssumption DEF Submit, Goto, vars, grantVars, holdVars, threadVars, Backs, TypeOK
<1>4. ASSUME NEW p \in Proposals, Check(p) PROVE Backs(q, h)'
  BY <1>4, NamesAssumption DEF Check, Goto, vars, grantVars, holdVars, threadVars, Backs, TypeOK
<1>5. ASSUME NEW p \in Proposals, Govern(p) PROVE Backs(q, h)'
  BY <1>5, NamesAssumption DEF Govern, Goto, vars, grantVars, holdVars, threadVars, Backs, TypeOK
<1>6. ASSUME NEW p \in Proposals, Consume(p) PROVE Backs(q, h)'
  BY <1>6, AfterConsume DEF holdVars, Backs
<1>7. ASSUME NEW p \in Proposals, Record(p) PROVE Backs(q, h)'
  BY <1>7, NamesAssumption DEF Record, Goto, vars, grantVars, holdVars, threadVars, Backs, TypeOK
<1>8. ASSUME NEW p \in Proposals, Answer(p) PROVE Backs(q, h)'
  BY <1>8, NamesAssumption DEF Answer, Goto, vars, grantVars, holdVars, threadVars, AnsweredInv, Backs, TypeOK
<1>9. ASSUME NEW a \in Approvals, Approach(a) PROVE Backs(q, h)'
  BY <1>9, NamesAssumption DEF Approach, Goto, vars, grantVars, holdVars, threadVars, Backs, TypeOK
<1>10. ASSUME NEW a \in Approvals, CheckSeparation(a) PROVE Backs(q, h)'
  BY <1>10, NamesAssumption DEF CheckSeparation, PassedRecording, Goto, vars, grantVars, holdVars, threadVars, Backs, TypeOK
<1>11. ASSUME NEW a \in Approvals, Approve(a) PROVE Backs(q, h)'
  BY <1>11, NamesAssumption DEF Approve, Goto, vars, grantVars, holdVars, threadVars, Backs, TypeOK
<1>12. CASE Restart
  BY <1>12, NamesAssumption DEF Restart, vars, grantVars, holdVars, threadVars, Backs, TypeOK
<1>13. CASE UNCHANGED vars
  BY <1>13 DEF vars, grantVars, holdVars, threadVars, Backs
<1> QED
  BY <1>1, <1>2, <1>3, <1>4, <1>5, <1>6, <1>7, <1>8, <1>9, <1>10, <1>11, <1>12, <1>13 DEF Next, Propose, Continue

(* Only consume() consumes, and only what its accepted proposal names.       *)
LEMMA ConsumedFrom ==
  ASSUME TypeOK, NamedInv, AnsweredInv, [Next]_vars, NEW h \in Grants, Consumed(h)'
  PROVE  Consumed(h) \/ \E p \in Proposals : Backs(p, h)'
<1>1. ASSUME NEW g \in Grants, NEW o \in Operators, NEW s \in Scopes, Grant(g, o, s)
      PROVE  Consumed(h)
  BY <1>1 DEF Grant, Consumed, TypeOK
<1>2. ASSUME NEW g \in Grants, Expire(g)
      PROVE  Consumed(h)
  BY <1>2, Lapsing DEF Consumed
<1>3. ASSUME NEW p \in Proposals, Consume(p)
      PROVE  Consumed(h) \/ Backs(p, h)'
  <2>1. CASE h = proposal[p].grant
    <3>1. /\ proposal'[p] # None /\ proposal'[p].grant = h
          /\ holds'[p] # "none"
      BY <1>3, <2>1, AfterConsume, Consuming DEF Named, AnsweredInv, Held, holdVars
    <3>2. /\ answer'[p] # "error"
          /\ pc'[p] \notin {"idle", "checking", "governing"}
      BY <1>3, AfterConsume DEF AnsweredInv
    <3> QED
      BY <3>1, <3>2 DEF Backs
  <2>2. CASE h # proposal[p].grant
    <3>1. grants'[h] = grants[h] /\ disk'[h] = disk[h]
      BY <1>3, <2>2, Consuming, Marking DEF Named
    <3> QED
      BY <3>1 DEF Consumed
  <2> QED
    BY <2>1, <2>2
<1>4. ASSUME NEW p \in Proposals,
             Submit(p) \/ Check(p) \/ Govern(p) \/ Record(p) \/ Answer(p)
      PROVE  Consumed(h)
  BY <1>4 DEF Submit, Check, Govern, Record, Answer, grantVars, Consumed
<1>5. ASSUME NEW a \in Approvals, Continue(a)
      PROVE  Consumed(h)
  BY <1>5 DEF Continue, Approach, CheckSeparation, Approve, grantVars, Consumed
<1>6. CASE Restart
  BY <1>6 DEF Restart, Consumed
<1>7. CASE UNCHANGED vars
  BY <1>7 DEF vars, grantVars, Consumed
<1> QED
  BY <1>1, <1>2, <1>3, <1>4, <1>5, <1>6, <1>7 DEF Next, Propose

(* Init establishes AgentInv. *)
LEMMA AgentInit == Init => AgentInv
<1> SUFFICES ASSUME Init PROVE AgentInv
  OBVIOUS
<1>1. TypeOK
  BY NamesAssumption DEF Init, TypeOK, Steps, ApprovalSteps, Answers
<1>2. NamedInv /\ ApprovalNamed /\ IssuedInv /\ SpentInv /\ AnsweredInv
  BY DEF Init, NamedInv, ApprovalNamed, IssuedInv, SpentInv, AnsweredInv, Governed, Held
<1>3. BackedInv
  BY DEF Init, BackedInv, Consumed
<1> QED
  BY <1>1, <1>2, <1>3 DEF AgentInv

(* Every step preserves AgentInv. *)
LEMMA AgentStep == AgentInv /\ [Next]_vars => AgentInv'
<1> SUFFICES ASSUME AgentInv, [Next]_vars PROVE AgentInv'
  OBVIOUS
<1>1. TypeOK' /\ ApprovalNamed'
  BY TypeStep, ApprovalStep DEF AgentInv
<1>2. NamedInv'
  BY <1>1, NamedStep DEF AgentInv
<1>3. IssuedInv' /\ SpentInv' /\ AnsweredInv'
  BY GrantsStep, AnsweredStep DEF AgentInv
<1>4. BackedInv'
  <2> SUFFICES ASSUME NEW h \in Grants, Consumed(h)'
               PROVE  \E p \in Proposals : Backs(p, h)'
    BY DEF BackedInv
  <2>1. CASE Consumed(h)
    BY <2>1, BacksKept DEF AgentInv, BackedInv
  <2>2. CASE ~Consumed(h)
    BY <2>2, ConsumedFrom DEF AgentInv
  <2> QED
    BY <2>1, <2>2
<1> QED
  BY <1>1, <1>2, <1>3, <1>4 DEF AgentInv

(* AgentInv holds in every state.                                           *)
THEOREM AgentInvariant == Spec => []AgentInv
<1>1. Init => AgentInv
  BY AgentInit
<1>2. AgentInv /\ [Next]_vars => AgentInv'
  BY AgentStep
<1> QED
  BY <1>1, <1>2, PTL DEF Spec

(* Every variable keeps its type. *)
THEOREM TypeCorrect == Spec => []TypeOK
<1>1. AgentInv => TypeOK
  BY DEF AgentInv
<1> QED
  BY <1>1, AgentInvariant, PTL

(* Behind every consumed grant is a hold or an execution of a proposal that  *)
(* named it: what the Core denied, or raised on, consumed nothing.           *)
THEOREM ConsumptionIsAccepted == Spec => []ConsumedIsAccepted
<1>1. AgentInv => ConsumedIsAccepted
  BY DEF AgentInv, BackedInv, Consumed, Backs, ConsumedIsAccepted
<1> QED
  BY <1>1, AgentInvariant, PTL

(* A grant that was consumed authorizes no later proposal, in this process   *)
(* life or after a restart.                                                  *)
THEOREM UsedStaysSpent == Spec => UsedIsSpent
<1>1. AgentInv /\ [Next]_vars =>
        [\A p \in Proposals :
           pc[p] = "checking" /\ pc'[p] = "governing" => proposal[p].grant \notin used]_vars
  <2> SUFFICES ASSUME AgentInv, Next, NEW p \in Proposals,
                      pc[p] = "checking", pc'[p] = "governing"
               PROVE  proposal[p].grant \notin used
    OBVIOUS
  <2>1. Check(p)
    <3>1. ASSUME NEW q \in Proposals, Propose(q), q # p
          PROVE  pc'[p] = pc[p]
      BY <3>1 DEF Propose, Submit, Check, Govern, Consume, Record, Answer, Goto, AgentInv, TypeOK
    <3>2. ASSUME NEW a \in Approvals, Continue(a)
          PROVE  pc'[p] = pc[p]
      BY <3>2, NamesAssumption
         DEF Continue, Approach, CheckSeparation, Approve, Goto, AgentInv, TypeOK
    <3>3. ASSUME Propose(p)
          PROVE  Check(p)
      BY <3>3 DEF Propose, Submit, Check, Govern, Consume, Record, Answer
    <3>4. CASE \E g \in Grants : Expire(g) \/ \E o \in Operators, s \in Scopes : Grant(g, o, s)
      BY <3>4 DEF Expire, Grant, threadVars
    <3>5. CASE Restart
      BY <3>5 DEF Restart, AgentInv, TypeOK
    <3> QED
      BY <3>1, <3>2, <3>3, <3>4, <3>5 DEF Next
  <2> QED
    BY <2>1 DEF Check, Goto, Authorized, AgentInv, SpentInv, TypeOK
<1> QED
  BY <1>1, AgentInvariant, PTL DEF Spec, UsedIsSpent

-----------------------------------------------------------------------------
(* One process life: who is behind a hold.                                   *)

(* What is known of a proposal stays known until a restart. *)
LEMMA RecordedKept ==
  ASSUME TypeOK, NamedInv, IssuedInv, [Next]_vars, ~Restart,
         NEW q \in Proposals, Recorded(q)
  PROVE  /\ Recorded(q)'
         /\ proposal'[q] = proposal[q]
         /\ GrantorOf(q)' = GrantorOf(q)
<1>1. proposal'[q] = proposal[q]
  <2>1. ASSUME NEW p \in Proposals, Submit(p)
        PROVE  proposal'[q] = proposal[q]
    BY <2>1 DEF Submit, Recorded, Named, TypeOK
  <2>2. ASSUME NEW p \in Proposals,
               Check(p) \/ Govern(p) \/ Consume(p) \/ Record(p) \/ Answer(p)
        PROVE  proposal' = proposal
    BY <2>2 DEF Check, Govern, Consume, Record, Answer
  <2>3. ASSUME NEW a \in Approvals, Continue(a)
        PROVE  proposal' = proposal
    BY <2>3 DEF Continue, Approach, CheckSeparation, Approve
  <2>4. CASE \E g \in Grants : Expire(g) \/ \E o \in Operators, s \in Scopes : Grant(g, o, s)
    BY <2>4 DEF Expire, Grant, threadVars
  <2>5. CASE UNCHANGED vars
    BY <2>5 DEF vars, threadVars
  <2> QED
    BY <2>1, <2>2, <2>3, <2>4, <2>5 DEF Next, Propose
<1>2. /\ grants'[proposal[q].grant] # None
      /\ grants'[proposal[q].grant].by = grants[proposal[q].grant].by
  BY GrantsKept DEF Recorded, Named
<1>3. \/ provenance'[q] = provenance[q]
      \/ provenance'[q] = OriginOf(q)
  <2>1. ASSUME NEW p \in Proposals, Record(p)
        PROVE  provenance'[q] = provenance[q] \/ provenance'[q] = OriginOf(q)
    BY <2>1 DEF Record, TypeOK
  <2>2. ASSUME NEW p \in Proposals,
               Submit(p) \/ Check(p) \/ Govern(p) \/ Consume(p) \/ Answer(p)
        PROVE  provenance' = provenance
    BY <2>2 DEF Submit, Check, Govern, Consume, Answer, holdVars
  <2>3. ASSUME NEW a \in Approvals, Continue(a)
        PROVE  provenance' = provenance
    BY <2>3 DEF Continue, Approach, CheckSeparation, Approve, holdVars
  <2>4. CASE \E g \in Grants : Expire(g) \/ \E o \in Operators, s \in Scopes : Grant(g, o, s)
    BY <2>4 DEF Expire, Grant, holdVars
  <2>5. CASE UNCHANGED vars
    BY <2>5 DEF vars, holdVars
  <2> QED
    BY <2>1, <2>2, <2>3, <2>4, <2>5 DEF Next, Propose
<1>4. CASE provenance'[q] = provenance[q]
  BY <1>1, <1>2, <1>4 DEF Recorded, Named, GrantorOf
<1>5. CASE provenance'[q] = OriginOf(q)
  <2>1. OriginOf(q) # None
    <3>1. grants[proposal[q].grant] \in GrantRecords /\ proposal[q] \in ProposalRecords
      BY DEF Recorded, Named, TypeOK
    <3>2. OriginOf(q) \in Origins
      BY <3>1 DEF OriginOf, Origins, GrantRecords, ProposalRecords
    <3> QED
      BY <3>2, RecordsAssumption
  <2>2. /\ provenance'[q].by = grants[proposal[q].grant].by
        /\ provenance'[q].agent = proposal[q].agent
    BY <1>5 DEF OriginOf
  <2> QED
    BY <1>1, <1>2, <1>5, <2>1, <2>2 DEF Recorded, Named, GrantorOf
<1> QED
  BY <1>3, <1>4, <1>5

(* What guards nothing any more never guards again; but for a restart, the   *)
(* holds of earlier lives are the same.                                      *)
LEMMA UnguardedGrows ==
  ASSUME [Next]_vars
  PROVE  /\ before \subseteq before' /\ unrecorded \subseteq unrecorded' /\ early \subseteq early'
         /\ Unguarded \subseteq Unguarded'
         /\ ~Restart => before' = before
<1>1. ASSUME NEW p \in Proposals, Propose(p)
      PROVE  before' = before /\ unrecorded \subseteq unrecorded' /\ early' = early
  BY <1>1 DEF Propose, Submit, Check, Govern, Consume, Record, Answer, holdVars
<1>2. ASSUME NEW a \in Approvals, Continue(a)
      PROVE  before' = before /\ unrecorded' = unrecorded /\ early \subseteq early'
  BY <1>2 DEF Continue, Approach, CheckSeparation, Approve, holdVars
<1>3. CASE Restart
  BY <1>3 DEF Restart, Unguarded
<1>4. CASE \E g \in Grants : Expire(g) \/ \E o \in Operators, s \in Scopes : Grant(g, o, s)
  BY <1>4 DEF Expire, Grant, holdVars, Unguarded
<1>5. CASE UNCHANGED vars
  BY <1>5 DEF vars, holdVars, Unguarded
<1> QED
  BY <1>1, <1>2, <1>3, <1>4, <1>5 DEF Next, Unguarded

(* A hold is forgotten by a restart only.                                    *)
LEMMA HoldsKept ==
  ASSUME TypeOK, [Next]_vars, ~Restart, NEW q \in Proposals, holds[q] # "none"
  PROVE  holds'[q] # "none"
<1>1. ASSUME NEW p \in Proposals, Propose(p) PROVE holds'[q] # "none"
  BY <1>1 DEF Propose, Submit, Check, Govern, Consume, Record, Answer, holdVars, TypeOK
<1>2. ASSUME NEW a \in Approvals, Continue(a) PROVE holds'[q] # "none"
  BY <1>2 DEF Continue, Approach, CheckSeparation, Approve, holdVars, TypeOK
<1>3. CASE \E g \in Grants : Expire(g) \/ \E o \in Operators, s \in Scopes : Grant(g, o, s)
  BY <1>3 DEF Expire, Grant, holdVars
<1>4. CASE UNCHANGED vars
  BY <1>4 DEF vars, holdVars
<1> QED
  BY <1>1, <1>2, <1>3, <1>4 DEF Next

(* Only a proposal on its way to its answer leaves the approval side.        *)
LEMMA ApprovalSide ==
  ASSUME TypeOK, NEW p \in Proposals, Propose(p)
  PROVE  /\ UNCHANGED <<approval, approver>>
         /\ \A a \in Approvals : pc'[a] = pc[a]
<1>1. ASSUME Submit(p) \/ Check(p) \/ Govern(p) \/ Record(p) \/ Answer(p)
      PROVE  /\ UNCHANGED <<approval, approver>>
             /\ \A a \in Approvals : pc'[a] = pc[a]
  BY <1>1, NamesAssumption DEF Submit, Check, Govern, Record, Answer, Goto, holdVars, TypeOK
<1>2. ASSUME Consume(p)
      PROVE  /\ UNCHANGED <<approval, approver>>
             /\ \A a \in Approvals : pc'[a] = pc[a]
  BY <1>2, AfterConsume, NamesAssumption DEF holdVars
<1> QED
  BY <1>1, <1>2 DEF Propose

(* But for Record, no step brings a hold past its recording.                 *)
LEMMA PassedFrom ==
  ASSUME TypeOK, AnsweredInv, [Next]_vars, ~Restart,
         NEW q \in Proposals, PassedRecording(q)', ~PassedRecording(q)
  PROVE  Record(q)
<1>1. ASSUME NEW p \in Proposals, Submit(p) \/ Check(p) \/ Govern(p)
      PROVE  FALSE
  BY <1>1 DEF Submit, Check, Govern, Goto, PassedRecording, TypeOK, AnsweredInv, holdVars
<1>2. ASSUME NEW p \in Proposals, Consume(p)
      PROVE  FALSE
  BY <1>2, AfterConsume DEF PassedRecording, holdVars
<1>3. ASSUME NEW p \in Proposals, Record(p), p # q
      PROVE  FALSE
  BY <1>3 DEF Record, Goto, PassedRecording, TypeOK
<1>4. ASSUME NEW p \in Proposals, Answer(p)
      PROVE  FALSE
  BY <1>4 DEF Answer, Goto, PassedRecording, TypeOK, holdVars
<1>5. ASSUME NEW a \in Approvals, Continue(a)
      PROVE  FALSE
  BY <1>5, NamesAssumption
     DEF Continue, Approach, CheckSeparation, Approve, Goto, PassedRecording, TypeOK, holdVars
<1>6. CASE \E g \in Grants : Expire(g) \/ \E o \in Operators, s \in Scopes : Grant(g, o, s)
  BY <1>6 DEF Expire, Grant, PassedRecording, threadVars, holdVars
<1>7. CASE UNCHANGED vars
  BY <1>7 DEF vars, threadVars, holdVars, PassedRecording
<1> QED
  BY <1>1, <1>2, <1>3, <1>4, <1>5, <1>6, <1>7 DEF Next, Propose

(* A hold made in this life is recorded, or known not to be.                 *)
LEMMA RecordedStep ==
  ASSUME AgentInv, RecordedInv, [Next]_vars
  PROVE  RecordedInv'
<1>1. CASE Restart
  <2>1. \A p \in Proposals : PassedRecording(p)' => p \in before'
    BY <1>1 DEF Restart, PassedRecording, AgentInv, AnsweredInv, TypeOK
  <2> QED
    BY <2>1 DEF RecordedInv
<1>2. CASE ~Restart
  <2> SUFFICES ASSUME NEW q \in Proposals, q \notin before', q \notin unrecorded',
                      PassedRecording(q)'
               PROVE  Recorded(q)'
    BY DEF RecordedInv
  <2>1. q \notin before /\ q \notin unrecorded
    BY UnguardedGrows
  <2>2. CASE PassedRecording(q)
    BY <1>2, <2>1, <2>2, RecordedKept DEF RecordedInv, AgentInv
  <2>3. CASE ~PassedRecording(q)
    <3>1. Record(q)
      BY <1>2, <2>3, PassedFrom DEF AgentInv
    <3>2. Named(q) /\ proposal[q] \in ProposalRecords /\ grants[proposal[q].grant] \in GrantRecords
      BY <3>1 DEF Record, AgentInv, NamedInv, Governed, Named, TypeOK
    <3>3. OriginOf(q) # None
      BY <3>2, RecordsAssumption DEF OriginOf, Origins, GrantRecords, ProposalRecords
    <3>4. provenance'[q] = OriginOf(q) /\ UNCHANGED <<grants, proposal>>
      BY <3>1 DEF Record, AgentInv, TypeOK, grantVars
    <3> QED
      BY <3>2, <3>3, <3>4 DEF Recorded, Named, OriginOf
  <2> QED
    BY <2>2, <2>3
<1> QED
  BY <1>1, <1>2

(* Steps that no approval takes, but for a restart.                          *)
OtherStep ==
  \/ \E g \in Grants : Expire(g) \/ \E o \in Operators, s \in Scopes : Grant(g, o, s)
  \/ \E p \in Proposals : Propose(p)
  \/ UNCHANGED vars

(* They leave the approvals alone.                                           *)
LEMMA OtherSteps ==
  ASSUME TypeOK, OtherStep
  PROVE  /\ UNCHANGED <<approval, approver>>
         /\ \A a \in Approvals : pc'[a] = pc[a]
<1>1. CASE \E g \in Grants : Expire(g) \/ \E o \in Operators, s \in Scopes : Grant(g, o, s)
  BY <1>1 DEF Expire, Grant, holdVars, threadVars
<1>2. CASE UNCHANGED vars
  BY <1>2 DEF vars, holdVars, threadVars
<1> QED
  BY <1>1, <1>2, ApprovalSide DEF OtherStep

(* What an approval past the check knows stays true.                         *)
LEMMA ClearedKept ==
  ASSUME AgentInv, [Next]_vars, ~Restart, NEW a \in Approvals, Cleared(a),
         pc'[a] = pc[a], approval'[a] = approval[a]
  PROVE  Cleared(a)'
<1>1. CASE pc[a] = "approving" /\ approval[a].hold \notin Unguarded'
  <2>1. approval[a].hold \notin Unguarded
    BY <1>1, UnguardedGrows
  <2>2. approval[a].hold \in Proposals /\ Recorded(approval[a].hold)
    BY <1>1, <2>1 DEF Cleared, AgentInv, ApprovalNamed, TypeOK, ApprovalRecords
  <2>3. /\ Recorded(approval[a].hold)'
        /\ proposal'[approval[a].hold] = proposal[approval[a].hold]
        /\ GrantorOf(approval[a].hold)' = GrantorOf(approval[a].hold)
    BY <2>2, RecordedKept DEF AgentInv
  <2>4. approval'[a].hold = approval[a].hold /\ approval'[a].by = approval[a].by
    OBVIOUS
  <2> QED
    BY <1>1, <2>1, <2>2, <2>3, <2>4 DEF Cleared, GrantorOf, Recorded, Named
<1> QED
  BY <1>1 DEF Cleared, Unguarded

(* check_separation clears an approver who is neither.                       *)
LEMMA ApprovingStep ==
  ASSUME AgentInv, RecordedInv, ApprovingInv, [Next]_vars
  PROVE  ApprovingInv'
<1>1. CASE Restart
  BY <1>1, NamesAssumption DEF Restart, ApprovingInv, Cleared, AgentInv, TypeOK
<1>2. ASSUME ~Restart, OtherStep
      PROVE  ApprovingInv'
  BY <1>2, OtherSteps, ClearedKept DEF ApprovingInv, AgentInv
<1>3. ASSUME ~Restart, NEW a \in Approvals, Continue(a)
      PROVE  ApprovingInv'
  <2>1. ASSUME NEW b \in Approvals, b # a
        PROVE  Cleared(b)'
    <3>1. pc'[b] = pc[b] /\ approval'[b] = approval[b]
      BY <1>3, <2>1 DEF Continue, Approach, CheckSeparation, Approve, Goto, AgentInv, TypeOK
    <3> QED
      BY <1>3, <2>1, <3>1, ClearedKept DEF ApprovingInv
  <2>2. ASSUME Approach(a) \/ Approve(a)
        PROVE  Cleared(a)'
    <3>1. pc'[a] # "approving"
      BY <2>2 DEF Approach, Approve, Goto, AgentInv, TypeOK
    <3> QED
      BY <3>1 DEF Cleared
  <2>3. ASSUME CheckSeparation(a)
        PROVE  Cleared(a)'
    <3> DEFINE q == approval[a].hold
    <3>1. /\ UNCHANGED <<approval, proposal, grants, provenance, before, unrecorded>>
          /\ pc[a] = "separating"
          /\ pc'[a] = "approving" => Separate(approval[a].by, q)
          /\ pc'[a] = "approving" /\ q \notin early' => PassedRecording(q)
      BY <2>3 DEF CheckSeparation, Goto, AgentInv, TypeOK, grantVars
    <3>2. q \in Proposals
      BY <3>1 DEF AgentInv, ApprovalNamed, TypeOK, ApprovalRecords
    <3>3. ASSUME pc'[a] = "approving", q \notin Unguarded'
          PROVE  Recorded(q) /\ approval[a].by # GrantorOf(q) /\ approval[a].by # proposal[q].agent
      <4>1. Recorded(q)
        BY <3>1, <3>2, <3>3 DEF RecordedInv, Unguarded
      <4> QED
        BY <3>1, <3>3, <4>1 DEF Separate, Recorded, Named, GrantorOf
    <3>4. GrantorOf(q)' = GrantorOf(q) /\ q' = q /\ Recorded(q)' = Recorded(q)
      BY <3>1 DEF GrantorOf, Recorded, Named
    <3> QED
      BY <3>1, <3>3, <3>4 DEF Cleared, GrantorOf, Recorded, Named
  <2> QED
    BY <1>3, <2>1, <2>2, <2>3 DEF Continue, ApprovingInv
<1> QED
  BY <1>1, <1>2, <1>3 DEF Next, OtherStep

(* Who approves a hold of this life is neither who granted nor the agent.    *)
LEMMA SeparatedStep ==
  ASSUME AgentInv, ApprovingInv, ApprovedInv, SeparatedThisLife, [Next]_vars
  PROVE  ApprovedInv' /\ SeparatedThisLife'
<1>1. CASE Restart
  <2>1. \A q \in Proposals : approver'[q] # None => q \in before'
    BY <1>1 DEF Restart, ApprovedInv
  <2> QED
    BY <2>1 DEF ApprovedInv, SeparatedThisLife, Separated, Unguarded
<1>2. ASSUME ~Restart, NEW q \in Proposals, approver'[q] = approver[q], approver[q] # None
      PROVE  /\ q \in before' \/ holds'[q] # "none"
             /\ q \notin Unguarded' => Recorded(q)' /\ Separated(q)'
  <2>1. q \in before' \/ holds'[q] # "none"
    BY <1>2, UnguardedGrows, HoldsKept DEF ApprovedInv, AgentInv
  <2>2. ASSUME q \notin Unguarded' PROVE Recorded(q)' /\ Separated(q)'
    <3>1. Recorded(q) /\ Separated(q)
      BY <1>2, <2>2, UnguardedGrows DEF ApprovedInv, SeparatedThisLife
    <3> QED
      BY <1>2, <3>1, RecordedKept DEF Separated, AgentInv
  <2> QED
    BY <2>1, <2>2
<1>3. ASSUME ~Restart, \A q \in Proposals : approver'[q] = approver[q]
      PROVE  ApprovedInv' /\ SeparatedThisLife'
  BY <1>2, <1>3 DEF ApprovedInv, SeparatedThisLife, Separated
<1>4. ASSUME ~Restart, NEW a \in Approvals, Approve(a)
      PROVE  ApprovedInv' /\ SeparatedThisLife'
  <2>1. /\ UNCHANGED <<proposal, grants, provenance, before, unrecorded, early>>
        /\ pc[a] = "approving"
        /\ approval[a] # None
    BY <1>4 DEF Approve, AgentInv, ApprovalNamed, grantVars
  <2>2. ASSUME NEW q \in Proposals, approver'[q] # approver[q]
        PROVE  q = approval[a].hold /\ approver'[q] = approval[a].by /\ holds'[q] = "approved"
    BY <1>4, <2>2 DEF Approve, AgentInv, TypeOK
  <2>3. ASSUME NEW q \in Proposals, approver'[q] # approver[q]
        PROVE  /\ holds'[q] # "none"
               /\ q \notin Unguarded' => Recorded(q)' /\ Separated(q)'
    <3>1. q \notin Unguarded => Recorded(q) /\ approver'[q] # GrantorOf(q)
                                          /\ approver'[q] # proposal[q].agent
      BY <2>1, <2>2, <2>3 DEF ApprovingInv, Cleared
    <3> QED
      BY <2>1, <2>2, <2>3, <3>1 DEF Separated, GrantorOf, Recorded, Named, Unguarded
  <2> QED
    BY <1>2, <1>4, <2>3 DEF ApprovedInv, SeparatedThisLife, Separated
<1>5. ASSUME ~Restart, ~\E a \in Approvals : Approve(a)
      PROVE  approver' = approver
  <2>1. ASSUME NEW a \in Approvals, Approach(a) \/ CheckSeparation(a)
        PROVE  approver' = approver
    BY <2>1 DEF Approach, CheckSeparation, holdVars
  <2> QED
    BY <1>5, <2>1, OtherSteps DEF Next, OtherStep, Continue, AgentInv
<1> QED
  BY <1>1, <1>3, <1>4, <1>5

(* Nothing was recorded or approved at first.                                *)
LEMMA LifeInit == Init => LifeInv
<1> SUFFICES ASSUME Init PROVE LifeInv
  OBVIOUS
<1>1. RecordedInv /\ ApprovingInv /\ ApprovedInv /\ SeparatedThisLife
  BY DEF Init, RecordedInv, PassedRecording, ApprovingInv, Cleared, ApprovedInv,
         SeparatedThisLife, Separated
<1> QED
  BY <1>1, AgentInit DEF LifeInv

(* Every step preserves LifeInv.                                             *)
LEMMA LifeStep ==
  ASSUME LifeInv, [Next]_vars
  PROVE  LifeInv'
BY AgentStep, RecordedStep, ApprovingStep, SeparatedStep DEF LifeInv

(* Within a process life no agent's hold is approved by the operator who     *)
(* granted or by the agent, wherever the approver has its id from, but for a *)
(* hold whose provenance was not recorded, the exception being swallowed, or *)
(* one that an approver was let through to before its proposal recorded it.  *)
THEOREM SeparationThisLife == Spec => []SeparatedThisLife
<1>1. Init => LifeInv
  BY LifeInit
<1>2. LifeInv /\ [Next]_vars => LifeInv'
  BY LifeStep
<1>3. LifeInv => SeparatedThisLife
  BY DEF LifeInv
<1> QED
  BY <1>1, <1>2, <1>3, PTL DEF Spec

===========================================================================
