------------------------ MODULE BudgetLedgerProofs ------------------------
(***************************************************************************)
(* What holds of BudgetLedger for every set of calls, requests and keys    *)
(* and every amount.  One inductive invariant, LedgerInv: the transaction  *)
(* that writes an entry recomputes the balance, so the balance of every    *)
(* prefix of the ledger is the one its last receipt states, and no sum has *)
(* to be computed but those of the empty ledger and of the bootstrap.      *)
(* A second one on top of it, CallsInv, says which instruction a call may  *)
(* carry: its own or the copy of a settled one, and what it was told.      *)
(***************************************************************************)
EXTENDS BudgetLedger, SequenceTheorems, TLAPS

-----------------------------------------------------------------------------
(* The sums of an empty ledger and of the bootstrap allocation.            *)

LEMMA SumOfNothing == ASSUME NEW log PROVE SumOf(log, {}) = 0
<1> DEFINE some(S) == CHOOSE x \in S : TRUE
           sum == CHOOSE g : g = [S \in SUBSET {} |->
                     IF S = {} THEN 0
                     ELSE log[some(S)].instr.amount + g[S \ {some(S)}]]
<1>1. [S \in SUBSET {} |-> 0] =
        [S \in SUBSET {} |->
           IF S = {} THEN 0
           ELSE log[some(S)].instr.amount + [T \in SUBSET {} |-> 0][S \ {some(S)}]]
  OBVIOUS
<1>2. sum = [S \in SUBSET {} |->
               IF S = {} THEN 0
               ELSE log[some(S)].instr.amount + sum[S \ {some(S)}]]
  BY <1>1
<1>3. sum[{}] = 0
  BY <1>2
<1>4. SumOf(log, {}) = sum[{}]
  BY DEF SumOf, MapThenSumSet, MapThenFoldSet
<1> QED BY <1>3, <1>4

LEMMA SumOfOne ==
  ASSUME NEW log, log[1].instr.amount \in Int
  PROVE  SumOf(log, {1}) = log[1].instr.amount
<1> DEFINE some(S) == CHOOSE x \in S : TRUE
           amount(n) == log[n].instr.amount
           sum == CHOOSE g : g = [S \in SUBSET {1} |->
                     IF S = {} THEN 0 ELSE amount(some(S)) + g[S \ {some(S)}]]
           one == [S \in SUBSET {1} |-> IF S = {} THEN 0 ELSE amount(1)]
<1>1. some({1}) = 1
  OBVIOUS
<1>2. SUBSET {1} = {{}, {1}}
  OBVIOUS
<1>3. one = [S \in SUBSET {1} |->
               IF S = {} THEN 0 ELSE amount(some(S)) + one[S \ {some(S)}]]
  <2> SUFFICES ASSUME NEW S \in SUBSET {1}
               PROVE  one[S] = IF S = {} THEN 0
                               ELSE amount(some(S)) + one[S \ {some(S)}]
    OBVIOUS
  <2>1. CASE S = {}
    BY <2>1
  <2>2. CASE S = {1}
    <3>1. one[{1} \ {1}] = 0
      <4> {1} \ {1} = {}
        OBVIOUS
      <4> QED OBVIOUS
    <3>2. one[{1}] = amount(1)
      OBVIOUS
    <3> HIDE DEF one, some
    <3> QED BY <1>1, <2>2, <3>1, <3>2
  <2> QED BY <1>2, <2>1, <2>2
<1>4. sum = [S \in SUBSET {1} |->
               IF S = {} THEN 0 ELSE amount(some(S)) + sum[S \ {some(S)}]]
  <2> HIDE DEF one
  <2> QED BY <1>3
<1>5. sum[{}] = 0
  BY <1>4
<1>6. sum[{1}] = amount(1)
  <2>1. sum[{1}] = amount(some({1})) + sum[{1} \ {some({1})}]
    <3> HIDE DEF some
    <3> QED BY <1>4
  <2>2. {1} \ {1} = {}
    OBVIOUS
  <2>3. sum[{1}] = amount(1) + sum[{}]
    <3> HIDE DEF sum, some, amount
    <3> QED BY <1>1, <2>1, <2>2, Zenon
  <2>4. amount(1) \in Int
    OBVIOUS
  <2> HIDE DEF sum, amount
  <2> QED BY <1>5, <2>3, <2>4
<1>7. SumOf(log, {1}) = sum[{1}]
  BY DEF SumOf, MapThenSumSet, MapThenFoldSet
<1> QED BY <1>6, <1>7

LEMMA EmptyBalance == ASSUME NEW log, log = <<>> PROVE Balance(log) = 0
<1>1. /\ OfType(log, {"allocation", "adjustment", "correction"}) = {}
      /\ OfType(log, {"settlement"}) = {}
      /\ OpenCommitments(log) = {}
  BY DEF OfType, OpenCommitments
<1>2. SumOf(log, {}) = 0
  BY SumOfNothing
<1>3. Balance(log) = SumOf(log, {}) - SumOf(log, {}) - SumOf(log, {})
  BY <1>1, Zenon DEF Balance
<1> QED BY <1>2, <1>3

LEMMA BootstrapBalance == Balance(Bootstrapped) = Allocation
<1> DEFINE log == Bootstrapped
<1>1. /\ OfType(log, {"allocation", "adjustment", "correction"}) = {1}
      /\ OfType(log, {"settlement"}) = {}
      /\ OpenCommitments(log) = {}
  BY DEF OfType, OpenCommitments, Bootstrapped, NoInstruction, Wish
<1>2. log[1].instr.amount = Allocation
  BY DEF Bootstrapped, NoInstruction, Wish
<1>3. Allocation \in Int
  BY AmountsAssumption
<1> HIDE DEF log
<1>4. SumOf(log, {1}) = Allocation
  BY <1>2, <1>3, SumOfOne
<1> QED BY <1>1, <1>3, <1>4, SumOfNothing DEF Balance, log

-----------------------------------------------------------------------------
(* The inductive invariant.                                                *)

(* The balance recomputed up to an entry is the one its receipt states.    *)
BalancesStated == \A n \in DOMAIN ledger : BalanceAt(n) = ledger[n].available

(* A request that exists has a version.                                    *)
Versioned == \A r \in Requests : status[r] # "none" => versions[r] # <<>>

(* A decision is of a version that was there, and the current version is   *)
(* neither a draft nor open to a decision once it has one.                 *)
Decided ==
    \A d \in decisions :
        /\ status[d.request] # "none"
        /\ d.version <= Current(d.request)
        /\ d.version = Current(d.request)
              => status[d.request] \notin {"draft", "submitted"}

(* A call that decides holds the instruction of a commitment.              *)
Deciders ==
    \A c \in Calls : pc[c] \in {"weighing", "approving", "rejecting"}
                       => instr[c].type = "commitment"

LedgerInv ==
    /\ TypeOK
    /\ Deciders
    /\ BalancesStated
    /\ OneEffect
    /\ PurchaseIsClosedOnce
    /\ CommitmentIsAsDecided
    /\ Versioned
    /\ Decided
    /\ OneDecisionPerVersion

-----------------------------------------------------------------------------
(* Facts about the operators.                                              *)

LEMMA Whole == ASSUME NEW S, NEW s \in Seq(S) PROVE SubSeq(s, 1, Len(s)) = s
  OBVIOUS

LEMMA PrefixKept ==
  ASSUME NEW S, NEW s \in Seq(S), NEW e \in S, NEW n \in 0 .. Len(s)
  PROVE  SubSeq(Append(s, e), 1, n) = SubSeq(s, 1, n)
  OBVIOUS

LEMMA BalanceIsNat ==
  ASSUME TypeOK, BalancesStated PROVE Balance(ledger) \in Nat
<1>1. CASE ledger = <<>>
  BY <1>1, EmptyBalance
<1>2. CASE ledger # <<>>
  <2>1. Len(ledger) \in DOMAIN ledger
    BY <1>2 DEF TypeOK
  <2>2. SubSeq(ledger, 1, Len(ledger)) = ledger
    BY Whole DEF TypeOK
  <2>3. Balance(ledger) = ledger[Len(ledger)].available
    BY <2>1, <2>2 DEF BalancesStated, BalanceAt
  <2>4. ledger[Len(ledger)] \in Entries
    BY <2>1 DEF TypeOK
  <2> QED BY <2>3, <2>4 DEF Entries
<1> QED BY <1>1, <1>2

LEMMA NoInstructionType == NoInstruction \in Instructions
  BY AmountsAssumption, NamesAssumption
  DEF NoInstruction, Wish, Instructions, Mutations, OfRequest

LEMMA WishType ==
  ASSUME NEW c \in Calls, NEW type \in Mutations, NEW r \in Requests \cup {None},
         NEW n \in Int, NEW target \in Nat, NEW key \in Keys \cup Calls,
         type = "allocation" => n = Allocation,
         type = "settlement" => n \in Amounts,
         type \in OfRequest <=> r # None
  PROVE  Wish(c, type, r, n, target, key) \in Instructions
<1>1. Allocation \in Int
  BY AmountsAssumption
<1> QED BY <1>1 DEF Wish, Instructions

LEMMA EvidenceType ==
  ASSUME NEW i \in Instructions, NEW e \in Int, NEW x \in Int
  PROVE  [i EXCEPT !.evidence = e, !.expected = x] \in Instructions
  BY DEF Instructions

LEMMA EntryType ==
  ASSUME TypeOK, NEW n \in DOMAIN ledger
  PROVE  ledger[n] \in Entries /\ ledger[n].instr \in Instructions
<1>1. ledger[n] \in Entries
  BY DEF TypeOK
<1> QED BY <1>1 DEF Entries

LEMMA GotoType ==
  ASSUME TypeOK, NEW c \in Calls, NEW step \in Steps, NEW i \in Instructions,
         Goto(c, step, i)
  PROVE  /\ pc' \in [Calls -> Steps] /\ instr' \in [Calls -> Instructions]
         /\ answer' \in [Calls -> Answers]
  BY DEF TypeOK, Goto

LEMMA AnswerType ==
  ASSUME TypeOK, NEW c \in Calls, NEW a \in Answers, Answer(c, a)
  PROVE  /\ pc' \in [Calls -> Steps] /\ instr' \in [Calls -> Instructions]
         /\ answer' \in [Calls -> Answers]
  BY DEF TypeOK, Answer, Steps

LEMMA ReplayType ==
  ASSUME TypeOK, NEW c \in Calls, NEW i \in Instructions,
         NEW step \in {"preparing", "assessing"}, Replay(c, i, step)
  PROVE  /\ pc' \in [Calls -> Steps] /\ instr' \in [Calls -> Instructions]
         /\ answer' \in [Calls -> Answers]
<1> step \in Steps /\ "verifying" \in Steps /\ "conflict" \in Answers
  BY DEF Steps, Answers
<1>1. CASE ~KeyUsed(i.key)
  BY <1>1, GotoType DEF Replay
<1>2. CASE KeyUsed(i.key)
  <2>1. PICK n \in DOMAIN ledger :
           \/ Goto(c, "verifying", ledger[n].instr) \/ Answer(c, "conflict")
    BY <1>2 DEF Replay
  <2> QED BY <2>1, EntryType, GotoType, AnswerType
<1> QED BY <1>1, <1>2

LEMMA RequestOf ==
  ASSUME NEW i \in Instructions, i.type \in OfRequest
  PROVE  i.request \in Requests
  BY DEF Instructions

(* The commitment that a settlement or a cancellation closes.              *)
LEMMA ClosesIts ==
  ASSUME LedgerInv, NEW i \in Instructions, ClosingAllowed(i)
  PROVE  LET n == Related(i) IN
         /\ n \in EntriesOf(i.request, {"commitment"})
         /\ i.request \in Requests /\ status[i.request] = "committed"
         /\ ledger[n].instr.amount \in Nat \ {0}
         /\ i.amount <= ledger[n].instr.amount
         /\ i.type = "cancellation" => i.amount = ledger[n].instr.amount
<1>1. i.request \in Requests /\ status[i.request] = "committed"
  BY RequestOf DEF ClosingAllowed, OfRequest
<1>2. PICK m \in CommitmentsOf(i) :
         IF i.type = "settlement" THEN WithinCommitment(i, m)
                                  ELSE i.amount = ledger[m].instr.amount
  BY DEF ClosingAllowed
<1>3. Related(i) \in CommitmentsOf(i)
  BY <1>2 DEF Related, ClosingAllowed
<1>4. CommitmentsOf(i) \subseteq EntriesOf(i.request, {"commitment"})
  BY DEF CommitmentsOf, OpenCommitments, EntriesOf
<1>5. Related(i) = m
  BY <1>1, <1>2, <1>3, <1>4 DEF LedgerInv, PurchaseIsClosedOnce
<1>6. m \in OfType(ledger, {"commitment"}) /\ ledger[m].instr.request = i.request
  BY <1>2, <1>4 DEF EntriesOf
<1>7. ledger[m].instr.amount = versions[i.request][Current(i.request)]
  BY <1>6 DEF LedgerInv, CommitmentIsAsDecided
<1>8. versions[i.request] # <<>> /\ versions[i.request] \in Seq(Amounts)
  BY <1>1 DEF LedgerInv, Versioned, TypeOK
<1>9. ledger[m].instr.amount \in Nat \ {0}
  <2>1. versions[i.request][Current(i.request)] \in Amounts
    BY <1>8 DEF Current
  <2> QED BY <1>7, <2>1, AmountsAssumption
<1>10. i.amount \in Int
  BY DEF Instructions
<1>11. i.amount <= ledger[m].instr.amount
  BY <1>2, <1>9, <1>10 DEF WithinCommitment
<1>12. i.type = "cancellation" => i.amount = ledger[m].instr.amount
  BY <1>2
<1> QED BY <1>1, <1>3, <1>4, <1>5, <1>9, <1>11, <1>12

LEMMA AfterIsNat ==
  ASSUME LedgerInv, NEW i \in Instructions, Allowed(i)
  PROVE  After(i) \in Nat /\ Related(i) \in Nat
<1>1. Balance(ledger) \in Nat
  BY BalanceIsNat DEF LedgerInv
<1>2. i.amount \in Int
  BY DEF Instructions
<1>3. CASE i.type = "allocation"
  <2>1. i.amount = Allocation /\ Allocation \in Nat
    BY <1>3, AmountsAssumption DEF Instructions
  <2> QED BY <1>3, <2>1 DEF After, Related
<1>4. CASE ChangeAllowed(i)
  BY <1>1, <1>2, <1>4 DEF ChangeAllowed, After, Related
<1>5. CASE CommitmentAllowed(i)
  BY <1>1, <1>2, <1>5 DEF CommitmentAllowed, After, Related
<1>6. CASE ClosingAllowed(i)
  <2> DEFINE n == Related(i)
  <2>1. /\ n \in DOMAIN ledger /\ ledger[n].instr.amount \in Nat \ {0}
        /\ i.amount <= ledger[n].instr.amount
        /\ i.type = "cancellation" => i.amount = ledger[n].instr.amount
    BY <1>6, ClosesIts DEF EntriesOf, OfType
  <2>2. n \in Nat
    BY <2>1 DEF LedgerInv, TypeOK
  <2>3. i.type \in {"settlement", "cancellation"}
    BY <1>6 DEF ClosingAllowed
  <2> HIDE DEF n
  <2>4. \/ After(i) = Balance(ledger) + ledger[n].instr.amount - i.amount
        \/ After(i) = Balance(ledger) + i.amount /\ i.type = "cancellation"
    BY <2>3 DEF After, n
  <2>5. After(i) \in Nat
    BY <1>1, <1>2, <2>1, <2>4
  <2> QED BY <2>2, <2>5 DEF n
<1> QED BY <1>3, <1>4, <1>5, <1>6 DEF Allowed

(* What a transaction of the adapter does to the ledger. *)
LEMMA WriteAppends ==
  ASSUME LedgerInv, NEW i \in Instructions, Write(i)
  PROVE  /\ NewEntry(i) \in Entries /\ ledger' \in Seq(Entries)
         /\ Len(ledger') = Len(ledger) + 1
         /\ DOMAIN ledger' = DOMAIN ledger \cup {Len(ledger')}
         /\ Len(ledger') \notin DOMAIN ledger
         /\ ledger'[Len(ledger')] = NewEntry(i)
         /\ \A n \in DOMAIN ledger : ledger'[n] = ledger[n]
<1>1. NewEntry(i) \in Entries
  BY AfterIsNat DEF Write, MayApply, NewEntry, Entries
<1>2. ledger \in Seq(Entries) /\ ledger' = Append(ledger, NewEntry(i))
  BY DEF LedgerInv, TypeOK, Write
<1> HIDE DEF NewEntry
<1> QED BY <1>1, <1>2

LEMMA WritePrefixes ==
  ASSUME LedgerInv, NEW i \in Instructions, Write(i)
  PROVE  /\ \A n \in 0 .. Len(ledger) : BalanceAt(n)' = BalanceAt(n)
         /\ BalanceAt(Len(ledger)) = Balance(ledger)
         /\ \A n \in Nat : n = Len(ledger') => BalanceAt(n)' = After(i)
<1>1. /\ ledger \in Seq(Entries) /\ NewEntry(i) \in Entries
      /\ ledger' \in Seq(Entries) /\ ledger' = Append(ledger, NewEntry(i))
  BY WriteAppends DEF LedgerInv, TypeOK, Write
<1>2. \A n \in 0 .. Len(ledger) : SubSeq(ledger', 1, n) = SubSeq(ledger, 1, n)
  BY <1>1, PrefixKept
<1>3. SubSeq(ledger', 1, Len(ledger')) = ledger' /\ SubSeq(ledger, 1, Len(ledger)) = ledger
  BY <1>1, Whole
<1>4. Balance(ledger') = After(i)
  BY DEF Write
<1>5. \A n \in 0 .. Len(ledger) : BalanceAt(n)' = BalanceAt(n)
  BY <1>2 DEF BalanceAt
<1>6. BalanceAt(Len(ledger)) = Balance(ledger)
  BY <1>3 DEF BalanceAt
<1>7. \A n \in Nat : n = Len(ledger') => BalanceAt(n)' = After(i)
  BY <1>3, <1>4 DEF BalanceAt
<1> QED BY <1>5, <1>6, <1>7

-----------------------------------------------------------------------------
(* What a step does to the stores.                                         *)

Written == \E c \in Calls : pc[c] = "applying" /\ Write(instr[c])

LEMMA StoreStep ==
  ASSUME [Next]_vars
  PROVE  \/ UNCHANGED store
         \/ \E r \in Requests : Requesting(r)
         \/ \E c \in Calls : SaveDecision(c)
         \/ Written
<1>1. CASE UNCHANGED vars
  BY <1>1 DEF vars, store
<1>2. ASSUME NEW c \in Calls, Opening(c) PROVE UNCHANGED store
  BY <1>2 DEF Opening, Bootstrap, Adjust, Correct, Settle, Cancel, Prepare
<1>3. ASSUME NEW c \in Calls, Deciding(c)
      PROVE  UNCHANGED store \/ SaveDecision(c)
  BY <1>3 DEF Deciding, Decide, Weigh, Commit
<1>4. ASSUME NEW c \in Calls, Executing(c) PROVE UNCHANGED store \/ Written
  BY <1>4 DEF Executing, Assess, Apply, Refuse, ApplyUnseen, Report, Verify,
              Reconcile, Lose, Written
<1>5. CASE Quiet
  BY <1>5 DEF Quiet, vars, store
<1> QED BY <1>1, <1>2, <1>3, <1>4, <1>5 DEF Next

LEMMA InitInv == Init => LedgerInv
<1> SUFFICES ASSUME Init PROVE LedgerInv
  OBVIOUS
<1>1. NoInstruction \in Instructions
  BY NoInstructionType
<1>2. [instr |-> NoInstruction, related |-> 0, available |-> Allocation] \in Entries
  BY <1>1, AmountsAssumption DEF Entries
<1>3. Bootstrapped \in Seq(Entries) /\ Len(Bootstrapped) = 1
  BY <1>2 DEF Bootstrapped
<1>4. ledger \in Seq(Entries)
  <2>1. ledger = <<>> \/ ledger = Bootstrapped
    BY DEF Init
  <2>2. <<>> \in Seq(Entries)
    OBVIOUS
  <2> QED BY <1>3, <2>1, <2>2
<1>5. TypeOK
  BY <1>1, <1>4 DEF Init, TypeOK, Statuses, Steps, Answers
<1>6. \A n \in DOMAIN ledger : n = 1 /\ ledger = Bootstrapped
  <2>1. ledger = <<>> \/ ledger = Bootstrapped
    BY DEF Init
  <2> QED BY <1>3, <2>1
<1>7. \A n \in DOMAIN ledger : ledger[n].instr = NoInstruction
  BY <1>6 DEF Bootstrapped
<1>8. NoInstruction.type = "allocation"
  BY DEF NoInstruction, Wish
<1>9. BalancesStated
  <2> SUFFICES ASSUME NEW n \in DOMAIN ledger PROVE BalanceAt(n) = ledger[n].available
    BY DEF BalancesStated
  <2>1. SubSeq(ledger, 1, n) = ledger
    BY <1>3, <1>4, <1>6, Whole
  <2>2. ledger[n].available = Allocation
    BY <1>6 DEF Bootstrapped
  <2> QED BY <1>6, <2>1, <2>2, BootstrapBalance DEF BalanceAt
<1>10. \A types : "allocation" \notin types => OfType(ledger, types) = {}
  BY <1>7, <1>8 DEF OfType
<1>11. PurchaseIsClosedOnce /\ CommitmentIsAsDecided
  BY <1>10 DEF PurchaseIsClosedOnce, CommitmentIsAsDecided, EntriesOf, Init
<1> QED BY <1>5, <1>6, <1>9, <1>11
        DEF LedgerInv, Init, OneEffect, Versioned, Decided, OneDecisionPerVersion,
            Deciders

-----------------------------------------------------------------------------
(* Type correctness.                                                       *)

CallTypes ==
    /\ pc \in [Calls -> Steps] /\ instr \in [Calls -> Instructions]
    /\ answer \in [Calls -> Answers]

LEMMA OpeningTypes ==
  ASSUME LedgerInv, NEW c \in Calls, Opening(c) PROVE CallTypes'
<1> USE DEF LedgerInv
<1> "preparing" \in Steps /\ "assessing" \in Steps /\ "denied" \in Answers
  BY DEF Steps, Answers
<1> Changes \subseteq Int /\ Amounts \subseteq Int /\ Allocation \in Int
  BY AmountsAssumption
<1> None \notin Requests
  BY NamesAssumption
<1>1. CASE Bootstrap(c)
  <2>1. PICK key \in Keys :
          Replay(c, Wish(c, "allocation", None, Allocation, 0, key), "assessing")
    BY <1>1 DEF Bootstrap
  <2>2. Wish(c, "allocation", None, Allocation, 0, key) \in Instructions
    BY WishType DEF Mutations, OfRequest
  <2> QED BY <2>1, <2>2, ReplayType DEF CallTypes
<1>2. CASE Adjust(c)
  <2>1. PICK key \in Keys, n \in Changes :
          Replay(c, Wish(c, "adjustment", None, n, 0, key), "preparing")
    BY <1>2 DEF Adjust
  <2>2. Wish(c, "adjustment", None, n, 0, key) \in Instructions
    BY WishType DEF Mutations, OfRequest
  <2> QED BY <2>1, <2>2, ReplayType DEF CallTypes
<1>3. CASE Correct(c)
  <2>1. PICK key \in Keys, n \in Changes, target \in DOMAIN ledger :
          Replay(c, Wish(c, "correction", None, n, target, key), "preparing")
    BY <1>3 DEF Correct
  <2>2. target \in Nat
    BY DEF TypeOK
  <2>3. Wish(c, "correction", None, n, target, key) \in Instructions
    BY <2>2, WishType DEF Mutations, OfRequest
  <2> QED BY <2>1, <2>3, ReplayType DEF CallTypes
<1>4. CASE Settle(c)
  <2>1. PICK key \in Keys, n \in Amounts, r \in Requests :
          Replay(c, Wish(c, "settlement", r, n, 0, key), "preparing")
    BY <1>4 DEF Settle
  <2>2. Wish(c, "settlement", r, n, 0, key) \in Instructions
    BY WishType DEF Mutations, OfRequest
  <2> QED BY <2>1, <2>2, ReplayType DEF CallTypes
<1>5. CASE Cancel(c)
  <2>1. PICK key \in Keys, r \in Requests :
          Replay(c, Wish(c, "cancellation", r, 0, 0, key), "preparing")
    BY <1>5 DEF Cancel
  <2>2. Wish(c, "cancellation", r, 0, 0, key) \in Instructions
    BY WishType DEF Mutations, OfRequest
  <2> QED BY <2>1, <2>2, ReplayType DEF CallTypes
<1>6. CASE Prepare(c)
  <2>1. CASE Answer(c, "denied")
    BY <2>1, AnswerType DEF CallTypes
  <2>2. CASE ~Answer(c, "denied")
    <3> DEFINE i == Filled(instr[c])
    <3>1. /\ instr[c].request # None => versions[instr[c].request] # <<>>
          /\ Allowed(i)
          /\ Goto(c, "assessing", [i EXCEPT !.expected = After(i)])
      BY <1>6, <2>2 DEF Prepare
    <3>2. instr[c] \in Instructions /\ versions \in [Requests -> Seq(Amounts)]
      BY DEF TypeOK
    <3>3. i \in Instructions
      <4>1. CASE instr[c].type \in {"settlement", "cancellation"}
        <5>1. instr[c].request \in Requests
          BY <3>2, <4>1, RequestOf DEF OfRequest
        <5>2. versions[instr[c].request] \in Seq(Amounts)
          BY <3>2, <5>1
        <5>3. versions[instr[c].request] # <<>>
          BY <3>1, <5>1
        <5>4. /\ Current(instr[c].request) \in Nat
              /\ versions[instr[c].request][Current(instr[c].request)] \in Amounts
          BY <5>2, <5>3 DEF Current
        <5> QED BY <3>2, <4>1, <5>4 DEF Filled, Instructions, OfRequest
      <4>2. CASE instr[c].type \notin {"settlement", "cancellation"}
        BY <3>2, <4>2 DEF Filled
      <4> QED BY <4>1, <4>2
    <3> HIDE DEF i
    <3>4. After(i) \in Nat
      BY <3>1, <3>3, AfterIsNat
    <3>5. [i EXCEPT !.expected = After(i)] \in Instructions
      BY <3>3, <3>4 DEF Instructions
    <3> QED BY <3>1, <3>5, GotoType DEF CallTypes
  <2> QED BY <2>1, <2>2
<1> QED BY <1>1, <1>2, <1>3, <1>4, <1>5, <1>6 DEF Opening

LEMMA DecidingTypes ==
  ASSUME LedgerInv, NEW c \in Calls, Deciding(c) PROVE CallTypes'
<1> USE DEF LedgerInv
<1> /\ {"weighing", "rejecting", "approving", "assessing"} \subseteq Steps
    /\ {"decided", "denied"} \subseteq Answers
  BY DEF Steps, Answers
<1>1. CASE Decide(c)
  <2>1. PICK r \in Requests, step \in {"weighing", "rejecting"} :
          /\ versions[r] # <<>>
          /\ Goto(c, step,
                  [Wish(c, "commitment", r, versions[r][Current(r)], 0, c)
                      EXCEPT !.version = Current(r)])
    BY <1>1 DEF Decide
  <2>2. versions[r] \in Seq(Amounts) /\ Amounts \subseteq Int
    BY AmountsAssumption DEF TypeOK
  <2>3. Current(r) \in Nat /\ versions[r][Current(r)] \in Int
    BY <2>1, <2>2 DEF Current
  <2> DEFINE w == Wish(c, "commitment", r, versions[r][Current(r)], 0, c)
  <2>4. w \in Instructions
    BY <2>3, WishType, NamesAssumption DEF Mutations, OfRequest
  <2> HIDE DEF w
  <2>5. [w EXCEPT !.version = Current(r)] \in Instructions
    BY <2>3, <2>4 DEF Instructions
  <2> QED BY <2>1, <2>5, GotoType DEF CallTypes, w
<1>2. CASE Weigh(c)
  <2> DEFINE i == [instr[c] EXCEPT !.evidence = Balance(ledger),
                                   !.expected = Balance(ledger) - instr[c].amount]
  <2>1. Balance(ledger) \in Nat /\ instr[c] \in Instructions
    BY BalanceIsNat DEF TypeOK
  <2>2. instr[c].amount \in Int
    BY <2>1 DEF Instructions
  <2>3. i \in Instructions
    <3>1. Balance(ledger) \in Int /\ Balance(ledger) - instr[c].amount \in Int
      BY <2>1, <2>2
    <3> QED BY <2>1, <3>1, EvidenceType
  <2> HIDE DEF i
  <2> QED BY <1>2, <2>3, GotoType DEF CallTypes, Weigh, i
<1>3. CASE SaveDecision(c)
  BY <1>3, AnswerType DEF CallTypes, SaveDecision
<1>4. CASE Commit(c)
  <2>1. \A d \in decisions : instr[d.id] \in Instructions
    BY DEF TypeOK, Decisions
  <2>2. \/ \E d \in decisions : Goto(c, "assessing", instr[d.id])
        \/ Answer(c, "denied")
    BY <1>4 DEF Commit
  <2> QED BY <2>1, <2>2, GotoType, AnswerType DEF CallTypes
<1> QED BY <1>1, <1>2, <1>3, <1>4 DEF Deciding

LEMMA ExecutingTypes ==
  ASSUME LedgerInv, NEW c \in Calls, Executing(c) PROVE CallTypes'
<1> USE DEF LedgerInv
<1> /\ {"applying", "reporting", "verifying"} \subseteq Steps
    /\ {"blocked", "unverified", "no_effect", "unknown", "verified", "mismatch",
        "lost", "absent"} \subseteq Answers
  BY DEF Steps, Answers
<1> \A b \in Calls : instr[b] \in Instructions
  BY DEF TypeOK
<1>1. CASE \E step \in {"applying", "reporting", "verifying"} : Goto(c, step, instr[c])
  BY <1>1, GotoType DEF CallTypes
<1>2. CASE \E a \in Answers : Answer(c, a)
  BY <1>2, AnswerType DEF CallTypes
<1>3. CASE Reconcile(c)
  <2>1. PICK b \in Calls :
          IF Applied(instr[b].digest) THEN Goto(c, "verifying", instr[b])
          ELSE /\ pc' = [pc EXCEPT ![c] = "done"]
               /\ answer' = [answer EXCEPT ![c] = "absent"]
               /\ instr' = [instr EXCEPT ![c] = instr[b]]
    BY <1>3 DEF Reconcile
  <2>2. CASE Applied(instr[b].digest)
    BY <2>1, <2>2, GotoType DEF CallTypes
  <2>3. CASE ~Applied(instr[b].digest)
    BY <2>1, <2>3 DEF CallTypes, TypeOK, Steps
  <2> QED BY <2>2, <2>3
<1>4. CASE Assess(c) \/ Apply(c) \/ Refuse(c) \/ ApplyUnseen(c)
  BY <1>1, <1>2, <1>4 DEF Assess, Apply, Refuse, ApplyUnseen
<1>5. CASE Report(c) \/ Verify(c) \/ Lose(c)
  BY <1>2, <1>5 DEF Report, Verify, Lose
<1> QED BY <1>3, <1>4, <1>5 DEF Executing

StoreTypes ==
    /\ versions \in [Requests -> Seq(Amounts)] /\ status \in [Requests -> Statuses]
    /\ decisions \subseteq Decisions /\ ledger \in Seq(Entries)

(* The conjuncts of the invariant that speak of the stores. *)
StoreInv ==
    /\ StoreTypes /\ BalancesStated /\ OneEffect /\ PurchaseIsClosedOnce
    /\ CommitmentIsAsDecided /\ Versioned /\ Decided /\ OneDecisionPerVersion

(* A request the ledger knows is past its approval. *)
LEMMA CommittedRequest ==
  ASSUME LedgerInv, NEW n \in OfType(ledger, {"commitment"})
  PROVE  /\ ledger[n].instr.request \in Requests
         /\ status[ledger[n].instr.request] \in {"committed", "settled", "cancelled"}
<1>1. n \in DOMAIN ledger /\ ledger[n].instr.type = "commitment"
  BY DEF OfType
<1>2. ledger[n].instr \in Instructions
  BY <1>1, EntryType DEF LedgerInv
<1>3. ledger[n].instr.request \in Requests
  BY <1>1, <1>2, RequestOf DEF OfRequest
<1>4. n \in EntriesOf(ledger[n].instr.request, {"commitment"})
  BY DEF EntriesOf
<1> QED BY <1>3, <1>4 DEF LedgerInv, PurchaseIsClosedOnce

LEMMA RequestingInv ==
  ASSUME LedgerInv, NEW r \in Requests, Requesting(r) PROVE StoreInv'
<1> USE DEF LedgerInv
<1> DEFINE early == {"none", "draft", "submitted", "approved", "rejected"}
<1>0. /\ versions \in [Requests -> Seq(Amounts)] /\ status \in [Requests -> Statuses]
      /\ decisions \subseteq Decisions /\ ledger \in Seq(Entries)
  BY DEF TypeOK
<1>1. /\ ledger' = ledger /\ decisions' = decisions
      /\ status[r] \in early
      /\ \E s \in {"draft", "submitted"} : status' = [status EXCEPT ![r] = s]
      /\ \A q \in Requests \ {r} : versions'[q] = versions[q]
  BY <1>0 DEF Requesting, CreateRequest, AddRequestVersion, SubmitRequest
<1>2. versions' \in [Requests -> Seq(Amounts)] /\ versions'[r] # <<>>
  <2>1. CASE CreateRequest(r)
    <3>1. PICK n \in Amounts : versions' = [versions EXCEPT ![r] = <<n>>]
      BY <2>1 DEF CreateRequest
    <3>2. <<n>> \in Seq(Amounts) /\ <<n>> # <<>>
      OBVIOUS
    <3> QED BY <1>0, <3>1, <3>2
  <2>2. CASE AddRequestVersion(r)
    <3>1. PICK n \in Amounts : versions' = [versions EXCEPT ![r] = Append(@, n)]
      BY <2>2 DEF AddRequestVersion
    <3>2. versions[r] \in Seq(Amounts)
      BY <1>0
    <3>3. Append(versions[r], n) \in Seq(Amounts) /\ Append(versions[r], n) # <<>>
      BY <3>2
    <3> QED BY <1>0, <3>1, <3>3
  <2>3. CASE SubmitRequest(r)
    BY <1>0, <2>3 DEF SubmitRequest, Versioned
  <2> QED BY <2>1, <2>2, <2>3 DEF Requesting
<1>3. StoreTypes'
  BY <1>0, <1>1, <1>2 DEF StoreTypes, Statuses
<1>4. BalancesStated' /\ OneEffect'
  BY <1>1 DEF BalancesStated, BalanceAt, OneEffect
<1>5. PurchaseIsClosedOnce'
  <2>1. \A q \in Requests : status'[q] = status[q] \/ (q = r /\ status'[q] \in early)
    BY <1>0, <1>1
  <2>2. \A q, types : EntriesOf(q, types)' = EntriesOf(q, types)
    BY <1>1 DEF EntriesOf
  <2> QED BY <1>1, <2>1, <2>2 DEF PurchaseIsClosedOnce
<1>6. CommitmentIsAsDecided'
  <2> SUFFICES ASSUME NEW n \in OfType(ledger, {"commitment"})
               PROVE  ledger[n].instr.request # r
    BY <1>1, CommittedRequest
       DEF CommitmentIsAsDecided, Current, BalanceAt
  <2> QED BY <1>1, CommittedRequest
<1>7. Versioned'
  BY <1>0, <1>1, <1>2 DEF Versioned
<1>8. Decided' /\ OneDecisionPerVersion'
  <2>1. OneDecisionPerVersion'
    BY <1>1 DEF OneDecisionPerVersion
  <2>2. \A d \in decisions : d.request \in Requests /\ d.version \in Nat
    BY <1>0 DEF Decisions
  <2>3. CASE CreateRequest(r)
    <3>1. \A d \in decisions : d.request # r
      BY <2>3 DEF CreateRequest, Decided
    <3> QED BY <1>0, <1>1, <2>1, <2>2, <3>1 DEF Decided, Current
  <2>4. CASE AddRequestVersion(r)
    <3>1. Current(r)' = Current(r) + 1 /\ Current(r) \in Nat
      BY <1>0, <2>4 DEF AddRequestVersion, Current
    <3>2. \A q \in Requests \ {r} : Current(q)' = Current(q) /\ status'[q] = status[q]
      BY <1>0, <1>1 DEF Current
    <3>3. status'[r] = "draft"
      BY <1>0, <2>4 DEF AddRequestVersion
    <3> QED BY <1>1, <2>1, <2>2, <3>1, <3>2, <3>3 DEF Decided
  <2>5. CASE SubmitRequest(r)
    <3>1. \A q \in Requests : Current(q)' = Current(q)
      BY <2>5 DEF SubmitRequest, Current
    <3>2. /\ status[r] = "draft" /\ status'[r] = "submitted"
          /\ \A q \in Requests \ {r} : status'[q] = status[q]
      BY <1>0, <2>5 DEF SubmitRequest
    <3> QED BY <1>1, <2>1, <2>2, <3>1, <3>2 DEF Decided
  <2> QED BY <2>3, <2>4, <2>5 DEF Requesting
<1> QED BY <1>3, <1>4, <1>5, <1>6, <1>7, <1>8 DEF StoreInv

(* A step that touches no store keeps what is said of the stores. *)
LEMMA UntouchedInv == ASSUME LedgerInv, UNCHANGED store PROVE StoreInv'
<1> USE DEF LedgerInv
<1>1. /\ versions' = versions /\ status' = status
      /\ decisions' = decisions /\ ledger' = ledger
  BY DEF store
<1>2. StoreTypes'
  BY <1>1 DEF StoreTypes, TypeOK
<1>3. BalancesStated' /\ OneEffect'
  BY <1>1 DEF BalancesStated, BalanceAt, OneEffect
<1>4. PurchaseIsClosedOnce'
  <2>1. \A r, types : EntriesOf(r, types)' = EntriesOf(r, types)
    BY <1>1 DEF EntriesOf
  <2> QED BY <1>1, <2>1 DEF PurchaseIsClosedOnce
<1>5. CommitmentIsAsDecided'
  BY <1>1 DEF CommitmentIsAsDecided, Current, BalanceAt
<1>6. Versioned' /\ Decided' /\ OneDecisionPerVersion'
  BY <1>1 DEF Versioned, Decided, Current, OneDecisionPerVersion
<1> QED BY <1>2, <1>3, <1>4, <1>5, <1>6 DEF StoreInv

LEMMA DecisionInv ==
  ASSUME LedgerInv, NEW c \in Calls, SaveDecision(c) PROVE StoreInv'
<1> USE DEF LedgerInv
<1>0. /\ versions \in [Requests -> Seq(Amounts)] /\ status \in [Requests -> Statuses]
      /\ decisions \subseteq Decisions /\ ledger \in Seq(Entries)
  BY DEF TypeOK
<1>1. versions' = versions /\ ledger' = ledger
  BY DEF SaveDecision
<1>2. CASE decisions' = decisions /\ status' = status
  BY <1>1, <1>2, UntouchedInv DEF store
<1>3. CASE ~(decisions' = decisions /\ status' = status)
  <2> DEFINE r == instr[c].request
  <2>1. PICK verdict \in Verdicts :
          /\ status[r] = "submitted"
          /\ decisions' = decisions \cup
                {[id |-> c, request |-> r, version |-> Current(r), verdict |-> verdict]}
          /\ status' = [status EXCEPT ![r] = verdict]
    BY <1>3 DEF SaveDecision, Decidable, Verdicts
  <2>2. r \in Requests
    <3>1. instr[c] \in Instructions
      BY DEF TypeOK
    <3>2. instr[c].type = "commitment"
      BY DEF Deciders, SaveDecision
    <3> QED BY <3>1, <3>2, RequestOf DEF OfRequest
  <2> HIDE DEF r
  <2>3. Current(r) \in Nat
    BY <1>0, <2>2 DEF Current
  <2>4. /\ \A q \in Requests : Current(q)' = Current(q)
        /\ \A q \in Requests \ {r} : status'[q] = status[q]
        /\ status'[r] = verdict /\ verdict \in {"approved", "rejected"}
    BY <1>0, <1>1, <2>1, <2>2 DEF Current, Verdicts
  <2>5. StoreTypes'
    BY <1>0, <1>1, <2>1, <2>2, <2>3 DEF StoreTypes, Decisions, Statuses, Verdicts
  <2>6. BalancesStated' /\ OneEffect'
    BY <1>1 DEF BalancesStated, BalanceAt, OneEffect
  <2>7. PurchaseIsClosedOnce'
    <3>1. \A q, types : EntriesOf(q, types)' = EntriesOf(q, types)
      BY <1>1 DEF EntriesOf
    <3> QED BY <1>1, <2>1, <2>2, <2>4, <3>1 DEF PurchaseIsClosedOnce
  <2>8. CommitmentIsAsDecided'
    BY <1>1, <2>1 DEF CommitmentIsAsDecided, Current, BalanceAt
  <2>9. Versioned'
    BY <1>1, <2>1, <2>4 DEF Versioned
  <2>10. \A d \in decisions : d.request \in Requests /\ d.version \in Nat
    BY <1>0 DEF Decisions
  <2>11. Decided'
    BY <2>1, <2>2, <2>3, <2>4, <2>10 DEF Decided
  <2>12. OneDecisionPerVersion'
    <3>1. \A d \in decisions : ~(d.request = r /\ d.version = Current(r))
      BY <2>1 DEF Decided
    <3> QED BY <2>1, <3>1 DEF OneDecisionPerVersion
  <2> QED BY <2>5, <2>6, <2>7, <2>8, <2>9, <2>11, <2>12 DEF StoreInv
<1> QED BY <1>2, <1>3

(* The transaction of the adapter: the heart of the proof.                 *)
LEMMA WriteInv ==
  ASSUME LedgerInv, NEW i \in Instructions, Write(i) PROVE StoreInv'
<1> USE DEF LedgerInv
<1> DEFINE new == Len(ledger')
           r == i.request
<1>0. /\ versions \in [Requests -> Seq(Amounts)] /\ status \in [Requests -> Statuses]
      /\ decisions \subseteq Decisions /\ ledger \in Seq(Entries)
      /\ versions' = versions /\ decisions' = decisions
      /\ status' = NewStatus(i)
      /\ ~Applied(i.digest) /\ ~KeyUsed(i.key) /\ Allowed(i)
  BY DEF TypeOK, Write, MayApply
<1>1. /\ NewEntry(i) \in Entries /\ ledger' \in Seq(Entries)
      /\ DOMAIN ledger' = DOMAIN ledger \cup {new}
      /\ new = Len(ledger) + 1 /\ new \notin DOMAIN ledger
      /\ ledger'[new] = NewEntry(i)
      /\ \A n \in DOMAIN ledger : ledger'[n] = ledger[n]
      /\ DOMAIN ledger = 1 .. Len(ledger) /\ Len(ledger) \in Nat
  <2>1. DOMAIN ledger = 1 .. Len(ledger) /\ Len(ledger) \in Nat
    BY <1>0
  <2> QED BY <2>1, WriteAppends
<1>2. /\ \A n \in 0 .. Len(ledger) : BalanceAt(n)' = BalanceAt(n)
      /\ BalanceAt(Len(ledger)) = Balance(ledger)
      /\ \A n \in Nat : n = new => BalanceAt(n)' = After(i)
  BY WritePrefixes
<1>3. /\ NewEntry(i).instr = i /\ NewEntry(i).related = Related(i)
      /\ NewEntry(i).available = After(i)
  BY DEF NewEntry
<1>4. i.type \in OfRequest => r \in Requests
  BY RequestOf
<1> HIDE DEF new
<1>5. new \in Nat
  BY <1>0, <1>1
<1>6. \A types : OfType(ledger', types) =
        OfType(ledger, types) \cup (IF i.type \in types THEN {new} ELSE {})
  BY <1>1, <1>3 DEF OfType
<1>7. StoreTypes'
  <2>1. status' \in [Requests -> Statuses]
    BY <1>0, <1>4 DEF NewStatus, Statuses, OfRequest
  <2> QED BY <1>0, <1>1, <2>1 DEF StoreTypes
<1>8. BalancesStated'
  <2> SUFFICES ASSUME NEW n \in DOMAIN ledger'
               PROVE  BalanceAt(n)' = ledger'[n].available
    BY DEF BalancesStated
  <2>1. CASE n = new
    BY <1>1, <1>2, <1>3, <1>5, <2>1
  <2>2. CASE n \in DOMAIN ledger
    BY <1>1, <1>2, <2>2 DEF BalancesStated
  <2> QED BY <1>1, <2>1, <2>2
<1>9. OneEffect'
  <2>1. \A n \in DOMAIN ledger : /\ ledger[n].instr.digest # i.digest
                                 /\ ledger[n].instr.key # i.key
    BY <1>0 DEF Applied, KeyUsed
  <2> QED BY <1>1, <1>3, <2>1 DEF OneEffect
<1>10. Versioned'
  BY <1>0, <1>4 DEF Versioned, NewStatus, CommitmentAllowed, ClosingAllowed, Allowed,
                    ChangeAllowed, OfRequest
<1>11. Decided' /\ OneDecisionPerVersion'
  <2>1. \A q \in Requests : \/ status'[q] = status[q]
                           \/ /\ status[q] \in {"approved", "committed"}
                              /\ status'[q] \in {"committed", "settled", "cancelled"}
    BY <1>0, <1>4 DEF NewStatus, CommitmentAllowed, ClosingAllowed, Allowed,
                      ChangeAllowed, OfRequest
  <2>2. \A d \in decisions : d.request \in Requests
    BY <1>0 DEF Decisions
  <2>3. \A q : Current(q)' = Current(q)
    BY <1>0 DEF Current
  <2> QED BY <1>0, <2>1, <2>2, <2>3 DEF Decided, OneDecisionPerVersion
<1>12. CommitmentIsAsDecided'
  <2> SUFFICES ASSUME NEW n \in OfType(ledger', {"commitment"})
               PROVE  LET j == ledger'[n].instr IN
                      /\ [id |-> j.digest, request |-> j.request,
                          version |-> j.version, verdict |-> "approved"] \in decisions
                      /\ j.version = Current(j.request)
                      /\ j.amount = versions[j.request][j.version]
                      /\ j.evidence = BalanceAt(n - 1)'
    BY <1>0 DEF CommitmentIsAsDecided, Current
  <2>1. CASE n \in OfType(ledger, {"commitment"})
    <3>1. n \in DOMAIN ledger /\ n - 1 \in 0 .. Len(ledger)
      BY <1>1, <2>1 DEF OfType
    <3>2. ledger'[n] = ledger[n] /\ BalanceAt(n - 1)' = BalanceAt(n - 1)
      BY <1>1, <1>2, <3>1
    <3> QED BY <2>1, <3>2 DEF CommitmentIsAsDecided
  <2>2. CASE n = new /\ i.type = "commitment"
    <3>1. CommitmentAllowed(i)
      BY <1>0, <2>2 DEF Allowed, ChangeAllowed, ClosingAllowed
    <3>2. n - 1 = Len(ledger) /\ Len(ledger) \in 0 .. Len(ledger)
      BY <1>1, <2>2
    <3>3. BalanceAt(n - 1)' = Balance(ledger)
      BY <1>2, <3>2
    <3>4. ledger'[n].instr = i
      BY <1>1, <1>3, <2>2
    <3> QED BY <3>1, <3>3, <3>4 DEF CommitmentAllowed, Approved, FreshEvidence
  <2> QED BY <1>6, <2>1, <2>2
<1>13. PurchaseIsClosedOnce'
  <2> DEFINE opened(q) == EntriesOf(q, {"commitment"})
             closed(q) == EntriesOf(q, {"settlement", "cancellation"})
  <2>1. /\ i.type = "commitment" => CommitmentAllowed(i)
        /\ i.type \in {"settlement", "cancellation"} => ClosingAllowed(i)
    BY <1>0 DEF Allowed, ChangeAllowed, CommitmentAllowed, ClosingAllowed
  <2>2. \A q \in Requests :
          /\ opened(q)' = opened(q) \cup
                (IF i.type = "commitment" /\ q = r THEN {new} ELSE {})
          /\ closed(q)' = closed(q) \cup
                (IF i.type \in {"settlement", "cancellation"} /\ q = r THEN {new} ELSE {})
          /\ opened(q) \subseteq DOMAIN ledger /\ closed(q) \subseteq DOMAIN ledger
    BY <1>1, <1>3, <1>6 DEF EntriesOf, OfType
  <2> SUFFICES ASSUME NEW q \in Requests
               PROVE  /\ opened(q)' # {} <=>
                            status'[q] \in {"committed", "settled", "cancelled"}
                      /\ closed(q)' # {} <=> status'[q] \in {"settled", "cancelled"}
                      /\ \A m, n \in opened(q)' : m = n
                      /\ \A m, n \in closed(q)' : m = n
                      /\ \A n \in closed(q)' :
                            /\ ledger'[n].related \in opened(q)'
                            /\ ledger'[n].instr.amount
                                  <= ledger'[ledger'[n].related].instr.amount
    BY DEF PurchaseIsClosedOnce
  <2>3. /\ opened(q) # {} <=> status[q] \in {"committed", "settled", "cancelled"}
        /\ closed(q) # {} <=> status[q] \in {"settled", "cancelled"}
        /\ \A m, n \in opened(q) : m = n
        /\ \A m, n \in closed(q) : m = n
        /\ \A n \in closed(q) :
              /\ ledger[n].related \in opened(q)
              /\ ledger[n].instr.amount <= ledger[ledger[n].related].instr.amount
    BY DEF PurchaseIsClosedOnce
  <2> HIDE DEF opened, closed
  <2>4. CASE i.type \notin OfRequest \/ q # r
    <3>1. opened(q)' = opened(q) /\ closed(q)' = closed(q)
      BY <2>2, <2>4 DEF OfRequest
    <3>2. status'[q] = status[q]
      BY <1>0, <2>4 DEF NewStatus, OfRequest
    <3>3. \A n \in opened(q) \cup closed(q) : ledger'[n] = ledger[n]
      BY <1>1, <2>2
    <3> QED BY <2>3, <3>1, <3>2, <3>3
  <2>5. CASE i.type = "commitment" /\ q = r
    <3>1. status[q] = "approved" /\ status'[q] = "committed"
      BY <1>0, <2>1, <2>5 DEF CommitmentAllowed, NewStatus
    <3>2. opened(q)' = {new} /\ closed(q)' = {}
      BY <2>2, <2>3, <2>5, <3>1
    <3> QED BY <3>1, <3>2
  <2>6. CASE i.type \in {"settlement", "cancellation"} /\ q = r
    <3>1. status[q] = "committed" /\ status'[q] \in {"settled", "cancelled"}
      BY <1>0, <2>1, <2>6 DEF ClosingAllowed, NewStatus
    <3>2. opened(q)' = opened(q) /\ closed(q)' = {new}
      BY <2>2, <2>3, <2>6, <3>1
    <3>3. /\ Related(i) \in opened(q)
          /\ i.amount <= ledger[Related(i)].instr.amount
      BY <2>1, <2>6, ClosesIts DEF opened
    <3>4. ledger'[Related(i)] = ledger[Related(i)]
      BY <1>1, <2>2, <3>3
    <3>5. /\ ledger'[new].related = Related(i)
          /\ ledger'[new].instr.amount = i.amount
      BY <1>1, <1>3
    <3> QED BY <2>3, <3>1, <3>2, <3>3, <3>4, <3>5
  <2> QED BY <2>4, <2>5, <2>6 DEF OfRequest
<1> QED BY <1>7, <1>8, <1>9, <1>10, <1>11, <1>12, <1>13 DEF StoreInv

LEMMA DecidersStep ==
  ASSUME LedgerInv, [Next]_vars PROVE Deciders'
<1> USE DEF LedgerInv
<1>0. pc \in [Calls -> Steps] /\ instr \in [Calls -> Instructions]
  BY DEF TypeOK
<1>1. ASSUME NEW c \in Calls, NEW step, NEW i, Goto(c, step, i),
             step \in {"weighing", "approving", "rejecting"} => i.type = "commitment"
      PROVE  Deciders'
  BY <1>0, <1>1 DEF Goto, Deciders
<1>2. ASSUME NEW c \in Calls, NEW a, Answer(c, a) PROVE Deciders'
  BY <1>0, <1>2 DEF Answer, Deciders
<1>3. ASSUME NEW c \in Calls, Opening(c) PROVE Deciders'
  <2>1. ASSUME NEW i, NEW step \in {"preparing", "assessing"}, Replay(c, i, step)
        PROVE  Deciders'
    BY <1>1, <1>2, <2>1 DEF Replay
  <2> QED BY <1>1, <1>2, <1>3, <2>1
          DEF Opening, Bootstrap, Adjust, Correct, Settle, Cancel, Prepare
<1>4. ASSUME NEW c \in Calls, Deciding(c) PROVE Deciders'
  <2>1. CASE Decide(c)
    <3>1. PICK r \in Requests, step \in {"weighing", "rejecting"} :
            Goto(c, step, [Wish(c, "commitment", r, versions[r][Current(r)], 0, c)
                              EXCEPT !.version = Current(r)])
      BY <2>1 DEF Decide
    <3> DEFINE w == Wish(c, "commitment", r, versions[r][Current(r)], 0, c)
    <3>2. [w EXCEPT !.version = Current(r)].type = "commitment"
      BY DEF Wish
    <3> HIDE DEF w
    <3> QED BY <1>1, <3>1, <3>2 DEF w
  <2>2. CASE Weigh(c)
    <3> DEFINE i == [instr[c] EXCEPT !.evidence = Balance(ledger),
                                     !.expected = Balance(ledger) - instr[c].amount]
    <3>1. i.type = "commitment"
      BY <1>0, <2>2 DEF Weigh, Deciders, Instructions
    <3>2. Goto(c, "approving", i)
      BY <2>2 DEF Weigh
    <3> HIDE DEF i
    <3> QED BY <1>1, <3>1, <3>2
  <2>3. CASE SaveDecision(c)
    BY <1>2, <2>3 DEF SaveDecision
  <2>4. CASE Commit(c)
    BY <1>1, <1>2, <2>4 DEF Commit
  <2> QED BY <1>4, <2>1, <2>2, <2>3, <2>4 DEF Deciding
<1>5. ASSUME NEW c \in Calls, Executing(c) PROVE Deciders'
  <2>1. CASE Reconcile(c)
    <3>1. CASE \E b \in Calls : Goto(c, "verifying", instr[b])
      BY <1>1, <3>1
    <3>2. CASE \E b \in Calls : /\ pc' = [pc EXCEPT ![c] = "done"]
                                 /\ instr' = [instr EXCEPT ![c] = instr[b]]
      BY <1>0, <3>2 DEF Deciders
    <3> QED BY <2>1, <3>1, <3>2 DEF Reconcile
  <2>2. CASE Assess(c) \/ Apply(c) \/ Refuse(c) \/ ApplyUnseen(c)
    BY <1>1, <1>2, <2>2 DEF Assess, Apply, Refuse, ApplyUnseen
  <2>3. CASE Report(c) \/ Verify(c) \/ Lose(c)
    BY <1>2, <2>3 DEF Report, Verify, Lose
  <2> QED BY <1>5, <2>1, <2>2, <2>3 DEF Executing
<1>6. CASE \E r \in Requests : Requesting(r)
  BY <1>6 DEF Requesting, CreateRequest, AddRequestVersion, SubmitRequest, Deciders
<1>7. CASE Quiet \/ UNCHANGED vars
  BY <1>7 DEF Quiet, vars, Deciders
<1> QED BY <1>3, <1>4, <1>5, <1>6, <1>7 DEF Next

LEMMA CallTypesKept ==
  ASSUME LedgerInv, [Next]_vars PROVE CallTypes'
<1>1. CASE \E r \in Requests : Requesting(r)
  BY <1>1 DEF Requesting, CreateRequest, AddRequestVersion, SubmitRequest, CallTypes,
              LedgerInv, TypeOK
<1>2. CASE Quiet \/ UNCHANGED vars
  BY <1>2 DEF Quiet, vars, CallTypes, LedgerInv, TypeOK
<1> QED BY <1>1, <1>2, OpeningTypes, DecidingTypes, ExecutingTypes DEF Next

LEMMA StepInv == LedgerInv /\ [Next]_vars => LedgerInv'
<1> SUFFICES ASSUME LedgerInv, [Next]_vars PROVE LedgerInv'
  OBVIOUS
<1>1. StoreInv'
  <2>1. ASSUME NEW c \in Calls, Write(instr[c]) PROVE StoreInv'
    BY <2>1, WriteInv DEF LedgerInv, TypeOK
  <2> QED BY <2>1, StoreStep, UntouchedInv, RequestingInv, DecisionInv DEF Written
<1>2. CallTypes' /\ Deciders'
  BY CallTypesKept, DecidersStep
<1> QED BY <1>1, <1>2 DEF LedgerInv, StoreInv, StoreTypes, CallTypes, TypeOK

-----------------------------------------------------------------------------
(* What the calls hold.  An instruction is copied: a commit executes that  *)
(* of a decision, a replayed key and a reconcile that of another call.     *)

(* A call past them no longer changes its instruction. *)
Settled == {"applying", "reporting", "verifying", "done"}

DecidedBy(c) == \E d \in decisions : d.id = c

(* A commitment expects the balance it was weighed on, less its amount. *)
Weighed(i) == i.type = "commitment" => i.expected = i.evidence - i.amount

(* What a call may do with an instruction, and be told of it: it is its    *)
(* own, one that was decided, or the copy of one that is settled.          *)
CallOK(c, step, i, a) ==
    /\ step # "done" => a = "none"
    /\ step \in {"preparing", "weighing", "approving", "rejecting"} => i.digest = c
    /\ step = "preparing" => i.type # "commitment"
    /\ step \in {"assessing", "applying"} => i.digest = c \/ DecidedBy(i.digest)
    /\ step \in {"approving", "assessing", "applying"} => Weighed(i)
    /\ i.type = "commitment" => i.digest \in Calls
    /\ i.digest \in Calls \ {c} => pc[i.digest] \in Settled /\ instr[i.digest] = i
    /\ a \in {"verified", "mismatch", "unverified"} => Applied(i.digest)
    /\ a \in {"denied", "conflict", "blocked", "no_effect"}
          => ~Applied(c) \/ DecidedBy(c)
    /\ a = "mismatch" => i.type # "commitment"

CallInv(c) == CallOK(c, pc[c], instr[c], answer[c])

(* An entry is of the instruction that its call settled on, and the        *)
(* receipt of a commitment states the balance its owner was shown.         *)
EntryInv(n) ==
    LET i == ledger[n].instr IN
    /\ i.digest \in Calls => pc[i.digest] \in Settled /\ instr[i.digest] = i
    /\ i.type = "commitment" => ledger[n].available = i.expected

(* A decided instruction stays as it is, to be committed. *)
DecidedInv(d) ==
    /\ pc[d.id] = "done" /\ instr[d.id].digest = d.id
    /\ d.verdict = "approved" => Weighed(instr[d.id])

CallsInv ==
    /\ \A c \in Calls : CallInv(c)
    /\ \A n \in DOMAIN ledger : EntryInv(n)
    /\ \A d \in decisions : DecidedInv(d)

(* The one call that a step moves. *)
Becomes(c, step, i, a) ==
    /\ pc' = [pc EXCEPT ![c] = step]
    /\ instr' = [instr EXCEPT ![c] = i]
    /\ answer' = [answer EXCEPT ![c] = a]

LEMMA GotoBecomes ==
  ASSUME TypeOK, NEW c \in Calls, NEW step, NEW i, Goto(c, step, i)
  PROVE  Becomes(c, step, i, answer[c])
  BY DEF TypeOK, Goto, Becomes

LEMMA AnswerBecomes ==
  ASSUME TypeOK, NEW c \in Calls, NEW a, Answer(c, a)
  PROVE  Becomes(c, "done", instr[c], a)
  BY DEF TypeOK, Answer, Becomes

(* Whatever one call does, the others, the entries and the decisions keep  *)
(* what they hold, as long as the call does not take back what it settled. *)
LEMMA OthersKept ==
  ASSUME LedgerInv, CallsInv, NEW c \in Calls, NEW step, NEW i, NEW a,
         Becomes(c, step, i, a), pc[c] # "done",
         pc[c] \in Settled => step \in Settled /\ i = instr[c],
         decisions \subseteq decisions',
         \A digest : Applied(digest) => Applied(digest)',
         \A b \in Calls \ {c} : Applied(b)' => Applied(b) \/ DecidedBy(b)
  PROVE  /\ \A b \in Calls \ {c} : CallInv(b)'
         /\ \A n \in DOMAIN ledger : ledger'[n] = ledger[n] => EntryInv(n)'
         /\ \A d \in decisions : DecidedInv(d)'
<1>0. /\ pc \in [Calls -> Steps] /\ instr \in [Calls -> Instructions]
      /\ answer \in [Calls -> Answers]
  BY DEF LedgerInv, TypeOK
<1>1. \A b \in Calls \ {c} :
         pc'[b] = pc[b] /\ instr'[b] = instr[b] /\ answer'[b] = answer[b]
  BY <1>0 DEF Becomes
<1>2. \A b \in Calls : pc[b] \in Settled => pc'[b] \in Settled /\ instr'[b] = instr[b]
  BY <1>0, <1>1 DEF Becomes
<1>3. \A b : DecidedBy(b) => DecidedBy(b)'
  BY DEF DecidedBy
<1>4. ASSUME NEW b \in Calls \ {c} PROVE CallInv(b)'
  <2>1. CallInv(b)
    BY DEF CallsInv
  <2> QED BY <1>1, <1>2, <1>3, <2>1 DEF CallInv, CallOK
<1>5. ASSUME NEW n \in DOMAIN ledger, ledger'[n] = ledger[n] PROVE EntryInv(n)'
  BY <1>2, <1>5 DEF CallsInv, EntryInv
<1>6. ASSUME NEW d \in decisions PROVE DecidedInv(d)'
  <2>1. d.id \in Calls
    BY DEF LedgerInv, TypeOK, Decisions
  <2> QED BY <1>1, <2>1 DEF CallsInv, DecidedInv
<1> QED BY <1>4, <1>5, <1>6

(* A step of a call that leaves the stores alone. *)
LEMMA CallMoves ==
  ASSUME LedgerInv, CallsInv, UNCHANGED store,
         NEW c \in Calls, NEW step, NEW i, NEW a,
         Becomes(c, step, i, a), pc[c] # "done",
         pc[c] \in Settled => step \in Settled /\ i = instr[c],
         CallOK(c, step, i, a)
  PROVE  CallsInv'
<1>1. /\ decisions' = decisions /\ ledger' = ledger
      /\ \A digest : Applied(digest)' <=> Applied(digest)
  BY DEF store, Applied
<1>2. /\ \A b \in Calls \ {c} : CallInv(b)'
      /\ \A n \in DOMAIN ledger : EntryInv(n)'
      /\ \A d \in decisions : DecidedInv(d)'
  BY <1>1, OthersKept
<1>3. CallInv(c)'
  <2>1. /\ pc'[c] = step /\ instr'[c] = i /\ answer'[c] = a
        /\ \A b \in Calls \ {c} : pc'[b] = pc[b] /\ instr'[b] = instr[b]
    BY DEF Becomes, LedgerInv, TypeOK
  <2> QED BY <1>1, <2>1 DEF CallInv, CallOK, DecidedBy
<1> QED BY <1>1, <1>2, <1>3 DEF CallsInv

(* A commitment is of the call that decided it. *)
LEMMA NamedCommitment ==
  ASSUME LedgerInv, NEW n \in DOMAIN ledger, ledger[n].instr.type = "commitment"
  PROVE  ledger[n].instr.digest \in Calls /\ DecidedBy(ledger[n].instr.digest)
<1> DEFINE i == ledger[n].instr
           d == [id |-> i.digest, request |-> i.request, version |-> i.version,
                 verdict |-> "approved"]
<1>1. n \in OfType(ledger, {"commitment"})
  BY DEF OfType
<1>2. d \in decisions
  BY <1>1 DEF LedgerInv, CommitmentIsAsDecided
<1>3. d \in Decisions /\ d.id = i.digest
  BY <1>2 DEF LedgerInv, TypeOK
<1>4. d.id \in Calls
  BY <1>3 DEF Decisions
<1> HIDE DEF d
<1> QED BY <1>2, <1>3, <1>4 DEF DecidedBy

(* The instructions of a call's own, when it opens. *)
LEMMA OpeningMoves ==
  ASSUME LedgerInv, CallsInv, NEW c \in Calls, Opening(c) PROVE CallsInv'
<1> USE DEF LedgerInv
<1>0. UNCHANGED store
  BY DEF Opening, Bootstrap, Adjust, Correct, Settle, Cancel, Prepare
<1>1. CallOK(c, pc[c], instr[c], answer[c])
  BY DEF CallsInv, CallInv
<1>2. ASSUME NEW i, NEW step \in {"preparing", "assessing"}, Replay(c, i, step),
             pc[c] = "idle", i.digest = c, i.type # "commitment"
      PROVE  CallsInv'
  <2>1. answer[c] = "none" /\ pc[c] \notin Settled
    BY <1>1, <1>2 DEF CallOK, Settled
  <2>2. CASE Goto(c, step, i)
    <3>1. CallOK(c, step, i, "none")
      BY <1>2 DEF CallOK, Weighed
    <3> QED BY <1>0, <1>2, <2>1, <2>2, <3>1, CallMoves, GotoBecomes
  <2>3. CASE Answer(c, "conflict")
    <3>1. \A n \in DOMAIN ledger : ledger[n].instr.digest # c
      BY <2>1 DEF CallsInv, EntryInv
    <3>2. CallOK(c, "done", instr[c], "conflict")
      BY <1>1, <3>1 DEF CallOK, Applied
    <3> QED BY <1>0, <1>2, <2>1, <2>3, <3>2, CallMoves, AnswerBecomes
  <2>4. ASSUME NEW n \in DOMAIN ledger, Goto(c, "verifying", ledger[n].instr)
        PROVE  CallsInv'
    <3> DEFINE j == ledger[n].instr
    <3>1. EntryInv(n) /\ j \in Instructions
      BY EntryType DEF CallsInv
    <3>2. j.type = "commitment" => j.digest \in Calls
      BY NamedCommitment
    <3>3. CallOK(c, "verifying", j, "none")
      BY <3>1, <3>2 DEF CallOK, EntryInv
    <3> QED BY <1>0, <1>2, <2>1, <2>4, <3>3, CallMoves, GotoBecomes
  <2> QED BY <1>2, <2>2, <2>3, <2>4 DEF Replay
<1>3. CASE Prepare(c)
  <2>1. /\ pc[c] = "preparing" /\ answer[c] = "none" /\ pc[c] \notin Settled
        /\ instr[c].digest = c /\ instr[c].type # "commitment"
    BY <1>1, <1>3 DEF Prepare, CallOK, Settled
  <2>2. CASE Answer(c, "denied")
    <3>1. \A n \in DOMAIN ledger : ledger[n].instr.digest # c
      BY <2>1 DEF CallsInv, EntryInv
    <3>2. CallOK(c, "done", instr[c], "denied")
      BY <1>1, <3>1 DEF CallOK, Applied
    <3> QED BY <1>0, <2>1, <2>2, <3>2, CallMoves, AnswerBecomes
  <2>3. ASSUME NEW x, Goto(c, "assessing", [Filled(instr[c]) EXCEPT !.expected = x])
        PROVE  CallsInv'
    <3> DEFINE i == [Filled(instr[c]) EXCEPT !.expected = x]
    <3>1. instr[c] \in Instructions
      BY DEF TypeOK
    <3>2. i.digest = instr[c].digest /\ i.type = instr[c].type
      BY <3>1 DEF Filled, Instructions
    <3> HIDE DEF i
    <3>3. CallOK(c, "assessing", i, "none")
      BY <2>1, <3>2 DEF CallOK, Weighed
    <3> QED BY <1>0, <2>1, <2>3, <3>3, CallMoves, GotoBecomes DEF i
  <2> QED BY <1>3, <2>2, <2>3 DEF Prepare
<1>4. ASSUME NEW type \in Mutations \ {"commitment"}, NEW r, NEW n, NEW target, NEW key,
             NEW step \in {"preparing", "assessing"}, pc[c] = "idle",
             Replay(c, Wish(c, type, r, n, target, key), step)
      PROVE  CallsInv'
  <2>1. /\ Wish(c, type, r, n, target, key).digest = c
        /\ Wish(c, type, r, n, target, key).type # "commitment"
    BY DEF Wish
  <2> QED BY <1>2, <1>4, <2>1
<1>5. CASE Bootstrap(c)
  BY <1>4, <1>5 DEF Bootstrap, Begins, Mutations
<1>6. CASE Adjust(c)
  BY <1>4, <1>6 DEF Adjust, Begins, Mutations
<1>7. CASE Correct(c)
  BY <1>4, <1>7 DEF Correct, Begins, Mutations
<1>8. CASE Settle(c)
  BY <1>4, <1>8 DEF Settle, Begins, Mutations
<1>9. CASE Cancel(c)
  BY <1>4, <1>9 DEF Cancel, Begins, Mutations
<1> QED BY <1>3, <1>5, <1>6, <1>7, <1>8, <1>9 DEF Opening

(* A decision in the making: the owner's call holds its own commitment. *)
LEMMA DecidingMoves ==
  ASSUME LedgerInv, CallsInv, NEW c \in Calls, Deciding(c) PROVE CallsInv'
<1> USE DEF LedgerInv
<1>1. CallOK(c, pc[c], instr[c], answer[c]) /\ instr[c] \in Instructions
  BY DEF CallsInv, CallInv, TypeOK
<1>2. CASE Decide(c)
  <2>1. PICK r \in Requests, step \in {"weighing", "rejecting"} :
          Goto(c, step, [Wish(c, "commitment", r, versions[r][Current(r)], 0, c)
                            EXCEPT !.version = Current(r)])
    BY <1>2 DEF Decide
  <2> DEFINE w == Wish(c, "commitment", r, versions[r][Current(r)], 0, c)
             i == [w EXCEPT !.version = Current(r)]
  <2>2. i.digest = c
    BY DEF Wish
  <2>3. answer[c] = "none" /\ pc[c] = "idle" /\ UNCHANGED store
    BY <1>1, <1>2 DEF Decide, Begins, CallOK
  <2> HIDE DEF i
  <2>4. CallOK(c, step, i, "none")
    BY <2>2 DEF CallOK
  <2> QED BY <2>1, <2>3, <2>4, CallMoves, GotoBecomes DEF Settled, i
<1>3. CASE Weigh(c)
  <2> DEFINE i == [instr[c] EXCEPT !.evidence = Balance(ledger),
                                   !.expected = Balance(ledger) - instr[c].amount]
  <2>1. /\ Goto(c, "approving", i) /\ pc[c] = "weighing" /\ UNCHANGED store
        /\ answer[c] = "none" /\ instr[c].digest = c
    BY <1>1, <1>3 DEF Weigh, CallOK
  <2>2. i.digest = c /\ i.expected = i.evidence - i.amount
    BY <1>1, <2>1 DEF Instructions
  <2> HIDE DEF i
  <2>3. CallOK(c, "approving", i, "none")
    BY <2>2 DEF CallOK, Weighed
  <2> QED BY <2>1, <2>3, CallMoves, GotoBecomes DEF Settled
<1>4. CASE SaveDecision(c)
  <2>1. /\ pc[c] \in {"approving", "rejecting"} /\ ledger' = ledger
        /\ pc[c] \notin Settled /\ instr[c].digest = c
        /\ pc[c] = "approving" => Weighed(instr[c])
    BY <1>1, <1>4 DEF SaveDecision, CallOK, Settled
  <2>2. CASE Answer(c, "denied") /\ UNCHANGED store
    <3>1. \A n \in DOMAIN ledger : ledger[n].instr.digest # c
      BY <2>1 DEF CallsInv, EntryInv
    <3>2. CallOK(c, "done", instr[c], "denied")
      BY <1>1, <3>1 DEF CallOK, Applied
    <3> QED BY <2>1, <2>2, <3>2, CallMoves, AnswerBecomes
  <2>3. ASSUME NEW d, d.id = c, d.verdict = "approved" => pc[c] = "approving",
               decisions' = decisions \cup {d}, Answer(c, "decided")
        PROVE  CallsInv'
    <3>1. Becomes(c, "done", instr[c], "decided")
      BY <2>3, AnswerBecomes
    <3>2. \A digest : Applied(digest)' <=> Applied(digest)
      BY <2>1 DEF Applied
    <3>3. /\ \A b \in Calls \ {c} : CallInv(b)'
          /\ \A n \in DOMAIN ledger : EntryInv(n)'
          /\ \A e \in decisions : DecidedInv(e)'
      BY <2>1, <2>3, <3>1, <3>2, OthersKept
    <3>4. /\ pc'[c] = "done" /\ instr'[c] = instr[c] /\ answer'[c] = "decided"
      BY <3>1 DEF Becomes, TypeOK
    <3>5. CallInv(c)'
      BY <1>1, <2>1, <3>4 DEF CallInv, CallOK
    <3>6. DecidedInv(d)'
      BY <2>1, <2>3, <3>4 DEF DecidedInv
    <3> QED BY <2>1, <2>3, <3>3, <3>5, <3>6 DEF CallsInv
  <2> QED BY <1>4, <2>2, <2>3 DEF SaveDecision, store
<1>5. CASE Commit(c)
  <2>1. pc[c] = "idle" /\ UNCHANGED store /\ answer[c] = "none" /\ pc[c] \notin Settled
    BY <1>1, <1>5 DEF Commit, Begins, CallOK, Settled
  <2>2. CASE Answer(c, "denied")
    <3>1. \A n \in DOMAIN ledger : ledger[n].instr.digest # c
      BY <2>1 DEF CallsInv, EntryInv
    <3>2. CallOK(c, "done", instr[c], "denied")
      BY <1>1, <3>1 DEF CallOK, Applied
    <3> QED BY <2>1, <2>2, <3>2, CallMoves, AnswerBecomes
  <2>3. ASSUME NEW d \in decisions, d.verdict = "approved",
               Goto(c, "assessing", instr[d.id])
        PROVE  CallsInv'
    <3> DEFINE i == instr[d.id]
    <3>1. d.id \in Calls /\ DecidedInv(d)
      BY DEF CallsInv, TypeOK, Decisions
    <3>2. /\ pc[d.id] \in Settled /\ i.digest = d.id /\ Weighed(i)
          /\ DecidedBy(i.digest)
      BY <2>3, <3>1 DEF DecidedInv, Settled, DecidedBy
    <3>3. CallOK(c, "assessing", i, "none")
      BY <3>1, <3>2 DEF CallOK
    <3> QED BY <2>1, <2>3, <3>3, CallMoves, GotoBecomes
  <2> QED BY <1>5, <2>2, <2>3 DEF Commit
<1> QED BY <1>2, <1>3, <1>4, <1>5 DEF Deciding

(* Applying an instruction: the new entry is of an instruction its call    *)
(* settled on, and no call was told that it has no effect.                 *)
LEMMA WriteMoves ==
  ASSUME LedgerInv, CallsInv, NEW c \in Calls, pc[c] = "applying", Write(instr[c]),
         NEW step \in {"verifying", "reporting"}, Goto(c, step, instr[c])
  PROVE  CallsInv'
<1> USE DEF LedgerInv
<1> DEFINE i == instr[c]
           new == Len(ledger')
<1>0. /\ CallOK(c, pc[c], i, answer[c]) /\ i \in Instructions
      /\ answer[c] = "none"
  BY DEF CallsInv, CallInv, CallOK, TypeOK
<1>1. /\ DOMAIN ledger' = DOMAIN ledger \cup {new} /\ ledger'[new] = NewEntry(i)
      /\ \A n \in DOMAIN ledger : ledger'[n] = ledger[n]
  BY <1>0, WriteAppends
<1>2. decisions' = decisions /\ Allowed(i)
  BY DEF Write, MayApply
<1>3. NewEntry(i).instr = i /\ NewEntry(i).available = After(i)
  BY DEF NewEntry
<1>4. \A digest : Applied(digest)' <=> Applied(digest) \/ digest = i.digest
  BY <1>1, <1>3 DEF Applied
<1>5. Becomes(c, step, i, "none")
  BY <1>0, GotoBecomes
<1>6. i.digest = c \/ DecidedBy(i.digest)
  BY <1>0 DEF CallOK
<1>7. /\ \A b \in Calls \ {c} : CallInv(b)'
      /\ \A n \in DOMAIN ledger : EntryInv(n)'
      /\ \A d \in decisions : DecidedInv(d)'
  <2>1. \A b \in Calls \ {c} : Applied(b)' => Applied(b) \/ DecidedBy(b)
    BY <1>4, <1>6
  <2> QED BY <1>1, <1>2, <1>4, <1>5, <2>1, OthersKept DEF Settled
<1>8. /\ pc'[c] = step /\ instr'[c] = i /\ answer'[c] = "none"
      /\ \A b \in Calls \ {c} : pc'[b] = pc[b] /\ instr'[b] = instr[b]
  BY <1>5 DEF Becomes, TypeOK
<1>9. CallInv(c)'
  BY <1>0, <1>8 DEF CallInv, CallOK
<1>10. ASSUME NEW n, n = Len(ledger') PROVE EntryInv(n)'
  <2>1. i.digest \in Calls => pc'[i.digest] \in Settled /\ instr'[i.digest] = i
    BY <1>0, <1>8 DEF CallOK, Settled
  <2>2. ASSUME i.type = "commitment" PROVE After(i) = i.expected
    <3>1. CommitmentAllowed(i)
      BY <1>2, <2>2 DEF Allowed, ChangeAllowed, ClosingAllowed
    <3>2. i.evidence = Balance(ledger) /\ i.expected = i.evidence - i.amount
      BY <1>0, <2>2, <3>1 DEF CommitmentAllowed, FreshEvidence, CallOK, Weighed
    <3> QED BY <2>2, <3>2 DEF After
  <2> HIDE DEF i
  <2> QED BY <1>1, <1>3, <1>10, <2>1, <2>2 DEF EntryInv
<1> QED BY <1>1, <1>2, <1>7, <1>9, <1>10 DEF CallsInv

(* A commitment that is observed is as it was weighed: the entry found is  *)
(* of the same instruction, and the balance up to it the one it states.    *)
LEMMA ObservedAsExpected ==
  ASSUME LedgerInv, CallsInv, NEW c \in Calls, instr[c].type = "commitment",
         NEW n \in DOMAIN ledger, ledger[n].instr.digest = instr[c].digest
  PROVE  /\ ledger[n].available = instr[c].expected
         /\ Observed(n) = instr[c].expected
<1>1. CallOK(c, pc[c], instr[c], answer[c]) /\ EntryInv(n)
  BY DEF CallsInv, CallInv
<1>2. ledger[n].instr = instr[c]
  BY <1>1 DEF CallOK, EntryInv
<1>3. ledger[n].available = instr[c].expected
  BY <1>1, <1>2 DEF EntryInv
<1>4. Observed(n) = ledger[n].available
  BY DEF LedgerInv, BalancesStated, BalanceAt, Observed
<1> QED BY <1>3, <1>4

LEMMA ExecutingMoves ==
  ASSUME LedgerInv, CallsInv, NEW c \in Calls, Executing(c) PROVE CallsInv'
<1> USE DEF LedgerInv
<1>1. CallOK(c, pc[c], instr[c], answer[c]) /\ instr[c] \in Instructions
  BY DEF CallsInv, CallInv, TypeOK
<1>2. ASSUME pc[c] \notin Settled PROVE \A n \in DOMAIN ledger : ledger[n].instr.digest # c
  BY <1>2 DEF CallsInv, EntryInv
<1>3. CASE Assess(c)
  <2>1. /\ pc[c] = "assessing" /\ UNCHANGED store /\ pc[c] \notin Settled
        /\ answer[c] = "none"
    BY <1>1, <1>3 DEF Assess, CallOK, Settled
  <2>2. CallOK(c, "applying", instr[c], "none")
    BY <1>1, <2>1 DEF CallOK
  <2>3. CallOK(c, "done", instr[c], "blocked")
    BY <1>1, <1>2, <2>1 DEF CallOK, Applied
  <2> QED BY <1>3, <2>1, <2>2, <2>3, CallMoves, GotoBecomes, AnswerBecomes
          DEF Assess, Settled
<1>4. CASE Apply(c)
  <2>1. pc[c] = "applying" /\ answer[c] = "none" /\ Goto(c, "verifying", instr[c])
    BY <1>1, <1>4 DEF Apply, CallOK
  <2>2. CallOK(c, "verifying", instr[c], "none")
    BY <1>1, <2>1 DEF CallOK
  <2>3. CASE UNCHANGED store
    BY <2>1, <2>2, <2>3, CallMoves, GotoBecomes DEF Settled
  <2> QED BY <1>4, <2>1, <2>3, WriteMoves DEF Apply
<1>5. CASE Refuse(c)
  <2>1. /\ pc[c] = "applying" /\ answer[c] = "none" /\ UNCHANGED store
        /\ Goto(c, "reporting", instr[c])
    BY <1>1, <1>5 DEF Refuse, CallOK
  <2>2. CallOK(c, "reporting", instr[c], "none")
    BY <1>1, <2>1 DEF CallOK
  <2> QED BY <2>1, <2>2, CallMoves, GotoBecomes DEF Settled
<1>6. CASE ApplyUnseen(c)
  BY <1>6, WriteMoves DEF ApplyUnseen
<1>7. ASSUME NEW a, Answer(c, a), UNCHANGED store, pc[c] # "done",
             a \in {"unverified", "verified", "mismatch"} => Applied(instr[c].digest),
             a = "no_effect" => ~Applied(instr[c].digest) /\ pc[c] \in Settled,
             a = "mismatch" => instr[c].type # "commitment",
             a \notin {"denied", "conflict", "blocked"}
      PROVE  CallsInv'
  <2>1. a = "no_effect" => ~Applied(c)
    BY <1>1, <1>7 DEF CallsInv, EntryInv, Applied
  <2>2. CallOK(c, "done", instr[c], a)
    BY <1>1, <1>7, <2>1 DEF CallOK
  <2> QED BY <1>7, <2>2, CallMoves, AnswerBecomes DEF Settled
<1>8. CASE Report(c)
  BY <1>7, <1>8 DEF Report, FoundReceipt, Settled
<1>9. CASE Verify(c)
  <2>1. pc[c] = "verifying" /\ UNCHANGED store
    BY <1>9 DEF Verify
  <2>2. CASE Answer(c, "unknown")
    BY <1>7, <2>1, <2>2
  <2>3. ASSUME NEW n \in DOMAIN ledger, ledger[n].instr.digest = instr[c].digest,
               Answer(c, IF /\ ledger[n].available = instr[c].expected
                            /\ Observed(n) = instr[c].expected
                         THEN "verified" ELSE "mismatch")
        PROVE  CallsInv'
    <3>1. Applied(instr[c].digest)
      BY <2>3 DEF Applied
    <3>2. CASE instr[c].type = "commitment"
      <4>1. Answer(c, "verified")
        BY <2>3, <3>2, ObservedAsExpected
      <4> QED BY <1>7, <2>1, <3>1, <4>1
    <3>3. CASE instr[c].type # "commitment"
      BY <1>7, <2>1, <2>3, <3>1, <3>3
    <3> QED BY <3>2, <3>3
  <2> QED BY <1>9, <2>2, <2>3 DEF Verify
<1>10. CASE Reconcile(c)
  <2>1. PICK b \in Calls \ {c} :
          /\ pc[b] \in Settled
          /\ \/ Goto(c, "verifying", instr[b])
             \/ Becomes(c, "done", instr[b], "absent")
    BY <1>10 DEF Reconcile, Settled, Becomes
  <2>2. pc[c] = "idle" /\ answer[c] = "none" /\ UNCHANGED store /\ pc[c] \notin Settled
    BY <1>1, <1>10 DEF Reconcile, Begins, CallOK, Settled
  <2>3. CallOK(b, pc[b], instr[b], answer[b])
    BY DEF CallsInv, CallInv
  <2>4. CallOK(c, "verifying", instr[b], "none") /\ CallOK(c, "done", instr[b], "absent")
    BY <2>1, <2>3 DEF CallOK
  <2> QED BY <2>1, <2>2, <2>4, CallMoves, GotoBecomes
<1>11. CASE Lose(c)
  BY <1>7, <1>11 DEF Lose
<1> QED BY <1>1, <1>3, <1>4, <1>5, <1>6, <1>8, <1>9, <1>10, <1>11 DEF Executing

LEMMA InitCalls == Init => CallsInv
<1> SUFFICES ASSUME Init PROVE CallsInv
  OBVIOUS
<1>1. \A n \in DOMAIN ledger : ledger[n].instr = NoInstruction
  BY DEF Init, Bootstrapped
<1>2. NoInstruction.digest = None /\ NoInstruction.type = "allocation" /\ None \notin Calls
  BY NamesAssumption DEF NoInstruction, Wish
<1>3. ASSUME NEW c \in Calls PROVE CallInv(c)
  BY <1>2, Zenon DEF Init, CallInv, CallOK, Weighed
<1> QED BY <1>1, <1>2, <1>3 DEF Init, CallsInv, EntryInv

LEMMA StepCalls == LedgerInv /\ CallsInv /\ [Next]_vars => CallsInv'
<1> SUFFICES ASSUME LedgerInv, CallsInv, [Next]_vars PROVE CallsInv'
  OBVIOUS
<1>1. ASSUME UNCHANGED <<ledger, decisions, pc, instr, answer>> PROVE CallsInv'
  BY <1>1 DEF CallsInv, CallInv, CallOK, EntryInv, DecidedInv, DecidedBy, Applied
<1>2. CASE \E r \in Requests : Requesting(r)
  BY <1>1, <1>2 DEF Requesting, CreateRequest, AddRequestVersion, SubmitRequest
<1>3. CASE Quiet \/ UNCHANGED vars
  BY <1>1, <1>3 DEF Quiet, vars
<1> QED BY <1>2, <1>3, OpeningMoves, DecidingMoves, ExecutingMoves DEF Next

(* Both invariants hold together: the second one rests on the first. *)
THEOREM CallsInvariant == Spec => [](LedgerInv /\ CallsInv)
<1>1. LedgerInv /\ CallsInv /\ [Next]_vars => (LedgerInv /\ CallsInv)'
  BY StepInv, StepCalls
<1>2. Init => LedgerInv /\ CallsInv
  BY InitInv, InitCalls
<1> QED BY <1>1, <1>2, PTL DEF Spec

-----------------------------------------------------------------------------
(* The fund.                                                               *)

free == IF ledger = <<>> THEN 0 ELSE ledger[Len(ledger)].available
state == [r \in Requests |-> StateOf(r)]
held == [r \in Requests |-> HeldBy(r)]
fund == <<free, state, held>>

LEMMA FreeIsBalance ==
  ASSUME TypeOK, BalancesStated PROVE free = Balance(ledger)
<1>1. CASE ledger = <<>>
  BY <1>1, EmptyBalance DEF free
<1>2. CASE ledger # <<>>
  <2>1. Len(ledger) \in DOMAIN ledger
    BY <1>2 DEF TypeOK
  <2>2. SubSeq(ledger, 1, Len(ledger)) = ledger
    BY Whole DEF TypeOK
  <2> QED BY <1>2, <2>1, <2>2 DEF BalancesStated, BalanceAt, free
<1> QED BY <1>1, <1>2

LEMMA FundInit == Init => Fund!Init
<1> SUFFICES ASSUME Init PROVE Fund!Init
  OBVIOUS
<1>1. free \in Nat
  <2>1. LedgerInv
    BY InitInv
  <2> QED BY <2>1, FreeIsBalance, BalanceIsNat DEF LedgerInv
<1>2. \A r \in Requests : StateOf(r) = "open" /\ HeldBy(r) = 0
  BY DEF Init, StateOf, HeldBy
<1> QED BY <1>1, <1>2 DEF Fund!Init, free

(* A step that neither writes an entry nor closes a request moves nothing. *)
LEMMA MovesNothing ==
  ASSUME LedgerInv, [Next]_vars, ~Written PROVE UNCHANGED fund
<1> USE DEF LedgerInv
<1> DEFINE early == {"none", "draft", "submitted", "approved", "rejected"}
<1>1. /\ ledger' = ledger
      /\ \A q \in Requests :
            \/ status'[q] = status[q] /\ versions'[q] = versions[q]
            \/ status[q] \in early /\ status'[q] \in early
  <2>1. CASE UNCHANGED store
    BY <2>1 DEF store
  <2>2. ASSUME NEW r \in Requests, Requesting(r)
        PROVE  /\ ledger' = ledger
               /\ status[r] \in early /\ status'[r] \in early
               /\ \A q \in Requests \ {r} : status'[q] = status[q] /\ versions'[q] = versions[q]
    BY <2>2 DEF Requesting, CreateRequest, AddRequestVersion, SubmitRequest, TypeOK
  <2>3. ASSUME NEW c \in Calls, SaveDecision(c)
        PROVE  /\ ledger' = ledger /\ versions' = versions
               /\ \A q \in Requests :
                     \/ status'[q] = status[q]
                     \/ status[q] \in early /\ status'[q] \in early
    BY <2>3 DEF SaveDecision, Decidable, TypeOK
  <2> QED BY <2>1, <2>2, <2>3, StoreStep
<1>2. \A q \in Requests : StateOf(q)' = StateOf(q) /\ HeldBy(q)' = HeldBy(q)
  BY <1>1 DEF StateOf, HeldBy, Current
<1> QED BY <1>1, <1>2 DEF fund, free, state, held

LEMMA WriteIsFundStep ==
  ASSUME LedgerInv, NEW i \in Instructions, Write(i) PROVE Fund!Next
<1> USE DEF LedgerInv
<1> DEFINE r == i.request
<1>0. /\ status \in [Requests -> Statuses] /\ versions' = versions
      /\ status' = NewStatus(i) /\ Allowed(i)
  BY DEF TypeOK, Write, MayApply
<1>1. free = Balance(ledger) /\ Balance(ledger) \in Nat
  BY FreeIsBalance, BalanceIsNat
<1>2. free' = After(i) /\ After(i) \in Nat
  <2>1. /\ ledger' \in Seq(Entries) /\ Len(ledger') = Len(ledger) + 1
        /\ ledger'[Len(ledger')] = NewEntry(i)
    BY WriteAppends
  <2>2. ledger' # <<>>
    BY <2>1 DEF TypeOK
  <2>3. NewEntry(i).available = After(i)
    BY DEF NewEntry
  <2> QED BY <1>0, <2>1, <2>2, <2>3, AfterIsNat DEF free
<1>3. i.type \in OfRequest => r \in Requests
  BY RequestOf
<1>4. \A q \in Requests : status'[q] = status[q]
                            => StateOf(q)' = StateOf(q) /\ HeldBy(q)' = HeldBy(q)
  BY <1>0 DEF StateOf, HeldBy, Current
<1>5. i.amount \in Int
  BY DEF Instructions
<1>6. CASE i.type \notin OfRequest
  <2>1. status' = status
    BY <1>0, <1>6 DEF NewStatus, OfRequest
  <2>2. state' = state /\ held' = held
    BY <1>4, <2>1 DEF state, held
  <2> QED BY <1>2, <2>2 DEF Fund!Next, Fund!Change, free, state, held
<1>7. CASE CommitmentAllowed(i)
  <2>1. i.type = "commitment" /\ r \in Requests /\ status[r] = "approved"
    BY <1>3, <1>7 DEF CommitmentAllowed, OfRequest
  <2>2. /\ status'[r] = "committed"
        /\ \A q \in Requests \ {r} : status'[q] = status[q]
    BY <1>0, <2>1 DEF NewStatus
  <2>3. i.amount = versions[r][Current(r)] /\ i.amount <= Balance(ledger)
    BY <1>7 DEF CommitmentAllowed
  <2>4. i.amount \in 1 .. free
    <3>1. versions[r] # <<>> /\ versions[r] \in Seq(Amounts)
      BY <2>1 DEF Versioned, TypeOK
    <3>2. versions[r][Current(r)] \in Amounts
      BY <3>1 DEF Current
    <3> QED BY <1>1, <1>5, <2>3, <3>2, AmountsAssumption
  <2>5. free' = free - i.amount
    BY <1>1, <1>2, <2>1 DEF After
  <2>6. state[r] = "open" /\ StateOf(r)' = "held" /\ HeldBy(r)' = i.amount
    BY <1>0, <2>1, <2>2, <2>3 DEF StateOf, HeldBy, Current, state
  <2>7. state' = [state EXCEPT ![r] = "held"] /\ held' = [held EXCEPT ![r] = i.amount]
    BY <1>4, <2>1, <2>2, <2>6 DEF state, held
  <2>8. Fund!Reserve(r)
    BY <2>4, <2>5, <2>6, <2>7 DEF Fund!Reserve, free, state, held
  <2> QED BY <2>1, <2>8 DEF Fund!Next
<1>8. CASE ClosingAllowed(i)
  <2> DEFINE n == Related(i)
  <2>1. /\ i.type \in {"settlement", "cancellation"}
        /\ r \in Requests /\ status[r] = "committed"
        /\ n \in OfType(ledger, {"commitment"}) /\ ledger[n].instr.request = r
        /\ ledger[n].instr.amount \in Nat \ {0}
        /\ i.amount <= ledger[n].instr.amount
        /\ i.type = "cancellation" => i.amount = ledger[n].instr.amount
    BY <1>8, ClosesIts DEF ClosingAllowed, EntriesOf
  <2>2. ledger[n].instr.amount = versions[r][Current(r)]
    BY <2>1 DEF CommitmentIsAsDecided
  <2>3. state[r] = "held" /\ held[r] = ledger[n].instr.amount
    BY <2>1, <2>2 DEF state, held, StateOf, HeldBy
  <2>4. \A q \in Requests \ {r} : status'[q] = status[q]
    BY <1>0, <2>1 DEF NewStatus
  <2>5. held' = [held EXCEPT ![r] = 0]
    <3>1. status'[r] # "committed"
      BY <1>0, <2>1 DEF NewStatus
    <3>2. HeldBy(r)' = 0
      BY <3>1 DEF HeldBy
    <3> QED BY <1>4, <2>1, <2>4, <3>2 DEF held
  <2>6. CASE i.type = "settlement"
    <3>1. StateOf(r)' = "spent"
      BY <1>0, <2>1, <2>6 DEF NewStatus, StateOf
    <3>2. state' = [state EXCEPT ![r] = "spent"]
      BY <1>4, <2>1, <2>4, <3>1 DEF state
    <3>3. free' = free + held[r] - i.amount
      BY <1>1, <1>2, <2>3, <2>6 DEF After
    <3>4. i.amount \in 1 .. held[r]
      <4>1. i.amount \in Nat \ {0}
        BY <2>6, AmountsAssumption DEF Instructions
      <4> QED BY <2>1, <2>3, <4>1
    <3>5. Fund!Spend(r)
      BY <2>3, <2>5, <3>2, <3>3, <3>4 DEF Fund!Spend, free, state, held
    <3> QED BY <2>1, <3>5 DEF Fund!Next
  <2>7. CASE i.type = "cancellation"
    <3>1. StateOf(r)' = "released"
      BY <1>0, <2>1, <2>7 DEF NewStatus, StateOf
    <3>2. state' = [state EXCEPT ![r] = "released"]
      BY <1>4, <2>1, <2>4, <3>1 DEF state
    <3>3. free' = free + held[r]
      BY <1>1, <1>2, <2>1, <2>3, <2>7 DEF After
    <3>4. Fund!Release(r)
      BY <2>3, <2>5, <3>2, <3>3 DEF Fund!Release, free, state, held
    <3> QED BY <2>1, <3>4 DEF Fund!Next
  <2> QED BY <2>1, <2>6, <2>7
<1> QED BY <1>0, <1>6, <1>7, <1>8 DEF Allowed, ChangeAllowed, OfRequest

(* Budget Control implements the fund: whatever interleaving of calls,     *)
(* retries and lost answers, money is only ever changed, reserved, spent   *)
(* or released as the fund allows (apply_mutation).                        *)
THEOREM Implements == Spec => ImplementsFund
<1>1. LedgerInv /\ [Next]_vars => [Fund!Next]_(Fund!vars)
  <2> SUFFICES ASSUME LedgerInv, [Next]_vars PROVE [Fund!Next]_(Fund!vars)
    OBVIOUS
  <2>1. CASE ~Written
    BY <2>1, MovesNothing DEF fund, free, state, held, Fund!vars
  <2>2. CASE Written
    BY <2>2, WriteIsFundStep DEF Written, LedgerInv, TypeOK
  <2> QED BY <2>1, <2>2
<1> QED BY <1>1, FundInit, InitInv, StepInv, PTL
        DEF Spec, ImplementsFund, Fund!Spec

-----------------------------------------------------------------------------
(* The theorems.                                                           *)

(* The inductive invariant holds in every state of Budget Control.         *)
THEOREM LedgerInvariant == Spec => []LedgerInv
<1> QED BY InitInv, StepInv, PTL DEF Spec

(* Every variable has its type; in particular no receipt states a negative *)
(* balance (available_after of apply_mutation).                            *)
THEOREM TypeCorrect == Spec => []TypeOK
<1>1. LedgerInv => TypeOK
  BY DEF LedgerInv
<1> QED BY <1>1, LedgerInvariant, PTL

(* However many mutations race, the balance recomputed up to any entry of  *)
(* the ledger is never negative.                                           *)
THEOREM Solvent == Spec => []NeverOverdrawn
<1>1. LedgerInv => NeverOverdrawn
  <2> SUFFICES ASSUME LedgerInv, NEW n \in DOMAIN ledger PROVE BalanceAt(n) >= 0
    BY DEF NeverOverdrawn
  <2>1. BalanceAt(n) = ledger[n].available
    BY DEF LedgerInv, BalancesStated
  <2>2. ledger[n].available \in Nat
    BY EntryType DEF LedgerInv, Entries
  <2> QED BY <2>1, <2>2
<1> QED BY <1>1, LedgerInvariant, PTL

(* An instruction, and an idempotency key, has at most one entry, whatever *)
(* calls carry it and however often it is retried (apply_mutation).        *)
THEOREM AppliedOnce == Spec => []OneEffect
<1>1. LedgerInv => OneEffect
  BY DEF LedgerInv
<1> QED BY <1>1, LedgerInvariant, PTL

(* A purchase is committed once and settled or cancelled once, within what *)
(* was committed (_open_commitment, _transition).                          *)
THEOREM ClosedOnce == Spec => []PurchaseIsClosedOnce
<1>1. LedgerInv => PurchaseIsClosedOnce
  BY DEF LedgerInv
<1> QED BY <1>1, LedgerInvariant, PTL

(* A commitment is the decided version, on the balance it was decided on   *)
(* (validate_mutation).                                                    *)
THEOREM AsDecided == Spec => []CommitmentIsAsDecided
<1>1. LedgerInv => CommitmentIsAsDecided
  BY DEF LedgerInv
<1> QED BY <1>1, LedgerInvariant, PTL

(* A version has at most one decision (save_decision).                     *)
THEOREM DecidedOnce == Spec => []OneDecisionPerVersion
<1>1. LedgerInv => OneDecisionPerVersion
  BY DEF LedgerInv
<1> QED BY <1>1, LedgerInvariant, PTL
(* What a call is told of the money is true: an effect it was told of is   *)
(* in the ledger, and one it was told did not happen never gets there,     *)
(* unless it is that of a decision which someone else may commit (_execute *)
(* and reconcile).                                                         *)
THEOREM TrueAnswers == Spec => []AnswersAreTrue
<1>1. CallsInv => AnswersAreTrue
  BY DEF CallsInv, CallInv, CallOK, AnswersAreTrue, DecidedBy
<1> QED BY <1>1, CallsInvariant, PTL

(* However late a commitment is verified or reconciled, and whatever was   *)
(* written meanwhile, it is not reported as a mismatch                     *)
(* (BudgetObserver.verify).                                                *)
THEOREM CommitmentsAreVerified == Spec => []CommitmentsVerify
<1>1. CallsInv => CommitmentsVerify
  BY DEF CallsInv, CallInv, CallOK, CommitmentsVerify
<1> QED BY <1>1, CallsInvariant, PTL
===========================================================================
