--------------------------- MODULE BudgetLedger ---------------------------
(***************************************************************************)
(* Budget Control: purchase requests with numbered versions, decisions of  *)
(* the budget owner, and an append-only ledger from which the available    *)
(* balance is recomputed.  A call of a /budget route is a thread of the    *)
(* server that runs several transactions: it looks for a receipt of its    *)
(* idempotency key, previews its instruction, has it assessed by the       *)
(* policy and the risk evaluator, and only then applies it in one IMMEDIATE*)
(* transaction that validates again.  Anything may happen in between.      *)
(*                                                                         *)
(* Bootstrap creates the only organization, with one budget, one owner and *)
(* one requester who differ, and no route changes a role: the calls below  *)
(* are those of the principals who may make them.  A ledger entry and its  *)
(* receipt are written together and are one record.  created_at is taken   *)
(* inside the transaction, so it is the position of the entry.  A call is  *)
(* named by the action it builds: it stands for the action_id that makes   *)
(* its instruction digest unique, and for the decision_id it saves.        *)
(***************************************************************************)
EXTENDS Integers, Sequences, FiniteSetsExt

CONSTANTS
    Calls,         \* the calls of the routes that move money or decide
    Requests,      \* the purchase requests
    Keys,          \* the idempotency keys clients send
    None,          \* no call, key or request
    Allocation,    \* the amount of the bootstrap allocation
    Amounts,       \* the amounts of purchases and settlements
    Changes,       \* the amounts of adjustments and corrections
    Routes,        \* the routes that are called in this instance
    Fresh,         \* may the database be new?
    MaxVersion     \* bound: the versions of a request

ASSUME NamesAssumption ==
    /\ None \notin Calls \cup Requests \cup Keys
    /\ Calls \cap Keys = {}

ASSUME AmountsAssumption ==
    /\ Allocation \in Nat \ {0} /\ Amounts \subseteq Nat \ {0}
    /\ Changes \subseteq Int \ {0}
    /\ Fresh \in BOOLEAN /\ MaxVersion \in Nat
    /\ Routes \subseteq {"bootstrap", "adjust", "correct", "settle", "cancel",
                      "decide", "commit", "reconcile"}

VARIABLES
    versions,      \* the amounts of the versions of each request
    status,        \* the status of each request
    decisions,     \* domain_decisions
    ledger,        \* ledger_entries, each with its receipt
    pc, instr, answer   \* the calls

vars == <<versions, status, decisions, ledger, pc, instr, answer>>

-----------------------------------------------------------------------------

Mutations == {"allocation", "adjustment", "correction", "commitment",
              "settlement", "cancellation"}
Statuses == {"none", "draft", "submitted", "approved", "rejected", "committed",
             "settled", "cancelled"}
Verdicts == {"approved", "rejected"}
Steps == {"idle", "preparing", "weighing", "approving", "rejecting",
          "assessing", "applying", "reporting", "verifying", "done"}
Answers == {"none", "lost", "denied", "conflict", "decided", "blocked",
            "no_effect", "absent", "unverified", "unknown", "verified",
            "mismatch"}

(* The mutations of a purchase request; the others change the balance. *)
OfRequest == {"commitment", "settlement", "cancellation"}

(* An instruction: the parameters of an action and its digest.             *)
Instructions ==
    {i \in [type : Mutations, request : Requests \cup {None}, version : Nat,
            amount : Int, corrects : Nat, key : Keys \cup Calls \cup {None},
            digest : Calls \cup {None}, evidence : Int, expected : Int] :
        /\ i.type = "allocation" => i.amount = Allocation
        /\ i.type = "settlement" => i.amount \in Amounts
        /\ i.type \in OfRequest <=> i.request # None}

(* A ledger entry: what it applied, the commitment it closes, and the      *)
(* balance its receipt states.                                             *)
Entries == [instr : Instructions, related : Nat, available : Nat]

Decisions ==
    [id : Calls, request : Requests, version : Nat, verdict : Verdicts]

TypeOK ==
    /\ versions \in [Requests -> Seq(Amounts)]
    /\ status \in [Requests -> Statuses]
    /\ decisions \subseteq Decisions
    /\ ledger \in Seq(Entries)
    /\ pc \in [Calls -> Steps]
    /\ instr \in [Calls -> Instructions]
    /\ answer \in [Calls -> Answers]

(* What a call asks for; the rest of its instruction is filled in later. *)
Wish(c, type, r, n, target, key) ==
    [type |-> type, request |-> r, version |-> 0, amount |-> n,
     corrects |-> target, key |-> key, digest |-> c, evidence |-> 0,
     expected |-> Allocation]

NoInstruction == Wish(None, "allocation", None, Allocation, 0, None)

Bootstrapped == <<[instr |-> NoInstruction, related |-> 0, available |-> Allocation]>>

Init ==
    /\ versions = [r \in Requests |-> <<>>]
    /\ status = [r \in Requests |-> "none"]
    /\ decisions = {}
    /\ ledger \in (IF Fresh THEN {<<>>} ELSE {}) \cup {Bootstrapped}
    /\ pc = [c \in Calls |-> "idle"]
    /\ instr = [c \in Calls |-> NoInstruction]
    /\ answer = [c \in Calls |-> "none"]

-----------------------------------------------------------------------------
(* What the SQL sees in a ledger.                                          *)

OfType(log, types) == {n \in DOMAIN log : log[n].instr.type \in types}

SumOf(log, entries) == MapThenSumSet(LAMBDA n : log[n].instr.amount, entries)

(* A settlement or a cancellation refers to the commitment it closes. *)
Closed(log, n) ==
    \E t \in OfType(log, {"settlement", "cancellation"}) : log[t].related = n

OpenCommitments(log) == {n \in OfType(log, {"commitment"}) : ~Closed(log, n)}

(* available_minor; available_minor_at is the same for a prefix. *)
Balance(log) ==
    SumOf(log, OfType(log, {"allocation", "adjustment", "correction"}))
        - SumOf(log, OfType(log, {"settlement"}))
        - SumOf(log, OpenCommitments(log))

BalanceAt(n) == Balance(SubSeq(ledger, 1, n))

Current(r) == Len(versions[r])

CommitmentsOf(i) ==
    {n \in OpenCommitments(ledger) :
        ledger[n].instr.request = i.request /\ ledger[n].instr.version = i.version}

Applied(digest) == \E n \in DOMAIN ledger : ledger[n].instr.digest = digest
KeyUsed(key) == \E n \in DOMAIN ledger : ledger[n].instr.key = key

-----------------------------------------------------------------------------
(* validate_mutation                                                       *)

ChangeAllowed(i) ==
    /\ i.type \in {"adjustment", "correction"}
    /\ i.type = "correction" =>
          /\ i.corrects \in OfType(ledger, {"allocation", "adjustment"})
          /\ \A n \in DOMAIN ledger : ledger[n].instr.corrects # i.corrects
    /\ Balance(ledger) + i.amount >= 0

(* Mutants: the decision is not bound to the balance it was made on; the   *)
(* amount of a settlement is not compared.                                 *)
AnyBalance(i) == TRUE
AnyAmount(i, n) == TRUE

Approved(i) ==
    [id |-> i.digest, request |-> i.request, version |-> i.version,
     verdict |-> "approved"] \in decisions

FreshEvidence(i) == i.evidence = Balance(ledger)

WithinCommitment(i, n) == i.amount <= ledger[n].instr.amount

CommitmentAllowed(i) ==
    /\ i.type = "commitment"
    /\ i.version = Current(i.request)
    /\ status[i.request] = "approved"
    /\ i.amount = versions[i.request][i.version]
    /\ Approved(i)
    /\ FreshEvidence(i)
    /\ i.amount <= Balance(ledger)

ClosingAllowed(i) ==
    /\ i.type \in {"settlement", "cancellation"}
    /\ i.version = Current(i.request)
    /\ status[i.request] = "committed"
    /\ \E n \in CommitmentsOf(i) :
          IF i.type = "settlement" THEN WithinCommitment(i, n)
                                   ELSE i.amount = ledger[n].instr.amount

Allowed(i) ==
    IF i.type = "allocation" THEN ledger = <<>>
    ELSE /\ ledger # <<>>
         /\ ChangeAllowed(i) \/ CommitmentAllowed(i) \/ ClosingAllowed(i)

Related(i) ==
    IF i.type \in {"settlement", "cancellation"}
    THEN CHOOSE n \in CommitmentsOf(i) : TRUE ELSE 0

(* available_after *)
After(i) ==
    CASE i.type = "allocation" -> i.amount
      [] i.type = "commitment" -> Balance(ledger) - i.amount
      [] i.type = "settlement" ->
            Balance(ledger) + ledger[Related(i)].instr.amount - i.amount
      [] OTHER -> Balance(ledger) + i.amount

-----------------------------------------------------------------------------
(* Purchase requests: each operation is one transaction.                   *)

CreateRequest(r) ==
    /\ status[r] = "none"
    /\ ledger # <<>>
    /\ \E n \in Amounts : versions' = [versions EXCEPT ![r] = <<n>>]
    /\ status' = [status EXCEPT ![r] = "draft"]
    /\ UNCHANGED <<decisions, ledger, pc, instr, answer>>

(* Any version that is not applied may be replaced, a decided one too. *)
AddRequestVersion(r) ==
    /\ status[r] \in {"draft", "submitted", "approved", "rejected"}
    /\ Current(r) < MaxVersion
    /\ \E n \in Amounts : versions' = [versions EXCEPT ![r] = Append(@, n)]
    /\ status' = [status EXCEPT ![r] = "draft"]
    /\ UNCHANGED <<decisions, ledger, pc, instr, answer>>

SubmitRequest(r) ==
    /\ status[r] = "draft"
    /\ status' = [status EXCEPT ![r] = "submitted"]
    /\ UNCHANGED <<versions, decisions, ledger, pc, instr, answer>>

-----------------------------------------------------------------------------
(* What a call does with its step.                                         *)

Goto(c, step, i) ==
    /\ pc' = [pc EXCEPT ![c] = step]
    /\ instr' = [instr EXCEPT ![c] = i]
    /\ UNCHANGED answer

Answer(c, a) ==
    /\ pc' = [pc EXCEPT ![c] = "done"]
    /\ answer' = [answer EXCEPT ![c] = a]
    /\ UNCHANGED instr

store == <<versions, status, decisions, ledger>>

(* The process dies, or the Core raises on a write of its own evidence,    *)
(* before or after the adapter: the caller learns nothing.                 *)
Lose(c) ==
    /\ pc[c] \notin {"idle", "done"}
    /\ Answer(c, "lost")
    /\ UNCHANGED store

(* The content a replayed key must have again.  A cancellation names no    *)
(* amount.                                                                 *)
SameContent(i, j) ==
    /\ i.type = j.type /\ i.request = j.request /\ i.corrects = j.corrects
    /\ i.type # "cancellation" => i.amount = j.amount

(* _replay: a receipt of the key is verified again instead of executed. *)
Replay(c, i, step) ==
    IF ~KeyUsed(i.key) THEN Goto(c, step, i)
    ELSE \E n \in DOMAIN ledger :
            /\ ledger[n].instr.key = i.key
            /\ IF SameContent(i, ledger[n].instr)
               THEN Goto(c, "verifying", ledger[n].instr)
               ELSE Answer(c, "conflict")

Begins(c, route) == pc[c] = "idle" /\ route \in Routes

Bootstrap(c) ==
    /\ Begins(c, "bootstrap")
    /\ \E key \in Keys :
          Replay(c, Wish(c, "allocation", None, Allocation, 0, key), "assessing")
    /\ UNCHANGED store

Adjust(c) ==
    /\ Begins(c, "adjust")
    /\ \E key \in Keys, n \in Changes :
          Replay(c, Wish(c, "adjustment", None, n, 0, key), "preparing")
    /\ UNCHANGED store

Correct(c) ==
    /\ Begins(c, "correct")
    /\ \E key \in Keys, n \in Changes, target \in DOMAIN ledger :
          Replay(c, Wish(c, "correction", None, n, target, key), "preparing")
    /\ UNCHANGED store

Settle(c) ==
    /\ Begins(c, "settle")
    /\ \E key \in Keys, n \in Amounts, r \in Requests :
          Replay(c, Wish(c, "settlement", r, n, 0, key), "preparing")
    /\ UNCHANGED store

Cancel(c) ==
    /\ Begins(c, "cancel")
    /\ \E key \in Keys, r \in Requests :
          Replay(c, Wish(c, "cancellation", r, 0, 0, key), "preparing")
    /\ UNCHANGED store

(* The request as request_detail shows it: a closing mutation takes the    *)
(* current version from it, and a cancellation the amount of that version. *)
Filled(i) ==
    CASE i.type = "settlement" -> [i EXCEPT !.version = Current(i.request)]
      [] i.type = "cancellation" ->
            [i EXCEPT !.version = Current(i.request),
                      !.amount = versions[i.request][Current(i.request)]]
      [] OTHER -> i

(* Then validate_mutation previews the balance the mutation will leave.    *)
(* The version of a request no longer changes once it is committed, so the *)
(* two reads are one step; a closed period denies anything.                *)
Prepare(c) ==
    /\ pc[c] = "preparing"
    /\ \/ /\ instr[c].request # None => versions[instr[c].request] # <<>>
          /\ LET i == Filled(instr[c]) IN
                /\ Allowed(i)
                /\ Goto(c, "assessing", [i EXCEPT !.expected = After(i)])
       \/ Answer(c, "denied")
    /\ UNCHANGED store

-----------------------------------------------------------------------------
(* decide: the request is read, then the balance, and then the decision is *)
(* saved for the version that is current by then.                          *)

Decide(c) ==
    /\ Begins(c, "decide")
    /\ \E r \in Requests, step \in {"weighing", "rejecting"} :
          /\ versions[r] # <<>>
          /\ Goto(c, step,
                  [Wish(c, "commitment", r, versions[r][Current(r)], 0, c)
                      EXCEPT !.version = Current(r)])
    /\ UNCHANGED store

Weigh(c) ==
    /\ pc[c] = "weighing"
    /\ Goto(c, "approving",
            [instr[c] EXCEPT !.evidence = Balance(ledger),
                             !.expected = Balance(ledger) - instr[c].amount])
    /\ UNCHANGED store

(* Mutant: a decision may be saved over another one. *)
EverSubmitted(r) == status[r] \in {"submitted", "approved", "rejected"}

Decidable(r) == status[r] = "submitted"

SaveDecision(c) ==
    /\ pc[c] \in {"approving", "rejecting"}
    /\ LET r == instr[c].request
           verdict == IF pc[c] = "approving" THEN "approved" ELSE "rejected" IN
       \/ /\ Decidable(r)
          /\ decisions' = decisions \cup
                {[id |-> c, request |-> r, version |-> Current(r), verdict |-> verdict]}
          /\ status' = [status EXCEPT ![r] = verdict]
          /\ Answer(c, "decided")
       \/ /\ Answer(c, "denied")
          /\ UNCHANGED <<decisions, status>>
    /\ UNCHANGED <<versions, ledger>>

(* commit: the stored instruction of the decision of the current version. *)
Commit(c) ==
    /\ Begins(c, "commit")
    /\ \/ \E d \in decisions :
             /\ d.verdict = "approved" /\ d.version = Current(d.request)
             /\ Goto(c, "assessing", instr[d.id])
       \/ Answer(c, "denied")
    /\ UNCHANGED store

-----------------------------------------------------------------------------
(* execute_governed_action with the Budget evaluators and adapter          *)

(* Both evaluators validate; neither reserves anything.  What is allowed   *)
(* when the second one looks goes on to an automatic authorization.        *)
Assess(c) ==
    /\ pc[c] = "assessing"
    /\ \/ /\ Applied(instr[c].digest) \/ Allowed(instr[c])
          /\ Goto(c, "applying", instr[c])
       \/ Answer(c, "blocked")
    /\ UNCHANGED store

(* Mutants: what was assessed is not validated again in the transaction; a *)
(* key that another instruction used is accepted.                          *)
AssessedBefore(i) == ~Applied(i.digest)
AllowedAnyKey(i) == ~Applied(i.digest) /\ Allowed(i)

MayApply(i) == ~Applied(i.digest) /\ ~KeyUsed(i.key) /\ Allowed(i)

NewStatus(i) ==
    CASE i.type = "commitment" -> [status EXCEPT ![i.request] = "committed"]
      [] i.type = "settlement" -> [status EXCEPT ![i.request] = "settled"]
      [] i.type = "cancellation" -> [status EXCEPT ![i.request] = "cancelled"]
      [] OTHER -> status

NewEntry(i) == [instr |-> i, related |-> Related(i), available |-> After(i)]

(* The entry, the transition and the receipt, or nothing: the balance is   *)
(* recomputed from the entries, and a difference rolls all of it back.     *)
Write(i) ==
    /\ MayApply(i)
    /\ ledger' = Append(ledger, NewEntry(i))
    /\ Balance(ledger') = After(i)
    /\ status' = NewStatus(i)
    /\ UNCHANGED <<versions, decisions>>

(* apply_mutation returns a receipt: a new one, the one of an instruction  *)
(* that was applied before, or the one found after an ambiguous COMMIT.    *)
Apply(c) ==
    /\ pc[c] = "applying"
    /\ \/ Write(instr[c])
       \/ Applied(instr[c].digest) /\ UNCHANGED store
    /\ Goto(c, "verifying", instr[c])

(* It is refused, the database is busy, or the Core's gate stops it. *)
Refuse(c) ==
    /\ pc[c] = "applying"
    /\ Goto(c, "reporting", instr[c])
    /\ UNCHANGED store

(* COMMIT raises after it took effect, and the look for the receipt raises *)
(* too: the adapter reports a failure of what is in the ledger.            *)
ApplyUnseen(c) ==
    /\ pc[c] = "applying"
    /\ Write(instr[c])
    /\ Goto(c, "reporting", instr[c])

(* Mutant: the service believes the adapter's report of a failure. *)
NothingApplied(digest) == FALSE

FoundReceipt(digest) == Applied(digest)

(* A failure is classified by the receipt the service finds, or does not.  *)
Report(c) ==
    /\ pc[c] = "reporting"
    /\ \/ Answer(c, IF FoundReceipt(instr[c].digest) THEN "unverified" ELSE "no_effect")
       \/ Answer(c, "unknown")
    /\ UNCHANGED store

(* Mutant: the observer compares with the balance of now. *)
BalanceNow(n) == Balance(ledger)

(* The observer compares the receipt, and the balance recomputed up to the *)
(* receipt's time, with what the instruction expected.                     *)
Observed(n) == Balance(SubSeq(ledger, 1, n))

Verify(c) ==
    /\ pc[c] = "verifying"
    /\ \/ \E n \in DOMAIN ledger :
             /\ ledger[n].instr.digest = instr[c].digest
             /\ LET expected == instr[c].expected IN
                Answer(c, IF /\ ledger[n].available = expected
                             /\ Observed(n) = expected
                          THEN "verified" ELSE "mismatch")
       \/ Answer(c, "unknown")
    /\ UNCHANGED store

(* reconcile: an operator asks for the receipt of an instruction that the  *)
(* Core was given, whatever became of the call.                            *)
Reconcile(c) ==
    /\ Begins(c, "reconcile")
    /\ \E b \in Calls \ {c} :
          /\ pc[b] \in {"applying", "reporting", "verifying", "done"}
          /\ instr[b].digest # None
          /\ IF Applied(instr[b].digest) THEN Goto(c, "verifying", instr[b])
             ELSE /\ pc' = [pc EXCEPT ![c] = "done"]
                  /\ answer' = [answer EXCEPT ![c] = "absent"]
                  /\ instr' = [instr EXCEPT ![c] = instr[b]]
    /\ UNCHANGED store

(* Nobody has to call anything. *)
Quiet ==
    /\ \A c \in Calls : pc[c] \in {"idle", "done"}
    /\ UNCHANGED vars

-----------------------------------------------------------------------------

Requesting(r) == CreateRequest(r) \/ AddRequestVersion(r) \/ SubmitRequest(r)

Opening(c) == \/ Bootstrap(c) \/ Adjust(c) \/ Correct(c) \/ Settle(c) \/ Cancel(c)
              \/ Prepare(c)

Deciding(c) == Decide(c) \/ Weigh(c) \/ SaveDecision(c) \/ Commit(c)

Executing(c) == \/ Assess(c) \/ Apply(c) \/ Refuse(c) \/ ApplyUnseen(c)
                \/ Report(c) \/ Verify(c) \/ Reconcile(c) \/ Lose(c)

Next ==
    \/ \E r \in Requests : Requesting(r)
    \/ \E c \in Calls : Opening(c) \/ Deciding(c) \/ Executing(c)
    \/ Quiet

Spec == Init /\ [][Next]_vars

-----------------------------------------------------------------------------
(* Safety                                                                  *)

(* Concurrent mutations cannot make the available funds negative: not now  *)
(* and not at any entry of the history (apply_mutation, available_minor).  *)
NeverOverdrawn == \A n \in DOMAIN ledger : BalanceAt(n) >= 0

(* One instruction has at most one effect, and so has one idempotency key, *)
(* however the calls that carry it race or are repeated (apply_mutation).  *)
OneEffect ==
    \A m, n \in DOMAIN ledger :
        m # n => /\ ledger[m].instr.digest # ledger[n].instr.digest
                 /\ ledger[m].instr.key # ledger[n].instr.key

EntriesOf(r, types) ==
    {n \in OfType(ledger, types) : ledger[n].instr.request = r}

(* A request is committed at most once and its commitment closed at most   *)
(* once, for no more than was committed, and the status of the request     *)
(* tells which of these entries the ledger has (_transition).              *)
PurchaseIsClosedOnce ==
    \A r \in Requests :
        LET opened == EntriesOf(r, {"commitment"})
            closed == EntriesOf(r, {"settlement", "cancellation"}) IN
        /\ opened # {} <=> status[r] \in {"committed", "settled", "cancelled"}
        /\ closed # {} <=> status[r] \in {"settled", "cancelled"}
        /\ \A m, n \in opened : m = n
        /\ \A m, n \in closed : m = n
        /\ \A n \in closed :
              /\ ledger[n].related \in opened
              /\ ledger[n].instr.amount <= ledger[ledger[n].related].instr.amount

(* A commitment carries out the decision it names: the version that was    *)
(* approved, for its amount, on the balance that the owner decided on      *)
(* (validate_mutation).                                                    *)
CommitmentIsAsDecided ==
    \A n \in OfType(ledger, {"commitment"}) :
        LET i == ledger[n].instr IN
        /\ [id |-> i.digest, request |-> i.request, version |-> i.version,
            verdict |-> "approved"] \in decisions
        /\ i.version = Current(i.request)
        /\ i.amount = versions[i.request][i.version]
        /\ i.evidence = BalanceAt(n - 1)

(* A version is decided at most once, also by owners' calls that race      *)
(* (save_decision).                                                        *)
OneDecisionPerVersion ==
    \A d, e \in decisions :
        d.request = e.request /\ d.version = e.version => d = e

(* What a call is told of the money is true: an effect it was told of is   *)
(* in the ledger, and one it was told did not happen is not (_execute).    *)
AnswersAreTrue ==
    \A c \in Calls :
        /\ answer[c] \in {"verified", "mismatch", "unverified"}
              => Applied(instr[c].digest)
        /\ answer[c] \in {"denied", "conflict", "blocked", "no_effect"}
              => ~Applied(c) \/ \E d \in decisions : d.id = c

(* A commitment is never reported as a mismatch, however late it is        *)
(* verified or reconciled: it was applied on the balance it was decided on *)
(* (BudgetObserver.verify).                                                *)
CommitmentsVerify ==
    \A c \in Calls : answer[c] = "mismatch" => instr[c].type # "commitment"

(* A decision is for the version that its owner was shown.                 *)
DecidedAsShown == \A d \in decisions : d.version = instr[d.id].version

(* What reconcile reports as absent is not applied afterwards.             *)
AbsenceIsFinal ==
    \A c \in Calls : answer[c] = "absent" => ~Applied(instr[c].digest)

-----------------------------------------------------------------------------
(* Refinement: the balance is the free money, an open commitment what its  *)
(* request holds.                                                          *)

StateOf(r) ==
    CASE status[r] = "committed" -> "held"
      [] status[r] = "settled" -> "spent"
      [] status[r] = "cancelled" -> "released"
      [] OTHER -> "open"

HeldBy(r) == IF status[r] = "committed" THEN versions[r][Current(r)] ELSE 0

Fund == INSTANCE SpendingFund WITH
    Purchases <- Requests,
    free <- IF ledger = <<>> THEN 0 ELSE ledger[Len(ledger)].available,
    state <- [r \in Requests |-> StateOf(r)],
    held <- [r \in Requests |-> HeldBy(r)]

(* Every step of Budget Control is a step of the fund, or moves no money.  *)
ImplementsFund == Fund!Spec
=============================================================================
