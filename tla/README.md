# A formal model of the RMT platform

This directory is a TLA+ model of the backend in
`src/projects/homelab-control-center/backend/app` (paths below are relative to
it): the governed action lifecycle that every consequential action passes
through, the components above it that propose actions, spend money, grant
authority and remediate a homelab, and the services that keep, verify and watch
what was done. `PROJECT.json` lists every component, run,
mutant, mapped definition, hazard and theorem; this file explains them.

Contents: [the system](#the-system) · [inventory](#inventory) ·
[modules](#modules-and-the-code) · [runs](#what-the-runs-check) ·
[bounds](#bounds) · [fairness](#fairness) · [proofs](#what-is-proved) ·
[model-checked only](#what-is-only-model-checked) ·
[disagreements](#where-code-and-documentation-disagree) ·
[not modelled](#what-is-not-modelled) · [plan](#plan)

## The system

One FastAPI process. Routes declared `def` run in worker threads of one process
and interleave freely; routes declared `async def`, the collector and the
homelab loop run on the event loop and interleave only at an `await`. State is
kept in three ways, and most of the difficulty lies between them:

* `DurableStore` (`core/intelligence/durable_store.py`): a list in memory in
  front of one SQLite table. Memory is changed first, then the row is written;
  a failed write raises in the caller and leaves the change in memory. A
  restart reads the rows back, and the startup moves what is old to append-only
  archive files.
* `budget.db` (`budget/repository.py`): no cache, one `BEGIN IMMEDIATE`
  transaction per operation, a new connection each time.
* Dictionaries and dataclasses in memory (the loop's state, the provenance of
  agents' holds): gone after a restart.

The path of an action: a proposer (`POST /execute`, an agent, the loop, a
`/budget` route) calls `execute_governed_action`. Policy and risk evaluators
deny it, approve it, or hold it for a human. `POST /approve` or
`/homelab/approve` resolves a hold under one lock shared by both routes,
mints an authorization and hands it to the execution engine, which checks it,
calls the adapter and stores audit, trace and verification. At startup a
reconcile corrects holds from their records and audits the authorizations.

    agent/adapter ──┐                                  ┌─ Docker, simulation
    homelab loop ───┼─> actions/service ──hold──┐      │
    POST /execute ──┤        │ auto             v      │
    budget/service ─┘        │      /approve -> actions/approval_service
                             v                  │ lock │
                        authorization <─────────┘      │
                             └──> execution/engine ────┼─> adapter
                                    audit, trace,      │
                                    verification       └─ budget/adapter ─> budget.db
    startup: ops/reconcile over holds, records, authorizations

## Inventory

| Component | State | Operations | What is hard | What makes it correct |
|---|---|---|---|---|
| Governed lifecycle (`core/intelligence/actions`) | holds, records, authorizations; memory and disk | propose, hold, approve, reject, expire, mint | racing approvals; status of a resolved hold is in memory only; writes that fail half way | one authorization per action; a rejection or expiry is final |
| Execution engine (`core/intelligence/execution`) | audit, trace, verification stores | gate, invoke, record | crash between the adapter and its evidence; expiry between mint and gate; adapter gone after a restart | no adapter call without a stored authorization; evidence before the answer |
| Startup reconcile (`ops/reconcile.py`) | none of its own | correct holds, audit authorizations | a failed write ends it, fail-open | no resolved hold is revived; the audit is clean |
| Budget Control (`budget`) | requests with versions, decisions, ledger, receipts | draft, submit, decide, commit, settle, cancel, adjust, correct, reconcile | preview, assessment and transaction are apart; retries by idempotency key; lost answers | never overdrawn; one effect per instruction; what was decided is what is committed |
| Homelab loop (`homelab/operational_loop.py`) | per-component state in memory; its holds are durable | cycle, guard, cooldown, quarantine, recovery, start, stop, clear | state forgotten by a restart, holds that are not; routes that write the same state; raising attempts | one open hold at a time; flap guard; what stays down is reported, what recovers is released |
| Agent authority (`agent`) | grants (durable) | grant, check, consume, propose | check and consume are apart; failed write of the consumption | a used grant authorizes nothing later; denied proposals consume nothing |
| Separation of duties (`ops/separation.py`) | provenance in memory | record, check | recorded after the hold exists, and fail-open; lost by a restart | neither grantor nor agent approves an agent's hold whose provenance is there |
| Coding agent holds (`coding_agent`) | holds of commands, memory and table | propose, recommend, decide, poll | two operators decide one hold; the hook obeys a decision before its row; the hook gives up; a row that fails | a recommended approval was earned by a person's; the record shows what ran |
| Execution verification (`ops/verification`, `core/intelligence/verification`) | verification records, an index in memory | verify, settle, index, alert, rebuild | callers that verify what failed; an index rebuilt from what retention left | verified means observed; live and rebuilt rows agree; one alert |
| Evidence, retention, backup, restore, migration (`durable_store.py`, `ops/retention.py`, `ops/evidence_chain.py`, `scripts`) | tables, archives, backups, JSON files | save, archive, replace, back up, restore, migrate, look up | a process or disk that ends between append and replace; scripts of other processes | nothing committed is lost; a backup lacks only what it failed to copy; recent evidence is found by every id |
| Module evolution, registry, self-management (`core/evolution`, `core/module_registry`, `core/self_management`) | a registry file | assess, govern, apply, register, restart | read, check, write without a lock; a held change goes on with an old assessment | held changes lose no registration; no change takes a name its assessment could see |
| Health (`core/intelligence/rules.py`, `service.py`, `core/observability`, `collector.py`) | metrics and memory in a database | read, record, evaluate, advise, report | rows that age while a container is gone; a mean that could mask | healthy means lately running; a failure is not masked |
| Rate limit, authentication (`ops`) | windows in memory | admit, compare | boundary of the window; bounded number of clients | the limit per window |
| Action policy, assessment (`core/intelligence/actions`) | none | scores, verdicts, texts | thresholds | a table of verdicts |
| Reasoning, engineering, frontend, other scripts, tools | reads and displays | — | — | — |

The hazards of each component, with the line where each bites and the
properties that would show it going wrong, are in `PROJECT.json`.

## Modules and the code

| Module | Role |
|---|---|
| `OneShotDecision` | abstract: an action is decided once and an approved one runs once |
| `GovernedApproval` | the lifecycle, the engine and the startup; implements `OneShotDecision` |
| `SpendingFund` | abstract: money is free, held by a purchase, spent or released |
| `BudgetLedger` | Budget Control; implements `SpendingFund` |
| `HomelabLoop` | the supervised remediation loop and what changes under it |
| `AgentAuthority` | grants, proposals, provenance and the approval routes' separation check |
| `EvidenceStores` | six stores with archives, and the scripts that back up, restore and migrate them |
| `VerificationIndex` | what is recorded, indexed and alerted of an execution |
| `CommandHolds` | held shell commands of a coding agent |
| `ModuleRegistry` | the registry file, evolution and self-management |
| `PlatformHealth` | the collector, the evaluation of its rows and the platform's health |
| `…Proofs` | theorems about the module of that name |
| `MC…` | the finite instances: symmetry, amounts and sets of routes |
| `MCServices` | the last four but the stores as one system of which each behavior uses one part |

### GovernedApproval

A thread serves one request, so an action names the thread that proposes it and
a member of `Requests` is a call of an approval route; each action of the
module is what a thread does between two writes to a store (`pc`). Approval
ids, authorization ids and execution ids are fresh uuids, so a hold is named by
its action, an authorization and an execution by their thread. `holdMem`,
`holdDisk`, `recMem`, `recDisk` are the two copies of the two stores that can
differ; the append-only stores have one durable copy. `Restart` kills every
thread and reads the copies back; `ReconcileHold`, `ReconcileFails` and
`FinishStartup` are the startup. `EarlyIds` says whether an approver may take an
id from `GET /ops/holds`, which lists a hold before its record is saved;
`ReconcileMayFail` whether a write may end the reconcile.
The engine's comparison of the fields of action, hold and authorization is left
out: one thread made them all from one hold.

### BudgetLedger

A call of a `/budget` route is a thread with several transactions: it looks for
a receipt of its key, prepares its instruction (with the preview), has it
assessed (`Assess` stands for policy and risk together), and applies it in one
transaction that validates again. There is one organization with one budget, an
owner and a requester. An entry and its receipt are written together and are
one record; `created_at` is taken inside the transaction, so it is the entry's
position. A call's id stands for the action id that makes its digest unique, and
for the id of the decision it saves. A closed period, a missing role or a busy
database is a nondeterministic denial. `Lose(c)` is a crash, or an exception of
the Core, after which the call is not answered; what it applied stays.
`MayApply` also stands for the UNIQUE constraints of the tables.

### HomelabLoop

Times are ages and times left in one unit, capped where the code no longer
tells them apart, so behaviours go on for ever and liveness can be checked. A
cycle takes less than a unit, and one that is due starts within it; the
collector's pass ends a unit (both run on the event loop). Between the guards
(`BeginAttempt`) and the end of an attempt other threads may decide, save or
clear. `world` is what the Docker daemon would answer: a container that is
`gone` was removed, or the daemon does not answer. What an approved remediation
does to a container is a `Change`. `SaveHold` may be followed by an exception
(`AttemptRaises`); `stored`, `recorded` and `answered` say which of memory, hold
row and record know of a resolution, which is what decides a hold's fate at a
`Restart`. The list of attempt times that the flap guard prunes and counts is
here the set of their ages, `attempts`. No two attempts have one age, because a
cycle that is not quarantined attempts only after the cooldown: `LoopInv` below
has that at an attempt no earlier one is of age 0, so the set counts what the
list counts. `Init` and `Restart` start the loop (`RMT_HOMELAB_LOOP_ENABLED`).
The branch of an `executed` remediation is left out: every entry of
`REMEDIATION_POLICY` requires approval and no observed state reaches the
confidence of an automatic one.

`CadenceAssumption` states what the defaults satisfy and the code never checks:
interval × (streak + 1) ≥ cooldown, since releasing a quarantine forgets the
cooldown, and the attempts that fill the flap window fit in it. Both sides are
environment variables. With other values attempts may come closer than a
cooldown, or quarantine may never be reached.

### AgentAuthority

`grants` and `disk` are the grant store's two copies; `MarkConsumed` may reach
only the first. A proposal is checked, governed (denied, held, executed, or the
Core raises, with its hold saved or not), consumed, recorded and answered, each
a step of its own; the last may be an exception of `record_learning`. What the
Core had done when it raised, a hold saved or an action executed, stays.
`record_hold_provenance` is fail-open: with `RecordingFails` it may swallow an
exception (of `_prune`, when another thread changes the dictionary it goes
through), and the hold is answered without provenance (`unrecorded`). An
approval checks the separation before it takes the lock; with `EarlyIds` its
hold's id may come from `GET /ops/holds` before the proposal has come to its
recording, and `early` are the holds for which the check let someone through
that soon. `Unguarded` are these two and the holds of earlier process lives;
`SeparatedThisLife` is about all others. The cascade guard only
decides whether a proposal is held, and is part of that choice. A hold's
continuation is one step here, and a restart revives no approved hold: both are
`GovernedApproval`'s subject, where they are shown. The age after which
provenance is ignored (3600 s) is longer than a hold lives (300 s) and is left
out.

### EvidenceStores

A record is an action with the store it is in (`Records`); the six stores are
numbered in the order in which an action writes them (`Written`) and in the one
in which retention goes through them (`Retained`); `todo` are the stores that a
pass has not left, and `Passing(k)` says which of them it is at. `mem` and `db`
are list and table, `archive` what can be read from the archives, `torn` the
archives that end within a line and `bad` those with a line that nobody can
parse. `Archive(k)` is the append with
its fsync, `Replace(k)` the rewrite of the table; `AppendFails` and `Kill` may
leave a part of the lines, with `TornLines` also a part of one. A backup is a
snapshot of the database followed by a copy of the archives and a manifest
(`Snapshot`, `CopyArchives`, `Seal`): the script has `sqlite3`; without it the
script copies the database file, which is not modelled. The script ignores the
status of each `cp`: the copies of any set of archives may fail, of which the
backup then has no file, or one with some of the lines and perhaps a cut one
(`copies`, `failed`), and it is sealed all the same. `MoveAside`, `RestoreDb`,
`RestoreArchive` are the restore. `MoveAside` moves the database with its `-wal`
and `-shm` files in one step: what an end between these three leaves depends on
what SQLite makes of a log without its database. `Migrate`, `Insert` and
`Rename` are the migration of the JSON files of older versions, without
`--force` and without the way back. Restore and migration run while the service
is down, as the scripts demand. `ByAction`, `ByApproval` and `ByExecution` are
`ops/evidence_chain.py`: which records an identifier leads to.

### VerificationIndex

An execution is followed from the engine's answer: the Core's verification
(`CoreVerify`), the one above it after its settle window (`Verify`), the index,
the alert and `mark_notified` (`Index`), and the evidence of a failed adapter
(`RecordFailed`). What an observer sees is a choice. `Routes` names the callers,
because they differ. `Ungated` is `POST /homelab/approve`, which verifies
without a look at `result.success`. `POST /homelab/remediate` has the same
code, but every entry of `REMEDIATION_POLICY` requires approval, so a
remediation is held and never executed there, and it is not among the routes.
The simulation adapter always succeeds (`AdaptersOf`).
`Restart` lets retention remove audit records and verification records, the
Core's before the one above, and rebuilds the index silently.

### CommandHolds, ModuleRegistry, PlatformHealth

`CommandHolds`: a hook proposes a command; one that matches a risk rule is held
with three pieces of evidence and a verdict. `FindPending`, `Decide`
and `SaveDecision` are the decide route, which runs in several threads: the look
at the hold, the list and the row, the last two under the store's lock
(`saving`). The hook polls without that lock,
and lets the command run when it is not answered (`FailOpen`), as its
documentation says.

`ModuleRegistry`: `modules.json` is read as a whole and written as a whole;
`Open` empties it (`Emptied`), which is what is left when the process ends
there, and two writes at once may leave a text that cannot be parsed (`Torn`).
The service keeps two changes apart by nothing, and nor does the model: a change
that is not held is assessed, executed, read and written alongside any other.
Only those that were held go on one by one, under the lock of the approval
routes (`approving`). `missed[c]` are the changes that were written after `c`
had read the list, `overtaken[c]` those written after `c` was assessed.

`PlatformHealth`: a reading is on its way to its row for up to `Delay`, and a
poller of `GET /intelligence/health` takes all latest rows at once, then
evaluates, remembers and advises component by component. `Platform` adds the
credits status by status, which is the sum the code makes component by component.
What the rules do was modelled as it is: `analyze_component_history` counts
healthy evaluations too, so a component is "recurring" after two polls, and a row
that says running is evaluated healthy whatever the container's own health check
says.

## What the runs check

| Run | Shows |
|---|---|
| `approval_safety` | `OneAuthorization`, `InvokedOnlyIfApproved`, `RejectionIsFinal`, `ExpiryIsFinal`, `StartupAuditClean`, `EvidenceBeforeAnswer`, and that the Core implements `OneShotDecision`, when ids come from answers and the reconcile completes |
| `approval_hostile` | early ids and a reconcile that fails: one authorization per process life still, and every waiting approval is answered |
| `budget_safety` | all routes on a new or an old database: decisions, commitments and their closing by racing calls, one effect per instruction and key, the truth of answers, never overdrawn |
| `budget_purchases` | two purchases compete for the money: Budget Control implements `SpendingFund` |
| `loop_safety` | `OneHoldOfTheLoop`, `FlapGuard`, `CooldownKept`, and under fairness `DownIsReported` and `RecoveredIsReleased` |
| `agent_safety` | `UsedIsSpent`, `ConsumedIsAccepted`, and `SeparatedThisLife` with early ids and recordings that fail |
| `evidence_safety` | `NothingLost` through retention, restore and migration, `RecentIsFound`, and, although copies may fail, `BackupComplete` (only what failed is missing) and `RestoreBringsBack` (only copies that were cut bring back less) |
| `services` | verification: `VerifiedWasObserved`, `LiveAgrees`, `AlertedOnce`; commands: `ApproveIsEarned`, `RecordShowsWhatRan`; registry: `RegistrationsKept`, `DuplicateWasOvertaken`; health: `HealthyWasRunning`, `FailureIsNotMasked` |
| `budget_decision_race`, `separation_lost`, `torn_archive`, `failed_verified` | counterexamples, below |

Every property of a passing run has a mutant in `PROJECT.json`: a change of one
mapped definition of the kind a bug would be (a lock not taken, a recheck
dropped, a record not amended, provenance swapped) under which TLC finds the
property violated. Mutated forms stand in the modules next to what they mutate,
marked `Mutant:`.

## Bounds

* Approvals: one action and two approvals with either verdict are the smallest
  instance with a race on a hold; two restarts let a status be forgotten twice;
  one failed write is enough to separate memory from disk at every step; the
  clock runs past both TTLs. Proofs remove these bounds.
* Budget: in `budget_safety` three calls, each of any of the eight routes, share
  one request of two versions and one key, which is enough to decide, replace
  and commit between each other's steps, and to retry; the database may be new
  or bootstrapped. In `budget_purchases` four calls on two purchases that may
  each need all of the money. An allocation of 2 with amounts 1 and 2 has both
  the case where two fit and the case where one excludes the other.
* Loop: one component, since the loop's state and its holds are kept per
  component and a cycle only passes from one to the next (the proof is for
  any policy). Interval 1, cooldown 3, window 4, two attempts, streak 2: the
  smallest values in the proportion of the defaults for which cooldown, window
  and streak are all told apart. TTL 2 < cooldown lets a hold lapse before the
  next attempt. Two hold ids: the loop's and a route's, or a duplicate; one that
  lapsed is used again. `HoldIds` also keeps the route from saving a third.
* Agents: two operators, one of whom has the name of the agent; two grants, two
  scopes, two proposals, one approval, one restart. A hold is approved once and
  what an approval compared does not change, so a second approval adds nothing
  to the separation.
* Evidence: three of the six stores, approval records, audit and verifications:
  one that a hold writes early and two that its continuation writes, one of which
  names the execution only; retention takes them in another order than they are
  written, and in different passes. One action of an older version
  whose JSON files may be migrated; a window of 1 in a clock of 2; one end of a
  process and one failure, of a write or of the copies of any archives, each at
  any step. The proof is for all.
* Services: two executions of the three kinds of callers that verify only what
  succeeded, two restarts; two commands under a rule of high and one of low risk,
  with two deciding threads, a restart and a failed write; three changes of two names, so
  that one name is asked for twice, of which any may be held; three containers, of which one may change.
  The last is the platform's own number of observed containers in the default
  deployment: with four, one failed container among healthy ones gives a mean of
  85, which the code reports healthy.

`CHECK_DEADLOCK FALSE` stands only in the runs of `AgentAuthority`,
`EvidenceStores`, `MCServices` and `VerificationIndex`, whose work ends. `GovernedApproval` and `BudgetLedger` have an explicit `Quiet` step
that is possible only when every call has its answer, so that a call stuck in
the middle is reported as a deadlock; time never stops in `HomelabLoop`.

## Fairness

* `GovernedApproval!FairSpec`: weak fairness of each thread's steps, of the
  recording of a hold and of the startup. Threads are scheduled, a store answers
  or raises, an adapter call returns (the Docker client has a timeout). The
  lock is not fair and need not be: `Approval(r)` includes `Acquire(r)`, whose
  competitors are finitely many. Nobody is assumed to propose, approve or crash.
* `HomelabLoop!FairSpec`: weak fairness of `LoopStep` (the event loop runs what
  is ready) and of `Tick` (time passes). Nothing is assumed of operators, of
  the world or of writes.

Safety and refinement are checked and proved without fairness.

## What is proved

TLAPS checks every theorem for all values of the constants; only the named
assumptions on constants are used.

**GovernedApproval** (`GovernedApprovalProofs`). `LifeInv` needs nothing and
gives `AtMostOncePerLife` and `EvidenceFirst`: a request past `Acquire` holds
the lock, whoever is between reading a hold and minting is alone on its action,
and the hold of what was authorized in this life reads resolved in memory.
`StoreInv` adds what survives a restart, under `Orderly` (ids come from
answers, the reconcile completes): an authorization's record reads approved on
disk, a resolved hold whose status was forgotten is corrected before the
process serves, a decided record is never undecided again. It gives
`AtMostOnce`, `OnlyApproved`, `RejectionStays`, `ExpiryStays`,
`AuditFindsNothing`, `RecordIsAuthoritative`, and `Refinement`: every step is a
step of `OneShotDecision` under the mapping "decision = durable record, runs =
threads at the adapter", or a stutter.

**BudgetLedger** (`BudgetLedgerProofs`). `LedgerInv` relates ledger, receipts,
statuses and decisions. A balance is a sum over the ledger, and induction over
sequences is out of this prover's reach; the proof does without, because the
transaction recomputes the balance and rolls back when it is not what the
entry states. Hence `Solvent`, `AppliedOnce`, `ClosedOnce`, `AsDecided`,
`DecidedOnce` and the refinement `Implements`. `CallsInv` adds what each call
carries: an instruction of its own, one that was decided, or the copy of one whose
call no longer changes it; a commitment expects the balance it was weighed on
less its amount, and its entry states that balance; whoever was told that it
took effect finds it applied. Entries are never changed or removed, so no other
call undoes any of this (`OthersKept`). It gives `TrueAnswers` and
`CommitmentsAreVerified`.

**HomelabLoop** (`HomelabLoopProofs`). `OneHold`: `NoneAtAttempt` says that at
an attempt no hold of the loop is open, which the guard establishes and no
other thread can end, since only the loop makes holds of the loop; it rests on
`AnsweredFirst`, that a store or record which shows a hold resolved was written
by an operator's decision, so that the guard's reading of either is no mistake.
`LoopInv` is about time. The newest attempt has the whole cooldown left and an
unquarantined component fewer recent attempts than the threshold (`Counted`).
Since the last attempt either its age and the cooldown that is left make a
cooldown, or a quarantine was released, whose healthy checks are an interval
apart each (`Apart`): the release forgets the cooldown, and `CadenceAssumption`
says that these checks and the wait for the next cycle are as long. Hence an
attempt is due (`AttemptIsDue`), and `TypeCorrect`, `FlapGuarded` and
`CooldownIsKept`.

**AgentAuthority** (`AgentAuthorityProofs`). `AgentInv` needs nothing: ids are
drawn once, what is used reads consumed wherever it is kept, behind what reads
consumed is a proposal that the Core accepted and whose answer is not "error".
It gives `TypeCorrect`, `UsedStaysSpent` and `ConsumptionIsAccepted`. `LifeInv`
adds, for holds that are not `Unguarded`, that one whose proposal has passed the
recording has its provenance, that an approval past the check has another
operator, and that what it compared cannot change in this process life:
`SeparationThisLife`, wherever ids come from and whether or not recordings fail.

**EvidenceStores** (`EvidenceStoresProofs`). `StoresInv` needs nothing: every
place holds records that were written once and in the order of an action, what
is archived is old, and the running service has in its lists what is in the
tables and not old; what a backup has still to copy is in the live files, since
an archive only grows between its two copies, and what it has not copied is of a
store whose copy failed; a restore has an empty place for
its database and has done the archives it has left behind. It gives
`BackupsAreComplete` and `RestoresBringBack`, torn lines or not, each with its
exception (a store whose copy failed; an archive whose copy was cut, while one
without a copy stays as it is), and, when
`audit` and one of the stores of the governed records are among the stores
(`Resolvable`; the service has all six), `RecentEvidenceIsFound`. `KeptInv` is
under `~TornLines`, that an append reaches the disk in whole lines: rows are
replaced only when their lines are in the archive and a row in no list is in an
archive, which gives `EvidenceIsKept`. That hypothesis is needed: the run
`torn_archive` shows what happens without it. `TypeCorrect` is inductive by
itself, and `StoresInv` uses it.

**VerificationIndex** (`VerificationIndexProofs`). Under `Gated`, that no caller
is `Ungated`: how far a thread is tells which records and which row there can
be, a record that says verified was observed, and a restart leaves fewer records
and the rows of those. This gives `VerifiedIsObserved`, `RowsAgree`,
`AlertsOnce`, `FailuresDistinguished` and the types. The run `failed_verified`
shows what the ungated caller does.

**CommandHolds** (`ServicesProofs`). For a finite set of commands: a hold is
made once, its row is the hold as it was at some time and differs from the list
in a decision that is not yet, or never was, saved (`Rowed`), and only an
operator moves a status, whatever writes fail. Hence `ApprovalsAreEarned` and,
for the holds whose decision was saved and of which operators agreed,
`RecordsShowWhatRan`.

**PlatformHealth** (`ServicesProofs`). For any containers, threads, threshold and
delay: a reading on its way that says "running" is not ahead of the time until
which its container ran, and a row, stored or taken by a thread, at most by
`Delay` (`ReadLately`, `RowsLate`). A row that is evaluated healthy is not older
than the threshold, hence `HealthyRanLately`. `NoFailureMasked` is about the
mean: its sum is taken apart into the four shares, whose cardinalities add up to
the components that were evaluated, and for one to three of these 85 cannot be
reached with one that failed. `FewContainers` states that bound, which is the
number the collector lists; with four the theorem is false. `HealthTypeCorrect`
adds that no time is ahead of the clock.

**ModuleRegistry** (`ModuleRegistryProofs`). Nothing is assumed about who runs
when. `Files`: a module that was written is in a readable file unless a writer
had read before it was there, and whoever was assessed has seen, or was
overtaken by, every module in the file or in a list that was read. `Locks`: two
changes that were held are not under way at once, so neither has missed the
other. This gives `LostOnlyOutsideTheLock`, `DuplicatesWereOvertaken` and
`ModuleTypeCorrect`.

## What is only model-checked

* Liveness (`EveryRequestAnswered`, `DownIsReported`, `RecoveredIsReleased`):
  fairness and ENABLED are beyond the prover.
* The absence of deadlocks, in the runs that look for them.

Every safety property, action property and refinement of a passing run is stated
by a theorem. Where one has a hypothesis on constants (`Orderly`,
`~TornLines`, `Gated`, `Resolvable`, `FewContainers`) the run uses constants that satisfy it.

## Where code and documentation disagree

With a run whose counterexample shows it:

* `budget_decision_race`: a decision route reads the request before it asks the
  policy; a version submitted in between is the one that is decided.
* `separation_lost`: after a restart within the hold's TTL the operator who
  granted may approve the agent's hold.
* `torn_archive`: an append that ended within a line makes the next record that
  is archived unreadable, and its row is deleted.
* `failed_verified`: `POST /homelab/approve` verifies a held action that it
  continued with the docker or the git adapter and whose adapter failed; the
  state that is observed may then make the row say verified, and no evidence of
  the failure is written.

Three more are stated in the modules and violated by the model; no run of
`PROJECT.json` repeats them:

* `GovernedApproval!ResolutionIsRecorded`: `execute_governed_action` saves the
  hold before its record (`actions/service.py:136-150`) and `GET /ops/holds`
  lists it at once; resolving it in between leaves a record that never shows the
  decision, where `ops/reconcile.py:12` says that the record is "reliably updated on
  resolution".
  One action, one request, `EarlyIds` TRUE and every TTL, time, crash and fault
  bound 0 show it.
* `BudgetLedger!AbsenceIsFinal`: reconcile reports an instruction absent that a
  call still on its way to the adapter applies afterwards
  (`budget/service.py:300`). Three calls of decide, commit and reconcile on one
  request with two keys show it.
* `EvidenceStores!ArchivesAreCaptured`: the copy of an archive fails, the script
  throws away the status (`scripts/rmt-evidence-backup.sh:48`) and seals, with
  manifest, checksums and "OK", a backup without what only the archive had, where
  `docs/operations/CONFIG.md:150` says of archived rows that "E5 backup captures
  them". The constants of `evidence_safety` show it, and `BackupComplete` is what
  remains true.

Met while modelling, without a run:

* The loop evaluates the newest stored metric, not the container: a component
  that recovered since the last collection is proposed for a restart, where
  `homelab/remediation.py` says that a healthy target produces no action and
  `homelab/loop_config.py` that the interval gives every cycle fresh
  observations. A removed container with an old metric `running` counts as
  healthy until the metric is stale.
* Recovery from quarantine looks at the state `running` only, the evaluation
  also at the container's health.
* "Single-use" of a grant holds for proposals that come one after the other.
  Two that pass the check together are both accepted: the `False` of the second
  `consume()` is ignored.
* When the write that consumes a grant fails, the proposal ends in an exception
  with its hold saved and without provenance, and after a restart the grant is
  unconsumed. `UsedIsSpent` is about grants that `consume()` reported.
* `AlertedOnce` is about one process life that does not end between the update of
  the index and the alert: after such an end the row is rebuilt as notified, and
  the alert is never sent.
* A change that was held is not assessed again when it is approved, so that two
  modules may get one name, and two changes that are not held may be assessed
  side by side; `DuplicateWasOvertaken` is what remains true. `register_module`
  reads and writes without a lock, so such changes may also lose each other's
  registration, which `RegistrationsKept` excludes for held ones.
* A hold is listed in `GET /ops/holds` before its provenance is recorded, and a
  recording may fail: within one process life too the grantor may then approve
  (`early`, `unrecorded`). The module says that it is fail-open.
* A decision on a command's hold is in the list, and may be obeyed, before it is
  in its row; a process that ends in between restarts with the hold pending.
* Two operators who contradict each other within the decide route are both
  answered; the later decision stands, and the hook may have obeyed the earlier.
* A loop that is stopped and started, or cleared, attempts again before the
  cooldown has passed; `CooldownKept` excepts this.

## What is not modelled

* Text and content: language models and their clients (`agent/llm_*`,
  `reasoning`), the classification of commands, formatting, hashing and
  signatures (`ops/attestation.py`), the frontend, examples and experiments.
* Read-only parts: engineering proposals, previews, listings, metrics, trends
  and baselines, the history of governed outcomes, configuration.
* Pure scoring below the policy (`core/intelligence/actions` other than the
  lifecycle): its verdicts are choices of the models.
* The rate limiter, a counter per fixed window, and authentication, a comparison
  of tokens, which decides who is `by`.
* The JSON back end of `DurableStore` (one atomic rewrite in place of a row), its
  restore, and several server processes: the code assumes one.
* The build of the container and the watchdog (`scripts/rmt-rebuild.sh`,
  `rmt-watchdog.sh`, `rmt-escalate.sh`).

## Plan

Done, in this order: `GovernedApproval` and its abstraction, `BudgetLedger` and
its abstraction, `HomelabLoop`, `AgentAuthority`, `EvidenceStores`,
`VerificationIndex`, `CommandHolds`, `ModuleRegistry`, `PlatformHealth`, and
their theorems. What would come next:

1. Proofs: the promises of `OneShotDecision` and `SpendingFund` as theorems of
   theirs, which the refinements carry over; what remains of `EvidenceIsKept`
   when lines may be torn (one record for each torn line), and of `AtMostOnce`
   without `Orderly`.
2. Composition: an agent's proposal through `AgentAuthority` and
   `GovernedApproval`, whose hold and restart it now abstracts, and
   `EvidenceStores` under the stores of `GovernedApproval`.
3. `RateLimiter`, and the approval policy's table as a pure operator checked
   against its definition by thresholds.
