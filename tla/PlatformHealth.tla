--------------------------- MODULE PlatformHealth ---------------------------
(***************************************************************************)
(* Observation and health: a collector reads each container and stores a   *)
(* row of it; GET /intelligence/health takes the latest row of every       *)
(* component, evaluates it, remembers the evaluation, reads the memory     *)
(* back and advises.  The collector and the routes run in threads of their *)
(* own, a container stops when it likes, a reading or a row may fail.      *)
(***************************************************************************)
EXTENDS Naturals, FiniteSets, FiniteSetsExt

CONSTANTS
    Components,    \* the containers the collector reads, numbered by their names
    Pollers,       \* threads of GET /intelligence/health
    Stale,         \* STALE_THRESHOLD_SECONDS, in units of the clock
    Delay,         \* how long a reading is on its way to its row
    MaxNow,        \* bound of the clock
    MaxPolls,      \* bound: the evaluations of a component
    MaxChanges     \* bound: what stops, fails or comes back

VARIABLES
    real,          \* what each container does
    ranAt,         \* history: when one that does not run last ran
    hand,          \* the container the collector is at, and what it read of it
    latest,        \* the newest row of each component in container_metrics
    memory,        \* intelligence_memory: how many evaluations of each component
    poll,          \* each thread: the rows that are left, what it evaluated so far
    now, changes

healthVars == <<real, ranAt, hand, latest, memory, poll, now, changes>>

HealthStatuses == {"healthy", "warning", "critical", "unknown"}
Advice == {"investigate_immediately", "investigate_recurring_issue", "monitor",
           "uncertain", "continue_monitoring"}
Nothing == [state |-> "none", at |-> 0]
NoName == 0
Reading(c) == [name |-> c, state |-> "none", at |-> 0]
Unheard == "none"
NewPoll(rows) == [stage |-> "evaluate", name |-> NoName, rows |-> rows,
                  status |-> [c \in Components |-> Unheard],
                  at |-> 0,
                  advice |-> [c \in Components |-> Unheard],
                  platform |-> Unheard]
NoPoll == [NewPoll([c \in Components |-> Nothing]) EXCEPT !.stage = "idle"]

HealthTypeOK ==
    /\ real \in [Components -> {"running", "exited", "gone"}]
    /\ ranAt \in [Components -> 0..MaxNow]
    /\ hand.name \in Components /\ hand.at \in 0..MaxNow
    /\ \A c \in Components : latest[c].at \in 0..MaxNow
    /\ memory \in [Components -> 0..MaxPolls]
    /\ \A p \in Pollers :
          /\ poll[p].stage \in {"idle", "evaluate", "advise", "reported"}
          /\ poll[p].status \in [Components -> HealthStatuses \cup {Unheard}]
          /\ poll[p].advice \in [Components -> Advice \cup {Unheard}]
          /\ poll[p].platform \in HealthStatuses \cup {Unheard}
    /\ now \in 0..MaxNow
    /\ changes \in 0..MaxChanges

HealthInit ==
    /\ real = [c \in Components |-> "running"]
    /\ ranAt = [c \in Components |-> 0]
    /\ hand = Reading(Min(Components))
    /\ latest = [c \in Components |-> Nothing]
    /\ memory = [c \in Components |-> 0]
    /\ poll = [p \in Pollers |-> NoPoll]
    /\ now = 0
    /\ changes = 0

-----------------------------------------------------------------------------
(* The evaluation of one observation; the first that applies.              *)

(* Mutant: an old row that says "running" is enough. *)
TrustingStatus(row, t) ==
    CASE row.state = "unknown" -> "unknown"
      [] row.state # "running" -> "critical"
      [] OTHER -> "healthy"

(* A state that cannot be resolved; a container that does not run; a row   *)
(* that is old.  The signals of a container are always there.              *)
Unresolved(row) == row.state = "unknown"
Failed(row) == row.state \notin {"running", "unknown"}
Old(row, t) == row.state = "running" /\ t - row.at > Stale

Status(row, t) ==
    CASE Unresolved(row) -> "unknown"
      [] Failed(row) -> "critical"
      [] Old(row, t) -> "warning"
      [] OTHER -> "healthy"

(* analyze_component_history counts the evaluations it finds, healthy ones *)
(* and the one just made among them.                                       *)
Recommended(status, events) ==
    CASE status = "critical" -> "investigate_immediately"
      [] status = "warning" -> IF events > 1 THEN "investigate_recurring_issue"
                               ELSE "monitor"
      [] status = "unknown" -> "uncertain"
      [] status = "healthy" -> "continue_monitoring"

(* Mutant: a failed component counts as a degraded one. *)
LenientCredit(status) ==
    CASE status \in {"critical", "warning"} -> 70
      [] status = "unknown" -> 0
      [] status = "healthy" -> 100

Credit(status) ==
    CASE status = "critical" -> 40
      [] status = "warning" -> 70
      [] status = "unknown" -> 0
      [] status = "healthy" -> 100

(* The mean of the credits, cut to a whole number. *)
Platform(status) ==
    LET heard == {c \in Components : status[c] # Unheard}
        Share(s) == Credit(s) * Cardinality({c \in Components : status[c] = s})
        score == (Share("healthy") + Share("warning") + Share("critical") + Share("unknown"))
                   \div Cardinality(heard)
    IN  CASE score >= 85 -> "healthy"
          [] score \in 60..84 -> "warning"
          [] OTHER -> "critical"

-----------------------------------------------------------------------------
(* The containers and the collector.                                       *)

Turn(c, s) ==
    /\ changes < MaxChanges
    /\ real[c] # s
    /\ real' = [real EXCEPT ![c] = s]
    /\ ranAt' = IF real[c] = "running" THEN [ranAt EXCEPT ![c] = now] ELSE ranAt
    /\ changes' = changes + 1
    /\ UNCHANGED <<hand, latest, memory, poll, now>>

(* One container after the other, and every minute again: here at any time.*)
After(c) == IF \E d \in Components : d > c THEN Min({d \in Components : d > c})
            ELSE Min(Components)

Read ==
    /\ hand.state = "none"
    /\ real[hand.name] # "gone"
    /\ hand' = [hand EXCEPT !.state = real[hand.name], !.at = now]
    /\ UNCHANGED <<real, ranAt, latest, memory, poll, now, changes>>

(* The row has the time at which it is made, after the reading. *)
Record ==
    /\ hand.state # "none"
    /\ latest' = [latest EXCEPT ![hand.name] = [state |-> hand.state, at |-> now]]
    /\ hand' = Reading(After(hand.name))
    /\ UNCHANGED <<real, ranAt, memory, poll, now, changes>>

(* A container that is gone, a daemon that does not answer or a row that   *)
(* cannot be written raises, and the loop goes on.                         *)
Fail ==
    /\ hand' = Reading(After(hand.name))
    /\ \/ hand.state = "none" /\ real[hand.name] = "gone" /\ UNCHANGED changes
       \/ changes < MaxChanges /\ changes' = changes + 1
    /\ UNCHANGED <<real, ranAt, latest, memory, poll, now>>

Tick ==
    /\ now < MaxNow
    /\ hand.state # "none" => now < hand.at + Delay
    /\ now' = now + 1
    /\ UNCHANGED <<real, ranAt, hand, latest, memory, poll, changes>>

-----------------------------------------------------------------------------
(* calculate_platform_health.                                              *)

(* The latest rows, read at once; without any the platform is unknown. *)
Begin(p) ==
    /\ poll[p].stage \in {"idle", "reported"}
    /\ poll' = [poll EXCEPT ![p] =
                  IF \A c \in Components : latest[c] = Nothing
                  THEN [NewPoll(latest) EXCEPT !.stage = "reported", !.platform = "unknown"]
                  ELSE NewPoll(latest)]
    /\ UNCHANGED <<real, ranAt, hand, latest, memory, now, changes>>

(* The next component by name: the evaluation is in the memory before the  *)
(* history is read.                                                        *)
Evaluate(p, c) ==
    /\ poll[p].stage = "evaluate"
    /\ poll[p].rows[c] # Nothing
    /\ \A d \in Components : d < c => poll[p].rows[d] = Nothing
    /\ memory[c] < MaxPolls
    /\ memory' = [memory EXCEPT ![c] = @ + 1]
    /\ poll' = [poll EXCEPT ![p].stage = "advise",
                            ![p].name = c,
                            ![p].rows[c] = Nothing,
                            ![p].status[c] = Status(poll[p].rows[c], now),
                            ![p].at = now]
    /\ UNCHANGED <<real, ranAt, hand, latest, now, changes>>

(* The history holds what other threads have added by then. *)
Advise(p) ==
    LET c == poll[p].name
    IN  /\ poll[p].stage = "advise"
        /\ poll' = [poll EXCEPT ![p].stage = "evaluate",
                                ![p].name = NoName,
                                ![p].at = 0,
                                ![p].advice[c] = Recommended(poll[p].status[c], memory[c])]
        /\ UNCHANGED <<real, ranAt, hand, latest, memory, now, changes>>

Report(p) ==
    /\ poll[p].stage = "evaluate"
    /\ \A c \in Components : poll[p].rows[c] = Nothing
    /\ poll' = [poll EXCEPT ![p].stage = "reported",
                            ![p].platform = Platform(poll[p].status)]
    /\ UNCHANGED <<real, ranAt, hand, latest, memory, now, changes>>

(* The process ends; rows and memory are in the database. *)
ProcessRestart ==
    /\ changes < MaxChanges
    /\ changes' = changes + 1
    /\ poll' = [p \in Pollers |-> NoPoll]
    /\ hand' = Reading(Min(Components))
    /\ UNCHANGED <<real, ranAt, latest, memory, now>>

HealthNext ==
    \/ \E c \in Components, s \in {"running", "exited", "gone"} : Turn(c, s)
    \/ Read \/ Record \/ Fail \/ Tick \/ ProcessRestart
    \/ \E p \in Pollers :
          Begin(p) \/ Advise(p) \/ Report(p) \/ \E c \in Components : Evaluate(p, c)

HealthSpec == HealthInit /\ [][HealthNext]_healthVars

-----------------------------------------------------------------------------

RanUntil(c) == IF real[c] = "running" THEN now ELSE ranAt[c]

(* A component is evaluated healthy only if it was running within the      *)
(* threshold and the time a reading takes: what the collector no longer    *)
(* reads is never taken for healthy, whatever its last row says            *)
(* (docs/RMT_CORE_TARGET_STATE.md:29, create_health_evaluation).           *)
HealthyWasRunning ==
    \A p \in Pollers :
        LET c == poll[p].name
        IN  poll[p].stage = "advise" /\ poll[p].status[c] = "healthy"
              => poll[p].at <= RanUntil(c) + Stale + Delay

(* The mean never hides a failed component: with the components the        *)
(* collector reads, a platform reported healthy has none that did not run  *)
(* or was unresolved, and one at least that is not stale.                  *)
FailureIsNotMasked ==
    \A p \in Pollers :
        poll[p].platform = "healthy" =>
            /\ \A c \in Components : poll[p].status[c] \notin {"critical", "unknown"}
            /\ \E c \in Components : poll[p].status[c] = "healthy"
=============================================================================
