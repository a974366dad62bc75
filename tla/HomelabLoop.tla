--------------------------- MODULE HomelabLoop ---------------------------
(***************************************************************************)
(* The supervised loop that remediates the containers of a homelab          *)
(* (homelab/operational_loop.py) beside what changes under it: the          *)
(* containers, the collector's metrics, the approval holds that operators   *)
(* decide in other threads, POST /homelab/remediate, POST                   *)
(* /homelab/loop/{start,stop,clear}, and restarts of the process.           *)
(*                                                                         *)
(* Times are ages and times left, in one unit, capped where the code no     *)
(* longer tells them apart: no clock runs away, and behaviours go on for    *)
(* ever.  A cycle takes less than a unit: it reads a database and saves     *)
(* holds.  What the Core does with a hold is GovernedApproval's subject;    *)
(* here a hold is what the loop's guard reads of it.                        *)
(***************************************************************************)
EXTENDS Integers, Sequences, FiniteSets

CONSTANTS
  Policy,          \* REMEDIATION_POLICY: the components, in the order of its keys
  HoldIds,         \* bound on the holds that are live at one time
  Interval,        \* LOOP_INTERVAL_SECONDS
  Cooldown,        \* LOOP_COOLDOWN_SECONDS
  Window,          \* LOOP_FLAP_WINDOW_SECONDS
  MaxAttempts,     \* LOOP_MAX_ATTEMPTS_PER_WINDOW
  RecoveryStreak,  \* LOOP_RECOVERY_HEALTHY_STREAK
  HoldTTL,         \* APPROVAL_HOLD_TTL_SECONDS
  StaleAfter,      \* STALE_THRESHOLD_SECONDS
  MaxRestarts,     \* bound on restarts of the process
  None

Components == {Policy[i] : i \in DOMAIN Policy}

ASSUME PolicyAssumption ==
  /\ Policy \in Seq(Components)
  /\ \A i, j \in DOMAIN Policy : Policy[i] = Policy[j] => i = j

ASSUME TimesAssumption ==
  /\ {Interval, Cooldown, Window, MaxAttempts, RecoveryStreak, HoldTTL} \subseteq Nat \ {0}
  /\ {StaleAfter, MaxRestarts} \subseteq Nat

(* The cadence of the defaults: 120 * (2 + 1) >= 300, and two more attempts,  *)
(* at 360 and at 720, lie in the window of 900.                               *)
ASSUME CadenceAssumption ==
  /\ Interval * (RecoveryStreak + 1) >= Cooldown
  /\ (MaxAttempts - 1) * (Cooldown + Interval - 1) <= Window

VARIABLES
  world,     \* what the Docker daemon would answer of each container
  metric,    \* the newest row of container_metrics, and its age
  holds,     \* the approval holds, as the stores show them
  loop,      \* the task: is it enabled, where it is, time to the next cycle
  state,     \* ComponentLoopState of each component
  since,     \* history: time since the loop's last attempt, up to Cooldown
  restarts

vars == <<world, metric, holds, loop, state, since, restarts>>
----------------------------------------------------------------------------
(* "gone" is a container that was removed, or a daemon that does not answer. *)
World == {"running", "exited", "gone"}
Metrics == [of : {"running", "exited"}, age : 0..StaleAfter + 1]
Makers == {"loop", "route"}
HoldRecords == [component : Components, by : Makers, left : 0..HoldTTL,
                status : {"pending", "resolved"},
                stored : BOOLEAN,      \* save() appends in memory, then writes
                recorded : BOOLEAN,    \* the record on disk reads approved or rejected
                answered : BOOLEAN]   \* history: an operator resolved it
Places == {"asleep", "next", "attempt"}

ASSUME RecordsAssumption == None \notin HoldRecords

Fresh == [quarantined |-> FALSE, streak |-> 0, cooldown |-> 0, attempts |-> {}]

TypeOK ==
  /\ world \in [Components -> World]
  /\ metric \in [Components -> Metrics \cup {None}]
  /\ holds \in [HoldIds -> HoldRecords \cup {None}]
  /\ loop \in [enabled : BOOLEAN, at : Places, left : Seq(Components), wait : 0..Interval]
  /\ state \in [Components -> [quarantined : BOOLEAN, streak : 0..RecoveryStreak,
                               cooldown : 0..Cooldown, attempts : SUBSET (0..Window + 1)]]
  /\ since \in [Components -> 0..Cooldown]
  /\ restarts \in 0..MaxRestarts

Init ==
  /\ world \in [Components -> World]
  /\ metric = [c \in Components |-> None]
  /\ holds = [h \in HoldIds |-> None]
  /\ loop = [enabled |-> TRUE, at |-> "asleep", left |-> <<>>, wait |-> 0]
  /\ state = [c \in Components |-> Fresh]
  /\ since = [c \in Components |-> Cooldown]
  /\ restarts = 0
----------------------------------------------------------------------------
(* What the loop reads. *)

(* A hold blocks a new remediation while an operator may still decide it. *)
Actionable(h) ==
  /\ holds[h] # None
  /\ holds[h].status = "pending"
  /\ holds[h].left > 0
  /\ ~holds[h].recorded

(* Mutant: a hold past its TTL still blocks. *)
PendingOrLapsed(c) ==
  {h \in HoldIds : /\ holds[h] # None /\ holds[h].component = c
                   /\ holds[h].status = "pending" /\ ~holds[h].recorded}

(* Mutant: the cooldown alone keeps attempts apart. *)
NoPendingHold(c) == {}

PendingHoldFor(c) == {h \in HoldIds : Actionable(h) /\ holds[h].component = c}

(* A hold past its TTL can never be decided: its id may serve the next one. *)
FreeIds == {h \in HoldIds : holds[h] = None \/ holds[h].left = 0}

(* The end of remediate_component: health from the newest metric, confidence *)
(* from its state and age, and the policy's threshold on that confidence.    *)
Outcome(c) ==
  CASE metric[c] = None -> "no_observation"
    [] metric[c] # None /\ metric[c].of = "running" -> "no_remediation"
    [] metric[c] # None /\ metric[c].of = "exited" ->
         IF metric[c].age > StaleAfter THEN "policy_denied" ELSE "manual_approval_required"

NewHold(c, maker, stored) ==
  [component |-> c, by |-> maker, left |-> HoldTTL, status |-> "pending",
   stored |-> stored, recorded |-> FALSE, answered |-> FALSE]

SaveHold(c, maker, stored) ==
  /\ FreeIds # {}
  /\ holds' = [holds EXCEPT ![CHOOSE h \in FreeIds : TRUE] = NewHold(c, maker, stored)]
----------------------------------------------------------------------------
(* What the loop writes.  An attempt is its age: no two attempts that the     *)
(* window still counts have one age, for a cooldown lies between them or the  *)
(* release of a quarantine, which forgets the earlier ones.                   *)

(* prune_window *)
Recent(s) == {age \in s.attempts : age <= Window}

(* Mutant: one attempt more. *)
QuarantineLater(s) ==
  IF ~s.quarantined /\ Cardinality(Recent(s)) > MaxAttempts
    THEN [s EXCEPT !.attempts = Recent(s), !.quarantined = TRUE, !.streak = 0]
    ELSE [s EXCEPT !.attempts = Recent(s)]

(* Mutant: the healthy streak is not started anew. *)
QuarantineKeepsStreak(s) ==
  IF ~s.quarantined /\ Cardinality(Recent(s)) >= MaxAttempts
    THEN [s EXCEPT !.attempts = Recent(s), !.quarantined = TRUE]
    ELSE [s EXCEPT !.attempts = Recent(s)]

(* The window is pruned, then the threshold. *)
MaybeQuarantine(s) ==
  IF s.quarantined
    THEN s
    ELSE IF Cardinality(Recent(s)) >= MaxAttempts
      THEN [s EXCEPT !.attempts = Recent(s), !.quarantined = TRUE, !.streak = 0]
      ELSE [s EXCEPT !.attempts = Recent(s)]

RegisterFailure(s) ==
  [s EXCEPT !.attempts = @ \cup {0}, !.cooldown = Cooldown]

(* Mutant: every healthy check is the first. *)
FirstOfStreak(n) == 1

LongerStreak(n) == IF n < RecoveryStreak THEN n + 1 ELSE n

AfterHealthy(s) == [s EXCEPT !.attempts = {}, !.streak = LongerStreak(@)]

ClearQuarantine(s) ==
  [s EXCEPT !.quarantined = FALSE, !.attempts = {}, !.cooldown = 0]

Current == Head(loop.left)
Turn(c) == loop.at = "next" /\ loop.left # <<>> /\ c = Current
PassOn == loop' = [loop EXCEPT !.at = "next", !.left = Tail(@)]

StartCycle ==
  /\ loop.enabled /\ loop.at = "asleep" /\ loop.wait = 0
  /\ loop' = [loop EXCEPT !.at = "next", !.left = Policy]
  /\ UNCHANGED <<world, metric, holds, state, since, restarts>>

EndCycle ==
  /\ loop.at = "next" /\ loop.left = <<>>
  /\ loop' = [loop EXCEPT !.at = "asleep", !.wait = Interval]
  /\ UNCHANGED <<world, metric, holds, state, since, restarts>>

(* _check_recovery: the container itself is observed, not its metric. *)
CheckRecovery(c) ==
  /\ Turn(c) /\ state[c].quarantined
  /\ LET streak == IF world[c] = "running" THEN LongerStreak(state[c].streak) ELSE 0
         s == [state[c] EXCEPT !.streak = streak]
     IN state' = [state EXCEPT ![c] =
                    IF streak >= RecoveryStreak THEN ClearQuarantine(s) ELSE s]
  /\ PassOn
  /\ UNCHANGED <<world, metric, holds, since, restarts>>

AwaitApproval(c) ==
  /\ Turn(c) /\ ~state[c].quarantined
  /\ PendingHoldFor(c) # {}
  /\ PassOn
  /\ UNCHANGED <<world, metric, holds, state, since, restarts>>

SkipCooldown(c) ==
  /\ Turn(c) /\ ~state[c].quarantined
  /\ PendingHoldFor(c) = {}
  /\ state[c].cooldown > 0
  /\ PassOn
  /\ UNCHANGED <<world, metric, holds, state, since, restarts>>

(* Both guards passed; other threads run before remediate_component does. *)
BeginAttempt(c) ==
  /\ Turn(c) /\ ~state[c].quarantined
  /\ PendingHoldFor(c) = {}
  /\ state[c].cooldown = 0
  /\ loop' = [loop EXCEPT !.at = "attempt"]
  /\ UNCHANGED <<world, metric, holds, state, since, restarts>>

Attempting(c) == loop.at = "attempt" /\ c = Current

NothingToRemedy(c) ==
  /\ Attempting(c)
  /\ Outcome(c) \in {"no_remediation", "no_observation"}
  /\ state' = [state EXCEPT ![c] = MaybeQuarantine(
                 IF Outcome(c) = "no_remediation" THEN AfterHealthy(@) ELSE @)]
  /\ PassOn
  /\ UNCHANGED <<world, metric, holds, since, restarts>>

CountAttempt(c) ==
  /\ state' = [state EXCEPT ![c] = MaybeQuarantine(RegisterFailure(@))]
  /\ since' = [since EXCEPT ![c] = 0]
  /\ PassOn
  /\ UNCHANGED <<world, metric, restarts>>

HoldForApproval(c) ==
  /\ Attempting(c)
  /\ Outcome(c) = "manual_approval_required"
  /\ SaveHold(c, "loop", TRUE)
  /\ CountAttempt(c)

DeniedByPolicy(c) ==
  /\ Attempting(c)
  /\ Outcome(c) = "policy_denied"
  /\ CountAttempt(c)
  /\ UNCHANGED holds

(* remediate_component raises: before the hold is saved, in the write of its  *)
(* row, when it is in the list only, or after it, in the save of its record   *)
(* or in record_learning.  The cycle goes on.                                 *)
AttemptRaises(c) ==
  /\ Attempting(c)
  /\ \/ UNCHANGED holds
     \/ /\ Outcome(c) = "manual_approval_required"
        /\ \E stored \in BOOLEAN : SaveHold(c, "loop", stored)
  /\ CountAttempt(c)

LoopStep ==
  \/ StartCycle
  \/ EndCycle
  \/ \E c \in Components :
       \/ CheckRecovery(c)
       \/ AwaitApproval(c)
       \/ SkipCooldown(c)
       \/ BeginAttempt(c)
       \/ NothingToRemedy(c)
       \/ HoldForApproval(c)
       \/ DeniedByPolicy(c)
       \/ AttemptRaises(c)
----------------------------------------------------------------------------
(* The routes.  start and stop are coroutines: they run between cycles.      *)

Stop ==
  /\ loop.enabled /\ loop.at = "asleep"
  /\ loop' = [loop EXCEPT !.enabled = FALSE]
  /\ UNCHANGED <<world, metric, holds, state, since, restarts>>

(* A new task runs its first cycle at once. *)
Start ==
  /\ ~loop.enabled
  /\ loop' = [loop EXCEPT !.enabled = TRUE, !.wait = 0]
  /\ since' = [c \in Components |-> Cooldown]
  /\ UNCHANGED <<world, metric, holds, state, restarts>>

(* POST /homelab/loop/clear runs in a worker thread, within a cycle too. *)
Clear(c) ==
  /\ state[c].quarantined
  /\ state' = [state EXCEPT ![c] = ClearQuarantine(@)]
  /\ since' = [since EXCEPT ![c] = Cooldown]
  /\ UNCHANGED <<world, metric, holds, loop, restarts>>

(* POST /homelab/remediate: neither guard, nor the loop's state. *)
Remediate(c) ==
  /\ Outcome(c) = "manual_approval_required"
  /\ \E stored \in BOOLEAN : SaveHold(c, "route", stored)
  /\ UNCHANGED <<world, metric, loop, state, since, restarts>>

(* What approve_held_action accepts. *)
Decidable(h) == holds[h] # None /\ holds[h].status = "pending" /\ holds[h].left > 0

(* An operator decides; the write of the record may fail after the hold was   *)
(* resolved in memory, where its record is no longer looked at.               *)
(* What an approved remediation does to the container is a Change.           *)
Decide(h) ==
  /\ Decidable(h)
  /\ \E written \in BOOLEAN :
       holds' = [holds EXCEPT ![h].status = "resolved", ![h].answered = TRUE,
                              ![h].recorded = @ \/ written]
  /\ UNCHANGED <<world, metric, loop, state, since, restarts>>
----------------------------------------------------------------------------
(* The world, the collector, time and restarts. *)

Change(c) ==
  /\ \E w \in World \ {world[c]} : world' = [world EXCEPT ![c] = w]
  /\ UNCHANGED <<metric, holds, loop, state, since, restarts>>

(* Mutant: time left below zero. *)
LessThanZero(n) == n - 1

Less(n) == IF n > 0 THEN n - 1 ELSE 0
More(n, most) == IF n < most THEN n + 1 ELSE n

(* One unit of time, and at its end the collector's pass, which runs on the   *)
(* event loop too; of a container that is gone it stores nothing.             *)
Collected(c) ==
  IF world[c] # "gone" THEN [of |-> world[c], age |-> 0]
  ELSE IF metric[c] = None THEN None
  ELSE [metric[c] EXCEPT !.age = More(@, StaleAfter + 1)]

(* What was resolved before it lapsed, or lapses without a row, no one reads  *)
(* again: a restart does not bring it back to be decided.                     *)
Forgotten(h) == holds[h].left <= 1 /\ (holds[h].answered \/ ~holds[h].stored)

(* A cycle that is due starts within the unit. *)
Tick ==
  /\ loop.at = "asleep"
  /\ ~(loop.enabled /\ loop.wait = 0)
  /\ metric' = [c \in Components |-> Collected(c)]
  /\ holds' = [h \in HoldIds |->
       IF holds[h] = None \/ Forgotten(h) THEN None
       ELSE [holds[h] EXCEPT !.left = Less(@)]]
  /\ loop' = [loop EXCEPT !.wait = Less(@)]
  /\ state' = [c \in Components |->
       [state[c] EXCEPT !.cooldown = Less(@),
                        !.attempts = {More(age, Window + 1) : age \in @}]]
  /\ since' = [c \in Components |-> More(since[c], Cooldown)]
  /\ UNCHANGED <<world, restarts>>

(* The resolved status of a hold was never saved: it is pending again, unless *)
(* the startup reconcile, which a failed write may cut short, corrects it     *)
(* from its record.  The loop's own state is gone.                            *)
Restart ==
  /\ restarts < MaxRestarts
  /\ restarts' = restarts + 1
  /\ \E corrected \in SUBSET {h \in HoldIds : holds[h] # None /\ holds[h].recorded} :
       holds' = [h \in HoldIds |->
         IF holds[h] = None \/ ~holds[h].stored THEN None
         ELSE [holds[h] EXCEPT !.status = IF h \in corrected THEN "resolved" ELSE "pending"]]
  /\ loop' = [enabled |-> TRUE, at |-> "asleep", left |-> <<>>, wait |-> 0]
  /\ state' = [c \in Components |-> Fresh]
  /\ since' = [c \in Components |-> Cooldown]
  /\ UNCHANGED <<world, metric>>

Next ==
  \/ LoopStep
  \/ Stop \/ Start
  \/ \E c \in Components : Clear(c) \/ Remediate(c) \/ Change(c)
  \/ \E h \in HoldIds : Decide(h)
  \/ Tick
  \/ Restart

Spec == Init /\ [][Next]_vars

(* The event loop runs what is ready, and time passes. *)
FairSpec == Spec /\ WF_vars(LoopStep) /\ WF_vars(Tick)
----------------------------------------------------------------------------
LoopHolds(c) ==
  {h \in HoldIds : /\ Decidable(h) /\ ~holds[h].answered
                   /\ holds[h].component = c /\ holds[h].by = "loop"}

(* The duplicate-hold guard: whatever an operator, a failed write or a        *)
(* restart that forgets the loop's state does in between, the loop never      *)
(* leaves two remediations of one component that no operator resolved.        *)
OneHoldOfTheLoop == \A c \in Components : Cardinality(LoopHolds(c)) <= 1

(* While a component is not quarantined, fewer than MaxAttempts of the loop's *)
(* held or failed attempts on it lie in the flap window, also after attempts  *)
(* that raised.                                                               *)
FlapGuard ==
  \A c \in Components : ~state[c].quarantined =>
    Cardinality(Recent(state[c])) < MaxAttempts

(* Two attempts of the loop on a component are a cooldown apart, unless an    *)
(* operator cleared its quarantine or the loop was started again in between:  *)
(* the release of a quarantine forgets the cooldown, and the checks it takes  *)
(* last as long.                                                              *)
CooldownKept ==
  [][\A c \in Components : Attempting(c) /\ since'[c] = 0 => since[c] = Cooldown]_vars

Watched(c) == loop.enabled /\ world[c] = "exited"

(* While the loop runs, a component that stays down ends before an operator:  *)
(* in a hold to decide or in quarantine, whatever is stale, raises or is      *)
(* forgotten.  Again and again it is up, not watched, or reported, which is   *)
(* the same as that whenever it is down and watched, one of these follows.    *)
DownIsReported ==
  \A c \in Components :
    []<>(Watched(c) => \/ state[c].quarantined
                       \/ \E h \in HoldIds : Decidable(h) /\ holds[h].component = c)

Recovering(c) == loop.enabled /\ world[c] = "running" /\ state[c].quarantined

(* While the loop runs, a quarantined component that stays up is released.    *)
RecoveredIsReleased == \A c \in Components : []<>~Recovering(c)
============================================================================
