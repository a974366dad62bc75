------------------------ MODULE HomelabLoopProofs ------------------------
(***************************************************************************)
(* HomelabLoop, for every policy, TTL and cadence that CadenceAssumption     *)
(* allows, and any number of holds and of restarts: the duplicate-hold      *)
(* guard (HoldInv), and on top of it the pace of the attempts (LoopInv),     *)
(* from which the types, the flap guard and the cooldown follow.            *)
(***************************************************************************)
EXTENDS HomelabLoop, FiniteSetTheorems, TLAPS

HoldsType == holds \in [HoldIds -> HoldRecords \cup {None}]
LoopType ==
  loop \in [enabled : BOOLEAN, at : Places, left : Seq(Components), wait : 0..Interval]

(* What a store or a record shows as decided, an operator decided. *)
AnsweredFirst == \A h \in HoldIds : holds[h] # None =>
  /\ holds[h].recorded => holds[h].answered
  /\ holds[h].status = "resolved" => holds[h].answered

(* The guard read no hold to wait for, and none came since. *)
NoneAtAttempt == loop.at = "attempt" => loop.left # <<>> /\ LoopHolds(Current) = {}

OneAtMost == \A c \in Components : \A h1, h2 \in LoopHolds(c) : h1 = h2

HoldInv == HoldsType /\ LoopType /\ AnsweredFirst /\ NoneAtAttempt /\ OneAtMost

--------------------------------------------------------------------------
(* A hold that the loop made, and that no operator resolved, is actionable.  *)
LEMMA OpenIsActionable ==
  ASSUME HoldsType, AnsweredFirst, NEW c \in Components
  PROVE  LoopHolds(c) \subseteq PendingHoldFor(c)
BY DEF LoopHolds, PendingHoldFor, Decidable, Actionable, AnsweredFirst

(* Saving a hold over an id that is free adds it, and ends no other.         *)
LEMMA Saving ==
  ASSUME HoldsType, AnsweredFirst, NEW c \in Components, NEW maker \in Makers,
         NEW stored \in BOOLEAN, SaveHold(c, maker, stored)
  PROVE  /\ HoldsType' /\ AnsweredFirst'
         /\ \A d \in Components : d # c \/ maker # "loop" => LoopHolds(d)' \subseteq LoopHolds(d)
         /\ maker = "loop" => \E h \in HoldIds : LoopHolds(c)' \subseteq LoopHolds(c) \cup {h}
<1>1. PICK h \in FreeIds : holds' = [holds EXCEPT ![h] = NewHold(c, maker, stored)]
  BY DEF SaveHold
<1>2. h \in HoldIds
  BY DEF FreeIds
<1>3. /\ NewHold(c, maker, stored) \in HoldRecords
      /\ NewHold(c, maker, stored).by = maker
      /\ NewHold(c, maker, stored).component = c
      /\ ~NewHold(c, maker, stored).recorded
      /\ NewHold(c, maker, stored).status = "pending"
  BY TimesAssumption DEF NewHold, HoldRecords
<1>4. HoldsType' /\ AnsweredFirst'
  BY <1>1, <1>2, <1>3 DEF HoldsType, AnsweredFirst
<1>5. \A g \in HoldIds : g # h => holds'[g] = holds[g]
  BY <1>1 DEF HoldsType
<1>6. holds'[h] = NewHold(c, maker, stored)
  BY <1>1, <1>2 DEF HoldsType
<1>7. \A d \in Components : LoopHolds(d)' \subseteq LoopHolds(d) \cup {h}
  BY <1>5 DEF LoopHolds, Decidable
<1>8. \A d \in Components : d # c \/ maker # "loop" => h \notin LoopHolds(d)'
  BY <1>3, <1>6 DEF LoopHolds
<1> QED
  BY <1>2, <1>4, <1>7, <1>8

(* An operator decides a record. *)
LEMMA DecidedRecord ==
  ASSUME HoldsType, NEW h \in HoldIds, holds[h] \in HoldRecords, NEW written \in BOOLEAN,
         holds' = [holds EXCEPT ![h].status = "resolved", ![h].answered = TRUE,
                                ![h].recorded = @ \/ written]
  PROVE  \E r \in HoldRecords : holds' = [holds EXCEPT ![h] = r] /\ r.answered
<1> DEFINE r == [[[holds[h] EXCEPT !.status = "resolved"] EXCEPT !.answered = TRUE]
                  EXCEPT !.recorded = @ \/ written]
<1>1. r \in HoldRecords /\ r.answered
  BY DEF HoldRecords
<1>2. holds' = [holds EXCEPT ![h] = r]
  BY DEF HoldsType
<1> QED
  BY <1>1, <1>2

(* Time passes for a record. *)
LEMMA LapsingRecord ==
  ASSUME NEW r \in HoldRecords
  PROVE  LET m == [r EXCEPT !.left = Less(@)] IN
         /\ m \in HoldRecords
         /\ m.left > 0 => r.left > 0
         /\ m.component = r.component /\ m.by = r.by /\ m.status = r.status
         /\ m.recorded = r.recorded /\ m.answered = r.answered
BY TimesAssumption DEF HoldRecords, Less

(* A record is read back from disk. *)
LEMMA ReadBackRecord ==
  ASSUME NEW r \in HoldRecords, NEW s \in {"pending", "resolved"}
  PROVE  LET m == [r EXCEPT !.status = s] IN
         /\ m \in HoldRecords /\ m.status = s
         /\ m.left = r.left /\ m.component = r.component /\ m.by = r.by
         /\ m.recorded = r.recorded /\ m.answered = r.answered
BY DEF HoldRecords

(* Where the loop goes when it is done with a component. *)
LEMMA Passing ==
  ASSUME LoopType, loop.left # <<>>, PassOn
  PROVE  LoopType' /\ loop'.at = "next"
<1>1. loop.left \in Seq(Components)
  BY DEF LoopType
<1>2. Tail(loop.left) \in Seq(Components)
  BY <1>1
<1> QED
  BY <1>2 DEF LoopType, PassOn, Places

(* A step that adds no hold of the loop, and begins no attempt.              *)
LEMMA NoNewHold ==
  ASSUME HoldInv, HoldsType', AnsweredFirst', LoopType',
         \A d \in Components : LoopHolds(d)' \subseteq LoopHolds(d),
         loop'.at # "attempt" \/ (loop'.at = loop.at /\ loop'.left = loop.left)
  PROVE  HoldInv'
<1>1. OneAtMost'
  BY DEF HoldInv, OneAtMost
<1>2. NoneAtAttempt'
  <2> SUFFICES ASSUME loop'.at = "attempt"
               PROVE  loop'.left # <<>> /\ LoopHolds(Current)' = {}
    BY DEF NoneAtAttempt
  <2>1. loop.left # <<>> /\ LoopHolds(Current) = {} /\ loop'.left = loop.left
    BY DEF HoldInv, NoneAtAttempt
  <2>2. Current \in Components
    BY <2>1 DEF HoldInv, LoopType, Current
  <2> QED
    BY <2>1, <2>2 DEF Current, LoopHolds
<1> QED
  BY <1>1, <1>2 DEF HoldInv

(* The steps of the loop that leave the holds alone. *)
LEMMA QuietStep ==
  ASSUME HoldInv, UNCHANGED holds, LoopType',
         loop'.at # "attempt" \/ (loop'.at = loop.at /\ loop'.left = loop.left)
  PROVE  HoldInv'
<1>1. HoldsType' /\ AnsweredFirst'
  BY DEF HoldInv, HoldsType, AnsweredFirst
<1>2. \A d \in Components : LoopHolds(d)' \subseteq LoopHolds(d)
  BY DEF LoopHolds, Decidable
<1> QED
  BY <1>1, <1>2, NoNewHold

(* An attempt begins when no operator may still decide a hold of the loop.   *)
LEMMA AttemptBegins ==
  ASSUME HoldInv, NEW c \in Components, BeginAttempt(c)
  PROVE  HoldInv'
<1>1. LoopType' /\ loop'.at = "attempt" /\ loop'.left = loop.left
  BY DEF HoldInv, LoopType, BeginAttempt, Places
<1>2. loop.left # <<>> /\ c = Current /\ PendingHoldFor(c) = {} /\ UNCHANGED holds
  BY DEF BeginAttempt, Turn
<1>3. LoopHolds(c) = {}
  BY <1>2, OpenIsActionable DEF HoldInv
<1>4. HoldsType' /\ AnsweredFirst' /\ OneAtMost'
  BY <1>2 DEF HoldInv, HoldsType, AnsweredFirst, OneAtMost, LoopHolds, Decidable
<1>5. Current' = c
  BY <1>1, <1>2 DEF Current
<1>6. LoopHolds(Current)' = {}
  BY <1>2, <1>3, <1>5 DEF LoopHolds, Decidable
<1> QED
  BY <1>1, <1>2, <1>4, <1>6 DEF HoldInv, NoneAtAttempt

(* What the loop saves at its attempt is then its only open hold.            *)
LEMMA AttemptSaves ==
  ASSUME HoldInv, NEW c \in Components, NEW stored \in BOOLEAN,
         Attempting(c), SaveHold(c, "loop", stored), PassOn
  PROVE  HoldInv'
<1>1. LoopHolds(c) = {} /\ loop.left # <<>>
  BY DEF HoldInv, NoneAtAttempt, Attempting
<1>2. LoopType' /\ loop'.at = "next"
  BY <1>1, Passing DEF HoldInv
<1>3. /\ HoldsType' /\ AnsweredFirst'
      /\ \A d \in Components : d # c => LoopHolds(d)' \subseteq LoopHolds(d)
      /\ \E h \in HoldIds : LoopHolds(c)' \subseteq LoopHolds(c) \cup {h}
  BY Saving DEF HoldInv, Makers
<1>4. OneAtMost'
  <2>1. ASSUME NEW d \in Components, d # c
        PROVE  \A h1, h2 \in LoopHolds(d)' : h1 = h2
    BY <1>3, <2>1 DEF HoldInv, OneAtMost
  <2>2. \A h1, h2 \in LoopHolds(c)' : h1 = h2
    BY <1>1, <1>3
  <2> QED
    BY <2>1, <2>2 DEF OneAtMost
<1> QED
  BY <1>2, <1>3, <1>4 DEF HoldInv, NoneAtAttempt

(* Every step of the loop preserves HoldInv. *)
LEMMA LoopKeeps ==
  ASSUME HoldInv, LoopStep
  PROVE  HoldInv'
<1>1. ASSUME StartCycle \/ EndCycle
      PROVE  HoldInv'
  <2>1. Policy \in Seq(Components) /\ Interval \in 0..Interval /\ LoopType
    BY PolicyAssumption, TimesAssumption DEF HoldInv
  <2>2. LoopType' /\ loop'.at # "attempt"
    <3>1. ASSUME StartCycle
          PROVE  LoopType' /\ loop'.at # "attempt"
      BY <2>1, <3>1 DEF StartCycle, LoopType, Places
    <3>2. ASSUME EndCycle
          PROVE  LoopType' /\ loop'.at # "attempt"
      BY <2>1, <3>2 DEF EndCycle, LoopType, Places
    <3> QED
      BY <1>1, <3>1, <3>2
  <2>3. UNCHANGED holds
    BY <1>1 DEF StartCycle, EndCycle
  <2> QED
    BY <2>2, <2>3, QuietStep
<1>2. ASSUME NEW c \in Components,
             CheckRecovery(c) \/ AwaitApproval(c) \/ SkipCooldown(c)
      PROVE  HoldInv'
  <2>1. loop.left # <<>> /\ PassOn /\ UNCHANGED holds
    BY <1>2 DEF CheckRecovery, AwaitApproval, SkipCooldown, Turn
  <2> QED
    BY <2>1, Passing, QuietStep DEF HoldInv
<1>3. ASSUME NEW c \in Components, NothingToRemedy(c) \/ DeniedByPolicy(c)
      PROVE  HoldInv'
  <2>1. PassOn /\ Attempting(c) /\ UNCHANGED holds
    BY <1>3 DEF NothingToRemedy, DeniedByPolicy, CountAttempt
  <2>2. loop.left # <<>>
    BY <2>1 DEF HoldInv, NoneAtAttempt, Attempting
  <2> QED
    BY <2>1, <2>2, Passing, QuietStep DEF HoldInv
<1>4. ASSUME NEW c \in Components, HoldForApproval(c) \/ AttemptRaises(c)
      PROVE  HoldInv'
  <2>1. /\ PassOn /\ Attempting(c)
        /\ UNCHANGED holds \/ \E stored \in BOOLEAN : SaveHold(c, "loop", stored)
    BY <1>4 DEF HoldForApproval, AttemptRaises, CountAttempt
  <2>2. loop.left # <<>>
    BY <2>1 DEF HoldInv, NoneAtAttempt, Attempting
  <2>3. CASE UNCHANGED holds
    BY <2>1, <2>2, <2>3, Passing, QuietStep DEF HoldInv
  <2> QED
    BY <2>1, <2>3, AttemptSaves
<1> QED
  BY <1>1, <1>2, <1>3, <1>4, AttemptBegins DEF LoopStep

(* Nobody but the loop makes a hold of the loop.                             *)
LEMMA OthersKeep ==
  ASSUME HoldInv,
         \/ Stop \/ Start \/ Tick \/ Restart
         \/ \E c \in Components : Clear(c) \/ Remediate(c) \/ Change(c)
         \/ \E h \in HoldIds : Decide(h)
  PROVE  HoldInv'
<1>1. ASSUME Stop \/ Start \/ \E c \in Components : Clear(c) \/ Change(c)
      PROVE  HoldInv'
  <2>1. LoopType' /\ loop'.at = loop.at /\ loop'.left = loop.left /\ UNCHANGED holds
    <3>1. ASSUME Stop
          PROVE  LoopType' /\ loop'.at = loop.at /\ loop'.left = loop.left /\ UNCHANGED holds
      BY <3>1 DEF Stop, HoldInv, LoopType
    <3>2. ASSUME Start
          PROVE  LoopType' /\ loop'.at = loop.at /\ loop'.left = loop.left /\ UNCHANGED holds
      <4>1. 0 \in 0..Interval
        BY TimesAssumption
      <4> QED
        BY <3>2, <4>1 DEF Start, HoldInv, LoopType
    <3> QED
      BY <1>1, <3>1, <3>2 DEF Clear, Change, HoldInv, LoopType
  <2> QED
    BY <2>1, QuietStep
<1>2. ASSUME NEW c \in Components, Remediate(c)
      PROVE  HoldInv'
  <2>1. PICK stored \in BOOLEAN : SaveHold(c, "route", stored)
    BY <1>2 DEF Remediate
  <2>2. LoopType' /\ loop' = loop
    BY <1>2 DEF Remediate, HoldInv, LoopType
  <2> QED
    BY <2>1, <2>2, Saving, NoNewHold DEF HoldInv, Makers
<1>3. ASSUME NEW h \in HoldIds, Decide(h)
      PROVE  HoldInv'
  <2>1. PICK written \in BOOLEAN :
          holds' = [holds EXCEPT ![h].status = "resolved", ![h].answered = TRUE,
                                 ![h].recorded = @ \/ written]
    BY <1>3 DEF Decide
  <2>2. holds[h] # None /\ holds[h] \in HoldRecords
    BY <1>3 DEF Decide, Decidable, HoldInv, HoldsType
  <2>3. PICK r \in HoldRecords :
          /\ holds' = [holds EXCEPT ![h] = r]
          /\ r.answered
    BY <2>1, <2>2, DecidedRecord DEF HoldInv, HoldsType
  <2>4. HoldsType' /\ AnsweredFirst'
    BY <2>3 DEF HoldInv, HoldsType, AnsweredFirst
  <2>5. \A d \in Components : LoopHolds(d)' \subseteq LoopHolds(d)
    BY <2>3 DEF LoopHolds, Decidable, HoldInv, HoldsType
  <2>6. LoopType' /\ loop' = loop
    BY <1>3 DEF Decide, HoldInv, LoopType
  <2> QED
    BY <2>4, <2>5, <2>6, NoNewHold
<1>4. ASSUME Tick
      PROVE  HoldInv'
  <2>1. LoopType' /\ loop'.at # "attempt"
    <3>1. LoopType /\ Less(loop.wait) \in 0..Interval
      BY TimesAssumption DEF HoldInv, LoopType, Less
    <3>2. loop' = [loop EXCEPT !.wait = Less(loop.wait)] /\ loop.at = "asleep"
      BY <1>4 DEF Tick
    <3> QED
      BY <3>1, <3>2 DEF LoopType
  <2>2. \A h \in HoldIds : holds'[h] # None =>
          /\ holds[h] # None
          /\ holds'[h] = [holds[h] EXCEPT !.left = Less(@)]
    BY <1>4 DEF Tick
  <2>3. HoldsType'
    BY <1>4, LapsingRecord DEF Tick, HoldInv, HoldsType
  <2>4. \A h \in HoldIds : holds'[h] # None =>
          /\ holds[h] # None
          /\ holds'[h].left > 0 => holds[h].left > 0
          /\ holds'[h].component = holds[h].component /\ holds'[h].by = holds[h].by
          /\ holds'[h].status = holds[h].status
          /\ holds'[h].recorded = holds[h].recorded
          /\ holds'[h].answered = holds[h].answered
    BY <2>2, LapsingRecord DEF HoldInv, HoldsType
  <2>5. AnsweredFirst' /\ \A d \in Components : LoopHolds(d)' \subseteq LoopHolds(d)
    BY <2>4 DEF HoldInv, AnsweredFirst, LoopHolds, Decidable
  <2> QED
    BY <2>1, <2>3, <2>5, NoNewHold
<1>5. ASSUME Restart
      PROVE  HoldInv'
  <2>1. LoopType' /\ loop'.at # "attempt"
    <3>1. <<>> \in Seq(Components) /\ 0 \in 0..Interval
      BY TimesAssumption
    <3> QED
      BY <1>5, <3>1 DEF Restart, LoopType, Places
  <2>2. PICK corrected \in SUBSET {h \in HoldIds : holds[h] # None /\ holds[h].recorded} :
       holds' = [h \in HoldIds |->
         IF holds[h] = None \/ ~holds[h].stored THEN None
         ELSE [holds[h] EXCEPT !.status = IF h \in corrected THEN "resolved" ELSE "pending"]]
    BY <1>5 DEF Restart
  <2>3. HoldsType'
    BY <2>2, ReadBackRecord DEF HoldInv, HoldsType
  <2>4. \A h \in HoldIds : holds'[h] # None =>
          /\ holds[h] # None
          /\ holds'[h].left = holds[h].left
          /\ holds'[h].component = holds[h].component /\ holds'[h].by = holds[h].by
          /\ holds'[h].status = "resolved" => holds[h].recorded
          /\ holds'[h].recorded = holds[h].recorded
          /\ holds'[h].answered = holds[h].answered
    BY <2>2, ReadBackRecord DEF HoldInv, HoldsType
  <2>5. \A h \in HoldIds : holds[h] # None => holds[h].status \in {"pending", "resolved"}
    BY DEF HoldInv, HoldsType, HoldRecords
  <2>6. AnsweredFirst' /\ \A d \in Components : LoopHolds(d)' \subseteq LoopHolds(d)
    BY <2>4, <2>5 DEF HoldInv, AnsweredFirst, LoopHolds, Decidable
  <2> QED
    BY <2>1, <2>3, <2>6, NoNewHold
<1> QED
  BY <1>1, <1>2, <1>3, <1>4, <1>5

LEMMA InitHolds == Init => HoldInv
BY PolicyAssumption, TimesAssumption
   DEF Init, HoldInv, HoldsType, LoopType, AnsweredFirst, NoneAtAttempt, OneAtMost,
       LoopHolds, Decidable, Places

LEMMA StepHolds == HoldInv /\ [Next]_vars => HoldInv'
<1> SUFFICES ASSUME HoldInv, [Next]_vars PROVE HoldInv'
  OBVIOUS
<1>1. CASE UNCHANGED vars
  <2>1. UNCHANGED holds /\ loop' = loop
    BY <1>1 DEF vars
  <2> QED
    BY <2>1, QuietStep DEF HoldInv, LoopType
<1> QED
  BY <1>1, LoopKeeps, OthersKeep DEF Next

(* The loop holds one remediation of a component at most, for every policy,  *)
(* cadence, TTL, and number of restarts.                                     *)
THEOREM OneHold == Spec => []OneHoldOfTheLoop
<1>1. HoldInv => OneHoldOfTheLoop
  <2> SUFFICES ASSUME HoldInv, NEW c \in Components
               PROVE  Cardinality(LoopHolds(c)) <= 1
    BY DEF OneHoldOfTheLoop
  <2>1. CASE LoopHolds(c) = {}
    BY <2>1, FS_EmptySet
  <2>2. ASSUME NEW h \in LoopHolds(c)
        PROVE  Cardinality(LoopHolds(c)) <= 1
    <3>1. LoopHolds(c) = {h}
      BY <2>2 DEF HoldInv, OneAtMost
    <3>2. Cardinality({h}) = 1
      BY FS_Singleton
    <3> QED
      BY <3>1, <3>2
  <2> QED
    BY <2>1, <2>2
<1> QED
  BY <1>1, InitHolds, StepHolds, PTL DEF Spec

--------------------------------------------------------------------------
(* The pace of the attempts.  A component's state s is read beside the time  *)
(* since its last attempt and the time the loop has waited to look again.    *)

StateRecords == [quarantined : BOOLEAN, streak : 0..RecoveryStreak,
                 cooldown : 0..Cooldown, attempts : SUBSET (0..Window + 1)]

LongSince(age, time) == age = Cooldown \/ age >= time

(* Each healthy check of a quarantine is an interval after the one before;   *)
(* once it is released, the next attempt is another interval away.           *)
Apart(s, age, waited) ==
  IF s.quarantined
    THEN LongSince(age, s.streak * Interval + waited)
    ELSE age + s.cooldown >= Cooldown \/ LongSince(age, RecoveryStreak * Interval + waited)

(* The newest attempt cools down, and those that count are not too many.     *)
Counted(s) ==
  /\ 0 \in s.attempts => s.cooldown = Cooldown
  /\ ~s.quarantined => Cardinality(Recent(s)) < MaxAttempts

Paced(s, age, waited) == s \in StateRecords /\ Counted(s) /\ Apart(s, age, waited)

Due(c) == \E i \in DOMAIN loop.left : loop.left[i] = c

Waited(c) ==
  IF loop.at = "asleep" THEN Interval - loop.wait
  ELSE IF Due(c) THEN Interval ELSE 0

OnceEach == \A i, j \in DOMAIN loop.left : loop.left[i] = loop.left[j] => i = j

(* No attempt is made within the cooldown of another, nor of the same age.   *)
AttemptIsDue ==
  loop.at = "attempt" =>
    /\ loop.left # <<>>
    /\ ~state[Current].quarantined
    /\ since[Current] = Cooldown
    /\ 0 \notin state[Current].attempts

AllPaced == \A c \in Components : Paced(state[c], since[c], Waited(c))

LoopInv == TypeOK /\ OnceEach /\ AttemptIsDue /\ AllPaced

(* The ages the window still counts are finitely many. *)
LEMMA RecentFinite ==
  ASSUME NEW s \in StateRecords
  PROVE  /\ IsFiniteSet(Recent(s)) /\ Cardinality(Recent(s)) \in Nat
         /\ \A T \in SUBSET Recent(s) :
              Cardinality(T) \in Nat /\ Cardinality(T) <= Cardinality(Recent(s))
<1>1. IsFiniteSet(0..Window + 1)
  BY FS_Interval, TimesAssumption
<1>2. Recent(s) \in SUBSET (0..Window + 1)
  BY DEF StateRecords, Recent
<1>3. IsFiniteSet(Recent(s))
  BY <1>1, <1>2, FS_Subset
<1>4. ASSUME NEW T \in SUBSET Recent(s)
      PROVE  Cardinality(T) \in Nat /\ Cardinality(T) <= Cardinality(Recent(s))
  BY <1>3, FS_Subset, FS_CardinalityType
<1> QED
  BY <1>3, <1>4, FS_CardinalityType

(* No attempts at all are fewer than the threshold. *)
LEMMA NoAttempts ==
  ASSUME NEW s, s.attempts = {}
  PROVE  Counted(s) /\ Recent(s) = {}
<1>1. Recent(s) = {}
  BY DEF Recent
<1>2. 0 < MaxAttempts
  BY TimesAssumption
<1> QED
  BY <1>1, <1>2, FS_EmptySet DEF Counted

(* A time and the next interval, and the checks of a whole quarantine.       *)
LEMMA Times ==
  /\ \A n \in Nat : n * Interval \in Nat /\ (n + 1) * Interval = n * Interval + Interval
  /\ RecoveryStreak * Interval + Interval >= Cooldown
<1>1. Interval \in Nat \ {0} /\ RecoveryStreak \in Nat \ {0}
  BY TimesAssumption
<1>2. \A n \in Nat : n * Interval \in Nat /\ (n + 1) * Interval = n * Interval + Interval
  BY <1>1
<1>3. Interval * (RecoveryStreak + 1) = RecoveryStreak * Interval + Interval
  BY <1>1
<1> QED
  BY <1>2, <1>3, CadenceAssumption

(* Pruning keeps what the window counts. *)
LEMMA Pruning ==
  ASSUME NEW s \in StateRecords, ~s.quarantined
  PROVE  LET m == MaybeQuarantine(s) IN
         /\ m \in StateRecords
         /\ m.cooldown = s.cooldown
         /\ m.attempts = Recent(s) /\ Recent(m) = Recent(s)
         /\ m.quarantined => m.streak = 0
         /\ ~m.quarantined => Cardinality(Recent(m)) < MaxAttempts
<1> DEFINE m == MaybeQuarantine(s)
<1>1. Recent(s) \in SUBSET (0..Window + 1) /\ Cardinality(Recent(s)) \in Nat
  BY RecentFinite DEF StateRecords, Recent
<1>2. CASE Cardinality(Recent(s)) >= MaxAttempts
  <2>1. m = [[[s EXCEPT !.attempts = Recent(s)] EXCEPT !.quarantined = TRUE] EXCEPT !.streak = 0]
    BY <1>2 DEF MaybeQuarantine
  <2>2. /\ m \in StateRecords /\ m.attempts = Recent(s) /\ m.quarantined /\ m.streak = 0
        /\ m.cooldown = s.cooldown
    <3>1. s = [quarantined |-> s.quarantined, streak |-> s.streak,
               cooldown |-> s.cooldown, attempts |-> s.attempts]
      BY DEF StateRecords
    <3>2. m = [quarantined |-> TRUE, streak |-> 0,
               cooldown |-> s.cooldown, attempts |-> Recent(s)]
      BY <2>1, <3>1
    <3>3. 0 \in 0..RecoveryStreak /\ s.cooldown \in 0..Cooldown
      BY TimesAssumption DEF StateRecords
    <3> QED
      BY <1>1, <3>2, <3>3 DEF StateRecords
  <2>3. Recent(m) = Recent(s)
    BY <2>2 DEF Recent
  <2> QED
    BY <2>2, <2>3
<1>3. CASE Cardinality(Recent(s)) < MaxAttempts
  <2>1. m = [s EXCEPT !.attempts = Recent(s)]
    BY <1>1, <1>3, TimesAssumption DEF MaybeQuarantine
  <2>2. /\ m \in StateRecords /\ m.attempts = Recent(s) /\ ~m.quarantined
        /\ m.cooldown = s.cooldown
    BY <1>1, <2>1 DEF StateRecords
  <2>3. Recent(m) = Recent(s)
    BY <2>2 DEF Recent
  <2> QED
    BY <1>3, <2>2, <2>3
<1> QED
  BY <1>1, <1>2, <1>3, TimesAssumption

(* A failed attempt, whatever came before it, starts the cooldown.           *)
LEMMA FailurePaces ==
  ASSUME NEW s \in StateRecords, ~s.quarantined
  PROVE  Paced(MaybeQuarantine(RegisterFailure(s)), 0, 0)
<1> DEFINE f == RegisterFailure(s)
           m == MaybeQuarantine(f)
<1>1. f \in StateRecords /\ ~f.quarantined /\ f.cooldown = Cooldown
  <2>1. 0 \in 0..Window + 1 /\ Cooldown \in 0..Cooldown
    BY TimesAssumption
  <2>2. s.attempts \cup {0} \in SUBSET (0..Window + 1)
    BY <2>1 DEF StateRecords
  <2> QED
    BY <2>1, <2>2 DEF RegisterFailure, StateRecords
<1> HIDE DEF f
<1>2. /\ m \in StateRecords /\ m.cooldown = Cooldown
      /\ m.quarantined => m.streak = 0
      /\ ~m.quarantined => Cardinality(Recent(m)) < MaxAttempts
  BY <1>1, Pruning
<1> HIDE DEF m
<1>3. Apart(m, 0, 0)
  <2>1. CASE m.quarantined
    <3>1. 0 * Interval + 0 = 0
      BY TimesAssumption
    <3> QED
      BY <1>2, <2>1, <3>1 DEF Apart, LongSince
  <2>2. CASE ~m.quarantined
    BY <1>2, <2>2, TimesAssumption DEF Apart
  <2> QED
    BY <2>1, <2>2
<1> QED
  BY <1>2, <1>3 DEF Paced, Counted, f, m

(* A component that needs no remedy keeps its pace. *)
LEMMA HealthPaces ==
  ASSUME NEW s \in StateRecords, ~s.quarantined, Counted(s), NEW w
  PROVE  /\ Paced(MaybeQuarantine(AfterHealthy(s)), Cooldown, w)
         /\ Paced(MaybeQuarantine(s), Cooldown, w)
<1>1. ASSUME NEW r \in StateRecords, ~r.quarantined, Counted(r)
      PROVE  Paced(MaybeQuarantine(r), Cooldown, w)
  <2> DEFINE m == MaybeQuarantine(r)
  <2>1. /\ m \in StateRecords /\ m.cooldown = r.cooldown /\ m.attempts = Recent(r)
        /\ ~m.quarantined => Cardinality(Recent(m)) < MaxAttempts
    BY <1>1, Pruning
  <2>2. Counted(m)
    BY <1>1, <2>1 DEF Counted, Recent
  <2> HIDE DEF m
  <2>3. Apart(m, Cooldown, w)
    BY <2>1, TimesAssumption DEF Apart, LongSince
  <2> QED
    BY <2>1, <2>2, <2>3 DEF Paced, m
<1>2. AfterHealthy(s) \in StateRecords /\ ~AfterHealthy(s).quarantined /\ AfterHealthy(s).attempts = {}
  <2>1. LongerStreak(s.streak) \in 0..RecoveryStreak /\ {} \in SUBSET (0..Window + 1)
    BY TimesAssumption DEF LongerStreak, StateRecords
  <2> QED
    BY <2>1 DEF AfterHealthy, StateRecords
<1>3. Counted(AfterHealthy(s))
  BY <1>2, NoAttempts
<1> QED
  BY <1>1, <1>2, <1>3

(* A healthy check of a quarantine, an interval after the last, or one that  *)
(* finds it down: the attempt after its release still waits its cooldown.    *)
LEMMA CheckPaces ==
  ASSUME NEW s, NEW age \in 0..Cooldown, Paced(s, age, Interval), s.quarantined,
         NEW streak \in {LongerStreak(s.streak), 0}
  PROVE  LET m == [s EXCEPT !.streak = streak]
         IN Paced(IF streak >= RecoveryStreak THEN ClearQuarantine(m) ELSE m, age, 0)
<1> DEFINE m == [s EXCEPT !.streak = streak]
           r == ClearQuarantine(m)
<1>1. s \in StateRecords /\ LongSince(age, s.streak * Interval + Interval)
  BY DEF Paced, Apart
<1>2. streak \in 0..RecoveryStreak /\ s.streak \in 0..RecoveryStreak
  BY <1>1, TimesAssumption DEF LongerStreak, StateRecords
<1>3. LongSince(age, streak * Interval + 0)
  <2>1. CASE streak = s.streak + 1
    BY <1>1, <1>2, <2>1, Times DEF LongSince
  <2>2. CASE streak = s.streak
    <3>1. streak * Interval \in Nat /\ Interval \in Nat
      BY <1>2, Times, TimesAssumption
    <3> DEFINE checked == streak * Interval
    <3> HIDE DEF checked
    <3>2. LongSince(age, checked + Interval) /\ checked \in Nat
      BY <1>1, <2>2, <3>1 DEF checked
    <3>3. LongSince(age, checked + 0)
      BY <3>1, <3>2 DEF LongSince
    <3> QED
      BY <3>3 DEF checked
  <2>3. CASE streak = 0
    BY <2>3, TimesAssumption DEF LongSince
  <2> QED
    BY <2>1, <2>2, <2>3 DEF LongerStreak
<1>4. CASE streak >= RecoveryStreak
  <2>1. 0 \in 0..Cooldown /\ {} \in SUBSET (0..Window + 1) /\ streak = RecoveryStreak
    BY <1>2, <1>4, TimesAssumption
  <2>2. r \in StateRecords /\ ~r.quarantined /\ r.attempts = {}
    BY <1>1, <1>2, <2>1 DEF ClearQuarantine, StateRecords
  <2> HIDE DEF r
  <2> QED
    BY <1>3, <1>4, <2>1, <2>2, NoAttempts DEF Paced, Apart, r
<1>5. CASE ~(streak >= RecoveryStreak)
  <2>1. /\ m \in StateRecords /\ m.quarantined /\ m.streak = streak
        /\ m.attempts = s.attempts /\ m.cooldown = s.cooldown
    BY <1>1, <1>2 DEF StateRecords
  <2> HIDE DEF m
  <2>2. Counted(m)
    BY <2>1 DEF Counted, Paced
  <2> QED
    BY <1>3, <1>5, <2>1, <2>2 DEF Paced, Apart, m
<1> QED
  BY <1>4, <1>5

(* An operator who clears a quarantine starts the pace anew. *)
LEMMA ClearPaces ==
  ASSUME NEW s \in StateRecords, NEW w
  PROVE  Paced(ClearQuarantine(s), Cooldown, w)
<1> DEFINE r == ClearQuarantine(s)
<1>1. 0 \in 0..Cooldown /\ {} \in SUBSET (0..Window + 1)
  BY TimesAssumption
<1>2. r \in StateRecords /\ ~r.quarantined /\ r.attempts = {}
  BY <1>1 DEF ClearQuarantine, StateRecords
<1> HIDE DEF r
<1> QED
  BY <1>2, NoAttempts DEF Paced, Apart, LongSince, r

(* So do a restart of the process and a start of the loop. *)
LEMMA FreshPaces ==
  ASSUME NEW w
  PROVE  Paced(Fresh, Cooldown, w)
<1>1. Fresh \in StateRecords /\ Fresh.attempts = {}
  BY TimesAssumption DEF Fresh, StateRecords
<1> QED
  BY <1>1, NoAttempts DEF Paced, Apart, LongSince

LEMMA StartPaces ==
  ASSUME NEW s, NEW age, NEW w, NEW v, Paced(s, age, w)
  PROVE  Paced(s, Cooldown, v)
BY DEF Paced, Apart, LongSince

(* A shorter wait asks for less. *)
LEMMA ShorterWait ==
  ASSUME NEW s, NEW age \in 0..Cooldown, NEW w \in Nat, NEW v \in Nat, v <= w, Paced(s, age, w)
  PROVE  Paced(s, age, v)
<1>1. s.streak * Interval \in Nat /\ RecoveryStreak * Interval \in Nat
  BY Times, TimesAssumption DEF Paced, StateRecords
<1> QED
  BY <1>1 DEF Paced, Apart, LongSince

(* A unit of time makes every attempt older, and none that counts the same   *)
(* age as another.                                                           *)
LEMMA TimePaces ==
  ASSUME NEW s, NEW age \in 0..Cooldown, NEW w \in Nat, NEW v \in Nat, v <= w + 1,
         Paced(s, age, w)
  PROVE  Paced([s EXCEPT !.cooldown = Less(@),
                         !.attempts = {More(a, Window + 1) : a \in @}],
               More(age, Cooldown), v)
<1> DEFINE older == {More(a, Window + 1) : a \in s.attempts}
           m == [s EXCEPT !.cooldown = Less(@), !.attempts = {More(a, Window + 1) : a \in @}]
<1>1. s \in StateRecords /\ s.attempts \in SUBSET (0..Window + 1) /\ s.cooldown \in 0..Cooldown
  BY DEF Paced, StateRecords
<1>2. older \in SUBSET (1..Window + 1)
  BY <1>1, TimesAssumption DEF More
<1>3. Less(s.cooldown) \in 0..Cooldown /\ Less(s.cooldown) + 1 >= s.cooldown
  BY <1>1, TimesAssumption DEF Less
<1>4. 1..Window + 1 \subseteq 0..Window + 1
  BY TimesAssumption
<1>5. m = [[s EXCEPT !.cooldown = Less(s.cooldown)] EXCEPT !.attempts = older]
  BY <1>1 DEF StateRecords
<1> HIDE DEF older, m
<1>6. /\ m \in StateRecords /\ m.quarantined = s.quarantined /\ m.streak = s.streak
      /\ m.cooldown = Less(s.cooldown) /\ m.attempts = older
  BY <1>1, <1>2, <1>3, <1>4, <1>5 DEF StateRecords
<1>7. Counted(m)
  <2>1. 0 \notin m.attempts
    BY <1>2, <1>6
  <2>2. Cardinality(Recent(m)) \in Nat /\ Cardinality(Recent(m)) <= Cardinality(Recent(s))
    <3> DEFINE f == [b \in Recent(m) |-> b - 1]
    <3>1. \A b \in Recent(m) : b - 1 \in Recent(s)
      <4> SUFFICES ASSUME NEW b \in Recent(m) PROVE b - 1 \in Recent(s)
        OBVIOUS
      <4>1. PICK a \in s.attempts : b = More(a, Window + 1)
        BY <1>6 DEF Recent, older
      <4>2. a \in 0..Window + 1 /\ b <= Window
        BY <1>1 DEF Recent
      <4>3. b = a + 1
        BY <4>1, <4>2, TimesAssumption DEF More
      <4> QED
        BY <4>1, <4>2, <4>3, TimesAssumption DEF Recent
    <3>2. \A b \in Recent(m) : b \in Int
      BY <1>2, <1>6 DEF Recent
    <3>3. f \in Injection(Recent(m), Recent(s))
      <4>1. f \in [Recent(m) -> Recent(s)]
        BY <3>1
      <4>2. \A a, b \in Recent(m) : f[a] = f[b] => a = b
        BY <3>2
      <4> HIDE DEF f
      <4> QED
        BY <4>1, <4>2 DEF Injection, IsInjective
    <3> QED
      BY <3>3, <1>1, <1>6, RecentFinite, FS_Injection
  <2>3. Cardinality(Recent(s)) \in Nat
    BY <1>1, RecentFinite
  <2> QED
    BY <1>6, <2>1, <2>2, <2>3, TimesAssumption DEF Paced, Counted
<1>8. Apart(m, More(age, Cooldown), v)
  <2>1. m.streak * Interval \in Nat /\ RecoveryStreak * Interval \in Nat
    <3>1. m.streak \in Nat /\ RecoveryStreak \in Nat
      BY <1>6, TimesAssumption DEF StateRecords
    <3> QED
      BY <3>1, Times
  <2>2. More(age, Cooldown) = Cooldown \/ More(age, Cooldown) = age + 1
    BY TimesAssumption DEF More
  <2>3. Apart(s, age, w)
    BY DEF Paced
  <2>4. /\ \A n \in Nat : LongSince(age, n + w) => LongSince(More(age, Cooldown), n + v)
        /\ age + s.cooldown >= Cooldown =>
             \/ More(age, Cooldown) = Cooldown
             \/ More(age, Cooldown) + m.cooldown >= Cooldown
    <3>1. age = Cooldown => More(age, Cooldown) = Cooldown
      BY TimesAssumption DEF More
    <3>2. \A n \in Nat : LongSince(age, n + w) => LongSince(More(age, Cooldown), n + v)
      BY <2>2, <3>1 DEF LongSince
    <3>3. m.cooldown \in 0..Cooldown /\ m.cooldown + 1 >= s.cooldown
      BY <1>3, <1>6
    <3> QED
      BY <1>1, <2>2, <3>2, <3>3, TimesAssumption
  <2>5. More(age, Cooldown) = Cooldown => \A n : LongSince(More(age, Cooldown), n)
    BY DEF LongSince
  <2> QED
    BY <1>6, <2>1, <2>3, <2>4, <2>5 DEF Apart
<1> QED
  BY <1>6, <1>7, <1>8 DEF Paced, m

--------------------------------------------------------------------------
(* When the loop is done with a component, it has waited for it; for the     *)
(* others the wait goes on, and none is looked at twice.                     *)
LEMMA PassingWait ==
  ASSUME LoopType, OnceEach, loop.at # "asleep", loop.left # <<>>, PassOn,
         NEW d \in Components, d = Current
  PROVE  /\ OnceEach' /\ loop'.at # "asleep"
         /\ Waited(d) = Interval /\ Waited(d)' = 0
         /\ \A c \in Components : c # d => Waited(c)' = Waited(c)
<1>1. loop.left \in Seq(Components) /\ loop' = [[loop EXCEPT !.at = "next"] EXCEPT !.left = Tail(loop.left)]
  BY DEF LoopType, PassOn
<1>2. loop'.left = Tail(loop.left) /\ loop'.at = "next"
  BY <1>1 DEF LoopType
<1>3. /\ Len(loop.left) \in Nat \ {0} /\ DOMAIN loop.left = 1..Len(loop.left)
      /\ DOMAIN loop'.left = 1..Len(loop.left) - 1
      /\ \A i \in 1..Len(loop.left) - 1 : loop'.left[i] = loop.left[i + 1]
      /\ d = loop.left[1]
  BY <1>1, <1>2 DEF Current
<1>4. OnceEach'
  <2> SUFFICES ASSUME NEW i \in DOMAIN loop'.left, NEW j \in DOMAIN loop'.left,
                      loop'.left[i] = loop'.left[j]
               PROVE  i = j
    BY DEF OnceEach
  <2>1. /\ i \in 1..Len(loop.left) - 1 /\ j \in 1..Len(loop.left) - 1
        /\ loop.left[i + 1] = loop.left[j + 1]
    BY <1>3
  <2>2. i + 1 \in DOMAIN loop.left /\ j + 1 \in DOMAIN loop.left
    BY <1>3, <2>1
  <2>3. i + 1 = j + 1
    BY <2>1, <2>2 DEF OnceEach
  <2> QED
    BY <2>1, <2>3
<1>5. Due(d) /\ ~Due(d)'
  <2>1. Due(d)
    BY <1>3 DEF Due
  <2>2. ASSUME NEW i \in DOMAIN loop'.left, loop'.left[i] = d
        PROVE  FALSE
    <3>1. i \in 1..Len(loop.left) - 1 /\ loop.left[i + 1] = loop.left[1]
      BY <1>3, <2>2
    <3>2. i + 1 \in DOMAIN loop.left /\ 1 \in DOMAIN loop.left
      BY <1>3, <3>1
    <3> QED
      BY <3>1, <3>2 DEF OnceEach
  <2> QED
    BY <2>1, <2>2 DEF Due
<1>6. ASSUME NEW c \in Components, c # d
      PROVE  Due(c)' <=> Due(c)
  <2>1. ASSUME NEW i \in DOMAIN loop.left, loop.left[i] = c
        PROVE  i - 1 \in DOMAIN loop'.left /\ loop'.left[i - 1] = c
    BY <1>3, <1>6, <2>1
  <2>2. ASSUME NEW i \in DOMAIN loop'.left, loop'.left[i] = c
        PROVE  i + 1 \in DOMAIN loop.left /\ loop.left[i + 1] = c
    BY <1>3, <2>2
  <2> QED
    BY <2>1, <2>2 DEF Due
<1> QED
  BY <1>2, <1>4, <1>5, <1>6 DEF Waited

(* Where no component's state or last attempt changes, and no wait grows.    *)
LEMMA NoOneAttempts ==
  ASSUME TypeOK, AllPaced, UNCHANGED <<state, since>>, LoopType', OnceEach',
         \A c \in Components : Waited(c)' <= Waited(c)
  PROVE  AllPaced'
<1> SUFFICES ASSUME NEW c \in Components PROVE Paced(state[c], since[c], Waited(c)')
  BY DEF AllPaced
<1>1. Waited(c) \in Nat /\ since[c] \in 0..Cooldown
  BY TimesAssumption DEF TypeOK, LoopType, Waited
<1>2. Waited(c)' \in Nat
  BY TimesAssumption DEF LoopType, Waited
<1> QED
  BY <1>1, <1>2, ShorterWait DEF AllPaced

(* A step that the loop takes for one component paces the others as before. *)
LEMMA OnePaced ==
  ASSUME LoopInv, loop.at # "asleep", loop.left # <<>>, PassOn,
         NEW c \in Components, c = Current,
         NEW s, NEW age \in 0..Cooldown, Paced(s, age, 0),
         state' = [state EXCEPT ![c] = s], since' = [since EXCEPT ![c] = age]
  PROVE  AllPaced' /\ OnceEach' /\ AttemptIsDue' /\ LoopType'
<1>1. LoopType /\ OnceEach /\ state \in [Components -> StateRecords]
      /\ since \in [Components -> 0..Cooldown]
  BY DEF LoopInv, TypeOK, LoopType, StateRecords
<1>2. /\ OnceEach' /\ Waited(c)' = 0
      /\ \A d \in Components : d # c => Waited(d)' = Waited(d)
  BY <1>1, PassingWait
<1>3. LoopType' /\ loop'.at = "next"
  BY <1>1, Passing
<1>4. /\ state'[c] = s /\ since'[c] = age
      /\ \A d \in Components : d # c => state'[d] = state[d] /\ since'[d] = since[d]
  BY <1>1
<1>5. \A d \in Components : Paced(state'[d], since'[d], Waited(d)')
  BY <1>2, <1>4 DEF LoopInv, AllPaced
<1> QED
  BY <1>2, <1>3, <1>5 DEF AllPaced, AttemptIsDue

(* What the steps below leave of the types. *)
Others ==
  /\ world \in [Components -> World]
  /\ metric \in [Components -> Metrics \cup {None}]
  /\ restarts \in 0..MaxRestarts

LEMMA Types ==
  TypeOK <=> /\ HoldsType /\ LoopType /\ Others
             /\ state \in [Components -> StateRecords]
             /\ since \in [Components -> 0..Cooldown]
BY DEF TypeOK, HoldsType, LoopType, Others, StateRecords

(* The guards passed: a cooldown is over, or a quarantine and the interval   *)
(* after it were as long.                                                    *)
LEMMA DueAttempt ==
  ASSUME LoopInv, NEW c \in Components, BeginAttempt(c)
  PROVE  /\ ~state[c].quarantined /\ since[c] = Cooldown /\ 0 \notin state[c].attempts
<1>1. /\ loop.at = "next" /\ loop.left # <<>> /\ c = Current
      /\ ~state[c].quarantined /\ state[c].cooldown = 0
  BY DEF BeginAttempt, Turn
<1>2. Paced(state[c], since[c], Waited(c)) /\ since[c] \in 0..Cooldown
  BY DEF LoopInv, TypeOK, AllPaced
<1>3. Waited(c) = Interval
  <2>1. loop.left \in Seq(Components)
    BY DEF LoopInv, TypeOK
  <2>2. 1 \in DOMAIN loop.left /\ loop.left[1] = c
    BY <1>1, <2>1 DEF Current
  <2> QED
    BY <1>1, <2>2 DEF Waited, Due
<1>4. since[c] = Cooldown
  <2>1. \/ since[c] + 0 >= Cooldown \/ since[c] = Cooldown
        \/ since[c] >= RecoveryStreak * Interval + Interval
    BY <1>1, <1>2, <1>3 DEF Paced, Apart, LongSince
  <2> DEFINE checks == RecoveryStreak * Interval
  <2>2. checks \in Nat /\ checks + Interval >= Cooldown
    BY Times, TimesAssumption
  <2> HIDE DEF checks
  <2>3. since[c] + 0 >= Cooldown \/ since[c] = Cooldown \/ since[c] >= checks + Interval
    BY <2>1 DEF checks
  <2> QED
    BY <1>2, <2>2, <2>3, TimesAssumption
<1> QED
  BY <1>1, <1>2, <1>4, TimesAssumption DEF Paced, Counted

(* Every step of the loop keeps its pace. *)
LEMMA LoopPaces ==
  ASSUME HoldInv, LoopInv, LoopStep
  PROVE  OnceEach' /\ AttemptIsDue' /\ AllPaced'
<1>1. ASSUME StartCycle
      PROVE  OnceEach' /\ AttemptIsDue' /\ AllPaced'
  <2>1. /\ LoopType /\ loop.wait = 0 /\ loop.at = "asleep" /\ UNCHANGED <<state, since>>
        /\ loop' = [[loop EXCEPT !.at = "next"] EXCEPT !.left = Policy]
    BY <1>1 DEF StartCycle, HoldInv
  <2>2. loop'.at = "next" /\ loop'.left = Policy /\ LoopType'
    BY <2>1, PolicyAssumption DEF LoopType, Places
  <2>3. OnceEach'
    BY <2>2, PolicyAssumption DEF OnceEach
  <2>4. \A c \in Components : Waited(c)' <= Waited(c)
    BY <2>1, <2>2, TimesAssumption DEF Waited
  <2> QED
    BY <2>1, <2>2, <2>3, <2>4, NoOneAttempts DEF LoopInv, AttemptIsDue
<1>2. ASSUME EndCycle
      PROVE  OnceEach' /\ AttemptIsDue' /\ AllPaced'
  <2>1. /\ LoopType /\ loop.at = "next" /\ loop.left = <<>> /\ UNCHANGED <<state, since>>
        /\ loop' = [[loop EXCEPT !.at = "asleep"] EXCEPT !.wait = Interval]
    BY <1>2 DEF EndCycle, HoldInv
  <2>2. loop'.at = "asleep" /\ loop'.left = loop.left /\ loop'.wait = Interval /\ LoopType'
    <3>1. Interval \in 0..Interval
      BY TimesAssumption
    <3> QED
      BY <2>1, <3>1 DEF LoopType, Places
  <2>3. OnceEach'
    BY <2>2 DEF LoopInv, OnceEach
  <2>4. \A c \in Components : Waited(c)' <= Waited(c)
    BY <2>1, <2>2, TimesAssumption DEF Waited
  <2> QED
    BY <2>1, <2>2, <2>3, <2>4, NoOneAttempts DEF LoopInv, AttemptIsDue
<1>3. ASSUME NEW c \in Components, CheckRecovery(c)
      PROVE  OnceEach' /\ AttemptIsDue' /\ AllPaced'
  <2> DEFINE streak == IF world[c] = "running" THEN LongerStreak(state[c].streak) ELSE 0
             s == [state[c] EXCEPT !.streak = streak]
             r == IF streak >= RecoveryStreak THEN ClearQuarantine(s) ELSE s
  <2>1. /\ loop.at = "next" /\ loop.left # <<>> /\ c = Current /\ PassOn
        /\ state[c].quarantined /\ since' = since
        /\ state' = [state EXCEPT ![c] = r]
    BY <1>3 DEF CheckRecovery, Turn
  <2>2. Waited(c) = Interval
    BY <2>1, PassingWait DEF LoopInv, HoldInv
  <2>3. Paced(state[c], since[c], Interval) /\ since \in [Components -> 0..Cooldown]
    BY <2>2 DEF LoopInv, AllPaced, TypeOK
  <2>4. Paced(r, since[c], 0)
    BY <2>1, <2>3, CheckPaces
  <2>5. since' = [since EXCEPT ![c] = since[c]]
    BY <2>1, <2>3
  <2> HIDE DEF r
  <2> QED
    BY <2>1, <2>3, <2>4, <2>5, OnePaced
<1>4. ASSUME NEW c \in Components, AwaitApproval(c) \/ SkipCooldown(c)
      PROVE  OnceEach' /\ AttemptIsDue' /\ AllPaced'
  <2>1. /\ loop.at = "next" /\ loop.left # <<>> /\ c = Current /\ PassOn
        /\ UNCHANGED <<state, since>>
    BY <1>4 DEF AwaitApproval, SkipCooldown, Turn
  <2>2. /\ OnceEach' /\ loop'.at # "attempt" /\ LoopType'
        /\ Waited(c) = Interval /\ Waited(c)' = 0
        /\ \A d \in Components : d # c => Waited(d)' = Waited(d)
    BY <2>1, PassingWait, Passing DEF LoopInv, HoldInv
  <2>3. \A d \in Components : Waited(d) \in Int
    BY TimesAssumption DEF Waited, HoldInv, LoopType
  <2>4. \A d \in Components : Waited(d)' <= Waited(d)
    BY <2>2, <2>3, TimesAssumption
  <2> QED
    BY <2>1, <2>2, <2>4, NoOneAttempts DEF LoopInv, AttemptIsDue
<1>5. ASSUME NEW c \in Components, BeginAttempt(c)
      PROVE  OnceEach' /\ AttemptIsDue' /\ AllPaced'
  <2>1. /\ loop.at = "next" /\ loop.left # <<>> /\ c = Current /\ UNCHANGED <<state, since>>
        /\ loop' = [loop EXCEPT !.at = "attempt"] /\ LoopType
    BY <1>5 DEF BeginAttempt, Turn, HoldInv
  <2>2. loop'.at = "attempt" /\ loop'.left = loop.left /\ LoopType'
    BY <2>1 DEF LoopType, Places
  <2>3. OnceEach' /\ Current' = c
    BY <2>1, <2>2 DEF LoopInv, OnceEach, Current
  <2>4. \A d \in Components : Waited(d) \in Int /\ Waited(d)' = Waited(d)
    BY <2>1, <2>2, TimesAssumption DEF Waited, Due
  <2>5. AttemptIsDue'
    BY <1>5, <2>1, <2>2, <2>3, DueAttempt DEF AttemptIsDue
  <2> QED
    BY <2>1, <2>2, <2>3, <2>4, <2>5, NoOneAttempts DEF LoopInv
<1>6. ASSUME NEW c \in Components, NothingToRemedy(c)
      PROVE  OnceEach' /\ AttemptIsDue' /\ AllPaced'
  <2> DEFINE s == MaybeQuarantine(IF Outcome(c) = "no_remediation" THEN AfterHealthy(state[c])
                                  ELSE state[c])
  <2>1. /\ loop.at = "attempt" /\ c = Current /\ PassOn /\ since' = since
        /\ state' = [state EXCEPT ![c] = s]
    BY <1>6 DEF NothingToRemedy, Attempting
  <2>2. /\ loop.left # <<>> /\ ~state[c].quarantined /\ since[c] = Cooldown
        /\ since \in [Components -> 0..Cooldown]
    BY <2>1 DEF LoopInv, AttemptIsDue, TypeOK
  <2>3. state[c] \in StateRecords /\ Counted(state[c])
    BY DEF LoopInv, AllPaced, Paced
  <2>4. Paced(s, Cooldown, 0)
    BY <2>2, <2>3, HealthPaces
  <2>5. since' = [since EXCEPT ![c] = Cooldown] /\ Cooldown \in 0..Cooldown
    BY <2>1, <2>2
  <2> HIDE DEF s
  <2> QED
    BY <2>1, <2>2, <2>4, <2>5, OnePaced
<1>7. ASSUME NEW c \in Components, HoldForApproval(c) \/ DeniedByPolicy(c) \/ AttemptRaises(c)
      PROVE  OnceEach' /\ AttemptIsDue' /\ AllPaced'
  <2> DEFINE s == MaybeQuarantine(RegisterFailure(state[c]))
  <2>1. /\ loop.at = "attempt" /\ c = Current /\ PassOn
        /\ since' = [since EXCEPT ![c] = 0] /\ state' = [state EXCEPT ![c] = s]
    BY <1>7 DEF HoldForApproval, DeniedByPolicy, AttemptRaises, CountAttempt, Attempting
  <2>2. loop.left # <<>> /\ ~state[c].quarantined /\ state[c] \in StateRecords
    BY <2>1 DEF LoopInv, AttemptIsDue, AllPaced, Paced
  <2>3. Paced(s, 0, 0) /\ 0 \in 0..Cooldown
    BY <2>2, FailurePaces, TimesAssumption
  <2> HIDE DEF s
  <2> QED
    BY <2>1, <2>2, <2>3, OnePaced
<1> QED
  BY <1>1, <1>2, <1>3, <1>4, <1>5, <1>6, <1>7 DEF LoopStep

(* Whoever runs beside the loop keeps its pace, or starts it anew. *)
LEMMA OthersPace ==
  ASSUME HoldInv, LoopInv,
         \/ Stop \/ Start \/ Tick \/ Restart
         \/ \E c \in Components : Clear(c) \/ Remediate(c) \/ Change(c)
         \/ \E h \in HoldIds : Decide(h)
  PROVE  OnceEach' /\ AttemptIsDue' /\ AllPaced'
<1>1. ASSUME \/ \E c \in Components : Remediate(c) \/ Change(c)
             \/ \E h \in HoldIds : Decide(h)
      PROVE  OnceEach' /\ AttemptIsDue' /\ AllPaced'
  <2>1. UNCHANGED <<state, since>> /\ loop' = loop
    BY <1>1 DEF Remediate, Change, Decide
  <2> QED
    BY <2>1 DEF LoopInv, OnceEach, AttemptIsDue, AllPaced, Waited, Due, Current
<1>2. ASSUME Stop
      PROVE  OnceEach' /\ AttemptIsDue' /\ AllPaced'
  <2>1. /\ UNCHANGED <<state, since>> /\ loop'.at = loop.at
        /\ loop'.left = loop.left /\ loop'.wait = loop.wait
    BY <1>2 DEF Stop, HoldInv, LoopType
  <2> QED
    BY <2>1 DEF LoopInv, OnceEach, AttemptIsDue, AllPaced, Waited, Due, Current
<1>3. ASSUME Start
      PROVE  OnceEach' /\ AttemptIsDue' /\ AllPaced'
  <2>1. /\ state' = state /\ since' = [c \in Components |-> Cooldown]
        /\ loop'.at = loop.at /\ loop'.left = loop.left
    BY <1>3 DEF Start, HoldInv, LoopType
  <2>2. AllPaced'
    BY <2>1, StartPaces DEF LoopInv, AllPaced
  <2>3. AttemptIsDue'
    <3> SUFFICES ASSUME loop'.at = "attempt"
                 PROVE  /\ loop'.left # <<>> /\ ~state'[Current'].quarantined
                        /\ since'[Current'] = Cooldown /\ 0 \notin state'[Current'].attempts
      BY DEF AttemptIsDue
    <3>1. Current' = Current /\ loop.left # <<>> /\ loop.left \in Seq(Components)
      BY <2>1 DEF LoopInv, AttemptIsDue, TypeOK, Current
    <3>2. Current \in Components
      BY <3>1 DEF Current
    <3> QED
      BY <2>1, <3>1, <3>2 DEF LoopInv, AttemptIsDue
  <2> QED
    BY <2>1, <2>2, <2>3 DEF LoopInv, OnceEach
<1>4. ASSUME NEW c \in Components, Clear(c)
      PROVE  OnceEach' /\ AttemptIsDue' /\ AllPaced'
  <2>1. /\ state' = [state EXCEPT ![c] = ClearQuarantine(state[c])]
        /\ since' = [since EXCEPT ![c] = Cooldown] /\ loop' = loop /\ state[c].quarantined
    BY <1>4 DEF Clear
  <2>2. /\ state \in [Components -> StateRecords] /\ since \in [Components -> 0..Cooldown]
        /\ LoopType
    BY Types DEF LoopInv
  <2>3. \A d \in Components : Waited(d)' = Waited(d)
    BY <2>1 DEF Waited, Due
  <2>4. AllPaced'
    <3>1. \A w : Paced(ClearQuarantine(state[c]), Cooldown, w)
      BY <2>2, ClearPaces
    <3>2. state'[c] = ClearQuarantine(state[c]) /\ since'[c] = Cooldown
      BY <2>1, <2>2
    <3>3. \A d \in Components : d # c => state'[d] = state[d] /\ since'[d] = since[d]
      BY <2>1, <2>2
    <3>4. \A d \in Components : Paced(state'[d], since'[d], Waited(d)')
      BY <2>3, <3>1, <3>2, <3>3 DEF LoopInv, AllPaced
    <3> QED
      BY <3>4 DEF AllPaced
  <2>5. AttemptIsDue'
    <3> SUFFICES ASSUME loop.at = "attempt"
                 PROVE  /\ loop.left # <<>> /\ ~state'[Current].quarantined
                        /\ since'[Current] = Cooldown /\ 0 \notin state'[Current].attempts
      BY <2>1 DEF AttemptIsDue, Current
    <3>1. loop.left # <<>> /\ ~state[Current].quarantined
      BY DEF LoopInv, AttemptIsDue
    <3>2. Current # c
      BY <2>1, <3>1
    <3>3. state'[Current] = state[Current] /\ since'[Current] = since[Current]
      BY <2>1, <2>2, <3>2
    <3> QED
      BY <3>3 DEF LoopInv, AttemptIsDue
  <2> QED
    BY <2>1, <2>4, <2>5 DEF LoopInv, OnceEach
<1>5. ASSUME Tick
      PROVE  OnceEach' /\ AttemptIsDue' /\ AllPaced'
  <2>1. /\ loop.at = "asleep" /\ LoopType
        /\ loop' = [loop EXCEPT !.wait = Less(loop.wait)]
    BY <1>5 DEF Tick, HoldInv
  <2>2. loop'.at = "asleep" /\ loop'.left = loop.left /\ loop'.wait = Less(loop.wait)
    BY <2>1 DEF LoopType
  <2>3. \A c \in Components :
          Waited(c) \in Nat /\ Waited(c)' \in Nat /\ Waited(c)' <= Waited(c) + 1
    BY <2>1, <2>2, TimesAssumption DEF Waited, LoopType, Less
  <2>4. \A c \in Components : since[c] \in 0..Cooldown /\ Paced(state[c], since[c], Waited(c))
    BY DEF LoopInv, TypeOK, AllPaced
  <2>5. \A c \in Components :
          Paced([state[c] EXCEPT !.cooldown = Less(@),
                                 !.attempts = {More(a, Window + 1) : a \in @}],
                More(since[c], Cooldown), Waited(c)')
    BY <2>3, <2>4, TimePaces
  <2>6. AllPaced'
    BY <1>5, <2>5 DEF AllPaced, Tick
  <2> QED
    BY <2>2, <2>6 DEF LoopInv, OnceEach, AttemptIsDue
<1>6. ASSUME Restart
      PROVE  OnceEach' /\ AttemptIsDue' /\ AllPaced'
  <2>1. /\ loop' = [enabled |-> TRUE, at |-> "asleep", left |-> <<>>, wait |-> 0]
        /\ state' = [c \in Components |-> Fresh] /\ since' = [c \in Components |-> Cooldown]
    BY <1>6 DEF Restart
  <2>2. AllPaced'
    BY <2>1, FreshPaces DEF AllPaced
  <2> QED
    BY <2>1, <2>2 DEF OnceEach, AttemptIsDue
<1> QED
  BY <1>1, <1>2, <1>3, <1>4, <1>5, <1>6

(* The rest of the types: what the collector writes, and the restarts.       *)
LEMMA OthersTyped ==
  ASSUME TypeOK, Next
  PROVE  Others' /\ since' \in [Components -> 0..Cooldown]
<1>1. Others /\ since \in [Components -> 0..Cooldown]
  BY Types
<1>2. 0 \in 0..Cooldown /\ Cooldown \in 0..Cooldown
  BY TimesAssumption
<1>3. CASE LoopStep
  <2>1. UNCHANGED <<world, metric, restarts>>
    BY <1>3 DEF LoopStep, StartCycle, EndCycle, CheckRecovery, AwaitApproval, SkipCooldown,
                BeginAttempt, NothingToRemedy, HoldForApproval, DeniedByPolicy, AttemptRaises,
                CountAttempt
  <2>2. since' = since \/ \E c \in Components : since' = [since EXCEPT ![c] = 0]
    BY <1>3 DEF LoopStep, StartCycle, EndCycle, CheckRecovery, AwaitApproval, SkipCooldown,
                BeginAttempt, NothingToRemedy, HoldForApproval, DeniedByPolicy, AttemptRaises,
                CountAttempt
  <2> QED
    BY <1>1, <1>2, <2>1, <2>2 DEF Others
<1>4. CASE Stop \/ Start \/ (\E c \in Components : Clear(c) \/ Remediate(c))
           \/ (\E h \in HoldIds : Decide(h))
  <2>1. UNCHANGED <<world, metric, restarts>>
    BY <1>4 DEF Stop, Start, Clear, Remediate, Decide
  <2>2. \/ since' = since \/ since' = [c \in Components |-> Cooldown]
        \/ \E c \in Components : since' = [since EXCEPT ![c] = Cooldown]
    BY <1>4 DEF Stop, Start, Clear, Remediate, Decide
  <2> QED
    BY <1>1, <1>2, <2>1, <2>2 DEF Others
<1>5. ASSUME NEW c \in Components, Change(c)
      PROVE  Others' /\ since' \in [Components -> 0..Cooldown]
  <2>1. PICK w \in World : world' = [world EXCEPT ![c] = w]
    BY <1>5 DEF Change
  <2>2. UNCHANGED <<metric, restarts, since>>
    BY <1>5 DEF Change
  <2> QED
    BY <1>1, <2>1, <2>2 DEF Others
<1>6. CASE Tick
  <2>1. UNCHANGED <<world, restarts>> /\ metric' = [c \in Components |-> Collected(c)]
        /\ since' = [c \in Components |-> More(since[c], Cooldown)]
    BY <1>6 DEF Tick
  <2>2. ASSUME NEW c \in Components
        PROVE  Collected(c) \in Metrics \cup {None}
    <3>1. world[c] \in World /\ metric[c] \in Metrics \cup {None}
      BY <1>1 DEF Others
    <3>2. CASE world[c] # "gone"
      <4>1. world[c] \in {"running", "exited"} /\ 0 \in 0..StaleAfter + 1
        BY <3>1, <3>2, TimesAssumption DEF World
      <4> QED
        BY <3>2, <4>1 DEF Collected, Metrics
    <3>3. CASE world[c] = "gone" /\ metric[c] # None
      <4>1. metric[c] \in Metrics
        BY <3>1, <3>3
      <4>2. More(metric[c].age, StaleAfter + 1) \in 0..StaleAfter + 1
        BY <4>1, TimesAssumption DEF Metrics, More
      <4>3. Collected(c) = [metric[c] EXCEPT !.age = More(metric[c].age, StaleAfter + 1)]
        BY <3>3 DEF Collected
      <4> QED
        BY <4>1, <4>2, <4>3 DEF Metrics
    <3> QED
      BY <3>2, <3>3 DEF Collected
  <2>3. \A c \in Components : More(since[c], Cooldown) \in 0..Cooldown
    BY <1>1, TimesAssumption DEF More
  <2> QED
    BY <1>1, <2>1, <2>2, <2>3 DEF Others
<1>7. CASE Restart
  <2>1. /\ UNCHANGED <<world, metric>> /\ restarts < MaxRestarts /\ restarts' = restarts + 1
        /\ since' = [c \in Components |-> Cooldown]
    BY <1>7 DEF Restart
  <2> QED
    BY <1>1, <1>2, <2>1, TimesAssumption DEF Others
<1> QED
  BY <1>3, <1>4, <1>5, <1>6, <1>7 DEF Next

(* state is a function of the components in every step. *)
LEMMA StateTyped ==
  ASSUME TypeOK, Next, AllPaced'
  PROVE  state' \in [Components -> StateRecords]
<1>1. state' = [c \in Components |-> state'[c]]
  <2>1. state \in [Components -> StateRecords]
    BY Types
  <2>2. \/ state' = state
        \/ \E c \in Components : \E s : state' = [state EXCEPT ![c] = s]
    \/ Tick \/ Restart
    BY DEF Next, LoopStep, StartCycle, EndCycle, CheckRecovery, AwaitApproval, SkipCooldown,
           BeginAttempt, NothingToRemedy, HoldForApproval, DeniedByPolicy, AttemptRaises,
           CountAttempt, Stop, Start, Clear, Remediate, Change, Decide
  <2>3. CASE state' = state \/ \E c \in Components : \E s : state' = [state EXCEPT ![c] = s]
    BY <2>1, <2>3
  <2>4. CASE Tick \/ Restart
    BY <2>4 DEF Tick, Restart
  <2> QED
    BY <2>2, <2>3, <2>4
<1> QED
  BY <1>1 DEF AllPaced, Paced

LEMMA InitPaced == Init => HoldInv /\ LoopInv
<1> SUFFICES ASSUME Init PROVE HoldInv /\ LoopInv
  OBVIOUS
<1>1. HoldInv
  BY InitHolds
<1>2. OnceEach /\ AttemptIsDue
  BY DEF Init, OnceEach, AttemptIsDue
<1>3. AllPaced
  BY FreshPaces DEF Init, AllPaced
<1>4. TypeOK
  <2>1. state \in [Components -> StateRecords]
    BY <1>3 DEF Init, AllPaced, Paced
  <2>2. Others /\ since \in [Components -> 0..Cooldown]
    BY TimesAssumption DEF Init, Others
  <2> QED
    BY <1>1, <2>1, <2>2, Types DEF HoldInv
<1> QED
  BY <1>1, <1>2, <1>3, <1>4 DEF LoopInv

LEMMA StepPaced == HoldInv /\ LoopInv /\ [Next]_vars => HoldInv' /\ LoopInv'
<1> SUFFICES ASSUME HoldInv, LoopInv, [Next]_vars PROVE HoldInv' /\ LoopInv'
  OBVIOUS
<1>1. CASE UNCHANGED vars
  <2>1. HoldInv'
    BY <1>1, StepHolds
  <2>2. TypeOK'
    BY <1>1 DEF vars, LoopInv, TypeOK
  <2>3. OnceEach' /\ AttemptIsDue' /\ AllPaced'
    BY <1>1 DEF vars, LoopInv, OnceEach, AttemptIsDue, AllPaced, Waited, Due, Current
  <2> QED
    BY <2>1, <2>2, <2>3 DEF LoopInv
<1>2. CASE Next
  <2>1. HoldInv'
    BY <1>2, StepHolds
  <2>2. OnceEach' /\ AttemptIsDue' /\ AllPaced'
    BY <1>2, LoopPaces, OthersPace DEF Next
  <2>3. Others' /\ since' \in [Components -> 0..Cooldown] /\ state' \in [Components -> StateRecords]
    BY <1>2, <2>2, OthersTyped, StateTyped DEF LoopInv
  <2>4. TypeOK'
    BY <2>1, <2>3 DEF HoldInv, TypeOK, HoldsType, LoopType, Others, StateRecords
  <2> QED
    BY <2>1, <2>2, <2>4 DEF LoopInv
<1> QED
  BY <1>1, <1>2

(* The loop's state keeps its types, and the pace of every component, its    *)
(* attempt and its quarantine, is what LoopInv says.                         *)
THEOREM LoopInvariant == Spec => [](HoldInv /\ LoopInv)
BY InitPaced, StepPaced, PTL DEF Spec

(* For every policy, cadence and bound. *)
THEOREM TypeCorrect == Spec => []TypeOK
<1>1. HoldInv /\ LoopInv => TypeOK
  BY DEF LoopInv
<1> QED
  BY <1>1, LoopInvariant, PTL

(* The flap guard (_maybe_quarantine): a component that is not quarantined   *)
(* had fewer attempts in the window than the threshold, however its attempts *)
(* ended, healthy checks forgot them, operators cleared it and the loop was  *)
(* restarted.                                                                *)
THEOREM FlapGuarded == Spec => []FlapGuard
<1>1. HoldInv /\ LoopInv => FlapGuard
  BY DEF LoopInv, AllPaced, Paced, Counted, FlapGuard
<1> QED
  BY <1>1, LoopInvariant, PTL

(* Two attempts on a component are a cooldown apart, across the quarantine   *)
(* that forgets it: the checks of the release and the interval after it are  *)
(* as long, which is what the cadence is assumed for.                        *)
THEOREM CooldownIsKept == Spec => CooldownKept
<1>1. LoopInv => [\A c \in Components : Attempting(c) /\ since'[c] = 0 => since[c] = Cooldown]_vars
  BY DEF LoopInv, AttemptIsDue, Attempting
<1>2. HoldInv /\ LoopInv => LoopInv
  OBVIOUS
<1> QED
  BY <1>1, <1>2, LoopInvariant, PTL DEF CooldownKept
==========================================================================
