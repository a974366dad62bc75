-------------------------- MODULE ServicesProofs ---------------------------
(***************************************************************************)
(* Two services that share no state: the holds of commands, for any number *)
(* of commands, rules, operators, failed writes and restarts, and the      *)
(* health of the platform, for any number of containers and threads.       *)
(* Of the holds: a recommended approval was earned, and the record of a    *)
(* hold that operators decided one way shows what the hook did, when the   *)
(* decision is in its row.  The argument: a hold is made once, its row     *)
(* differs from it by no more than a decision that is not saved, and a     *)
(* status other than "pending" was written by an operator.                 *)
(* Of health: what is evaluated healthy ran lately.  The argument: a       *)
(* reading that says so is never ahead of the container that it read, a    *)
(* row at most by the time that a reading is on its way.                   *)
(***************************************************************************)
EXTENDS CommandHolds, PlatformHealth, FiniteSetTheorems, TLAPS

CommandAssumption ==
    IsFiniteSet(Commands) /\ MaxLives \in Nat \ {0} /\ MaxLosses \in Nat

Hold == [rule : Rules \cup {NoRule}, verdict : {"approve", "reject"},
         status : {"pending", "approved", "rejected"},
         tally : {"none", "approve", "reject", "neutral"}]

(* What is not proposed has no hold, and nobody decided it. *)
Unproposed(c) ==
    hook[c] = "idle" =>
        held[c] = NoHold /\ heldDisk[c] = NoHold /\ decisions[c] = {}

(* A hold of which the hook has the id has a row, which differs from it by *)
(* no more than a decision that is not saved.                              *)
Known(c) == hook[c] \in {"polling", "ran", "blocked"}

Rowed(c) ==
    /\ heldDisk[c].rule \in {held[c].rule, NoRule}
    /\ heldDisk[c].rule # NoRule =>
          heldDisk[c].verdict = held[c].verdict /\ heldDisk[c].tally = held[c].tally
    /\ Known(c) => heldDisk[c].rule = held[c].rule
    /\ Known(c) /\ c \notin unsaved => heldDisk[c].status = held[c].status

(* Only an operator's decision moves a status. *)
Stated(c) ==
    /\ held[c].status # "pending" => held[c].status \in decisions[c]
    /\ heldDisk[c].status # "pending" => heldDisk[c].status \in decisions[c]
    /\ Known(c) /\ c \notin unsaved /\ decisions[c] # {} => held[c].status # "pending"

(* The hook obeyed a decision. *)
Obeyed(c) ==
    /\ hook[c] = "ran" => "approved" \in decisions[c]
    /\ hook[c] = "blocked" => "rejected" \in decisions[c]

Advised(c) ==
    held[c].rule # NoRule /\ held[c].verdict = "approve" =>
        /\ held[c].rule \notin HighRules
        /\ \E o \in Commands \ {c} :
              "approved" \in decisions[o] /\ held[o].rule \in {held[c].rule, NoRule}

Sane(c) == Unproposed(c) /\ Rowed(c) /\ Stated(c) /\ Obeyed(c) /\ Advised(c)

(* A thread decides a hold that there is, and what it saves is in the list. *)
Deciding(d) ==
    /\ ~Idle(d) => held[deciding[d][1]].rule # NoRule
    /\ d \in saving =>
          /\ ~Idle(d)
          /\ held[deciding[d][1]].status = Decision(deciding[d][2])

Inv ==
    /\ CommandTypeOK
    /\ \A c \in Commands : Sane(c)
    /\ \A d \in Deciders : Deciding(d)

-----------------------------------------------------------------------------
(* The review.                                                             *)

LEMMA TallyTable ==
    ASSUME NEW rule, IsFiniteSet(Commands)
    PROVE  /\ Tally(rule) \in {"none", "approve", "reject", "neutral"}
           /\ Tally(rule) = "approve" => WithStatus(rule, "approved") # {}
<1> DEFINE approved == Cardinality(WithStatus(rule, "approved"))
           rejected == Cardinality(WithStatus(rule, "rejected"))
<1>1. approved \in Nat /\ rejected \in Nat
  BY FS_Subset, FS_CardinalityType DEF WithStatus
<1>2. WithStatus(rule, "approved") = {} => approved = 0
  BY FS_EmptySet
<1>3. Tally(rule) = CASE approved + rejected = 0 -> "none"
                      [] rejected > approved -> "reject"
                      [] approved > rejected -> "approve"
                      [] OTHER -> "neutral"
  BY DEF Tally
<1> HIDE DEF approved, rejected
<1>4. CASE approved + rejected = 0
  <2>1. ~(rejected > approved) /\ ~(approved > rejected)
    BY <1>1, <1>4
  <2>2. Tally(rule) = "none"
    BY <1>3, <1>4, <2>1, Zenon
  <2> QED BY <2>2
<1>5. CASE approved + rejected # 0 /\ rejected > approved
  <2>1. ~(approved > rejected)
    BY <1>1, <1>5
  <2>2. Tally(rule) = "reject"
    BY <1>3, <1>5, <2>1, Zenon
  <2> QED BY <2>2
<1>6. CASE approved > rejected
  <2>1. ~(rejected > approved) /\ approved + rejected # 0 /\ approved # 0
    BY <1>1, <1>6
  <2>2. Tally(rule) = "approve"
    BY <1>3, <1>6, <2>1, Zenon
  <2> QED BY <1>2, <2>1, <2>2
<1>7. CASE approved + rejected # 0 /\ ~(rejected > approved) /\ ~(approved > rejected)
  <2>1. Tally(rule) = "neutral"
    BY <1>3, <1>7, Zenon
  <2> QED BY <2>1
<1> QED BY <1>4, <1>5, <1>6, <1>7

(* A verdict to approve has a rule of low risk and operators behind it.    *)
LEMMA EarnedVerdict ==
    ASSUME NEW rule, NEW situation \in Situations, IsFiniteSet(Commands),
           ReviewVerdict({RuleLean(rule), Tally(rule), situation}) = "approve"
    PROVE  rule \notin HighRules /\ WithStatus(rule, "approved") # {}
<1>1. RuleLean(rule) # "reject" /\ rule \notin HighRules
  BY DEF ReviewVerdict, RuleLean
<1>2. Tally(rule) = "approve"
  BY DEF ReviewVerdict, RuleLean, Situations
<1> QED BY <1>1, <1>2, TallyTable

-----------------------------------------------------------------------------

LEMMA InitInv == ASSUME CommandInit, CommandAssumption PROVE Inv
<1>1. CommandTypeOK
  <2>1. NoHold \in Hold
    BY DEF NoHold, Hold
  <2>2. held \in [Commands -> Hold] /\ heldDisk \in [Commands -> Hold]
    BY <2>1 DEF CommandInit
  <2>3. lives \in 1..MaxLives /\ losses \in 0..MaxLosses
    BY DEF CommandInit, CommandAssumption
  <2> QED BY <2>2, <2>3 DEF CommandInit, CommandTypeOK, Hold
<1>2. ASSUME NEW c \in Commands PROVE Sane(c)
  BY <1>2 DEF CommandInit, Sane, Unproposed, Known, Rowed, Stated, Obeyed, Advised, NoHold
<1>3. \A d \in Deciders : Deciding(d)
  BY DEF CommandInit, Deciding, Idle
<1> QED BY <1>1, <1>2, <1>3 DEF Inv

LEMMA AutoAllowStep ==
    ASSUME Inv, NEW c \in Commands, AutoAllow(c)
    PROVE  Inv'
<1>1. hook' = [hook EXCEPT ![c] = "allowed"]
      /\ UNCHANGED <<held, heldDisk, deciding, saving, decisions, unsaved, lives, losses>>
  BY DEF AutoAllow
<1>2. CommandTypeOK'
  BY <1>1 DEF Inv, CommandTypeOK
<1>3. ASSUME NEW k \in Commands PROVE Sane(k)'
  BY <1>1 DEF Inv, CommandTypeOK, Sane, Unproposed, Known, Rowed, Stated, Obeyed, Advised
<1> QED BY <1>1, <1>2, <1>3 DEF Inv, Deciding, Idle

(* A hold is made of one that was not there, so no other hold changes and  *)
(* none loses the operators it rests on.                                   *)
LEMMA ProposeStep ==
    ASSUME Inv, CommandAssumption, NEW c \in Commands, NEW rule \in Rules, Propose(c, rule)
    PROVE  Inv'
<1>1. hook[c] = "idle" /\ held[c] = NoHold /\ heldDisk[c] = NoHold /\ decisions[c] = {}
  BY DEF Inv, Sane, Unproposed, Propose
<1>2. PICK situation \in Situations :
        held' = [held EXCEPT ![c] =
                   [rule |-> rule, status |-> "pending", tally |-> Tally(rule),
                    verdict |-> ReviewVerdict({RuleLean(rule), Tally(rule), situation})]]
  BY DEF Propose
<1> DEFINE verdict == ReviewVerdict({RuleLean(rule), Tally(rule), situation})
           hold == [rule |-> rule, status |-> "pending", tally |-> Tally(rule),
                    verdict |-> verdict]
<1>3. verdict \in {"approve", "reject"} /\ Tally(rule) \in {"none", "approve", "reject", "neutral"}
  BY TallyTable DEF CommandAssumption, ReviewVerdict
<1>4. /\ hold \in Hold /\ hold.rule = rule /\ hold.status = "pending"
      /\ hold.verdict = verdict /\ held' = [held EXCEPT ![c] = hold]
  <2> HIDE DEF verdict
  <2>1. hold \in Hold /\ hold.rule = rule /\ hold.status = "pending" /\ hold.verdict = verdict
    BY <1>3 DEF Hold
  <2> QED BY <1>2, <2>1 DEF verdict
<1>5. /\ hook' \in {[hook EXCEPT ![c] = "polling"], [hook EXCEPT ![c] = "unreviewed"]}
      /\ \/ heldDisk' = [heldDisk EXCEPT ![c] = held'[c]] /\ losses' = losses
         \/ /\ heldDisk' = heldDisk /\ losses' = losses + 1 /\ losses < MaxLosses
            /\ hook' = [hook EXCEPT ![c] = "unreviewed"]
      /\ UNCHANGED <<deciding, saving, decisions, unsaved, lives>> /\ saving = {}
  BY DEF Propose
<1>6. verdict = "approve" => rule \notin HighRules /\ WithStatus(rule, "approved") # {}
  BY EarnedVerdict DEF CommandAssumption
<1> HIDE DEF verdict, hold
<1>7. held'[c] = hold /\ \A k \in Commands \ {c} : held'[k] = held[k]
  BY <1>4 DEF Inv, CommandTypeOK
<1>8. /\ heldDisk' \in [Commands -> Hold]
      /\ heldDisk'[c] \in {hold, NoHold} /\ (Known(c)' => heldDisk'[c] = hold)
      /\ \A k \in Commands \ {c} : heldDisk'[k] = heldDisk[k]
      /\ losses' \in 0..MaxLosses
  <2>1. heldDisk \in [Commands -> Hold] /\ losses \in 0..MaxLosses
    BY DEF Inv, CommandTypeOK, Hold
  <2>2. CASE heldDisk' = [heldDisk EXCEPT ![c] = hold] /\ losses' = losses
    BY <1>4, <2>1, <2>2
  <2>3. CASE /\ heldDisk' = heldDisk /\ losses' = losses + 1 /\ losses < MaxLosses
             /\ hook' = [hook EXCEPT ![c] = "unreviewed"]
    <3>1. ~Known(c)'
      BY <2>3 DEF Known, Inv, CommandTypeOK
    <3> QED BY <1>1, <2>1, <2>3, <3>1 DEF CommandAssumption
  <2> QED BY <1>5, <1>7, <2>2, <2>3
<1>9. CommandTypeOK'
  <2>1. held' \in [Commands -> Hold]
    BY <1>4 DEF Inv, CommandTypeOK, Hold
  <2> QED BY <1>5, <1>8, <2>1 DEF Inv, CommandTypeOK, Hold
<1>10. Sane(c)'
  <2>1. Unproposed(c)' /\ Obeyed(c)'
    BY <1>5 DEF Inv, CommandTypeOK, Unproposed, Obeyed
  <2>2. Rowed(c)'
    BY <1>7, <1>8 DEF Rowed, NoHold
  <2>3. Stated(c)'
    BY <1>1, <1>4, <1>5, <1>7, <1>8 DEF Stated, NoHold
  <2>4. ASSUME hold.verdict = "approve"
        PROVE  /\ rule \notin HighRules
               /\ \E o \in Commands \ {c} :
                     "approved" \in decisions[o] /\ held[o].rule = rule
    <3>1. PICK o \in Commands : held[o].rule = rule /\ held[o].status = "approved"
      BY <1>4, <1>6, <2>4 DEF WithStatus
    <3>2. o # c
      BY <1>1, <3>1 DEF NoHold
    <3>3. "approved" \in decisions[o]
      BY <3>1 DEF Inv, Sane, Stated
    <3> QED BY <1>4, <1>6, <2>4, <3>1, <3>2, <3>3
  <2>5. Advised(c)'
    BY <1>4, <1>5, <1>7, <2>4 DEF Advised
  <2> QED BY <2>1, <2>2, <2>3, <2>5 DEF Sane
<1>11. ASSUME NEW k \in Commands, k # c PROVE Sane(k)'
  <2>1. /\ held'[k] = held[k] /\ heldDisk'[k] = heldDisk[k] /\ hook'[k] = hook[k]
        /\ decisions' = decisions /\ unsaved' = unsaved
    BY <1>5, <1>7, <1>8, <1>11 DEF Inv, CommandTypeOK
  <2>2. Unproposed(k)' /\ Rowed(k)' /\ Stated(k)' /\ Obeyed(k)'
    BY <1>8, <2>1 DEF Inv, Sane, Unproposed, Known, Rowed, Stated, Obeyed
  <2>3. Advised(k)'
    BY <1>1, <1>7, <2>1 DEF Inv, Sane, Advised
  <2> QED BY <2>2, <2>3 DEF Sane
<1>12. ASSUME NEW d \in Deciders PROVE Deciding(d)'
  <2>1. deciding'[d] = deciding[d] /\ saving' = {}
    BY <1>5
  <2>2. ASSUME ~Idle(d) PROVE held'[deciding[d][1]].rule # NoRule
    <3>1. deciding[d][1] \in Commands /\ held[deciding[d][1]].rule # NoRule
      BY <2>2 DEF Inv, CommandTypeOK, Deciding, Idle
    <3>2. deciding[d][1] # c
      BY <1>1, <3>1 DEF NoHold
    <3> QED BY <1>7, <3>1, <3>2
  <2> QED BY <2>1, <2>2 DEF Deciding, Idle
<1> QED BY <1>9, <1>10, <1>11, <1>12 DEF Inv

LEMMA FindPendingStep ==
    ASSUME Inv, NEW d \in Deciders, NEW c \in Commands, NEW approved \in BOOLEAN,
           FindPending(d, c, approved)
    PROVE  Inv'
<1>1. deciding' = [deciding EXCEPT ![d] = <<c, approved>>] /\ held[c].rule # NoRule
      /\ UNCHANGED <<held, heldDisk, hook, saving, decisions, unsaved, lives, losses>>
      /\ Idle(d)
  BY DEF FindPending
<1>2. CommandTypeOK'
  BY <1>1 DEF Inv, CommandTypeOK
<1>3. ASSUME NEW k \in Commands PROVE Sane(k)'
  BY <1>1 DEF Inv, Sane, Unproposed, Known, Rowed, Stated, Obeyed, Advised
<1>4. ASSUME NEW t \in Deciders PROVE Deciding(t)'
  BY <1>1 DEF Inv, CommandTypeOK, Deciding, Idle
<1> QED BY <1>2, <1>3, <1>4 DEF Inv

(* A decision is remembered as the list changes.                           *)
LEMMA DecideStep ==
    ASSUME Inv, CommandAssumption, NEW d \in Deciders, Decide(d)
    PROVE  Inv'
<1>1. PICK c \in Commands : c = deciding[d][1] /\ held[c].rule # NoRule
  BY DEF Inv, CommandTypeOK, Deciding, Idle, Decide
<1>2. PICK status \in {"approved", "rejected"} : status = Decision(deciding[d][2])
  BY DEF Decision
<1>3. /\ held' = [held EXCEPT ![c].status = status]
      /\ decisions' = [decisions EXCEPT ![c] = @ \cup {status}]
      /\ unsaved' = unsaved \cup {c} /\ saving = {} /\ saving' = {d} /\ ~Idle(d)
      /\ UNCHANGED <<heldDisk, hook, deciding, lives, losses>>
  BY <1>1, <1>2 DEF Decide
<1>4. hook[c] # "idle"
  BY <1>1 DEF Inv, Sane, Unproposed, NoHold
<1>5. /\ held' \in [Commands -> Hold]
      /\ held'[c].status = status /\ held'[c].rule = held[c].rule
      /\ held'[c].verdict = held[c].verdict /\ held'[c].tally = held[c].tally
      /\ \A k \in Commands \ {c} : held'[k] = held[k]
  <2>1. held \in [Commands -> Hold]
    BY DEF Inv, CommandTypeOK, Hold
  <2>2. held' = [held EXCEPT ![c] = [held[c] EXCEPT !.status = status]]
    BY <1>3
  <2>3. [held[c] EXCEPT !.status = status] \in Hold
    BY <2>1 DEF Hold
  <2> QED BY <2>1, <2>2, <2>3 DEF Hold
<1>6. /\ decisions' \in [Commands -> SUBSET {"approved", "rejected"}]
      /\ decisions'[c] = decisions[c] \cup {status}
      /\ \A k \in Commands \ {c} : decisions'[k] = decisions[k]
  BY <1>1, <1>2, <1>3 DEF Inv, CommandTypeOK
<1>7. CommandTypeOK'
  BY <1>3, <1>5, <1>6 DEF Inv, CommandTypeOK, Hold
<1>8. ASSUME NEW k \in Commands PROVE Advised(k)'
  <2>1. /\ held'[k].rule = held[k].rule /\ held'[k].verdict = held[k].verdict
        /\ \A o \in Commands : held'[o].rule = held[o].rule /\ decisions[o] \subseteq decisions'[o]
    BY <1>5, <1>6
  <2> QED BY <2>1 DEF Inv, Sane, Advised
<1>9. Sane(c)'
  <2>1. Unproposed(c)' /\ Obeyed(c)'
    BY <1>1, <1>3, <1>4, <1>6 DEF Inv, Sane, Unproposed, Obeyed
  <2>2. Rowed(c)'
    BY <1>1, <1>3, <1>5 DEF Inv, Sane, Rowed, Known
  <2>3. Stated(c)'
    BY <1>1, <1>2, <1>3, <1>5, <1>6 DEF Inv, Sane, Stated, Known
  <2> QED BY <1>1, <1>8, <2>1, <2>2, <2>3 DEF Sane
<1>10. ASSUME NEW k \in Commands, k # c PROVE Sane(k)'
  <2>1. Unproposed(k)' /\ Rowed(k)' /\ Stated(k)' /\ Obeyed(k)'
    BY <1>3, <1>5, <1>6, <1>10
    DEF Inv, Sane, Unproposed, Known, Rowed, Stated, Obeyed
  <2> QED BY <1>8, <2>1 DEF Sane
<1>11. ASSUME NEW t \in Deciders PROVE Deciding(t)'
  <2>1. ~Idle(t) => deciding[t][1] \in Commands
    BY DEF Inv, CommandTypeOK, Idle
  <2>2. ~Idle(t) => held'[deciding[t][1]].rule # NoRule
    BY <1>5, <2>1 DEF Inv, Deciding
  <2>3. t \in saving' => t = d
    BY <1>3
  <2> QED BY <1>1, <1>2, <1>3, <1>5, <2>2, <2>3 DEF Deciding, Idle
<1> QED BY <1>7, <1>9, <1>10, <1>11 DEF Inv

(* Its row is written as the list is, or stays as it was.                  *)
LEMMA SaveDecisionStep ==
    ASSUME Inv, CommandAssumption, NEW d \in Deciders, SaveDecision(d)
    PROVE  Inv'
<1>1. PICK c \in Commands : c = deciding[d][1] /\ held[c].rule # NoRule
  BY DEF Inv, CommandTypeOK, Deciding, Idle, SaveDecision, Answered
<1>2. PICK status \in {"approved", "rejected"} : status = Decision(deciding[d][2])
  BY DEF Decision
<1>3. /\ \/ /\ heldDisk' = IF heldDisk[c].rule = NoRule THEN heldDisk
                           ELSE [heldDisk EXCEPT ![c].status = status]
            /\ unsaved' = unsaved \ {c} /\ UNCHANGED losses
         \/ losses < MaxLosses /\ losses' = losses + 1 /\ UNCHANGED <<heldDisk, unsaved>>
      /\ deciding' = [deciding EXCEPT ![d] = <<NoCommand, FALSE>>] /\ saving' = {}
      /\ UNCHANGED <<held, hook, decisions, lives>>
  BY <1>1, <1>2 DEF SaveDecision, Answered
<1>4. held[c].status = status /\ hook[c] # "idle"
  BY <1>1, <1>2 DEF Inv, Sane, Unproposed, NoHold, Deciding, SaveDecision, Answered
<1>5. status \in decisions[c]
  BY <1>4 DEF Inv, Sane, Stated
<1>6. /\ heldDisk' \in [Commands -> Hold]
      /\ heldDisk'[c].rule = heldDisk[c].rule /\ heldDisk'[c].verdict = heldDisk[c].verdict
      /\ heldDisk'[c].tally = heldDisk[c].tally
      /\ heldDisk'[c].status \in {status, heldDisk[c].status}
      /\ \A k \in Commands \ {c} : heldDisk'[k] = heldDisk[k]
  <2>1. heldDisk \in [Commands -> Hold]
    BY DEF Inv, CommandTypeOK, Hold
  <2>2. \/ heldDisk' = heldDisk
        \/ heldDisk' = [heldDisk EXCEPT ![c] = [heldDisk[c] EXCEPT !.status = status]]
    BY <1>3
  <2>3. [heldDisk[c] EXCEPT !.status = status] \in Hold
    BY <2>1 DEF Hold
  <2> QED BY <2>1, <2>2, <2>3 DEF Hold
<1>7. Known(c) /\ c \notin unsaved' => heldDisk'[c].status = status
  <2> SUFFICES ASSUME Known(c), c \notin unsaved' PROVE heldDisk'[c].status = status
    OBVIOUS
  <2>1. heldDisk[c].rule = held[c].rule
    BY DEF Inv, Sane, Rowed
  <2>2. CASE heldDisk' = [heldDisk EXCEPT ![c].status = status]
    BY <2>2 DEF Inv, CommandTypeOK
  <2>3. CASE unsaved' = unsaved /\ heldDisk' = heldDisk
    BY <1>4, <2>3 DEF Inv, Sane, Rowed
  <2> QED BY <1>1, <1>3, <2>1, <2>2, <2>3
<1>8. CommandTypeOK'
  <2>1. losses' \in 0..MaxLosses
    BY <1>3 DEF Inv, CommandTypeOK, CommandAssumption
  <2>2. deciding' \in [Deciders -> (Commands \cup {NoCommand}) \X BOOLEAN]
    BY <1>3 DEF Inv, CommandTypeOK
  <2>3. unsaved' \subseteq Commands
    BY <1>3 DEF Inv, CommandTypeOK
  <2> QED BY <1>3, <1>6, <2>1, <2>2, <2>3 DEF Inv, CommandTypeOK, Hold
<1>9. Sane(c)'
  <2>1. Unproposed(c)' /\ Obeyed(c)' /\ Advised(c)'
    BY <1>3, <1>4 DEF Inv, Sane, Unproposed, Obeyed, Advised
  <2>2. Rowed(c)' /\ Stated(c)'
    BY <1>2, <1>3, <1>4, <1>5, <1>6, <1>7 DEF Inv, Sane, Rowed, Stated, Known
  <2> QED BY <2>1, <2>2 DEF Sane
<1>10. ASSUME NEW k \in Commands, k # c PROVE Sane(k)'
  <2>1. k \in unsaved' <=> k \in unsaved
    BY <1>3, <1>10
  <2> QED BY <1>3, <1>6, <1>10, <2>1
          DEF Inv, Sane, Unproposed, Known, Rowed, Stated, Obeyed, Advised
<1>11. ASSUME NEW t \in Deciders PROVE Deciding(t)'
  BY <1>3 DEF Inv, CommandTypeOK, Deciding, Idle
<1> QED BY <1>8, <1>9, <1>10, <1>11 DEF Inv

LEMMA PollStep ==
    ASSUME Inv, NEW c \in Commands, Poll(c)
    PROVE  Inv'
<1>1. /\ hook' = [hook EXCEPT ![c] = IF held[c].status = "approved" THEN "ran" ELSE "blocked"]
      /\ held[c].status # "pending" /\ hook[c] = "polling"
      /\ UNCHANGED <<held, heldDisk, deciding, saving, decisions, unsaved, lives, losses>>
  BY DEF Poll
<1>2. CommandTypeOK'
  BY <1>1 DEF Inv, CommandTypeOK
<1>3. held[c].status \in decisions[c] /\ held[c].status \in {"approved", "rejected"}
  BY <1>1 DEF Inv, Sane, Stated, CommandTypeOK
<1>4. ASSUME NEW k \in Commands PROVE Sane(k)'
  <2>1. Unproposed(k)' /\ Obeyed(k)'
    BY <1>1, <1>3 DEF Inv, CommandTypeOK, Sane, Unproposed, Obeyed
  <2>2. hook'[k] = hook[k] \/ k = c
    BY <1>1 DEF Inv, CommandTypeOK
  <2>3. Known(k)' => Known(k)
    BY <1>1, <2>2 DEF Known
  <2> QED BY <1>1, <2>1, <2>3 DEF Inv, Sane, Rowed, Stated, Advised
<1> QED BY <1>1, <1>2, <1>4 DEF Inv, Deciding, Idle

LEMMA FailOpenStep ==
    ASSUME Inv, NEW c \in Commands, FailOpen(c)
    PROVE  Inv'
<1>1. hook' = [hook EXCEPT ![c] = "unreviewed"]
      /\ UNCHANGED <<held, heldDisk, deciding, saving, decisions, unsaved, lives, losses>>
  BY DEF FailOpen
<1>2. CommandTypeOK'
  BY <1>1 DEF Inv, CommandTypeOK
<1>3. ASSUME NEW k \in Commands PROVE Sane(k)'
  BY <1>1 DEF Inv, CommandTypeOK, Sane, Unproposed, Known, Rowed, Stated, Obeyed, Advised
<1> QED BY <1>1, <1>2, <1>3 DEF Inv, Deciding, Idle

LEMMA ReloadStep ==
    ASSUME Inv, CommandAssumption, Reload
    PROVE  Inv'
<1>1. /\ held' = heldDisk /\ lives' \in 1..MaxLives
      /\ deciding' = [d \in Deciders |-> <<NoCommand, FALSE>>] /\ saving' = {}
      /\ UNCHANGED <<heldDisk, hook, decisions, unsaved, losses>>
  BY DEF Reload, Inv, CommandTypeOK, CommandAssumption
<1>2. CommandTypeOK'
  BY <1>1 DEF Inv, CommandTypeOK
<1>3. ASSUME NEW c \in Commands PROVE Sane(c)'
  <2>1. Unproposed(c)' /\ Obeyed(c)'
    BY <1>1 DEF Inv, Sane, Unproposed, Obeyed
  <2>2. Rowed(c)' /\ Stated(c)'
    BY <1>1 DEF Inv, Sane, Known, Rowed, Stated
  <2>3. Advised(c)'
    <3>1. \A o \in Commands : heldDisk[o].rule \in {held[o].rule, NoRule}
      BY DEF Inv, Sane, Rowed
    <3>2. heldDisk[c].rule # NoRule =>
            heldDisk[c].rule = held[c].rule /\ heldDisk[c].verdict = held[c].verdict
      BY DEF Inv, Sane, Rowed
    <3> QED BY <1>1, <3>1, <3>2 DEF Inv, Sane, Advised
  <2> QED BY <2>1, <2>2, <2>3 DEF Sane
<1>4. \A d \in Deciders : Deciding(d)'
  BY <1>1 DEF Deciding, Idle
<1> QED BY <1>2, <1>3, <1>4 DEF Inv

LEMMA StepInv == ASSUME Inv, CommandAssumption, [CommandNext]_commandVars PROVE Inv'
<1>1. CASE UNCHANGED commandVars
  BY <1>1 DEF Inv, CommandTypeOK, Sane, Unproposed, Known, Rowed, Stated, Obeyed, Advised,
      Deciding, Idle, commandVars
<1>2. CASE CommandNext
  BY <1>2, AutoAllowStep, ProposeStep, FindPendingStep, DecideStep, SaveDecisionStep, PollStep,
     FailOpenStep, ReloadStep DEF CommandNext
<1> QED BY <1>1, <1>2

LEMMA HoldsInvariant == ASSUME CommandAssumption PROVE CommandSpec => []Inv
<1>1. CommandInit => Inv
  BY InitInv
<1>2. Inv /\ [CommandNext]_commandVars => Inv'
  BY StepInv
<1> QED BY <1>1, <1>2, PTL DEF CommandSpec

(* A recommendation to approve rests on a rule of low risk and on another  *)
(* command of that rule that a person approved (review, history_evidence), *)
(* whatever was lost in between.                                           *)
THEOREM ApprovalsAreEarned == CommandAssumption => (CommandSpec => []ApproveIsEarned)
<1> SUFFICES ASSUME CommandAssumption PROVE CommandSpec => []ApproveIsEarned
  OBVIOUS
<1>1. Inv => ApproveIsEarned
  BY DEF Inv, Sane, Advised, ApproveIsEarned
<1> QED BY <1>1, HoldsInvariant, PTL

(* When the decision is in its row and operators did not contradict each   *)
(* other, the hold and its row show what the hook did (decide, get_hold).  *)
THEOREM RecordsShowWhatRan == CommandAssumption => (CommandSpec => []RecordShowsWhatRan)
<1> SUFFICES ASSUME CommandAssumption PROVE CommandSpec => []RecordShowsWhatRan
  OBVIOUS
<1>1. ASSUME Inv, NEW c \in Commands, c \notin unsaved, Known(c),
             Cardinality(decisions[c]) <= 1, NEW status \in decisions[c]
      PROVE  held[c].status = status /\ heldDisk[c].status = status
  <2>1. decisions[c] \subseteq {"approved", "rejected"}
    BY <1>1 DEF Inv, CommandTypeOK
  <2>2. decisions[c] = {status}
    <3>1. SUFFICES ASSUME NEW other \in decisions[c], other # status PROVE FALSE
      BY <1>1
    <3>2. IsFiniteSet({status, other}) /\ Cardinality({status, other}) = 2
      <4>1. IsFiniteSet({status}) /\ Cardinality({status}) = 1
        BY FS_Singleton
      <4>2. IsFiniteSet({status} \cup {other}) /\ Cardinality({status} \cup {other}) = 2
        BY <3>1, <4>1, FS_AddElement
      <4>3. {status} \cup {other} = {status, other}
        OBVIOUS
      <4> QED BY <4>2, <4>3
    <3>3. {status, other} = {"approved", "rejected"}
      BY <1>1, <2>1, <3>1
    <3>4. decisions[c] = {status, other}
      BY <1>1, <2>1, <3>1, <3>3
    <3> QED BY <1>1, <3>2, <3>4
  <2>3. held[c].status # "pending" /\ held[c].status \in decisions[c]
        /\ heldDisk[c].status = held[c].status
    BY <1>1 DEF Inv, Sane, Stated, Rowed
  <2> QED BY <2>2, <2>3
<1>2. Inv => RecordShowsWhatRan
  BY <1>1 DEF Inv, Sane, Known, Obeyed, RecordShowsWhatRan
<1> QED BY <1>2, HoldsInvariant, PTL

-----------------------------------------------------------------------------
(* Observation and health.                                                 *)

HealthAssumption ==
    /\ {Stale, Delay, MaxNow, MaxPolls, MaxChanges} \subseteq Nat
    /\ Components \subseteq Nat \ {NoName} /\ Components # {}

States == {"running", "exited", "gone"}
Rows == [state : States \cup {"none"}, at : Nat]
Polls == [stage : {"idle", "evaluate", "advise", "reported"},
          name : Components \cup {NoName},
          rows : [Components -> Rows],
          status : [Components -> HealthStatuses \cup {Unheard}],
          at : Nat,
          advice : [Components -> Advice \cup {Unheard}],
          platform : HealthStatuses \cup {Unheard}]

(* What is read, and on its way, and what is stored of a container.        *)
HealthTypes ==
    /\ real \in [Components -> States]
    /\ ranAt \in [Components -> Nat] /\ now \in Nat
    /\ \A c \in Components : ranAt[c] <= now
    /\ hand = [name |-> hand.name, state |-> hand.state, at |-> hand.at]
    /\ hand.name \in Components /\ hand.at \in Nat /\ hand.state \in States \cup {"none"}
    /\ latest \in [Components -> Rows]
    /\ poll \in [Pollers -> Polls]

(* A reading is not ahead of the container, and not long on its way.       *)
ReadLately ==
    hand.state # "none" =>
        /\ now <= hand.at + Delay
        /\ hand.state = "running" => hand.at <= RanUntil(hand.name)

RowLate(c, row) == row.state = "running" => row.at <= RanUntil(c) + Delay

RowsLate ==
    \A c \in Components :
        RowLate(c, latest[c]) /\ \A p \in Pollers : RowLate(c, poll[p].rows[c])

(* Between its evaluation and its advice a component has a name. *)
Named ==
    \A p \in Pollers : poll[p].stage = "advise" =>
        poll[p].name \in Components /\ poll[p].status[poll[p].name] \in HealthStatuses

HealthInv == HealthTypes /\ ReadLately /\ RowsLate /\ Named /\ HealthyWasRunning

(* The first of some numbers is one of them. *)
LEMMA FirstOf ==
    ASSUME NEW S \in SUBSET Nat, S # {}
    PROVE  Min(S) \in S
<1>1. PICK x \in S : \A y \in S : ~ (<<y, x>> \in OpToRel(<, Nat))
  BY NatLessThanWellFounded, WFMin
<1>2. OpToRel(<, Nat) = {ss \in Nat \X Nat : ss[1] < ss[2]}
  BY DEF OpToRel
<1>3. ASSUME NEW y \in S
      PROVE  x <= y
  <2>1. <<y, x>> \notin {ss \in Nat \X Nat : ss[1] < ss[2]}
    BY <1>1, <1>2
  <2>2. x \in Nat /\ y \in Nat /\ <<y, x>> \in Nat \X Nat /\ <<y, x>>[1] = y /\ <<y, x>>[2] = x
    OBVIOUS
  <2>3. ~(y < x)
    BY <2>1, <2>2
  <2> QED
    BY <2>2, <2>3
<1> QED
  BY <1>3 DEF Min

(* The collector goes from one container to the next. *)
LEMMA NextContainer ==
    ASSUME HealthAssumption, NEW c
    PROVE  Min(Components) \in Components /\ After(c) \in Components
<1>1. Components \in SUBSET Nat /\ Components # {}
  BY DEF HealthAssumption
<1>2. {d \in Components : d > c} \in SUBSET Nat
  BY <1>1
<1>3. (\E d \in Components : d > c) => Min({d \in Components : d > c}) \in {d \in Components : d > c}
  BY <1>2, FirstOf
<1> QED
  BY <1>1, <1>3, FirstOf DEF After

(* What has run until some time has run until then later. *)
LEMMA RunsOn ==
    ASSUME HealthAssumption, HealthTypes, HealthNext, NEW c \in Components
    PROVE  RanUntil(c) \in Nat /\ RanUntil(c)' \in Nat /\ RanUntil(c) <= RanUntil(c)'
<1>1. real[c] \in States /\ ranAt[c] \in Nat /\ now \in Nat /\ ranAt[c] <= now
  BY DEF HealthTypes
<1>2. ASSUME NEW d \in Components, NEW s \in States, Turn(d, s)
      PROVE  RanUntil(c) \in Nat /\ RanUntil(c)' \in Nat /\ RanUntil(c) <= RanUntil(c)'
  <2>1. /\ real' = [real EXCEPT ![d] = s] /\ real[d] # s /\ now' = now
        /\ ranAt' = IF real[d] = "running" THEN [ranAt EXCEPT ![d] = now] ELSE ranAt
    BY <1>2 DEF Turn
  <2>2. CASE d = c
    BY <1>1, <2>1, <2>2 DEF HealthTypes, RanUntil
  <2>3. CASE d # c
    BY <1>1, <2>1, <2>3 DEF HealthTypes, RanUntil
  <2> QED
    BY <2>2, <2>3
<1>3. ASSUME Tick
      PROVE  RanUntil(c) \in Nat /\ RanUntil(c)' \in Nat /\ RanUntil(c) <= RanUntil(c)'
  BY <1>1, <1>3 DEF Tick, RanUntil
<1>4. ASSUME \/ Read \/ Record \/ Fail \/ ProcessRestart
             \/ \E p \in Pollers :
                  Begin(p) \/ Advise(p) \/ Report(p) \/ \E d \in Components : Evaluate(p, d)
      PROVE  RanUntil(c) \in Nat /\ RanUntil(c)' \in Nat /\ RanUntil(c) <= RanUntil(c)'
  <2>1. UNCHANGED <<real, ranAt, now>>
    <3>1. ASSUME Read \/ Record \/ Fail \/ ProcessRestart
          PROVE  UNCHANGED <<real, ranAt, now>>
      BY <3>1 DEF Read, Record, Fail, ProcessRestart
    <3>2. ASSUME NEW p \in Pollers, Begin(p) \/ Advise(p) \/ Report(p)
          PROVE  UNCHANGED <<real, ranAt, now>>
      BY <3>2 DEF Begin, Advise, Report
    <3>3. ASSUME NEW p \in Pollers, NEW d \in Components, Evaluate(p, d)
          PROVE  UNCHANGED <<real, ranAt, now>>
      BY <3>3 DEF Evaluate
    <3> QED
      BY <1>4, <3>1, <3>2, <3>3
  <2> QED
    BY <1>1, <2>1 DEF RanUntil
<1> QED
  BY <1>2, <1>3, <1>4 DEF HealthNext, States

(* A thread that begins has the rows that there are; what it evaluates, it   *)
(* evaluates now; nothing else gives it a status.                            *)
LEMMA Polling ==
    ASSUME HealthInv, NEW p \in Pollers,
           \/ Begin(p) \/ Advise(p) \/ Report(p) \/ \E c \in Components : Evaluate(p, c)
    PROVE  \E r \in Polls :
              /\ poll' = [poll EXCEPT ![p] = r]
              /\ \A c \in Components :
                    r.rows[c] \in {poll[p].rows[c], latest[c], Nothing}
              /\ r.stage = "advise" =>
                    /\ r.name \in Components /\ r.at = now
                    /\ r.status[r.name] \in HealthStatuses
                    /\ r.status[r.name] = Status(poll[p].rows[r.name], now)
<1>1. /\ latest \in [Components -> Rows] /\ poll \in [Pollers -> Polls] /\ poll[p] \in Polls
      /\ now \in Nat
  BY DEF HealthInv, HealthTypes
<1>2. Nothing \in Rows
  BY DEF Nothing, Rows
<1>3. CASE Begin(p)
  <2> DEFINE n == NewPoll(latest)
             r == IF \A c \in Components : latest[c] = Nothing
                    THEN [n EXCEPT !.stage = "reported", !.platform = "unknown"]
                    ELSE n
  <2>1. n \in Polls /\ n.rows = latest /\ n.stage = "evaluate"
    BY <1>1 DEF NewPoll, Polls
  <2>2. poll' = [poll EXCEPT ![p] = r]
    BY <1>3 DEF Begin
  <2> HIDE DEF n
  <2>3. r \in Polls /\ r.rows = latest /\ r.stage # "advise"
    BY <2>1 DEF Polls, HealthStatuses
  <2> HIDE DEF r
  <2> QED
    BY <2>2, <2>3
<1>4. CASE Advise(p)
  <2> DEFINE c == poll[p].name
             v == Recommended(poll[p].status[c], memory[c])
             r == [[[[poll[p] EXCEPT !.stage = "evaluate"] EXCEPT !.name = NoName]
                    EXCEPT !.at = 0] EXCEPT !.advice[c] = v]
  <2>1. poll' = [poll EXCEPT ![p] = r] /\ poll[p].stage = "advise"
    BY <1>1, <1>4 DEF Advise
  <2>2. c \in Components /\ v \in Advice
    <3>1. c \in Components /\ poll[p].status[c] \in HealthStatuses
      BY <2>1 DEF HealthInv, Named
    <3> QED
      BY <3>1 DEF Recommended, Advice, HealthStatuses
  <2> HIDE DEF v, c
  <2>3. r \in Polls /\ r.rows = poll[p].rows /\ r.stage # "advise"
    BY <1>1, <2>2 DEF Polls, NoName
  <2> HIDE DEF r
  <2> QED
    BY <2>1, <2>3
<1>5. CASE Report(p)
  <2> DEFINE v == Platform(poll[p].status)
             r == [[poll[p] EXCEPT !.stage = "reported"] EXCEPT !.platform = v]
  <2>1. v \in HealthStatuses
    BY DEF Platform, HealthStatuses
  <2>2. poll' = [poll EXCEPT ![p] = r]
    BY <1>1, <1>5 DEF Report
  <2> HIDE DEF v
  <2>3. r \in Polls /\ r.rows = poll[p].rows /\ r.stage # "advise"
    BY <1>1, <2>1 DEF Polls
  <2> HIDE DEF r
  <2> QED
    BY <2>2, <2>3
<1>6. ASSUME NEW c \in Components, Evaluate(p, c)
      PROVE  \E r \in Polls :
               /\ poll' = [poll EXCEPT ![p] = r]
               /\ \A d \in Components :
                     r.rows[d] \in {poll[p].rows[d], latest[d], Nothing}
               /\ r.stage = "advise" =>
                     /\ r.name \in Components /\ r.at = now
                     /\ r.status[r.name] \in HealthStatuses
                     /\ r.status[r.name] = Status(poll[p].rows[r.name], now)
  <2> DEFINE v == Status(poll[p].rows[c], now)
             r == [[[[[poll[p] EXCEPT !.stage = "advise"] EXCEPT !.name = c]
                     EXCEPT !.rows[c] = Nothing] EXCEPT !.status[c] = v] EXCEPT !.at = now]
  <2>1. v \in HealthStatuses
    BY DEF Status, Unresolved, Failed, Old, HealthStatuses
  <2>2. poll' = [poll EXCEPT ![p] = r]
    <3>1. poll' = [poll EXCEPT ![p].stage = "advise", ![p].name = c, ![p].rows[c] = Nothing,
                               ![p].status[c] = v, ![p].at = now]
      BY <1>6 DEF Evaluate, v
    <3> DEFINE s == [[[poll[p] EXCEPT !.stage = "advise"] EXCEPT !.name = c]
                       EXCEPT !.rows[c] = Nothing]
               f == [poll EXCEPT ![p].stage = "advise", ![p].name = c, ![p].rows[c] = Nothing]
    <3>2. f = [poll EXCEPT ![p] = s]
      BY <1>1
    <3>3. poll' = [f EXCEPT ![p].status[c] = v, ![p].at = now]
      BY <3>1
    <3>4. r = [[s EXCEPT !.status[c] = v] EXCEPT !.at = now]
      OBVIOUS
    <3> HIDE DEF f, s, r
    <3>5. poll' = [[poll EXCEPT ![p] = s] EXCEPT ![p].status[c] = v, ![p].at = now]
      BY <3>2, <3>3
    <3> QED
      BY <1>1, <3>4, <3>5
  <2> HIDE DEF v
  <2>3. /\ r \in Polls /\ r.rows = [poll[p].rows EXCEPT ![c] = Nothing]
        /\ r.name = c /\ r.at = now /\ r.status[c] = v
    BY <1>1, <1>2, <2>1 DEF Polls
  <2> HIDE DEF r
  <2>4. \A d \in Components : r.rows[d] \in {poll[p].rows[d], latest[d], Nothing}
    BY <1>1, <2>3 DEF Polls
  <2> QED
    BY <2>1, <2>2, <2>3, <2>4 DEF v
<1> QED
  BY <1>3, <1>4, <1>5, <1>6

(* A row that is healthy now is of a container that ran lately. *)
LEMMA HealthyRan ==
    ASSUME HealthAssumption, HealthTypes, NEW c \in Components, NEW row \in Rows,
           RowLate(c, row), Status(row, now) = "healthy"
    PROVE  now <= RanUntil(c) + Stale + Delay
<1>1. row.state = "running" /\ ~(now - row.at > Stale)
  <2>1. ~Unresolved(row) /\ ~Failed(row) /\ ~Old(row, now)
    BY DEF Status
  <2> QED
    BY <2>1 DEF Unresolved, Failed, Old
<1>2. row.at <= RanUntil(c) + Delay
  BY <1>1 DEF RowLate
<1>3. row.at \in Nat /\ now \in Nat /\ RanUntil(c) \in Nat /\ Stale \in Nat /\ Delay \in Nat
  BY DEF HealthAssumption, HealthTypes, Rows, RanUntil
<1> QED
  BY <1>1, <1>2, <1>3

LEMMA InitHealth == ASSUME HealthAssumption, HealthInit PROVE HealthInv
<1>1. NoPoll \in Polls /\ NoPoll.stage = "idle" /\ \A c \in Components : NoPoll.rows[c] = Nothing
  BY DEF NoPoll, NewPoll, Polls, Rows, Nothing, NoName
<1>2. Nothing \in Rows /\ Nothing.state = "none"
  BY DEF Nothing, Rows
<1>3. HealthTypes
  BY <1>1, <1>2, NextContainer DEF HealthInit, HealthTypes, States, Reading
<1>4. ReadLately /\ RowsLate /\ Named /\ HealthyWasRunning
  BY <1>1, <1>2 DEF HealthInit, ReadLately, RowsLate, RowLate, Named, HealthyWasRunning, Reading
<1> QED
  BY <1>3, <1>4 DEF HealthInv

(* Time goes on for a row, and for an evaluation that was made. *)
LEMMA StillLate ==
    ASSUME HealthAssumption, HealthInv, HealthNext
    PROVE  /\ \A c \in Components, row \in Rows : RowLate(c, row) => RowLate(c, row)'
           /\ \A c \in Components, t \in Nat :
                t <= RanUntil(c) + Stale + Delay => t <= RanUntil(c)' + Stale + Delay
<1>1. \A c \in Components :
        RanUntil(c) \in Nat /\ RanUntil(c)' \in Nat /\ RanUntil(c) <= RanUntil(c)'
  BY RunsOn DEF HealthInv
<1>2. Stale \in Nat /\ Delay \in Nat
  BY DEF HealthAssumption
<1>3. ASSUME NEW c \in Components, NEW row \in Rows, RowLate(c, row)
      PROVE  RowLate(c, row)'
  <2>1. row.at \in Nat
    BY DEF Rows
  <2> QED
    BY <1>1, <1>2, <1>3, <2>1 DEF RowLate
<1> QED
  BY <1>1, <1>2, <1>3

(* A reading becomes a row within its delay; the collector goes on.        *)
LEMMA CollectorKeeps ==
    ASSUME HealthAssumption, HealthInv,
           \/ Read \/ Record \/ Fail \/ Tick
           \/ \E c \in Components, s \in States : Turn(c, s)
    PROVE  HealthTypes' /\ ReadLately' /\ (\A c \in Components : RowLate(c, latest[c])')
<1>1. \A c \in Components :
        /\ RanUntil(c) \in Nat /\ RanUntil(c)' \in Nat /\ RanUntil(c) <= RanUntil(c)'
        /\ real[c] = "running" => RanUntil(c) = now
  BY RunsOn DEF HealthNext, States, HealthInv, RanUntil
<1>2. \A c \in Components : latest[c] \in Rows /\ (RowLate(c, latest[c]) => (latest[c].state = "running" => latest[c].at <= RanUntil(c)' + Delay))
  BY StillLate DEF HealthNext, States, HealthInv, HealthTypes, RowLate
<1>3. /\ HealthTypes /\ ReadLately /\ \A c \in Components : RowLate(c, latest[c])
      /\ Delay \in Nat
  BY DEF HealthInv, RowsLate, HealthAssumption
<1>4. latest' = latest => \A c \in Components : RowLate(c, latest[c])'
  BY <1>2, <1>3 DEF RowLate
<1>5. ASSUME NEW d \in Components, NEW s \in States, Turn(d, s)
      PROVE  HealthTypes' /\ ReadLately' /\ (\A c \in Components : RowLate(c, latest[c])')
  <2>1. /\ real' = [real EXCEPT ![d] = s] /\ UNCHANGED <<hand, latest, poll, now>>
        /\ ranAt' = IF real[d] = "running" THEN [ranAt EXCEPT ![d] = now] ELSE ranAt
    BY <1>5 DEF Turn
  <2>2. HealthTypes'
    BY <1>3, <2>1 DEF HealthTypes
  <2>3. ReadLately'
    BY <1>1, <1>3, <2>1 DEF HealthTypes, ReadLately
  <2> QED
    BY <1>4, <2>1, <2>2, <2>3
<1>6. CASE Read
  <2>1. /\ UNCHANGED <<real, ranAt, latest, poll, now>> /\ hand.state = "none"
        /\ hand' = [[hand EXCEPT !.state = real[hand.name]] EXCEPT !.at = now]
    BY <1>6 DEF Read
  <2>2. hand' = [name |-> hand.name, state |-> real[hand.name], at |-> now]
    BY <1>3, <2>1 DEF HealthTypes
  <2>3. real[hand.name] \in States
    BY <1>3 DEF HealthTypes
  <2>4. HealthTypes'
    BY <1>3, <2>1, <2>2, <2>3 DEF HealthTypes
  <2>5. ReadLately'
    BY <1>1, <1>3, <2>1, <2>2 DEF HealthTypes, ReadLately, RanUntil
  <2> QED
    BY <1>4, <2>1, <2>4, <2>5
<1>7. CASE Record
  <2>1. /\ UNCHANGED <<real, ranAt, poll, now>> /\ hand.state # "none"
        /\ latest' = [latest EXCEPT ![hand.name] = [state |-> hand.state, at |-> now]]
        /\ hand' = [name |-> After(hand.name), state |-> "none", at |-> 0]
    BY <1>7 DEF Record, Reading
  <2>2. HealthTypes' /\ ReadLately'
    BY <1>3, <2>1, NextContainer DEF HealthTypes, ReadLately, Rows
  <2>3. ASSUME NEW c \in Components
        PROVE  RowLate(c, latest[c])'
    <3>1. CASE c = hand.name
      <4>1. latest'[c] = [state |-> hand.state, at |-> now]
        BY <1>3, <2>1, <3>1 DEF HealthTypes
      <4>2. hand.state = "running" => now <= RanUntil(c)' + Delay
        BY <1>1, <1>3, <2>1, <3>1 DEF HealthTypes, ReadLately
      <4> QED
        BY <4>1, <4>2 DEF RowLate
    <3>2. CASE c # hand.name
      <4>1. latest'[c] = latest[c]
        BY <1>3, <2>1, <3>2 DEF HealthTypes
      <4> QED
        BY <1>2, <1>3, <4>1 DEF RowLate
    <3> QED
      BY <3>1, <3>2
  <2> QED
    BY <2>2, <2>3
<1>8. CASE Fail
  <2>1. /\ UNCHANGED <<real, ranAt, latest, poll, now>>
        /\ hand' = [name |-> After(hand.name), state |-> "none", at |-> 0]
    BY <1>8 DEF Fail, Reading
  <2> QED
    BY <1>3, <1>4, <2>1, NextContainer DEF HealthTypes, ReadLately
<1>9. CASE Tick
  <2>1. /\ UNCHANGED <<real, ranAt, hand, latest, poll>> /\ now' = now + 1
        /\ hand.state # "none" => now < hand.at + Delay
    BY <1>9 DEF Tick
  <2>2. HealthTypes'
    BY <1>3, <2>1 DEF HealthTypes
  <2>3. ReadLately'
    BY <1>1, <1>3, <2>1 DEF HealthTypes, ReadLately
  <2> QED
    BY <1>4, <2>1, <2>2, <2>3
<1> QED
  BY <1>5, <1>6, <1>7, <1>8, <1>9

(* Every step preserves HealthInv. *)
LEMMA HealthKept ==
    ASSUME HealthAssumption, HealthInv, HealthNext
    PROVE  HealthInv'
<1>1. /\ \A c \in Components, row \in Rows :
           RowLate(c, row) => (row.state = "running" => row.at <= RanUntil(c)' + Delay)
      /\ \A c \in Components, t \in Nat :
           t <= RanUntil(c) + Stale + Delay => t <= RanUntil(c)' + Stale + Delay
  BY StillLate DEF RowLate
<1>2. /\ latest \in [Components -> Rows] /\ poll \in [Pollers -> Polls] /\ now \in Nat
      /\ \A p \in Pollers : poll[p].at \in Nat /\ poll[p].rows \in [Components -> Rows]
      /\ \A p \in Pollers, c \in Components : RowLate(c, poll[p].rows[c])
      /\ \A c \in Components : RowLate(c, latest[c])
  BY DEF HealthInv, HealthTypes, Polls, RowsLate
<1>3. CASE \/ Read \/ Record \/ Fail \/ Tick
           \/ \E c \in Components, s \in States : Turn(c, s)
  <2>1. HealthTypes' /\ ReadLately' /\ (\A c \in Components : RowLate(c, latest[c])')
    BY <1>3, CollectorKeeps
  <2>2. poll' = poll
    BY <1>3 DEF Read, Record, Fail, Tick, Turn
  <2>3. \A p \in Pollers, c \in Components : RowLate(c, poll[p].rows[c])'
    BY <1>1, <1>2, <2>2 DEF RowLate
  <2>4. Named' /\ HealthyWasRunning'
    BY <1>1, <1>2, <2>2 DEF HealthInv, Named, HealthyWasRunning
  <2> QED
    BY <2>1, <2>3, <2>4 DEF HealthInv, RowsLate
<1>4. CASE ProcessRestart
  <2>1. /\ UNCHANGED <<real, ranAt, latest, now>> /\ poll' = [p \in Pollers |-> NoPoll]
        /\ hand' = [name |-> Min(Components), state |-> "none", at |-> 0]
    BY <1>4 DEF ProcessRestart, Reading
  <2>2. /\ NoPoll \in Polls /\ NoPoll.stage = "idle"
        /\ \A c \in Components : NoPoll.rows[c].state = "none"
    BY DEF NoPoll, NewPoll, Polls, Rows, Nothing, NoName
  <2>3. HealthTypes' /\ ReadLately'
    BY <2>1, <2>2, NextContainer DEF HealthInv, HealthTypes, ReadLately
  <2>4. RowsLate' /\ Named' /\ HealthyWasRunning'
    BY <1>1, <1>2, <2>1, <2>2 DEF RowsLate, RowLate, Named, HealthyWasRunning
  <2> QED
    BY <2>3, <2>4 DEF HealthInv
<1>5. ASSUME NEW p \in Pollers,
             Begin(p) \/ Advise(p) \/ Report(p) \/ \E c \in Components : Evaluate(p, c)
      PROVE  HealthInv'
  <2>1. PICK r \in Polls :
           /\ poll' = [poll EXCEPT ![p] = r]
           /\ \A c \in Components : r.rows[c] \in {poll[p].rows[c], latest[c], Nothing}
           /\ r.stage = "advise" =>
                 /\ r.name \in Components /\ r.at = now
                 /\ r.status[r.name] \in HealthStatuses
                 /\ r.status[r.name] = Status(poll[p].rows[r.name], now)
    BY <1>5, Polling
  <2>2. UNCHANGED <<real, ranAt, hand, latest, now>>
    <3>1. ASSUME Begin(p) \/ Advise(p) \/ Report(p)
          PROVE  UNCHANGED <<real, ranAt, hand, latest, now>>
      BY <3>1 DEF Begin, Advise, Report
    <3>2. ASSUME NEW c \in Components, Evaluate(p, c)
          PROVE  UNCHANGED <<real, ranAt, hand, latest, now>>
      BY <3>2 DEF Evaluate
    <3> QED
      BY <1>5, <3>1, <3>2
  <2>3. poll'[p] = r /\ \A q \in Pollers : q # p => poll'[q] = poll[q]
    BY <1>2, <2>1
  <2>4. HealthTypes'
    BY <1>2, <2>1, <2>2 DEF HealthInv, HealthTypes
  <2>5. ReadLately' /\ \A c \in Components : RanUntil(c)' = RanUntil(c)
    BY <2>2 DEF HealthInv, ReadLately, RanUntil
  <2>6. RowsLate'
    <3>1. \A c \in Components : RowLate(c, Nothing)
      BY DEF RowLate, Nothing
    <3>2. \A c \in Components : RowLate(c, r.rows[c])
      BY <1>2, <2>1, <3>1
    <3>3. \A q \in Pollers, c \in Components : RowLate(c, poll'[q].rows[c])
      BY <1>2, <2>3, <3>2
    <3> QED
      BY <1>2, <2>2, <2>5, <3>3 DEF RowsLate, RowLate
  <2>7. Named'
    BY <2>1, <2>3 DEF HealthInv, Named
  <2>8. HealthyWasRunning'
    <3>1. ASSUME r.stage = "advise", r.status[r.name] = "healthy"
          PROVE  r.at <= RanUntil(r.name) + Stale + Delay
      <4>1. /\ r.name \in Components /\ r.at = now
            /\ Status(poll[p].rows[r.name], now) = "healthy"
        BY <2>1, <3>1
      <4>2. poll[p].rows[r.name] \in Rows /\ RowLate(r.name, poll[p].rows[r.name])
        BY <1>2, <4>1
      <4> QED
        BY <4>1, <4>2, HealthyRan DEF HealthInv
    <3>2. \A q \in Pollers :
            poll'[q].stage = "advise" /\ poll'[q].status[poll'[q].name] = "healthy"
              => poll'[q].at <= RanUntil(poll'[q].name) + Stale + Delay
      BY <2>3, <3>1 DEF HealthInv, HealthyWasRunning
    <3>3. \A q \in Pollers : poll'[q].stage = "advise" => poll'[q].name \in Components
      BY <2>7 DEF Named
    <3> QED
      BY <2>5, <3>2, <3>3 DEF HealthyWasRunning
  <2> QED
    BY <2>4, <2>5, <2>6, <2>7, <2>8 DEF HealthInv
<1> QED
  BY <1>3, <1>4, <1>5 DEF HealthNext, States

(* A component is evaluated healthy only if it ran within the threshold    *)
(* and the delay of a reading, for any number of containers, of threads    *)
(* that ask, of failed readings and rows, and of restarts.                 *)
THEOREM HealthyRanLately ==
    ASSUME HealthAssumption
    PROVE  HealthSpec => []HealthyWasRunning
<1>1. HealthInit => HealthInv
  BY InitHealth
<1>2. HealthInv /\ [HealthNext]_healthVars => HealthInv'
  <2>1. CASE HealthNext
    BY <2>1, HealthKept
  <2>2. CASE UNCHANGED healthVars
    BY <2>2 DEF healthVars, HealthInv, HealthTypes, ReadLately, RowsLate, RowLate, RanUntil,
                Named, HealthyWasRunning
  <2> QED
    BY <2>1, <2>2
<1>3. HealthInv => HealthyWasRunning
  BY DEF HealthInv
<1> QED
  BY <1>1, <1>2, <1>3, PTL DEF HealthSpec

(* The platform: the mean of the credits. *)

(* The collector's list has three containers. *)
FewContainers == IsFiniteSet(Components) /\ Cardinality(Components) <= 3

Unmasked(status) ==
    /\ \A c \in Components : status[c] \notin {"critical", "unknown"}
    /\ \E c \in Components : status[c] = "healthy"

(* Only a thread that is through has a platform, and one that is not has   *)
(* a row to evaluate or has evaluated one.                                 *)
Reporting(r) ==
    /\ r.stage # "reported" => r.platform = Unheard
    /\ r.stage \in {"evaluate", "advise"} =>
          \E c \in Components : r.rows[c] # Nothing \/ r.status[c] # Unheard
    /\ r.platform = "healthy" => Unmasked(r.status)

MeanInv == \A p \in Pollers : Reporting(poll[p])

(* With three components at most, one failed or unresolved component, or   *)
(* none that is healthy, brings the mean under the threshold.              *)
LEMMA MeanOfThree ==
    ASSUME NEW h \in Nat, NEW w \in Nat, NEW c \in Nat, NEW u \in Nat, NEW n \in 1..3,
           n = h + w + c + u,
           (100 * h + 70 * w + 40 * c + 0 * u) \div n >= 85
    PROVE  c = 0 /\ u = 0 /\ h >= 1
<1>1. CASE n = 1
  BY <1>1
<1>2. CASE n = 2
  BY <1>2
<1>3. CASE n = 3
  BY <1>3
<1> QED
  BY <1>1, <1>2, <1>3

(* The components that have been evaluated are those of the four statuses. *)
LEMMA ByStatus ==
    ASSUME FewContainers, NEW status \in [Components -> HealthStatuses \cup {Unheard}],
           \E c \in Components : status[c] # Unheard
    PROVE  LET Having(s) == {c \in Components : status[c] = s}
               n == Cardinality({c \in Components : status[c] # Unheard})
           IN  /\ \A s \in HealthStatuses : Cardinality(Having(s)) \in Nat
               /\ \A s \in HealthStatuses : Cardinality(Having(s)) = 0 <=> Having(s) = {}
               /\ n \in 1..3
               /\ n = Cardinality(Having("healthy")) + Cardinality(Having("warning"))
                        + Cardinality(Having("critical")) + Cardinality(Having("unknown"))
<1> DEFINE Having(s) == {c \in Components : status[c] = s}
           heard == {c \in Components : status[c] # Unheard}
           n == Cardinality(heard)
           hw == Having("healthy") \cup Having("warning")
           hwc == hw \cup Having("critical")
<1>1. ASSUME NEW S \in SUBSET Components
      PROVE  /\ IsFiniteSet(S) /\ Cardinality(S) \in Nat /\ Cardinality(S) <= 3
             /\ Cardinality(S) = 0 <=> S = {}
  <2>1. IsFiniteSet(S) /\ Cardinality(S) <= Cardinality(Components)
    BY FS_Subset DEF FewContainers
  <2>2. Cardinality(S) \in Nat /\ Cardinality(Components) \in Nat /\ Cardinality(Components) <= 3
    BY <2>1, FS_CardinalityType DEF FewContainers
  <2> QED
    BY <2>1, <2>2, FS_EmptySet
<1>2. \A s : Having(s) \in SUBSET Components
  OBVIOUS
<1>3. heard \in SUBSET Components /\ heard # {} /\ hw \in SUBSET Components /\ hwc \in SUBSET Components
  OBVIOUS
<1>4. Cardinality(hw) = Cardinality(Having("healthy")) + Cardinality(Having("warning"))
  <2>1. Having("healthy") \cap Having("warning") = {}
    OBVIOUS
  <2> QED
    BY <1>1, <1>2, <2>1, FS_Union, FS_EmptySet
<1>5. Cardinality(hwc) = Cardinality(hw) + Cardinality(Having("critical"))
  <2>1. hw \cap Having("critical") = {}
    OBVIOUS
  <2>2. /\ IsFiniteSet(hw) /\ IsFiniteSet(Having("critical"))
        /\ Cardinality(hw) \in Nat /\ Cardinality(Having("critical")) \in Nat
    BY <1>1, <1>2, <1>3
  <2> HIDE DEF hw, Having
  <2>3. Cardinality(hw \cup Having("critical")) = Cardinality(hw) + Cardinality(Having("critical"))
                                                  - Cardinality(hw \cap Having("critical"))
    BY <2>2, FS_Union
  <2>4. Cardinality(hw \cap Having("critical")) = 0
    BY <2>1, FS_EmptySet
  <2> QED
    BY <2>2, <2>3, <2>4
<1>6. n = Cardinality(hwc) + Cardinality(Having("unknown"))
  <2>1. hwc \cap Having("unknown") = {}
    OBVIOUS
  <2>2. heard = hwc \cup Having("unknown")
    BY DEF HealthStatuses, Unheard
  <2>3. /\ IsFiniteSet(hwc) /\ IsFiniteSet(Having("unknown"))
        /\ Cardinality(hwc) \in Nat /\ Cardinality(Having("unknown")) \in Nat
    BY <1>1, <1>2, <1>3
  <2> HIDE DEF hwc, Having, heard
  <2>4. Cardinality(hwc \cup Having("unknown")) = Cardinality(hwc) + Cardinality(Having("unknown"))
                                                  - Cardinality(hwc \cap Having("unknown"))
    BY <2>3, FS_Union
  <2>5. Cardinality(hwc \cap Having("unknown")) = 0
    BY <2>1, FS_EmptySet
  <2> QED
    BY <2>2, <2>3, <2>4, <2>5
<1>7. n \in 1..3
  BY <1>1, <1>3
<1>8. \A s : /\ Cardinality(Having(s)) \in Nat
             /\ Cardinality(Having(s)) = 0 <=> Having(s) = {}
  BY <1>1, <1>2
<1> QED
  BY <1>4, <1>5, <1>6, <1>7, <1>8

(* What is reported healthy hides no failure. *)
LEMMA MeanMasksNone ==
    ASSUME FewContainers, NEW status \in [Components -> HealthStatuses \cup {Unheard}],
           \E c \in Components : status[c] # Unheard,
           Platform(status) = "healthy"
    PROVE  Unmasked(status)
<1> DEFINE Having(s) == {c \in Components : status[c] = s}
           n == Cardinality({c \in Components : status[c] # Unheard})
           h == Cardinality(Having("healthy"))
           w == Cardinality(Having("warning"))
           c == Cardinality(Having("critical"))
           u == Cardinality(Having("unknown"))
<1>1. /\ h \in Nat /\ w \in Nat /\ c \in Nat /\ u \in Nat
      /\ n \in 1..3 /\ n = h + w + c + u
      /\ c = 0 <=> Having("critical") = {}
      /\ u = 0 <=> Having("unknown") = {}
      /\ h = 0 <=> Having("healthy") = {}
  BY ByStatus DEF HealthStatuses
<1>2. (100 * h + 70 * w + 40 * c + 0 * u) \div n >= 85
  <2>1. /\ Credit("healthy") = 100 /\ Credit("warning") = 70
        /\ Credit("critical") = 40 /\ Credit("unknown") = 0
    BY DEF Credit
  <2> DEFINE score == (100 * h + 70 * w + 40 * c + 0 * u) \div n
  <2>2. Platform(status) = CASE score >= 85 -> "healthy"
                             [] score \in 60..84 -> "warning"
                             [] OTHER -> "critical"
    BY <2>1 DEF Platform
  <2> HIDE DEF score
  <2>3. score >= 85
    BY <2>2
  <2> QED
    BY <2>3 DEF score
<1> HIDE DEF h, w, c, u, n
<1>3. c = 0 /\ u = 0 /\ h >= 1
  BY <1>1, <1>2, MeanOfThree
<1>4. Having("critical") = {} /\ Having("unknown") = {} /\ Having("healthy") # {}
  BY <1>1, <1>3
<1> QED
  BY <1>4 DEF Unmasked

(* A thread reports after it has evaluated what there was. *)
LEMMA MeanKept ==
    ASSUME HealthAssumption, FewContainers, HealthInv, MeanInv, NEW p \in Pollers,
           \/ Begin(p) \/ Advise(p) \/ Report(p) \/ \E c \in Components : Evaluate(p, c)
    PROVE  MeanInv'
<1>1. /\ latest \in [Components -> Rows] /\ poll \in [Pollers -> Polls] /\ poll[p] \in Polls
      /\ poll[p].rows \in [Components -> Rows]
      /\ poll[p].status \in [Components -> HealthStatuses \cup {Unheard}]
      /\ Reporting(poll[p])
  BY DEF HealthInv, HealthTypes, Polls, MeanInv
<1> SUFFICES /\ Reporting(poll'[p])
             /\ \A q \in Pollers : q # p => poll'[q] = poll[q]
  BY <1>1 DEF MeanInv, Reporting, Unmasked
<1>2. CASE Begin(p)
  <2> DEFINE n == NewPoll(latest)
             r == IF \A c \in Components : latest[c] = Nothing
                    THEN [n EXCEPT !.stage = "reported", !.platform = "unknown"]
                    ELSE n
  <2>1. n.rows = latest /\ n.stage = "evaluate" /\ n.platform = Unheard
    BY DEF NewPoll
  <2>2. poll' = [poll EXCEPT ![p] = r]
    BY <1>2 DEF Begin
  <2>3. CASE \A c \in Components : latest[c] = Nothing
    <3>1. r.stage = "reported" /\ r.platform = "unknown"
      BY <2>3 DEF NewPoll
    <3> HIDE DEF r
    <3> QED
      BY <1>1, <2>2, <3>1 DEF Reporting
  <2>4. CASE \E c \in Components : latest[c] # Nothing
    <3>1. r = n
      BY <2>4
    <3> HIDE DEF r, n
    <3> QED
      BY <1>1, <2>1, <2>2, <2>4, <3>1 DEF Reporting, Unheard
  <2> QED
    BY <2>3, <2>4
<1>3. CASE Advise(p)
  <2>1. /\ poll'[p].platform = poll[p].platform /\ poll'[p].stage = "evaluate"
        /\ poll'[p].rows = poll[p].rows /\ poll'[p].status = poll[p].status
        /\ poll[p].stage = "advise"
        /\ \A q \in Pollers : q # p => poll'[q] = poll[q]
    BY <1>1, <1>3 DEF Advise, Polls
  <2> QED
    BY <1>1, <2>1 DEF Reporting
<1>4. CASE Report(p)
  <2> DEFINE v == Platform(poll[p].status)
  <2>1. /\ poll'[p].platform = v /\ poll'[p].stage = "reported"
        /\ poll'[p].status = poll[p].status
        /\ \A q \in Pollers : q # p => poll'[q] = poll[q]
    BY <1>1, <1>4 DEF Report, Polls
  <2>2. \E c \in Components : poll[p].status[c] # Unheard
    BY <1>1, <1>4 DEF Report, Reporting
  <2>3. v = "healthy" => Unmasked(poll[p].status)
    BY <1>1, <2>2, MeanMasksNone
  <2> HIDE DEF v
  <2> QED
    BY <2>1, <2>3 DEF Reporting
<1>5. ASSUME NEW c \in Components, Evaluate(p, c)
      PROVE  /\ Reporting(poll'[p])
             /\ \A q \in Pollers : q # p => poll'[q] = poll[q]
  <2> DEFINE v == Status(poll[p].rows[c], now)
  <2>1. v \in HealthStatuses
    BY DEF Status, Unresolved, Failed, Old, HealthStatuses
  <2>2. poll' = [poll EXCEPT ![p].stage = "advise", ![p].name = c, ![p].rows[c] = Nothing,
                             ![p].status[c] = v, ![p].at = now]
    BY <1>5 DEF Evaluate
  <2> HIDE DEF v
  <2>3. /\ poll'[p].platform = poll[p].platform /\ poll'[p].stage = "advise"
        /\ poll'[p].status[c] = v
        /\ \A q \in Pollers : q # p => poll'[q] = poll[q]
    BY <1>1, <2>2 DEF Polls
  <2>4. poll[p].stage = "evaluate"
    BY <1>5 DEF Evaluate
  <2> QED
    BY <1>1, <2>1, <2>3, <2>4 DEF Reporting, HealthStatuses, Unheard
<1> QED
  BY <1>2, <1>3, <1>4, <1>5

(* With the three containers of the collector, the mean never hides one    *)
(* that does not run or cannot be resolved, whatever threads, rows that    *)
(* fail and restarts there are; with four it could.                        *)
THEOREM NoFailureMasked ==
    ASSUME HealthAssumption, FewContainers
    PROVE  HealthSpec => []FailureIsNotMasked
<1>1. HealthInit => HealthInv /\ MeanInv
  <2>1. NoPoll.stage = "idle" /\ NoPoll.platform = Unheard
    BY DEF NoPoll, NewPoll
  <2> QED
    BY <2>1, InitHealth DEF HealthInit, MeanInv, Reporting, Unheard
<1>2. HealthInv /\ MeanInv /\ [HealthNext]_healthVars => HealthInv' /\ MeanInv'
  <2> SUFFICES ASSUME HealthInv, MeanInv, [HealthNext]_healthVars PROVE HealthInv' /\ MeanInv'
    OBVIOUS
  <2>1. HealthInv'
    <3>1. CASE HealthNext
      BY <3>1, HealthKept
    <3>2. CASE UNCHANGED healthVars
      BY <3>2 DEF healthVars, HealthInv, HealthTypes, ReadLately, RowsLate, RowLate, RanUntil,
                  Named, HealthyWasRunning
    <3> QED
      BY <3>1, <3>2
  <2>2. CASE poll' = poll
    BY <2>1, <2>2 DEF MeanInv
  <2>3. CASE ProcessRestart
    <3>1. NoPoll.stage = "idle" /\ NoPoll.platform = Unheard
      BY DEF NoPoll, NewPoll
    <3> QED
      BY <2>1, <2>3, <3>1 DEF ProcessRestart, MeanInv, Reporting, Unheard
  <2>4. ASSUME NEW p \in Pollers,
               Begin(p) \/ Advise(p) \/ Report(p) \/ \E c \in Components : Evaluate(p, c)
        PROVE  HealthInv' /\ MeanInv'
    BY <2>1, <2>4, MeanKept
  <2>5. \/ poll' = poll \/ ProcessRestart
        \/ \E p \in Pollers :
             Begin(p) \/ Advise(p) \/ Report(p) \/ \E c \in Components : Evaluate(p, c)
    BY DEF HealthNext, healthVars, Read, Record, Fail, Tick, Turn
  <2> QED
    BY <2>2, <2>3, <2>4, <2>5
<1>3. MeanInv => FailureIsNotMasked
  BY DEF MeanInv, Reporting, Unmasked, FailureIsNotMasked
<1> QED
  BY <1>1, <1>2, <1>3, PTL DEF HealthSpec

-----------------------------------------------------------------------------
(* No time is ahead of the clock, and the bounds hold. *)
Timely ==
    /\ now \in 0..MaxNow
    /\ hand.at <= now
    /\ \A c \in Components : latest[c].at <= now
    /\ memory \in [Components -> 0..MaxPolls]
    /\ changes \in 0..MaxChanges

LEMMA TimelyKept ==
    ASSUME HealthAssumption, HealthInv, Timely, HealthNext
    PROVE  Timely'
<1>1. /\ latest \in [Components -> Rows] /\ hand.at \in Nat
      /\ \A c \in Components : latest[c].at \in Nat
      /\ MaxNow \in Nat /\ MaxPolls \in Nat /\ MaxChanges \in Nat
      /\ hand = [name |-> hand.name, state |-> hand.state, at |-> hand.at]
  BY DEF HealthInv, HealthTypes, HealthAssumption, Rows
<1>2. ASSUME NEW c \in Components, NEW s \in States, Turn(c, s)
      PROVE  Timely'
  BY <1>1, <1>2 DEF Turn, Timely
<1>3. CASE Read
  <2>1. hand' = [name |-> hand.name, state |-> real[hand.name], at |-> now]
    BY <1>1, <1>3 DEF Read
  <2> QED
    BY <1>1, <1>3, <2>1 DEF Read, Timely
<1>4. CASE Record
  <2>1. /\ UNCHANGED <<memory, now, changes>> /\ hand'.at = 0
        /\ latest' = [latest EXCEPT ![hand.name] = [state |-> hand.state, at |-> now]]
    BY <1>4 DEF Record, Reading
  <2> QED
    BY <1>1, <2>1 DEF Timely
<1>5. CASE Fail
  <2>1. /\ UNCHANGED <<memory, now, latest>> /\ hand'.at = 0
        /\ changes' = changes \/ (changes < MaxChanges /\ changes' = changes + 1)
    BY <1>5 DEF Fail, Reading
  <2> QED
    BY <1>1, <2>1 DEF Timely
<1>6. CASE Tick
  BY <1>1, <1>6 DEF Tick, Timely
<1>7. CASE ProcessRestart
  <2>1. /\ UNCHANGED <<memory, now, latest>> /\ hand'.at = 0
        /\ changes < MaxChanges /\ changes' = changes + 1
    BY <1>7 DEF ProcessRestart, Reading
  <2> QED
    BY <1>1, <2>1 DEF Timely
<1>8. ASSUME NEW p \in Pollers, Begin(p) \/ Advise(p) \/ Report(p)
      PROVE  Timely'
  <2>1. UNCHANGED <<hand, latest, memory, now, changes>>
    BY <1>8 DEF Begin, Advise, Report
  <2> QED
    BY <2>1 DEF Timely
<1>9. ASSUME NEW p \in Pollers, NEW c \in Components, Evaluate(p, c)
      PROVE  Timely'
  <2>1. /\ UNCHANGED <<hand, latest, now, changes>>
        /\ memory[c] < MaxPolls /\ memory' = [memory EXCEPT ![c] = memory[c] + 1]
    BY <1>9 DEF Evaluate
  <2> QED
    BY <1>1, <2>1 DEF Timely
<1> QED
  BY <1>2, <1>3, <1>4, <1>5, <1>6, <1>7, <1>8, <1>9 DEF HealthNext, States

(* The types of observation and health: every name, status, advice and     *)
(* time is one of its kind, and no time is past the clock's bound.         *)
THEOREM HealthTypeCorrect ==
    ASSUME HealthAssumption
    PROVE  HealthSpec => []HealthTypeOK
<1>1. HealthInit => HealthInv /\ Timely
  <2>1. ASSUME HealthInit
        PROVE  Timely
    BY <2>1 DEF HealthAssumption, HealthInit, Timely, Nothing, Reading
  <2> QED
    BY <2>1, InitHealth
<1>2. HealthInv /\ Timely /\ [HealthNext]_healthVars => HealthInv' /\ Timely'
  <2>1. CASE HealthNext
    BY <2>1, HealthKept, TimelyKept
  <2>2. CASE UNCHANGED healthVars
    BY <2>2 DEF healthVars, HealthInv, HealthTypes, ReadLately, RowsLate, RowLate, RanUntil,
                Named, HealthyWasRunning, Timely
  <2> QED
    BY <2>1, <2>2
<1>3. HealthInv /\ Timely => HealthTypeOK
  <2> SUFFICES ASSUME HealthInv, Timely PROVE HealthTypeOK
    OBVIOUS
  <2>1. /\ real \in [Components -> States] /\ ranAt \in [Components -> Nat]
        /\ \A c \in Components : ranAt[c] <= now
        /\ hand.name \in Components /\ hand.at \in Nat /\ hand.at <= now
        /\ \A c \in Components : latest[c].at \in Nat /\ latest[c].at <= now
        /\ now \in 0..MaxNow /\ now \in Nat /\ MaxNow \in Nat
    BY DEF HealthInv, HealthTypes, Timely, Rows, HealthAssumption
  <2>2. \A p \in Pollers : poll[p] \in Polls
    BY DEF HealthInv, HealthTypes
  <2>3. /\ ranAt \in [Components -> 0..MaxNow] /\ hand.at \in 0..MaxNow
        /\ \A c \in Components : latest[c].at \in 0..MaxNow
    BY <2>1
  <2> QED
    BY <2>1, <2>2, <2>3 DEF HealthTypeOK, Polls, States, Timely
<1> QED
  BY <1>1, <1>2, <1>3, PTL DEF HealthSpec
=============================================================================
