---------------------------- MODULE CommandHolds ----------------------------
(***************************************************************************)
(* Holds of shell commands (coding_agent): a hook of a coding agent sends  *)
(* each command before it runs.  One that matches a risk rule is held with *)
(* evidence and a verdict for an operator, while the hook polls for the    *)
(* decision and, when none comes in time, lets the command run unreviewed. *)
(* Routes run in threads; decide reads the hold, and then writes it.       *)
(***************************************************************************)
EXTENDS Naturals, FiniteSets

CONSTANTS
    Commands,      \* the proposed commands
    Rules,         \* the risk rules of this instance
    HighRules,     \* those whose risk level is high
    Deciders,      \* threads of POST /coding-agent/decide
    MaxLives,      \* bound: how often the service is started
    MaxLosses      \* bound: the writes that fail

VARIABLES
    held, heldDisk,  \* the holds in memory and in their table
    hook,            \* what the hook does with each command
    deciding,        \* the hold that a thread found pending, and its decision
    saving,          \* the thread that has the store's lock, its row not written
    decisions,       \* history: the decisions written for each hold
    unsaved,         \* history: the holds of which the last one is in no row
    lives, losses

commandVars == <<held, heldDisk, hook, deciding, saving, decisions, unsaved, lives, losses>>

NoRule == "none"
NoHold == [rule |-> NoRule, verdict |-> "reject", status |-> "pending", tally |-> "none"]
NoCommand == "none"

Decision(approved) == IF approved THEN "approved" ELSE "rejected"

CommandTypeOK ==
    /\ {held, heldDisk} \subseteq
         [Commands -> [rule : Rules \cup {NoRule}, verdict : {"approve", "reject"},
                       status : {"pending", "approved", "rejected"},
                       tally : {"none", "approve", "reject", "neutral"}]]
    /\ hook \in [Commands -> {"idle", "polling", "allowed", "ran", "blocked",
                              "unreviewed"}]
    /\ deciding \in [Deciders -> (Commands \cup {NoCommand}) \X BOOLEAN]
    /\ saving \subseteq Deciders
    /\ decisions \in [Commands -> SUBSET {"approved", "rejected"}]
    /\ unsaved \subseteq Commands
    /\ lives \in 1..MaxLives
    /\ losses \in 0..MaxLosses

CommandInit ==
    /\ held = [c \in Commands |-> NoHold]
    /\ heldDisk = held
    /\ hook = [c \in Commands |-> "idle"]
    /\ deciding = [d \in Deciders |-> <<NoCommand, FALSE>>]
    /\ saving = {} /\ unsaved = {}
    /\ decisions = [c \in Commands |-> {}]
    /\ lives = 1 /\ losses = 0

-----------------------------------------------------------------------------
(* The review: three sources of evidence, each leaning to one side.        *)

RuleLean(rule) == IF rule \in HighRules THEN "reject" ELSE "neutral"

WithStatus(rule, status) ==
    {c \in Commands : held[c].rule = rule /\ held[c].status = status}

(* Mutant: what is not decided yet counts as approved. *)
TallyPending(rule) ==
    LET approved == Cardinality(WithStatus(rule, "approved")
                                  \cup WithStatus(rule, "pending"))
        rejected == Cardinality(WithStatus(rule, "rejected"))
    IN  CASE approved + rejected = 0 -> "none"
          [] rejected > approved -> "reject"
          [] approved > rejected -> "approve"
          [] OTHER -> "neutral"

(* The decided holds of the rule; no history is no evidence. *)
Tally(rule) ==
    LET approved == Cardinality(WithStatus(rule, "approved"))
        rejected == Cardinality(WithStatus(rule, "rejected"))
    IN  CASE approved + rejected = 0 -> "none"
          [] rejected > approved -> "reject"
          [] approved > rejected -> "approve"
          [] OTHER -> "neutral"

(* Uncommitted changes, or commits that a forced push would discard, speak *)
(* against; a clean tree is neutral, and what cannot be read says nothing. *)
Situations == {"none", "neutral", "reject"}

(* One voice against decides, and silence is not consent. *)
ReviewVerdict(leans) ==
    IF "reject" \notin leans /\ "approve" \in leans THEN "approve" ELSE "reject"

(* POST /coding-agent/propose: what matches no rule runs at once.          *)
AutoAllow(c) ==
    /\ hook[c] = "idle"
    /\ hook' = [hook EXCEPT ![c] = "allowed"]
    /\ UNCHANGED <<held, heldDisk, deciding, saving, decisions, unsaved, lives, losses>>

(* The hold is saved under the store's lock, in the list first; when the   *)
(* row fails the hook gets an error, and the command runs.                 *)
Propose(c, rule) ==
    /\ hook[c] = "idle"
    /\ saving = {}
    /\ \E situation \in Situations :
          held' = [held EXCEPT ![c] =
                     [rule |-> rule, status |-> "pending", tally |-> Tally(rule),
                      verdict |-> ReviewVerdict({RuleLean(rule), Tally(rule), situation})]]
    /\ \/ /\ heldDisk' = [heldDisk EXCEPT ![c] = held'[c]]
          /\ hook' = [hook EXCEPT ![c] = "polling"]
          /\ UNCHANGED losses
       \/ /\ losses < MaxLosses
          /\ losses' = losses + 1
          /\ hook' = [hook EXCEPT ![c] = "unreviewed"]
          /\ UNCHANGED heldDisk
    /\ UNCHANGED <<deciding, saving, decisions, unsaved, lives>>

-----------------------------------------------------------------------------
(* POST /coding-agent/decide.                                              *)

Idle(d) == deciding[d][1] = NoCommand

(* A hold that is decided answers 409. *)
FindPending(d, c, approved) ==
    /\ Idle(d)
    /\ held[c].rule # NoRule /\ held[c].status = "pending"
    /\ deciding' = [deciding EXCEPT ![d] = <<c, approved>>]
    /\ UNCHANGED <<held, heldDisk, hook, saving, decisions, unsaved, lives, losses>>

(* Under the store's lock the list changes, whatever the hold is by now;   *)
(* who reads it does not wait for the row.                                 *)
Decide(d) ==
    LET c == deciding[d][1]
        status == Decision(deciding[d][2])
    IN  /\ ~Idle(d) /\ saving = {}
        /\ saving' = {d}
        /\ held' = [held EXCEPT ![c].status = status]
        /\ decisions' = [decisions EXCEPT ![c] = @ \cup {status}]
        /\ unsaved' = unsaved \cup {c}
        /\ UNCHANGED <<heldDisk, hook, deciding, lives, losses>>

Answered(d) ==
    /\ d \in saving
    /\ saving' = {}
    /\ deciding' = [deciding EXCEPT ![d] = <<NoCommand, FALSE>>]

(* Mutant: the row is written as the record was. *)
SaveOldRecord(d) ==
    /\ Answered(d)
    /\ unsaved' = unsaved \ {deciding[d][1]}
    /\ UNCHANGED <<held, heldDisk, hook, decisions, lives, losses>>

(* Then the row, if there is one. *)
SaveDecision(d) ==
    LET c == deciding[d][1]
        status == Decision(deciding[d][2])
    IN  /\ Answered(d)
        /\ \/ /\ heldDisk' = IF heldDisk[c].rule = NoRule THEN heldDisk
                             ELSE [heldDisk EXCEPT ![c].status = status]
              /\ unsaved' = unsaved \ {c}
              /\ UNCHANGED losses
           \/ /\ losses < MaxLosses
              /\ losses' = losses + 1
              /\ UNCHANGED <<heldDisk, unsaved>>
        /\ UNCHANGED <<held, hook, decisions, lives>>

(* GET /coding-agent/holds/{id}: a hook that polls obeys what it reads. *)
Poll(c) ==
    /\ hook[c] = "polling"
    /\ held[c].status # "pending"
    /\ hook' = [hook EXCEPT ![c] = IF held[c].status = "approved" THEN "ran" ELSE "blocked"]
    /\ UNCHANGED <<held, heldDisk, deciding, saving, decisions, unsaved, lives, losses>>

(* The time is up, the service is down or does not know the hold. *)
FailOpen(c) ==
    /\ hook[c] = "polling"
    /\ hook' = [hook EXCEPT ![c] = "unreviewed"]
    /\ UNCHANGED <<held, heldDisk, deciding, saving, decisions, unsaved, lives, losses>>

Reload ==
    /\ lives < MaxLives
    /\ lives' = lives + 1
    /\ held' = heldDisk
    /\ deciding' = [d \in Deciders |-> <<NoCommand, FALSE>>]
    /\ saving' = {}
    /\ UNCHANGED <<heldDisk, hook, decisions, unsaved, losses>>

CommandNext ==
    \/ \E c \in Commands :
          \/ AutoAllow(c) \/ Poll(c) \/ FailOpen(c)
          \/ \E rule \in Rules : Propose(c, rule)
          \/ \E d \in Deciders, approved \in BOOLEAN : FindPending(d, c, approved)
    \/ \E d \in Deciders : Decide(d) \/ SaveDecision(d)
    \/ Reload

CommandSpec == CommandInit /\ [][CommandNext]_commandVars

-----------------------------------------------------------------------------

(* A hold is shown to the operator as "approve" only under a rule that is  *)
(* not of high risk and of which operators approved another command: the   *)
(* review never recommends what no person decided first (review.assess,    *)
(* history_evidence).                                                      *)
ApproveIsEarned ==
    \A c \in Commands :
        held[c].rule # NoRule /\ held[c].verdict = "approve" =>
            /\ held[c].rule \notin HighRules
            /\ \E o \in Commands \ {c} :
                  "approved" \in decisions[o] /\ held[o].rule \in {held[c].rule, NoRule}

(* The record of a hold that was decided one way, and whose decision is in *)
(* its row, shows what the hook did, in this life and in the next ones,    *)
(* although a hook may obey a decision before it is in the row             *)
(* (_commit_update: the list before the row, and readers take no lock).    *)
RecordShowsWhatRan ==
    \A c \in Commands :
        c \notin unsaved /\ Cardinality(decisions[c]) <= 1 =>
            /\ hook[c] = "ran" => /\ held[c].status = "approved"
                                  /\ heldDisk[c].status = "approved"
            /\ hook[c] = "blocked" => /\ held[c].status = "rejected"
                                      /\ heldDisk[c].status = "rejected"
=============================================================================
