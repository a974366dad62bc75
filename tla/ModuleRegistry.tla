--------------------------- MODULE ModuleRegistry ---------------------------
(***************************************************************************)
(* The registry of modules, one JSON file that is read and written as a    *)
(* whole without a lock, and the two services that act on it: evolution    *)
(* registers a module through the governed boundary, self-management       *)
(* restarts one that is registered.  A change may be held, and continues   *)
(* under the lock of the approval routes, without a second look at whether *)
(* it is still compatible; one that is not held runs alongside anything.   *)
(***************************************************************************)
EXTENDS Naturals, FiniteSets

CONSTANTS
    Changes,       \* change proposals
    Names,         \* module names
    MaxStops       \* bound: how often the process ends within a change

VARIABLES
    registry,      \* modules.json: a set of modules, emptied or torn
    change,        \* how far each proposal is
    target,        \* the module each proposal names
    loaded,        \* what the thread of each read of the registry
    waited,        \* the proposals that were held
    approving,     \* the change that has the lock of the approval routes
    refused,       \* approval records of what was blocked
    missed,        \* history: who wrote after each had read the list
    overtaken,     \* history: what was written after each was assessed
    stops

moduleVars == <<registry, change, target, loaded, waited, approving, refused,
                missed, overtaken, stops>>

histories == <<missed, overtaken>>

Modules == Changes \X Names
Module(c) == <<c, target[c]>>
Emptied == {<<"emptied", "emptied">>}
Torn == {<<"torn", "torn">>}
Readable(file) == file \notin {Emptied, Torn}
Nobody == "nobody"
NamesIn(modules) == {m[2] : m \in modules}

(* What the theorems assume of the constants. *)
ModuleAssumption == Nobody \notin Changes /\ MaxStops \in Nat

States == {"new", "assessed", "denied", "held", "executing", "loaded", "writing",
           "registered", "failed", "blocked", "raised", "verified_success",
           "state_mismatch", "observation_unavailable", "lost"}

ModuleTypeOK ==
    /\ registry \in (SUBSET Modules) \cup {Emptied, Torn}
    /\ change \in [Changes -> States]
    /\ target \in [Changes -> Names]
    /\ loaded \in [Changes -> SUBSET Modules]
    /\ waited \subseteq Changes
    /\ approving \in Changes \cup {Nobody}
    /\ refused \subseteq Changes \cup Names
    /\ missed \in [Changes -> SUBSET Changes]
    /\ overtaken \in [Changes -> SUBSET Changes]
    /\ stops \in 0..MaxStops

ModuleInit ==
    /\ registry = {}
    /\ change = [c \in Changes |-> "new"]
    /\ target \in [Changes -> Names]
    /\ loaded = [c \in Changes |-> {}]
    /\ waited = {} /\ refused = {}
    /\ approving = Nobody
    /\ missed = [c \in Changes |-> {}] /\ overtaken = [c \in Changes |-> {}]
    /\ stops = 0

-----------------------------------------------------------------------------

Becomes(c, s) == change' = [change EXCEPT ![c] = s]

(* The approval route lets go of its lock when its change is answered. *)
Answer(c) == approving' = IF approving = c THEN Nobody ELSE approving

(* Another adapter or operation, whatever the registry holds, or a name    *)
(* that is registered: refused before governance, with a record of it.     *)
Block(c) ==
    /\ change[c] = "new"
    /\ Becomes(c, "blocked")
    /\ refused' = refused \cup {c}
    /\ UNCHANGED <<registry, target, loaded, waited, approving, histories, stops>>

(* Mutant: only the identity of the module is looked at. *)
AssessNothing(c) ==
    /\ change[c] = "new"
    /\ Readable(registry)
    /\ Becomes(c, "assessed")
    /\ UNCHANGED <<registry, target, loaded, waited, approving, refused, histories, stops>>

(* assess_change reads the registry; nothing keeps two calls apart. *)
Assess(c) ==
    /\ change[c] = "new"
    /\ Readable(registry)
    /\ target[c] \notin NamesIn(registry)
    /\ Becomes(c, "assessed")
    /\ UNCHANGED <<registry, target, loaded, waited, approving, refused, histories, stops>>

Raise(c) ==
    /\ change[c] = "new"
    /\ ~Readable(registry)
    /\ Becomes(c, "raised")
    /\ UNCHANGED <<registry, target, loaded, waited, approving, refused, histories, stops>>

(* execute_governed_action denies, holds or executes; what is held may be  *)
(* rejected or expire.                                                     *)
Deny(c) ==
    /\ change[c] \in {"assessed", "held"}
    /\ Becomes(c, "denied")
    /\ UNCHANGED <<registry, target, loaded, waited, approving, refused, histories, stops>>

Hold(c) ==
    /\ change[c] = "assessed"
    /\ Becomes(c, "held")
    /\ waited' = waited \cup {c}
    /\ UNCHANGED <<registry, target, loaded, approving, refused, histories, stops>>

(* Mutant: an approval does not wait for the one before it. *)
ExecuteAlongside(c) ==
    /\ change[c] \in {"assessed", "held"}
    /\ Becomes(c, "executing")
    /\ UNCHANGED <<registry, target, loaded, waited, approving, refused, histories, stops>>

(* What was held goes on when it is approved, under the approvals' lock. *)
ExecuteChange(c) ==
    /\ \/ change[c] = "assessed" /\ UNCHANGED approving
       \/ change[c] = "held" /\ approving = Nobody /\ approving' = c
    /\ Becomes(c, "executing")
    /\ UNCHANGED <<registry, target, loaded, waited, refused, histories, stops>>

(* register_module reads the file; one that cannot be parsed is a          *)
(* ValueError, and the adapter reports a failure.                          *)
Load(c) ==
    /\ change[c] = "executing"
    /\ IF Readable(registry)
       THEN /\ Becomes(c, "loaded")
            /\ loaded' = [loaded EXCEPT ![c] = registry]
            /\ UNCHANGED approving
       ELSE /\ Becomes(c, "failed")
            /\ Answer(c)
            /\ UNCHANGED loaded
    /\ UNCHANGED <<registry, target, waited, refused, histories, stops>>

(* save_modules opens the file, which empties it, and then writes it. *)
Open(c) ==
    /\ change[c] = "loaded"
    /\ Becomes(c, "writing")
    /\ registry' = Emptied
    /\ UNCHANGED <<target, loaded, waited, approving, refused, histories, stops>>

(* What is written over the text that another left since the file was      *)
(* opened may leave its tail.                                              *)
Write(c) ==
    /\ change[c] = "writing"
    /\ Becomes(c, "registered")
    /\ \/ registry' = loaded[c] \cup {Module(c)}
       \/ registry # Emptied /\ registry' = Torn
    /\ missed' = [o \in Changes |-> IF o # c /\ change[o] \in {"loaded", "writing"}
                                    THEN missed[o] \cup {c} ELSE missed[o]]
    /\ overtaken' = [o \in Changes |-> IF change[o] \in {"assessed", "held", "executing"}
                                       THEN overtaken[o] \cup {m[1] : m \in registry' \cap Modules}
                                       ELSE overtaken[o]]
    /\ UNCHANGED <<target, loaded, waited, approving, refused, stops>>

(* The Core's observer reads the registry again. *)
Observe(c) ==
    /\ change[c] = "registered"
    /\ \/ ~Readable(registry) /\ Becomes(c, "observation_unavailable")
       \/ /\ Readable(registry)
          /\ Becomes(c, IF target[c] \in NamesIn(registry) THEN "verified_success"
                        ELSE "state_mismatch")
    /\ Answer(c)
    /\ UNCHANGED <<registry, target, loaded, waited, refused, histories, stops>>

(* Self-management records what it refuses, a name that is not registered; *)
(* the restart of one that is goes through the governed lifecycle.         *)
Manage(n) ==
    /\ Readable(registry)
    /\ n \notin NamesIn(registry)
    /\ refused' = refused \cup {n}
    /\ UNCHANGED <<registry, change, target, loaded, waited, approving, histories, stops>>

StopWithin ==
    /\ stops < MaxStops
    /\ stops' = stops + 1
    /\ change' = [c \in Changes |->
                    IF change[c] \in {"assessed", "executing", "loaded", "writing",
                                      "registered"}
                    THEN "lost" ELSE change[c]]
    /\ approving' = Nobody
    /\ UNCHANGED <<registry, target, loaded, waited, refused, histories>>

ModuleNext ==
    \/ \E c \in Changes :
          \/ Block(c) \/ Assess(c) \/ Raise(c) \/ Deny(c) \/ Hold(c)
          \/ ExecuteChange(c) \/ Load(c) \/ Open(c) \/ Write(c) \/ Observe(c)
    \/ \E n \in Names : Manage(n)
    \/ StopWithin

ModuleSpec == ModuleInit /\ [][ModuleNext]_moduleVars

-----------------------------------------------------------------------------

(* A verified registration is missing from a readable registry only if     *)
(* some change had read the list before it was there and was yet to write, *)
(* and of the two not both were continued under the approvals' lock: held  *)
(* changes do not lose each other's registrations.                         *)
RegistrationsKept ==
    \A c \in Changes :
        change[c] = "verified_success" /\ Readable(registry) /\ Module(c) \notin registry
        => \E o \in Changes : c \in missed[o] /\ ~({c, o} \subseteq waited)

(* Two modules have one name only if one of them was written to the        *)
(* registry after the other was assessed and before it was executed: held  *)
(* or not, no change takes a name that its assessment could have seen.     *)
DuplicateWasOvertaken ==
    \A c, o \in Changes :
        /\ c # o /\ Readable(registry)
        /\ {Module(c), Module(o)} \subseteq registry
        /\ target[c] = target[o]
        => c \in overtaken[o] \/ o \in overtaken[c]
=============================================================================
