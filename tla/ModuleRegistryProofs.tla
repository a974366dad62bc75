----------------------- MODULE ModuleRegistryProofs -----------------------
(***************************************************************************)
(* What is lost from the registry, and what name is registered twice, for  *)
(* any number of changes, names and ends of the process: a registration is *)
(* lost only to a change that ran alongside it outside the approvals'      *)
(* lock, and a name is taken twice only when it came into the registry     *)
(* between the assessment of one change and its execution.                 *)
(***************************************************************************)
EXTENDS ModuleRegistry, TLAPS

Waiting == {"assessed", "held", "executing"}
Reading == {"loaded", "writing"}
Wrote == {"registered", "verified_success", "state_mismatch", "observation_unavailable"}

(* What was written is in the file, and in what each writer has read, or   *)
(* somebody who had read the list before was yet to write.                 *)
Lost(v) == \E o \in Changes : v \in missed[o]

Kept(v) ==
    /\ Readable(registry) => Module(v) \in registry
    /\ \A c \in Changes : change[c] \in Reading => Module(v) \in loaded[c]

KeptOrLost == \A v \in Changes : change[v] \in Wrote => Lost(v) \/ Kept(v)

(* A name that a waiting change finds in the file came after it was        *)
(* assessed; so did what it has read when it is about to write.            *)
Seen(c, modules) ==
    \A o \in Changes \ {c} :
        Module(o) \in modules /\ target[o] = target[c] => o \in overtaken[c]

SeenInTime ==
    \A c \in Changes :
        /\ change[c] \in Waiting /\ Readable(registry) => Seen(c, registry)
        /\ change[c] \in Reading => Seen(c, loaded[c])

(* A list in which two modules share a name only if one was overtaken. *)
Distinct(modules) ==
    \A c, o \in Changes :
        /\ c # o /\ target[c] = target[o]
        /\ Module(c) \in modules /\ Module(o) \in modules
        => c \in overtaken[o] \/ o \in overtaken[c]

NamesDistinct ==
    /\ Readable(registry) => Distinct(registry)
    /\ \A c \in Changes : change[c] \in Reading => Distinct(loaded[c])

Files == KeptOrLost /\ SeenInTime /\ NamesDistinct

(* A change that was held and is under way has the approvals' lock. *)
InLock ==
    \A c \in waited :
        change[c] \in {"executing", "loaded", "writing", "registered"} => approving = c

HeldWaited ==
    \A c \in Changes :
        /\ change[c] = "held" => c \in waited
        /\ change[c] \in {"new", "assessed"} => c \notin waited

(* Of two changes of which one missed the other, not both were held. *)
MissedUnlocked ==
    \A c, o \in Changes :
        c \in missed[o] => /\ ~({c, o} \subseteq waited)
                           /\ change[c] \notin {"new", "assessed"}
                           /\ change[o] \notin {"new", "assessed"}

Locks == InLock /\ HeldWaited /\ MissedUnlocked

Inv == ModuleTypeOK /\ Files /\ Locks

-----------------------------------------------------------------------------

LEMMA InitInv == ASSUME ModuleAssumption, ModuleInit PROVE Inv
<1>1. \A c \in Changes : change[c] = "new" /\ missed[c] = {}
  BY DEF ModuleInit
<1>2. ModuleTypeOK
  BY DEF ModuleInit, ModuleTypeOK, ModuleAssumption, States
<1>3. Files
  BY <1>1 DEF ModuleInit, Files, KeptOrLost, SeenInTime, NamesDistinct, Distinct, Waiting,
        Reading, Wrote
<1>4. Locks
  BY <1>1 DEF ModuleInit, Locks, InLock, HeldWaited, MissedUnlocked
<1> QED
  BY <1>2, <1>3, <1>4 DEF Inv

(* Each action moves one change to one state. *)
LEMMA Moved ==
    ASSUME ModuleTypeOK, NEW c \in Changes, NEW s \in States, Becomes(c, s)
    PROVE  /\ change' \in [Changes -> States]
           /\ change'[c] = s
           /\ \A o \in Changes \ {c} : change'[o] = change[o]
BY DEF ModuleTypeOK, Becomes

LEMMA Answered ==
    ASSUME ModuleTypeOK, NEW c \in Changes, Answer(c)
    PROVE  /\ approving' \in Changes \cup {Nobody}
           /\ \A o \in Changes \ {c} : approving = o => approving' = o
BY DEF ModuleTypeOK, Answer

(* The histories only grow. *)
LEMMA Written ==
    ASSUME ModuleTypeOK, NEW c \in Changes, Write(c)
    PROVE  /\ registry' \in (SUBSET Modules) \cup {Emptied, Torn}
           /\ Readable(registry') => registry' = loaded[c] \cup {Module(c)}
           /\ missed' \in [Changes -> SUBSET Changes]
           /\ overtaken' \in [Changes -> SUBSET Changes]
           /\ \A o \in Changes : missed[o] \subseteq missed'[o] /\ overtaken[o] \subseteq overtaken'[o]
           /\ \A o \in Changes :
                 missed'[o] = IF o # c /\ change[o] \in Reading THEN missed[o] \cup {c} ELSE missed[o]
           /\ \A o \in Changes : change[o] \in Waiting /\ Readable(registry')
                 => \A m \in Changes : Module(m) \in registry' => m \in overtaken'[o]
<1>1. loaded[c] \cup {Module(c)} \in SUBSET Modules
  BY DEF ModuleTypeOK, Modules, Module
<1>2. \A m \in registry' \cap Modules : m[1] \in Changes
  BY DEF Modules
<1>3. /\ registry' \in (SUBSET Modules) \cup {Emptied, Torn}
      /\ Readable(registry') => registry' = loaded[c] \cup {Module(c)}
  BY <1>1 DEF Write, Readable
<1>4. /\ missed' \in [Changes -> SUBSET Changes]
      /\ \A o \in Changes :
            missed'[o] = IF o # c /\ change[o] \in Reading THEN missed[o] \cup {c} ELSE missed[o]
  BY DEF Write, ModuleTypeOK, Reading
<1>5. {m[1] : m \in registry' \cap Modules} \subseteq Changes
  BY <1>2
<1>6. \A o \in Changes :
         overtaken'[o] = IF change[o] \in Waiting
                         THEN overtaken[o] \cup {m[1] : m \in registry' \cap Modules}
                         ELSE overtaken[o]
  BY DEF Write, Waiting
<1>7. overtaken' \in [Changes -> SUBSET Changes]
  BY <1>5 DEF Write, ModuleTypeOK
<1>8. ASSUME NEW m \in Changes, Module(m) \in registry', Readable(registry')
      PROVE  m \in {x[1] : x \in registry' \cap Modules}
  <2>1. Module(m) \in registry' \cap Modules
    BY <1>1, <1>3, <1>8
  <2>2. Module(m)[1] = m
    BY DEF Module
  <2> QED
    BY <2>1, <2>2
<1> QED
  BY <1>3, <1>4, <1>6, <1>7, <1>8

LEMMA TypeStep == ASSUME ModuleAssumption, ModuleTypeOK, ModuleNext PROVE ModuleTypeOK'
<1>1. ASSUME NEW c \in Changes,
             Block(c) \/ Raise(c) \/ Deny(c) \/ Assess(c) \/ Hold(c) \/ ExecuteChange(c)
      PROVE  ModuleTypeOK'
  <2>1. CASE Block(c) \/ Raise(c) \/ Deny(c)
    BY <2>1, Moved DEF ModuleTypeOK, Block, Raise, Deny, States, histories
  <2>2. CASE Assess(c) \/ Hold(c) \/ ExecuteChange(c)
    BY <2>2, Moved DEF ModuleTypeOK, Assess, Hold, ExecuteChange, States, histories
  <2> QED
    BY <1>1, <2>1, <2>2
<1>2. ASSUME NEW c \in Changes, Load(c) PROVE ModuleTypeOK'
  <2>1. CASE Readable(registry)
    BY <1>2, <2>1, Moved DEF ModuleTypeOK, Load, States, Readable, histories
  <2>2. CASE ~Readable(registry)
    BY <1>2, <2>2, Moved, Answered DEF ModuleTypeOK, Load, States, histories
  <2> QED
    BY <2>1, <2>2
<1>3. ASSUME NEW c \in Changes, Open(c) PROVE ModuleTypeOK'
  BY <1>3, Moved DEF ModuleTypeOK, Open, States, histories
<1>4. ASSUME NEW c \in Changes, Write(c) PROVE ModuleTypeOK'
  <2>1. Becomes(c, "registered") /\ UNCHANGED <<target, loaded, waited, approving, refused, stops>>
    BY <1>4 DEF Write
  <2> QED
    BY <1>4, <2>1, Moved, Written DEF ModuleTypeOK, States
<1>5. ASSUME NEW c \in Changes, Observe(c) PROVE ModuleTypeOK'
  <2>1. \E s \in States : Becomes(c, s)
    BY <1>5 DEF Observe, States
  <2> QED
    BY <1>5, <2>1, Moved, Answered DEF ModuleTypeOK, Observe, histories
<1>6. ASSUME NEW n \in Names, Manage(n) PROVE ModuleTypeOK'
  BY <1>6 DEF ModuleTypeOK, Manage, histories
<1>7. CASE StopWithin
  BY <1>7 DEF ModuleTypeOK, ModuleAssumption, StopWithin, States, histories
<1> QED
  BY <1>1, <1>2, <1>3, <1>4, <1>5, <1>6, <1>7 DEF ModuleNext

-----------------------------------------------------------------------------

(* A step that leaves the file and what is read of it as they are, and     *)
(* makes no change waiting, reading or written that was not so before.     *)
LEMMA QuietFiles ==
    ASSUME Files,
           UNCHANGED <<registry, target, loaded, missed, overtaken>>,
           \A o \in Changes : /\ change'[o] \in Reading => change[o] \in Reading
                              /\ change'[o] \in Waiting => change[o] \in Waiting
                              /\ change'[o] \in Wrote => change[o] \in Wrote
    PROVE  Files'
<1>1. KeptOrLost'
  BY DEF Files, KeptOrLost, Kept, Lost, Module
<1>2. SeenInTime'
  BY DEF Files, SeenInTime, Seen, Module
<1>3. NamesDistinct'
  BY DEF Files, NamesDistinct, Distinct, Module
<1> QED
  BY <1>1, <1>2, <1>3 DEF Files

LEMMA QuietStep ==
    ASSUME Inv, NEW c \in Changes, NEW s \in States, Becomes(c, s),
           s \notin Reading,
           s \in Waiting => change[c] \in Waiting,
           s \in Wrote => change[c] \in Wrote,
           UNCHANGED <<registry, target, loaded, missed, overtaken>>
    PROVE  Files'
BY Moved, QuietFiles DEF Inv

(* What is new in the list at an assessment, and what was read, is known. *)
LEMMA AssessFiles == ASSUME Inv, NEW c \in Changes, Assess(c) PROVE Files'
<1>1. /\ change'[c] = "assessed"
      /\ \A o \in Changes \ {c} : change'[o] = change[o]
  BY Moved DEF Assess, Inv, States
<1>2. UNCHANGED <<registry, target, loaded, missed, overtaken>>
  BY DEF Assess, histories
<1>3. Seen(c, registry)
  BY DEF Assess, Seen, Module, NamesIn
<1>4. KeptOrLost'
  BY <1>1, <1>2 DEF Inv, Files, KeptOrLost, Kept, Lost, Module, Reading, Wrote
<1>5. SeenInTime'
  BY <1>1, <1>2, <1>3 DEF Inv, Files, SeenInTime, Seen, Module, Reading
<1>6. NamesDistinct'
  BY <1>1, <1>2 DEF Inv, Files, NamesDistinct, Distinct, Module, Reading
<1> QED
  BY <1>4, <1>5, <1>6 DEF Files

LEMMA LoadFiles == ASSUME Inv, NEW c \in Changes, Load(c), Readable(registry) PROVE Files'
<1>1. /\ change'[c] = "loaded"
      /\ \A o \in Changes \ {c} : change'[o] = change[o]
  BY Moved DEF Load, Inv, States
<1>2. /\ UNCHANGED <<registry, target, missed, overtaken>>
      /\ change[c] = "executing"
  BY DEF Load, histories
<1>3. /\ loaded'[c] = registry
      /\ \A o \in Changes \ {c} : loaded'[o] = loaded[o]
  BY DEF Load, Inv, ModuleTypeOK
<1>4. KeptOrLost'
  BY <1>1, <1>2, <1>3 DEF Inv, Files, KeptOrLost, Kept, Lost, Module, Reading, Wrote
<1>5. SeenInTime'
  BY <1>1, <1>2, <1>3 DEF Inv, Files, SeenInTime, Seen, Module, Reading, Waiting
<1>6. NamesDistinct'
  BY <1>1, <1>2, <1>3 DEF Inv, Files, NamesDistinct, Distinct, Module, Reading
<1> QED
  BY <1>4, <1>5, <1>6 DEF Files

LEMMA OpenFiles == ASSUME Inv, NEW c \in Changes, Open(c) PROVE Files'
<1>1. /\ change'[c] = "writing"
      /\ \A o \in Changes \ {c} : change'[o] = change[o]
  BY Moved DEF Open, Inv, States
<1>2. /\ UNCHANGED <<target, loaded, missed, overtaken>>
      /\ ~Readable(registry')
      /\ change[c] = "loaded"
  BY DEF Open, histories, Readable
<1>3. KeptOrLost'
  BY <1>1, <1>2 DEF Inv, Files, KeptOrLost, Kept, Lost, Module, Reading, Wrote
<1>4. SeenInTime'
  BY <1>1, <1>2 DEF Inv, Files, SeenInTime, Seen, Module, Reading, Waiting
<1>5. NamesDistinct'
  BY <1>1, <1>2 DEF Inv, Files, NamesDistinct, Distinct, Module, Reading
<1> QED
  BY <1>3, <1>4, <1>5 DEF Files

LEMMA WriteFiles == ASSUME Inv, NEW c \in Changes, Write(c) PROVE Files'
<1>1. /\ change'[c] = "registered"
      /\ \A o \in Changes \ {c} : change'[o] = change[o]
  BY Moved DEF Write, Inv, States
<1>2. UNCHANGED <<target, loaded>> /\ change[c] = "writing"
  BY DEF Write
<1>3. /\ Readable(registry') => registry' = loaded[c] \cup {Module(c)}
      /\ \A o \in Changes : missed[o] \subseteq missed'[o] /\ overtaken[o] \subseteq overtaken'[o]
      /\ \A o \in Changes :
            missed'[o] = IF o # c /\ change[o] \in Reading THEN missed[o] \cup {c} ELSE missed[o]
      /\ \A o \in Changes : change[o] \in Waiting /\ Readable(registry')
            => \A m \in Changes : Module(m) \in registry' => m \in overtaken'[o]
  BY Written DEF Inv
<1>4. KeptOrLost'
  <2>1. ASSUME NEW v \in Changes, change'[v] \in Wrote, ~Lost(v)' PROVE Kept(v)'
    <3>1. CASE v = c
      <4>1. \A o \in Changes : change'[o] \notin Reading
        BY <1>1, <1>3, <2>1, <3>1 DEF Lost, Reading
      <4> QED
        BY <1>2, <1>3, <3>1, <4>1 DEF Kept, Module
    <3>2. CASE v # c
      <4>1. change[v] \in Wrote /\ ~Lost(v)
        BY <1>1, <1>3, <2>1, <3>2 DEF Lost
      <4>2. \A o \in Changes : change[o] \in Reading => Module(v) \in loaded[o]
        BY <4>1 DEF Inv, Files, KeptOrLost, Kept
      <4> QED
        BY <1>1, <1>2, <1>3, <4>2 DEF Kept, Module, Reading
    <3> QED
      BY <3>1, <3>2
  <2> QED
    BY <2>1 DEF KeptOrLost
<1>5. SeenInTime'
  <2>1. ASSUME NEW o \in Changes, change'[o] \in Waiting, Readable(registry')
        PROVE  Seen(o, registry)'
    BY <1>1, <1>2, <1>3, <2>1 DEF Seen, Waiting, Module
  <2>2. ASSUME NEW o \in Changes, change'[o] \in Reading PROVE Seen(o, loaded[o])'
    <3>1. o # c /\ change[o] \in Reading
      BY <1>1, <2>2 DEF Reading
    <3>2. Seen(o, loaded[o])
      BY <3>1 DEF Inv, Files, SeenInTime
    <3> QED
      BY <1>2, <1>3, <3>2 DEF Seen, Module
  <2> QED
    BY <2>1, <2>2 DEF SeenInTime
<1>6. NamesDistinct'
  <2>1. Distinct(loaded[c]) /\ Seen(c, loaded[c])
    BY <1>2 DEF Inv, Files, NamesDistinct, SeenInTime, Reading
  <2>2. ASSUME Readable(registry') PROVE Distinct(registry)'
    <3>1. ASSUME NEW a \in Changes, NEW b \in Changes, a # b, target[a] = target[b],
                 Module(a) \in registry', Module(b) \in registry'
          PROVE  a \in overtaken'[b] \/ b \in overtaken'[a]
      <4>1. a # c => Module(a) \in loaded[c]
        BY <1>3, <2>2, <3>1 DEF Module
      <4>2. b # c => Module(b) \in loaded[c]
        BY <1>3, <2>2, <3>1 DEF Module
      <4>3. CASE a = c
        BY <1>3, <2>1, <3>1, <4>2, <4>3 DEF Seen
      <4>4. CASE b = c
        BY <1>3, <2>1, <3>1, <4>1, <4>4 DEF Seen
      <4>5. CASE a # c /\ b # c
        BY <1>3, <2>1, <3>1, <4>1, <4>2, <4>5 DEF Distinct
      <4> QED
        BY <4>3, <4>4, <4>5
    <3> QED
      BY <1>2, <3>1 DEF Distinct, Module
  <2>3. ASSUME NEW o \in Changes, change'[o] \in Reading PROVE Distinct(loaded[o])'
    <3>1. o # c /\ change[o] \in Reading
      BY <1>1, <2>3 DEF Reading
    <3>2. Distinct(loaded[o])
      BY <3>1 DEF Inv, Files, NamesDistinct
    <3> QED
      BY <1>2, <1>3, <3>2 DEF Distinct, Module
  <2> QED
    BY <2>2, <2>3 DEF NamesDistinct
<1> QED
  BY <1>4, <1>5, <1>6 DEF Files

LEMMA FilesStep == ASSUME ModuleAssumption, Inv, ModuleNext PROVE Files'
<1>1. ASSUME NEW c \in Changes, Block(c) \/ Raise(c) \/ Deny(c) \/ Hold(c) \/ ExecuteChange(c)
      PROVE  Files'
  BY <1>1, QuietStep DEF Block, Raise, Deny, Hold, ExecuteChange, States, Reading, Waiting,
        Wrote, histories
<1>2. ASSUME NEW c \in Changes, Load(c) PROVE Files'
  <2>1. CASE ~Readable(registry)
    BY <1>2, <2>1, QuietStep DEF Load, States, Reading, Waiting, Wrote, histories
  <2> QED
    BY <1>2, <2>1, LoadFiles
<1>3. ASSUME NEW c \in Changes, Observe(c) PROVE Files'
  <2>1. PICK s \in {"observation_unavailable", "verified_success", "state_mismatch"} : Becomes(c, s)
    BY <1>3 DEF Observe
  <2> QED
    BY <1>3, <2>1, QuietStep DEF Observe, States, Reading, Waiting, Wrote, histories
<1>4. ASSUME NEW n \in Names, Manage(n) PROVE Files'
  BY <1>4, QuietFiles DEF Manage, Inv, histories
<1>5. CASE StopWithin
  <2>1. \A o \in Changes : change'[o] \in {"lost", change[o]}
    BY <1>5 DEF StopWithin
  <2> QED
    BY <1>5, <2>1, QuietFiles DEF StopWithin, Inv, Reading, Waiting, Wrote, histories
<1> QED
  BY <1>1, <1>2, <1>3, <1>4, <1>5, AssessFiles, OpenFiles, WriteFiles DEF ModuleNext

-----------------------------------------------------------------------------

(* A step of c that nobody's lock and no history depends on. *)
LEMMA QuietLocks ==
    ASSUME Inv, NEW c \in Changes, NEW s \in States, Becomes(c, s),
           s \notin {"assessed", "held", "new"},
           UNCHANGED <<waited, missed>>,
           \A o \in Changes \ {c} : approving = o => approving' = o,
           c \in waited /\ s \in {"executing", "loaded", "writing", "registered"} => approving' = c
    PROVE  Locks'
<1>1. /\ change'[c] = s
      /\ \A o \in Changes \ {c} : change'[o] = change[o]
  BY Moved DEF Inv
<1>2. InLock'
  BY <1>1 DEF Inv, ModuleTypeOK, Locks, InLock
<1>3. HeldWaited' /\ MissedUnlocked'
  BY <1>1 DEF Inv, Locks, HeldWaited, MissedUnlocked
<1> QED
  BY <1>2, <1>3 DEF Locks

LEMMA AssessLocks ==
    ASSUME Inv, NEW c \in Changes, Assess(c) \/ Hold(c) PROVE Locks'
<1>1. CASE Assess(c)
  <2>1. /\ change'[c] = "assessed" /\ change[c] = "new"
        /\ \A o \in Changes \ {c} : change'[o] = change[o]
        /\ UNCHANGED <<waited, missed, approving>>
    BY <1>1, Moved DEF Assess, Inv, States, histories
  <2> QED
    BY <2>1 DEF Inv, ModuleTypeOK, Locks, InLock, HeldWaited, MissedUnlocked
<1>2. CASE Hold(c)
  <2>1. /\ change'[c] = "held" /\ change[c] = "assessed"
        /\ \A o \in Changes \ {c} : change'[o] = change[o]
        /\ waited' = waited \cup {c}
        /\ UNCHANGED <<missed, approving>>
    BY <1>2, Moved DEF Hold, Inv, States, histories
  <2>2. InLock' /\ HeldWaited'
    BY <2>1 DEF Inv, ModuleTypeOK, Locks, InLock, HeldWaited
  <2>3. MissedUnlocked'
    BY <2>1 DEF Inv, Locks, MissedUnlocked
  <2> QED
    BY <2>2, <2>3 DEF Locks
<1> QED
  BY <1>1, <1>2

(* Two held changes are not under way at once, so neither misses the other. *)
LEMMA WriteLocks == ASSUME Inv, NEW c \in Changes, Write(c) PROVE Locks'
<1>1. /\ change'[c] = "registered" /\ change[c] = "writing"
      /\ \A o \in Changes \ {c} : change'[o] = change[o]
      /\ UNCHANGED <<waited, approving>>
  BY Moved DEF Write, Inv, States
<1>2. InLock' /\ HeldWaited'
  BY <1>1 DEF Inv, ModuleTypeOK, Locks, InLock, HeldWaited
<1>3. \A o \in Changes :
         missed'[o] = IF o # c /\ change[o] \in Reading THEN missed[o] \cup {c} ELSE missed[o]
  BY Written DEF Inv
<1>4. ASSUME NEW o \in Changes \ {c}, change[o] \in Reading PROVE ~({c, o} \subseteq waited)
  BY <1>1, <1>4 DEF Inv, Locks, InLock, Reading
<1>5. MissedUnlocked'
  <2>1. ASSUME NEW a \in Changes, NEW o \in Changes, a \in missed'[o]
        PROVE  /\ ~({a, o} \subseteq waited')
               /\ change'[a] \notin {"new", "assessed"}
               /\ change'[o] \notin {"new", "assessed"}
    <3>1. CASE a \in missed[o]
      BY <1>1, <3>1 DEF Inv, Locks, MissedUnlocked
    <3>2. CASE a \notin missed[o]
      <4>1. a = c /\ o # c /\ change[o] \in Reading
        BY <1>3, <2>1, <3>2
      <4> QED
        BY <1>1, <1>4, <4>1 DEF Reading
    <3> QED
      BY <3>1, <3>2
  <2> QED
    BY <2>1 DEF MissedUnlocked
<1> QED
  BY <1>2, <1>5 DEF Locks

LEMMA LocksStep == ASSUME ModuleAssumption, Inv, ModuleNext PROVE Locks'
<1>1. ASSUME NEW c \in Changes, Block(c) \/ Raise(c) \/ Deny(c) PROVE Locks'
  BY <1>1, QuietLocks DEF Block, Raise, Deny, States, histories
<1>2. ASSUME NEW c \in Changes, ExecuteChange(c) PROVE Locks'
  <2>1. \A o \in Changes \ {c} : approving = o => approving' = o
    BY <1>2 DEF ExecuteChange, ModuleAssumption
  <2>2. c \in waited => approving' = c
    BY <1>2 DEF ExecuteChange, Inv, Locks, HeldWaited
  <2> QED
    BY <1>2, <2>1, <2>2, QuietLocks DEF ExecuteChange, States, histories
<1>3. ASSUME NEW c \in Changes, Load(c) PROVE Locks'
  <2>1. change[c] = "executing" /\ UNCHANGED <<waited, missed>>
    BY <1>3 DEF Load, histories
  <2>2. c \in waited => approving = c
    BY <2>1 DEF Inv, Locks, InLock
  <2>3. CASE Readable(registry)
    BY <1>3, <2>1, <2>2, <2>3, QuietLocks DEF Load, States
  <2>4. CASE ~Readable(registry)
    BY <1>3, <2>1, <2>4, QuietLocks, Answered DEF Load, States, Inv
  <2> QED
    BY <2>3, <2>4
<1>4. ASSUME NEW c \in Changes, Open(c) PROVE Locks'
  <2>1. change[c] = "loaded" /\ UNCHANGED <<waited, missed, approving>> /\ Becomes(c, "writing")
    BY <1>4 DEF Open, histories
  <2>2. c \in waited => approving = c
    BY <2>1 DEF Inv, Locks, InLock
  <2> QED
    BY <2>1, <2>2, QuietLocks DEF States
<1>5. ASSUME NEW c \in Changes, Observe(c) PROVE Locks'
  <2>1. PICK s \in {"observation_unavailable", "verified_success", "state_mismatch"} : Becomes(c, s)
    BY <1>5 DEF Observe
  <2>2. UNCHANGED <<waited, missed>> /\ \A o \in Changes \ {c} : approving = o => approving' = o
    BY <1>5, Answered DEF Observe, histories, Inv
  <2> QED
    BY <2>1, <2>2, QuietLocks DEF States
<1>6. ASSUME NEW n \in Names, Manage(n) PROVE Locks'
  BY <1>6 DEF Manage, Inv, Locks, InLock, HeldWaited, MissedUnlocked, histories
<1>7. CASE StopWithin
  <2>1. /\ \A c \in Changes : change'[c] =
              IF change[c] \in {"assessed", "executing", "loaded", "writing", "registered"}
              THEN "lost" ELSE change[c]
        /\ UNCHANGED <<waited, missed>>
    BY <1>7 DEF StopWithin, histories
  <2> QED
    BY <2>1 DEF Inv, ModuleTypeOK, Locks, InLock, HeldWaited, MissedUnlocked
<1> QED
  BY <1>1, <1>2, <1>3, <1>4, <1>5, <1>6, <1>7, AssessLocks, WriteLocks DEF ModuleNext

-----------------------------------------------------------------------------

LEMMA Step == ASSUME ModuleAssumption, Inv, [ModuleNext]_moduleVars PROVE Inv'
<1>1. CASE UNCHANGED moduleVars
  <2>1. Files'
    BY <1>1, QuietFiles DEF moduleVars, Inv
  <2>2. Locks'
    BY <1>1 DEF moduleVars, Inv, Locks, InLock, HeldWaited, MissedUnlocked
  <2> QED
    BY <1>1, <2>1, <2>2 DEF moduleVars, Inv, ModuleTypeOK
<1>2. CASE ModuleNext
  BY <1>2, TypeStep, FilesStep, LocksStep DEF Inv
<1> QED
  BY <1>1, <1>2

LEMMA Invariance == ASSUME ModuleAssumption PROVE ModuleSpec => []Inv
BY InitInv, Step, PTL DEF ModuleSpec

(* The registry and the changes have their types: no step leads to a state *)
(* that no operation of the services knows.                                *)
THEOREM ModuleTypeCorrect == ASSUME ModuleAssumption PROVE ModuleSpec => []ModuleTypeOK
BY Invariance, PTL DEF Inv

(* Whatever changes are proposed, denied, held, executed at once or cut    *)
(* short, a module that was verified is missing from a readable registry   *)
(* only if a writer had read the list before it was there, and not both of *)
(* the two were continued under the approvals' lock (register_module).     *)
THEOREM LostOnlyOutsideTheLock ==
    ASSUME ModuleAssumption PROVE ModuleSpec => []RegistrationsKept
<1>1. Inv => RegistrationsKept
  BY DEF Inv, Files, KeptOrLost, Kept, Lost, Wrote, Locks, MissedUnlocked, RegistrationsKept
<1> QED
  BY <1>1, Invariance, PTL

(* A name is registered twice only by a change that was overtaken, held or *)
(* not, between its assessment and its execution (assess_change is not     *)
(* repeated).                                                              *)
THEOREM DuplicatesWereOvertaken ==
    ASSUME ModuleAssumption PROVE ModuleSpec => []DuplicateWasOvertaken
<1>1. Inv => DuplicateWasOvertaken
  BY DEF Inv, Files, NamesDistinct, Distinct, DuplicateWasOvertaken
<1> QED
  BY <1>1, Invariance, PTL
=============================================================================
