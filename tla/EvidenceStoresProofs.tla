----------------------- MODULE EvidenceStoresProofs -----------------------
(***************************************************************************)
(* What holds of the evidence for any number of actions, failures and      *)
(* restarts.  TypeOK, which is inductive by itself.  StoresInv, which holds*)
(* also when an archive ends within a line: backups lack only what failed  *)
(* to be copied, restores bring them back, and what is recent is found.    *)
(* KeptInv, while an append reaches the disk whole, not at all, or ends    *)
(* between two lines: no evidence is lost.                                 *)
(***************************************************************************)
EXTENDS EvidenceStores, TLAPS

-----------------------------------------------------------------------------
(* The types, which need nothing but themselves. *)

LEMMA InitType == Init => TypeOK
<1>1. Old \subseteq Records /\ 0 \in 0..MaxTime /\ 0 \in 0..MaxKills /\ 0 \in 0..MaxFaults
  BY StoresAssumption DEF Old, Records
<1> QED BY <1>1 DEF Init, TypeOK, NoBackup, None, Backups

(* What an append adds was in the list. *)
LEMMA AppendType ==
    ASSUME TypeOK, NEW k \in Kinds, NEW lines \in SUBSET Aged(k), Appended(k, lines)
    PROVE  archive' \subseteq Records /\ bad' \subseteq Kinds
<1>1. lines \subseteq Records /\ archive \subseteq Records /\ bad \subseteq Kinds
  BY DEF TypeOK, Aged, Of
<1> QED BY <1>1 DEF Appended

LEMMA PartType ==
    ASSUME TypeOK, NEW k \in Kinds, PartAppended(k)
    PROVE  archive' \subseteq Records /\ bad' \subseteq Kinds /\ torn' \subseteq Kinds
<1>1. PICK lines \in SUBSET Aged(k) :
        /\ Appended(k, lines)
        /\ torn' \in {torn, torn \ {k}, torn \cup {k}}
  BY DEF PartAppended, Prefixes
<1>2. torn' \subseteq Kinds
  BY <1>1 DEF TypeOK
<1> QED BY <1>1, <1>2, AppendType

LEMMA ServiceType ==
    ASSUME TypeOK,
           \/ Tick \/ Start \/ Stop \/ Kill
           \/ \E a \in Actions : Take(a)
           \/ \E r \in Records : Save(r)
    PROVE  TypeOK'
<1>1. CASE Tick
  BY <1>1, StoresAssumption DEF Tick, TypeOK, files, service, scripts
<1>2. CASE Start
  BY <1>2 DEF Start, TypeOK, files, scripts
<1>3. CASE Stop
  BY <1>3 DEF Stop, TypeOK, files, scripts
<1>4. CASE Kill
  <2>1. /\ UNCHANGED <<now, born, saved, db, legacy, aside, scripts, faults>>
        /\ kills' \in 0..MaxKills
        /\ phase' = "down" /\ mem' = {} /\ running' = {} /\ todo' = {} /\ step' = "append"
    BY <1>4, StoresAssumption DEF Kill, TypeOK
  <2>2. archive' \subseteq Records /\ bad' \subseteq Kinds /\ torn' \subseteq Kinds
    <3>1. CASE UNCHANGED <<archive, torn, bad>>
      BY <3>1 DEF TypeOK
    <3>2. CASE \E k \in todo : PartAppended(k)
      BY <3>2, PartType DEF TypeOK
    <3> QED BY <1>4, <3>1, <3>2 DEF Kill
  <2> QED BY <2>1, <2>2 DEF TypeOK, scripts
<1>5. ASSUME NEW a \in Actions, Take(a) PROVE TypeOK'
  BY <1>5 DEF Take, TypeOK, files, scripts
<1>6. ASSUME NEW r \in Records, Save(r) PROVE TypeOK'
  <2>1. /\ born' = [born EXCEPT ![r] = now] /\ mem' = mem \cup {r}
        /\ db' \in {db, db \cup {r}} /\ saved' \in {saved, saved \cup {r}}
        /\ running' \in {running, running \ {r[1]}}
        /\ faults' \in 0..MaxFaults
        /\ UNCHANGED <<now, archive, torn, bad, legacy, aside, phase, todo, step,
                       scripts, kills>>
    BY <1>6, StoresAssumption DEF Save, TypeOK
  <2>2. born' \in [Records -> {None} \cup 0..MaxTime]
    BY <2>1 DEF TypeOK
  <2> QED BY <2>1, <2>2 DEF TypeOK, scripts
<1> QED BY <1>1, <1>2, <1>3, <1>4, <1>5, <1>6

LEMMA RetentionType ==
    ASSUME TypeOK, NEW k \in Kinds,
           NothingAged(k) \/ Archive(k) \/ AppendFails(k) \/ Replace(k)
    PROVE  TypeOK'
<1>1. ASSUME Leave(k)
      PROVE  /\ todo' \subseteq Kinds /\ step' \in {"append", "replace"}
             /\ phase' \in {"down", "retaining", "serving"}
  BY <1>1 DEF Leave, TypeOK
<1>2. CASE NothingAged(k)
  BY <1>1, <1>2 DEF NothingAged, TypeOK, files, scripts
<1>3. CASE Archive(k)
  <2>1. archive' \subseteq Records /\ bad' \subseteq Kinds
    BY <1>3, AppendType DEF Archive
  <2> QED BY <1>3, <2>1 DEF Archive, TypeOK, scripts
<1>4. CASE AppendFails(k)
  <2>1. archive' \subseteq Records /\ bad' \subseteq Kinds /\ torn' \subseteq Kinds
    BY <1>4, PartType DEF AppendFails
  <2>2. faults' \in 0..MaxFaults
    BY <1>4, StoresAssumption DEF AppendFails, TypeOK
  <2> QED BY <1>1, <1>4, <2>1, <2>2 DEF AppendFails, TypeOK, scripts
<1>5. CASE Replace(k)
  <2>1. mem' \subseteq Records /\ db' \subseteq Records
    BY <1>5 DEF Replace, TypeOK, Of
  <2>2. faults' \in 0..MaxFaults
    BY <1>5, StoresAssumption DEF Replace, TypeOK
  <2> QED BY <1>1, <1>5, <2>1, <2>2 DEF Replace, TypeOK, scripts
<1> QED BY <1>2, <1>3, <1>4, <1>5

(* The copies of the archives have no more than the lines, and no archive  *)
(* of another store.                                                       *)
LEMMA CopiedType ==
    ASSUME TypeOK, NEW lines \in SUBSET Records, NEW broken \in SUBSET Kinds,
           NEW failed \in SUBSET Kinds, Copied(lines, broken, failed)
    PROVE  backup' \in Backups
<1> DEFINE whole == {r \in lines : r[2] \notin failed}
<1>1. PICK opened \in SUBSET failed :
        \E some \in SUBSET {r \in lines : r[2] \in opened}, cut \in SUBSET opened :
            backup' = [backup EXCEPT
                !.step = "copied", !.archive = whole \cup some,
                !.bad = (broken \ failed) \cup cut,
                !.copies = Filled(whole) \cup opened, !.failed = failed]
  BY DEF Copied
<1>2. PICK some \in SUBSET {r \in lines : r[2] \in opened}, cut \in SUBSET opened :
        backup' = [backup EXCEPT
            !.step = "copied", !.archive = whole \cup some,
            !.bad = (broken \ failed) \cup cut,
            !.copies = Filled(whole) \cup opened, !.failed = failed]
  BY <1>1
<1>3. Filled(whole) \in SUBSET Kinds
  BY DEF Filled
<1>4. /\ whole \cup some \in SUBSET Records
      /\ (broken \ failed) \cup cut \in SUBSET Kinds
      /\ Filled(whole) \cup opened \in SUBSET Kinds
  BY <1>3
<1> QED
  BY <1>2, <1>4 DEF TypeOK, Backups

LEMMA BackupType ==
    ASSUME TypeOK, Snapshot \/ CopyArchives \/ Seal \/ KillBackup
    PROVE  TypeOK'
<1>1. /\ UNCHANGED <<now, born, saved, files, service, tool, chosen>>
      /\ kills' \in 0..MaxKills /\ faults' \in 0..MaxFaults
  BY StoresAssumption DEF Snapshot, Begins, CopyArchives, Seal, KillBackup, TypeOK
<1>2. backup' \in Backups
  <2>1. CASE Snapshot
    <3>1. db \cup archive \in SUBSET Records /\ db \in SUBSET Records
      BY DEF TypeOK
    <3> QED BY <2>1, <3>1 DEF Snapshot, Begins, NoBackup, Backups
  <2>2. CASE Seal
    BY <2>2 DEF Seal, TypeOK, Backups
  <2>3. CASE KillBackup
    BY <2>3 DEF KillBackup, NoBackup, Backups
  <2>4. CASE CopyArchives
    <3>1. PICK failed \in SUBSET Kinds : CopyOf(failed)
      BY <2>4 DEF CopyArchives, Filled
    <3>2. /\ archive \subseteq Records /\ torn \cup bad \subseteq Kinds /\ todo \subseteq Kinds
          /\ \A k : Prefixes(Aged(k)) \subseteq SUBSET Records
      BY DEF TypeOK, Prefixes, Aged, Of
    <3>3. CASE Copied(archive, torn \cup bad, failed)
      BY <3>2, <3>3, CopiedType
    <3>4. CASE \E k \in todo : \E lines \in Prefixes(Aged(k)), cut \in SUBSET {k} :
                 Copied(archive \cup lines, torn \cup bad \cup cut, failed)
      <4>1. PICK k \in todo : \E lines \in Prefixes(Aged(k)), cut \in SUBSET {k} :
              Copied(archive \cup lines, torn \cup bad \cup cut, failed)
        BY <3>4
      <4>2. PICK lines \in Prefixes(Aged(k)), cut \in SUBSET {k} :
              Copied(archive \cup lines, torn \cup bad \cup cut, failed)
        BY <4>1
      <4>3. archive \cup lines \in SUBSET Records /\ torn \cup bad \cup cut \in SUBSET Kinds
        BY <3>2
      <4> QED BY <4>2, <4>3, CopiedType
    <3> QED BY <3>1, <3>3, <3>4 DEF CopyOf
  <2> QED BY <2>1, <2>2, <2>3, <2>4
<1> QED BY <1>1, <1>2 DEF TypeOK, files, service

LEMMA ScriptType ==
    ASSUME TypeOK,
           \/ MoveAside \/ RestoreDb \/ RestoreEnds \/ Migrate \/ KillTool
           \/ \E r \in Records : Insert(r)
           \/ \E k \in Kinds : RestoreArchive(k) \/ Rename(k)
    PROVE  TypeOK'
<1>1. CASE MoveAside
  BY <1>1 DEF MoveAside, TypeOK, service
<1>2. CASE RestoreDb
  BY <1>2 DEF RestoreDb, TypeOK, service, Backups
<1>3. CASE RestoreEnds
  BY <1>3 DEF RestoreEnds, TypeOK, files, service
<1>4. CASE Migrate
  BY <1>4 DEF Migrate, TypeOK, files, service, Filled
<1>5. CASE KillTool
  <2>1. /\ kills' \in 0..MaxKills /\ tool' = "none" /\ chosen' = {}
        /\ aside' \subseteq Records /\ archive' \subseteq Records
        /\ torn' \subseteq Kinds /\ bad' \subseteq Kinds
        /\ UNCHANGED <<now, born, saved, db, legacy, service, backup, faults>>
    BY <1>5, StoresAssumption DEF KillTool, TypeOK, Of
  <2> QED BY <2>1 DEF TypeOK, service
<1>6. ASSUME NEW r \in Records, Insert(r) PROVE TypeOK'
  BY <1>6 DEF Insert, TypeOK, service, scripts
<1>7. ASSUME NEW k \in Kinds, RestoreArchive(k) PROVE TypeOK'
  BY <1>7 DEF RestoreArchive, TypeOK, service, Of, Backups
<1>8. ASSUME NEW k \in Kinds, Rename(k) PROVE TypeOK'
  BY <1>8 DEF Rename, TypeOK, service, Of
<1> QED BY <1>1, <1>2, <1>3, <1>4, <1>5, <1>6, <1>7, <1>8

(* The types of the stores, the service and the scripts: every record and  *)
(* every store is one of the instance, and no counter is past its bound.   *)
THEOREM TypeCorrect == Spec => []TypeOK
<1>1. TypeOK /\ [Next]_vars => TypeOK'
  <2>1. CASE Next
    BY <2>1, ServiceType, RetentionType, BackupType, ScriptType DEF Next
  <2>2. CASE UNCHANGED vars
    BY <2>2 DEF vars, files, service, scripts, TypeOK
  <2> QED BY <2>1, <2>2
<1> QED BY InitType, <1>1, PTL DEF Spec

-----------------------------------------------------------------------------
(* What the stores hold, also when an archive ends within a line.          *)

(* The scripts that write run while the service does not, and a restore    *)
(* has a sealed backup and an empty place for its database.                *)
Stopped ==
    /\ tool # "none" => phase = "down"
    /\ tool = "moved" => db = {}
    /\ tool \in {"moved", "copied"} => backup.step = "sealed"

(* Between its two copies a backup relies on the archives only growing.    *)
(* After them it lacks only what it failed to copy, and what it has no file*)
(* of is still in the archive it did not copy.                             *)
BackedUp ==
    /\ backup.step = "snapshot" => backup.goal \subseteq backup.db \cup archive
    /\ backup.step \in {"copied", "sealed"} =>
          /\ Filled(backup.archive) \subseteq backup.copies
          /\ \A r \in backup.goal :
                /\ r \in backup.db \cup backup.archive \/ r[2] \in backup.failed
                /\ r \in backup.db \cup archive \/ r[2] \in backup.copies

(* A restore has put back the database and the archives it has done.       *)
Restoring ==
    tool = "copied" =>
        /\ chosen \subseteq backup.copies
        /\ backup.db \subseteq db
        /\ \A k \in Kinds \ chosen : Of(k, backup.archive) \subseteq archive

Clock == now \in Nat /\ born \in [Records -> {None} \cup 0 .. now]

(* Every place holds records that were written once. *)
Known ==
    mem \cup db \cup archive \cup legacy \cup backup.db \cup backup.archive
        \subseteq {r \in Records : Exists(r)}

(* An action has the records that come before one it has. *)
Ordered == \A r \in Records : Exists(r) => \A q \in Before(r) : Exists(q)

(* Nothing is archived before its time. *)
ArchivedIsOld == \A r \in archive \cup backup.archive : OlderThanWindow(r)

(* The running service has what is in the tables in its lists, but for     *)
(* what retention took out of the list and failed to delete.               *)
Listed == phase # "down" => \A r \in db : r \in mem \/ OlderThanWindow(r)

StoresInv ==
    /\ Stopped /\ BackedUp /\ Restoring
    /\ Clock /\ Known /\ Ordered /\ ArchivedIsOld /\ Listed

LEMMA InitStores == Init => StoresInv
<1> SUFFICES ASSUME Init PROVE StoresInv
  OBVIOUS
<1>1. Clock
  BY DEF Init, Clock, None
<1>2. \A r \in Records : Exists(r) <=> r \in Old
  BY DEF Init, Exists, None
<1>3. Old \subseteq Records
  BY StoresAssumption DEF Old, Records
<1>4. Known
  BY <1>2, <1>3 DEF Init, Known, NoBackup
<1>5. Ordered
  <2> SUFFICES ASSUME NEW r \in Records, Exists(r), NEW q \in Before(r)
               PROVE  Exists(q)
    BY DEF Ordered
  <2>1. r \in Old /\ q \in {r[1]} \X Kinds
    BY <1>2 DEF Before, RecordsOf
  <2>2. q \in Old /\ q \in Records
    BY <1>3, <2>1 DEF Old
  <2> QED BY <1>2, <2>2
<1>6. Stopped /\ BackedUp /\ Restoring /\ ArchivedIsOld /\ Listed
  BY DEF Init, Stopped, BackedUp, Restoring, ArchivedIsOld, Listed, NoBackup
<1> QED BY <1>1, <1>4, <1>5, <1>6 DEF StoresInv

(* While no new record is written, what exists and what is old stay so,    *)
(* and the clock makes records only older.                                 *)
LEMMA Older ==
  ASSUME Clock, now' \in {now, now + 1}, born' = born
  PROVE  /\ Clock' /\ (Ordered => Ordered')
         /\ \A r : Exists(r)' <=> Exists(r)
         /\ \A r \in Records : OlderThanWindow(r) => OlderThanWindow(r)'
<1>1. Window \in Nat
  BY StoresAssumption
<1>2. \A r : Exists(r)' <=> Exists(r)
  BY DEF Exists
<1>3. \A r \in Records : born[r] \in Int
  BY DEF Clock, None
<1>4. \A r \in Records : OlderThanWindow(r) => OlderThanWindow(r)'
  BY <1>1, <1>3 DEF OlderThanWindow, Clock
<1>5. Clock'
  BY DEF Clock
<1>6. Ordered => Ordered'
  BY <1>2 DEF Ordered
<1> QED BY <1>2, <1>4, <1>5, <1>6

(* What retention appends to an archive is old and was in the list.        *)
LEMMA AppendedIsAged ==
  ASSUME NEW k, NEW lines \in SUBSET Aged(k), Appended(k, lines)
  PROVE  /\ archive \subseteq archive' /\ archive' \subseteq archive \cup mem
         /\ \A r \in archive' \ archive : OlderThanWindow(r)
  BY DEF Appended, Aged, Of

(* A step of retention: the archives grow by what is old, and the tables   *)
(* and the lists keep of each other what is not.                           *)
LEMMA RetentionStep ==
  ASSUME StoresInv, UNCHANGED <<now, born, backup, tool, legacy, chosen>>,
         phase # "down",
         archive \subseteq archive', archive' \subseteq archive \cup mem,
         \A r \in archive' \ archive : OlderThanWindow(r),
         mem' \subseteq mem, db' \subseteq db \cup mem,
         phase' # "down" => \A r \in db' : r \in mem' \/ OlderThanWindow(r)
  PROVE  StoresInv'
<1> USE DEF StoresInv
<1>1. tool = "none"
  BY DEF Stopped
<1>2. Clock' /\ Ordered'
  BY Older
<1>3. /\ \A r : Exists(r)' <=> Exists(r)
      /\ \A r : OlderThanWindow(r)' <=> OlderThanWindow(r)
  BY DEF Exists, OlderThanWindow
<1>4. Known'
  BY <1>3 DEF Known
<1>5. ArchivedIsOld'
  BY <1>3 DEF ArchivedIsOld
<1>6. Stopped' /\ BackedUp' /\ Restoring' /\ Listed'
  BY <1>1, <1>3 DEF Stopped, BackedUp, Restoring, Listed
<1> QED BY <1>2, <1>4, <1>5, <1>6

LEMMA RetentionStores ==
  ASSUME StoresInv, NEW k,
         NothingAged(k) \/ Archive(k) \/ AppendFails(k) \/ Replace(k)
  PROVE  StoresInv'
<1>0. phase = "retaining" /\ UNCHANGED <<now, born, backup, tool, legacy, chosen>>
  BY DEF NothingAged, Archive, AppendFails, Replace, Passing, files, scripts
<1>1. \A r \in db : r \in mem \/ OlderThanWindow(r)
  BY <1>0 DEF StoresInv, Listed
<1>2. CASE NothingAged(k)
  BY <1>0, <1>1, <1>2, RetentionStep DEF NothingAged, files
<1>3. CASE Archive(k)
  <2>1. mem' = mem /\ db' = db /\ Appended(k, Aged(k))
    BY <1>3 DEF Archive
  <2>2. /\ archive \subseteq archive' /\ archive' \subseteq archive \cup mem
        /\ \A r \in archive' \ archive : OlderThanWindow(r)
    BY <2>1, AppendedIsAged
  <2> QED BY <1>0, <1>1, <2>1, <2>2, RetentionStep
<1>4. CASE AppendFails(k)
  <2>1. PICK lines \in SUBSET Aged(k) : Appended(k, lines)
    BY <1>4 DEF AppendFails, PartAppended, Prefixes
  <2>2. /\ archive \subseteq archive' /\ archive' \subseteq archive \cup mem
        /\ \A r \in archive' \ archive : OlderThanWindow(r)
    BY <2>1, AppendedIsAged
  <2>3. mem' = mem /\ db' = db
    BY <1>4 DEF AppendFails
  <2> QED BY <1>0, <1>1, <2>2, <2>3, RetentionStep
<1>5. CASE Replace(k)
  <2>1. /\ mem' = mem \ Aged(k) /\ archive' = archive
        /\ \/ db' = (db \ Of(k, db)) \cup (Of(k, mem) \ Aged(k))
           \/ db' = db
    BY <1>5 DEF Replace
  <2>2. \A r \in Aged(k) : OlderThanWindow(r)
    BY DEF Aged
  <2>3. \A r \in db' : r \in mem' \/ OlderThanWindow(r)
    BY <1>1, <2>1, <2>2 DEF Of
  <2>4. mem' \subseteq mem /\ db' \subseteq db \cup mem
    BY <2>1 DEF Of
  <2> QED BY <1>0, <2>1, <2>3, <2>4, RetentionStep
<1> QED BY <1>2, <1>3, <1>4, <1>5

LEMMA KillStores == ASSUME StoresInv, Kill PROVE StoresInv'
<1>1. /\ phase # "down" /\ phase' = "down" /\ mem' = {} /\ db' = db
      /\ UNCHANGED <<now, born, backup, tool, legacy, chosen>>
  BY DEF Kill, scripts
<1>2. /\ archive \subseteq archive' /\ archive' \subseteq archive \cup mem
      /\ \A r \in archive' \ archive : OlderThanWindow(r)
  <2>1. CASE archive' = archive
    BY <2>1
  <2>2. CASE \E k \in todo : \E lines \in SUBSET Aged(k) : Appended(k, lines)
    BY <2>2, AppendedIsAged
  <2> QED BY <2>1, <2>2 DEF Kill, PartAppended, Prefixes
<1> QED BY <1>1, <1>2, RetentionStep

(* A record is written after those that come before it. *)
LEMMA SaveStores == ASSUME StoresInv, NEW r \in Records, Save(r) PROVE StoresInv'
<1> USE DEF StoresInv
<1>1. /\ phase = "serving" /\ phase' = phase /\ ~Exists(r)
      /\ born' = [born EXCEPT ![r] = now] /\ now' = now
      /\ mem' = mem \cup {r} /\ db' \in {db, db \cup {r}}
      /\ UNCHANGED <<archive, legacy, backup, tool, chosen>>
      /\ \A q \in Before(r) : Exists(q)
  BY DEF Save, scripts
<1>2. \A q \in Records : /\ Exists(q) => q # r /\ born'[q] = born[q] /\ Exists(q)'
                         /\ Exists(q)' => Exists(q) \/ q = r
  BY <1>1 DEF Exists, Clock
<1>3. Exists(r)'
  BY <1>1 DEF Exists, Clock, None
<1>4. Clock'
  BY <1>1 DEF Clock
<1>5. Known'
  BY <1>1, <1>2, <1>3 DEF Known
<1>6. Ordered'
  <2> SUFFICES ASSUME NEW p \in Records, Exists(p)', NEW q \in Before(p)
               PROVE  Exists(q)'
    BY DEF Ordered, Before
  <2>1. q \in Records
    BY DEF Before, RecordsOf, Records
  <2>2. Exists(q)
    BY <1>1, <1>2 DEF Ordered
  <2> QED BY <1>2, <2>1, <2>2
<1>7. \A q \in Records : Exists(q) /\ OlderThanWindow(q) => OlderThanWindow(q)'
  BY <1>1, <1>2 DEF OlderThanWindow
<1>8. ArchivedIsOld'
  BY <1>1, <1>7 DEF ArchivedIsOld, Known
<1>9. Listed'
  BY <1>1, <1>7 DEF Listed, Known
<1>10. Stopped' /\ BackedUp' /\ Restoring'
  BY <1>1 DEF Stopped, BackedUp, Restoring
<1> QED BY <1>4, <1>5, <1>6, <1>8, <1>9, <1>10
LEMMA ServiceStores ==
  ASSUME StoresInv, Tick \/ (\E a \in Actions : Take(a)) \/ Start \/ Stop
  PROVE  StoresInv'
<1> USE DEF StoresInv
<1>1. /\ UNCHANGED <<born, db, archive, legacy, backup, tool, chosen>>
      /\ now' \in {now, now + 1} /\ mem' \in {{}, db, mem}
      /\ phase' # "down" /\ phase # "down" => mem' = mem
      /\ phase' # "down" /\ phase = "down" => mem' = db
      /\ tool # "none" => phase' = phase
  BY DEF Tick, Take, Start, Stop, files, service, scripts, Stopped
<1>2. /\ Clock' /\ Ordered' /\ \A r : Exists(r)' <=> Exists(r)
      /\ \A r \in Records : OlderThanWindow(r) => OlderThanWindow(r)'
  BY <1>1, Older
<1>3. Known' /\ ArchivedIsOld' /\ Listed'
  BY <1>1, <1>2 DEF Known, ArchivedIsOld, Listed
<1>4. Stopped' /\ BackedUp' /\ Restoring'
  BY <1>1 DEF Stopped, BackedUp, Restoring
<1> QED BY <1>2, <1>3, <1>4

(* What the copies of the archives add to a backup.                        *)
LEMMA CopiedLines ==
  ASSUME TypeOK, NEW lines \in SUBSET Records, NEW broken \in SUBSET Kinds,
         NEW failed \in SUBSET Kinds, Copied(lines, broken, failed)
  PROVE  /\ backup'.step = "copied" /\ backup'.goal = backup.goal
         /\ backup'.db = backup.db /\ backup'.failed = failed
         /\ backup'.archive \subseteq lines
         /\ \A r \in lines : r[2] \in failed \/ r \in backup'.archive
         /\ Filled(backup'.archive) \subseteq backup'.copies
<1> DEFINE whole == {r \in lines : r[2] \notin failed}
<1>1. PICK opened \in SUBSET failed :
        \E some \in SUBSET {r \in lines : r[2] \in opened}, cut \in SUBSET opened :
            backup' = [backup EXCEPT
                !.step = "copied", !.archive = whole \cup some,
                !.bad = (broken \ failed) \cup cut,
                !.copies = Filled(whole) \cup opened, !.failed = failed]
  BY DEF Copied
<1>2. PICK some \in SUBSET {r \in lines : r[2] \in opened}, cut \in SUBSET opened :
        backup' = [backup EXCEPT
            !.step = "copied", !.archive = whole \cup some,
            !.bad = (broken \ failed) \cup cut,
            !.copies = Filled(whole) \cup opened, !.failed = failed]
  BY <1>1
<1>3. Filled(whole \cup some) \subseteq Filled(whole) \cup opened
  BY DEF Filled, Of
<1> HIDE DEF whole
<1>4. /\ backup'.step = "copied" /\ backup'.goal = backup.goal
      /\ backup'.db = backup.db /\ backup'.failed = failed
      /\ backup'.archive = whole \cup some
      /\ backup'.copies = Filled(whole) \cup opened
  BY <1>2 DEF TypeOK, Backups
<1> QED
  BY <1>3, <1>4 DEF whole

(* What of the archives a copy finds: their lines, and some of those that  *)
(* the service is adding.                                                  *)
LEMMA CopyFinds ==
  ASSUME NEW failed, CopyOf(failed)
  PROVE  \E lines \in SUBSET mem, cut \in SUBSET todo :
           /\ \A r \in lines : OlderThanWindow(r)
           /\ Copied(archive \cup lines, torn \cup bad \cup cut, failed)
<1>1. CASE Copied(archive, torn \cup bad, failed)
  <2>1. archive = archive \cup {} /\ torn \cup bad = torn \cup bad \cup {}
    OBVIOUS
  <2> QED BY <1>1, <2>1
<1>2. CASE \E k \in todo : \E lines \in Prefixes(Aged(k)), cut \in SUBSET {k} :
             Copied(archive \cup lines, torn \cup bad \cup cut, failed)
  BY <1>2 DEF Prefixes, Aged, Of
<1> QED BY <1>1, <1>2 DEF CopyOf

LEMMA BackupStores ==
  ASSUME StoresInv, TypeOK, Snapshot \/ CopyArchives \/ Seal \/ KillBackup
  PROVE  StoresInv'
<1> USE DEF StoresInv
<1>1. UNCHANGED <<now, born, mem, db, archive, legacy, tool, chosen, phase>>
  BY DEF Snapshot, Begins, CopyArchives, Seal, KillBackup, files, service, scripts
<1>2. /\ Clock' /\ Ordered' /\ \A r : Exists(r)' <=> Exists(r)
      /\ \A r \in Records : OlderThanWindow(r) => OlderThanWindow(r)'
  BY <1>1, Older
<1>3. Listed'
  BY <1>1, <1>2 DEF Known, Listed
<1>4. CASE Snapshot
  <2>1. /\ tool = "none"
        /\ backup' = [step |-> "snapshot", goal |-> db \cup archive, db |-> db,
                      archive |-> {}, bad |-> {}, copies |-> {}, failed |-> {}]
    BY <1>4 DEF Snapshot, Begins, NoBackup
  <2> QED BY <1>1, <1>2, <1>3, <2>1
          DEF Known, ArchivedIsOld, Stopped, BackedUp, Restoring
<1>5. CASE CopyArchives
  <2>1. backup.step = "snapshot" /\ \E failed \in SUBSET Kinds : CopyOf(failed)
    BY <1>5 DEF CopyArchives, Filled
  <2>2. PICK failed \in SUBSET Kinds : CopyOf(failed)
    BY <2>1
  <2>3. PICK lines \in SUBSET mem, cut \in SUBSET todo :
           /\ \A r \in lines : OlderThanWindow(r)
           /\ Copied(archive \cup lines, torn \cup bad \cup cut, failed)
    BY <2>2, CopyFinds
  <2>4. /\ archive \cup lines \in SUBSET Records
        /\ torn \cup bad \cup cut \in SUBSET Kinds
    BY DEF TypeOK
  <2>5. /\ backup'.step = "copied" /\ backup'.goal = backup.goal
        /\ backup'.db = backup.db /\ backup'.failed = failed
        /\ backup'.archive \subseteq archive \cup lines
        /\ \A r \in archive \cup lines : r[2] \in failed \/ r \in backup'.archive
        /\ Filled(backup'.archive) \subseteq backup'.copies
    BY <2>3, <2>4, CopiedLines
  <2>6. BackedUp'
    BY <1>1, <2>1, <2>5 DEF BackedUp
  <2>7. Known'
    BY <1>1, <1>2, <2>5 DEF Known
  <2>8. ArchivedIsOld'
    BY <1>1, <1>2, <2>3, <2>5 DEF ArchivedIsOld, Known
  <2>9. Stopped' /\ Restoring'
    BY <1>1, <2>1 DEF Stopped, Restoring
  <2> QED BY <1>2, <1>3, <2>6, <2>7, <2>8, <2>9
<1>6. CASE Seal
  <2>1. backup.step = "copied" /\ backup' = [backup EXCEPT !.step = "sealed"]
    BY <1>6 DEF Seal
  <2>2. /\ backup'.step = "sealed" /\ backup'.goal = backup.goal
        /\ backup'.db = backup.db /\ backup'.archive = backup.archive
        /\ backup'.copies = backup.copies /\ backup'.failed = backup.failed
    BY <2>1 DEF TypeOK, Backups
  <2> QED BY <1>1, <1>2, <1>3, <2>1, <2>2
          DEF Known, ArchivedIsOld, Stopped, BackedUp, Restoring
<1>7. CASE KillBackup
  BY <1>1, <1>2, <1>3, <1>7
  DEF KillBackup, NoBackup, Known, ArchivedIsOld, Stopped, BackedUp, Restoring
<1> QED BY <1>4, <1>5, <1>6, <1>7

(* The scripts that write: the service is down, so nothing is in its lists *)
(* that would have to follow.                                              *)
LEMMA ScriptStores ==
  ASSUME StoresInv,
         \/ MoveAside \/ RestoreDb \/ RestoreEnds \/ Migrate \/ KillTool
         \/ \E r \in Records : Insert(r)
         \/ \E k \in Kinds : RestoreArchive(k) \/ Rename(k)
  PROVE  StoresInv'
<1> USE DEF StoresInv
<1>1. UNCHANGED <<now, born, mem, backup, phase>> /\ phase = "down"
  BY DEF MoveAside, RestoreDb, RestoreEnds, Migrate, KillTool, Insert, RestoreArchive,
         Rename, files, service, scripts, Stopped
<1>2. /\ Clock' /\ Ordered' /\ \A r : Exists(r)' <=> Exists(r)
      /\ \A r \in Records : OlderThanWindow(r) => OlderThanWindow(r)'
  BY <1>1, Older
<1>3. Listed'
  BY <1>1 DEF Listed
<1>4. CASE MoveAside
  BY <1>1, <1>2, <1>3, <1>4
  DEF MoveAside, Sound, scripts, service, Known, ArchivedIsOld, Stopped, BackedUp, Restoring
<1>5. CASE RestoreDb
  <2>1. \A k \in Kinds \ chosen' : Of(k, backup.archive) = {}
    BY <1>5 DEF RestoreDb, Filled, BackedUp, Stopped
  <2> QED BY <1>1, <1>2, <1>3, <1>5, <2>1
          DEF RestoreDb, Known, ArchivedIsOld, Stopped, BackedUp, Restoring
<1>6. CASE RestoreEnds \/ Migrate
  BY <1>1, <1>2, <1>3, <1>6
  DEF RestoreEnds, Migrate, files, service, Known, ArchivedIsOld, Stopped, BackedUp,
      Restoring
<1>7. ASSUME NEW r \in Records, Insert(r) PROVE StoresInv'
  BY <1>1, <1>2, <1>3, <1>7
  DEF Insert, scripts, Known, ArchivedIsOld, Stopped, BackedUp, Restoring
<1>8. ASSUME NEW k \in Kinds, Rename(k) PROVE StoresInv'
  BY <1>1, <1>2, <1>3, <1>8
  DEF Rename, Known, ArchivedIsOld, Stopped, BackedUp, Restoring
<1>9. ASSUME NEW k \in Kinds, RestoreArchive(k) PROVE StoresInv'
  <2>1. /\ archive' = (archive \ Of(k, archive)) \cup Of(k, backup.archive)
        /\ tool = "copied" /\ tool' = tool /\ chosen' = chosen \ {k}
        /\ UNCHANGED <<db, legacy>>
    BY <1>9 DEF RestoreArchive
  <2>2. archive' \subseteq archive \cup backup.archive
    BY <2>1 DEF Of
  <2>3. \A j \in Kinds \ chosen' : Of(j, backup.archive) \subseteq archive'
    BY <2>1 DEF Restoring, Of
  <2>4. \A r \in archive : r \in archive' \/ r[2] \in backup.copies
    BY <1>9, <2>1 DEF RestoreArchive, Restoring, Of
  <2> QED BY <1>1, <1>2, <1>3, <2>1, <2>2, <2>3, <2>4
          DEF Known, ArchivedIsOld, Stopped, BackedUp, Restoring
<1>10. CASE KillTool
  <2>1. archive' \subseteq archive /\ tool' = "none" /\ UNCHANGED <<db, legacy>>
    BY <1>10 DEF KillTool
  <2>2. backup.step = "snapshot" => archive' = archive
    BY <1>10 DEF KillTool, Stopped
  <2>3. \A r \in archive : r \in archive' \/ r[2] \in backup.copies
    BY <1>10 DEF KillTool, Restoring, Of
  <2> QED BY <1>1, <1>2, <1>3, <2>1, <2>2, <2>3
          DEF Known, ArchivedIsOld, Stopped, BackedUp, Restoring
<1> QED BY <1>4, <1>5, <1>6, <1>7, <1>8, <1>9, <1>10

LEMMA StepStores == StoresInv /\ TypeOK /\ [Next]_vars => StoresInv'
<1> SUFFICES ASSUME StoresInv, TypeOK, [Next]_vars PROVE StoresInv'
  OBVIOUS
<1>1. CASE UNCHANGED vars
  BY <1>1 DEF vars, files, service, scripts, StoresInv, Stopped, BackedUp, Restoring,
              Clock, Known, Ordered, ArchivedIsOld, Listed, Exists, OlderThanWindow
<1>2. CASE Next
  BY <1>2, RetentionStores, KillStores, SaveStores, ServiceStores, BackupStores,
     ScriptStores DEF Next
<1> QED BY <1>1, <1>2

(* A record that is young enough is in the list of the service. *)
LEMMA YoungIsListed ==
  ASSUME StoresInv, phase = "serving", NEW r \in db \cup archive,
         now - born[r] <= Window
  PROVE  r \in mem
<1>1. r \in Records /\ ~OlderThanWindow(r)
  <2>1. r \in Records
    BY DEF StoresInv, Known
  <2>2. now \in Int /\ born[r] \in Int /\ Window \in Int
    BY <2>1, StoresAssumption DEF StoresInv, Clock, None
  <2> QED BY <2>1, <2>2 DEF OlderThanWindow
<1> QED BY <1>1 DEF StoresInv, ArchivedIsOld, Listed

(* The stores that lead from an identifier to an action are among those    *)
(* kept: the audit, and one of those an approval id is looked up in.       *)
Resolvable ==
    /\ "audit" \in Kinds
    /\ Kinds \cap {"approval_holds", "approval_records", "authorizations"} # {}

LEMMA RecentFound == ASSUME Resolvable, StoresInv PROVE RecentIsFound
<1> SUFFICES ASSUME NEW a \in Actions, phase = "serving", Existing(a) # {},
                    Existing(a) \subseteq db \cup archive,
                    \A r \in Existing(a) : now - born[r] <= Window
             PROVE  /\ ByAction(a) = Existing(a) /\ ByApproval(a) = Existing(a)
                    /\ Exists(<<a, "audit">>) => ByExecution(a) = Existing(a)
  BY DEF RecentIsFound
<1>1. {r \in mem : r[1] = a} = Existing(a)
  <2>1. Existing(a) \subseteq mem
    BY YoungIsListed
  <2>2. mem \subseteq {r \in Records : Exists(r)}
    BY DEF StoresInv, Known
  <2> QED BY <2>1, <2>2 DEF Existing, RecordsOf, Records
<1>2. \A kinds : InMem(a, kinds) = {r \in Existing(a) : r[2] \in kinds}
  BY <1>1 DEF InMem
<1>3. \A r \in Existing(a) : \A q \in Before(r) : q \in Existing(a)
  BY DEF StoresInv, Ordered, Existing, RecordsOf, Records, Before
<1>4. \A r \in Existing(a) : r[2] = "verifications" => InMem(a, {"audit"}) # {}
  <2> SUFFICES ASSUME NEW r \in Existing(a), r[2] = "verifications"
               PROVE  <<a, "audit">> \in Before(r)
    BY <1>2, <1>3
  <2>1. r[1] = a
    BY DEF Existing, RecordsOf
  <2>2. Written["audit"] < Written["verifications"]
    BY DEF Written
  <2>3. <<a, "audit">> \in RecordsOf(r[1])
    BY <2>1 DEF Resolvable, RecordsOf
  <2> QED BY <2>2, <2>3 DEF Before
<1>5. ByAction(a) = Existing(a)
  <2>1. \A r \in Existing(a) : r[2] \in Kinds
    BY DEF Existing, RecordsOf
  <2> QED BY <1>2, <1>4, <2>1 DEF ByAction, Verifications
<1>6. ByApproval(a) = Existing(a)
  <2> DEFINE early == {"approval_records", "approval_holds", "authorizations"}
  <2>1. PICK k \in Kinds : k \in early
    BY DEF Resolvable
  <2>2. PICK r \in Existing(a) : TRUE
    OBVIOUS
  <2>3. r[1] = a /\ r[2] \in Stores
    BY StoresAssumption DEF Existing, RecordsOf
  <2>4. CASE r[2] \in early
    BY <1>2, <1>5, <2>4 DEF ByApproval
  <2>5. CASE r[2] \notin early
    <3>1. Written[k] < Written[r[2]]
      BY <2>1, <2>3, <2>5 DEF Stores, Written
    <3>2. <<a, k>> \in Before(r)
      BY <2>1, <2>3, <3>1 DEF Before, RecordsOf
    <3> QED BY <1>2, <1>3, <1>5, <2>1, <3>2 DEF ByApproval
  <2> QED BY <2>4, <2>5
<1>7. Exists(<<a, "audit">>) => ByExecution(a) = Existing(a)
  <2> SUFFICES ASSUME Exists(<<a, "audit">>) PROVE ByExecution(a) = Existing(a)
    OBVIOUS
  <2>1. <<a, "audit">> \in Existing(a)
    BY DEF Resolvable, Existing, RecordsOf
  <2>2. InMem(a, {"audit", "traces"}) # {}
    BY <1>2, <2>1
  <2> QED BY <1>2, <1>5, <2>2 DEF ByExecution
<1> QED BY <1>5, <1>6, <1>7

-----------------------------------------------------------------------------
(* The inductive invariant of the stores, with and without torn lines. *)
THEOREM StoresInvariant == Spec => []StoresInv
<1> QED BY InitStores, StepStores, TypeCorrect, PTL DEF Spec

(* A sealed backup has all the evidence of the moment it began, whatever   *)
(* startup moves from the tables to the archives while the two are copied, *)
(* but for what only an archive has of which the copy failed: the script   *)
(* goes on after it (rmt-evidence-backup.sh).                              *)
THEOREM BackupsAreComplete == Spec => []BackupComplete
<1>1. StoresInv => BackupComplete
  BY DEF StoresInv, BackedUp, BackupComplete
<1> QED BY <1>1, StoresInvariant, PTL

(* While an action is within the window every identifier leads to all its  *)
(* evidence, through restarts, failed deletions of retention, restores and *)
(* migrations (evidence_chain).                                            *)
THEOREM RecentEvidenceIsFound == ASSUME Resolvable PROVE Spec => []RecentIsFound
<1>1. StoresInv => RecentIsFound
  BY RecentFound
<1> QED BY <1>1, StoresInvariant, PTL

(* The number of processes that ended where they were. *)
LEMMA KillsCounted == Spec => [](kills \in Nat)
<1>1. Init => kills \in Nat
  BY DEF Init
<1>2. kills \in Nat /\ [Next]_vars => (kills \in Nat)'
  <2> SUFFICES ASSUME [Next]_vars PROVE kills' \in {kills, kills + 1}
    OBVIOUS
  <2>1. CASE UNCHANGED vars
    BY <2>1 DEF vars
  <2>2. CASE Kill \/ KillBackup \/ KillTool
    BY <2>2 DEF Kill, KillBackup, KillTool
  <2>3. CASE Tick \/ Start \/ Stop \/ Snapshot \/ CopyArchives \/ Seal \/ MoveAside
             \/ RestoreDb \/ RestoreEnds \/ Migrate
    BY <2>3 DEF Tick, Start, Stop, Snapshot, Begins, CopyArchives, Seal, MoveAside, RestoreDb,
                RestoreEnds, Migrate
  <2>4. CASE \/ \E a \in Actions : Take(a)
             \/ \E r \in Records : Save(r) \/ Insert(r)
    BY <2>4 DEF Take, Save, Insert
  <2>5. CASE \E k \in Kinds : \/ NothingAged(k) \/ Archive(k) \/ AppendFails(k)
                              \/ Replace(k) \/ RestoreArchive(k) \/ Rename(k)
    BY <2>5 DEF NothingAged, Archive, AppendFails, Replace, RestoreArchive, Rename
  <2> QED BY <2>1, <2>2, <2>3, <2>4, <2>5 DEF Next
<1> QED BY <1>1, <1>2, PTL DEF Spec

(* Only its last step ends a restore that is not interrupted. *)
LEMMA RestoreStep ==
  ASSUME StoresInv, kills \in Nat, [Next]_vars,
         tool = "copied", tool' = "none", kills' = kills
  PROVE  \A r \in backup.goal :
            r \in db' \cup archive' \/ r[2] \in backup.failed \cap backup.copies
<1>1. RestoreEnds
  <2>1. ~UNCHANGED vars
    BY DEF vars, scripts
  <2>2. ~(Kill \/ KillBackup \/ KillTool)
    BY DEF Kill, KillBackup, KillTool
  <2>3. ~(Tick \/ Start \/ Stop \/ Snapshot \/ CopyArchives \/ Seal \/ MoveAside
          \/ RestoreDb \/ Migrate)
    BY DEF Tick, Start, Stop, Snapshot, Begins, CopyArchives, Seal, MoveAside, RestoreDb,
           Migrate, scripts
  <2>4. ~(\/ \E a \in Actions : Take(a)
          \/ \E r \in Records : Save(r) \/ Insert(r))
    BY DEF Take, Save, Insert, scripts
  <2>5. ~(\E k \in Kinds : \/ NothingAged(k) \/ Archive(k) \/ AppendFails(k)
                           \/ Replace(k) \/ RestoreArchive(k) \/ Rename(k))
    BY DEF NothingAged, Archive, AppendFails, Replace, RestoreArchive, Rename, scripts
  <2> QED BY <2>1, <2>2, <2>3, <2>4, <2>5 DEF Next
<1>2. chosen = {} /\ db' = db /\ archive' = archive
  BY <1>1 DEF RestoreEnds, files
<1>3. \A r \in backup.archive : r[2] \in Kinds
  BY DEF StoresInv, Known, Records
<1>4. backup.archive \subseteq archive
  BY <1>2, <1>3 DEF StoresInv, Restoring, Of
<1>5. \A r \in backup.goal :
        /\ r \in backup.db \cup backup.archive \/ r[2] \in backup.failed
        /\ r \in backup.db \cup archive \/ r[2] \in backup.copies
  BY DEF StoresInv, BackedUp, Stopped
<1>6. backup.db \subseteq db
  BY DEF StoresInv, Restoring
<1> QED BY <1>2, <1>4, <1>5, <1>6

(* A restore that ends has brought back all the evidence there was when    *)
(* its backup began, also when an earlier restore was interrupted, but for *)
(* archives of which the backup has a part; those it lacks are left where  *)
(* they are (rmt-evidence-restore.sh).                                     *)
THEOREM RestoresBringBack == Spec => RestoreBringsBack
<1>1. StoresInv /\ kills \in Nat /\ [Next]_vars
        => [tool = "copied" /\ tool' = "none" /\ kills' = kills
              => \A r \in backup.goal :
                    r \in db' \cup archive'
                    \/ r[2] \in backup.failed \cap backup.copies]_vars
  BY RestoreStep
<1> QED BY <1>1, StoresInvariant, KillsCounted, PTL DEF Spec, RestoreBringsBack

-----------------------------------------------------------------------------
(* What is kept while no archive ends within a line. *)

(* No archive ends within a line. *)
Readable == torn = {} /\ bad = {}

(* During retention a row that is in no list is in an archive: the second  *)
(* write of replace_records may fail after the first.                      *)
Retaining == phase = "retaining" => db \subseteq mem \cup archive

(* The rows are replaced when their lines are in the archive. *)
Appending ==
    \A k \in Kinds : Passing(k) /\ step = "replace" => Aged(k) \subseteq archive

KeptInv == Readable /\ Retaining /\ Appending /\ Stopped /\ NothingLost

(* The pass is at one store. *)
LEMMA OnePassing ==
    ASSUME NEW k \in Kinds, NEW q \in Kinds, Passing(k), Passing(q)
    PROVE  k = q
<1>1. k \in Stores /\ q \in Stores /\ Retained[k] <= Retained[q] /\ Retained[q] <= Retained[k]
  BY StoresAssumption DEF Passing
<1> QED BY <1>1 DEF Stores, Written, Retained

(* Lines that reach an archive without a torn line can all be read. *)
LEMMA AppendedWhole ==
    ASSUME Readable, NEW k, NEW lines, Appended(k, lines)
    PROVE  archive' = archive \cup lines /\ bad' = {}
BY DEF Readable, Appended

LEMMA InitKept == Init => KeptInv
BY DEF Init, KeptInv, Readable, Retaining, Appending, Stopped, NothingLost, NoBackup, Old

(* Retention goes on with the next store: what it is at changes, and the   *)
(* files do not.                                                           *)
LEMMA NothingAgedInv == ASSUME KeptInv, NEW k, NothingAged(k) PROVE KeptInv'
<1>1. /\ UNCHANGED <<files, mem, backup, tool, saved>>
      /\ phase' # "down" /\ phase = "retaining" /\ step' = "append"
  BY DEF NothingAged, Passing, Leave, scripts
<1> QED
  BY <1>1 DEF KeptInv, Readable, Retaining, Appending, Stopped, NothingLost, files

LEMMA ArchiveInv == ASSUME KeptInv, NEW k \in Kinds, Archive(k) PROVE KeptInv'
<1>1. /\ archive' = archive \cup Aged(k)
      /\ bad' = {}
  BY AppendedWhole DEF Archive, KeptInv
<1>2. /\ UNCHANGED <<now, born, saved, mem, db, legacy, aside, phase, todo, backup, tool>>
      /\ torn' = torn \ {k}
      /\ Passing(k) /\ phase = "retaining"
  BY DEF Archive, Passing, scripts
<1>3. Aged(k)' = Aged(k)
  BY <1>2 DEF Aged, OlderThanWindow, Of
<1>4. \A q \in Kinds : Passing(q)' => q = k
  BY <1>2, OnePassing DEF Passing
<1> QED
  BY <1>1, <1>2, <1>3, <1>4
  DEF KeptInv, Readable, Retaining, Appending, Stopped, NothingLost

(* Some lines reach the archive whole, and the files lose nothing. *)
LEMMA SomeAppended ==
    ASSUME ~TornLines, KeptInv, NEW k, NEW lines, Appended(k, lines),
           torn' = IF lines = {} THEN torn ELSE torn \ {k},
           UNCHANGED <<saved, db, legacy, aside, backup>>
    PROVE  /\ Readable' /\ NothingLost' /\ archive \subseteq archive'
<1>1. archive' = archive \cup lines /\ bad' = {}
  BY AppendedWhole DEF KeptInv
<1>2. torn' = {}
  BY DEF KeptInv, Readable
<1> QED
  BY <1>1, <1>2 DEF KeptInv, Readable, NothingLost

LEMMA AppendFailsInv == ASSUME ~TornLines, KeptInv, NEW k, AppendFails(k) PROVE KeptInv'
<1>1. PICK lines \in Prefixes(Aged(k)) \ {Aged(k)} :
        /\ Appended(k, lines)
        /\ torn' = IF lines = {} THEN torn ELSE torn \ {k}
  BY DEF AppendFails, PartAppended
<1>2. /\ UNCHANGED <<saved, mem, db, legacy, aside, backup, tool>>
      /\ phase = "retaining" /\ phase' # "down" /\ step' = "append"
  BY DEF AppendFails, Passing, Leave, scripts
<1>3. Readable' /\ NothingLost' /\ archive \subseteq archive'
  BY <1>1, <1>2, SomeAppended
<1> QED
  BY <1>2, <1>3 DEF KeptInv, Retaining, Appending, Stopped

(* The rows that go are those whose lines are in the archive. *)
LEMMA ReplaceInv == ASSUME KeptInv, NEW k \in Kinds, Replace(k) PROVE KeptInv'
<1>1. /\ UNCHANGED <<saved, archive, torn, bad, legacy, aside, backup, tool>>
      /\ phase = "retaining" /\ phase' # "down" /\ step' = "append"
      /\ mem' = mem \ Aged(k)
      /\ db' = (db \ Of(k, db)) \cup (Of(k, mem) \ Aged(k)) \/ db' = db
  BY DEF Replace, Passing, Leave, scripts
<1>2. Aged(k) \subseteq archive
  BY DEF Replace, Passing, KeptInv, Appending
<1>3. db \subseteq mem \cup archive
  BY <1>1 DEF KeptInv, Retaining
<1>4. db \subseteq db' \cup archive
  BY <1>1, <1>2, <1>3 DEF Of
<1>5. db' \subseteq mem' \cup archive
  BY <1>1, <1>2, <1>3 DEF Of
<1> QED
  BY <1>1, <1>4, <1>5
  DEF KeptInv, Readable, Retaining, Appending, Stopped, NothingLost

LEMMA KillInv == ASSUME ~TornLines, KeptInv, Kill PROVE KeptInv'
<1>1. /\ UNCHANGED <<saved, db, legacy, aside, backup, tool>>
      /\ phase' = "down"
  BY DEF Kill, scripts
<1>2. Readable' /\ NothingLost'
  <2>1. CASE UNCHANGED <<archive, torn, bad>>
    BY <1>1, <2>1 DEF KeptInv, Readable, NothingLost
  <2>2. CASE \E k \in todo :
               \E lines : /\ Appended(k, lines)
                          /\ torn' = IF lines = {} THEN torn ELSE torn \ {k}
    BY <1>1, <2>2, SomeAppended
  <2> QED
    BY <2>1, <2>2 DEF Kill, PartAppended
<1> QED
  BY <1>1, <1>2 DEF KeptInv, Retaining, Appending, Passing, Stopped

(* What is moved is beside the place it had. *)
LEMMA MoveAsideInv == ASSUME KeptInv, MoveAside PROVE KeptInv'
<1>1. /\ UNCHANGED <<saved, archive, torn, bad, legacy, backup, phase>>
      /\ phase = "down"
      /\ aside' = aside \cup db /\ db' = {}
      /\ backup.step = "sealed"
  BY DEF MoveAside, Sound, service
<1> QED
  BY <1>1 DEF KeptInv, Readable, Retaining, Appending, Passing, Stopped, NothingLost

LEMMA KillBackupInv == ASSUME KeptInv, KillBackup PROVE KeptInv'
<1>1. /\ UNCHANGED <<now, born, saved, files, service, tool>>
      /\ backup' = NoBackup /\ backup.step # "sealed"
  BY DEF KillBackup
<1>2. Stopped'
  BY <1>1 DEF KeptInv, Stopped, files, service
<1>3. Appending'
  BY <1>1 DEF KeptInv, Appending, Passing, Aged, OlderThanWindow, Of, files, service
<1> QED
  BY <1>1, <1>2, <1>3 DEF KeptInv, Readable, Retaining, NothingLost, files, service

(* Every action keeps the invariant. *)
LEMMA NextInv == ASSUME ~TornLines, KeptInv, [Next]_vars PROVE KeptInv'
<1> USE DEF KeptInv, Readable, Retaining, Appending, Passing, Stopped, NothingLost
<1>1. ASSUME Tick PROVE KeptInv'
  BY <1>1 DEF Tick, Aged, OlderThanWindow, files, service, scripts
<1>2. ASSUME NEW a, Take(a) PROVE KeptInv'
  BY <1>2 DEF Take, Aged, OlderThanWindow, files, service, scripts
<1>3. ASSUME NEW r, Save(r) PROVE KeptInv'
  BY <1>3 DEF Save, Aged, OlderThanWindow, files, service, scripts
<1>4. ASSUME NEW r, Insert(r) PROVE KeptInv'
  BY <1>4 DEF Insert, Aged, OlderThanWindow, files, service, scripts
<1>5. ASSUME Start PROVE KeptInv'
  BY <1>5 DEF Start, Aged, OlderThanWindow, files, service, scripts
<1>6. ASSUME NEW k, RestoreArchive(k) PROVE KeptInv'
  BY <1>6 DEF RestoreArchive, Aged, OlderThanWindow, files, service, scripts
<1>7. ASSUME NEW k, Rename(k) PROVE KeptInv'
  BY <1>7 DEF Rename, Aged, OlderThanWindow, files, service, scripts
<1>8. ASSUME Stop PROVE KeptInv'
  BY <1>8 DEF Stop, Aged, OlderThanWindow, files, service, scripts
<1>9. ASSUME Snapshot PROVE KeptInv'
  BY <1>9 DEF Snapshot, Begins, Aged, OlderThanWindow, files, service, scripts
<1>10. ASSUME CopyArchives PROVE KeptInv'
  BY <1>10 DEF CopyArchives, Aged, OlderThanWindow, files, service, scripts
<1>11. ASSUME Seal PROVE KeptInv'
  BY <1>11 DEF Seal, Aged, OlderThanWindow, files, service, scripts
<1>12. ASSUME RestoreDb PROVE KeptInv'
  BY <1>12 DEF RestoreDb, Aged, OlderThanWindow, files, service, scripts
<1>13. ASSUME RestoreEnds PROVE KeptInv'
  BY <1>13 DEF RestoreEnds, Aged, OlderThanWindow, files, service, scripts
<1>14. ASSUME Migrate PROVE KeptInv'
  BY <1>14 DEF Migrate, Aged, OlderThanWindow, files, service, scripts
<1>15. ASSUME KillTool PROVE KeptInv'
  BY <1>15 DEF KillTool, Aged, OlderThanWindow, files, service, scripts
<1>16. CASE UNCHANGED vars
  BY <1>16 DEF vars, Aged, OlderThanWindow, files, service, scripts
<1> HIDE DEF KeptInv, Readable, Retaining, Appending, Passing, Stopped, NothingLost
<1> QED
  BY <1>1, <1>2, <1>3, <1>4, <1>5, <1>6, <1>7, <1>8, <1>9, <1>10, <1>11, <1>12, <1>13,
     <1>14, <1>15, <1>16, NothingAgedInv, ArchiveInv, AppendFailsInv, ReplaceInv,
     KillInv, MoveAsideInv, KillBackupInv
  DEF Next

(* Committed evidence stays where it can be found (archive_store). *)
THEOREM EvidenceIsKept == ASSUME ~TornLines PROVE Spec => []NothingLost
<1>1. KeptInv /\ [Next]_vars => KeptInv'
  BY NextInv
<1>2. KeptInv => NothingLost
  BY DEF KeptInv
<1> QED
  BY InitKept, <1>1, <1>2, PTL DEF Spec
=============================================================================
