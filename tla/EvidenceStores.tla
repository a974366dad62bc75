-------------------------- MODULE EvidenceStores --------------------------
(***************************************************************************)
(* The governance evidence: six stores, each a list in memory in front of  *)
(* a table of one SQLite file, and beside each table an append-only archive*)
(* into which the startup moves what is older than the retention window.   *)
(* Scripts of other processes back the evidence up while the service runs, *)
(* restore a backup and migrate the JSON files of older versions.          *)
(*                                                                         *)
(* A record is an action with the store it is in: each action leaves one   *)
(* record in each store.  The tables are one database, so a backup of them *)
(* is a snapshot; the archives are files that are appended to.             *)
(***************************************************************************)
EXTENDS Integers, FiniteSets

CONSTANTS
    Actions,      \* the governed actions
    Kinds,        \* the stores of this instance
    OldActions,   \* the actions whose evidence is in JSON files at first
    Window,       \* RMT_EVIDENCE_RETENTION_DAYS (0 turns retention off)
    TornLines,    \* may a write to an archive end in the middle of a line?
    MaxTime,      \* bound: the clock
    MaxKills,     \* bound: how often a process ends where it is
    MaxFaults     \* bound: the writes and the copies that fail

(* The place of each store in the order in which an action writes them,    *)
(* and in the order in which retention goes through them.                  *)
Written == [approval_holds |-> 1, approval_records |-> 2, authorizations |-> 3,
            audit |-> 4, traces |-> 5, verifications |-> 6]
Retained == [traces |-> 1, audit |-> 2, verifications |-> 3, authorizations |-> 4,
             approval_records |-> 5, approval_holds |-> 6]

Stores == DOMAIN Written

ASSUME StoresAssumption ==
    /\ Kinds \subseteq Stores
    /\ OldActions \subseteq Actions
    /\ Window \in Nat \ {0}
    /\ TornLines \in BOOLEAN
    /\ MaxTime \in Nat /\ MaxKills \in Nat /\ MaxFaults \in Nat

Records == Actions \X Kinds

VARIABLES
    now, born,      \* the time, and created_at of each record that exists
    saved,          \* the records whose row was ever committed
    mem, db,        \* the lists in memory and the tables
    archive,        \* the records that can be read from the archives
    torn, bad,      \* the archives that end within a line, or have a broken one
    legacy, aside,  \* what is in JSON files, and in *.pre-restore files
    running,        \* the actions on which a thread of the service works
    phase, todo, step,  \* the service, and its retention pass
    backup, tool, chosen,  \* the backup, the script at work, what it migrates
    kills, faults

files == <<db, archive, torn, bad, legacy, aside>>
service == <<mem, running, phase, todo, step>>
scripts == <<backup, tool, chosen>>
vars == <<now, born, saved, files, service, scripts, kills, faults>>

-----------------------------------------------------------------------------

Of(k, records) == {r \in records : r[2] = k}
Filled(records) == {k \in Kinds : Of(k, records) # {}}
RecordsOf(a) == {a} \X Kinds

None == -1
NoBackup == [step |-> "none", goal |-> {}, db |-> {}, archive |-> {}, bad |-> {},
             copies |-> {}, failed |-> {}]

Backups == [step : {"none", "snapshot", "copied", "sealed"},
            goal : SUBSET Records, db : SUBSET Records, archive : SUBSET Records,
            bad : SUBSET Kinds, copies : SUBSET Kinds, failed : SUBSET Kinds]

TypeOK ==
    /\ now \in 0..MaxTime
    /\ born \in [Records -> {None} \cup 0..MaxTime]
    /\ {saved, mem, db, archive, legacy, aside} \subseteq SUBSET Records
    /\ {torn, bad, chosen} \subseteq SUBSET Kinds
    /\ running \subseteq Actions
    /\ phase \in {"down", "retaining", "serving"}
    /\ todo \subseteq Kinds
    /\ step \in {"append", "replace"}
    /\ backup \in Backups
    /\ tool \in {"none", "moved", "copied", "migrating"}
    /\ kills \in 0..MaxKills
    /\ faults \in 0..MaxFaults

Old == OldActions \X Kinds

Init ==
    /\ now = 0
    /\ born = [r \in Records |-> IF r \in Old THEN 0 ELSE None]
    /\ saved = Old /\ legacy = Old
    /\ mem = {} /\ db = {} /\ archive = {} /\ aside = {}
    /\ torn = {} /\ bad = {}
    /\ running = {}
    /\ phase = "down" /\ todo = {} /\ step = "append"
    /\ backup = NoBackup /\ tool = "none" /\ chosen = {}
    /\ kills = 0 /\ faults = 0

(* A retention pass is shorter than the unit of time. *)
Tick ==
    /\ now < MaxTime
    /\ phase # "retaining"
    /\ now' = now + 1
    /\ UNCHANGED <<born, saved, files, service, scripts, kills, faults>>

-----------------------------------------------------------------------------
(* The service writes evidence.                                            *)

Exists(r) == born[r] # None

(* The records that an action has before it writes r. *)
Before(r) == {q \in RecordsOf(r[1]) : Written[q[2]] < Written[r[2]]}

(* A new action, or a held one whose approval goes on with it, perhaps in  *)
(* another life of the process.                                            *)
Take(a) ==
    /\ phase = "serving"
    /\ a \notin running
    /\ \A r \in RecordsOf(a) :
          Exists(r) => r[2] \in {"approval_holds", "approval_records"} /\ r \in mem
    /\ running' = running \cup {a}
    /\ UNCHANGED <<now, born, saved, files, mem, phase, todo, step, scripts,
                   kills, faults>>

(* save: the list first, then the row, whose failure ends the action. *)
Save(r) ==
    /\ phase = "serving"
    /\ r[1] \in running
    /\ ~Exists(r)
    /\ \A q \in Before(r) : Exists(q)
    /\ born' = [born EXCEPT ![r] = now]
    /\ mem' = mem \cup {r}
    /\ \/ /\ db' = db \cup {r}
          /\ saved' = saved \cup {r}
          /\ UNCHANGED <<running, faults>>
       \/ /\ faults < MaxFaults
          /\ faults' = faults + 1
          /\ running' = running \ {r[1]}
          /\ UNCHANGED <<db, saved>>
    /\ UNCHANGED <<now, archive, torn, bad, legacy, aside, phase, todo, step,
                   scripts, kills>>

-----------------------------------------------------------------------------
(* Startup: the tables are read, then retention goes from store to store.  *)

Start ==
    /\ phase = "down" /\ tool = "none"
    /\ phase' = "retaining"
    /\ mem' = db
    /\ todo' = Kinds
    /\ step' = "append"
    /\ UNCHANGED <<now, born, saved, files, running, scripts, kills, faults>>

(* Mutant: what is as old as the window is archived too. *)
NotYounger(r) == now - born[r] >= Window

(* created_at < cutoff *)
OlderThanWindow(r) == now - born[r] > Window

Aged(k) == {r \in Of(k, mem) : OlderThanWindow(r)}

(* The store that the pass is at: the first of those that are left. *)
Passing(k) ==
    /\ phase = "retaining"
    /\ k \in todo
    /\ \A q \in todo : Retained[k] <= Retained[q]

(* The pass goes on with the next store, after the last the service serves. *)
Leave(k) ==
    /\ todo' = todo \ {k}
    /\ step' = "append"
    /\ phase' = IF todo = {k} THEN "serving" ELSE "retaining"

NothingAged(k) ==
    /\ Passing(k) /\ step = "append"
    /\ Aged(k) = {}
    /\ Leave(k)
    /\ UNCHANGED <<now, born, saved, files, mem, running, scripts, kills, faults>>

(* The lines of some records reach the archive, in the order of the store. *)
Prefixes(records) ==
    {p \in SUBSET records :
        \A r \in p, q \in records \ p : born[r] <= born[q]}

(* Lines after the end of a file: the first one joins what is left there   *)
(* of a torn line, and neither can be read.                                *)
Appended(k, lines) ==
    /\ \/ /\ (k \notin torn) \/ (lines = {})
          /\ archive' = archive \cup lines
          /\ bad' = bad
       \/ /\ k \in torn
          /\ \E r \in lines :
                /\ {r} \in Prefixes(lines)
                /\ archive' = archive \cup (lines \ {r})
          /\ bad' = bad \cup {k}

(* Mutant: the rows are deleted and the failure is not seen. *)
SkipArchive(k) ==
    /\ Passing(k) /\ step = "append"
    /\ Aged(k) # {}
    /\ step' = "replace"
    /\ UNCHANGED <<now, born, saved, files, mem, running, phase, todo, scripts,
                   kills, faults>>

Archive(k) ==
    /\ Passing(k) /\ step = "append"
    /\ Aged(k) # {}
    /\ Appended(k, Aged(k))
    /\ torn' = torn \ {k}
    /\ step' = "replace"
    /\ UNCHANGED <<now, born, saved, mem, db, legacy, aside, running, phase, todo,
                   scripts, kills, faults>>

(* Some of the lines are written, the last perhaps in part. *)
PartAppended(k) ==
    \E lines \in Prefixes(Aged(k)) \ {Aged(k)} :
        /\ Appended(k, lines)
        /\ \/ torn' = IF lines = {} THEN torn ELSE torn \ {k}
           \/ TornLines /\ torn' = torn \cup {k}

(* The disk is full, and the store is skipped. *)
AppendFails(k) ==
    /\ Passing(k) /\ step = "append"
    /\ Aged(k) # {}
    /\ faults < MaxFaults
    /\ faults' = faults + 1
    /\ PartAppended(k)
    /\ Leave(k)
    /\ UNCHANGED <<now, born, saved, mem, db, legacy, aside, running, scripts, kills>>

(* _replace_records: the list first, then one transaction that deletes all *)
(* rows and inserts the list; retention logs a failure and goes on.        *)
Replace(k) ==
    /\ Passing(k) /\ step = "replace"
    /\ mem' = mem \ Aged(k)
    /\ \/ /\ db' = (db \ Of(k, db)) \cup (Of(k, mem) \ Aged(k))
          /\ UNCHANGED faults
       \/ /\ faults < MaxFaults
          /\ faults' = faults + 1
          /\ UNCHANGED db
    /\ Leave(k)
    /\ UNCHANGED <<now, born, saved, archive, torn, bad, legacy, aside, running,
                   scripts, kills>>

(* The process ends, within an append too. *)
Kill ==
    /\ phase # "down"
    /\ kills < MaxKills
    /\ kills' = kills + 1
    /\ phase' = "down" /\ mem' = {} /\ running' = {}
    /\ todo' = {} /\ step' = "append"
    /\ \/ UNCHANGED <<archive, torn, bad>>
       \/ /\ step = "append"
          /\ \E k \in todo : Passing(k) /\ PartAppended(k)
    /\ UNCHANGED <<now, born, saved, db, legacy, aside, scripts, faults>>

(* The service is stopped when no request is in progress. *)
Stop ==
    /\ phase = "serving" /\ running = {}
    /\ phase' = "down" /\ mem' = {}
    /\ UNCHANGED <<now, born, saved, files, running, todo, step, scripts, kills, faults>>

-----------------------------------------------------------------------------
(* rmt-evidence-backup.sh, while the service runs: a snapshot of the       *)
(* database, then the archives, then the checksums.  Each backup is a      *)
(* directory of its own that leaves the live files alone; the model follows*)
(* one of them.                                                            *)

Begins(rows) ==
    /\ tool = "none"
    /\ backup.step = "none"
    /\ backup' = [NoBackup EXCEPT !.step = "snapshot", !.goal = db \cup archive,
                                  !.db = rows]
    /\ UNCHANGED <<now, born, saved, files, service, tool, chosen, kills, faults>>

(* Mutant: sqlite3 is missing, and the file is copied without its log. *)
RawCopy == \E old \in SUBSET db : Begins(old)

(* What the backup is for: all the evidence there is when it starts. *)
Snapshot == Begins(db)

(* The copies of some archives fail, which the script does not see: of such *)
(* an archive there is no copy, or one that opened and has a part of the   *)
(* lines.  A copy that is cut within a line makes the backup unsound, with *)
(* whatever lines; one that lacks nothing has not failed.                  *)
Copied(lines, broken, failed) ==
    \E opened \in SUBSET failed : \E cut \in SUBSET opened :
    \E some \in SUBSET {r \in lines : r[2] \in opened \ cut} :
        /\ \A k \in opened \ cut : ~(Of(k, lines) \subseteq some)
        /\ backup' = [backup EXCEPT
                !.step = "copied",
                !.archive = {r \in lines : r[2] \notin failed} \cup some,
                !.bad = (broken \ failed) \cup cut,
                !.copies = Filled({r \in lines : r[2] \notin failed}) \cup opened,
                !.failed = failed]

(* Of the archive that the service is writing, the copy has the lines there *)
(* were, perhaps with a part of the next one.                              *)
CopyOf(failed) ==
    \/ Copied(archive, torn \cup bad, failed)
    \/ /\ step = "append"
       /\ \E k \in todo :
             /\ Passing(k) /\ Aged(k) # {}
             /\ \E lines \in Prefixes(Aged(k)), cut \in SUBSET {k} :
                   Copied(archive \cup lines, torn \cup bad \cup cut, failed)

CopyArchives ==
    /\ backup.step = "snapshot"
    /\ \/ CopyOf({}) /\ UNCHANGED faults
       \/ /\ faults < MaxFaults
          /\ faults' = faults + 1
          /\ \E failed \in SUBSET Filled(archive) \ {{}} : CopyOf(failed)
    /\ UNCHANGED <<now, born, saved, files, service, tool, chosen, kills>>

Seal ==
    /\ backup.step = "copied"
    /\ backup' = [backup EXCEPT !.step = "sealed"]
    /\ UNCHANGED <<now, born, saved, files, service, tool, chosen, kills, faults>>

KillBackup ==
    /\ backup.step \in {"snapshot", "copied"}
    /\ kills < MaxKills
    /\ kills' = kills + 1
    /\ backup' = NoBackup
    /\ UNCHANGED <<now, born, saved, files, service, tool, chosen, faults>>

-----------------------------------------------------------------------------
(* rmt-evidence-restore.sh, of a backup that has its checksums and that    *)
(* rmt_evidence_verify.py finds sound, while the service is stopped.       *)

Sound(b) == b.step = "sealed" /\ b.bad = {}

(* The files of the database, which are three, are moved as one. *)
MoveAside ==
    /\ phase = "down" /\ tool = "none"
    /\ Sound(backup)
    /\ aside' = aside \cup db
    /\ db' = {}
    /\ tool' = "moved"
    /\ UNCHANGED <<now, born, saved, archive, torn, bad, legacy, service, backup,
                   chosen, kills, faults>>

RestoreDb ==
    /\ tool = "moved"
    /\ db' = backup.db
    /\ tool' = "copied"
    /\ chosen' = backup.copies
    /\ UNCHANGED <<now, born, saved, archive, torn, bad, legacy, aside, service,
                   backup, kills, faults>>

RestoreArchive(k) ==
    /\ tool = "copied" /\ k \in chosen
    /\ aside' = aside \cup Of(k, archive)
    /\ archive' = (archive \ Of(k, archive)) \cup Of(k, backup.archive)
    /\ torn' = torn \ {k} /\ bad' = bad \ {k}
    /\ chosen' = chosen \ {k}
    /\ UNCHANGED <<now, born, saved, db, legacy, service, backup, tool, kills, faults>>

(* Mutant: the script ends when the database is in place. *)
EndsEarly ==
    /\ tool = "copied"
    /\ tool' = "none" /\ chosen' = {}
    /\ UNCHANGED <<now, born, saved, files, service, backup, kills, faults>>

RestoreEnds ==
    /\ tool = "copied" /\ chosen = {}
    /\ tool' = "none"
    /\ UNCHANGED <<now, born, saved, files, service, backup, chosen, kills, faults>>

-----------------------------------------------------------------------------
(* rmt-migrate-evidence.py: the JSON files of which no row is in a table.  *)

Migrate ==
    /\ phase = "down" /\ tool = "none"
    /\ chosen' = {k \in Filled(legacy) : Of(k, db) = {}}
    /\ chosen' # {}
    /\ tool' = "migrating"
    /\ UNCHANGED <<now, born, saved, files, service, backup, kills, faults>>

Insert(r) ==
    /\ tool = "migrating"
    /\ r[2] \in chosen /\ r \in legacy \ db
    /\ db' = db \cup {r}
    /\ UNCHANGED <<now, born, saved, archive, torn, bad, legacy, aside, service,
                   scripts, kills, faults>>

(* The file gets another name when its last record is in the table. *)
Rename(k) ==
    /\ tool = "migrating"
    /\ k \in chosen
    /\ Of(k, legacy) \subseteq db
    /\ legacy' = legacy \ Of(k, legacy)
    /\ chosen' = chosen \ {k}
    /\ tool' = IF chosen = {k} THEN "none" ELSE "migrating"
    /\ UNCHANGED <<now, born, saved, db, archive, torn, bad, aside, service, backup,
                   kills, faults>>

(* A restore or a migration ends where it is, perhaps between the two      *)
(* commands that replace an archive.                                       *)
KillTool ==
    /\ tool # "none"
    /\ kills < MaxKills
    /\ kills' = kills + 1
    /\ tool' = "none" /\ chosen' = {}
    /\ \/ UNCHANGED <<archive, aside, torn, bad>>
       \/ /\ tool = "copied"
          /\ \E k \in chosen :
                /\ aside' = aside \cup Of(k, archive)
                /\ archive' = archive \ Of(k, archive)
                /\ torn' = torn \ {k} /\ bad' = bad \ {k}
    /\ UNCHANGED <<now, born, saved, db, legacy, service, backup, faults>>

-----------------------------------------------------------------------------

Next ==
    \/ Tick
    \/ \E a \in Actions : Take(a)
    \/ \E r \in Records : Save(r) \/ Insert(r)
    \/ Start
    \/ \E k \in Kinds : \/ NothingAged(k) \/ Archive(k) \/ AppendFails(k)
                        \/ Replace(k) \/ RestoreArchive(k) \/ Rename(k)
    \/ Kill \/ Stop
    \/ Snapshot \/ CopyArchives \/ Seal \/ KillBackup
    \/ MoveAside \/ RestoreDb \/ RestoreEnds
    \/ Migrate \/ KillTool

Spec == Init /\ [][Next]_vars

-----------------------------------------------------------------------------
(* evidence_chain: what the console shows for one identifier.              *)

InMem(a, kinds) == {r \in mem : r[1] = a /\ r[2] \in kinds}

(* A verification names its execution only: the execution ids come from    *)
(* the audit records that match.                                           *)
Verifications(a) ==
    IF InMem(a, {"audit"}) = {} THEN {} ELSE InMem(a, {"verifications"})

ByAction(a) == InMem(a, Kinds \ {"verifications"}) \cup Verifications(a)

(* An approval id is resolved to its action by an approval record, a hold  *)
(* or an authorization, an execution id by an audit record or a trace.     *)
ByApproval(a) ==
    IF InMem(a, {"approval_records", "approval_holds", "authorizations"}) = {}
    THEN {} ELSE ByAction(a)

ByExecution(a) ==
    InMem(a, {"verifications"}) \cup
    IF InMem(a, {"audit", "traces"}) = {} THEN {} ELSE ByAction(a)

-----------------------------------------------------------------------------
(* Properties.                                                             *)

(* Retention, restore and migration move evidence and never lose it: what  *)
(* was committed once is in a table, in an archive that can be read, in a  *)
(* file a restore moved aside or in a JSON file not migrated yet           *)
(* (archive_store: append, fsync, then replace).                           *)
NothingLost == saved \subseteq db \cup archive \cup aside \cup legacy

(* A backup made while the service runs, and while its startup moves       *)
(* records between the two files, has all the evidence there was when the  *)
(* backup began, but for what only an archive has whose copy failed.       *)
BackupComplete ==
    backup.step = "sealed" =>
        \A r \in backup.goal :
            r \in backup.db \cup backup.archive \/ r[2] \in backup.failed

(* The whole of it, as the backup's header and the configuration guide say:*)
(* "Archived rows are never deleted - E5 backup captures them".            *)
ArchivesAreCaptured ==
    backup.step = "sealed" => backup.goal \subseteq backup.db \cup backup.archive

(* A restore that ends has brought back all that evidence, also after one  *)
(* that was interrupted, but for what it replaced by a part: an archive of *)
(* which the backup has nothing is left in its place, and is as good.      *)
RestoreBringsBack ==
    [][tool = "copied" /\ tool' = "none" /\ kills' = kills
         => \A r \in backup.goal :
               r \in db' \cup archive' \/ r[2] \in backup.failed \cap backup.copies]_vars

(* While an incident is within the window, all identifiers of the action   *)
(* lead to all its evidence, in every life of the service.                 *)
Existing(a) == {r \in RecordsOf(a) : Exists(r)}

RecentIsFound ==
    \A a \in Actions :
        /\ phase = "serving"
        /\ Existing(a) # {} /\ Existing(a) \subseteq db \cup archive
        /\ \A r \in Existing(a) : now - born[r] <= Window
        => /\ ByAction(a) = Existing(a)
           /\ ByApproval(a) = Existing(a)
           /\ Exists(<<a, "audit">>) => ByExecution(a) = Existing(a)
=============================================================================
