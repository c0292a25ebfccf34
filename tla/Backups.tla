------------------------------- MODULE Backups -------------------------------
(***************************************************************************)
(* Backups of the database (createPostgreSQLBackup) and of the objects     *)
(* (backupObjectStorage), and rehearsals of a restore, by scripts that     *)
(* several operators or timers may start at the same time and that may be  *)
(* killed at any step, while the application goes on writing.              *)
(*                                                                         *)
(* The contents of the database are the number of writes it has seen; a    *)
(* checksum is what it is taken of.  pg_dump and pg_restore are external:  *)
(* the first takes a snapshot when it starts and fills its file as it      *)
(* goes; the second, without a transaction, leaves its target broken until *)
(* it ends well.  Encryption is known by its key: another one opens        *)
(* nothing.  Records carry no time: that the last one is recent is left to *)
(* the clock.                                                              *)
(***************************************************************************)
EXTENDS Integers, FiniteSets

CONSTANTS Database, Rehearsal,    \* databases, and those named ..._restore_rehearsal
          Stamp, SecretKey,       \* timestamps in the names of files; encryption keys
          Backup, ObjectBackup,   \* runs of the two scripts
          LastObject,             \* objects are numbered in the order of their keys
          SizeOf,                 \* version of an object |-> its size
          MaxWrites, MaxPuts      \* bounds: writes of a database, changes of objects

Served == Database \ Rehearsal
Absent == -1    \* no file, no object
Broken == -2    \* a file being written, a database being restored
NoFile == [content |-> Absent, key |-> Absent]
Object == 1..LastObject

ASSUME BackupAssumption ==
    /\ Rehearsal \subseteq Database
    /\ LastObject \in Nat /\ MaxWrites \in Nat /\ MaxPuts \in Nat \ {0}

VARIABLES
    database, writes,  \* contents, and ghost: what the application wrote
    plaintext,         \* timestamp -> the dump before it is encrypted
    archive, manifest, \* timestamp -> the encrypted dump, and what is said of it
    dump,              \* run of the database script -> what it does
    recorded,          \* RecoveryOperation of type BACKUP
    shared, killed,    \* ghosts: timestamps two runs had together, and of killed runs
    rehearsal,         \* the restore that is running
    stored, puts,      \* object -> its version; ghost: changes so far
    copy,              \* the objects under the prefix of the day
    round,             \* run of the object script -> what it does
    objectRecords      \* RecoveryOperation of type OBJECT_BACKUP

dumpVars == <<database, writes, plaintext, archive, manifest, dump, recorded, shared, killed, rehearsal>>
objectVars == <<stored, puts, copy, round, objectRecords>>
backupVars == <<dumpVars, objectVars>>

Unstarted == [phase |-> "none"]
Ended == [phase |-> "ended"]
Active(j) == j.phase \notin {"none", "ended"}

BackupInit ==
    /\ database = [d \in Database |-> 0] /\ writes = database
    /\ plaintext = [s \in Stamp |-> Absent]
    /\ archive = [s \in Stamp |-> NoFile] /\ manifest = archive
    /\ dump = [r \in Backup |-> Unstarted] /\ recorded = {} /\ shared = {} /\ killed = {}
    /\ rehearsal = Unstarted
    /\ stored = [o \in Object |-> 1] /\ puts = 1
    /\ copy = [o \in Object |-> [version |-> Absent, size |-> Absent, by |-> Absent]]
    /\ round = [r \in ObjectBackup |-> Unstarted] /\ objectRecords = {}

-----------------------------------------------------------------------------
(* The database. *)

\* The application.
Write(d) ==
    /\ d \in Served /\ writes[d] < MaxWrites
    /\ database' = [database EXCEPT ![d] = @ + 1] /\ writes' = [writes EXCEPT ![d] = @ + 1]
    /\ UNCHANGED <<plaintext, archive, manifest, dump, recorded, shared, killed, rehearsal, objectVars>>

\* createBackupPlan and the checks behind it: what the operator has set, and the
\* environment whose name was to be typed.  Any database will do, also one that
\* is being restored.
StartBackup(r, d, s, k, confirmed, encrypted) ==
    /\ dump[r].phase = "none" /\ confirmed /\ encrypted
    /\ dump' = [dump EXCEPT ![r] = [phase |-> "dumping", stamp |-> s, key |-> k, since |-> writes[d],
                                  database |-> d, content |-> database[d]]]
    /\ plaintext' = [plaintext EXCEPT ![s] = Broken]
    /\ shared' = IF \E q \in Backup \ {r} : Active(dump[q]) /\ dump[q].stamp = s
                 THEN shared \cup {s} ELSE shared
    /\ UNCHANGED <<database, writes, archive, manifest, recorded, killed, rehearsal, objectVars>>

\* A run goes on to its next step.
Proceeds(r, from, to) == dump[r].phase = from /\ dump' = [dump EXCEPT ![r].phase = to]

Dumped(r) ==
    /\ Proceeds(r, "dumping", "dumped")
    /\ plaintext' = [plaintext EXCEPT ![dump[r].stamp] = dump[r].content]
    /\ UNCHANGED <<database, writes, archive, manifest, recorded, shared, killed, rehearsal, objectVars>>

\* The dump is read; another run may have removed or begun to replace it.
ReadDump(r) ==
    LET read == plaintext[dump[r].stamp]
    IN  /\ dump[r].phase = "dumped" /\ read # Absent
        /\ dump' = [dump EXCEPT ![r].phase = "read", ![r].content = read]
        /\ UNCHANGED <<database, writes, plaintext, archive, manifest, recorded, shared, killed, rehearsal, objectVars>>

\* Files are only created, never overwritten (flag wx).
WriteArchive(r) ==
    LET s == dump[r].stamp
    IN  /\ Proceeds(r, "read", "archived") /\ archive[s] = NoFile
        /\ archive' = [archive EXCEPT ![s] = [content |-> dump[r].content, key |-> dump[r].key]]
        /\ UNCHANGED <<database, writes, plaintext, manifest, recorded, shared, killed, rehearsal, objectVars>>

WriteManifest(r) ==
    LET s == dump[r].stamp
    IN  /\ Proceeds(r, "archived", "described") /\ manifest[s] = NoFile
        /\ manifest' = [manifest EXCEPT ![s] = [content |-> dump[r].content, key |-> dump[r].key]]
        /\ UNCHANGED <<database, writes, plaintext, archive, recorded, shared, killed, rehearsal, objectVars>>

\* Mutation: only after success.
RemovesDumpOnSuccess(r) ==
    plaintext' = IF dump[r].phase = "described" THEN [plaintext EXCEPT ![dump[r].stamp] = Absent] ELSE plaintext

\* finally: the dump in the clear goes, also after an error at any step.
RemovesDump(r) == plaintext' = [plaintext EXCEPT ![dump[r].stamp] = Absent]

CleanUp(r) ==
    /\ Proceeds(r, "described", "complete") /\ RemovesDump(r)
    /\ UNCHANGED <<database, writes, archive, manifest, recorded, shared, killed, rehearsal, objectVars>>

FailBackup(r) ==
    /\ dump[r].phase \in {"dumping", "dumped", "read", "archived"}
    /\ RemovesDump(r) /\ dump' = [dump EXCEPT ![r] = Ended]
    /\ UNCHANGED <<database, writes, archive, manifest, recorded, shared, killed, rehearsal, objectVars>>

\* recordRecoveryOperation, with the checksum.
RecordBackup(r) ==
    LET j == dump[r]
    IN  /\ j.phase = "complete" /\ dump' = [dump EXCEPT ![r] = Ended]
        /\ recorded' = recorded \cup {[stamp |-> j.stamp, database |-> j.database, since |-> j.since, until |-> writes[j.database],
                                       checksum |-> [content |-> j.content, key |-> j.key]]}
        /\ UNCHANGED <<database, writes, plaintext, archive, manifest, shared, killed, rehearsal, objectVars>>

KillBackup(r) ==
    /\ Active(dump[r])
    /\ killed' = killed \cup {dump[r].stamp} /\ dump' = [dump EXCEPT ![r] = Ended]
    /\ UNCHANGED <<database, writes, plaintext, archive, manifest, recorded, shared, rehearsal, objectVars>>

-----------------------------------------------------------------------------
(* Rehearsals. *)

\* Of the two addresses, the permission and the typed confirmation.
IsolatedTarget(source, target, allowed, typed) ==
    target \in Rehearsal /\ target # source /\ allowed /\ typed = target

StartRestore(source, target, allowed, typed, s, k) ==
    /\ rehearsal.phase = "none" /\ IsolatedTarget(source, target, allowed, typed)
    /\ archive[s] # NoFile /\ archive[s].key = k
    /\ rehearsal' = [phase |-> "restoring", target |-> target, content |-> archive[s].content]
    /\ database' = [database EXCEPT ![target] = Broken]
    /\ UNCHANGED <<writes, plaintext, archive, manifest, dump, recorded, shared, killed, objectVars>>

\* It ends well, or with an error; what it began stays.
EndRestore(well) ==
    /\ rehearsal.phase = "restoring" /\ (well => rehearsal.content # Broken)
    /\ database' = IF well THEN [database EXCEPT ![rehearsal.target] = rehearsal.content] ELSE database
    /\ rehearsal' = Unstarted
    /\ UNCHANGED <<writes, plaintext, archive, manifest, dump, recorded, shared, killed, objectVars>>

-----------------------------------------------------------------------------
(* The objects. *)

\* The application stores, replaces or deletes an object.
Change(o, version) ==
    /\ puts < MaxPuts /\ version \in {Absent, puts + 1} /\ version # stored[o]
    /\ stored' = [stored EXCEPT ![o] = version] /\ puts' = puts + 1
    \* ghost: what the runs can have seen of it
    /\ round' = [r \in ObjectBackup |->
          IF Active(round[r]) THEN [round[r] EXCEPT !.seen[o] = @ \cup {version}] ELSE round[r]]
    /\ UNCHANGED <<dumpVars, copy, objectRecords>>

StartObjects(r) ==
    /\ round[r].phase = "none"
    /\ round' = [round EXCEPT ![r] =
          [phase |-> "listing", at |-> 1, listed |-> Absent, entries |-> {},
           seen |-> [o \in Object |-> {stored[o]}]]]
    /\ UNCHANGED <<dumpVars, stored, puts, copy, objectRecords>>

\* A page of one object: the listing is in the order of keys, whatever changes.
ListPage(r) ==
    LET o == round[r].at
    IN  /\ round[r].phase = "listing" /\ o \in Object
        /\ round' = [round EXCEPT ![r] =
              IF stored[o] = Absent THEN [@ EXCEPT !.at = o + 1]
              ELSE [@ EXCEPT !.phase = "copying", !.listed = stored[o]]]
        /\ UNCHANGED <<dumpVars, stored, puts, copy, objectRecords>>

\* The store copies the object as it now is, with the size from the listing.
CopyObject(r) ==
    LET o == round[r].at
    IN  /\ round[r].phase = "copying" /\ stored[o] # Absent
        /\ copy' = [copy EXCEPT ![o] = [version |-> stored[o], size |-> SizeOf[round[r].listed], by |-> r]]
        /\ round' = [round EXCEPT ![r].phase = "verifying"]
        /\ UNCHANGED <<dumpVars, stored, puts, objectRecords>>

Verified(r) ==
    LET c == copy[round[r].at]
        size == SizeOf[round[r].listed]
    IN  SizeOf[c.version] = size /\ c.size = size

VerifyCopy(r) ==
    LET o == round[r].at
    IN  /\ round[r].phase = "verifying" /\ Verified(r)
        /\ round' = [round EXCEPT ![r] =
              [@ EXCEPT !.phase = "listing", !.at = o + 1,
                        !.entries = round[r].entries
                               \cup {[object |-> o, size |-> SizeOf[round[r].listed], etag |-> round[r].listed]}]]
        /\ UNCHANGED <<dumpVars, stored, puts, copy, objectRecords>>

RecordObjects(r) ==
    /\ round[r].phase = "listing" /\ round[r].at > LastObject
    /\ objectRecords' = objectRecords \cup {[by |-> r, entries |-> round[r].entries, seen |-> round[r].seen]}
    /\ round' = [round EXCEPT ![r] = Ended]
    /\ UNCHANGED <<dumpVars, stored, puts, copy>>

\* An object is gone or a copy is not as listed, the store fails, or the script
\* is killed: nothing is recorded, and what was copied stays.
EndObjects(r) ==
    /\ Active(round[r]) /\ round' = [round EXCEPT ![r] = Ended]
    /\ UNCHANGED <<dumpVars, stored, puts, copy, objectRecords>>

-----------------------------------------------------------------------------
DumpNext ==
    \/ \E d \in Database : Write(d)
    \/ \E r \in Backup :
          \/ \E d \in Database, s \in Stamp, k \in SecretKey, c, e \in BOOLEAN : StartBackup(r, d, s, k, c, e)
          \/ Dumped(r) \/ ReadDump(r) \/ WriteArchive(r) \/ WriteManifest(r) \/ CleanUp(r)
          \/ FailBackup(r) \/ RecordBackup(r) \/ KillBackup(r)
    \/ \E source, target, typed \in Database, allowed \in BOOLEAN, s \in Stamp, k \in SecretKey :
          StartRestore(source, target, allowed, typed, s, k)
    \/ \E well \in BOOLEAN : EndRestore(well)

ObjectNext ==
    \/ \E o \in Object, version \in {Absent} \cup 1..MaxPuts : Change(o, version)
    \/ \E r \in ObjectBackup : \/ StartObjects(r) \/ ListPage(r) \/ CopyObject(r) \/ VerifyCopy(r)
                               \/ RecordObjects(r) \/ EndObjects(r)

BackupSpec == BackupInit /\ [][DumpNext \/ ObjectNext]_backupVars

-----------------------------------------------------------------------------
(* Safety. *)

Content == {Absent, Broken} \cup 0..MaxWrites
Taken == {Broken} \cup 0..MaxWrites
File == {NoFile} \cup [content : Taken, key : SecretKey]
ObjectVersion == {Absent} \cup 1..MaxPuts

Dump == [phase : {"dumping", "dumped", "read", "archived", "described", "complete"}, stamp : Stamp,
         key : SecretKey, since : 0..MaxWrites, database : Database, content : Taken]
Record == [stamp : Stamp, database : Database, since : 0..MaxWrites, until : 0..MaxWrites,
           checksum : [content : Taken, key : SecretKey]]
Restore == [phase : {"restoring"}, target : Rehearsal, content : Taken]

Size == {SizeOf[v] : v \in 1..MaxPuts}
Copy == [version : ObjectVersion, size : Size \cup {Absent}, by : ObjectBackup \cup {Absent}]
Entry == [object : Object, size : Size, etag : 1..MaxPuts]
Seen == [Object -> SUBSET ObjectVersion]
Round == [phase : {"listing", "copying", "verifying"}, at : 1..(LastObject + 1), listed : ObjectVersion,
          entries : SUBSET Entry, seen : Seen]
ObjectRecord == [by : ObjectBackup, entries : SUBSET Entry, seen : Seen]

\* State keeps its shape: contents are numbers of writes, whole or broken.
DumpTypeOK ==
    /\ database \in [Database -> Taken] /\ writes \in [Database -> 0..MaxWrites]
    /\ plaintext \in [Stamp -> Content] /\ archive \in [Stamp -> File] /\ manifest \in [Stamp -> File]
    /\ dump \in [Backup -> Dump \cup {Unstarted, Ended}] /\ recorded \subseteq Record
    /\ shared \subseteq Stamp /\ killed \subseteq Stamp
    /\ rehearsal \in Restore \cup {Unstarted}

ObjectTypeOK ==
    /\ stored \in [Object -> ObjectVersion] /\ puts \in 1..MaxPuts
    /\ copy \in [Object -> Copy]
    /\ round \in [ObjectBackup -> Round \cup {Unstarted, Ended}] /\ objectRecords \subseteq ObjectRecord

BackupTypeOK == DumpTypeOK /\ ObjectTypeOK

\* A database backup that is recorded can be restored: its archive is there, as
\* described, and holds the application's database as it was during the run,
\* whatever other runs and rehearsals did, if no other run of the same second
\* wrote to the same files.
RecordedIsRestorable ==
    \A b \in recorded :
        /\ archive[b.stamp] = b.checksum /\ manifest[b.stamp] = b.checksum
        /\ b.database \in Served /\ b.stamp \notin shared => b.checksum.content \in b.since..b.until

\* A dump in the clear is on the disk only while a run works with it, unless a
\* run was killed or two shared a name.
ClearTextGoes ==
    \A s \in Stamp \ (killed \cup shared) :
        plaintext[s] # Absent => \E r \in Backup : Active(dump[r]) /\ dump[r].stamp = s

\* An object backup that is recorded has a copy of every object that was there
\* all the time, and of a version it had during the run; and what the manifest says of the size is true
\* of every copy that no other run of that day has replaced.
RecordedIsCovered ==
    \A b \in objectRecords :
        /\ \A o \in Object : Absent \notin b.seen[o] =>
              /\ \E e \in b.entries : e.object = o /\ e.etag \in b.seen[o]
              /\ copy[o].version # Absent /\ (copy[o].by = b.by => copy[o].version \in b.seen[o])
        /\ \A e \in b.entries : copy[e.object].by = b.by
                                    => e.size = SizeOf[copy[e.object].version]

BackupsHold == RecordedIsRestorable /\ ClearTextGoes /\ RecordedIsCovered
=============================================================================
