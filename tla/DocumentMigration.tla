------------------------- MODULE DocumentMigration -------------------------
(***************************************************************************)
(* migrateDocuments copies the documents of a tenant from the files of a   *)
(* development machine (LocalDocumentMetadataRepository, which keeps all   *)
(* rows in one metadata.json or, before its first write, in the older      *)
(* documents.json, and LocalDocumentStorage) to PostgreSQL and S3.  It may *)
(* crash and be run again, while both sides go on being used.              *)
(*                                                                         *)
(* Contents are "none", a version, or "torn", a file being written: local  *)
(* storage writes in place, S3 does not.  Of a status we keep whether the  *)
(* document is waiting for its processing, completed or deleted.           *)
(***************************************************************************)
EXTENDS Integers, Sequences

CONSTANTS Paper,        \* documents
          OldPaper,     \* those that documents.json lists
          OldStatus,    \* old document |-> the status it has there
          Writer,       \* local requests and workers
          MaxEdits,     \* bound on the operations on both sides
          MaxRuns       \* bound on the runs of the migration

ASSUME MigrationAssumption ==
    /\ OldPaper \subseteq Paper /\ MaxEdits \in Nat /\ MaxRuns \in Nat

VARIABLES
    sheet,     \* metadata.json: whether it exists, and its rows
    box,       \* item |-> content of the local file
    writer,    \* writer |-> its operation
    issued,    \* the ids given to documents so far (random UUIDs)
    register,  \* document |-> its row in PostgreSQL
    bucket,    \* item |-> content of the S3 object
    purge,     \* the cleanup at the target: the items it has still to delete
    edits,
    mig,       \* the run of the migration
    runs,
    quiet      \* ghost: neither side was changed by others since the run began

sourceVars == <<sheet, box, writer, issued>>
targetVars == <<register, bucket, purge>>
migrationVars == <<sourceVars, targetVars, edits, mig, runs, quiet>>

Item == {"original", "text", "chunks"} \X Paper \cup {<<"history">>}
Original(p) == <<"original", p>>
Derived(p) == <<<<"text", p>>, <<"chunks", p>>>>
ItemsOf(p) == <<Original(p), <<"text", p>>, <<"chunks", p>>>>
Version == {"v1", "v2"}

NoRow == [status |-> "NONE", deleted |-> FALSE, checksum |-> "none"]
Shown(r) == r # NoRow /\ ~ r.deleted

\* normalizeLegacyDocument: old statuses are translated, a row with a deletion
\* date is deleted, and a missing checksum is UNVERIFIED_DOCUMENT_CHECKSUM.
Normalized(old) ==
    [status |-> CASE old \in {"WAITING", "COMPLETED", "DELETED"} -> old
                  [] old \in {"PROCESSED", "Obrabotan"} -> "COMPLETED"
                  [] OTHER -> "WAITING",
     deleted |-> old = "DELETED",
     checksum |-> "unverified"]

\* What read returns: the rows of metadata.json or, without it, the old ones.
Loaded ==
    IF sheet.exists THEN sheet.rows
    ELSE [p \in Paper |-> IF p \in OldPaper THEN Normalized(OldStatus[p]) ELSE NoRow]

\* validateDocumentMetadata.
ValidRow(r) == (r.status = "DELETED") <=> r.deleted

NoWriter == [stage |-> "idle", op |-> "none", paper |-> <<>>, items |-> <<>>,
             copy |-> [p \in Paper |-> NoRow]]
NoMigration == [phase |-> "idle", dry |-> FALSE, listed |-> [p \in Paper |-> NoRow], todo |-> {},
                paper |-> {}, items |-> <<>>, data |-> "none", sum |-> "none",
                existing |-> FALSE, failed |-> {}]

MigrationInit ==
    /\ sheet = [exists |-> FALSE, rows |-> [p \in Paper |-> NoRow]]
    /\ box = [i \in Item |-> IF \E p \in OldPaper : i = Original(p) THEN "v1" ELSE "none"]
    /\ writer = [w \in Writer |-> NoWriter] /\ issued = OldPaper
    /\ register = [p \in Paper |-> NoRow] /\ bucket = [i \in Item |-> "none"] /\ purge = <<>>
    /\ edits = 0 /\ mig = NoMigration /\ runs = 0 /\ quiet = TRUE

-----------------------------------------------------------------------------
(* The application on the local files.  There is no lock. *)

Local == UNCHANGED <<targetVars, mig, runs>> /\ quiet' = FALSE
Begun == edits < MaxEdits /\ edits' = edits + 1

\* An upload writes the original first and creates the row then; text, chunks
\* and history are rewritten in place.
BeginSave(w, i, op, p) ==
    /\ writer[w].stage = "idle" /\ Begun
    /\ box' = [box EXCEPT ![i] = "torn"]
    /\ writer' = [writer EXCEPT ![w] = [NoWriter EXCEPT !.stage = "saving", !.op = op,
                                         !.paper = <<p>>, !.items = <<i>>]]
    /\ UNCHANGED sheet /\ Local

Upload(w, p) ==
    /\ p \notin issued /\ issued' = issued \cup {p}
    /\ BeginSave(w, Original(p), "create", p)

SaveDerived(w, p) ==
    /\ Shown(Loaded[p]) /\ UNCHANGED issued
    /\ \E k \in DOMAIN Derived(p) : BeginSave(w, Derived(p)[k], "save", p)

KeepHistory(w) == UNCHANGED issued /\ \E p \in Paper : BeginSave(w, <<"history">>, "save", p)

\* The files are written, or gone; the repository is called for the row.
Calling(task) == [task EXCEPT !.stage = "calling"]

FinishSave(w, v) ==
    /\ writer[w].stage = "saving"
    /\ writer[w].op = "create" => v = "v1"
    /\ box' = [box EXCEPT ![Head(writer[w].items)] = v]
    /\ writer' = [writer EXCEPT ![w] = IF writer[w].op = "create" THEN Calling(writer[w]) ELSE NoWriter]
    /\ UNCHANGED <<sheet, issued, edits>> /\ Local

\* Reprocessing deletes text and chunks; cleanup all files, and then the row.
BeginRemoval(w, p, op) ==
    /\ writer[w].stage = "idle" /\ Begun
    /\ \/ op = "reprocess" /\ Shown(Loaded[p])
       \/ op = "purge" /\ Loaded[p].deleted
    /\ writer' = [writer EXCEPT ![w] = [NoWriter EXCEPT !.stage = "removing", !.op = op, !.paper = <<p>>,
                                         !.items = IF op = "purge" THEN ItemsOf(p) ELSE Derived(p)]]
    /\ UNCHANGED <<sheet, box, issued>> /\ Local

RemoveItem(w) ==
    /\ writer[w].stage = "removing"
    /\ LET i == Head(writer[w].items)
           rest == Tail(writer[w].items)
       IN  /\ box' = [box EXCEPT ![i] = "none"]
           /\ writer' = [writer EXCEPT ![w] =
                  IF rest # <<>> THEN [writer[w] EXCEPT !.items = rest]
                  ELSE IF writer[w].op = "purge" THEN Calling(writer[w]) ELSE NoWriter]
    /\ UNCHANGED <<sheet, issued, edits>> /\ Local

CallRepository(w, op, p) ==
    /\ writer[w].stage = "idle" /\ Begun
    /\ writer' = [writer EXCEPT ![w] = [NoWriter EXCEPT !.stage = "calling", !.op = op, !.paper = <<p>>]]
    /\ UNCHANGED <<sheet, box, issued>> /\ Local

\* Every operation reads all rows first; the application stores the old rows it
\* has read as the new file.
ReadSheet(w) ==
    /\ writer[w].stage = "calling"
    /\ writer' = [writer EXCEPT ![w].copy = Loaded,
                                ![w].stage = IF sheet.exists \/ OldPaper = {} THEN "loaded" ELSE "persisting"]
    /\ UNCHANGED <<sheet, box, issued, edits>> /\ Local

Persist(w) ==
    /\ writer[w].stage = "persisting"
    /\ sheet' = [exists |-> TRUE, rows |-> writer[w].copy]
    /\ writer' = [writer EXCEPT ![w].stage = "loaded"]
    /\ UNCHANGED <<box, issued, edits>> /\ Local

\* The row an operation leaves; the row itself if it does not apply.
Changed(op, r) ==
    CASE op = "create" /\ r = NoRow -> [status |-> "WAITING", deleted |-> FALSE, checksum |-> "v1"]
      [] op = "complete" /\ Shown(r) /\ r.status = "WAITING" -> [r EXCEPT !.status = "COMPLETED"]
      [] op = "reopen" /\ Shown(r) /\ r.status = "COMPLETED" -> [r EXCEPT !.status = "WAITING"]
      [] op = "delete" /\ Shown(r) -> [r EXCEPT !.status = "DELETED", !.deleted = TRUE]
      [] op = "purge" /\ r.deleted -> NoRow
      [] OTHER -> r

\* All rows are written back: what others have written since is lost.
WriteSheet(w) ==
    /\ writer[w].stage = "loaded"
    /\ LET p == writer[w].paper[1]
           r == Changed(writer[w].op, writer[w].copy[p])
       IN  sheet' = IF r # writer[w].copy[p] /\ (r = NoRow \/ ValidRow(r))
                    THEN [exists |-> TRUE, rows |-> [writer[w].copy EXCEPT ![p] = r]] ELSE sheet
    /\ writer' = [writer EXCEPT ![w] = NoWriter]
    /\ UNCHANGED <<box, issued, edits>> /\ Local

WriterDies(w) ==
    /\ writer[w].stage # "idle" /\ writer' = [writer EXCEPT ![w] = NoWriter]
    /\ UNCHANGED <<sheet, box, issued, edits>> /\ Local

-----------------------------------------------------------------------------
(* The application at the target, once documents have arrived; one cleanup *)
(* at a time.                                                              *)

Remote == UNCHANGED <<sourceVars, mig, runs>> /\ quiet' = FALSE

TargetDelete(p) ==
    /\ Shown(register[p]) /\ Begun
    /\ register' = [register EXCEPT ![p] = Changed("delete", @)]
    /\ UNCHANGED <<bucket, purge>> /\ Remote

TargetSave(p, k, v) ==
    /\ Shown(register[p]) /\ Begun
    /\ bucket' = [bucket EXCEPT ![Derived(p)[k]] = v]
    /\ UNCHANGED <<register, purge>> /\ Remote

BeginPurge(p) ==
    /\ purge = <<>> /\ register[p].deleted /\ Begun
    /\ purge' = ItemsOf(p)
    /\ UNCHANGED <<register, bucket>> /\ Remote

PurgeObject ==
    /\ purge # <<>>
    /\ bucket' = [bucket EXCEPT ![Head(purge)] = "none"]
    /\ purge' = Tail(purge)
    /\ register' = IF Len(purge) > 1 THEN register ELSE [register EXCEPT ![Head(purge)[2]] = NoRow]
    /\ UNCHANGED edits /\ Remote

\* A call to the storage fails: the row stays, and the cleanup can be repeated.
PurgeStops ==
    /\ purge # <<>> /\ purge' = <<>>
    /\ UNCHANGED <<register, bucket, edits>> /\ Remote

-----------------------------------------------------------------------------
(* The migration: one process, which reads its source without storing the   *)
(* old rows as new ones (persistLegacyOnRead: false).                       *)

Migrating == UNCHANGED <<sourceVars, purge, edits, runs, quiet>>

StartMigration(dry) ==
    /\ mig.phase \in {"idle", "ended"} /\ runs < MaxRuns
    /\ runs' = runs + 1 /\ quiet' = TRUE
    /\ mig' = [NoMigration EXCEPT !.phase = "next", !.dry = dry, !.listed = Loaded,
                                  !.todo = {p \in Paper : Shown(Loaded[p])}]
    /\ UNCHANGED <<sourceVars, targetVars, edits>>

NextPaper(p) ==
    /\ mig.phase = "next" /\ p \in mig.todo
    /\ mig' = [mig EXCEPT !.phase = "read", !.paper = {p}, !.todo = @ \ {p},
                          !.items = ItemsOf(p), !.existing = FALSE]
    /\ UNCHANGED <<register, bucket>> /\ Migrating

CopyHistory ==
    /\ mig.phase = "next" /\ mig.todo = {}
    /\ mig' = [mig EXCEPT !.phase = "read", !.paper = {}, !.items = <<<<"history">>>>]
    /\ UNCHANGED <<register, bucket>> /\ Migrating

\* The document, or the history, is reported as failed and the next one begun.
Failed == [mig EXCEPT !.phase = IF mig.paper = {} THEN "ended" ELSE "next",
                      !.failed = @ \cup {mig.paper}]

\* The item is dealt with; after the last one the row is created.
Dealt ==
    IF Len(mig.items) > 1 THEN [mig EXCEPT !.phase = "read", !.items = Tail(@)]
    ELSE [mig EXCEPT !.phase = IF mig.paper = {} THEN "ended" ELSE "create"]

ReadItem ==
    /\ mig.phase = "read"
    /\ LET i == Head(mig.items)
       IN  mig' = IF box[i] = "none" THEN IF i[1] = "original" THEN Failed ELSE Dealt
                  ELSE [mig EXCEPT !.data = box[i],
                                   !.phase = IF i[1] = "original" THEN "find" ELSE "compare"]
    /\ UNCHANGED <<register, bucket>> /\ Migrating

\* findById and findDeletedById: a row that exists must have this original.
FindRow ==
    /\ mig.phase = "find"
    /\ \E p \in mig.paper :
          mig' = IF register[p] # NoRow /\ register[p].checksum # mig.data THEN Failed
                 ELSE [mig EXCEPT !.phase = "compare", !.existing = register[p] # NoRow, !.sum = mig.data]
    /\ UNCHANGED <<register, bucket>> /\ Migrating

\* Mutation: whatever is there is taken for a copy.
SameWhateverItIs(content) == TRUE

\* read with expectedChecksum throws if there is another content.
Same(content) == content = mig.data

CompareItem ==
    /\ mig.phase = "compare"
    /\ LET there == bucket[Head(mig.items)]
       IN  mig' = IF there = "none" THEN IF mig.dry THEN Dealt ELSE [mig EXCEPT !.phase = "write"]
                  ELSE IF Same(there) THEN Dealt ELSE Failed
    /\ UNCHANGED <<register, bucket>> /\ Migrating

WriteItem ==
    /\ mig.phase = "write"
    /\ bucket' = [bucket EXCEPT ![Head(mig.items)] = mig.data]
    /\ mig' = [mig EXCEPT !.phase = "verify"]
    /\ UNCHANGED register /\ Migrating

VerifyItem ==
    /\ mig.phase = "verify"
    /\ mig' = IF bucket[Head(mig.items)] = mig.data THEN Dealt ELSE Failed
    /\ UNCHANGED <<register, bucket>> /\ Migrating

\* The row as it was listed, with the checksum of what was copied.
MigratedRow(p) == [mig.listed[p] EXCEPT !.checksum = mig.sum]

CreateTargetRow ==
    /\ mig.phase = "create"
    /\ \E p \in mig.paper :
          IF mig.existing \/ mig.dry THEN mig' = [mig EXCEPT !.phase = "next"] /\ UNCHANGED register
          ELSE IF register[p] = NoRow /\ ValidRow(MigratedRow(p))
               THEN /\ register' = [register EXCEPT ![p] = MigratedRow(p)]
                    /\ mig' = [mig EXCEPT !.phase = "next"]
               ELSE mig' = Failed /\ UNCHANGED register
    /\ UNCHANGED bucket /\ Migrating

\* A call fails, or the process is killed.
MigrationFault ==
    /\ mig.phase \notin {"idle", "next", "ended"} /\ mig' = Failed
    /\ UNCHANGED <<register, bucket>> /\ Migrating

MigrationCrash ==
    /\ mig.phase \notin {"idle", "ended"} /\ mig' = NoMigration
    /\ UNCHANGED <<register, bucket>> /\ Migrating

-----------------------------------------------------------------------------
SourceNext ==
    \E w \in Writer :
       \/ \E p \in Paper :
             \/ Upload(w, p) \/ SaveDerived(w, p)
             \/ \E op \in {"complete", "reopen", "delete"} : CallRepository(w, op, p)
             \/ \E op \in {"reprocess", "purge"} : BeginRemoval(w, p, op)
       \/ KeepHistory(w) \/ (\E v \in Version : FinishSave(w, v))
       \/ RemoveItem(w) \/ ReadSheet(w) \/ Persist(w) \/ WriteSheet(w) \/ WriterDies(w)

TargetNext ==
    \/ \E p \in Paper : TargetDelete(p) \/ BeginPurge(p)
    \/ \E p \in Paper, k \in 1..2, v \in Version \cup {"none"} : TargetSave(p, k, v)
    \/ PurgeObject \/ PurgeStops

RunNext ==
    \/ \E dry \in BOOLEAN : StartMigration(dry)
    \/ (\E p \in Paper : NextPaper(p)) \/ CopyHistory
    \/ ReadItem \/ FindRow \/ CompareItem \/ WriteItem \/ VerifyItem \/ CreateTargetRow
    \/ MigrationFault \/ MigrationCrash

MigrationNext == SourceNext \/ TargetNext \/ RunNext

MigrationSpec == MigrationInit /\ [][MigrationNext]_migrationVars

-----------------------------------------------------------------------------
(* Type invariant. *)

\* Files and objects have contents, objects at the target and rows in both
\* places are well formed, and a run keeps to the documents it has listed.
MigrationTypeOK ==
    /\ box \in [Item -> Version \cup {"none", "torn"}] /\ bucket \in [Item -> Version \cup {"none", "torn"}]
    /\ \A p \in Paper : ValidRow(register[p]) /\ ValidRow(sheet.rows[p])
    /\ mig.todo \cup mig.paper \subseteq {p \in Paper : Shown(mig.listed[p])}

-----------------------------------------------------------------------------
(* Safety. *)

\* docs/tasks/TASK-002.md:148 "migration поддерживает dry-run, повторный запуск":
\* however runs, crashes and the use of both sides overlap, a visible row at the
\* target has its whole original with the checksum the row names; and a run that
\* reports no failure, and was not disturbed, has left every document with a row
\* and its original, and every file that there is with the same content, also if
\* earlier runs were cut off or saw older files.
MigrationIsFaithful ==
    /\ \A p \in Paper :
          Shown(register[p]) => bucket[Original(p)] = "v1" /\ register[p].checksum = "v1"
    /\ mig.phase = "ended" /\ ~ mig.dry /\ mig.failed = {} /\ quiet =>
          /\ \A p \in Paper : Shown(Loaded[p]) => register[p] # NoRow
          /\ \A i \in Item : box[i] # "none" /\ (i[1] # "history" => Shown(Loaded[i[2]]))
                                => bucket[i] = box[i]

\* What a reader might expect, and it does not do; no run checks it.  A second
\* run does not know of documents that were purged after the first one, and
\* creates their rows again.
CreatesOnlyNew ==
    [][\A p \in Paper : register[p] = NoRow /\ register'[p] # NoRow => runs = 1]_migrationVars

\* Rows that are at the target are not brought up to date by another run, and a
\* document that was waiting when it was copied has no job at the target.
RowsAreCurrent ==
    mig.phase = "ended" /\ ~ mig.dry /\ mig.failed = {} /\ quiet =>
        \A p \in Paper : Shown(Loaded[p]) => register[p].status = Loaded[p].status
=============================================================================
