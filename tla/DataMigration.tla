--------------------------- MODULE DataMigration ---------------------------
(***************************************************************************)
(* The two ways out of one gateway and into another: the export and import *)
(* of the data database (infra.controller.ts, export-data and import-data) *)
(* and of the media files (storage.service.ts).  The actions take the      *)
(* database and the storage that the running process uses; Infrastructure  *)
(* says which those are, and when the process dies in the middle.          *)
(*                                                                         *)
(* A row is a value; its table and, for a webhook, its session are         *)
(* constants.  SQLite has one connection, which the import's transaction   *)
(* shares with everybody; on PostgreSQL it has a connection of its own.    *)
(***************************************************************************)
EXTENDS Naturals, Sequences, FiniteSets

CONSTANTS Rows, Files,
          Table,     \* the table of a row
          Of,        \* the session of a webhook
          First,     \* what the SQLite file holds at the start
          Limit      \* how often each thing may happen, by its name in "used"

Tables == <<"sessions", "webhooks", "messages", "batches">>
Databases == {"sqlite", "postgres"}

ASSUME MigrationAssumption ==
    /\ Table \in [Rows -> {Tables[i] : i \in 1..4}]
    /\ DOMAIN Of = {r \in Rows : Table[r] = "webhooks"}
    /\ \A r \in DOMAIN Of : Of[r] \in Rows /\ Table[Of[r]] = "sessions"
    /\ First \subseteq Rows
    /\ \A r \in First \cap DOMAIN Of : Of[r] \in First    \* the foreign key

VARIABLES
    data,     \* the rows of each database
    made,     \* history: the rows that were ever there; no id is given twice
    export,   \* the export in flight: the tables read and their rows
    backup,   \* the file an export has answered with
    import,   \* the import in flight, or the last one, with the rows that it warns of
    files,    \* the files in each storage
    archive,  \* the archive to import: one from another gateway, or the last export's
    unpack,   \* the import of files in flight, and what this process has imported
    used      \* what is used up of the bounds

migration == <<data, made, export, backup, import, files, archive, unpack>>

\* Each thing has its bound, and all of them together have one.
Use(what) ==
    /\ used[what] < Limit[what] /\ used["all"] < Limit["all"]
    /\ used' = [used EXCEPT ![what] = @ + 1, !["all"] = @ + 1]

NoExport == [next |-> 1, rows |-> {}]
NoImport == [next |-> 0, answer |-> "none", db |-> "sqlite", before |-> {}, from |-> {},
             new |-> {}, warned |-> {}, aborted |-> FALSE, wrote |-> {}]
NoUnpack == [busy |-> FALSE, left |-> {}, put |-> {}, settled |-> TRUE]

MigrationInit ==
    /\ data = [db \in Databases |-> IF db = "sqlite" THEN First ELSE {}]
    /\ made = First
    /\ export = NoExport /\ backup = {} /\ import = NoImport
    /\ files = [place \in {"local", "s3"} |-> {}]
    /\ archive = Files /\ unpack = NoUnpack

In(rows, i) == {r \in rows : Table[r] = Tables[i]}
Importing == import.next # 0

----------------------------------------------------------------------------
(* The database.                                                            *)

\* exportData: four queries, one after the other, and no transaction.
Export(db) ==
    /\ IF export.next = 1 THEN Use("exports") ELSE UNCHANGED used
    /\ LET rows == export.rows \cup In(data[db], export.next)
       IN IF export.next < 4
          THEN export' = [next |-> export.next + 1, rows |-> rows] /\ UNCHANGED backup
          ELSE export' = NoExport /\ backup' = rows
    /\ UNCHANGED <<data, made, import, files, archive, unpack>>

\* The transaction begins and the four tables are cleared.
BeginImport(db) ==
    /\ ~Importing /\ backup # {} /\ Use("imports")
    /\ import' = [NoImport EXCEPT !.next = 1, !.db = db, !.before = data[db], !.from = backup]
    /\ data' = IF db = "sqlite" THEN [data EXCEPT ![db] = {}] ELSE data
    /\ UNCHANGED <<made, export, backup, files, archive, unpack>>

\* Whether the columns that the statement names are those of the table: a message has no
\* "messageId" and "content", a batch no "batchId" (message.entity.ts, message-batch.entity.ts).
Insertable(r) == Table[r] \in {"sessions", "webhooks"}

\* What the statements of the transaction see.
Seen == IF import.db = "sqlite" THEN data["sqlite"] ELSE import.new

\* The rows whose INSERT can succeed: the columns are there, so is a webhook's session, the id
\* is not taken, and no statement before it has failed on PostgreSQL.
Inserted(rows) ==
    {r \in rows : /\ Insertable(r) /\ ~import.aborted /\ r \notin Seen
                  /\ r \in DOMAIN Of => Of[r] \in Seen}

\* The rows of one table.  Some that could be inserted fail for a reason of their own (a name
\* that is taken, a column that is NULL, a database that is busy).  One that fails is a
\* warning and the next one follows; on PostgreSQL every later statement of the transaction
\* fails with it.
ImportTable ==
    /\ import.next \in 1..4
    /\ LET rows == In(import.from, import.next) IN
       \E bad \in SUBSET Inserted(rows) :
          LET ok == Inserted(rows) \ bad
              next == [import EXCEPT !.next = @ + 1, !.warned = @ \cup (rows \ ok)]
          IN /\ IF bad = {} THEN UNCHANGED used ELSE Use("fails")
             /\ IF import.db = "sqlite"
                THEN /\ data' = [data EXCEPT !["sqlite"] = @ \cup ok]
                     /\ import' = next
                ELSE /\ import' = [next EXCEPT !.aborted = @ \/ ok # rows, !.new = @ \cup ok]
                     /\ UNCHANGED data
    /\ UNCHANGED <<made, export, backup, files, archive, unpack>>

\* Mutant: the connection is not released.
EndedUnreleased(answer) == [import EXCEPT !.next = @ + 1, !.answer = answer, !.new = {}]

Ended(answer) == [import EXCEPT !.next = 0, !.answer = answer, !.new = {}]

\* The commit; PostgreSQL makes the commit of a failed transaction a rollback, and says so to
\* nobody who asks.  The answer is "imported" in both cases.
CommitImport ==
    /\ import.next = 5
    /\ data' = IF import.db = "sqlite" \/ import.aborted THEN data
               ELSE [data EXCEPT ![import.db] = (@ \ import.before) \cup import.new]
    /\ import' = Ended("imported")
    /\ UNCHANGED <<made, export, backup, files, archive, unpack, used>>

\* Mutant: the tables are cleared before the transaction begins.
RolledBackLate == IF Importing /\ import.db = "sqlite" THEN [data EXCEPT !["sqlite"] = {}] ELSE data

\* On SQLite this takes back what others have written in the meantime too.
RolledBack ==
    IF Importing /\ import.db = "sqlite" THEN [data EXCEPT !["sqlite"] = import.before] ELSE data

\* Clearing or committing throws: rolled back, and the caller is told.
ImportThrows ==
    /\ import.next \in {1, 5} /\ Use("fails")
    /\ data' = RolledBack
    /\ import' = Ended("failed")
    /\ UNCHANGED <<made, export, backup, files, archive, unpack>>

\* A webhook that was read before the tables were cleared is saved after it: TypeORM inserts
\* what it does not find.
IsSavedAgain(db, r) ==
    Importing /\ db = "sqlite" /\ import.db = db /\ r \in import.before \ data[db] /\ r \in DOMAIN Of

\* Another part of the gateway writes a row: a webhook needs its session.
Write(db, r) ==
    /\ r \notin made \/ IsSavedAgain(db, r)
    /\ r \in DOMAIN Of => /\ Of[r] \in data[db]
                          /\ Importing /\ db = "postgres" => Of[r] \notin import.before
    /\ Use("writes")
    /\ data' = [data EXCEPT ![db] = @ \cup {r}]
    /\ made' = made \cup {r}
    /\ import' = IF import.answer = "none" /\ ~Importing THEN import
                 ELSE [import EXCEPT !.wrote = @ \cup {r}]
    /\ UNCHANGED <<export, backup, files, archive, unpack>>

----------------------------------------------------------------------------
(* The files.                                                               *)

\* createExportStream: what is listed where the process reads now; a file that cannot be read
\* is left out.
ExportFiles(place) ==
    /\ Use("archives")
    /\ \/ archive' = files[place]
       \/ \E f \in files[place] : archive' = files[place] \ {f}
    /\ UNCHANGED <<data, made, export, backup, import, files, unpack>>

\* importFromStream begins.
OpenArchive(settled) ==
    /\ ~unpack.busy /\ archive # {} /\ Use("unpacks")
    /\ unpack' = [unpack EXCEPT !.busy = TRUE, !.left = archive,
                                !.settled = @ /\ settled]
    /\ UNCHANGED <<data, made, export, backup, import, files, archive>>

\* The next file of the archive is put where the process writes now; when that fails the next
\* one follows, and the count is lower.
PutFile(place) ==
    /\ unpack.busy
    /\ LET f == CHOOSE f \in unpack.left : TRUE IN
          \/ /\ files' = [files EXCEPT ![place] = @ \cup {f}]
             /\ unpack' = [unpack EXCEPT !.left = @ \ {f}, !.put = @ \cup {f},
                                         !.busy = unpack.left # {f}]
             /\ UNCHANGED used
          \/ /\ Use("fails")
             /\ unpack' = [unpack EXCEPT !.left = @ \ {f}, !.busy = unpack.left # {f}]
             /\ UNCHANGED files
    /\ UNCHANGED <<data, made, export, backup, import, archive>>

\* The process is gone: an export ends without a file, a transaction is rolled back.
Interrupted ==
    /\ data' = RolledBack
    /\ import' = IF Importing THEN Ended("failed") ELSE import
    /\ export' = NoExport /\ unpack' = NoUnpack
    /\ UNCHANGED <<made, backup, files, archive>>

----------------------------------------------------------------------------

MigrationTypeOK ==
    /\ data \in [Databases -> SUBSET Rows] /\ made \subseteq Rows
    /\ export.next \in 1..4 /\ export.rows \subseteq Rows /\ backup \subseteq Rows
    /\ import.next \in 0..5 /\ import.answer \in {"none", "imported", "failed"}
    /\ import.before \cup import.from \cup import.new \subseteq Rows
    /\ import.warned \cup import.wrote \subseteq Rows
    /\ files \in [{"local", "s3"} -> SUBSET Files]
    /\ archive \subseteq Files /\ unpack.left \cup unpack.put \subseteq Files

Core(rows) == In(rows, 1) \cup In(rows, 2)

\* An import tells what has become of the rows, whatever fails, crashes or is written on the
\* same connection meanwhile: when it did not answer, all the sessions and webhooks of before are
\* there and nothing else; when it answered, those of the backup but the rows it warns of, or
\* those of before, and then it warns.  Apart from what others wrote.
ImportTells ==
    ~Importing /\ import.answer # "none" =>
        LET Left(rows) == Core(rows) \ import.wrote
            now == Left(data[import.db])
        IN \/ now = Left(import.before) /\ (import.answer = "imported" => import.warned # {})
           \/ now = Left(import.from \ import.warned) /\ import.answer = "imported"

\* "replaces existing data" (import-data): the sessions and webhooks that are left are all the
\* old ones or all those of the backup.  Not so on SQLite: one that fails is only a warning.
ImportIsWhole ==
    ~Importing /\ import.answer # "none" =>
        LET Left(rows) == Core(rows) \ import.wrote
        IN Left(data[import.db]) \in {Left(import.before), Left(import.from)}

\* "Data DB (Pluggable): Sessions, webhooks, messages - this is what gets migrated"
\* (docs/14-migration-guide.md): when an import has answered, the rows of the backup are there.
\* Not so: the statement for messages names columns that the table has not.
ImportKeeps ==
    ~Importing /\ import.answer = "imported" =>
        {r \in import.from : Table[r] = "messages"} \subseteq data[import.db]
=============================================================================
