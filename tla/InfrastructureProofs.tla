------------------------ MODULE InfrastructureProofs ------------------------
(* What TLAPS proves of Infrastructure and DataMigration, for any rows,      *)
(* files, bounds and deployments: an import tells what it leaves, an imported *)
(* file is found, and a boot after an orchestration finds its database.      *)
EXTENDS Infrastructure, TLAPS

-----------------------------------------------------------------------------
(* The invariant. *)

Imports == [next : 0..5, answer : {"none", "imported", "failed"}, db : Databases,
            before : SUBSET Rows, from : SUBSET Rows, new : SUBSET Rows,
            warned : SUBSET Rows, aborted : BOOLEAN, wrote : SUBSET Rows]
Unpacks == [busy : BOOLEAN, left : SUBSET Files, put : SUBSET Files, settled : BOOLEAN]

\* The types of DataMigration's variables; an archive that is open has a next file.
MigrationShape ==
    /\ data \in [Databases -> SUBSET Rows] /\ made \subseteq Rows
    /\ export \in [next : 1..4, rows : SUBSET Rows] /\ backup \subseteq Rows
    /\ import \in Imports
    /\ files \in [{"local", "s3"} -> SUBSET Files] /\ archive \subseteq Files
    /\ unpack \in Unpacks /\ (unpack.busy => unpack.left # {})

Gates == [at : {"down", "connecting", "starting", "up", "closing"}, with : Configs,
          docker : BOOLEAN, s3 : {"local", "checking", "available"}, timer : BOOLEAN]
JobRecords == [for : {"none", "restart", "boot"}, remove : Seq(Services), start : Seq(Services)]
Pages == [at : {"loading", "editing", "modal", "waiting"}, form : Configs, seen : Configs,
          previous : SUBSET Services, pending : SUBSET Services]

\* The types of Infrastructure's own variables.
ProcessShape ==
    /\ env \in [config : Configs, request : BOOLEAN]
    /\ box \in [Services -> {"none", "stopped", "running"}]
    /\ gate \in Gates /\ job \in [Lanes -> JobRecords] /\ page \in Pages /\ asked \subseteq Configs

\* The rows of the backup whose table has been gone through.
Past == {r \in import.from : \E i \in 1..4 : i < import.next /\ Table[r] = Tables[i]}

\* Apart from what others wrote, the table on SQLite holds what was gone through and not warned
\* of...
InsertedSoFar == data["sqlite"] \ import.wrote = (Past \ import.warned) \ import.wrote

\* ... and on PostgreSQL the transaction has it, and the table holds the old rows.
HeldBack ==
    /\ data["postgres"] \ import.wrote = import.before \ import.wrote
    /\ import.new = Past \ import.warned
    /\ import.aborted => import.warned # {}

RowsInv ==
    /\ ImportTells
    /\ Importing => /\ import.warned \subseteq Past
                    /\ IF import.db = "sqlite" THEN InsertedSoFar ELSE HeldBack

\* A file of a settled import was put where the process has read ever since.
FilesInv ==
    /\ gate.at = "down" => unpack = NoUnpack
    /\ unpack.settled /\ (unpack.busy \/ unpack.put # {}) => gate.s3 # "checking"
    /\ FilesAreFound

Listed(list) == {list[i] : i \in DOMAIN list}

\* Until the shutdown a restart was asked for, the orchestration has the database still to start.
IsToStart(s) == /\ gate.at = "up" /\ ~gate.timer
                /\ job[1].for = "restart" /\ s \in Listed(job[1].start)

\* The built-in database of a config that a restart was asked for runs or will be started.
BootInv ==
    /\ page.at = "modal" => page.pending = Wanted(env.config)
    /\ asked # {} => job[2] = NoJob
    /\ \A config \in asked : "postgres" \in Wanted(config) =>
          /\ "postgres" \notin Listed(job[1].remove)
          /\ box["postgres"] = "running" \/ IsToStart("postgres")

IInv == MigrationShape /\ ProcessShape /\ RowsInv /\ FilesInv /\ BootInv

-----------------------------------------------------------------------------
(* The rows. *)

LEMMA TableOf == \A r \in Rows : Table[r] \in {Tables[i] : i \in 1..4}
    BY MigrationAssumption

\* Rows that are the same but for what others wrote.
LEMMA SameCore ==
    ASSUME NEW rows, NEW others, rows \ import.wrote = others \ import.wrote
    PROVE  Core(rows) \ import.wrote = Core(others) \ import.wrote
    BY DEF Core, In

\* What an action that ends an import leaves of it.
LEMMA EndedIs ==
    ASSUME MigrationShape, NEW answer \in {"imported", "failed"}
    PROVE  /\ Ended(answer) \in Imports
           /\ Ended(answer).next = 0 /\ Ended(answer).answer = answer /\ Ended(answer).new = {}
           /\ Ended(answer).db = import.db /\ Ended(answer).before = import.before
           /\ Ended(answer).from = import.from /\ Ended(answer).wrote = import.wrote
           /\ Ended(answer).warned = import.warned
<1> DEFINE a == [import EXCEPT !.next = 0]
           b == [a EXCEPT !.answer = answer]
           c == [b EXCEPT !.new = {}]
<1>1. a = [next |-> 0, answer |-> import.answer, db |-> import.db, before |-> import.before,
           from |-> import.from, new |-> import.new, warned |-> import.warned,
           aborted |-> import.aborted, wrote |-> import.wrote]
    BY DEF MigrationShape, Imports
<1> HIDE DEF a
<1>2. b = [next |-> 0, answer |-> answer, db |-> import.db, before |-> import.before,
           from |-> import.from, new |-> import.new, warned |-> import.warned,
           aborted |-> import.aborted, wrote |-> import.wrote]
    BY <1>1
<1> HIDE DEF b
<1>3. c = [next |-> 0, answer |-> answer, db |-> import.db, before |-> import.before,
           from |-> import.from, new |-> {}, warned |-> import.warned,
           aborted |-> import.aborted, wrote |-> import.wrote]
    BY <1>2
<1>4. Ended(answer) = c
    BY DEF Ended, a, b, c
<1> HIDE DEF c
<1> QED
    BY <1>3, <1>4 DEF MigrationShape, Imports

\* The rows of a step that leaves them alone.
RowVars == <<data, made, export, backup, import>>

LEMMA RowsSame ==
    ASSUME RowsInv, UNCHANGED RowVars PROVE RowsInv'
    BY DEF RowsInv, RowVars, ImportTells, Importing, InsertedSoFar, HeldBack, Past, Core, In

LEMMA ShapeExport ==
    ASSUME MigrationShape, NEW db \in Databases, Export(db) PROVE MigrationShape'
<1>1. CASE export.next < 4
    BY <1>1 DEF Export, MigrationShape, In
<1>2. CASE ~(export.next < 4)
    BY <1>2 DEF Export, MigrationShape, In, NoExport
<1> QED
    BY <1>1, <1>2

LEMMA ShapeBeginImport ==
    ASSUME MigrationShape, NEW db \in Databases, BeginImport(db) PROVE MigrationShape'
<1>1. import' = [next |-> 1, answer |-> "none", db |-> db, before |-> data[db], from |-> backup,
                 new |-> {}, warned |-> {}, aborted |-> FALSE, wrote |-> {}]
    BY DEF BeginImport, NoImport
<1>2. import' \in Imports
    BY <1>1 DEF MigrationShape, Imports
<1>3. data' \in [Databases -> SUBSET Rows]
    BY DEF BeginImport, MigrationShape
<1> QED
    BY <1>2, <1>3 DEF BeginImport, MigrationShape

\* The rows of one table go in, into the table or into what the transaction sees, and those
\* that do not are warned of.
LEMMA ImportTableEffect ==
    ASSUME MigrationShape, ImportTable
    PROVE  LET rows == In(import.from, import.next) IN
           \E ok \in SUBSET rows :
              /\ import.next \in 1..4
              /\ import' \in Imports /\ import'.next = import.next + 1
              /\ import'.answer = import.answer /\ import'.db = import.db
              /\ import'.before = import.before /\ import'.from = import.from
              /\ import'.wrote = import.wrote /\ import'.warned = import.warned \cup (rows \ ok)
              /\ data' \in [Databases -> SUBSET Rows] /\ data'["postgres"] = data["postgres"]
              /\ UNCHANGED <<made, export, backup, files, archive, unpack>>
              /\ import.db = "sqlite" => data'["sqlite"] = data["sqlite"] \cup ok
              /\ import.db # "sqlite" =>
                    /\ import'.new = import.new \cup ok
                    /\ import'.aborted => import.aborted \/ ok # rows
<1> DEFINE rows == In(import.from, import.next)
           n == import.next + 1
<1>1. PICK bad \in SUBSET Inserted(rows) :
          LET ok == Inserted(rows) \ bad
              next == [import EXCEPT !.next = @ + 1, !.warned = @ \cup (rows \ ok)]
          IN IF import.db = "sqlite"
             THEN /\ data' = [data EXCEPT !["sqlite"] = @ \cup ok]
                  /\ import' = next
             ELSE /\ import' = [next EXCEPT !.aborted = @ \/ ok # rows, !.new = @ \cup ok]
                  /\ UNCHANGED data
    BY DEF ImportTable
<1> DEFINE ok == Inserted(rows) \ bad
           warned == import.warned \cup (rows \ ok)
           more == import.new \cup ok
           dead == import.aborted \/ ok # rows
           a == [import EXCEPT !.next = n]
           b == [a EXCEPT !.warned = warned]
<1>2. import.next \in 1..4 /\ n \in 0..5 /\ dead \in BOOLEAN
    BY DEF ImportTable, MigrationShape, Imports
<1>3. /\ ok \subseteq rows /\ rows \subseteq Rows /\ warned \subseteq Rows /\ more \subseteq Rows
    BY DEF MigrationShape, Imports, In, Inserted
<1>4. UNCHANGED <<made, export, backup, files, archive, unpack>>
    BY DEF ImportTable
<1>5. \/ /\ import.db = "sqlite"
         /\ data' = [data EXCEPT !["sqlite"] = @ \cup ok] /\ import' = b
      \/ /\ import.db # "sqlite" /\ data' = data
         /\ import' = [[b EXCEPT !.aborted = dead] EXCEPT !.new = more]
    BY <1>1
<1> HIDE DEF n, warned, more, dead
<1>6. a = [next |-> n, answer |-> import.answer, db |-> import.db, before |-> import.before,
           from |-> import.from, new |-> import.new, warned |-> import.warned,
           aborted |-> import.aborted, wrote |-> import.wrote]
    BY DEF MigrationShape, Imports
<1> HIDE DEF a
<1>7. b = [next |-> n, answer |-> import.answer, db |-> import.db, before |-> import.before,
           from |-> import.from, new |-> import.new, warned |-> warned,
           aborted |-> import.aborted, wrote |-> import.wrote]
    BY <1>6
<1> HIDE DEF b, ok, rows
<1>8. CASE import.db = "sqlite"
    <2>1. data' = [data EXCEPT !["sqlite"] = @ \cup ok] /\ import' = b
        BY <1>5, <1>8
    <2>2. import' \in Imports
        BY <1>2, <1>3, <1>7, <2>1 DEF MigrationShape, Imports
    <2>3. /\ import'.next = n /\ import'.answer = import.answer /\ import'.db = import.db
          /\ import'.before = import.before /\ import'.from = import.from
          /\ import'.wrote = import.wrote /\ import'.warned = warned
        BY <1>7, <2>1
    <2>4. /\ data' \in [Databases -> SUBSET Rows] /\ data'["postgres"] = data["postgres"]
          /\ data'["sqlite"] = data["sqlite"] \cup ok
        BY <1>3, <2>1 DEF MigrationShape, Databases
    <2> QED
        BY <1>2, <1>3, <1>4, <1>8, <2>2, <2>3, <2>4 DEF n, warned, rows
<1>9. CASE import.db # "sqlite"
    <2> DEFINE c == [b EXCEPT !.aborted = dead]
    <2>1. data' = data /\ import' = [c EXCEPT !.new = more]
        BY <1>5, <1>9
    <2>2. c = [next |-> n, answer |-> import.answer, db |-> import.db, before |-> import.before,
               from |-> import.from, new |-> import.new, warned |-> warned,
               aborted |-> dead, wrote |-> import.wrote]
        BY <1>7
    <2> HIDE DEF c
    <2>3. import' = [next |-> n, answer |-> import.answer, db |-> import.db, before |-> import.before,
                     from |-> import.from, new |-> more, warned |-> warned,
                     aborted |-> dead, wrote |-> import.wrote]
        BY <2>1, <2>2
    <2>4. import' \in Imports
        BY <1>2, <1>3, <2>3 DEF MigrationShape, Imports
    <2>5. import'.aborted = dead
        BY <2>3
    <2>6. import'.aborted => import.aborted \/ ok # rows
        BY <2>5 DEF dead
    <2>7. /\ import'.next = n /\ import'.answer = import.answer /\ import'.db = import.db
          /\ import'.before = import.before /\ import'.from = import.from
          /\ import'.wrote = import.wrote /\ import'.warned = warned /\ import'.new = more
        BY <2>3
    <2> HIDE <2>3
    <2> QED
        BY <1>2, <1>3, <1>4, <1>9, <2>1, <2>4, <2>6, <2>7 DEF MigrationShape, n, warned, more, rows
<1> QED
    BY <1>8, <1>9

LEMMA ShapeImportTable ==
    ASSUME MigrationShape, ImportTable PROVE MigrationShape'
    BY ImportTableEffect DEF MigrationShape

LEMMA ShapeEnds ==
    ASSUME MigrationShape, CommitImport \/ ImportThrows \/ Interrupted PROVE MigrationShape'
<1>1. RolledBack \in [Databases -> SUBSET Rows]
    BY DEF RolledBack, MigrationShape, Imports, Databases
<1>2. CASE CommitImport
    BY <1>2, EndedIs DEF CommitImport, MigrationShape, Imports, Databases
<1>3. CASE ImportThrows
    BY <1>1, <1>3, EndedIs DEF ImportThrows, MigrationShape
<1>4. CASE Interrupted
    BY <1>1, <1>4, EndedIs DEF Interrupted, MigrationShape, NoExport, NoUnpack, Unpacks
<1> QED
    BY <1>2, <1>3, <1>4

LEMMA ShapeWrite ==
    ASSUME MigrationShape, NEW db \in Databases, NEW r \in Rows, Write(db, r) PROVE MigrationShape'
    BY DEF Write, MigrationShape, Imports

LEMMA ShapeFiles ==
    ASSUME MigrationShape, NEW place \in {"local", "s3"}, NEW settled \in BOOLEAN,
           ExportFiles(place) \/ OpenArchive(settled) \/ PutFile(place)
    PROVE  MigrationShape' /\ UNCHANGED RowVars
<1>1. CASE ExportFiles(place)
    BY <1>1 DEF ExportFiles, MigrationShape, RowVars
<1>2. CASE OpenArchive(settled)
    BY <1>2 DEF OpenArchive, MigrationShape, RowVars, Unpacks
<1>3. CASE PutFile(place)
    <2> DEFINE f == CHOOSE f \in unpack.left : TRUE
    <2>1. f \in unpack.left /\ unpack.left # {}
        BY <1>3 DEF PutFile, MigrationShape
    <2> HIDE DEF f
    <2>2. /\ \/ files' = [files EXCEPT ![place] = @ \cup {f}]
             \/ files' = files
          /\ \/ unpack' = [unpack EXCEPT !.left = @ \ {f}, !.put = @ \cup {f},
                                         !.busy = unpack.left # {f}]
             \/ unpack' = [unpack EXCEPT !.left = @ \ {f}, !.busy = unpack.left # {f}]
          /\ UNCHANGED <<data, made, export, backup, import, archive>>
        BY <1>3 DEF PutFile, f
    <2>3. files' \in [{"local", "s3"} -> SUBSET Files]
        BY <2>1, <2>2 DEF MigrationShape, Unpacks
    <2>4. unpack' \in Unpacks /\ (unpack'.busy => unpack'.left # {})
        <3> DEFINE left == unpack.left \ {f}
                   more == unpack.left # {f}
                   put == unpack.put \cup {f}
                   a == [unpack EXCEPT !.left = left]
                   b == [a EXCEPT !.put = put]
        <3>1. left \subseteq Files /\ put \subseteq Files /\ more \in BOOLEAN /\ (more => left # {})
            BY <2>1 DEF MigrationShape, Unpacks
        <3>2. unpack' = [b EXCEPT !.busy = more] \/ unpack' = [a EXCEPT !.busy = more]
            BY <2>2
        <3> HIDE DEF left, more, put
        <3>3. a = [busy |-> unpack.busy, left |-> left, put |-> unpack.put, settled |-> unpack.settled]
            BY DEF MigrationShape, Unpacks
        <3> HIDE DEF a
        <3>4. b = [busy |-> unpack.busy, left |-> left, put |-> put, settled |-> unpack.settled]
            BY <3>3
        <3> HIDE DEF b
        <3>5. \/ unpack' = [busy |-> more, left |-> left, put |-> put, settled |-> unpack.settled]
              \/ unpack' = [busy |-> more, left |-> left, put |-> unpack.put, settled |-> unpack.settled]
            BY <3>2, <3>3, <3>4
        <3>6. unpack' \in Unpacks /\ unpack'.busy = more /\ unpack'.left = left
            BY <3>1, <3>5 DEF MigrationShape, Unpacks
        <3> QED
            BY <3>1, <3>6
    <2> QED
        BY <2>2, <2>3, <2>4 DEF MigrationShape, RowVars
<1> QED
    BY <1>1, <1>2, <1>3

LEMMA RowsExport ==
    ASSUME MigrationShape, RowsInv, NEW db \in Databases, Export(db) PROVE RowsInv'
<1>1. UNCHANGED <<data, import>>
    BY DEF Export
<1> QED
    BY <1>1 DEF RowsInv, ImportTells, Importing, InsertedSoFar, HeldBack, Past, Core, In

LEMMA RowsBeginImport ==
    ASSUME MigrationShape, RowsInv, NEW db \in Databases, BeginImport(db) PROVE RowsInv'
<1>1. import' = [next |-> 1, answer |-> "none", db |-> db, before |-> data[db], from |-> backup,
                 new |-> {}, warned |-> {}, aborted |-> FALSE, wrote |-> {}]
    BY DEF BeginImport, NoImport
<1>2. /\ import'.next = 1 /\ import'.answer = "none" /\ import'.db = db /\ import'.before = data[db]
      /\ import'.from = backup /\ import'.new = {} /\ import'.warned = {} /\ import'.wrote = {}
      /\ ~import'.aborted
    BY <1>1
<1>3. data' = IF db = "sqlite" THEN [data EXCEPT ![db] = {}] ELSE data
    BY DEF BeginImport
<1>4. Past' = {}
    BY <1>2 DEF Past
<1>5. ImportTells'
    BY <1>2 DEF ImportTells
<1>6. (IF import.db = "sqlite" THEN InsertedSoFar ELSE HeldBack)'
    <2>1. CASE db = "sqlite"
        <3>1. data'["sqlite"] = {}
            BY <1>3, <2>1 DEF MigrationShape
        <3> QED
            BY <1>2, <1>4, <2>1, <3>1 DEF InsertedSoFar
    <2>2. CASE db = "postgres"
        BY <1>2, <1>3, <1>4, <2>2 DEF HeldBack
    <2> QED
        BY <2>1, <2>2 DEF Databases
<1> QED
    BY <1>2, <1>4, <1>5, <1>6 DEF RowsInv

LEMMA RowsImportTable ==
    ASSUME MigrationShape, RowsInv, ImportTable PROVE RowsInv'
<1> DEFINE rows == In(import.from, import.next)
<1>1. PICK ok \in SUBSET rows :
          /\ import.next \in 1..4 /\ import'.next = import.next + 1
          /\ import'.answer = import.answer /\ import'.db = import.db
          /\ import'.before = import.before /\ import'.from = import.from
          /\ import'.wrote = import.wrote /\ import'.warned = import.warned \cup (rows \ ok)
          /\ data'["postgres"] = data["postgres"]
          /\ import.db = "sqlite" => data'["sqlite"] = data["sqlite"] \cup ok
          /\ import.db # "sqlite" =>
                /\ import'.new = import.new \cup ok
                /\ import'.aborted => import.aborted \/ ok # rows
    BY ImportTableEffect
<1>2. Importing /\ Importing' /\ import.warned \subseteq Past
    BY <1>1 DEF Importing, RowsInv
<1>3. Past' = Past \cup rows
    BY <1>1 DEF Past, In
<1>4. Past \cap rows = {}
    <2>1. \A i, j \in 1..4 : Tables[i] = Tables[j] => i = j
        BY DEF Tables
    <2> QED
        BY <1>1, <2>1 DEF Past, In
<1> HIDE DEF rows
<1>5. import'.warned \subseteq Past'
    BY <1>1, <1>2, <1>3
<1>6. Past' \ import'.warned = (Past \ import.warned) \cup ok
    BY <1>1, <1>2, <1>3, <1>4
<1>7. ImportTells'
    BY <1>2 DEF ImportTells
<1>8. CASE import.db = "sqlite"
    <2>1. data["sqlite"] \ import.wrote = (Past \ import.warned) \ import.wrote
        BY <1>2, <1>8 DEF RowsInv, InsertedSoFar
    <2>2. data'["sqlite"] \ import'.wrote = (Past' \ import'.warned) \ import'.wrote
        BY <1>1, <1>6, <1>8, <2>1
    <2> QED
        BY <1>1, <1>5, <1>7, <1>8, <2>2 DEF RowsInv, InsertedSoFar
<1>9. CASE import.db # "sqlite"
    <2>1. HeldBack
        BY <1>2, <1>9 DEF RowsInv
    <2>2. HeldBack'
        BY <1>1, <1>6, <1>9, <2>1 DEF HeldBack
    <2> QED
        BY <1>1, <1>5, <1>7, <1>9, <2>2 DEF RowsInv
<1> QED
    BY <1>8, <1>9

\* A rollback brings back the old rows, and takes what others wrote on the same connection.
LEMMA RolledBackRows ==
    ASSUME MigrationShape, RowsInv, Importing, data' = RolledBack, import' = Ended("failed")
    PROVE  RowsInv'
<1>1. /\ import'.next = 0 /\ import'.db = import.db /\ import'.before = import.before
      /\ import'.from = import.from /\ import'.wrote = import.wrote /\ import'.answer = "failed"
    BY EndedIs
<1>2. /\ import.db = "sqlite" => data'["sqlite"] = import.before
      /\ import.db # "sqlite" => data' = data
    BY DEF RolledBack, MigrationShape, Databases
<1>3. import.db \in {"sqlite", "postgres"}
    BY DEF MigrationShape, Imports, Databases
<1>4. data'[import.db] \ import.wrote = import.before \ import.wrote
    <2>1. CASE import.db = "sqlite"
        BY <1>2, <2>1
    <2>2. CASE import.db = "postgres"
        BY <1>2, <2>2 DEF RowsInv, HeldBack
    <2> QED
        BY <1>3, <2>1, <2>2
<1>5. Core(data'[import.db]) \ import.wrote = Core(import.before) \ import.wrote
    BY <1>4, SameCore
<1>6. ImportTells'
    BY <1>1, <1>5 DEF ImportTells, Core, In
<1> QED
    BY <1>1, <1>6 DEF RowsInv, Importing

LEMMA RowsImportThrows ==
    ASSUME MigrationShape, RowsInv, ImportThrows PROVE RowsInv'
<1>1. Importing /\ import' = Ended("failed") /\ data' = RolledBack
    BY DEF ImportThrows, Importing
<1> QED
    BY <1>1, RolledBackRows

LEMMA RowsInterrupted ==
    ASSUME MigrationShape, RowsInv, Interrupted PROVE RowsInv'
<1>1. CASE Importing
    BY <1>1, RolledBackRows DEF Interrupted
<1>2. CASE ~Importing
    <2>1. UNCHANGED <<data, import>>
        BY <1>2 DEF Interrupted, RolledBack
    <2> QED
        BY <1>2, <2>1 DEF RowsInv, ImportTells, Importing, Core, In
<1> QED
    BY <1>1, <1>2

LEMMA RowsCommitImport ==
    ASSUME MigrationShape, RowsInv, CommitImport PROVE RowsInv'
<1>1. import.next = 5 /\ Importing /\ import' = Ended("imported")
    BY DEF CommitImport, Importing
<1>2. /\ import'.next = 0 /\ import'.db = import.db /\ import'.before = import.before
      /\ import'.from = import.from /\ import'.wrote = import.wrote /\ import'.warned = import.warned
      /\ import'.answer = "imported"
    BY <1>1, EndedIs
<1>3. Past = import.from
    BY <1>1, TableOf DEF Past, MigrationShape, Imports
<1>4. \/ data'[import.db] \ import.wrote = (import.from \ import.warned) \ import.wrote
      \/ /\ data'[import.db] \ import.wrote = import.before \ import.wrote
         /\ import.warned # {}
    <2>1. CASE import.db = "sqlite"
        BY <1>1, <1>3, <2>1 DEF CommitImport, RowsInv, InsertedSoFar
    <2>2. CASE import.db = "postgres"
        <3>1. HeldBack
            BY <1>1, <2>2 DEF RowsInv
        <3>2. CASE import.aborted
            BY <2>2, <3>1, <3>2 DEF CommitImport, HeldBack
        <3>3. CASE ~import.aborted
            <4>1. data'["postgres"] = (data["postgres"] \ import.before) \cup import.new
                BY <2>2, <3>3 DEF CommitImport, MigrationShape, Databases
            <4> QED
                BY <1>3, <2>2, <3>1, <4>1 DEF HeldBack
        <3> QED
            BY <3>2, <3>3
    <2> QED
        BY <2>1, <2>2 DEF MigrationShape, Imports, Databases
<1>5. \/ Core(data'[import.db]) \ import.wrote = Core(import.from \ import.warned) \ import.wrote
      \/ /\ Core(data'[import.db]) \ import.wrote = Core(import.before) \ import.wrote
         /\ import.warned # {}
    BY <1>4, SameCore
<1>6. ImportTells'
    BY <1>2, <1>5 DEF ImportTells, Core, In
<1> QED
    BY <1>2, <1>6 DEF RowsInv, Importing

\* Somebody writes a row beside the import.
LEMMA RowsWrite ==
    ASSUME MigrationShape, RowsInv, NEW db \in Databases, NEW r \in Rows, Write(db, r)
    PROVE  RowsInv'
<1>1. \A d \in Databases : data'[d] \in {data[d], data[d] \cup {r}}
    BY DEF Write, MigrationShape, Databases
<1>2. /\ import'.next = import.next /\ import'.answer = import.answer /\ import'.db = import.db
      /\ import'.before = import.before /\ import'.from = import.from /\ import'.new = import.new
      /\ import'.warned = import.warned /\ import'.aborted = import.aborted
      /\ Importing \/ import.answer # "none" => import'.wrote = import.wrote \cup {r}
    BY DEF Write, MigrationShape, Imports
<1>3. Past' = Past /\ (Importing' <=> Importing) /\ import.db \in Databases
    BY <1>2 DEF Past, Importing, MigrationShape, Imports
<1>4. ASSUME Importing \/ import.answer # "none"
      PROVE  \A d \in Databases : data'[d] \ import'.wrote = (data[d] \ import.wrote) \ {r}
    BY <1>1, <1>2, <1>4
<1>5. ImportTells'
    <2>1. SUFFICES ASSUME ~Importing, import.answer # "none" PROVE ImportTells'
        BY <1>2, <1>3 DEF ImportTells
    <2>2. Core(data'[import.db]) \ import'.wrote = (Core(data[import.db]) \ import.wrote) \ {r}
        BY <1>3, <1>4, <2>1 DEF Core, In
    <2>3. \A rows : Core(rows) \ import'.wrote = (Core(rows) \ import.wrote) \ {r}
        BY <1>2, <2>1
    <2>4. \/ /\ Core(data[import.db]) \ import.wrote = Core(import.before) \ import.wrote
             /\ import.answer = "imported" => import.warned # {}
          \/ /\ Core(data[import.db]) \ import.wrote = Core(import.from \ import.warned) \ import.wrote
             /\ import.answer = "imported"
        BY <2>1 DEF RowsInv, ImportTells
    <2>5. \/ /\ Core(data'[import.db]) \ import'.wrote = Core(import.before) \ import'.wrote
             /\ import.answer = "imported" => import.warned # {}
          \/ /\ Core(data'[import.db]) \ import'.wrote = Core(import.from \ import.warned) \ import'.wrote
             /\ import.answer = "imported"
        BY <2>2, <2>3, <2>4
    <2> QED
        BY <1>2, <2>5 DEF ImportTells, Core, In
<1>6. ASSUME Importing PROVE (IF import.db = "sqlite" THEN InsertedSoFar ELSE HeldBack)'
    <2>1. \A d \in Databases : data'[d] \ import'.wrote = (data[d] \ import.wrote) \ {r}
        BY <1>4, <1>6
    <2>2. import'.wrote = import.wrote \cup {r}
        BY <1>2, <1>6
    <2>3. CASE import.db = "sqlite"
        <3>1. data'["sqlite"] \ import'.wrote = (data["sqlite"] \ import.wrote) \ {r}
            BY <2>1 DEF Databases
        <3>2. data["sqlite"] \ import.wrote = (Past \ import.warned) \ import.wrote
            BY <1>6, <2>3 DEF RowsInv, InsertedSoFar
        <3>3. InsertedSoFar'
            BY <1>2, <1>3, <2>2, <3>1, <3>2 DEF InsertedSoFar
        <3> QED
            BY <1>2, <2>3, <3>3
    <2>4. CASE import.db # "sqlite"
        <3>1. data'["postgres"] \ import'.wrote = (data["postgres"] \ import.wrote) \ {r}
            BY <2>1 DEF Databases
        <3>2. HeldBack
            BY <1>6, <2>4 DEF RowsInv
        <3>3. HeldBack'
            BY <1>2, <1>3, <2>2, <3>1, <3>2 DEF HeldBack
        <3> QED
            BY <1>2, <2>4, <3>3
    <2> QED
        BY <2>3, <2>4
<1> QED
    BY <1>2, <1>3, <1>5, <1>6 DEF RowsInv

LEMMA RowsInit == Init => MigrationShape /\ RowsInv
<1> SUFFICES ASSUME Init PROVE MigrationShape /\ RowsInv
    OBVIOUS
<1>1. /\ data = [db \in Databases |-> IF db = "sqlite" THEN First ELSE {}] /\ made = First
      /\ export = NoExport /\ backup = {} /\ import = NoImport
      /\ files = [place \in {"local", "s3"} |-> {}] /\ archive = Files /\ unpack = NoUnpack
    BY DEF Init, MigrationInit
<1>2. MigrationShape
    BY <1>1, MigrationAssumption
    DEF MigrationShape, NoExport, NoImport, NoUnpack, Imports, Unpacks, Databases
<1>3. ~Importing /\ import.answer = "none"
    BY <1>1 DEF Importing, NoImport
<1> QED
    BY <1>2, <1>3 DEF RowsInv, ImportTells

\* The part of a step of the gateway that DataMigration takes.
LEMMA RowsMigrate ==
    ASSUME MigrationShape, RowsInv, Migrate PROVE MigrationShape' /\ RowsInv'
<1>1. Database \in Databases /\ Place \in {"local", "s3"} /\ PutPlace \in {"local", "s3"}
    BY DEF Database, Databases, Place, PutPlace
<1>2. CASE Export(Database)
    BY <1>1, <1>2, ShapeExport, RowsExport
<1>3. CASE BeginImport(Database)
    BY <1>1, <1>3, ShapeBeginImport, RowsBeginImport
<1>4. CASE ImportTable
    BY <1>4, ShapeImportTable, RowsImportTable
<1>5. CASE CommitImport
    BY <1>5, ShapeEnds, RowsCommitImport
<1>6. CASE ImportThrows
    BY <1>6, ShapeEnds, RowsImportThrows
<1>7. ASSUME NEW r \in Rows, Write(Database, r) PROVE MigrationShape' /\ RowsInv'
    BY <1>1, <1>7, ShapeWrite, RowsWrite
<1>8. CASE ExportFiles(Place) \/ OpenArchive(gate.s3 # "checking") \/ PutFile(PutPlace)
    <2> DEFINE settled == gate.s3 # "checking"
    <2>1. settled \in BOOLEAN
        OBVIOUS
    <2>2. ExportFiles(Place) \/ OpenArchive(settled) \/ PutFile(PutPlace)
        BY <1>8
    <2> HIDE DEF settled
    <2>3. MigrationShape' /\ UNCHANGED RowVars
        BY <1>1, <2>1, <2>2, ShapeFiles
    <2> QED
        BY <2>3, RowsSame
<1> QED
    BY <1>2, <1>3, <1>4, <1>5, <1>6, <1>7, <1>8 DEF Migrate

LEMMA MigrationSame ==
    ASSUME MigrationShape, RowsInv, UNCHANGED migration PROVE MigrationShape' /\ RowsInv'
<1>1. UNCHANGED RowVars /\ MigrationShape'
    BY DEF migration, RowVars, MigrationShape
<1> QED
    BY <1>1, RowsSame

\* What the end of the process does to the rows; no other step of the gateway touches them.
LEMMA RowsStep ==
    ASSUME MigrationShape, RowsInv, [Next]_vars PROVE MigrationShape' /\ RowsInv'
<1>1. CASE Migrate
    BY <1>1, RowsMigrate
<1>2. CASE Page
    <2>1. UNCHANGED migration
        BY <1>2 DEF Page, LoadStatus, EditDatabase, EditRedis, EditStorage, Edited, Save, CloseModal,
                    Restart, Reload
    <2> QED
        BY <2>1, MigrationSame
<1>3. CASE Orchestrate
    <2>1. UNCHANGED migration
        BY <1>3 DEF Orchestrate, RemoveService, StartService, Orchestrated
    <2> QED
        BY <2>1, MigrationSame
<1>4. CASE Exit \/ GiveUp \/ Crash
    <2>1. Interrupted
        BY <1>4 DEF Exit, GiveUp, Crash, Gone
    <2> QED
        BY <2>1, ShapeEnds, RowsInterrupted
<1>5. CASE Shutdown \/ Boot \/ CheckBucket \/ Connect \/ Started
    <2>1. UNCHANGED migration
        BY <1>5 DEF Shutdown, Boot, CheckBucket, Connect, Started
    <2> QED
        BY <2>1, MigrationSame
<1>6. CASE UNCHANGED vars
    BY <1>6, MigrationSame DEF vars
<1> QED
    BY <1>1, <1>2, <1>3, <1>4, <1>5, <1>6 DEF Next, Process

-----------------------------------------------------------------------------
(* The process, its containers and its files. *)

LEMMA ListedTogether ==
    ASSUME NEW a \in Seq(Services), NEW b \in Seq(Services)
    PROVE  a \o b \in Seq(Services) /\ Listed(a \o b) = Listed(a) \cup Listed(b)
<1>1. a \o b \in Seq(Services) /\ Len(a \o b) = Len(a) + Len(b)
    OBVIOUS
<1>2. \A i \in 1..Len(a) : i \in DOMAIN (a \o b) /\ (a \o b)[i] = a[i]
    BY <1>1
<1>3. \A i \in 1..Len(b) : i + Len(a) \in DOMAIN (a \o b) /\ (a \o b)[i + Len(a)] = b[i]
    BY <1>1
<1>4. ASSUME NEW i \in DOMAIN (a \o b) PROVE (a \o b)[i] \in Listed(a) \cup Listed(b)
    <2>1. CASE i <= Len(a)
        <3>1. i \in DOMAIN a /\ (a \o b)[i] = a[i]
            BY <1>1, <1>2, <2>1
        <3> QED
            BY <3>1 DEF Listed
    <2>2. CASE i > Len(a)
        <3>1. i - Len(a) \in DOMAIN b /\ (a \o b)[i] = b[i - Len(a)]
            BY <1>1, <1>3, <2>2
        <3> QED
            BY <3>1 DEF Listed
    <2> QED
        BY <1>1, <2>1, <2>2
<1>5. Listed(a) \cup Listed(b) \subseteq Listed(a \o b)
    <2>1. ASSUME NEW i \in DOMAIN a PROVE a[i] \in Listed(a \o b)
        <3>1. i \in DOMAIN (a \o b) /\ (a \o b)[i] = a[i]
            BY <1>2
        <3> QED
            BY <3>1 DEF Listed
    <2>2. ASSUME NEW i \in DOMAIN b PROVE b[i] \in Listed(a \o b)
        <3>1. i + Len(a) \in DOMAIN (a \o b) /\ (a \o b)[i + Len(a)] = b[i]
            BY <1>3
        <3> QED
            BY <3>1 DEF Listed
    <2> QED
        BY <2>1, <2>2 DEF Listed
<1>6. Listed(a \o b) \subseteq Listed(a) \cup Listed(b)
    BY <1>4 DEF Listed
<1> QED
    BY <1>1, <1>5, <1>6

\* An order of the services, cut down to a set of them.
LEMMA ListOfThree ==
    ASSUME NEW a \in Services, NEW b \in Services, NEW c \in Services, NEW set
    PROVE  LET list == Kept(a, set) \o Kept(b, set) \o Kept(c, set)
           IN list \in Seq(Services) /\ Listed(list) = set \cap {a, b, c}
<1>1. ASSUME NEW s \in Services PROVE Kept(s, set) \in Seq(Services) /\ Listed(Kept(s, set)) = set \cap {s}
    <2>1. CASE s \in set
        <3>1. Kept(s, set) = <<s>>
            BY <2>1 DEF Kept
        <3>2. <<s>> \in Seq(Services) /\ DOMAIN <<s>> = {1} /\ <<s>>[1] = s
            OBVIOUS
        <3>3. Listed(<<s>>) = {s}
            BY <3>2 DEF Listed
        <3> QED
            BY <2>1, <3>1, <3>2, <3>3
    <2>2. CASE s \notin set
        <3>1. Kept(s, set) = << >>
            BY <2>2 DEF Kept
        <3>2. << >> \in Seq(Services) /\ DOMAIN << >> = {}
            OBVIOUS
        <3>3. Listed(<< >>) = {}
            BY <3>2 DEF Listed
        <3> QED
            BY <2>2, <3>1, <3>2, <3>3
    <2> QED
        BY <2>1, <2>2
<1> DEFINE x == Kept(a, set)
           y == Kept(b, set)
           z == Kept(c, set)
<1>2. /\ x \in Seq(Services) /\ y \in Seq(Services) /\ z \in Seq(Services)
      /\ Listed(x) = set \cap {a} /\ Listed(y) = set \cap {b} /\ Listed(z) = set \cap {c}
    BY <1>1
<1> HIDE DEF x, y, z
<1>3. x \o y \in Seq(Services) /\ Listed(x \o y) = Listed(x) \cup Listed(y)
    BY <1>2, ListedTogether
<1>4. (x \o y) \o z \in Seq(Services) /\ Listed((x \o y) \o z) = Listed(x \o y) \cup Listed(z)
    BY <1>2, <1>3, ListedTogether
<1>5. Listed((x \o y) \o z) = set \cap {a, b, c}
    BY <1>2, <1>3, <1>4
<1> QED
    BY <1>4, <1>5 DEF x, y, z

LEMMA Lists ==
    ASSUME NEW set
    PROVE  /\ InOrder(Order, set) \in Seq(Services)
           /\ Listed(InOrder(Order, set)) = set \cap Services
           /\ InOrder(BootOrder, set) \in Seq(Services)
<1>1. /\ Order[1] = "postgres" /\ Order[2] = "redis" /\ Order[3] = "minio"
      /\ BootOrder[1] = "redis" /\ BootOrder[2] = "postgres" /\ BootOrder[3] = "minio"
    BY DEF Order, BootOrder
<1>2. "postgres" \in Services /\ "redis" \in Services /\ "minio" \in Services
      /\ Services = {"postgres", "redis", "minio"}
    BY DEF Services
<1> QED
    BY <1>1, <1>2, ListOfThree DEF InOrder

\* A list that is gone through.
LEMMA HeadAndTail ==
    ASSUME NEW list \in Seq(Services), list # << >>
    PROVE  /\ Head(list) \in Services /\ Tail(list) \in Seq(Services)
           /\ Listed(list) = {Head(list)} \cup Listed(Tail(list))
<1>1. Head(list) \in Services /\ Tail(list) \in Seq(Services)
    OBVIOUS
<1>2. \A i \in DOMAIN list : i = 1 \/ (i - 1 \in DOMAIN Tail(list) /\ Tail(list)[i - 1] = list[i])
    OBVIOUS
<1>3. \A i \in DOMAIN Tail(list) : i + 1 \in DOMAIN list /\ Tail(list)[i] = list[i + 1]
    OBVIOUS
<1>4. 1 \in DOMAIN list /\ Head(list) = list[1]
    OBVIOUS
<1>5. Listed(list) \subseteq {Head(list)} \cup Listed(Tail(list))
    BY <1>2, <1>4 DEF Listed
<1>6. Listed(Tail(list)) \subseteq Listed(list)
    BY <1>3 DEF Listed
<1>7. Head(list) \in Listed(list)
    BY <1>4 DEF Listed
<1> QED
    BY <1>1, <1>5, <1>6, <1>7

LEMMA ConfigsFit ==
    /\ Off \in Configs
    /\ ProcessShape => Loaded \in Configs /\ Status \in Configs /\ Applied(page.form) \in Configs
    /\ ProcessShape => \A s \in Services, on, builtIn \in BOOLEAN :
                           [page.form EXCEPT ![s] = [on |-> on, builtIn |-> builtIn]] \in Configs
<1>1. Off \in Configs
    BY DEF Off, Configs, Settings
<1>2. ASSUME ProcessShape PROVE Loaded \in Configs
    <2>1. \A s \in Services : env.config[s] \in Settings
        BY <1>2 DEF ProcessShape, Configs
    <2>2. \A s \in Services : [on |-> env.config[s].on /\ s \notin Pinned,
                               builtIn |-> env.config[s].builtIn] \in Settings
        BY <2>1 DEF Settings
    <2> QED
        BY <2>2 DEF Loaded, Configs
<1>3. ASSUME ProcessShape PROVE Status \in Configs /\ Applied(page.form) \in Configs
    <2>1. \A s \in Services : gate.with[s] \in Settings /\ page.form[s] \in Settings
        BY <1>3 DEF ProcessShape, Gates, Pages, Configs
    <2>2. \A s \in Services : [on |-> gate.with[s].on, builtIn |-> FALSE] \in Settings
        BY <2>1 DEF Settings
    <2>3. \A s \in Services : [page.form[s] EXCEPT !.on = gate.with[s].on] \in Settings
        BY <2>1 DEF Settings
    <2> QED
        BY <2>1, <2>2, <2>3 DEF Status, Applied, Configs
<1>4. ASSUME ProcessShape, NEW s \in Services, NEW on \in BOOLEAN, NEW builtIn \in BOOLEAN
      PROVE  [page.form EXCEPT ![s] = [on |-> on, builtIn |-> builtIn]] \in Configs
    <2>1. [on |-> on, builtIn |-> builtIn] \in Settings
        BY DEF Settings
    <2> QED
        BY <1>4, <2>1 DEF ProcessShape, Pages, Configs
<1> QED
    BY <1>1, <1>2, <1>3, <1>4

LEMMA DownIs ==
    /\ Down \in Gates /\ Down.at = "down" /\ ~Down.timer
    /\ NoJob \in JobRecords /\ NoJob.remove = << >> /\ NoJob.for = "none"
    /\ NoJobs \in [Lanes -> JobRecords] /\ NoJobs[1] = NoJob /\ NoJobs[2] = NoJob
<1>1. Off \in Configs /\ << >> \in Seq(Services)
    BY ConfigsFit
<1>2. NoJob \in JobRecords
    BY <1>1 DEF NoJob, JobRecords
<1> QED
    BY <1>1, <1>2 DEF Down, NoJob, NoJobs, Lanes, Gates

LEMMA ProcessInit == Init => ProcessShape
<1> SUFFICES ASSUME Init PROVE ProcessShape
    OBVIOUS
<1>1. Off \in Configs
    BY ConfigsFit
<1>2. gate \in Gates
    <2> DEFINE a == [Down EXCEPT !.at = "up"]
    <2>1. a \in Gates
        BY DownIs DEF Gates
    <2>2. gate = [a EXCEPT !.docker = TRUE]
        BY DEF Init
    <2> HIDE DEF a
    <2> QED
        BY <2>1, <2>2 DEF Gates
<1>3. page \in Pages
    BY <1>1 DEF Init, NewPage, Pages
<1>4. env \in [config : Configs, request : BOOLEAN] /\ box \in [Services -> {"none", "stopped", "running"}]
    BY <1>1 DEF Init
<1> QED
    BY <1>1, <1>2, <1>3, <1>4, DownIs DEF Init, ProcessShape

\* The page's own steps.
LEMMA PageShape ==
    ASSUME ProcessShape, LoadStatus \/ EditDatabase \/ EditRedis \/ EditStorage \/ Save
                         \/ CloseModal \/ Reload
    PROVE  ProcessShape'
<1>1. CASE LoadStatus
    <2> DEFINE a == [page EXCEPT !.at = "editing"]
               b == [a EXCEPT !.form = Applied(page.form)]
    <2>1. page' = [b EXCEPT !.seen = Status]
        BY <1>1 DEF LoadStatus
    <2>2. a \in Pages
        BY DEF ProcessShape, Pages
    <2> HIDE DEF a
    <2>3. b \in Pages
        BY <2>2, ConfigsFit DEF Pages
    <2> HIDE DEF b
    <2>4. page' \in Pages
        BY <2>1, <2>3, ConfigsFit DEF Pages
    <2> QED
        BY <1>1, <2>4 DEF LoadStatus, ProcessShape
<1>2. ASSUME NEW s \in Services, NEW on \in BOOLEAN, NEW builtIn \in BOOLEAN,
             Edited(s, [on |-> on, builtIn |-> builtIn])
      PROVE  ProcessShape'
    <2> DEFINE form == [page.form EXCEPT ![s] = [on |-> on, builtIn |-> builtIn]]
    <2>1. form \in Configs
        BY ConfigsFit
    <2>2. page' = [page EXCEPT !.form = form]
        BY <1>2 DEF Edited, ProcessShape, Pages
    <2> HIDE DEF form
    <2>3. page' \in Pages
        BY <2>1, <2>2 DEF ProcessShape, Pages
    <2> QED
        BY <1>2, <2>3 DEF Edited, ProcessShape
<1>3. CASE EditDatabase \/ EditRedis \/ EditStorage
    BY <1>2, <1>3 DEF EditDatabase, EditRedis, EditStorage, Services
<1>4. CASE Save
    <2>1. env' \in [config : Configs, request : BOOLEAN]
        BY <1>4 DEF Save, SaveConfig, ProcessShape, Pages
    <2>2. page' \in Pages
        <3>1. CASE page' = page
            BY <3>1 DEF ProcessShape
        <3>2. CASE page' = [page EXCEPT !.at = "modal", !.previous = page.pending,
                                        !.pending = Wanted(page.form)]
            BY <3>2 DEF ProcessShape, Pages, Wanted
        <3> QED
            BY <1>4, <3>1, <3>2 DEF Save
    <2> QED
        BY <1>4, <2>1, <2>2 DEF Save, ProcessShape
<1>5. CASE CloseModal
    BY <1>5 DEF CloseModal, ProcessShape, Pages
<1>6. CASE Reload
    BY <1>6, ConfigsFit DEF Reload, ProcessShape, Pages, NewPage
<1> QED
    BY <1>1, <1>3, <1>4, <1>5, <1>6

\* What a restart that is served does.
LEMMA RequestedEffect ==
    ASSUME ProcessShape, NEW n \in Lanes, Requested(n)
    PROVE  /\ gate.docker =>
                 /\ job' \in [Lanes -> JobRecords] /\ job'[n].for = "restart"
                 /\ \A m \in Lanes \ {n} : job'[m] = job[m]
                 /\ Listed(job'[n].start) = page.pending /\ Listed(job'[n].remove) = ToRemove
                 /\ UNCHANGED <<env, gate>>
           /\ ~gate.docker =>
                 /\ env' \in [config : Configs, request : BOOLEAN] /\ env'.config = env.config
                 /\ gate' \in Gates /\ gate'.at = gate.at /\ gate'.s3 = gate.s3 /\ gate'.with = gate.with
                 /\ job' = job
<1>1. ASSUME gate.docker
      PROVE  /\ job' \in [Lanes -> JobRecords] /\ job'[n].for = "restart"
             /\ \A m \in Lanes \ {n} : job'[m] = job[m]
             /\ Listed(job'[n].start) = page.pending /\ Listed(job'[n].remove) = ToRemove
             /\ UNCHANGED <<env, gate>>
    <2> DEFINE remove == InOrder(Order, ToRemove)
               start == InOrder(Order, page.pending)
               new == [for |-> "restart", remove |-> remove, start |-> start]
    <2>1. job' = [job EXCEPT ![n] = new] /\ UNCHANGED <<env, gate>>
        BY <1>1 DEF Requested, NoJob
    <2>2. /\ remove \in Seq(Services) /\ start \in Seq(Services)
          /\ Listed(start) = page.pending /\ Listed(remove) = ToRemove
        <3>1. page.pending \subseteq Services /\ ToRemove \subseteq Services
            BY DEF ProcessShape, Pages, ToRemove
        <3> QED
            BY <3>1, Lists
    <2> HIDE DEF remove, start
    <2>3. new \in JobRecords /\ new.for = "restart" /\ new.remove = remove /\ new.start = start
        BY <2>2 DEF JobRecords
    <2> HIDE DEF new
    <2>4. /\ job' \in [Lanes -> JobRecords] /\ job'[n] = new
          /\ \A m \in Lanes \ {n} : job'[m] = job[m]
        BY <2>1, <2>3 DEF ProcessShape
    <2> QED
        BY <2>1, <2>2, <2>3, <2>4
<1>2. ASSUME ~gate.docker
      PROVE  /\ env' \in [config : Configs, request : BOOLEAN] /\ env'.config = env.config
             /\ gate' \in Gates /\ gate'.at = gate.at /\ gate'.s3 = gate.s3 /\ gate'.with = gate.with
             /\ job' = job
    BY <1>2 DEF Requested, ProcessShape, Gates
<1> QED
    BY <1>1, <1>2

\* The lane of a request: the second one when the first is taken.
Lane == IF job[1] = NoJob THEN 1 ELSE 2

LEMMA RestartServed ==
    ASSUME Restart, Serving
    PROVE  /\ Lane \in Lanes /\ job[Lane] = NoJob /\ Requested(Lane)
           /\ asked' = IF gate.at = "up" /\ ~gate.timer /\ gate.docker /\ job = NoJobs
                       THEN {env.config} ELSE {}
    BY DEF Restart, Lane, Lanes

LEMMA RestartShape ==
    ASSUME ProcessShape, Restart PROVE ProcessShape'
<1>1. page' \in Pages /\ UNCHANGED box
    BY DEF Restart, ProcessShape, Pages
<1>2. CASE Serving
    <2>1. Lane \in Lanes /\ Requested(Lane)
        BY <1>2, RestartServed
    <2>2. asked' \subseteq Configs
        BY <1>2, RestartServed DEF ProcessShape
    <2>3. /\ gate.docker => job' \in [Lanes -> JobRecords] /\ UNCHANGED <<env, gate>>
          /\ ~gate.docker => /\ env' \in [config : Configs, request : BOOLEAN]
                             /\ gate' \in Gates /\ job' = job
        BY <2>1, RequestedEffect
    <2> QED
        BY <1>1, <2>2, <2>3 DEF ProcessShape
<1>3. CASE ~Serving
    BY <1>1, <1>3 DEF Restart, ProcessShape
<1> QED
    BY <1>2, <1>3

\* One service of the list is removed, or started.
LEMMA RemoveServiceEffect ==
    ASSUME ProcessShape, NEW n \in Lanes, RemoveService(n)
    PROVE  LET s == Head(job[n].remove) IN
           /\ s \in Services /\ Listed(job[n].remove) = {s} \cup Listed(job'[n].remove)
           /\ job' \in [Lanes -> JobRecords] /\ job'[n].for = job[n].for
           /\ job'[n].start = job[n].start /\ \A m \in Lanes \ {n} : job'[m] = job[m]
           /\ job[n] # NoJob
           /\ box' \in [Services -> {"none", "stopped", "running"}]
           /\ \A x \in Services \ {s} : box'[x] = box[x]
           /\ asked' = asked \/ asked' = {}
           /\ UNCHANGED <<env, gate, page>>
<1> DEFINE one == job[n]
           left == [one EXCEPT !.remove = Tail(one.remove)]
<1>1. one.remove \in Seq(Services) /\ one.remove # << >> /\ one \in JobRecords
    BY DEF RemoveService, ProcessShape, JobRecords
<1>2. /\ Head(one.remove) \in Services /\ Tail(one.remove) \in Seq(Services)
      /\ Listed(one.remove) = {Head(one.remove)} \cup Listed(Tail(one.remove))
    BY <1>1, HeadAndTail
<1>3. job' = [job EXCEPT ![n] = left]
    BY DEF RemoveService, ProcessShape
<1>4. one # NoJob
    BY <1>1 DEF NoJob
<1>5. left \in JobRecords /\ left.for = one.for /\ left.start = one.start /\ left.remove = Tail(one.remove)
    BY <1>1, <1>2 DEF JobRecords
<1> HIDE DEF left
<1>6. /\ job' \in [Lanes -> JobRecords] /\ job'[n] = left /\ \A m \in Lanes \ {n} : job'[m] = job[m]
    BY <1>3, <1>5 DEF ProcessShape
<1>7. \E how \in {"none", "stopped", "running"} : box' = [box EXCEPT ![Head(one.remove)] = how]
    BY <1>2 DEF RemoveService, ProcessShape
<1>8. /\ box' \in [Services -> {"none", "stopped", "running"}]
      /\ \A x \in Services \ {Head(one.remove)} : box'[x] = box[x]
    BY <1>2, <1>7 DEF ProcessShape
<1>9. (asked' = asked \/ asked' = {}) /\ UNCHANGED <<env, gate, page>>
    BY DEF RemoveService
<1> QED
    BY <1>2, <1>4, <1>5, <1>6, <1>8, <1>9

LEMMA StartServiceEffect ==
    ASSUME ProcessShape, NEW n \in Lanes, StartService(n)
    PROVE  LET s == Head(job[n].start) IN
           /\ job[n].remove = << >>
           /\ s \in Services /\ Listed(job[n].start) = {s} \cup Listed(job'[n].start)
           /\ job' \in [Lanes -> JobRecords] /\ job'[n].for = job[n].for
           /\ job'[n].remove = job[n].remove /\ \A m \in Lanes \ {n} : job'[m] = job[m]
           /\ job[n] # NoJob
           /\ box' \in [Services -> {"none", "stopped", "running"}]
           /\ \A x \in Services \ {s} : box'[x] = box[x]
           /\ (asked' = asked /\ box'[s] = "running") \/ asked' = {}
           /\ UNCHANGED <<env, gate, page>>
<1> DEFINE one == job[n]
           left == [one EXCEPT !.start = Tail(one.start)]
<1>1. one.start \in Seq(Services) /\ one.start # << >> /\ one.remove = << >> /\ one \in JobRecords
    BY DEF StartService, ProcessShape, JobRecords
<1>2. /\ Head(one.start) \in Services /\ Tail(one.start) \in Seq(Services)
      /\ Listed(one.start) = {Head(one.start)} \cup Listed(Tail(one.start))
    BY <1>1, HeadAndTail
<1>3. job' = [job EXCEPT ![n] = left]
    BY DEF StartService, ProcessShape
<1>4. one # NoJob
    BY <1>1 DEF NoJob
<1>5. left \in JobRecords /\ left.for = one.for /\ left.remove = one.remove /\ left.start = Tail(one.start)
    BY <1>1, <1>2 DEF JobRecords
<1> HIDE DEF left
<1>6. /\ job' \in [Lanes -> JobRecords] /\ job'[n] = left /\ \A m \in Lanes \ {n} : job'[m] = job[m]
    BY <1>3, <1>5 DEF ProcessShape
<1>7. \E how \in {"none", "stopped", "running"} :
          /\ box' = [box EXCEPT ![Head(one.start)] = how]
          /\ (asked' = asked /\ how = "running") \/ asked' = {}
    BY <1>2 DEF StartService, StartLeaves, ProcessShape
<1>8. /\ box' \in [Services -> {"none", "stopped", "running"}]
      /\ \A x \in Services \ {Head(one.start)} : box'[x] = box[x]
      /\ (asked' = asked /\ box'[Head(one.start)] = "running") \/ asked' = {}
    BY <1>2, <1>7 DEF ProcessShape
<1>9. UNCHANGED <<env, gate, page>>
    BY DEF StartService
<1> QED
    BY <1>1, <1>2, <1>4, <1>5, <1>6, <1>8, <1>9

LEMMA OrchestratedEffect ==
    ASSUME ProcessShape, NEW n \in Lanes, Orchestrated(n)
    PROVE  /\ job' \in [Lanes -> JobRecords] /\ job'[n] = NoJob
           /\ \A m \in Lanes \ {n} : job'[m] = job[m]
           /\ gate' \in Gates /\ gate'.at = gate.at /\ gate'.s3 = gate.s3
           /\ job[n].remove = << >> /\ job[n].start = << >> /\ job[n] # NoJob
           /\ UNCHANGED <<env, box, page, asked>>
<1>1. job' = [job EXCEPT ![n] = NoJob] /\ gate' = [gate EXCEPT !.timer = TRUE]
    BY DEF Orchestrated
<1>2. job[n] # NoJob
    BY DEF Orchestrated, NoJob
<1>3. gate' \in Gates /\ gate'.at = gate.at /\ gate'.s3 = gate.s3
    BY <1>1 DEF ProcessShape, Gates
<1>4. /\ job' \in [Lanes -> JobRecords] /\ job'[n] = NoJob
      /\ \A m \in Lanes \ {n} : job'[m] = job[m]
    BY <1>1, DownIs DEF ProcessShape
<1> QED
    BY <1>2, <1>3, <1>4 DEF Orchestrated, IsThrough

LEMMA OrchestrateShape ==
    ASSUME ProcessShape, Orchestrate PROVE ProcessShape'
<1>1. PICK n \in Lanes : RemoveService(n) \/ StartService(n) \/ Orchestrated(n)
    BY DEF Orchestrate
<1>2. CASE RemoveService(n)
    BY <1>2, RemoveServiceEffect DEF ProcessShape
<1>3. CASE StartService(n)
    BY <1>3, StartServiceEffect DEF ProcessShape
<1>4. CASE Orchestrated(n)
    BY <1>4, OrchestratedEffect DEF ProcessShape
<1> QED
    BY <1>1, <1>2, <1>3, <1>4

LEMMA BootEffect ==
    ASSUME ProcessShape, Boot
    PROVE  gate' \in Gates /\ gate'.at = "connecting" /\ ~gate'.timer /\ gate'.with = Loaded
<1> DEFINE place == IF Loaded["minio"].on /\ (Loaded["minio"].builtIn \/ "minio" \in External)
                    THEN "checking" ELSE "local"
<1>1. gate' = [at |-> "connecting", with |-> Loaded, docker |-> FALSE, s3 |-> place, timer |-> FALSE]
    BY DEF Boot, Down
<1>2. place \in {"local", "checking"}
    OBVIOUS
<1> HIDE DEF place
<1>3. Loaded \in Configs
    BY ConfigsFit
<1> HIDE DEF place
<1> QED
    BY <1>1, <1>2, <1>3 DEF Gates

LEMMA ConnectEffect ==
    ASSUME ProcessShape, Connect
    PROVE  /\ gate' \in Gates /\ gate'.at = "starting" /\ gate'.s3 = gate.s3
           /\ job' \in [Lanes -> JobRecords] /\ job'[1].remove = << >> /\ job'[2] = NoJob
<1>1. PICK socket \in BOOLEAN :
          /\ gate' = [gate EXCEPT !.at = "starting", !.docker = socket]
          /\ job' = IF ~socket THEN NoJobs
                    ELSE [NoJobs EXCEPT ![1] =
                             [for |-> "boot", remove |-> << >>,
                              start |-> InOrder(BootOrder, Flagged(gate.with))]]
    BY InfrastructureAssumption DEF Connect
<1>2. InOrder(BootOrder, Flagged(gate.with)) \in Seq(Services) /\ << >> \in Seq(Services)
    BY Lists
<1>3. job' \in [Lanes -> JobRecords] /\ job'[1].remove = << >> /\ job'[2] = NoJob
    <2> DEFINE start == InOrder(BootOrder, Flagged(gate.with))
               new == [for |-> "boot", remove |-> << >>, start |-> start]
    <2>1. CASE ~socket
        BY <1>1, <2>1, DownIs
    <2>2. CASE socket
        <3> HIDE DEF start
        <3>1. job' = [NoJobs EXCEPT ![1] = new]
            BY <1>1, <2>2 DEF start
        <3>2. start \in Seq(Services)
            BY <1>2 DEF start
        <3>3. new \in JobRecords /\ new.remove = << >>
            BY <1>2, <3>2 DEF JobRecords
        <3> HIDE DEF new
        <3>4. job'[1] = new /\ job'[2] = NoJob /\ job' \in [Lanes -> JobRecords]
            BY <3>1, <3>3, DownIs DEF Lanes
        <3> QED
            BY <3>3, <3>4
    <2> QED
        BY <2>1, <2>2
<1>4. gate' \in Gates /\ gate'.at = "starting" /\ gate'.s3 = gate.s3
    BY <1>1 DEF ProcessShape, Gates
<1> QED
    BY <1>3, <1>4

LEMMA ProcessShapeStep ==
    ASSUME ProcessShape, [Next]_vars PROVE ProcessShape'
<1>1. CASE Page
    BY <1>1, PageShape, RestartShape DEF Page
<1>2. CASE Orchestrate
    BY <1>2, OrchestrateShape
<1>3. CASE Exit \/ GiveUp \/ Crash
    <2>1. gate' = Down /\ job' = NoJobs /\ asked' \subseteq Configs /\ UNCHANGED <<env, box, page>>
        BY <1>3 DEF Exit, GiveUp, Crash, Gone, ProcessShape
    <2> QED
        BY <2>1, DownIs DEF ProcessShape
<1>4. CASE Shutdown \/ CheckBucket \/ Started
    BY <1>4, DownIs DEF Shutdown, CheckBucket, Started, ProcessShape, Gates
<1>5. CASE Boot
    BY <1>5, BootEffect DEF Boot, ProcessShape
<1>6. CASE Connect
    BY <1>6, ConnectEffect DEF Connect, ProcessShape
<1>7. CASE Migrate \/ UNCHANGED vars
    BY <1>7 DEF Migrate, vars, ProcessShape
<1> QED
    BY <1>1, <1>2, <1>3, <1>4, <1>5, <1>6, <1>7 DEF Next, Process

-----------------------------------------------------------------------------
(* Where the files are. *)

LEMMA FilesInit == Init => FilesInv
    BY DEF Init, MigrationInit, Down, NoUnpack, FilesInv, FilesAreFound

\* A step that neither looks for the bucket nor puts a file leaves the files where they are read.
LEMMA FilesStay ==
    ASSUME FilesInv, UNCHANGED <<files, unpack>>, gate'.s3 = gate.s3,
           gate'.at = "down" => gate.at = "down"
    PROVE  FilesInv'
    BY DEF FilesInv, FilesAreFound, Place

LEMMA FilesMigrate ==
    ASSUME MigrationShape, FilesInv, Migrate PROVE FilesInv'
<1>1. Serving /\ gate' = gate
    BY DEF Migrate
<1>2. CASE UNCHANGED <<files, unpack>>
    BY <1>1, <1>2, FilesStay
<1>3. CASE OpenArchive(gate.s3 # "checking")
    <2> DEFINE settled == unpack.settled /\ gate.s3 # "checking"
               busy == TRUE
               a == [unpack EXCEPT !.busy = busy]
               b == [a EXCEPT !.left = archive]
    <2>1. unpack' = [b EXCEPT !.settled = settled] /\ files' = files
        BY <1>3 DEF OpenArchive
    <2> HIDE DEF settled, busy
    <2>2. a = [busy |-> busy, left |-> unpack.left, put |-> unpack.put, settled |-> unpack.settled]
        BY DEF MigrationShape, Unpacks
    <2> HIDE DEF a
    <2>3. b = [busy |-> busy, left |-> archive, put |-> unpack.put, settled |-> unpack.settled]
        BY <2>2
    <2> HIDE DEF b
    <2>4. unpack'.put = unpack.put /\ unpack'.settled = settled
        BY <2>1, <2>3
    <2>5. unpack'.settled => unpack.settled /\ gate.s3 # "checking"
        BY <2>4 DEF settled
    <2> QED
        BY <1>1, <2>1, <2>4, <2>5 DEF FilesInv, FilesAreFound, Place, Serving
<1>4. CASE PutFile(PutPlace)
    <2> DEFINE f == CHOOSE f \in unpack.left : TRUE
    <2>1. /\ unpack.busy
          /\ unpack'.settled = unpack.settled
          /\ \/ unpack'.put = unpack.put /\ files' = files
             \/ /\ unpack'.put = unpack.put \cup {f}
                /\ files' = [files EXCEPT ![PutPlace] = @ \cup {f}]
        BY <1>4 DEF PutFile, MigrationShape, Unpacks
    <2> HIDE DEF f
    <2>2. PutPlace = Place /\ Place' = Place /\ Place \in {"local", "s3"}
        BY <1>1 DEF PutPlace, Place
    <2>3. unpack.settled => unpack'.put \subseteq files'[Place]
        BY <2>1, <2>2 DEF FilesInv, FilesAreFound, MigrationShape
    <2> QED
        BY <1>1, <2>1, <2>2, <2>3 DEF FilesInv, FilesAreFound, Serving
<1> QED
    BY <1>2, <1>3, <1>4
    DEF Migrate, Export, BeginImport, ImportTable, CommitImport, ImportThrows, Write, ExportFiles

LEMMA FilesStep ==
    ASSUME MigrationShape, ProcessShape, FilesInv, [Next]_vars PROVE FilesInv'
<1>1. CASE Migrate
    BY <1>1, FilesMigrate
<1>2. CASE Page
    <2>1. CASE Restart
        <3>1. gate'.s3 = gate.s3 /\ gate'.at = gate.at
            <4>1. CASE Serving
                BY <2>1, <4>1, RestartServed, RequestedEffect
            <4>2. CASE ~Serving
                BY <2>1, <4>2 DEF Restart
            <4> QED
                BY <4>1, <4>2
        <3> QED
            BY <2>1, <3>1, FilesStay DEF Restart, migration
    <2>2. CASE ~Restart
        BY <1>2, <2>2, FilesStay
        DEF Page, LoadStatus, EditDatabase, EditRedis, EditStorage, Edited, Save, CloseModal, Reload, migration
    <2> QED
        BY <2>1, <2>2
<1>3. CASE Orchestrate
    <2>1. PICK n \in Lanes : RemoveService(n) \/ StartService(n) \/ Orchestrated(n)
        BY <1>3 DEF Orchestrate
    <2>2. gate'.s3 = gate.s3 /\ gate'.at = gate.at
        BY <2>1, OrchestratedEffect DEF RemoveService, StartService
    <2>3. UNCHANGED <<files, unpack>>
        BY <2>1 DEF RemoveService, StartService, Orchestrated, migration
    <2> QED
        BY <2>2, <2>3, FilesStay
<1>4. CASE Exit \/ GiveUp \/ Crash
    <2>1. gate' = Down /\ unpack' = NoUnpack
        BY <1>4 DEF Exit, GiveUp, Crash, Gone, Interrupted
    <2> QED
        BY <2>1 DEF FilesInv, FilesAreFound, Down, NoUnpack
<1>5. CASE Shutdown \/ Started
    BY <1>5, FilesStay DEF Shutdown, Started, migration, ProcessShape, Gates
<1>6. CASE Boot
    <2>1. unpack = NoUnpack /\ unpack' = unpack /\ gate'.at = "connecting"
        BY <1>6, BootEffect DEF Boot, migration, FilesInv
    <2> QED
        BY <2>1 DEF FilesInv, FilesAreFound, NoUnpack
<1>7. CASE CheckBucket
    <2>1. /\ gate.s3 = "checking" /\ UNCHANGED <<files, unpack>>
          /\ gate'.s3 # "checking" /\ gate'.at = gate.at
        BY <1>7 DEF CheckBucket, migration, ProcessShape, Gates
    <2>2. unpack.settled => ~unpack.busy /\ unpack.put = {}
        BY <2>1 DEF FilesInv
    <2> QED
        BY <2>1, <2>2 DEF FilesInv, FilesAreFound
<1>8. CASE Connect
    BY <1>8, ConnectEffect, FilesStay DEF Connect, migration
<1>9. CASE UNCHANGED vars
    BY <1>9, FilesStay DEF vars, migration
<1> QED
    BY <1>1, <1>2, <1>3, <1>4, <1>5, <1>6, <1>7, <1>8, <1>9 DEF Next, Process

-----------------------------------------------------------------------------
(* What a restart was asked for is there when the process boots. *)

LEMMA BootInit == Init => BootInv
<1> SUFFICES ASSUME Init PROVE BootInv
    OBVIOUS
<1>1. job[2] = NoJob
    BY DownIs DEF Init
<1>2. "postgres" \notin Wanted(Off)
    BY DEF Wanted, Off, Services
<1> QED
    BY <1>1, <1>2 DEF Init, NewPage, BootInv

\* The page, the config and the promise stay.
LEMMA BootStays ==
    ASSUME BootInv, UNCHANGED <<page, asked, job, box>>, env'.config = env.config,
           \A s \in Services : IsToStart(s) => gate'.at = "up" /\ ~gate'.timer
    PROVE  BootInv'
    BY DEF BootInv, IsToStart, Services

\* No promise is left.
LEMMA NothingAsked ==
    ASSUME asked' = {}, page'.at = "modal" => page'.pending = Wanted(env'.config)
    PROVE  BootInv'
    BY DEF BootInv

LEMMA BootPage ==
    ASSUME ProcessShape, BootInv, LoadStatus \/ EditDatabase \/ EditRedis \/ EditStorage \/ Save
                                  \/ CloseModal \/ Reload
    PROVE  BootInv'
<1>1. UNCHANGED <<asked, job, box, gate>>
    BY DEF LoadStatus, EditDatabase, EditRedis, EditStorage, Edited, Save, CloseModal, Reload
<1>2. page'.at = "modal" => page'.pending = Wanted(env'.config)
    <2>1. CASE LoadStatus
        BY <2>1 DEF LoadStatus, ProcessShape, Pages
    <2>2. CASE EditDatabase \/ EditRedis \/ EditStorage
        BY <2>2 DEF EditDatabase, EditRedis, EditStorage, Edited, ProcessShape, Pages
    <2>3. CASE Save
        <3>1. page.at = "editing" /\ env'.config = page.form
            BY <2>3 DEF Save, SaveConfig, ProcessShape
        <3>2. page' = page \/ page'.pending = Wanted(page.form)
            BY <2>3 DEF Save, ProcessShape, Pages
        <3> QED
            BY <3>1, <3>2
    <2>4. CASE CloseModal \/ Reload
        BY <2>4 DEF CloseModal, Reload, NewPage, ProcessShape, Pages
    <2> QED
        BY <2>1, <2>2, <2>3, <2>4
<1> QED
    BY <1>1, <1>2 DEF BootInv, IsToStart

LEMMA BootRestart ==
    ASSUME ProcessShape, BootInv, Restart PROVE BootInv'
<1>1. page.at = "modal" /\ page'.at = "waiting" /\ box' = box
    BY DEF Restart, ProcessShape, Pages
<1>2. CASE Serving
    <2>1. /\ Lane \in Lanes /\ Requested(Lane)
          /\ asked' = IF gate.at = "up" /\ ~gate.timer /\ gate.docker /\ job = NoJobs
                      THEN {env.config} ELSE {}
        BY <1>2, RestartServed
    <2>2. CASE gate.at = "up" /\ ~gate.timer /\ gate.docker /\ job = NoJobs
        <3>1. Lane = 1 /\ 1 \in Lanes /\ 2 \in Lanes \ {1} /\ job[2] = NoJob
            BY <2>2, DownIs DEF Lane, Lanes
        <3>2. Requested(1)
            BY <2>1, <3>1
        <3>3. /\ job'[1].for = "restart" /\ gate' = gate /\ job'[2] = NoJob
              /\ Listed(job'[1].start) = page.pending /\ Listed(job'[1].remove) = ToRemove
            BY <2>2, <3>1, <3>2, RequestedEffect
        <3>4. /\ asked' = {env.config} /\ Listed(job'[1].start) = Wanted(env.config)
              /\ Listed(job'[1].remove) = page.previous \ Wanted(env.config)
            BY <1>1, <2>1, <2>2, <3>3 DEF ToRemove, BootInv
        <3> QED
            BY <1>1, <2>2, <3>3, <3>4 DEF BootInv, IsToStart
    <2>3. CASE ~(gate.at = "up" /\ ~gate.timer /\ gate.docker /\ job = NoJobs)
        BY <1>1, <2>1, <2>3, NothingAsked
    <2> QED
        BY <2>2, <2>3
<1>3. CASE ~Serving
    BY <1>1, <1>3 DEF Restart, BootInv, IsToStart
<1> QED
    BY <1>2, <1>3

\* While something is asked for, only the first lane is taken.
LEMMA FirstLane ==
    ASSUME BootInv, asked # {}, NEW n \in Lanes, job[n] # NoJob
    PROVE  n = 1
    BY DEF BootInv, Lanes

LEMMA BootOrchestrate ==
    ASSUME ProcessShape, BootInv, Orchestrate PROVE BootInv'
<1>1. PICK n \in Lanes : RemoveService(n) \/ StartService(n) \/ Orchestrated(n)
    BY DEF Orchestrate
<1>2. job[n] # NoJob /\ UNCHANGED <<env, page>> /\ (asked' = asked \/ asked' = {})
    BY <1>1, RemoveServiceEffect, StartServiceEffect, OrchestratedEffect
<1>3. CASE asked' = {}
    BY <1>2, <1>3, NothingAsked DEF BootInv
<1>4. CASE asked' # {}
    <2>1. n = 1 /\ asked' = asked /\ 1 \in Lanes /\ 2 \in Lanes \ {1}
        BY <1>2, <1>4, FirstLane DEF Lanes
    <2>2. job[2] = NoJob
        BY <1>4, <2>1 DEF BootInv
    <2>3. CASE RemoveService(1)
        <3> DEFINE s == Head(job[1].remove)
        <3>1. /\ s \in Listed(job[1].remove) /\ Listed(job'[1].remove) \subseteq Listed(job[1].remove)
              /\ job'[1].for = job[1].for /\ job'[1].start = job[1].start /\ job'[2] = job[2]
              /\ \A x \in Services \ {s} : box'[x] = box[x]
              /\ UNCHANGED <<env, gate, page>>
            BY <2>1, <2>3, RemoveServiceEffect
        <3> HIDE DEF s
        <3> QED
            BY <2>1, <3>1 DEF BootInv, IsToStart, Wanted
    <2>4. CASE StartService(1)
        <3> DEFINE s == Head(job[1].start)
        <3>1. /\ Listed(job[1].start) = {s} \cup Listed(job'[1].start)
              /\ job'[1].for = job[1].for /\ job'[1].remove = job[1].remove /\ job'[2] = job[2]
              /\ \A x \in Services \ {s} : box'[x] = box[x]
              /\ box'[s] = "running" \/ asked' = {}
              /\ UNCHANGED <<env, gate, page>>
            BY <2>1, <2>4, StartServiceEffect
        <3> HIDE DEF s
        <3> QED
            BY <1>4, <2>1, <3>1 DEF BootInv, IsToStart, Wanted
    <2>5. CASE Orchestrated(1)
        <3>1. /\ job[1].start = << >> /\ job'[1] = NoJob /\ job'[2] = job[2]
              /\ UNCHANGED <<env, page, asked, box>>
            BY <2>1, <2>5, OrchestratedEffect
        <3>2. Listed(job[1].start) = {} /\ Listed(job'[1].remove) = {}
            BY <3>1, DownIs DEF Listed
        <3> QED
            BY <3>1, <3>2 DEF BootInv, IsToStart
    <2> QED
        BY <1>1, <2>1, <2>3, <2>4, <2>5
<1> QED
    BY <1>3, <1>4

LEMMA BootStep ==
    ASSUME ProcessShape, BootInv, [Next]_vars PROVE BootInv'
<1>1. CASE Page
    BY <1>1, BootPage, BootRestart DEF Page
<1>2. CASE Orchestrate
    BY <1>2, BootOrchestrate
<1>3. CASE Exit \/ GiveUp
    <2>1. gate.at \in {"closing", "connecting"} /\ job' = NoJobs /\ UNCHANGED <<env, page, asked, box>>
        BY <1>3 DEF Exit, GiveUp, Gone
    <2>2. Listed(job'[1].remove) = {} /\ job'[2] = NoJob
        BY <2>1, DownIs DEF Listed
    <2> QED
        BY <2>1, <2>2 DEF BootInv, IsToStart
<1>4. CASE Crash
    BY <1>4, NothingAsked DEF Crash, BootInv
<1>5. CASE Shutdown \/ CheckBucket \/ Boot
    <2>1. UNCHANGED <<page, asked, job, box, env>>
        BY <1>5 DEF Shutdown, CheckBucket, Boot
    <2>2. \A s \in Services : IsToStart(s) => gate'.at = "up" /\ ~gate'.timer
        BY <1>5 DEF Shutdown, CheckBucket, Boot, IsToStart, ProcessShape, Gates
    <2> QED
        BY <2>1, <2>2, BootStays
<1>6. CASE Connect \/ Started
    <2>1. /\ gate.at \in {"connecting", "starting"} /\ UNCHANGED <<env, page, asked, box>>
          /\ job'[1].remove = << >> /\ job'[2] = NoJob
        BY <1>6, ConnectEffect, DownIs DEF Connect, Started
    <2>2. Listed(job'[1].remove) = {}
        BY <2>1 DEF Listed
    <2> QED
        BY <2>1, <2>2 DEF BootInv, IsToStart
<1>7. CASE Migrate \/ UNCHANGED vars
    BY <1>7, BootStays DEF Migrate, vars, IsToStart
<1> QED
    BY <1>1, <1>2, <1>3, <1>4, <1>5, <1>6, <1>7 DEF Next, Process

-----------------------------------------------------------------------------
(* The theorems. *)

LEMMA InfrastructureInvariant == Spec => []IInv
<1>1. Init => IInv
    BY RowsInit, ProcessInit, FilesInit, BootInit DEF IInv
<1>2. IInv /\ [Next]_vars => IInv'
    BY RowsStep, ProcessShapeStep, FilesStep, BootStep DEF IInv
<1> QED
    BY <1>1, <1>2, PTL DEF Spec

\* Every variable has its type in every reachable state.
THEOREM InfrastructureTypes == Spec => []TypeOK
<1>1. IInv => TypeOK
    <2> SUFFICES ASSUME IInv PROVE TypeOK
        OBVIOUS
    <2>1. MigrationTypeOK
        BY DEF IInv, MigrationShape, MigrationTypeOK, Imports, Unpacks
    <2> QED
        BY <2>1 DEF IInv, ProcessShape, TypeOK, Gates, JobRecords, Pages
<1> QED
    BY <1>1, InfrastructureInvariant, PTL

\* Whichever inserts fail, and whatever crashes or writes on the same SQLite connection in the
\* middle of an import: when it did not answer the sessions and webhooks are those of before, and
\* when it did they are those of the backup but the ones it warned of, or those of before and it
\* warned.
THEOREM ImportsTell == Spec => []ImportTells
<1>1. IInv => ImportTells
    BY DEF IInv, RowsInv
<1> QED
    BY <1>1, InfrastructureInvariant, PTL

\* A file whose import this process has answered is found where the process reads, unless the
\* bucket was still looked for when the import began.
THEOREM ImportedFilesAreFound == Spec => []FilesAreFound
<1>1. IInv => FilesAreFound
    BY DEF IInv, FilesInv
<1> QED
    BY <1>1, InfrastructureInvariant, PTL

\* A process that boots with the config a restart was asked for, no call to Docker having
\* failed, finds its built-in database running.
THEOREM BootsAreReady == Spec => []BootIsReady
<1>1. IInv => BootIsReady
    <2> SUFFICES ASSUME IInv, gate.at = "connecting", gate.with \in asked, gate.with["postgres"].builtIn
                 PROVE  IsDbReady
        BY DEF BootIsReady
    <2>1. CASE ~gate.with["postgres"].on
        BY <2>1 DEF IsDbReady, Database
    <2>2. CASE gate.with["postgres"].on
        <3>1. "postgres" \in Wanted(gate.with)
            BY <2>2 DEF Wanted, Services
        <3>2. box["postgres"] = "running"
            BY <3>1 DEF IInv, BootInv, IsToStart
        <3> QED
            BY <3>2 DEF IsDbReady, Reachable
    <2> QED
        BY <2>1, <2>2
<1> QED
    BY <1>1, InfrastructureInvariant, PTL
=============================================================================
