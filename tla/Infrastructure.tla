--------------------------- MODULE Infrastructure ---------------------------
(***************************************************************************)
(* How the gateway is reconfigured: the dashboard's page (Infrastructure.tsx) *)
(* saves a config file, asks for a restart that removes and starts the     *)
(* containers of the built-in services (infra.controller.ts,               *)
(* docker.service.ts), the process ends three seconds later                *)
(* (shutdown.service.ts), and the container's restart policy boots it with *)
(* the file (main.ts, app.module.ts).  The data and the files are moved    *)
(* with DataMigration, which this module composes.                         *)
(***************************************************************************)
EXTENDS DataMigration

CONSTANTS Pinned,    \* services whose type the process's own environment gives, as "off"
          External,  \* services that answer at the address the form gives
          Sockets    \* whether the Docker socket answers at a boot: a subset of BOOLEAN

ASSUME InfrastructureAssumption ==
    Pinned \cup External \subseteq {"postgres", "redis", "minio"} /\ Sockets \subseteq BOOLEAN

VARIABLES
    env,     \* data/.env.generated, and the request left for a script of the host
    box,     \* the containers
    gate,    \* the process: where it is, the config it runs with, Docker, S3, the timer
    job,     \* the orchestrations in flight: that of a boot or of a request, and that of
             \* another request, which nothing holds back
    page,    \* the dashboard's page
    asked    \* history: the config that a restart was last asked for, unless
             \* something has failed since, or the process was ending already, or
             \* another request was being served

vars == <<migration, used, env, box, gate, job, page, asked>>

Services == {"postgres", "redis", "minio"}
Order == <<"postgres", "redis", "minio">>
BootOrder == <<"redis", "postgres", "minio">>

Settings == [on : BOOLEAN, builtIn : BOOLEAN]
Configs == [Services -> Settings]
Off == [s \in Services |-> [on |-> FALSE, builtIn |-> FALSE]]

\* The profiles that saveConfig answers, and the flags that the boot looks at.
Wanted(config) == {s \in Services : config[s].on /\ config[s].builtIn}
Flagged(config) == {s \in Services : config[s].builtIn}
Kept(s, set) == IF s \in set THEN <<s>> ELSE <<>>
InOrder(order, set) == Kept(order[1], set) \o Kept(order[2], set) \o Kept(order[3], set)

NoJob == [for |-> "none", remove |-> <<>>, start |-> <<>>]
Lanes == {1, 2}
NoJobs == [n \in Lanes |-> NoJob]
Down == [at |-> "down", with |-> Off, docker |-> FALSE, s3 |-> "local", timer |-> FALSE]
NewPage == [at |-> "loading", form |-> Off, seen |-> Off, previous |-> {}, pending |-> {}]

Serving == gate.at \in {"up", "closing"}
Reachable(s) == IF gate.with[s].builtIn THEN box[s] = "running" ELSE s \in External

\* StorageService: S3 when it is configured and the bucket was found at the boot, to read...
Place == IF gate.s3 = "available" THEN "s3" ELSE "local"

\* Mutant: written to where the config says.
PutPlaceByType == IF gate.with["minio"].on THEN "s3" ELSE "local"

\* ... and to write.
PutPlace == IF gate.s3 = "available" THEN "s3" ELSE "local"

Database == IF gate.with["postgres"].on THEN "postgres" ELSE "sqlite"

\* The first run writes a config with every service off.
Init ==
    /\ MigrationInit
    /\ env = [config |-> Off, request |-> FALSE]
    /\ box = [s \in Services |-> "none"]
    /\ gate = [Down EXCEPT !.at = "up", !.docker = TRUE]
    /\ job = NoJobs /\ page = NewPage /\ asked = {Off}
    /\ used = [what \in DOMAIN Limit |-> 0]

----------------------------------------------------------------------------
(* The page.                                                                *)

\* getStatus: the types the process runs with.
Status == [s \in Services |-> [on |-> gate.with[s].on, builtIn |-> FALSE]]

\* The effect on a new status: the types of the database and the storage go into the form; the
\* switches for Redis and for what is built in are never loaded, and Queue is always off.
Applied(form) == [s \in Services |->
                     IF s = "redis" THEN form[s] ELSE [form[s] EXCEPT !.on = gate.with[s].on]]

\* The status comes, or comes again and differs: what has been typed in is overwritten.
LoadStatus ==
    /\ Serving /\ page.at \in {"loading", "editing"}
    /\ page.at = "editing" => page.seen # Status
    /\ page' = [page EXCEPT !.at = "editing", !.form = Applied(@), !.seen = Status]
    /\ UNCHANGED <<migration, used, env, box, gate, job, asked>>

Edited(s, setting) ==
    /\ page.at = "editing" /\ Use("edits")
    /\ page' = [page EXCEPT !.form[s] = setting]
    /\ UNCHANGED <<migration, env, box, gate, job, asked>>

\* The switch for the built-in server is shown only while the service is on, and keeps its value
\* when it is turned off.
EditDatabase == \E on, builtIn \in BOOLEAN :
    /\ builtIn # page.form["postgres"].builtIn => on
    /\ Edited("postgres", [on |-> on, builtIn |-> builtIn])

EditRedis == \E on, builtIn \in BOOLEAN :
    /\ builtIn # page.form["redis"].builtIn => on
    /\ Edited("redis", [on |-> on, builtIn |-> builtIn])

EditStorage == \E on, builtIn \in BOOLEAN :
    /\ builtIn # page.form["minio"].builtIn => on
    /\ Edited("minio", [on |-> on, builtIn |-> builtIn])

\* saveConfig: the whole file is written anew.
SaveConfig(form) == env' = [env EXCEPT !.config = form]

\* handleSaveConfig: the page remembers the profiles of its last two saves, unless the answer
\* is lost.
Save ==
    /\ page.at = "editing" /\ Serving /\ Use("saves")
    /\ SaveConfig(page.form)
    /\ \/ page' = [page EXCEPT !.at = "modal", !.previous = page.pending,
                               !.pending = Wanted(page.form)]
       \/ UNCHANGED page
    /\ UNCHANGED <<migration, box, gate, job, asked>>

\* "Later".
CloseModal ==
    /\ page.at = "modal"
    /\ page' = [page EXCEPT !.at = "editing"]
    /\ UNCHANGED <<migration, used, env, box, gate, job, asked>>

ToRemove == page.previous \ page.pending

\* Mutant: the shutdown is scheduled before the containers are looked after.
RequestedFirst(n) ==
    /\ job' = [job EXCEPT ![n] = [NoJob EXCEPT !.for = "restart",
                                               !.remove = InOrder(Order, ToRemove),
                                               !.start = InOrder(Order, page.pending)]]
    /\ gate' = [gate EXCEPT !.timer = TRUE]
    /\ UNCHANGED env

\* requestRestart: with Docker the containers first; without it a request is left in a file,
\* which nothing in the repository reads.
Requested(n) ==
    IF gate.docker
    THEN /\ job' = [job EXCEPT ![n] = [NoJob EXCEPT !.for = "restart",
                                                    !.remove = InOrder(Order, ToRemove),
                                                    !.start = InOrder(Order, page.pending)]]
         /\ UNCHANGED <<env, gate>>
    ELSE /\ env' = [env EXCEPT !.request = TRUE]
         /\ gate' = [gate EXCEPT !.timer = TRUE]
         /\ UNCHANGED job

\* handleRestart: a request that fails is taken for the server going down.  One that comes while
\* another is served is served beside it; two at once are the bound.
Restart ==
    /\ page.at = "modal" /\ Use("restarts")
    /\ page' = [page EXCEPT !.at = "waiting"]
    /\ IF Serving
       THEN LET n == IF job[1] = NoJob THEN 1 ELSE 2 IN
            /\ job[n] = NoJob /\ Requested(n)
            /\ asked' = IF gate.at = "up" /\ ~gate.timer /\ gate.docker /\ job = NoJobs
                        THEN {env.config} ELSE {}
       ELSE UNCHANGED <<env, gate, job, asked>>
    /\ UNCHANGED <<migration, box>>

\* checkServerHealth: an answer, which may still be the old process's, or sixty failures and the
\* button, or the user does not wait; the page is loaded anew and has forgotten the profiles.
Reload ==
    /\ page.at = "waiting"
    /\ page' = NewPage
    /\ UNCHANGED <<migration, used, env, box, gate, job, asked>>

----------------------------------------------------------------------------
(* The containers.                                                          *)

\* getContainerByService.
Exists(s) == box[s] # "none"

\* createService can fail before the container is there, or when it is started.
StartLeaves(s) == {box[s], "stopped"}

\* removeService: found, stopped, removed; its volume keeps the data.  A failure is reported.
RemoveService(n) ==
    /\ job[n].remove # <<>>
    /\ LET s == Head(job[n].remove) IN
       \/ /\ box' = [box EXCEPT ![s] = "none"]
          /\ job' = [job EXCEPT ![n].remove = Tail(@)]
          /\ UNCHANGED <<used, asked>>
       \/ /\ Exists(s) /\ Use("fails") /\ asked' = {}
          /\ job' = [job EXCEPT ![n].remove = Tail(@)]
          /\ \E left \in {box[s], "stopped"} : box' = [box EXCEPT ![s] = left]
    /\ UNCHANGED <<migration, env, gate, page>>

\* startService and createService: the container is started, or made from its image and started.
\* A failure (no image, no network) is reported, and the next service follows.
StartService(n) ==
    /\ job[n].remove = <<>> /\ job[n].start # <<>>
    /\ LET s == Head(job[n].start) IN
       \/ /\ box' = [box EXCEPT ![s] = "running"]
          /\ job' = [job EXCEPT ![n].start = Tail(@)]
          /\ UNCHANGED <<used, asked>>
       \/ /\ box[s] # "running" /\ Use("fails") /\ asked' = {}
          /\ job' = [job EXCEPT ![n].start = Tail(@)]
          /\ \E left \in StartLeaves(s) : box' = [box EXCEPT ![s] = left]
    /\ UNCHANGED <<migration, env, gate, page>>

IsThrough(n) == job[n].remove = <<>> /\ job[n].start = <<>>

\* The request has been served: the shutdown follows, whatever could not be started.
Orchestrated(n) ==
    /\ job[n].for = "restart" /\ IsThrough(n)
    /\ job' = [job EXCEPT ![n] = NoJob]
    /\ gate' = [gate EXCEPT !.timer = TRUE]
    /\ UNCHANGED <<migration, used, env, box, page, asked>>

----------------------------------------------------------------------------
(* The process.                                                             *)

Shutdown ==
    /\ gate.timer /\ gate.at = "up"
    /\ gate' = [gate EXCEPT !.at = "closing"]
    /\ UNCHANGED <<migration, used, env, box, job, page, asked>>

Gone == gate' = Down /\ job' = NoJobs /\ Interrupted

\* Mutant: the process ends only when the application has closed without an error.
ExitIfClosed ==
    /\ gate.at = "closing"
    /\ \/ Gone /\ UNCHANGED used
       \/ /\ Use("fails")
          /\ gate' = [gate EXCEPT !.at = "failed"]
          /\ UNCHANGED <<migration, job>>
    /\ UNCHANGED <<env, box, page, asked>>

\* The application is closed, or closing it throws; the process ends.
Exit ==
    /\ gate.at = "closing"
    /\ Gone
    /\ UNCHANGED <<used, env, box, page, asked>>

Crash ==
    /\ gate.at # "down" /\ Use("crashes")
    /\ Gone
    /\ asked' = {}
    /\ UNCHANGED <<env, box, page>>

\* The process environment comes before the file.
Loaded == [s \in Services |->
              [on |-> env.config[s].on /\ s \notin Pinned, builtIn |-> env.config[s].builtIn]]

\* The restart policy starts the process; with S3 configured the bucket is looked for meanwhile.
Boot ==
    /\ gate.at = "down"
    /\ gate' = [Down EXCEPT !.at = "connecting", !.with = Loaded,
                            !.s3 = IF Loaded["minio"].on /\ (Loaded["minio"].builtIn
                                                             \/ "minio" \in External)
                                   THEN "checking" ELSE "local"]
    /\ UNCHANGED <<migration, used, env, box, job, page, asked>>

\* initializeS3Bucket: found or made, or the process stays with the local directory for good.
CheckBucket ==
    /\ gate.s3 = "checking"
    /\ gate' = [gate EXCEPT !.s3 = IF Reachable("minio") THEN "available" ELSE "local"]
    /\ UNCHANGED <<migration, used, env, box, job, page, asked>>

IsDbReady == Database = "sqlite" \/ Reachable("postgres")

\* The database is connected before any module is initialised; then Docker is looked for, and
\* the services that are flagged are started.
Connect ==
    /\ gate.at = "connecting" /\ IsDbReady
    /\ \E socket \in Sockets :
          /\ gate' = [gate EXCEPT !.at = "starting", !.docker = socket]
          /\ job' = IF ~socket THEN NoJobs
                    ELSE [NoJobs EXCEPT ![1] =
                             [for |-> "boot", remove |-> <<>>,
                              start |-> InOrder(BootOrder, Flagged(gate.with))]]
    /\ UNCHANGED <<migration, used, env, box, page, asked>>

\* Ten attempts have failed: the boot is given up, and the next one begins.
GiveUp ==
    /\ gate.at = "connecting" /\ ~IsDbReady
    /\ Gone
    /\ UNCHANGED <<used, env, box, page, asked>>

Started ==
    /\ gate.at = "starting" /\ IsThrough(1)
    /\ gate' = [gate EXCEPT !.at = "up"]
    /\ job' = NoJobs
    /\ UNCHANGED <<migration, used, env, box, page, asked>>

----------------------------------------------------------------------------

Migrate ==
    /\ Serving
    /\ \/ Export(Database)
       \/ BeginImport(Database) \/ ImportTable \/ CommitImport \/ ImportThrows
       \/ \E r \in Rows : Write(Database, r)
       \/ ExportFiles(Place) \/ OpenArchive(gate.s3 # "checking") \/ PutFile(PutPlace)
    /\ UNCHANGED <<env, box, gate, job, page, asked>>

Page == LoadStatus \/ EditDatabase \/ EditRedis \/ EditStorage \/ Save \/ CloseModal
        \/ Restart \/ Reload

Orchestrate == \E n \in Lanes : RemoveService(n) \/ StartService(n) \/ Orchestrated(n)
Process == Shutdown \/ Exit \/ Boot \/ CheckBucket \/ Connect \/ GiveUp \/ Started

Next == Migrate \/ Page \/ Orchestrate \/ Process \/ Crash

\* Docker's calls return, a process that closes ends, and the restart policy boots it again.
Fairness == WF_vars(Orchestrate) /\ WF_vars(Process)

Spec == Init /\ [][Next]_vars /\ Fairness

----------------------------------------------------------------------------
(* Properties.                                                              *)

\* Every variable has its type.
TypeOK ==
    /\ MigrationTypeOK
    /\ env.config \in Configs /\ env.request \in BOOLEAN
    /\ box \in [Services -> {"none", "stopped", "running"}]
    /\ gate.at \in {"down", "connecting", "starting", "up", "closing"} /\ gate.with \in Configs
    /\ gate.s3 \in {"local", "checking", "available"}
    /\ \A n \in Lanes : job[n].for \in {"none", "restart", "boot"} /\ job[n].start \in Seq(Services)
    /\ page.at \in {"loading", "editing", "modal", "waiting"} /\ page.form \in Configs
    /\ page.previous \cup page.pending \subseteq Services /\ asked \subseteq Configs

\* "Schedule graceful shutdown after delay to allow response and container orchestration"
\* (infra.controller.ts): a process that boots with the config a restart was asked for, alone and
\* no call to Docker having failed, finds its built-in database running.
BootIsReady ==
    gate.at = "connecting" /\ gate.with \in asked /\ gate.with["postgres"].builtIn => IsDbReady

\* A file whose import this process has answered is found where the process reads, unless the
\* bucket was still looked for when the import began.
FilesAreFound == unpack.settled => unpack.put \subseteq files[Place]

\* The database of this boot is one that nobody starts.
IsStuck == gate.at = "connecting" /\ ~IsDbReady

\* Once a restart has been asked for the gateway comes up again, whatever Docker did, unless the
\* database it has been configured for is not there: then it boots for ever.
ComesBack == gate.timer \/ gate.at # "up" ~> (gate.at = "up" /\ ~gate.timer) \/ IsStuck

\* "First, remove containers for disabled services" (infra.controller.ts): once a restart for a
\* config has gone through, no built-in service runs that the config does not want.
DisabledAreRemoved ==
    gate.at = "up" /\ gate.with \in asked /\ ~gate.timer /\ job = NoJobs =>
        {s \in Services : box[s] # "none"} \subseteq Wanted(gate.with)

\* "Step 2: Change database configuration in .env or Dashboard. Step 3: Restart with new
\* configuration" (docs/14-migration-guide.md): a process that boots runs what was saved.
SavedIsApplied ==
    gate.at = "connecting" => \A s \in Services : gate.with[s].on = env.config[s].on
=============================================================================
