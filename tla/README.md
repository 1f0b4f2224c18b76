# A verification model of whatsapp_group

TLA+ modules, TLC configurations and TLAPS proofs about the programs of this
repository. Paths below are relative to `src/`.

## 1. The system

The repository runs the WhatsApp groups of fleet customers as ticket desks.

    WhatsApp --- gateway (openwa/, NestJS)
                    | webhooks: every message and reaction of a session
                    v
                 tenant backend (backend/, FastAPI, one per client)
                    | commands (/payment, /close, ...)   ^ billing status, cached 60 s
                    v                                    |
                 billing (billing/, FastAPI, one) <------+
                    | M-Pesa pushes and callbacks; starts and stops the tenants'
                    | containers; sends to the groups through the gateway

| component | state | operations | talks to |
|---|---|---|---|
| webhook delivery and outbox (`openwa/src/modules/webhook`) | `webhooks`, `webhook_outbox`; in memory the `draining` flag and the `outages` map | `dispatch`, `deliverWebhook`, the timer's `drain`, alerts, edits of a webhook | called fire-and-forget by the session service; POSTs to the backend |
| webhook queue mode (`modules/queue`) | BullMQ jobs | the same deliveries, retried by the library | optional branch of `dispatch` |
| session service (`modules/session`) | `sessions`; in memory the engines map, reconnect timers, a flag of the logout recovery | start, stop, restart, relink, delete, boot; an engine's events, reconnects, recovery from a logout | engine adapters, webhooks, hooks |
| engine adapters (`openwa/src/engine`): Baileys, whatsapp-web.js | the connection, saved logins, a contact directory and its file, messages kept for replies, history files | connect, log out, send; messages, media, contacts and history that come in | WhatsApp, session service |
| messages and bulk sending (`modules/message`), resource controllers | `messages`, `message_batches`; in memory a flag per batch | send and reply with a row, batches with progress and cancel, about fifty operations that go to the engine | engines map, adapters, hooks |
| hooks and plugins (`openwa/src/core`, `modules/plugins`) | plugins map, handlers per event, a registry file | enable, disable, configure, execute | session service, messages |
| infrastructure, storage, boot (`modules/infra`, `modules/docker`, `common/storage`, `config`, `main.ts`, the dashboard's page) | `data/.env.generated`, containers, the data database, stored files | save, restart with orchestration, boot, export and import of rows and files | Docker, databases, S3, the dashboard |
| keys, audit, settings, statistics, health, events, cache | rows, nothing that interleaves | single reads and writes | the dashboard |
| text ingest (`backend/main.py` 687-850) | `incidents`, `incident_updates` | classify a message into issues, route each to a ticket, insert | gateway (in), classifier, billing gate |
| media ingest and linking (`backend/main.py` 853-1245, 1752-1916) | `media`, files | find the ticket a photo belongs to, sweep, reassign | gateway, text ingest |
| reactions, status, reminders (`backend/main.py` 572-670, 1285-1384, 2003-2180) | `incidents.status`, history, reminder columns | reaction, dashboard edit, periodic checks | gateway |
| renewals (`billing/main.py` 238-330, 552-900, 1088-1125; `scheduler.py`) | `clients`, `payment_sessions`, `payments` | daily check, /payment conversation, M-Pesa callback, close, reactivate, edit | M-Pesa, gateway, Docker |
| ticket groups and tier upgrades (`billing/main.py` 338-398, 787-817, 1193-1320) | the JSON list `allowed_ticket_groups`, upgrade requests | add and remove groups, pay an upgrade, reset | backend (cached), M-Pesa |
| containers and nginx, login, statements, site, deployment | none that is read back | | Docker, files |

`PROJECT.json` lists every component with its sources, and the hazards of this
code at the line where each one bites.

### What is hard

Every service is single-threaded and asynchronous: handlers interleave at each
`await` and act afterwards on what they read before. On top of that:

- the gateway gives up waiting for an answer while the backend still works, and
  then sends the message again; a request it counts as failed may have arrived;
- a process may end between two steps: rows stay, memory does not;
- a timer (outbox drain, daily check, reminders) runs beside the handlers on the
  same rows;
- an ORM session keeps the rows as it read them and writes back the columns it
  changed (`expire_on_commit=False`, billing/database.py), so late handlers
  overwrite early ones column by column;
- SQLite has one writer at a time, and a handler keeps the lock while it waits
  for M-Pesa;
- M-Pesa repeats callbacks, and a push it accepted may be reported as failed.

### What correctness means, by component

- delivery: an event is delivered, kept, or logged as given up, and is only lost
  by a crash of the direct attempts; no duplicates of the gateway's own making;
  replay in order; outages end; direct deliveries do not overtake kept ones;
- ingest: an answered message has all its issues in the tables, each once;
  retries change nothing; staff moves lose no text; a plate with an open ticket
  gets no second one;
- renewals: money is credited for the push it was paid for, once; outcomes are
  final; the renewal date moves only with a payment or an edit; grace ends. What a
  paid client would expect beside that, that no later write locks it or takes paid
  time back, the code does not give (see the supplementary configurations);
- sessions: a stopped session stays down, its row says what its engine is, a
  login that was wiped stays wiped, and a session someone wants up is not given up;
- sending: a row for every message and no false SENT, "done" means done (but for
  refusals that an adapter does not look at), a batch's counters add up, a cancel stops the sending, everything is answered;
- what comes in: nothing learned about a contact is forgotten, a reply finds the
  message that the webhooks were given, a backfill finds the history that was kept;
- plugins: a disabled one is silent, an enabled one has its handler once, an event
  reaches every handler it found, whatever comes and goes meanwhile, and once unless
  another is registered; a change of config reaches who listens;
- infrastructure: an import tells what it did not do, a boot after an orchestration
  finds its database, imported files are found, the gateway comes back;
- media (planned): a photo is linked once, and to a ticket of its group;
- status and reminders (planned): the history chains; one reminder per cycle;
- groups and upgrades (planned): no addition is lost, an upgrade is charged once.

## 2. The modules

| module | what it is |
|---|---|
| `EventLedger` | what the gateway promises of a pair of a webhook and an event, without saying how |
| `WebhookDelivery` | direct-mode delivery, the outbox, its drain and alerts, edits, restarts; implements `EventLedger` |
| `WebhookDeliveryProofs` | the inductive invariant; the refinement; the order of a replay; the copies of an event |
| `TicketIngest` | the text handler of a tenant's backend, with the staff's changes of the same rows |
| `TicketIngestProofs` | types and the safety properties |
| `RenewalBilling` | the subscription of one client |
| `RenewalBillingProofs` | its invariant and safety properties |
| `SessionLifecycle` | one session and the engines it has had |
| `SessionProofs` | its types and safety properties |
| `MessageSending` | single messages, the other operations, and a batch, of one session |
| `SendingProofs` | its types and safety properties: rows, answers, the cancel, the counters |
| `ContactDirectory` | a Baileys session's contact directory, as a value |
| `InboundMessages` | what comes in on a Baileys session; uses `ContactDirectory` |
| `InboundProofs` | types; nothing that is learned is forgotten; replies; the history |
| `PluginLifecycle` | the plugin loader, its registry file, and the hooks |
| `PluginProofs` | its types and safety properties |
| `DataMigration` | export and import of rows and of files |
| `Infrastructure` | saving, restarting and booting the gateway; composes `DataMigration` |
| `InfrastructureProofs` | the types and safety properties of both |
| `MC...` | the small instances: values of constants and symmetry |

The gateway's modules meet at three places. `MessageSending` has the engines of
`SessionLifecycle` reduced to what a caller sees of them (an instance it holds can
send or cannot, and goes at any moment); `InboundMessages` has them as engines that
one after another read and write the same file. `Infrastructure` contains
`DataMigration`: its Next says on which database and storage the process runs, and
when it dies in the middle.

Definitions whose comment begins with "Mutant:" or "MUTANT of" are mutants:
a definition with a plausible bug put in.
They are not used by any specification. `PROJECT.json` pairs each with the
property that must notice it.

### WebhookDelivery

The calls of `dispatch()` are one process per event (`phase`, `todo`, `cur`,
`attempt`); each `await` that reads or writes shared state ends an action:
`CheckPending` (the hook and `hasPending`), `Post` (one attempt and
the decision after it), `Keep` (`outbox.add`). Each tick of the interval is a
process too (`step`): `StartDrain`, `LoadBatch`, `Purge`, `DropOverdue`,
`Replay`, `DeleteDelivered`, `CountPending`, `TellRecovery`, `TellOutage`.

- Answers are put in the five classes the code tells apart: 2xx, permanent 4xx,
  5xx, 408/429, no answer. A request that timed out may stay in `late` and be
  taken in at any later moment.
- The loop over the webhooks takes them in any order; the order of the query is
  not specified by the code.
- Age: `horizon` is the id up to which rows are too old. Rows age in order of
  insertion because the age is that of `createdAt`.
- A failed database call is a fault: after the 2xx (`PostUnrecorded`), in the
  drain (`DeleteFails`, `DrainFails`). In `dispatch()` elsewhere it is an
  unhandled rejection, which ends the process (`ProcessEnds`).
- Alert timing is a choice: an alert may be due or not at each pass.

### TicketIngest

A POST of the gateway is a request with a program counter (`pc`). Its steps end
where `_handle_text_ingest` awaits: `Classify`, `ListOpen`, then for each issue
`CheckTickets`, `CheckUpdates` with the routing, and the commit: `InsertTicket`,
`InsertUpdate` or `InsertFails`. The unique constraints of the two tables are
part of the inserts. `Deliver` sends a message for the first time, again because
the backend died before answering, or again after a timeout while the first
request may still run (`raced`).

- The classifier is `Splits(m)`: in fleet mode, which sets temperature 0, the
  same list each time or a failed call; otherwise the same texts in any
  order and with any confidence.
- An issue is its text (category and plate) and whether it reaches
  MIN_CONFIDENCE. `Plated` are the topics in which a plate is found.
- `Limit` is the number of open tickets the query returns, the newest first.
- Staff: `UpdateStatus`, `Relink`, `Promote`.

### RenewalBilling

One client. A handler is a record in `run`: it reads its rows in one step and
commits in a later one; the daily check loads the client in `LoadClients` and
reaches it in `CheckClient`.

- `Flush(row, seen, left)` is the ORM's commit: columns that the handler changed
  are written, the others keep what is there by then.
- "flushed" is a handler between `db.flush()` and its commit: it holds SQLite's
  write lock while M-Pesa is asked. Any other writer waits, and gives up after
  five seconds (`Busy`, `CheckFails`).
- Days replace dates and timestamps; the periods are constants. No handler and
  no check lasts past midnight. A day may pass without a check (the service was
  down at eight).
- `open` says whether `expires_at` lies ahead; `Expire` may happen at any time,
  and `NoSession` deletes an expired row that is at most an hour old, or finds
  none that recent.
- Whether the client has a priced tier is a choice (`DropSession`).
- Ids of deleted session rows are used again, as SQLite does; payments are not
  deleted, so their ids are fresh.
- `ZoneKept` says whether a stored timestamp comes back with its time zone:
  {FALSE} is what runs on SQLite, {TRUE} what `scheduler.py` and its tests assume.
- "docker" is a handler that has committed and not yet started or stopped the
  containers; the containers themselves are not modelled, nothing reads them.
- A start is one of three: nothing has happened, a conversation has been begun, or a
  push of a day of `Before` is still unanswered (`NothingBefore`, `AskedBefore`,
  `PushBefore`). The last two are states that a longer history reaches, put first so
  that a run with few texts has two pushes that can both be paid.
- `EditDays` are the dates that the administrator may set; `MaxAll` bounds texts and
  actions of the administrator together.
- `RenewalMoves` does not say that the date never goes back: a callback sets it to the end
  of the period of its own payment (billing/main.py:838), and one that comes after the
  callback of a later push sets it back. `NeverBack` says so and is violated.
- "close" is the button of the dashboard and `/close` in the group: the two do the
  same.

### SessionLifecycle

One session (session.service.ts) with either adapter. A call (start, stop,
restart, relink, delete, a timer that fires, the recovery from a logout) is a
record in `call` and runs from one await to the next in one action: `Find` (the
query of the row), `Begin` (what the call does before it waits again), `Initialize`,
`ClearAuthState`, `Stop`, `Delete`. `EngineEvent` is what an
engine does by itself: connect or fail, show a code that is scanned or not, open, save its
login, lose the connection, be logged out. `Revoke` is the phone unlinking it, `Bootstrap` a
restart of the gateway.

- `engine` holds instances, not the session's engine: one that was taken out of the
  map may still be connecting, since `disconnect()` and `destroy()` close a socket that
  does not exist yet. `current` is the map; only `isCurrent()` separates the two.
- `row` is the session's row; its writes take effect in the order they are issued
  (one connection). A query that fails is a fault, that of the last step of `stop()` and
  `delete()` included (`LastWriteFails`): the row stays as it was, with no engine.
- A wipe that fails is caught and the call goes on with the login still there
  (`ClearAuthStateFails`), which also stands for a save of the torn-down engine that is
  under way and lands behind the wipe. `saveCreds` is not awaited, and the model writes it
  in one step; that it lands so late that the next engine has read the login before is left out.
- `login` is the saved login, numbered as made, `wipedTo` the newest that was wiped.
- `lost` counts timers whose state a second boot() has replaced: nothing can cancel
  them any more.

### MessageSending

A request is a record with the await it is at (`request`): `GetEngine`, `SaveOutgoing`,
`Find` (a chat, a message or a file is fetched first), `Carry` and `Returns` or
`Rejects`, `MarkSent`, `MarkFailed`, and for a text `Told`, the end of the hook that tells the
plugins. WhatsApp's own step (`Carry`) is apart from the
answer, so a call may throw after the message went out. `Way(k, op)` says of each of
the operations of the two adapters whether it throws, answers with nothing, or
calls the client after no or one earlier fetch. A batch is `batch` (its row), `run` (the processing, with the
copy of the row it saves), `flag` (`processingBatches`) and up to one cancel per
request, which saves the copy it has read.

- `Ignored` are the operations whose refusal whatsapp-web.js resolves (with false or a
  status per participant) and the adapter drops: they return whether WhatsApp did them or not,
  and `DoneMeansDone` excepts them. `MessageSending_refused.cfg` shows what that means.
- Types of messages stand for messages; text and media are left out.
- `MaxFaults` failed saves and `MaxRestarts` restarts at any point.

### ContactDirectory and InboundMessages

A directory is a value (`known`: which lids have a number, `there`: entries, `names`).
`InboundMessages` has the adapters made so far with their directory, two-second timer and
messages kept for replies; `saves` are writes in flight, from `BeginSave` over
`Written` to `Renamed`, on one temporary file that all of them share; `appends` are
chunks of history on the way to their file, in one or several writes.

- An id is a person and a form, "lid" or "pn"; all chats are direct ones.
- `overlapped` becomes TRUE once two saves, or two engines with something to save,
  have been about at once: then a file may be torn, the second rename fails
  (and ends the process when it was the timer's), or an old engine's directory overwrites
  the new one's. `NothingForgotten` says nothing from there on until the process ends.
- A temporary file that a crash has left is never read, so it counts as missing.
- A message whose download ends after its engine was replaced is dropped; one without
  a file overtakes one that is still being downloaded.
- The senders of a chunk are learned in one step (`LearnSenders`), as nothing awaits between
  them. Each sender has entries of his own, so order and repetition make no difference.
- `LeftOf` is what a chunk has still to write. A chunk without lines is not appended
  (`if (lines.length === 0) return`), which `InboundAssumption` says.

### PluginLifecycle

The loader's calls with the awaits of the plugin's own functions (`Loaded`, `Enabled`,
`Disabled`, and each of them throwing), `UpdateConfig`, `Restart`, and events that walk
the handlers (`Emit`, `Execute`). `execute` iterates the live array: `hooks` may change
under it, which the model keeps by index. A handler's failure is logged and the next one
One event stands for all: each has a list of its own. `Without` says place by place what
filtering a plugin's handlers out of a list leaves, which the provers can reason about; they
cannot about the library's `SelectSeq`.

- A plugin registers one handler. Those of `OnLoad` do it at once; the others later, in
  `Loaded`: in onEnable, or after an await of either function, which makes no difference to
  anything but how long the plugin has been in "loading". Plugins that register several
  handlers of one event, or one whenever they like, are left out.

### DataMigration and Infrastructure

`DataMigration`: an export reads the four tables in four queries; an import is a
transaction that clears the tables and inserts row by row, a failed row being a warning.
Any row may fail, for a reason of its own (`bad` in `ImportTable`), and on SQLite the rest is
committed all the same, so a part of a backup may stay; what an import keeps to is that its answer
warns of it (`ImportTells`), not that it is whole (`ImportIsWhole`, violated by
`Infrastructure_partial.cfg`).
On SQLite it shares the one connection with everybody else, so a webhook that was read before
may be saved anew between (`IsSavedAgain`); on PostgreSQL a failed statement aborts it. The files go one at a time to where the process writes now. `made` records
the rows that ever were: ids are generated, so a row that is made is a new one.

`Infrastructure`: the page's form, what it remembers and sends (`page`), the config file
(`env`), containers (`box`), the orchestrations that go on beside everything else
(`job`), two at most, since nothing keeps a second request out, and the process (`gate`) from its boot (`Boot`, `CheckBucket`, `Connect`,
`Started`) to the three-second timer of a restart (`Shutdown`, `Exit`). `Crash` may come at
any point; the restart policy of the container boots it again.

- `Pinned` are services whose type comes with the process's environment, as in the
  compose file, so that the saved file does not change it; `External` are
  services that exist without a container.
- Only the sections of the form that `saveConfig` reads are kept: the page sends
  server, webhook and rate limit sections that it ignores. The page never loads the
  built-in switches and passwords, so saving an unedited form turns them off.
- Nothing in the repository reads `.orchestration-request.json`, so it only exists.
- A container is found by its label or by a part of its name; that the fallback
  may match a foreign container is not modelled.

## 3. The runs

Deadlock is not checked (CHECK_DEADLOCK FALSE in every configuration): the
bounds on events, messages, texts and faults let every instance come to rest.

| run | question | result |
|---|---|---|
| `delivery_safety` | two events, two ticks, two faults, a restart and two edits in every order: is an event lost unlogged, duplicated without a fault, replayed out of order; is every step one of the ledger's? | holds |
| `delivery_liveness` | does every kept event get settled, and every outage end, whatever the endpoint answers? | holds under `FairSpec` |
| `delivery_overtake` | do kept events go first? | violated |
| `ingest_safety` | fleet mode, two messages delivered repeatedly by two requests, a failed commit, a restart, two actions of staff: is an issue dropped, stored twice, lost? | holds |
| `billing_safety` | two overlapping handlers, the daily check, three texts or actions of the administrator after three kinds of start, two pushes, crashes: is a payment confirmed without its money, an outcome changed, the renewal date moved by anything but the payment or the edit it belongs to? | holds |
| `billing_grace` | does grace end after its days? | violated |
| `session` | two requests or restarts of the gateway with the reconnects and recoveries they cause, a lost connection, a failed query or wipe, two scans, for both engines: does a stopped session stay down, is the row true, does a wiped login come back, does the service give up? | holds, for calls that do not overlap where a property says so |
| `inbound` | two engines, a text, a photo, two chunks, contacts, a stop, crash or failed save at any point: is something learned or kept lost? | holds |
| `sending` | two requests of every kind, a batch of three and its cancel, a failed save and a restart, for both engines: is a message unrecorded, an answer false (refusals that the adapter ignores apart), a batch miscounted or hung? | holds |
| `plugins` | three calls on four plugins, two at once, an event, a throw, a change of config, a restart: does a disabled plugin hear anything, does an event skip a handler, or run one twice? | holds |
| `infra` | six of edits, saves, restarts, export and import, a write, a failure, a crash, two orchestrations at once: does an import hide what it left out, does a boot miss its database, does the gateway stay down? | holds |
| `infra_import` | are the rows of a backup there after an import that answered? | violated |

### Bounds, and why they suffice

- Delivery: one webhook and two events, since order and overtaking are relations
  of two events of one webhook, and webhooks share nothing but the drain's loop.
  Two ticks overlap if the guard fails; one would never. `RetryCount` 2 gives a
  retry, `BatchSize` 1 makes two rows two batches. Two faults cover a late answer
  and a failed write of the same event. The liveness run has one tick, one
  attempt and no edits, as its properties need the cycle and not the overlap.
- Ingest: every race in the handler is of two requests. The two messages share an
  issue and one of them has another before it, so an update, a new ticket and a
  skipped issue all happen, and index 0 and 1 differ. `Limit` 2 leaves an open
  ticket out of the list once there are three.
- Billing: from an unanswered push, three texts are the shortest way to a second push
  (/payment, a phone, "yes"), so that both callbacks come, in either order and
  repeatedly; from a conversation that asks for the "yes", they give two overlapping ones
  and a conversation that starts over while its push is under way. `MaxAll` is three: the
  administrator acts in place of a text. The other configurations have four, from the
  start alone. In `billing_safety` the client begins a day late (FirstDay 1,
  FirstRenewal 0, a check was missed), so the two days that follow take it through
  active, grace and billing_only and, after a payment, through both early
  reminders. What a third day of billing_only adds (`CheckSuspended`) is in the
  model and in the proofs, not in this run. The configurations that end in a counterexample need one handler only.

- Session: three engines are the least with which an orphan lives beside the current
  engine and its successor. Two calls at once and two requests give every pair of
  overlapping calls. One lost connection and `MaxAttempts` 1 reach the end of the
  retries; two logins make a wiped one different from the one after it.
- Sending: two requests are two handlers, or a batch and its cancel, or two
  creations of one batch. A batch of three with `SaveEvery` 2 has a save in the
  middle, one at the end and a message between; its image is a type
  that one engine refuses. The operations are one of each way of `Way`. One engine instance
  that goes and is made again suffices; `MessageSending_cancel.cfg` has two.
- Inbound: the directory relates entries of one person, so one person with both ids
  suffices; the chunks overlap in a message, `MaxPerChat` 1 forgets with the second
  message. Two engines give a save of an old one beside a new one. Four events are
  enough for learn, stop, start and learn again.
- Plugins: one plugin registers at once and comes first, two later and with one
  priority (which is the default of the code, so that the order among them is that of
  registering), one is the engine's; a walk over them can so lose a handler before or behind
  its position. One throw leaves a handler behind that enabling again doubles.
- Infrastructure: two of most things, and six in all, which is edit, save, restart,
  edit, save, restart, or two moves of data among a restart. Two sessions and webhooks,
  one of each only in the backup.

Symmetry is used where ids are interchangeable, and never with liveness.

### Fairness

Each call of `dispatch()` and each running drain goes on when it can (the event loop
runs what is ready, and each request has a timeout), the interval keeps firing, and time
passes (`RowAges`). That is `delivery_liveness`; the other modules with liveness state
the same of their own handlers, and nothing of endpoints, engines or people:

- `SessionLifecycle`: every step of a call, an armed timer, and what an engine does by
  itself (connecting, showing a code, opening, reporting a logout) goes on; nobody has
  to scan, connect or call. So a session waits at a code at worst (`KeepsTrying`).
- `MessageSending`: a handler and a run go on as their awaits resolve: a client's
  call returns or throws in the end (`EverythingEnds`).
- `Infrastructure`: Docker's calls return, a closing process ends and is booted
  again. app.close() has no time limit either: that it returns is part of the assumption
  (`ComesBack`).

The ingest, the renewals, the inbound messages and the plugins state safety only. (A plugin whose
function never returns does hang the event or the call: the code waits without a limit.)

### Findings

1. *Overtaking* (`delivery_overtake`). `webhook.service.ts:257` says "Events
   already waiting in the outbox go first, so don't overtake them." `hasPending`
   is read once, before the direct attempts; while they last an older event may
   be put into the outbox and the younger one delivered.
2. *Grace never ends* (`billing_grace`). On SQLite the stored timestamp comes back
   without a zone; subtracting it from an aware one raises each day.
3. *An import loses the messages* (`infra_import`). `docs/14-migration-guide.md:121`:
   "Sessions, webhooks, messages - this is what gets migrated". The statement for
   messages names columns that the table has not. On SQLite the old messages are
   gone and the new ones missing, on PostgreSQL nothing is imported at all; both answer
   `imported: true`.

### Supplementary configurations

These check one property each that something in the repository states and the code
does not keep. They are here to be run by hand
(`tlc -config TicketIngest_retry.cfg MCTicketIngest`); each ends with a counterexample.

| configuration | property | what is said, and what happens |
|---|---|---|
| `TicketIngest_retry` | `NothingDropped` | the split design (:67) relies on the issue_index for retries; outside fleet mode a second classification may order the issues otherwise, and one is skipped as a duplicate of another |
| `TicketIngest_race` | `RaceIsCaught` | the design (:94) says the unique constraint catches a race; there is one per table, and the same issue may become a ticket in one request and an update in the other |
| `TicketIngest_twins` | `ThreadsIn` | a plate with an open ticket should get no second one; open tickets are listed before the loop |
| `RenewalBilling_locked` | `LockedOnlyIfLapsed` | a payment should return a client to active; the daily check works on the client as loaded before it |
| `RenewalBilling_credit` | `PaidIsCredited` | the same; "/payment" deletes the session that the callback of an outstanding push is found by |
| `RenewalBilling_back` | `NeverBack` | the confirmation tells the customer the next renewal date (billing/main.py:858); the callback of an older push that comes after that of a younger one puts the date back |
| `SessionLifecycle_stop` | `StopDisconnects` | "Stop a session and disconnect WhatsApp" (session.controller.ts:131); a stop while the adapter still loads its login closes nothing, and the socket opens afterwards |
| `MessageSending_cancel` | `CancelStands` | "The system must cancel a running batch" (docs/02-requirements-specification.md:75); the run's next save overwrites the row, and a cancel before the run has started is undone by it |
| `MessageSending_refused` | `RefusalsAreTold` | the groups', contacts' and channels' routes answer success; whatsapp-web.js resolves a refusal as false, which the adapter does not look at |
| `Infrastructure_partial` | `ImportIsWhole` | "replaces existing data" (import-data); on SQLite a session or webhook that fails is a warning, the old rows are gone and the others stay |
| `Infrastructure_leftover` | `DisabledAreRemoved` | "First, remove containers for disabled services" (infra.controller.ts); which those are is remembered by the page alone, which a restart reloads |
| `Infrastructure_compose` | `SavedIsApplied` | the migration guide's "Restart with new configuration"; with the compose file's environment the type of the database stays what it was |
| `InboundMessages_torn` | `HistoryKept` | "a torn final line from a crash mid-append - skip it"; the line after it is glued to it and lost as well |
| `InboundMessages_names` | `NameFollows` | "An entry first learned under its @lid moves to the phone number once known"; not when the number has an entry of its own already |

## 4. What is proved

Every safety invariant and every action property of a passing run is a theorem, for every value
of the constants that satisfies the named assumptions: `DeliveryAssumption`, `IngestAssumption`,
`BillingAssumption`, `EngineAssumption`, `CallAssumption`, `KindAssumption` and `BoundAssumption`,
`OpsAssumption` and `BatchAssumption`, `InboundAssumption`, `PluginAssumption`,
`MigrationAssumption` and `InfrastructureAssumption` (sizes and bounds are natural numbers,
periods are positive, senders are people, None is none of the ids, a webhook's row names its
session's) and `NoRowAssumption` (None is no record). TLC evaluates them in the runs.

The shape of the argument is the same everywhere. The property is not inductive, so an invariant
is stated that is: named parts that say what a handler in flight has already done, and what holds
between two pieces of state. It holds initially, each action keeps it (one lemma per action, and
lemmas about the operators the actions share), and it implies the property; an action property
follows for each step from the invariant before it. TLC checked each invariant on the instance of
the runs before it was proved.

- `WebhookDeliveryProofs`: `IInv`, the conjunction of the types with four parts.
  *DispatchInv*: a call's `todo` are among its targets, and an attempt is at one
  of them. *RowsInv*: a row is of a webhook its call is through with, one row per
  event, ids not used twice. *LateInv*: a late request was sent for a target.
  *DrainInv*: one drain at a time, what it still has to replay is in the table, and
  a row about to be deleted was taken in. The last is what makes the drain
  implement the ledger: without it `DeleteDelivered` could delete an untaken event.
  - The refinement: each step maps to a ledger step or a stutter (`DeliveryRefinesLedger`),
    and the ledger forgets nothing (`LedgerLosesNothing`), hence `DeliveryLosesNothing`.
  - The order of a replay (`ReplayIsOldestFirst`): *BatchInv* says that the batch, what has gone
    since apart, is all that is older than one of its rows. That the batchSize rows with the
    fewest older ones are such a set is a lemma about cardinalities (`BatchIsOldest`); it
    stays so because ids only grow (`KeepBatch`).
  - Copies (`CopiesAreAccountedFor`): *CopiesInv* counts for each event and webhook the copies
    that came, plus one if it will still be sent (`Open`: its call has it in hand, or a row
    stands for it that is not about to be deleted), plus one if a request of it is late; this is at
    most one more than what went wrong. The bound on the copies alone is not inductive: a
    2xx adds a copy, and only that the event is then no longer open keeps the sum. A delivered row
    becomes open again when its deletion fails or the process ends, which is paid for.
- `TicketIngestProofs`: types, with the shape of a request (`TypeInv`), and three results.
  Stored texts stay (`IngestKeepsStored`), by a
  lemma per action. In fleet mode nothing is dropped (`FleetDropsNothing`), by
  `DropInv`: requests take the issues in the order of `Split`, rows sit at the
  index of their text, and every sure issue before `at` is stored. An unraced
  message's issue is stored once (`IngestStoresOnce`), by `OnceInv`: indices are
  unique in each table, a message not raced has one request, and what that
  request checked is still so when it inserts. Fleet mode is an assumption of the second
  alone; `TicketIngest_retry.cfg` shows that it is needed.
- `RenewalBillingProofs`: `IInv`. `ConfirmedIsPaid` is not inductive: a callback
  confirms `run[h].payment`, a column read from a session that other handlers
  write. So the invariant says that one handler at a time has flushed
  (*OneWriter*), that the checkout id and the payment id of a session, and of
  a callback that has read one, belong to the same push (*Matched*, *Shape*), that pushes have
  payments of their own (*OwnPayment*), and that once a payment is marked failed
  nothing leads to it but a refusal (*WrittenOff*). Theorems: `BillingTypes`,
  `BillingConfirmsPaid`, `BillingResultFinal`, `BillingRenewalMoves`.
- `SessionProofs`: types (*Shape*), and three results that say what they say of a session on which
  nothing has worked in parallel (`alone`), as the properties do. *Booting*: retries that are kept
  belong to an engine or to a call that will make one. *OneWorks*: one call at a time is past its first reads, and
  neither a timer nor an event of the registered engine starts another meanwhile; this is
  what `alone` gives and everything else rests on. *Truth*: the row and the engine agree but between
  the taking down of one and the putting up of the next (`RowIsTrue`). *Stopped*: a session
  asked to be down has no engine, no timer, and no call in flight but requests that have not
  begun and the one that takes it down (`StoppedStaysDown`). *LeftOver*: one engine at most is
  left over, and a wiped login that is back on the disk is that one's (`WipedStaysWiped`).
- `SendingProofs`: five theorems. `IInv` says of each request, the row of its message and WhatsApp
  (`Good`) what may be
  at each of its awaits: for example that a request that is being sent has a row, and
  that one being marked has been carried out. That an adapter answers by itself only to queries
  (`EmptyAreQueries`) and swallows errors only of queries is a lemma about the tables of
  operations. `BInv` is about the batch: a run works on a row that exists, its copy is not
  completed before the last save, and once a cancel has come the flag stays down;
  `SendingStopsOnCancel` follows for each step. `SendingAddsUp` needs `CInv`: the counters add up
  in every row there is, the one a cancel holds and the one a run holds included, since either may be
  saved over the other (*RowOK*, *CopyOK*); and where nothing was disturbed the saved row is
  behind by at most (k - 1) % SaveEvery results (*LagOK*). That this remainder goes up by one
  until the next save is due is a lemma of its own (`RemainderGoesUp`).
- `InboundProofs`: four theorems from two invariants. For `InboundForgetsNothing`, `IInv`.
  *Shape*: an engine is dirty
  exactly while its timer runs, and who saves has been started. *Alone*, as long as
  nothing has overlapped: there is one save at most, and what it has written is the whole of its
  directory. *Safe*: no other engine can still write, and what is not to be written is
  covered by the save in flight or the file. Without *Alone* the rename could bring a
  directory of another save into the file. `Holds` adds the rest. *Numbered*: messages
  are numbered as they arrive. *Remembered*: the list of a chat is in that order, and a message
  of the session's engine that is not in it has as many later ones as a list may have, so
  whoever replies finds it or may not expect to (`RepliesAreFound`); that a full list
  proves the count is the pigeonhole principle. *Appended*: until a line is broken, what was
  kept is found, and one append at most is in the middle of a line, which is the history's last (`HistoryIsAnswered`).
  The condition that no line is broken is the one of the property; `InboundMessages_torn.cfg` shows why.
- `PluginProofs`: `Good(p)` of each plugin. *AtStage*: what a call has done to the handlers of its
  plugin at each await, with *AtRest* for a plugin nobody works on: once among them, or not
  at all (*Follows*, `HandlersFollowStatus`). It holds of a plugin that no two calls
  worked on at once and none of whose functions threw. *IsLoaded* and *IsGiven* carry
  `ConfigsAreKnown` from the loading on. *Walking*, of each event: what it has run is the
  beginning of what it found, and as long as the list has not grown under it, the next one is the
  next of it (`EventsReachHandlers`). *Meets*, of each event, holds however the list grows: every
  handler it found has a place, in what has run or ahead in the list, and the places are in the
  order in which the handlers were found. A handler that is put in shifts the places from its own
  on, the next handler to run moves from one list to the other, and when nothing is ahead
  all places are in what has run (`EventsMissNobody`). The lemmas under them say at which place a new handler is put and what
  taking one out leaves.
- `InfrastructureProofs`: of `DataMigration` as part of `Infrastructure`. An import tells what
  it left out (`ImportsTell`) by what there is after each table, of the rows gone through
  (*Past*): on SQLite the table has those of them that were not warned of (*InsertedSoFar*); on
  PostgreSQL it has the old ones, the transaction has the others, and one that is aborted has
  warned (*HeldBack*). What others wrote is left out of each comparison. *FilesInv*: once files are put, the storage is decided and stays
  (`ImportedFilesAreFound`). *BootInv*: the database of a config that a restart was
  asked for runs, or is in the list the orchestration has still to start, and in none
  it has still to remove (`BootsAreReady`).

Only model-checked: liveness (`KeptIsSettled`, `OutagesEnd`, `KeepsTrying`, `EverythingEnds`,
`ComesBack`), and of course the violations. What TLAPS cannot do at all: liveness,
ENABLED, induction over data and RECURSIVE operators; the modules have no recursive definition.

## 5. Hazards that no property covers

`PROJECT.json` lists forty. A `note` there says why one has no property. Further ones, which
the models contain or leave out as said:

- delivery: `outages` is only in memory, so a restart between alert and recovery means
  nobody is told; a write of `lastTriggeredAt` that fails counts as a failed attempt; the
  webhook is read before the purge; `batchSize` rows with 5xx answers starve the younger
  ones; an `outbox.add` that rejects ends the process (all of them are in `WebhookDelivery`);
- ingest: an LLM timeout is an empty list of issues, and a commit that fails after an
  earlier one is answered 202: the report is lost either way (in `TicketIngest`, where
  answered means not "error");
- billing: the lock that `db.flush()` takes while M-Pesa is asked (in `RenewalBilling`);
  two upgrade requests at once that both push (billing/main.py:1273), JSON lists (not modelled);
- media: a photo whose text is stored while its file is saved stays unassigned
  (backend/main.py:1154; not modelled);
- sessions: a boot() replaces the retry state and leaves a timer nobody can cancel
  (`lost`);
- sending: a batch keeps the engine it found at its start, also when a new one is ready;
- plugins: nothing in the source creates an entry of the registry file, so that without a
  file made by hand every enable and every config is lost at a restart (`InFile`);
- inbound: concurrent saves share one temporary file (`overlapped`); a reaction looks a
  message up under the chat as resolved now and may miss it; a chunk sent again without
  the mapping is answered instead of the earlier, resolved line;
- infrastructure: what to remove is remembered by the page; `queue.enabled` is always
  reported false; a health check may be answered by the process that is closing.

## 6. What is not modelled, and the plan

Left out for good: reports, chat, statements, the dashboard's presentation, SDKs, site,
scripts; single-row administration (keys, settings, users); nginx and the tenants'
containers (no state is read back); the WhatsApp libraries behind the adapters. In the
modelled parts: message wording and bodies, lists and statistics, the
test endpoint of webhooks, the judgement of the classifier, the billing gate in front of
the ingest, the other columns of the client's form, reactions and acknowledgements, the
incoming messages of whatsapp-web.js, `unloadPlugin` (no caller) and the engine plugin's
configuration, connection attempts of the cache.

Done, in this order: WebhookDelivery with EventLedger, TicketIngest, RenewalBilling,
SessionLifecycle, MessageSending, PluginLifecycle, DataMigration with Infrastructure,
ContactDirectory with InboundMessages. Left, most important first:

1. `MediaLinking`: quoted, caption, plate and proximity targets, the sweep by a
   later text, redelivery, assignment and deletion. Composed with the rows of
   `TicketIngest`. To prove: a media row's ticket exists.
2. `TicketHistory`: reactions, dashboard status changes, reminders and
   escalation with crashes between sending and committing.
3. `GroupTiers`: the JSON list, upgrade requests and their callbacks, and the
   backend's caches. A second client in the daily check of `RenewalBilling`.
4. Queue mode of the delivery as a second implementation of `EventLedger`.

Proofs to come: those of the modules above, with them. Of the modules there are, what is
left is liveness, which stays with TLC. The theorems of sessions and plugins are about one that
nothing works on in parallel, as the properties are; what still holds when two calls overlap (that a
row exists for every engine, that a handler runs at most twice) is not stated yet.
