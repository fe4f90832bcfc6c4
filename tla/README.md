# Cued: a verification project

Cued is a macOS daemon with a CLI. It pulls messages, contacts and calls from
eight platforms (iMessage, contacts, WhatsApp, Signal, Slack, Discord, LinkedIn,
Gmail) into one SQLite file and serves them locally. Its core is a pipeline
inside one Node.js process with helper processes around it:

    providers -> helpers, adapters -> raw_events -> projector -> canonical tables -> FTS index
       ^ sessions     ^ sync runs                     ^ projection runs  |              ^ index drain
       |              |                               |                  v
    accounts, logins  sync_runs (durable queue, claimed with a lease)    message.received hooks

Paths below are relative to the repository root; the TypeScript lives in `src/`,
the Go helpers in `native/helpers/`.

## 1. Inventory

| Part | State | Operations | Talks to |
|---|---|---|---|
| Sync run queue (`db/database.ts`, `runtime/run-queue.ts`) | `sync_runs` rows: status, attempt, owner, lease, due time | queue, merge, claim, progress, finish, fail, recover, reset | every part that wants work done |
| Daemon scheduling (`runtime/daemon/server.ts`) | two drain timers, `activeIngestRuns`, `isProcessingProjection`, bootstrap, login and pause, update shutdown | drain ingest, drain projection, process a run, begin/end a login, stop | queue, projector, hooks, updater |
| Projection (`runtime/projection/`) | `raw_events`, canonical tables, `projection_watermark` | project new rows, project a queued page, rebuild, merge contacts, reset | worker processes, queue |
| Event-to-row projection, identity resolution (`projector.ts`, `identity-alias.ts`) | contacts, handles, sources, conversations, messages, reactions, timeline; a cache per process | apply an event, merge by hand, alias two keys, rebuild | queue, workers |
| Hook barrier (`runtime/projection/service.ts`, `runtime/hooks.ts`) | pending batches of hooks | enqueue, release a range, release all | projection, subprocesses |
| Search index (`db/database.ts`, `server.ts`) | `message_fts_index_queue`, `messages_fts` | enqueue, claim a batch, replace, complete, fail | projection |
| Start-up and lock (`core/singleton-lock.ts`, `macos/competing-daemons.ts`, `server.ts`) | lock file with two heartbeat slots, socket, launch lease | acquire, heartbeat, take over, release | other daemon processes |
| Updater (`runtime/updater/`) | release state, backups, `pendingRollback`, the bundle, the database | check, install, helper script, roll back | daemon, application |
| Accounts and logins (`platforms/core/auth`, `platforms/core/state`, `platforms/*/auth`) | integration rows, auth sessions, secrets, login processes | request, complete, reconcile, refresh, import, disconnect, remove | login processes, queue, command line |
| Ingest and checkpoints (`server.ts`, `platforms/core/runner.ts`) | `sync_checkpoints`, `sync_proofs`, `raw_events` | fetch a bundle, insert, store proofs, checkpoint, continue | adapters, queue |
| Platform adapters (`platforms/*/sync`, `platforms/*/` readers) | source cursor, resume records | list, page, window, backfill | providers, helpers |
| Realtime sessions (`platforms/*/realtime`, `server.ts`) | sessions, helpers, timers, reconcile requests | reconcile, start, stop, reconnect, poll, ingest | providers, daemon |
| WhatsApp helper (`native/helpers/whatsapp-go`, `platforms/whatsapp`) | SQLite cache, history queue, resync cursor | store, acknowledge, apply history, page a resync | provider, daemon |
| Attachments (`runtime/attachments.ts`, `projector.ts`, `identity-alias.ts`) | `message_attachments`, `attachment_cache`, `attachment_content`, its index, the objects directory | fetch (hit, miss, download, redirect, place, mark, extract, evict), edit, join, rebuild, death between two writes | a client's request, providers, projection |
| Telemetry queue, menu-bar status, migrations, secrets, CLI, macOS installation, performance harness, Swift host, Slack helper, packaging | see section 7 | | |

What is hard, part by part, and what makes it correct:

* **Queue.** A claim outlives its lease, its daemon, sometimes its machine's
  sleep; the predicate that fences an old executor compares attempt and owner but
  not the status. Correct: at most one executor can settle a run, only of the
  current daemon, only while the run is active; settled is final.
* **Daemon.** Timers are merged and given up in early returns; runs wait on one
  another across two drains; hooks are awaited inside a run. Correct: rebuilds run
  alone, slots are counted right, no wake-up is lost, everything due is claimed in
  the end, an update shutdown ends.
* **Projection.** Pages are read before and committed after another process may
  commit; workers survive their daemon; resets hand out rowids again. Correct: the
  watermark never passes an event that was not applied; a backlog is attended.
* **Identity.** Each process resolves contacts by a cache it filled at some time,
  while others merge, alias and rebuild; events of one person come in any order.
  Correct: no event is lost, revocations and aliases stick, merges hold.
* **Hook barrier.** An array is walked across awaits and then replaced. Correct:
  hooks run after their rows are projected, once, and are not lost.
* **Search index.** A drain claims, replaces and completes outside one
  transaction, beside projectors in other processes. Correct: an index entry
  reflects its message once the queue is empty.
* **Lock.** Files are created and filled in two steps, looked at and removed in two
  more, and the socket outlives both. Correct: one daemon, which keeps its socket.
* **Updater.** A detached script replaces the bundle around a database that has
  been migrated, and may be cut off anywhere. Correct: what runs understands the
  database, a roll-back loses nothing, a daemon is at work again.
* **Accounts.** Requests, imports and refreshes read a row, await, and write it;
  two logins may run for one account. Correct: a refused secret is not taken up
  again, a successful login has an account, no session stays open.
* **Ingest.** Events, proofs and checkpoint are separate writes, made also by a
  run that has lost its claim. Correct: what is called complete is, and a backfill
  completes.
* **Realtime.** A reconcile awaits helpers between finding out and acting;
  sessions that were let go still have timers and listeners. Correct: one session
  follows the account in the end, the others are quiet.
* **WhatsApp helper.** The provider forgets what is acknowledged; the event that
  tells the daemon may be lost; rows move between pages. Correct: acknowledged is
  kept, and what is kept arrives.

* **Attachments.** Requests beside each other store and evict files that entries
  share, write by write without a transaction, while the rows they hang on are edited,
  joined and rebuilt; downloads carry credentials across redirects. Correct: but for
  what a failure cut off, a ready entry has its file, the files fit the limit,
  credentials go to their platform only.

`PROJECT.json` lists each hazard at its line, with the properties that cover it.

## 2. Modules

| Module | Models | State and actions |
|---|---|---|
| `RunLifecycle` | the promise of the queue | each run waits, runs, settles; a term rises with every take-over |
| `RunQueue` | `sync_runs` and its callers | `runs`, `claims` (tickets in the hands of executors), `daemon`, `clock`; `QueueSync`, `QueueProjection`, `ClaimNext`, `Progress`, `FinishRun`, `FailRun`, `Restart` (`recoverInProgressRuns`), `DeleteRuns` |
| `Projection` | projector, workers, watermark | `rows`, `applied`, `watermark`, one `projector` record per process; `ReadPage` and `CommitPage` are two steps because the code reads outside the transaction it commits in |
| `Identity` | which contact, conversation and row an event belongs to | `log` (raw events), `mark`, `tables`, the caches of `daemon` and `worker`, `merges`; projecting a page inline or in a worker, `MergeContacts`, aliases, rebuilds, restarts |
| `HookBarrier` | `ProjectionMessageHookBarrier` | `pending` array, `release` records (one per suspended call); `Turn` is one turn of `releaseCompletedRange` between two awaits |
| `Daemon` | the event loop of `runDaemon` | timers, executors, slots, projector phase; a step is one turn of the event loop |
| `SearchIndex` | `message_fts_index_queue`, its drain, and the projectors that feed it | `version` and `indexed` (what the message and its index entry say), `entry` (status in the queue), `drain`, one `projector` record per process; `ClaimBatch`, `ReplaceBatch`, `CompleteBatch` are the drain's separate transactions, `Commit` and `EnqueueMessageFtsIndex` the projector's |
| `DaemonLock` | lock file and socket, from the start of a process to its exit | `lock` (the file at the path, known by its inode), `socket`, `pc` per pid, `open`; a step is about one system call |
| `Updater` | releases, `update install`, the helper script, the processes around it | `bundle`, `db`, `backup`, `ui`, `daemon`, `cli`, `helper`; a step is one command of the script or one await of the installer |
| `Accounts` | integration rows, auth sessions, login processes, secrets | `db`, `accepted`, `login`, `call` (a connect request between two awaits), `probe` (a refresh between reading and writing) |
| `Provider` | what the adapters see of a provider, and what they hand back | a mailbox as a sequence; proofs and resume records |
| `SlackSync`, `DiscordSync`, `GmailSync`, `WhatsAppSync`, `LinkedInSync`, `IMessageSync`, `ContactsSync`, `SignalSync` | one run of the platform's adapter | a function of mailbox, cursor and proofs to what the run fetched, proved and will resume from |
| `Sync` | `processIngestRun` and what happens to it | `jobs`, `events`, `proofs`, `checkpoint`; `Start` reads, `Fetch` runs an adapter, `Store` makes one of the writes |
| `HelperSession`, `DiscordSession`, `LinkedInSession`, `WatcherSession` | the session object of a platform | what each call, answer and timer makes of it |
| `Realtime` | supervisor, reconciles, sync runs around the sessions | `account`, `secret`, `realtime` (sessions and requests), `run`; `Request` and `CompleteReconcile` are the two sides of the await |
| `WhatsAppCache` | the SQL of the helper's cache | what an observation makes of a row, one page of a resync |
| `WhatsAppHelper` | the helper's three goroutines, the pipe, the daemon's side | `handler`, `historian`, `queue`, `cache`, `pipe`, `run`, `checkpoint`, `stored` |
| `Attachments` | `fetchAttachment` and the cache behind it | `rows`, `entry`, `extracted`, `searchable` (database), `objects` (files), one `fetch` record per request; what a running eviction knows in `listed` and `victim`; `Hit`/`EndHit`, `Miss`, `Redirect`, `Refuse` are the turns of a request between its awaits, `Place`, `MarkReady`, `KeepText`, `ListReady`, `Unlink`, `MarkEvicted`, `End` its single writes once the payload is there, `Fail` the catch around them, `RestartFetches` a death between any two (`MayRun`: no other request runs within a turn), `RemoveRow`, `AddRow`, `Join`, `Replay` what the projector does |
| `RunQueueRealtimeProofs`, `ProjectionProofs`, `HooksAttachmentsProofs`, `DaemonProofs`, `SearchIndexAccountsProofs`, `DaemonLockIdentityProofs`, `WhatsAppHelperProofs`, `UpdaterProofs` | | theorems about the modules each is named for |

The `MC...` modules give constants their values; `MCUpdater` also states the
precedence of its versions, against which the code's comparison is checked.
`MCHooksAttachments` checks two modules that share nothing in one run: each of its
behaviours is about one of them, while the other's variables stay as they were.

How they fit together. `Daemon` sees the table of `RunQueue` only through what a
drain reads (`row`), and `Projection` only through the number of pages left
(`pending`); `HookBarrier` sees `Projection` as rows projected in order;
`SearchIndex` sees it as processes that commit, then enqueue, and sees `Daemon` as
what blocks a drain; `DaemonLock` has one `pc` value for all that a running daemon
does. `Sync` composes `Provider` with the eight adapters; `Realtime` composes the
four kinds of session with the accounts and runs that start and stop them, and
sees `Accounts` as logins and removals; `WhatsAppHelper` is the other side of
`WhatsAppSync`, which has the helper's cache as its mailbox; `Identity` is what
`Projection` abstracts to "applied". They are separate modules because their
product is out of reach for a model checker, and each keeps, as nondeterminism,
every choice the others may make for it.

Each definition's source lines are in the `map` of `PROJECT.json`. Definitions
whose comment begins with MUTANT are the altered forms that show that a property
can fail; no action uses them.

## 3. Runs

| Run | Question | Bounds, and why they are enough |
|---|---|---|
| `run_queue` | only the holder settles, one live run per account, and the queue implements `RunLifecycle` | 2 runs, 2 accounts, 3 claims, 2 daemons, 3 clock values: two rival tickets for one run plus a bystander, an expired lease before and after a restart. The theorems remove the bounds |
| `projection` | coverage of the watermark, attended backlog, watermark monotone | 3 rows, pages of 1, 2 workers beside the daemon, 2 disruptions: an orphan worker, its successor and the daemon each with a page in flight, and a reset followed by reuse of a rowid. The theorems remove the bounds |
| `hooks_attachments` | hooks after projection, conserved when left alone; ready entries have files, the disk is bounded, credentials stay with their platform | hooks: 5 rows, page sizes 1 to 3, 2 overlapping releases, so that batches straddle pages and a release is overtaken by another. Attachments: 3, of which 2 have the same content and 2 may be joined, 2 requests of which 1 downloads from a host at a time, room for the large content or both small ones, 1 redirect, 1 change of the rows, death, or error that could not be noted. Also run with 2 changes, with 1 request and 3, and with `AttachmentsTypeOK`, `EntriesHaveRows` and `FilesAreCounted`. The theorems remove the bounds |
| `daemon` | rebuild exclusion, slots, lost wake-ups, due work is claimed, the update shutdown ends | 1 sync, 1 slot, one each of page, arrival, rebuild, login and overrun, so that every guard of the drains is met both ways. Larger instances (2 syncs, 2 slots) were run for the safety properties, and, without arrivals and overruns, for liveness; the theorems hold for all |
| `search_index` | index entries reflect their messages; the queue empties | 2 messages, batches of 1, 2 workers beside the daemon, 2 versions of a message, 2 faults: an orphaned worker, its successor and the drain each between two of their transactions, the other message untouched |
| `daemon_lock` | one daemon, a kept socket, and that one comes up | 3 pids, 1 late answer, 1 crash or failed start, every way the files may have been left by earlier daemons: an owner, a process that takes over and a third that starts meanwhile |
| `updater` | the newest release is offered, the database survives, an update is decided, a daemon comes back | all channels; 3 releases in an order other than their precedence, one without its archive; 2 installs, 1 stop of the machine at any step: an update that fails or is cut off, and another one after it |
| `accounts` | logins have accounts, refused secrets stay refused, sessions end | one platform of each kind of login (import, link, renamed account); 2 requests, 2 sessions, 1 other change, 1 stop of the daemon: a request overtaken by another and by a change at each of its awaits |
| `sync` | complete means complete, and backfills complete | all 8 platforms, 2 conversations, 2 messages at first and 2 that arrive, every limit of an adapter 1, 1 fault: each limit is hit, each write is the last of a dead run. Larger ones (2 faults; up to 3 + 2 messages) were run platform by platform |
| `realtime` | sessions that were left are quiet; sessions and syncs settle | all platforms with sessions, 4 sessions at a time, 2 logins, 2 syncs, 2 faults: an old and a new session, each with its helper and one more that is dying |
| `identity` | no event lost, aliases and revocations stick, merges hold, rebuilds agree | 11 kinds of event of a person with two WhatsApp keys, a card and iMessage, among them a message under one WhatsApp key that is revoked under the other, and an iMessage that is deleted; 3 events in any order, pages of 2, 1 merge, 1 queued rebuild: an event in a page of its own and one across a page, before and after an alias or a merge by another process. Also run with 4 events and no merge |
| `whatsapp_helper` | acknowledged is kept, nothing is skipped, everything arrives | four worlds of 2 messages and a call (history against a revocation, history from the phone, a deleted call, a receipt), pages of 1, 2 pages a run, times 1 and 2, 1 fault. Also run with three items in each world |

Each run exhausts its state space. `CHECK_DEADLOCK FALSE` stands in the runs of
`Daemon`, `Updater`, `Realtime`, `Accounts` (a stopped daemon, an update that is
decided or an account left alone takes no step) and of `HookBarrier`, `Attachments`,
`Sync`, `Identity` and `WhatsAppHelper` (the bounds end every behaviour); the others
check for deadlock. Type invariants are not properties of the runs: that of `Sync`
was checked on the same instance, the others are theorems.

Exceptions in a property are auxiliary variables or named conditions, and each is
a behaviour the code really has:

* `Projection`: `cut` (a replay that failed half-way), `overtaken` (a reset under
  work laid out), `unattended` (a projection run that failed or could not be queued).
* `HookBarrier`: `contended` (a barrier used during a release).
* `Attachments`: `Gone` (the file an eviction has just removed, whose entry it marks
  next) and `cut` (files that it removed without marking the entry, because the write
  failed or the daemon died, or whose entry a join moved while it ran), for
  `ReadyHasFile`; `abandoned` (contents whose entry was dropped without an eviction, or
  whose request failed or died after it had placed the file), `Placed` (the entry is
  marked next) and `Late` (a request that has marked its entry and not yet looked at
  the limit, or that failed or died before it did), for `DiskIsBounded`.
* `Daemon`: `overruns > 0` (an executor that outlived its lease), `Excused`
  (bootstrap failed, or stopping).
* `SearchIndex`: `forgotten` (a message whose projector died between its commit and
  its enqueue, or that was queued again under a drain which then deleted the new
  entry with the old one), `unwoken` (ids queued by a merge, an orphaned worker or a
  failed projection, which wake no drain).
* `DaemonLock`: `overlapped` (a daemon started while another was acquiring),
  `exposed` (the lock of a living owner was stale, or had been found stale, when the
  owner could not answer a ping), `slow` (a ping answered too late).
* `Updater`: `mixed` (a restore cut off or overtaken between bundle and database; an
  older release still offered by a stale check).
* `Sync`: `Perils` says which platforms withstand overlapping runs and writes that
  are cut off (all but Slack); LinkedIn is left out of `BackfillCompletes`; of Signal
  nothing is expected after a fault.
* `Realtime`: `cut` in a Discord session (stopped while its bootstrap awaits);
  accounts whose login is refused, and watchers that exited, need not settle; `Deaf`
  (a session that says it is connected, of a WhatsApp or Signal helper whose login is
  refused, or of a WhatsApp helper that ended its connection with an `error`).
* `Identity`: `spoilt` (what a process had missed of another's work when it wrote).
* `WhatsAppHelper`: `late` (a row stamped before a snapshot and committed after it),
  `deleted` (a call deleted before anybody was told of it).

### Fairness

Weak fairness is enough where nothing is said: the step stays enabled until it
happens.

* `Daemon!LoopFairness`: timers of the event loop fire; due times and pauses pass;
  bootstrap returns; an adapter or a projection worker ends, because
  `platforms/core/runner.ts` and `PROJECTION_WORKER_TIMEOUT_MS` kill it otherwise.
  `HooksExit` is a separate assumption, because `runtime/hooks.ts` waits for its
  subprocess without a timeout (see section 5). No fairness is assumed of users,
  providers, logins or of one drain's choice of a run. Rebuilds need the extra
  premise that the ingest slots fall empty again and again: syncs that overlap
  without end starve a rebuild.
* `SearchIndex!FairSpec`: the drain's timer fires and its turns finish. Nothing is
  assumed of projections; `QueueEmpties` takes their rest as a premise.
* `DaemonLock!FairSpec`: processes run; the lock of a dead owner ages past
  `SINGLETON_LOCK_STALE_MS`; a daemon is started again while none is there
  (`DaemonSupervisor.startIfNeeded` in `AppRuntime.swift`). No fairness of
  heartbeats, shutdowns or crashes.
* `Updater!FairSpec`: the application's timer and the daemon, the installer and the
  script go on; nothing resumes a script whose machine stopped.
* `Accounts!Fairness`: promises settle, a login process ends (its window has a
  deadline), and the status is asked for again, as the interface does while a login
  is shown. None of users and providers. All steps of logins share one condition: a
  login takes each a bounded number of times, so none can keep the others away.
* `Sync!Fairness`: an account that can be synced is, and an adapter answers or is
  killed by its timeout, again and again; what it fetched is stored. None of mail.
* `Realtime!Fairness`: timers fire, requests are answered or fail, processes told to
  stop do, runs go on and the scheduler queues syncs. Slack's helper exits when its
  login is refused (`slack-go/session.go:406-430`); nothing of the kind is assumed of
  Signal's or WhatsApp's. Strong fairness for one step
  only, the connection of a helper: the timer that replaces a slow one may take it
  away again and again. None of events, polls, faults.
* `WhatsAppHelper!FairSpec`: goroutines and the daemon's loop go on, the helper is
  started again, whatsmeow reconnects, a sync is queued every minute; one condition
  for each of these threads of control. None of faults or of the clock.
* `HookBarrier`, `Attachments` and `Identity` claim no liveness.

## 4. Theorems

Each holds for every value of the constants that satisfies the module's named
assumption; the bounds of the runs do not appear in them except as the counters'
limits, which may be any number.

`RunQueueRealtimeProofs`, about `RunQueue`, from `RunQueueAssumption` (leases are positive, delays are
natural numbers with 0 among them, `NoAccount` is no account):

* `TypeCorrect`: `TypeOK`.
* `Fencing`: `OrphansAreFenced`, `OneHolderPerRun`, `HolderIsActive`, of which the
  run checks the consequence for steps (`OnlyTheHolderSettles`). None of them is
  inductive: the predicate `Holds` does not compare the status. The invariant
  `Inv` adds why it need not: an active row's owner is the current daemon and any
  other row has no owner (`OwnerMatchesStatus`); a ticket names a daemon and an
  attempt that has been made (`TicketsAreIssued`); no attempt of a run is handed out
  twice (`AttemptsAreUnique`); an unused row has never been attempted
  (`UnusedRowsAreFresh`).
* `AccountExclusive`: `OneActiveRunPerAccount`, by its own induction over the
  callers' check before they insert.
* `SettledRunsStaySettled`: the action property `SettledIsFinal`, from `Inv`.
* `QueueImplementsLifecycle`: every step is a step of `RunLifecycle` or a stutter,
  under the mapping that reads the phase off the status and the term off the
  attempt.

`RunQueueRealtimeProofs`, about `Realtime` with its four kinds of session, for every
platform and any number of sessions, logins, syncs and faults, from
`RealtimeAssumption`:

* `RealtimeTypeCorrect`: `RealtimeTypeOK`.
* `LeftSessionsQuiet`: `LeftSessionsAreQuiet`. That a session is quiet is not inductive:
  a Discord session whose bootstrap is under way would go on as if nothing had
  happened, unless it knows that it was stopped (`Left`), and whether a helper's exit
  starts it again depends on what its platform waits for (`Usual`: only Signal waits
  for the exit of a helper it stops, and it has no timer for the first connection).
  The invariant `RealtimeInv` is about the supervisor as a value, so that it can be
  followed through a reconcile that stops one session, starts another and, when it
  was asked for again meanwhile, does so once more in the same step
  (`RequestInRoom`).

`ProjectionProofs`, for any number of workers, rows and disruptions and any page
size, from `ProjectionAssumption`:

* `ProjectionTypeCorrect`: `TypeOK`.
* `WatermarkAdvances`: the action property `WatermarkOnlyAdvances`: a page committed
  late takes the maximum, so only a reset moves the watermark back.
* `WatermarkCovered`: `Covered`. A page read long ago is committed beside the pages of
  others, so the invariant says why it leaves nothing behind: what a process may be
  in the middle of (`Inv`, with the shape of its page and that a queued rebuild
  replays everything); only the daemon projects what it has just stored
  (`WorkersDefer`); unless a reset overtook it, everything laid out starts right above
  the watermark or below it, and a page holds every row of its range (`Laid`); the
  watermark and the pages lie within the rows there are (`Inside`), which a reset
  breaks between its two transactions.
* `BacklogAttended`: `BacklogIsAttended`, with the fact that a replay in the daemon,
  which runs in one turn, leaves nothing (`DaemonReplay`).

`DaemonProofs`, for any finite set of syncs and any number of slots, from
`DaemonAssumption`, which lets at most one executor outlive its lease
(`MaxOverruns` is 0 or 1):

* `DaemonTypeCorrect`: `TypeOK`.
* `RebuildAlone`, `SlotsHonest`: `RebuildRunsAlone`, `SlotsAreHonest`. The invariant
  `Inv` ties the drain's line, the rows and the executors: whatever is in line is due
  (`LineIsDue`) and there once (`NobodyTwice`), an executor that still holds its claim
  has a row that says so (`ClaimsStand`), and without overruns a row is taken only by
  one executor (`RowsAreTrue`).
* `ClaimsWithinSlots`: the action property `ClaimsFitSlots`, from `Inv`.
* `WorkAttended`: `WorkIsAttended`, no lost wake-up: one induction for syncs, with `Inv`,
  and one for projections, on the fact that a drain finds no room only where somebody
  works who will wake it (`NoRoomMeansWork`).

`SearchIndexAccountsProofs`, about `SearchIndex`, for any messages, workers, batch sizes, versions and faults:

* `IndexTypeCorrect`: `TypeOK`.
* `IndexCorrect`: `IndexIsRight`. The invariant follows a change between transactions:
  only a projector that has committed and not yet enqueued carries ids
  (`DirtyIsCommitted`); nobody but the drain that claimed an entry settles it, though a
  projector may queue it again (`BatchIsClaimed`); what the drain has replaced and
  nobody queued again is right, or about to be queued again (`ReplacedIsRight`).
* `QueueAttended`: `QueuedIsAttended`, inductive as it stands.

`SearchIndexAccountsProofs`, about `Accounts`, for every platform and any number of
requests, sessions, changes and stops, from `AccountsAssumption`:

* `AccountsTypeCorrect`: `AccountsTypeOK`.
* `LoginsBelong`: `LoginsHaveAccounts`. A Gmail login takes the row of its session away,
  and another session may still have the name it was asked for under. The invariant
  `AccountsInv` says why none that succeeded does: it has the name of the account that
  logged in (`SessionSound`). A request that is validating a stored secret has seen
  its row, which is still there when the answer comes (`CallSound`).
* `InvalidatedStaysOut`: the action property `InvalidatedNeedsLogin`, from the same
  invariant. A row that was invalidated is not authenticated (`RowSound`), so each step
  but two has only to keep the mark (`Keeps`); the exceptions are the end of a login
  (`CompleteSound`), which must have succeeded and be of that account, and the answer
  about a stored secret. A refresh of a linked platform writes its row anew without
  the mark; the invariant says that such a row never has it, because no sync of a
  linked platform invalidates its account.
  `ImportSound` is where the guard of the LinkedIn import matters.

Every operation of the database is a lemma: what `ReconcileAbandoned`,
`RequestIntegrationAccess`, `MarkAuthSessionInProgress`, `CompleteAuthSession` and
`ImportStoredAuth` do to a sound database, whichever request calls them.

`DaemonLockIdentityProofs`, for any set of pids, late answers and crashes:

* `LockTypeCorrect`: `TypeOK`.
* `OneDaemonAtATime`: `OneDaemon`. The invariant, while nothing named has disturbed the
  daemons: one starter acquires at a time (`OneStarter`); every process from the
  creation of its lock to its removal owns the path (`HoldersOwn`), and the path has
  one owner; a starter about to remove the lock removes nobody's (`RemovedIsDead`).
  The last is what the ping in `acquireSingletonLock` buys.
* `SocketKept`: the action property `SocketIsKept`, from the same invariant.

`DaemonLockIdentityProofs`, about `Identity`, for any of its events, page sizes and numbers of events,
merges and rebuilds, from `IdentityAssumption` (absence is not one of the things
absent):

* `IdentityTypeCorrect`: `IdentityTypeOK`. A type is hard to keep here: an event
  refers to contacts and conversations by what a cache says, which may be the end of
  no chain of merges (`Endless`); that such a row is never committed is due to the
  foreign keys, so a lemma per event says that rows which refer to nothing else are of
  the tables' type (`ContactInRows`, `ContactInRowsToo`, `ContactInReactions`).
* `RevokedStays`: `RevokedStaysRevoked`. The invariant `Sound` has, beside the property
  itself (`Revoked`, which speaks of any set of events), the type, that there are
  finitely many reactions (`Store`), and that a worker's page is of events there are
  (`PageOK`). It is about WhatsApp's conversations (`WhatsAppChats`): elsewhere a
  message is deleted if the last event about it says so. Each operation of the
  projector has a lemma. An event but an alias keeps
  deletions where they are (`KeepsDeleted`; a message that comes under the other key
  leaves a deleted row alone, `ProjectMessageWorks`), and a revocation makes one
  (`Follows`); an alias does so
  until it moves rows to the other key, and takes the deletion along, whichever of the
  two rows is the newer (`Keeps`, `MovesDeleted`, `MoveRowKeeps`); together, what an
  event leaves is deleted under its canonical key (`Leaves`). A page, a recursive
  function, makes of tables in which the events of a set are honoured such tables for
  that set and what it applied (`BatchWorks`); a rebuild is the page of the whole log,
  from empty tables (`RebuiltWorks`). The reactions that move with an alias are folded over; that a
  fold over a finite set exists, is unique, and stays where each step stays is proved
  by induction on its parts (`FoldsExist`, `FoldsAgree`, `FoldsIn`), and what a chain
  of merges ends in by induction on its length (`CanonicalType`).
* `EventsApplied`: `EventsAreApplied`, and `MergesStand`: `MergesHold`. Neither is
  inductive: that an event is never set aside depends on the cache it is resolved by.
  The invariant `Lasting`, beside `Sound`, says that the decisions have no circle
  (`Loopless`, by which every chain of merges ends, `ChainsEnd`), that a worker's page
  leaves no gap above the watermark and, while no process wrote that had missed a change
  of ids (`Kept`): decisions and alias together have no circle, no contact there is was
  merged into another, every reference between tables holds (`Firm`), all below the
  watermark is applied, and a cache is true of the tables unless its process missed a
  change of ids (`Trusts`, `Knows`): what it finds is a contact or conversation there
  is. Under that invariant every event but an alias can be applied and only adds contacts and
  conversations (`ProjectIsSure`, `Grows`), so the caches of others stay true. An alias
  moves contacts, the conversation and rows, and references hold again after each move
  (`MoveContactIsSure`, `MoveChatShifts`, `Settles`); unless it revives a merged contact, the
  cache is true of what it leaves (`ProjectAliasIsSure`). The step to a page is by `BatchSteps`
  (`PageStands`), to a commit beside another process's cache by `PageKeeps`; a rebuild
  starts from empty tables, and one more decision makes no circle because
  `mergeContacts` resolves both contacts first (`LooplessMore`, `DecidedMore`).

`HooksAttachmentsProofs`, about `HookBarrier`, for any number of rows and releases and any page sizes, from
`HookBarrierAssumption` (there are page sizes, none of them 0):

* `HooksTypeCorrect`: `TypeOK`.
* `EmittedAfterProjection`: `EmittedIsProjected`. The invariant `Inv` says what a
  release may still emit: nothing above the watermark (`Releasable`), of batches
  that were enqueued (`HeldIsQueued`), no two of which share a first row
  (`BatchesDiffer`).
* `HooksConserved`: `ConservedWhenAlone`. The end of a release says nothing about its
  middle, so `Conserved` follows the array while one release walks it: what is in
  `Line` (kept, and still to be looked at) holds no batch twice, and exactly those
  batches whose hook has not run (`Sound`). It fails as soon as the barrier is used
  during a release, which is what `contended` names.

`WhatsAppHelperProofs`, for any messages, calls and deliveries, pages, budgets and
faults, from `HelperAssumption`, `CacheAssumption` and `NoneAssumption`:

* `WhatsAppTypeCorrect`: `TypeOK`.
* `AckedKept`: `AckedIsKept`. What the handler has stored is kept before the provider
  is told (`HandlerHolds`); the first chunk of the queue is in the batch to be applied
  or in the cache (`HistorianHolds`). The two goroutines and the helper's death
  interleave, so each needs that the other takes nothing away (`InCacheStays`,
  `KeptStays`): rows of the cache are only made fuller, and a chunk leaves the queue
  only when its rows are there.
* `NothingSkipped`: `NothingIsSkipped`. A row that no page has brought is, at each step
  of a run, ahead of that run's cursor or younger than its snapshot (`RunHolds`), also
  while a page is on its way (`PagesHold`); snapshots do not run ahead of the clock
  (`Snapshots`). The query itself is a lemma: a page holds every row up to its next
  cursor, for every limit (`ResyncPageComplete`, on `FirstsFound`).

`HooksAttachmentsProofs`, about `Attachments`, for any finite set of attachments, any contents,
hosts and policies, limits, requests and changes, from `AttachmentsAssumption`:

* `AttachmentsTypeCorrect`: `AttachmentsTypeOK`.
* `CredentialsKept`: `CredentialsStay`, from the fact that a request is only ever
  asking a host its policy allows (`AsksAreAllowed`), which each redirect and each
  second attempt without a cookie preserves.
* `ReadyHasItsFile`, `FilesCounted`, `EntriesAreRooted`: `ReadyHasFile`,
  `FilesAreCounted`, `EntriesHaveRows`, together inductive (`Cached`) with what a
  running eviction knows (`Eviction`). While it runs no request stores anything
  (`Alone`, from `MayRun`), but rows may be edited, joined or replayed. Its list stays
  complete: every file that an entry names is listed; and exact: no entry names a file
  it is not listed with, but those a join has moved (`ListIsComplete`, `ListIsExact`).
  So the file removed with the last listed entry was no other entry's
  (`MarkEvictedKeeps`), and however the eviction ends, what it removed without marking
  it is in `cut` (`OverKeeps`). Whatever else drops an entry leaves its file, counted
  (`DropKeeps`), and so does a failure between a file and its entry (`FailKeeps`).
* `DiskBounded`: `DiskIsBounded`. The code adds up entries, the disk holds files, and
  entries share them. The invariant is about files (`Bounded`): those of entries that
  are not `Late` fit within the limit together, or there is at most one. An eviction
  that has come to its end had listed all of them, and adds up at least as much as they
  take (`EndIsBounded`); every other step leaves the same or fewer
  (`NoneReadyIsBounded`, `LessIsBounded`). A sum over a finite set is monotone, splits
  at an element, and counts an image at most as often as what it is an image of
  (`SumIsNat`, `SumOfPart`, `SumTakesAny`, `SumOfImage`), by induction on its parts
  (`InductionOnParts`, from the well-foundedness of inclusion).

`UpdaterProofs`, for any feed of releases, channels, number of installs and of stops,
from `UpdaterAssumption` (the feed holds versions, and at least one):

* `VersionsAreOrdered`: `compareVersions` is a strict total order of versions, whatever
  identifiers their pre-releases have. Everything below rests on it: a database fits a
  bundle by transitivity only.
* `NewestIsPicked`: `pickReleaseForChannel` returns the newest release the channel may
  install, for every list in every order.
* `UpdaterTypeCorrect`: `TypeOK`.
* `DatabaseIsKept`: `DatabaseSurvives`. The invariant has an operand for each thing the
  script relies on: which bundle is installed at which of its lines, and that the copy
  kept aside is the previous one (`BundlesInHand`); which database fits which bundle,
  the copy of the database and the target included (`Fits`: `SchemaFits` alone says
  nothing of a restore that is still to come); and that no daemon from before the
  update runs once it has been waited for, so that what it wrote is in the copy
  (`RowsKept`).
* `UpdateDecided`: the action property `UpdateIsDecided`, from the same invariant; the
  health check's row says "running" only of a daemon that had migrated the database
  (`Reported`).

Only model-checked: `Sync`; of `Identity` `AliasesAreFollowed`, which holds of the
run's events and not of every set of them that the module allows, and `RebuildsAgree`; of `Updater`
`NewestIsOffered`, which compares the code's order with a list of precedences written
by hand; and liveness everywhere, which the prover has no rules for, nor
for ENABLED. The prover cannot use the library's induction theorems, which take a
predicate; where an induction over data was worth it (sums, in `Attachments`; pages, folds and
chains of merges, in `Identity`) the proof takes a smallest counterexample instead. It was not done for what an adapter's
page loop fetches in all. Nor can the prover reason about RECURSIVE operators, so the
modules that are proved about use none.

## 5. Known limits the models show

Every run passes: where the code fails a property in a case, the property names
the case (section 3). These are the cases, and other behaviours met while
modelling; where the repository says otherwise, it is quoted. They were seen with
TLC by dropping the exception, or read from the code.

* **Hooks.** A release that awaits a hook replaces the array by the batches it kept
  (`runtime/projection/service.ts:137`); batches enqueued in the meantime, or kept by
  another release, disappear. A batch cut with one page size and start is released by
  no page of a run with another (`:129`) and waits for the next rebuild. A hook that
  does not exit keeps its run's ingest slot (`server.ts:4058`), although `hooks.ts:164` says
  "Hook subprocess failures never block auth or sync".
* **Search.** The replay after a contact merge enqueues every message and wakes no
  drain (`run-queue.ts:236`): searches find nothing until something else is projected.
* **Lock.** Of two daemons started at once the second may find the lock half-written,
  or stale before the first replaced it, and remove by its path the lock the first
  has just made (`singleton-lock.ts:132`); `singleton-lock.test.ts` "rejects an
  active owner".
* **Updater.** An install whose check fails goes on with what an earlier version was
  offered, the same release or an older one (`runtime/updater/service.ts:568`).
* **Attachments.** Files and entries are written one by one
  (`runtime/attachments.ts:729`, `:736`, `:1126`, `:1131`). A death, or a write that fails,
  between a file's removal and its entry's, leaves a ready entry without its file, and
  so does a join that moves an entry while an eviction has it listed; the next fetch
  notices (`:1067`) and downloads it again. After a death between a file's place and
  its entry, or a failure past that point, whose catch marks the entry failed
  (`:1168`), the file stays and no entry refers to it. So does the file of an entry
  dropped by an edit, a join or a rebuild (`projector.ts:1048`,
  `identity-alias.ts:166`), or overwritten by a second request.
  `ensureWithinLimit` counts entries: the directory may outgrow its limit by all of
  these, and until the next fetch by what was stored by a request that did not get as
  far as the limit. `CuedDatabase.clearProjectedState`
  (`db/database.ts:4088`) removes the files, and the indexed text of attachments, but
  a rebuild calls the projector's own (`projector.ts:1043`), which leaves both. A
  path that was returned may be evicted before it is read. An entry that was being
  fetched when the daemon stopped says so until it is asked for again.
* **Accounts.** A refresh that was probing a helper writes back a row that was
  removed meanwhile (`platforms/core/state/refresh.ts:204`).
* **Slack.** Proofs are stored one by one and the checkpoint last (`server.ts:3887`);
  after a crash in between, `slackResumeStateFromProofs` takes a history as finished
  whose pages were not all stored. Runs that overlap do the same.
  `platforms/slack/sync/proof.ts:127` calls such a proof "evidence of exhaustive
  initial hydration".
* **Other adapters.** A source reset while a run is under way is undone by the
  checkpoint of that run. A LinkedIn backfill that one run cannot list in full never
  completes, because the next run's `discoveryScan` replaces what was pending.
  "Everything that arrives later is fetched by a sync" holds only for WhatsApp and
  this machine's databases: Gmail resumes from the `historyId` of the last backfill
  run, Discord leaves a gap after a crash, LinkedIn and Slack read the newest page or
  window. Messages Signal has handed over are gone with a run or session that dies
  before it stores them. A contact edited back to an earlier content has its old
  dedupe key and is dropped.
* **Realtime.** A Discord session stopped during its bootstrap polls on, and the
  refusal of its old login blocks the account that has a new one.
  `suppressNextSignalReconnectSync` usually outlives its sync. A Signal account whose
  login is refused reconnects, and queues syncs, for ever. A LinkedIn session
  degraded by refused credentials stays so until they change. A WhatsApp helper that is
  logged out while connected, or whose connection ends for good, emits `error` and
  goes on (`main.go:1927-1937`); the session ignores an `error` while it is connected
  (`session.ts:415-419`) and says so ever after. A new login does not help: what a
  session of WhatsApp or Signal is started with holds no login (`session.ts:692-701`,
  `signal/realtime/session.ts:486-496`), so a reconcile leaves the session, and its
  helper, as they are (`Deaf` marks these states; a removal, a restart, or for Signal
  the next sync ends them). A secret that cannot be read for a
  moment at a reconcile ends the session until the next login or removal. A native
  watcher that exits by itself is never replaced.
* **Identity.** A cache that missed another process's alias or merge leads to events
  quarantined by foreign keys (`projector.ts:658`). A rebuild can give a person
  merged by hand another id, so that the merge is lost (`skills/cued/SKILL.md:107`:
  merges "survive rebuilds and replay"; seen for stubs, with a larger instance). A worker
  under way during a merge recreates the merged contact, and a later alias can close a
  circle of merges, after which every cache fill throws until a rebuild. After a
  merge of stubs, memberships keep the old LID key. Page boundaries can split a
  person until a rebuild. An alias that finds the LID contact shared makes a contact
  under the number's own key without following merges (`identity-alias.ts:222-228`):
  one that was merged away by hand comes back as a row, with its merge still decided,
  and events that refer to the contact it was merged into can be set aside until that
  one is projected (seen with a larger instance; `Revived` marks these states).
* **WhatsApp.** A revocation has the dedupe key of its message, so `insertRawEvents`
  drops it when the message is stored under the same key of the conversation (under
  the other key of it both are stored). A call that is deleted leaves no trace in the
  cache, so one that was missed live is never resent. A chunk of history that can
  never be downloaded blocks the queue for ever. A row stamped before its commit, in
  the millisecond of a snapshot, is skipped by resyncs. A hung helper stays
  "connected" and every sync times out. An import of an empty WhatsApp Desktop
  database before the helper's first sync makes that sync start from
  `last_success_at` and skip what was cached before; the model assumes the database
  holds a message, and everything up to `DesktopOverlap` before its newest.

## 6. Plan

Done: the core (`RunQueue`, `Projection`, `HookBarrier`, `Daemon`, `SearchIndex`,
`DaemonLock`), the parts around it (`Updater`, `Accounts`, `Sync` with all
adapters, `Realtime` with all sessions, `Identity`, `WhatsAppHelper`, `Attachments`),
and proofs about all of them but `Sync`. Left, in this order:

1. An abstract specification of ingest (a cursor that never passes an event that was
   not stored) with one refinement per adapter, in place of `HistoryIsExhaustive`.
2. Names, memories and several people who share a handle in `Identity`.
3. `TelemetryQueue`, the status file.

## 7. Not modelled

* What is data to every property: contents of messages, the translation of provider
  payloads into raw events, display names and their fan-out, counts and summaries,
  members and reactions in the adapters, formatting, logging, status texts.
* `db/migrations.ts` and most of `db/database.ts`: straight-line SQL, a transaction
  each; the migrations run before anything else opens the file. Queries that only
  read for the CLI (search, listings) change nothing.
* `cli.ts` and the client: parsing and one request per connection; the changes they
  cause are actions of the modules on the daemon's side.
* Of the attachments: lists and searches, which only read, times of access (entries
  are evicted in any order), the size a request allows, variants of a file and
  temporary files.
* The Swift host and interface (its restart policy is in `DaemonLock` and `Updater`),
  installation, packaging, the performance harness: files written once, or tools
  outside the running system.
* Pages of the providers that logins automate, the macOS keychain, telemetry: I/O.
* The Slack helper (its process is in `HelperSession`), the pairing and media parts
  of the WhatsApp helper, contacts and chats in its cache, failing cache writes.
* The two slots inside the lock file, which are one atomic write here; the
  termination of competing daemons by name; two installs at once; members that
  leave, contact memories and deleted calls in `Identity`; the stop of all sessions
  at shutdown.

About thirty per cent of the implementation's lines are translated; what remains is
this list. `PROJECT.json` gives the reason for each part.
