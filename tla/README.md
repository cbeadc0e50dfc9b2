# Formal models of evakuilo

evakuilo is a daemon that keeps a complete archive of wikis: it follows each
wiki's recent-changes feed, stores every revision and attachment in one SQLite
database per site, and publishes the result. This directory holds TLA+ models
of it, TLC configurations that check them, and TLAPS proofs.
`PROJECT.json` lists, for machines, the components, runs, mutants, theorems,
hazards and the source lines every definition stands for.

Paths below are relative to the crate, `src/db.rs` and so on.

## 1. Inventory of the system

| Component | State | Operations | Modelled in |
|---|---|---|---|
| Job queue (`db.rs`, `jobs.rs`) | table `jobs`: kind, payload, status, run_at, attempts, priority | `enqueue`/`enqueue_on` (insert-or-ignore, resurrect, event row), `claim`, `complete`, `complete_ephemeral`, `fail`, `recover`, `backoff_secs` | `JobQueue`, abstract `WorkLedger` |
| Dispatcher, lifecycle (`daemon.rs`, `main.rs`) | flock, semaphore permits, spawned tasks, the claimed row in hand | `open_locked`, `seed_periodic`, claim loop, task end, `init` beside a daemon, ctrl-c and crash | `JobQueue` |
| Wikidot pipeline (`workers.rs`, `wikidot.rs`) | tables `pages`, `revisions`, `denied_revisions` | `discover`, `page_sync`, `revision_fetch`, `backfill` | `Pipeline` |
| Change feed scan (`workers.rs`) | meta `saved_up_to`, the window in hand | `discover`, `absorb_window` | `FeedScan` |
| Blob store (`blobs.rs`) | files named by hash, a temporary name each | `write_blob`, `sync_dir` | `BlobStore` |
| Attachments and theme (`workers.rs`, `theme.rs`) | table `files` (pending, saved, missing), the crawl marker | `file_fetch`, `shell_sync`, `theme_crawl`, file part of `backfill` | `Files` |
| HTTP client (`http.rs`, session part of `wikidot.rs`) | limiter channel and heap, cookie jar and its saved copy, scheme, bootstrap gate, host marks | grants, `ensure_session`, `forget_token`, `absorb_cookies`, `persist_cookies`, redirects of a POST, `mark_host` | `Limiter`, `Session`; host marks in `Files` |
| RuFoundation sites (`rufoundation.rs`) | the same tables, another API | `discover`, `page_sync`, `revision_fetch`, `file_fetch`, `shell_sync` | `RuSync`; files and shell as in `Files` |
| Publication (`out.rs`) | `out_state.packed_revs`, archives and manifests on disk | `publish`, `write_page_archive`, `write_manifests`, `write_if_changed` | `Publish` |
| Migrations and repairs (`db.rs`) | `user_version` | `migrate`, repairs v6 and v7, blob collector | `Repair`, from which `Files` starts; the collector in `BlobStore` |
| Legacy importer (`importer.rs`) | reads an old archive, writes every table in one transaction | `import_site` | jobs in `JobQueue`, pages and revisions in `Pipeline`, watermark in `FeedScan`, attachments in `Files`, its publication in `Publish` |
| Parsers, formats (`parsers.rs`, `model.rs`) | none | HTML and wikitext extraction, canonical names | not modelled |
| Configuration, status, packaging | none | reading TOML, printing, build | not modelled |

**How they interact.** Everything goes through the database. A job's run reads
tables, asks the network, and returns *effects*; the task then commits effects,
child jobs and the end of its own row in one transaction. `discover` enqueues
`page.sync` signals; `page.sync` enqueues `revision.fetch` (with resurrect) and
`file.fetch`; `shell.sync` enqueues `theme.crawl`; `backfill` re-arms dead
fetches; `out.update` publishes what is complete. Tasks of one site share the
limiter, the session and the blob directory. Only one daemon holds a site's
database (flock), but `init` may open it meanwhile and `import-legacy` runs
while the daemon is down.

**What is hard here.** Tasks of one site interleave at every `await`; rows are
claimed, re-armed, deleted and re-inserted around them; the process may die
between any two steps and attempts are charged before the run; the wiki changes
between two requests of one run; a scan walks a list that slides under it;
several tasks write one blob through one temporary name; tokens rotate while
forms are under way; a publisher reads the database in several queries and may
be cut off between any two calls; a periodic job must never end.
`PROJECT.json` "hazards" lists each at its line, with the properties that watch
it, or with what keeps a property from holding.

## 2. Modules

How they build on each other:

    WorkLedger  <-- JobQueue (refines it)
        ^-- Pipeline, RuSync, Files (use it in place of the queue)
    Repair      <-- Files (starts from repaired tables)
    Limiter     <-- Session (every request takes a ticket)
    Discovery   <-- FeedScan (refines it)
    BlobStore, Publish stand alone; Discovery is the discover that Pipeline
    takes as one step, BlobStore what a saved row of Files rests on.

### `WorkLedger` - what the queue promises

Abstract specification. A *ticket* is one piece of requested work: the row of a
durable (kind, payload), or one of the rows that signals for one slug occupy.
Requests open tickets; a commit serves one and records, in the same step, one of
the requests a run of that ticket may make (`Asks`); the queue may drop one;
nothing else changes the ledger. `turn` makes the commit of a periodic job
visible, whose ticket is open before and after, so that a commit that lost its
children cannot pass for a stutter.

### `JobQueue` - the table and its dispatcher

Variables: `jobs` is the table; `daemon`, `handle` (the row claimed and held
while waiting for a permit) and `task` (one record per permit) are the process;
`now` is the clock. `failures`, `orphans` and `rounds` are history variables that
properties need and no guard reads. A row is `<<identity, copy>>`: the partial
unique index gives durable identities one row, a slug may hold several.

| Action | Code |
|---|---|
| `OpenLocked`, `Start`, `InitCommand`, `ImportLegacy` | `open_locked` with `recover`; `daemon::run` seeding; `cmd_init` without the lock; the importing process |
| `Claim`, `StartTask` | `claim` before `acquire_owned`, then spawning |
| `Complete`, `CompleteEphemeral`, `CompletionFails` | the completing transaction, or its rollback |
| `RunFails`, `Requeue`, `Abandon` | `fail` after the run or after a rollback; a failure that cannot be recorded, or a panic |
| `Crash`, `Tick` | end of the process; time |

What a run does is left open: it may fail, permanently or not, or commit with
any of the batches in `Children`. Ties of equal priority and run_at, which the
code breaks by row id, are taken in any order. A clean ctrl-c and a crash leave
the same state, since neither waits for tasks.

### `Pipeline` - pages and revisions of a Wikidot site

Uses the queue through `WorkLedger` (one ticket is run by one task at a time and
commits atomically: `QueueImplementsLedger`, `OwnershipHolds`), and adds the
wiki as an actor that creates, edits, renames, deletes and hides between any two
requests. `page`, `known`, `stored`, `denied` are the tables; `runs[t]` is what
the run of ticket `t` has read so far.

| Action | Code |
|---|---|
| `DiscoverScan`, `DiscoverCommit` | `discover`; the scan in one step, see `FeedScan` for its windows |
| `ResolvePage`, `PageNotFound`, `ListRevisions`, `SyncCommit` | `page_sync`: `fetch_page` then `max_rev`; each window of `fetch_revisions_above`; the effects |
| `FetchBegin`, `FetchCommit` | `revision_fetch`: the fast path or the request; content stored or denial recorded |
| `Backfill` | the sweep over revisions |
| `RunLost`, `RunDropped`, `Crash` | failed runs and rollbacks (`SlugTaken` is the unique slug index) |
| `ImportLegacy` | pages, revisions and jobs of `import_site`, a journal being a prefix of the page's revisions |

`SyncCommit` is disabled when another row holds the slug: the transaction
cannot commit, and `RunLost` or `RunDropped` is what happens instead.
`NeverRefetched`, which is proved and has no run of its own, speaks of runs that
decided to ask; it is meaningful because `stored` may change under them through
the importer only when no run is in flight, which is what the flock guarantees.

### `Discovery` - what discover promises

Abstract specification. A run takes on every change without a signal in one
instant (`Take`), and its commit signals at least the pages of those (`Signal`).
Only a deletion during the run, or a window misread (`Slip`), releases it from
what it took on; a run may fail, and an import vouches for old changes. This is
the discover of `Pipeline`, where the feed is read in one step.

### `FeedScan` - discover window by window

The feed is the set of the entries listed, an entry's `Place` the number of
those newer, a window the entries of some places; `FirstWindow` fixes the next watermark,
`NextWindow` reads one more window of the feed *as it is then*, `Commit` writes
watermark and signals. `Misread` is a deeper window that parses to nothing and
so passes for the end of the feed; `DeletePage` takes a page's entries out, also
between two windows, and pulls what lies behind them towards the front;
`ImportLegacy` sets the watermark back, or forward, to the old archive's.
`unsignalled` is a history variable: changes no committed signal followed.
`overlooked` are those of them a disturbed scan may have missed: it is set by
the disturbance to everything unsignalled at that moment, and never by a later
change. `begun` is a history variable too, the number of changes made when the
scan in flight read its first window: the changes up to it are what the
refinement takes the scan to have taken on. The number of an entry stands for revision and author, which the code
compares together with slug and time.

### `BlobStore` - one blob, several writers, one collector

`write_blob` one file-system call at a time (`Enter`, `Create`, `Write`, `Sync`,
`Rename`, `DirSync`, then `CommitRow`). `names`/`data` are what processes see,
`kept`/`safe` what outlives a loss of power; a killed process loses neither.
`Repair`, `Recheck`, `Unlink` are the collector of `migrate`: rows freed by a
repair, the look whether any row still refers to the blob, the unlinking.
`raced`, `undone` and `late` are history variables that say in which histories
the guarantees hold: two tasks overlapped, a step was cut off, a save was under
way when the collector found no row, or entered before it unlinked. Inodes are never shared by the two names, and
a freed one is used again.

### `RuSync` - pages and revisions of a RuFoundation site

The second platform: no change feed but a listing with a time per page, and an
API that answers by slug. `row[p]` holds slug and watermark, `known` and `denied`
are the revision tables, and `text[r]` says *which* revision's text is stored as
r's, so that a mixed-up text can be told. The wiki is an actor with a clock in
seconds, the resolution of `parse_iso8601`; log entries archive a source or not.

| Action | Code |
|---|---|
| `DiscoverList`, `DiscoverCompare`, `DiscoverCommit` | `discover`: the listing; `stale_pages` against the rows; the signals, whose payload carries the listing's time |
| `SyncArticle`, `SyncLog`, `SyncFiles`, `SyncNotFound`, `SyncCommit` | `page_sync`: its three requests, `max_rev` and `snapshots_above` after the last; a 404 at any of them; the effects |
| `FetchBegin`, `FetchSkip`, `FetchStore`, `FetchDeny` | `revision_fetch` through the slug the row has when it begins |
| `Backfill`, `RunLost`, `RunDropped`, `Crash` | as in `Pipeline` |

`astray` is a history variable: pages that were edited between article and log,
or whose slug led a run elsewhere. It is set from what the wiki did, never from
what was stored, so `ArchiveIsTrue` says that those are the only ways a text or a
denial can be wrong. A payload gets no further row once it has `MaxSignals`.

### `Repair` and `Files` - attachments and theme

`Repair` has no behaviour: it is the two repairs of `migrate` as functions on
tables of an older version. `Without` deletes garbage rows and their jobs,
`Reset` turns error pages saved as files back into pending rows, `Seeded` is
the extraction over stored texts, `Merged` gives every file one row under its
canonical key, `Armed` gives every pending row a job. `RepairV6`, `RepairV7` and
`Upgraded` compose them in the code's order. Two details are kept because they
show: version 6 deletes only *pending* jobs of garbage keys, version 7 jobs in
any state; and the reset comes before the merge, so that an error page one of
whose other spellings is `missing` stays missing.

`Files` starts from what `Upgraded` makes of *any* table an older version may
have left (`OldTables`), and is about the rows of the `files` table (`row`), the
crawl's marker in `meta` (`marker`), the marks on hosts the HTTP client keeps in
memory (`marks`), and over `WorkLedger` the four kinds of job that meet on them.
`site` is what the homepage names.

| Action | Code |
|---|---|
| `Reference` | the file part of the effects of `page_sync` and `revision_fetch` |
| `FileBegin`, `FileSuppressed`, `FileAnswer`, `FileCommit` | `file_fetch`: row and mark looked at; the request's answer, which may mark the host; the effects |
| `ShellFetch`, `ShellCompare`, `ShellCommit` | `shell_sync`: homepage; comparison with the marker; enqueue of the crawl |
| `CrawlBegin`, `CrawlVisit`, `CrawlCommit` | `theme_crawl`: one step per URL, style sheets first; all rows and the marker at the end |
| `Backfill`, `ImportLegacy` | the sweep over pending rows; part 4 of `import_site` |
| `ConnectFails`, `MarkExpires`, `RunLost`, `RunDropped`, `Crash` | `mark_host`, `host_health`; failed runs; end of the process, which forgets marks |

A visit's request and answer are one step, since the answer is used at the
commit only; `file_fetch`'s are two, since the mark is set between. A saved
row's blob is taken to be readable (`BlobStore`), and the bytes are not told
apart: an error page the crawl stores as a style sheet is `saved`.

### `Limiter` and `Session` - the HTTP client

`Limiter` is the task that grants tickets: `Acquire` puts a request into the
channel, `Receive` moves it to the heap, `Grant` gives the head of the heap its
turn, `Elapse` is the passing of the interval. Arrivals and the due time are
polled in random order, so a grant may come while an urgent request is still in
the channel.

`Session` extends it with what the tasks of a site share: the token in the
cookie jar, its copy in the database, the scheme learned, and the gate of the
bootstrap.

| Action | Code |
|---|---|
| `Check`, `EnterGate` | `ensure_session`: the look without and under `token_gate` |
| `ReadToken`, `Ask`, `Send` | token and scheme read for the form; the limiter's ticket; the server's answer to what is in the *cookie jar* then |
| `Absorb`, `Serialise`, `Save` | `absorb_cookies`; `persist_cookies`, whose serialising and writing are two steps |
| `Booted`, `Succeeds`, `Redirected`, `Fails`, `GivesUp`, `Rejected` | what the response is worth; `remember_scheme` before; `forget_token` (`DropToken`) |
| `Rotate`, `Move` | the server replaces its token; the site moves to the other scheme |
| `NoResponse`, `Refused`, `SaveFails`, `Restart` | failures; `attach_store` |

A failed response is *refused*, which is retried (`FetchError::retryable`: the
bootstrap goes on while it has tries left, any other call in a later attempt or
a new run of its job), or *denied* (403, 404, `no_permission`, gone), which ends
a bootstrap and the call at once. A denied call is over for good (`denied`: the
job is dead-lettered or records the denial), but for a `revision_fetch` that met
a 404, which fails as if it were retryable; `GivesUp` may do either.

`forget_token` drops whatever token is in the jar, also one another caller has
just got; the model does the same. The gate may be held by a caller of low
priority while urgent ones wait for it.

### `Publish` - archives and manifests

One publisher beside the jobs that write the database (`Sync`, `Retag`, `Store`,
`SaveFile`).

| Action | Code |
|---|---|
| `List`, `SkipEmpty`, `SkipPacked`, `ReadTexts` | `publish`: `pages_to_pack` in one query; the two skips; the texts as they are then |
| `Write`, `Rename`, `DirSync`, `Record` | `write_page_archive`, call by call, and `set_packed` |
| `ReadPages`, `ReadFiles`, `Compare`, `Published` | `write_manifests`, `write_if_changed`, which share `Write`, `Rename`, `DirSync` |
| `Killed`, `DirGone`, `Wipe`, `PowerLoss` | end of the run; out/ removed, before or under it; loss of power |

`seen` is what processes see, `kept` what is sure to outlive a loss of power.
`texted` is a history variable: a page's name and tags when its last text was
stored. `DirSync` syncs the innermost directory only, as the code does, so a
*new* shard directory may vanish with its archive (`Fresh`); the next run
notices, because it looks whether the file exists. A page that is renamed or
retagged without a new text keeps its old front matter by design: `Current`
asks for no more.

## 3. What is checked

| Run | Instance | Shows |
|---|---|---|
| `queue` | 1 periodic, 1 one-shot, 1 slug with 2 rows; 1 permit; 1 crash; budget 2, 3 claims per row; clock to 2; fairness | `Ownership`, `RetryBudget`, `NeverRetriedEarly`, `EverythingSettles`, and that the table implements the ledger (`ImplementsLedger`) |
| `queue_periodic_dead` | the same with 2 permits | a counterexample: see 5 |
| `pipeline_safety` | 2 pages, 2 slugs, 2 revisions each, windows of 1, 3 changes, 2 jobs in flight, failures | `NoGap`, `NothingStranded` |
| `pipeline_recreated` | 2 pages, 1 slug, no network failures, fairness | a counterexample: see 5 |
| `feed_scan` | 2 pages, 4 changes in 3 seconds, windows of 1, 1 mishap, fairness | `NothingSkipped`, `EveryChangeSignalled`, and that the scan implements `Discovery` (`ImplementsDiscovery`) |
| `blob_safety` | 3 writers, 2 chunks, 2 mishaps, 1 collection | `WholeUnlessRaced`, `WholeWhenSettled`, `OnDiskUndisturbed` |
| `ru_safety` | 2 pages, 2 slugs, logs of 3 entries, 3 changes in 2 seconds, 2 jobs in flight, 1 fault | `NoGap`, `WatermarkHonest`, `NothingStranded`, `ArchiveIsTrue`, `NothingOverlooked` |
| `ru_head` | 1 page, 1 slug | a counterexample: see 5 |
| `files_theme` | 2 style sheets, one importing itself, 1 image pages refer to as well, with 2 old spellings; 1 host, 1 change of theme, 1 fault, 2 jobs in flight, fairness | `PendingHasJob`, `CleanMarkerIsComplete`, `PendingSettles`, `ThemeConverges` |
| `files_frozen` | 1 job in flight, 1 fault | a counterexample: see 5 |
| `session` | 2 AJAX callers, 1 visitor of higher priority, 2 schemes, 1 retry, 2 hops, 2 mishaps, fairness | `OvertakenOnce`, `OneBootstrapPerLoss`, `SavedUnlessTorn`, `PostsKnowTheScheme`, `EveryCallEnds` |
| `publish` | 2 pages of 2 revisions, 3 transactions of other jobs, 2 mishaps, fairness | `NothingTorn`, `SkippedIsWhole`, `SkippedIsNamed`, `PublicationConverges` |

Every run also checks its module's type invariant, and `PROJECT.json` names for
every property a plausible mistake in the code (an operator marked *Faulty*)
that TLC shows to violate it.

**Bounds, and why they are enough.** Each is a named constant used in guards.
*Queue:* one permit and the dispatcher, which holds a further row, make two rows
running at a time, so every pair of owners occurs; a slug with two rows is a
signal arriving during the run of an earlier one. `MaxAttempts` 2 with
`MaxClaims` 3 lets a crash push attempts past the budget. `MaxClaims` bounds
claims of periodic rows too (they have no budget in the code). The clock stops at
`Horizon`, whose reading stands for that moment and every later one: `run_at` is
never cut and may lie beyond it, and a row due beyond it may be claimed there,
so no row waits for ever on the bound's account. So `NeverRetriedEarly` compares
exact times at every reading of the clock: with a base of 1 and a cap of 2 a row
that fails a second time is due two units after *that* failure, and a backoff
that does not grow, or that a recovery sets back by clearing the attempts,
violates it. More permits are left to the proofs. *Pipeline:* two revisions and
windows of one make a listing of two windows plus the empty one, growing while
it is read; three changes are enough for create, edit and rename (or delete and
create anew). *FeedScan:* four entries in windows of one slide under a walk
several times, with ties within a second, and a deletion in the middle.
*BlobStore:* three writers let two race while a third finds the target; two
mishaps let the recovery from one be hit by the other, the collection being one
of them, which saves may be under way beside. `MaxFiles` is never the reason a file cannot be created (one inode
more gives the same states). *RuSync:* two pages can swap or inherit slugs
between the requests of a sync, and two seconds give two signals of one slug
that commit in either order. *Files:* the image is fetched by its own job and
by the crawl at the same time, a cycle of imports makes the visited set matter,
and one change of theme lets a crawl of the old roots commit over the new ones'
marker; one fault is a hole in a crawl, a dead-letter, a crash or a host out of
reach, whichever comes; an older version's table may have any combination of
rows and jobs under three spellings of the image, one of them garbage. *Session:* two callers make every
race for gate, jar and token, the visitor overtakes them; two mishaps are a
rotation that meets a failed save, a denial, a restart or a move of the scheme.
*Publish:* two pages make what was listed of the second stale while the first is
packed; three transactions are a revision, its text and a rename; two mishaps
are a loss of power in the recovery from a kill or a wipe.
Deadlock is not checked because every bound lets the model stop, and a database
with all work done and no daemon is a legitimate end.

**Fairness, and why the code justifies it.** *Queue:* systemd restarts the
daemon (`nix/nixos.nix`, `Restart=on-failure`), the claim loop and the tasks are
ordinary code on a multi-thread runtime, and every request has a timeout, so
`OpenLocked`, `Start`, `Claim`, `StartTask` and a task's next step are weakly
fair. Nothing says that a run succeeds. *Pipeline:* runs end (`RunLost` weakly
fair); for liveness the network must not fail for ever, so the steps of a sync
are strongly fair. *FeedScan:* that the scan's own steps, taken together, go on;
the wiki has no fairness anywhere, and the bound on changes makes a scan end
even if the feed kept growing (in the code a feed that grew by a window per
request for ever would never be read to its end). *Files:* each kind of job
makes steps strongly fairly, as permits are taken and freed; the sweep and the
expiry of marks are weakly fair, and the number of faults is bounded;
`ThemeConverges` also rests on faults, 404s of theme files among them, coming to
an end: a file that stays dead is crawled for again for ever, by design.
*Session:* that something that can go on does, one weak fairness for all tasks
together, which is less than tokio grants. That a call ends rests on the bound
on mishaps too: a retried call is given up after a number of attempts, which is
`JobQueue`'s matter. *Publish:* a run goes on, and the
periodic job is run again (`EverythingSettles`, `seed_periodic`).
For `RuSync` no liveness is stated: that an edit arrives follows from
`NothingOverlooked` (discover lists a page that lags as stale),
`NothingStranded` and the queue's `EverythingSettles`.


## 4. What is proved

TLAPS proves, for every value of the constants that satisfies the named
assumptions, every type invariant and every safety property of the runs.

| Module | Theorems | Argument |
|---|---|---|
| `JobQueueProofs` | `TypeCorrect`, `OwnershipHolds`, `RetryBudgetHolds`, `RetriesWait` | see below |
| | `QueueImplementsLedger`: every step of `JobQueue` is a step or a stutter of `WorkLedger` under `LedgerView` | a row that is held or running is open (`HeldIsOpen`), so claims and failures stutter; a commit is one `Serve` |
| `PipelineProofs` | `TypeCorrect`, `RowsHaveNoGap`, `RowsHaveAJob`, `SettledIsLeftAlone`, `SignalRecordsChange` | see below |
| `RuSyncProofs` | `TypeCorrect`, `RowsHaveNoGap`, `WatermarksAreHonest`, `RowsHaveAJob`, `StoredIsTrue`, `NothingIsOverlooked` | see below |
| `FeedScanProofs` | `TypeCorrect`, `NothingIsSkipped` | see below |
| | `ScanImplementsDiscovery`: every step of `FeedScan` is a step or a stutter of `Discovery` | the first window is `Take`, deeper ones stutter, a commit is `Signal` by `ScanTakesAll` |
| `SessionProofs` | `TypeCorrect`, `OvertakenAtMostOnce`, `BootstrapIsShared`, `JarIsSaved`, `FormsKnowTheScheme` | see below |
| `FilesProofs` | `TypeCorrect`, `PendingRowsHaveAJob`, `CleanMarkersAreComplete` | see below |
| | `V6Repairs`, `V6Idempotent`, `UpgradeRepairs`, `SavedSurvives`, `ErrorPagesAreRefetched` | each repair step as a lemma on tables, composed in the code's order |
| `BlobProofs` | `TypeCorrect`, `ShortCutIsSound`, `RacesSettle`, `RowsOutlivePowerLoss` | where each task's bytes are, as long as nothing raced or was cut off, and what the collector saw when it looked |
| `PublishProofs` | `TypeCorrect`, `NeverTorn`, `SkipsOnlyWhole`, `SkipsOnlyNamed` | what the temporary file, the visible and the kept archive hold at each call |
| | `UndisturbedIsCurrent`, `CurrentIsNotWritten` | see below |

**The queue.** `Ownership` is not inductive: that a row returned by a failed
completion is not owned twice needs to know which running rows a task, the hand
of the dispatcher or a dead daemon accounts for, and that re-arming touches
settled rows only. `IInv` is `TypeOK` with ownership and budget said row by row.
That backoffs grow (`BackoffMonotone`) is an induction over a table, done on the
values as they stand.

**The Wikidot pipeline.** `NoGap` alone does not survive a commit: what was
collected in several windows of a growing list must be everything above the row
the run looked at first. `Walked` is the strengthening: a walk has everything
between `max_rev` and the end of its last window, *as the list is now* - new
revisions only push windows towards what has been read, so windows overlap and
never leave a gap. A window that comes back short has reached the known rows.
`Truthful` (a done fetch has settled its revision) and `Fetching` (who asks has
seen the revision unsettled, and no other run settles it) carry the other two.

`NoGap` says nothing of how far the rows reach. `SignalRecordsChange` does: of
any page `p`, number `n` and ticket `t`, from a state on in which `p` has `n`
revisions and no run of `t` has begun, a run of `t` that commits for `p` has made
rows of all `n`. A signal's row is deleted by that commit, so this is why nothing
signalled is lost with it. `CatchesUp` is the invariant from that state on:
what a walk lacks of the `n` lies below its last window (`OneWindow`). That such
a run comes about is liveness, and `pipeline_recreated` shows when none does.

**RuFoundation.** A sync reads log and `max_rev` at different times and commits
later still, beside syncs of the same page. `LogRead` and `RevsRead` say what
its reads are worth as the log grows: whatever is logged and was not read is
newer than all that was read and than the listing's time in the payload, and
what is below `max_rev` is known already. That the payload's time is in the past
(`Dated`) keeps a later edit from falling under the watermark. All of it is
claimed of pages whose slug led no run astray only; texts also need that the
page was not edited between article and log.

`NothingIsOverlooked` needs a second layer above that, `UpToDate`: a time that a
listing, a payload or a run carries for a slug is never after the last change of
the page behind it, and what was read or stored under such a time holds every snapshot of
the page up to it (`Covered`), ties within one second aside. So a row whose time
equals the listing's has all the page's rows.

**The feed scan.** `NothingSkipped` speaks of the feed and the watermark in the
database; while a scan walks, what it will commit is worth only what it has read
so far. `ScanIsSound` is the strengthening: a change without a signal is of a
page the scan has seen, or newer than the watermark it is going to commit, or
`Ahead` of it - an entry no deeper window has passed, with nothing before it
that ends the walk. A new change moves every entry one place back
(`PlacesMove`), so what lay ahead still does; and since every place up to an
entry's is taken (`PlacesTaken`), a window that comes back empty has nothing
behind it: that is why running off the feed may end a walk. `ScanTakesAll` says of the changes older than the walk that
they are seen already or still ahead, so at the end they are seen, which is what
`Discovery` promises. Nothing of this
survives an entry taken out during a walk, which is where `overlooked` comes
from.

**Publication.** `Inv` holds whatever was cut off, wiped or lost with the power.
From the state `List` leads to (`JustListed`), and for as long as only the
publisher moves (`[][Publishes]_vars` inside the `[]` of the theorems), more is
true: `Whole` says that the pages passed are current, those to come are as they
were listed, and the document under way is what the database has. So when the
run ends out/ is `Current`, whatever it started from (`UndisturbedIsCurrent`,
the safety half of `PublicationConverges`), and the runs after it, which find
equal counts and equal documents, write neither a file nor `packed_revs`
(`CurrentIsNotWritten`). `ListIsJust` shows that every run starts so.

**Session and limiter.** `LimiterSound` says when a waiting request may have been
overtaken: only while the task cools down after the grant, or still sits in the
channel, hence once. Of the session, `Calls` says what a call carries from one
`await` to the next, `SettledIsWarm` that after an undisturbed bootstrap the jar
stays warm until a token is dropped, so no second caller gets through the gate
to make a request, and `Saved` what the one copy of the jar in flight
is worth: it is the jar as it is, or somebody will serialise it later. The proof
also needs that the server's verdicts exclude one another, which `Says`, in an
earlier form with overlapping cases, did not say.

**Attachments and theme.** `Crawled` says of a crawl in flight that every file
seen and not still to do is settled or counted as failed, and that what a style
sheet refers to has been seen; at the end nothing is left to do, hence the
marker's claim for every import graph, cycles included. `Truthful` (a done fetch
has a settled row) keeps a pending row's job alive. The initial tables are those
of `UpgradeRepairs`, so the theorems hold of databases of any age.

**Assumptions.** Only the named `ASSUME`s of the modules, which TLC evaluates in
every run: bounds are natural numbers, a window holds at least one row, kinds of
identities do not overlap, the placeholders are none of the things they stand in
for, backoffs and batches are as `JobQueue` says, and of keys that
canonicalising is idempotent and makes no clean key garbage (`RepairAssumption`).

**Only model-checked.** Liveness (`EverythingSettles`, `EveryChangeSignalled`,
`PendingSettles`, `ThemeConverges`, `EveryCallEnds`, `PublicationConverges`;
of the last one `UndisturbedIsCurrent` proves what a run that ends has done),
which is beyond the prover, as are `ENABLED` and inductions over data. Where a
proof needs the maximum of a set it takes a least counterexample in the natural
numbers instead (`WFMin`).

## 5. Where the code and what it says of itself disagree

Four runs expect a counterexample; `PROJECT.json` "findings" quotes the lines.

- `queue_periodic_dead`: a periodic job is said to be "never done, never dead".
  `fail` makes *any* row dead on a permanent error, one without a budget of
  attempts too, and nothing re-arms it: seeding is insert-or-ignore and
  `backfill` is about fetches.
- `pipeline_recreated`: a signal is said to live until it has been executed. A
  page deleted and created again under its old name meets `ux_pages_slug`: the
  old row keeps the slug, the sync of the new page can never commit and is
  dead-lettered, and so is every later one.
- `ru_head`: "the article JSON's `source` IS the newest source-bearing version"
  is not true of a page edited between the two requests: the older text is
  stored as the newest revision's and never looked at again.
- `files_frozen`: a file is said to be frozen at its first observation. A crawl
  that takes a host for gone, on the word of another file's error page, records
  a style sheet that is saved already as missing.

One more disagreement has no run of its own; it shows as what `OnDiskUndisturbed`
has to leave out (`late`). `db.rs:696` says that "the reference recheck keeps a
racing re-save of the same sha from losing its blob" to the collector. It does so
for a save that commits before the recheck. One that commits after it loses the
blob: the repair frees the row (`Repair`); a task finds the blob in place and
writes nothing (`Enter`); the collector finds no row (`Recheck`); the task
commits its row (`CommitRow`); the collector unlinks the blob (`Unlink`). TLC
gives this trace when `~late` is dropped from the property. It needs a task that
saves while another process migrates: `init` opens and migrates the database
without the flock, also beside a daemon of the version before, or the next one
that starts when the migration has committed and its collector has not run.

Weaknesses that are no disagreement show as the conditions of properties:

- `OnDiskUndisturbed` leaves out overlapping writers of one blob: they share a
  temporary name (`blobs.rs:19`), so a row may be committed over a file whose
  bytes a power loss takes back. It also leaves out a writer cut off between the
  rename and the fsync of the directory, whose entry the next writer trusts.
- `WatermarkHonest` and `NothingOverlooked` leave out two changes of a page within one second
  (`rufoundation.rs:517`); `NothingOverlooked` also a page whose slug another
  page's row still holds and a page whose slug led a run astray.
- `ArchiveIsTrue`, `NoGap` and `WatermarkHonest` of `RuSync` leave out pages whose slug was
  another page's, or none, while a run used it (`rufoundation.rs:705`): a text
  or a denial of such a page can be wrong.
- `PublicationConverges` asks nothing of the frontmatter of a page renamed or
  retagged without a new text (`out.rs:156`); `SkippedIsNamed` says how old it
  may be.
- `EveryChangeSignalled` leaves out what a misread window or a deletion under
  the scan let slip (`overlooked`): the watermark passes over it for good.
- `out.rs:164` asserts, in debug builds, that as many texts are read as were
  counted; a fetch that commits between the two queries makes that false.
  `PublicationConverges` holds nevertheless, as the smaller count is recorded.

## 6. What is assumed and what is not modelled

- *The wiki.* Names are unique at an instant, page ids are not used again,
  revision numbers are consecutive, every change but hiding and deleting is in
  the feed. RuFoundation answers by slug with what is there at that moment.
- *SQLite.* A transaction is atomic and, once committed, durable.
- *Parsing.* A window of the revision list is read completely: one row lost to
  the parser would make it look short (`wikidot.rs:215`) and `NoGap` false. The
  bytes of an answer are not told apart: the crawl stores any body of a 200,
  also one `file_fetch` would refuse (`workers.rs:684`).
- *Session.* The site's root answers from its own host. The ticket of a request
  is taken and the request sent in one step; the drain of the limiter at
  shutdown is left out.
- *Publication.* One publisher at a time; `out/` itself is durable; the `shell`
  files are written like the manifests and are not included. Rendering, tar and
  zstd are one document.
- *Migrations.* Versions 2 to 5 are single SQL statements on data no property is
  about. The importer's reading of old archives is parsing.
- *RuFoundation's* `file_fetch` and `shell_sync` do what the Wikidot ones do and
  have no module of their own.
- *Not modelled at all:* HTML, CSS and wikitext extraction and formatting
  (computations on the characters of strings), configuration, logging, the
  status command, packaging.

## 7. What is left

A lossy window in `Pipeline`, once the code has a way to
notice it; the worth of a file's bytes, if the crawl comes to judge them as the
fetch does.
