------------------------------ MODULE Pipeline ------------------------------
(***************************************************************************)
(* How a Wikidot site's pages and revisions reach the database             *)
(* (workers.rs, wikidot.rs, importer.rs): discover signals the slugs of    *)
(* changed pages, page.sync turns a signal into a page row, revision rows  *)
(* and fetch jobs, revision.fetch stores a revision's text or records that *)
(* it is denied, and backfill re-arms what was dead-lettered.  The upstream *)
(* wiki keeps changing between any two requests of a run.                  *)
(*                                                                         *)
(* The job table is used through what it promises: the ledger variable     *)
(* moves as WorkLedger says, and one ticket is run by one task at a time   *)
(* (both proved of JobQueue).  Attachments and the theme are not here.     *)
(***************************************************************************)
EXTENDS Integers, FiniteSets

CONSTANTS
  Pages,        \* Wikidot page ids
  Slugs,        \* page names, also the payloads of page.sync
  NoSlug,       \* no name: a page not created yet, deleted, or without row
  DISCOVER, BACKFILL,   \* the periodic jobs
  MaxRev,       \* bound: revisions of one page
  PerPage,      \* revisions one listing request returns (200 in the code)
  Flaky,        \* whether transient failures may use up a job's attempts
  MaxSignals,   \* bound: page.sync rows one slug holds at a time
  MaxChanges,   \* bound: upstream changes
  MaxRuns       \* bound: jobs running at a time (SITE_CONCURRENCY)

ASSUME BoundAssumption ==
  /\ MaxRev \in Nat /\ PerPage \in Nat \ {0}
  /\ Flaky \in BOOLEAN
  /\ {MaxSignals, MaxChanges, MaxRuns} \subseteq Nat

Rev == Pages \X (0 .. MaxRev - 1)   \* revision_fetch's (page_id, rev_no)
Periodic == {DISCOVER, BACKFILL}
Name == Slugs \cup {NoSlug}
ASSUME NameAssumption ==
  /\ NoSlug \notin Slugs
  /\ Slugs \cap Rev = {} /\ Periodic \cap (Slugs \cup Rev) = {}

VARIABLES
  wiki,      \* upstream: [Pages -> its slug and number of revisions]
  hidden,    \* upstream: revisions whose source is refused
  feed,      \* upstream: change entries <<page, rev_no>> above the watermark
  changes,   \* number of upstream changes so far (bounded by MaxChanges)
  page,      \* pages: [Pages -> the slug of its row, or NoSlug]
  known,     \* revisions: rows
  stored,    \* revisions: rows with content
  denied,    \* denied_revisions
  ledger,    \* the jobs table, as its users see it
  runs       \* [Ticket -> the run of that job in flight]

upstream == <<wiki, hidden, feed, changes>>
database == <<page, known, stored, denied>>
vars == <<upstream, database, ledger, runs>>

(* Of the ledger only Accept, Serve and Drop are used: which requests they *)
(* take is said below, and the ledger's turns are of no use here.          *)
Queue == INSTANCE WorkLedger WITH
           Singleton <- Periodic, Durable <- Rev, Signal <- Slugs,
           Asks <- {}, Offers <- {}, turn <- {}
Ticket == Queue!Ticket

Idle == [at |-> "idle"]
(* Faulty: the number after the newest.                                    *)
NextUnknown(p) ==
  LET nos == {r[2] : r \in {x \in known : x[1] = p}}
  IN  IF nos = {} THEN 0 ELSE 1 + CHOOSE n \in nos : \A m \in nos : m <= n
(* max_rev, -1 for a page without rows.                                    *)
MaxKnown(p) ==
  LET nos == {r[2] : r \in {x \in known : x[1] = p}}
  IN  IF nos = {} THEN -1 ELSE CHOOSE n \in nos : \A m \in nos : m <= n

(* The two ways a run may use the queue: with a request, on completion or  *)
(* from outside.                                                           *)
Request(wants, rearms) == [wants |-> wants, rearms |-> rearms]
Room(wants) ==
  \A s \in wants \cap Slugs : \E t \in Ticket : t[1] = s /\ ledger[t] = "absent"
Serve(t, r) == Room(r.wants) /\ Queue!Serve(t, r) /\ runs' = [runs EXCEPT ![t] = Idle]
Begin(t, run) ==
  /\ ledger[t] = "open"
  /\ runs[t] = Idle
  /\ Cardinality({u \in Ticket : runs[u] # Idle}) < MaxRuns
  /\ runs' = [runs EXCEPT ![t] = run]

Init ==
  /\ wiki = [p \in Pages |-> [slug |-> NoSlug, revs |-> 0]]
  /\ hidden = {} /\ feed = {} /\ changes = 0
  /\ page = [p \in Pages |-> NoSlug]
  /\ known = {} /\ stored = {} /\ denied = {}
  /\ ledger = [t \in Ticket |-> IF t[1] \in Periodic THEN "open" ELSE "absent"]
  /\ runs = [t \in Ticket |-> Idle]

-----------------------------------------------------------------------------
(* The wiki: every change but hiding and deleting is a new revision and a  *)
(* feed entry.  A deleted page leaves the feed; its id is not used again.  *)

Change(p, slug) ==
  /\ changes < MaxChanges /\ wiki[p].revs < MaxRev
  /\ changes' = changes + 1
  /\ wiki' = [wiki EXCEPT ![p] = [slug |-> slug, revs |-> @.revs + 1]]
  /\ feed' = feed \cup {<<p, wiki[p].revs>>}
  /\ UNCHANGED <<hidden, database, ledger, runs>>

Free(slug) == \A p \in Pages : wiki[p].slug # slug

CreatePage(p, slug) ==
  wiki[p].revs = 0 /\ slug \in Slugs /\ Free(slug) /\ Change(p, slug)
EditPage(p) == wiki[p].slug # NoSlug /\ Change(p, wiki[p].slug)
RenamePage(p, slug) ==
  wiki[p].slug # NoSlug /\ slug \in Slugs /\ Free(slug) /\ Change(p, slug)

DeletePage(p) ==
  /\ changes < MaxChanges /\ wiki[p].slug # NoSlug
  /\ changes' = changes + 1
  /\ wiki' = [wiki EXCEPT ![p].slug = NoSlug]
  /\ feed' = {e \in feed : e[1] # p}
  /\ UNCHANGED <<hidden, database, ledger, runs>>

HideRevision(r) ==
  /\ changes < MaxChanges /\ r[2] < wiki[r[1]].revs /\ r \notin hidden
  /\ changes' = changes + 1
  /\ hidden' = hidden \cup {r}
  /\ UNCHANGED <<wiki, feed, database, ledger, runs>>

-----------------------------------------------------------------------------
(* discover: the scan reads the feed down to the watermark; watermark and  *)
(* signals are committed together.  What the scan does window by window is *)
(* in FeedScan; here it sees the feed of one instant.                      *)

DiscoverTicket == <<DISCOVER, 1>>

DiscoverScan ==
  /\ Begin(DiscoverTicket,
           [at |-> "scanned", entries |-> feed,
            slugs |-> {wiki[e[1]].slug : e \in feed}])
  /\ UNCHANGED <<upstream, database, ledger>>

DiscoverCommit ==
  LET run == runs[DiscoverTicket]
  IN  /\ run.at = "scanned"
      /\ Serve(DiscoverTicket, Request(run.slugs, {}))
      /\ feed' = feed \ run.entries
      /\ UNCHANGED <<wiki, hidden, changes, database>>

-----------------------------------------------------------------------------
(* page.sync.                                                              *)

(* fetch_page answers for the page now behind the slug; max_rev is read    *)
(* right after.                                                            *)
ResolvePage(t) ==
  /\ t[1] \in Slugs
  /\ \E p \in Pages :
       /\ wiki[p].slug = t[1]
       /\ Begin(t, [at |-> "listing", page |-> p, above |-> MaxKnown(p),
                    window |-> 1, revs |-> {}])
  /\ UNCHANGED <<upstream, database, ledger>>

(* Nothing behind the slug: 404, permanent.                                *)
PageNotFound(t) ==
  /\ t[1] \in Slugs /\ ledger[t] = "open" /\ runs[t] = Idle /\ Free(t[1])
  /\ Queue!Drop(t)
  /\ UNCHANGED <<upstream, database, runs>>

(* One window of the revision list, newest first, as it is at this         *)
(* instant, cut where it reaches the revisions already known.              *)
NewIn(run) ==
  LET n == wiki[run.page].revs
  IN  {i \in run.above + 1 .. n - 1 :
         i \in n - run.window * PerPage .. n - (run.window - 1) * PerPage - 1}

(* Faulty: the walk stops after its first window.                          *)
FirstWindowOnly(t) ==
  LET run == runs[t]
  IN  /\ run.at = "listing"
      /\ runs' = [runs EXCEPT ![t].revs = @ \cup NewIn(run), ![t].at = "listed"]
      /\ UNCHANGED <<upstream, database, ledger>>

(* fetch_revisions_above: a window filled by new revisions asks for the    *)
(* next one.                                                               *)
ListRevisions(t) ==
  LET run == runs[t]
  IN  /\ run.at = "listing"
      /\ runs' = [runs EXCEPT ![t] =
           [run EXCEPT !.revs = @ \cup NewIn(run),
                       !.window = @ + 1,
                       !.at = IF Cardinality(NewIn(run)) >= PerPage THEN "listing" ELSE "listed"]]
      /\ UNCHANGED <<upstream, database, ledger>>

(* ux_pages_slug: another row holds the slug the upsert would write.       *)
SlugTaken(t) == \E o \in Pages : o # runs[t].page /\ page[o] = t[1]

(* Faulty: the fetch jobs are enqueued for the head revision only.         *)
SyncedHeadOnly(t) ==
  LET revs == {runs[t].page} \X runs[t].revs
  IN  {r \in revs : \A o \in revs : o[2] <= r[2]}

(* The revisions whose fetch is enqueued, with resurrect.                  *)
Synced(t) == {runs[t].page} \X runs[t].revs

(* The effects: page row, revision rows, fetch jobs, and the signal's row  *)
(* deleted, in one transaction.                                            *)
SyncCommit(t) ==
  /\ runs[t].at = "listed"
  /\ ~SlugTaken(t)
  /\ Serve(t, Request(Synced(t), Synced(t)))
  /\ page' = [page EXCEPT ![runs[t].page] = t[1]]
  /\ known' = known \cup ({runs[t].page} \X runs[t].revs)
  /\ UNCHANGED <<upstream, stored, denied>>

-----------------------------------------------------------------------------
(* revision.fetch.                                                         *)

(* The fast path: nothing to fetch any more.                               *)
Settled(r) == r \in stored \/ r \in denied

FetchBegin(t) ==
  /\ t[1] \in Rev
  /\ Begin(t, [at |-> IF Settled(t[1]) THEN "skip" ELSE "fetching"])
  /\ UNCHANGED <<upstream, database, ledger>>

(* The answer, and its commit.  A refused source is recorded as denied;    *)
(* the UPDATE that stores a text must hit the row, else it rolls back.     *)
FetchCommit(t) ==
  LET refused == runs[t].at = "fetching" /\ t[1] \in hidden
      source  == runs[t].at = "fetching" /\ t[1] \notin hidden
  IN  /\ runs[t].at \in {"skip", "fetching"}
      /\ source => t[1] \in known
      /\ stored' = IF source THEN stored \cup {t[1]} ELSE stored
      /\ denied' = IF refused THEN denied \cup {t[1]} ELSE denied
      /\ Serve(t, Request({}, {}))
      /\ UNCHANGED <<upstream, page, known>>

-----------------------------------------------------------------------------
(* backfill, and the ends of a run that commits nothing.                   *)

Rearmed(revs) == Request(revs, revs)

Backfill ==
  /\ Serve(<<BACKFILL, 1>>, Rearmed(known \ (stored \cup denied)))
  /\ UNCHANGED <<upstream, database>>

(* A transient failure, a completion that rolled back, or the death of the *)
(* process: the job is pending again.                                      *)
RunLost(t) ==
  /\ runs[t] # Idle
  /\ runs' = [runs EXCEPT ![t] = Idle]
  /\ UNCHANGED <<upstream, database, ledger>>

Crash ==
  /\ \E t \in Ticket : runs[t] # Idle
  /\ runs' = [t \in Ticket |-> Idle]
  /\ UNCHANGED <<upstream, database, ledger>>

(* The failure that is permanent or used up the attempts of a one-shot     *)
(* job.  Backfill asks nothing of the network: it is never dropped.        *)
RunDropped(t) ==
  /\ runs[t] # Idle
  /\ Flaky \/ (runs[t].at = "listed" /\ SlugTaken(t))
  /\ runs' = [runs EXCEPT ![t] = Idle]
  /\ Queue!Drop(t)
  /\ UNCHANGED <<upstream, database>>

(* import-legacy, with the daemon down: a journal with the first n         *)
(* revisions of page p, text for some of them, and fetch jobs, without     *)
(* resurrect, for every row still without content.                         *)
ImportLegacy(p, n, texts) ==
  LET rows  == known \cup ({p} \X (0 .. n - 1))
      bare  == rows \ (stored \cup texts)
  IN  /\ \A t \in Ticket : runs[t] = Idle
      /\ wiki[p].slug # NoSlug /\ n <= wiki[p].revs
      /\ \A o \in Pages : o # p => page[o] # wiki[p].slug
      /\ page' = [page EXCEPT ![p] = wiki[p].slug]
      /\ known' = rows
      /\ stored' = stored \cup texts
      /\ Queue!Accept(Request(bare, {}))
      /\ UNCHANGED <<upstream, denied, runs>>

-----------------------------------------------------------------------------

WikiNext ==
  \/ \E p \in Pages, s \in Slugs : CreatePage(p, s) \/ RenamePage(p, s)
  \/ \E p \in Pages : EditPage(p) \/ DeletePage(p)
  \/ \E r \in Rev : HideRevision(r)

RunNext(t) ==
  \/ ResolvePage(t) \/ PageNotFound(t) \/ ListRevisions(t) \/ SyncCommit(t)
  \/ FetchBegin(t) \/ FetchCommit(t)
  \/ RunLost(t) \/ RunDropped(t)

Next ==
  \/ WikiNext
  \/ DiscoverScan \/ DiscoverCommit
  \/ \E t \in Ticket : RunNext(t)
  \/ Backfill
  \/ Crash
  \/ \E p \in Pages, n \in 1 .. MaxRev : \E texts \in SUBSET ({p} \X (0 .. n - 1)) :
       ImportLegacy(p, n, texts)

Spec == Init /\ [][Next]_vars

(* No run lasts for ever: every request has a timeout.                     *)
RunsEnd == \A t \in Ticket : WF_vars(RunLost(t))

(* An open page.sync is run again and again, and its requests do not fail  *)
(* for ever.                                                               *)
SyncFairness ==
  \A t \in Slugs \X (1 .. MaxSignals) :
    /\ SF_vars(ResolvePage(t)) /\ SF_vars(SyncCommit(t))
    /\ \A w \in 1 .. MaxRev + 1 : SF_vars(ListRevisions(t) /\ runs[t].window = w)

SyncFairSpec == Spec /\ RunsEnd /\ SyncFairness

-----------------------------------------------------------------------------
(* Properties.                                                             *)

RunState ==
  {Idle}
  \cup [at : {"scanned"}, entries : SUBSET Rev, slugs : SUBSET Name]
  \cup [at : {"listing", "listed"}, page : Pages, above : -1 .. MaxRev - 1,
        window : Nat, revs : SUBSET (0 .. MaxRev - 1)]
  \cup [at : {"skip", "fetching"}]

TypeOK ==
  /\ wiki \in [Pages -> [slug : Name, revs : 0 .. MaxRev]]
  /\ hidden \subseteq Rev /\ feed \subseteq Rev
  /\ page \in [Pages -> Name]
  /\ stored \subseteq known /\ known \subseteq Rev /\ denied \subseteq Rev
  /\ ledger \in [Ticket -> {"absent", "open", "done", "dead"}]
  /\ runs \in [Ticket -> RunState]

(* The revision rows of a page have no gap below the newest: the next sync *)
(* asks only for what is above max_rev, so a row skipped once would be     *)
(* skipped for ever (workers.rs page_sync, wikidot.rs                      *)
(* fetch_revisions_above).                                                 *)
NoGap == \A r \in known : \A n \in 0 .. r[2] : <<r[1], n>> \in known

(* A revision row without content that is not denied has a fetch job that  *)
(* is open, or dead and within reach of backfill: never none, and never a  *)
(* done tombstone, whatever order syncs, fetches, imports and sweeps       *)
(* commit in (jobs.rs: a done tombstone is truthful).                      *)
NothingStranded ==
  \A r \in known \ (stored \cup denied) : ledger[<<r, 1>>] \in {"open", "dead"}

(* No request is in flight for the source of a revision already stored or  *)
(* denied, across syncs, re-arming and imports (db.rs denied_revisions:    *)
(* never re-attempted).                                                    *)
NeverRefetched ==
  \A r \in stored \cup denied : runs[<<r, 1>>].at # "fetching"

(* A page.sync signal not yet taken up is worked off by a successful run:  *)
(* the page behind the slug gets its row, unless it moves away first (db.rs *)
(* complete_ephemeral: a row lives from signal to successful execution).   *)
SignalReconciles ==
  \A p \in Pages, s \in Slugs :
    (/\ wiki[p].slug = s
     /\ \E t \in Ticket : t[1] = s /\ ledger[t] = "open" /\ runs[t] = Idle)
      ~> (page[p] = s \/ wiki[p].slug # s)

=============================================================================
