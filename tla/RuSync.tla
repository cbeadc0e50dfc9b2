------------------------------- MODULE RuSync -------------------------------
(***************************************************************************)
(* How a RuFoundation site's pages and revisions reach the database        *)
(* (rufoundation.rs): discover compares the listing's updatedAt with the   *)
(* watermark of each page row, page.sync reads article, log and files of a *)
(* slug one request after the other and stores the newest source at once,  *)
(* revision.fetch asks for older ones by slug and number.  Pages are       *)
(* edited, renamed, deleted and pruned between any two requests.           *)
(*                                                                         *)
(* The job table is used through WorkLedger, as in Pipeline; attachments   *)
(* and theme are in Files.                                                 *)
(***************************************************************************)
EXTENDS Naturals, Sequences, FiniteSetsExt

CONSTANTS
  Pages,       \* article uids
  Slugs,       \* page names
  NoSlug,      \* no name: a page not created yet, deleted, or without row
  NoText,      \* content IS NULL
  DISCOVER, BACKFILL,   \* the periodic jobs
  MaxLog,      \* bound: log entries of one page
  MaxTime,     \* bound: seconds, the resolution of parse_iso8601
  MaxChanges,  \* bound: upstream changes
  MaxFaults,   \* bound: lost or dropped runs and crashes
  MaxSignals,  \* bound: rows one payload of page.sync holds at a time
  MaxRuns      \* bound: jobs running at a time

Periodic == {DISCOVER, BACKFILL}
Rev == Pages \X (1 .. MaxLog)   \* revisions; numbered from 0 upstream
Time == 0 .. MaxTime
Signal == Slugs \X Time         \* payloads of page.sync: slug and updated_at
Name == Slugs \cup {NoSlug}
ASSUME RuAssumption ==
  /\ {MaxLog, MaxTime, MaxChanges, MaxFaults, MaxSignals, MaxRuns} \subseteq Nat
  /\ NoSlug \notin Slugs /\ NoText \notin Rev
  /\ Rev \cap Signal = {} /\ Periodic \cap (Rev \cup Signal) = {}

VARIABLES
  wiki,      \* upstream: [Pages -> its slug and its event log]
  pruned,    \* upstream: revisions whose version is gone or refused
  now,       \* upstream: the second
  changes,   \* number of upstream changes so far (bounded by MaxChanges)
  row,       \* pages: [Pages -> the slug and updated_at of its row]
  known,     \* revisions: rows
  text,      \* revisions.content: the revision whose text it is, or NoText
  denied,    \* denied_revisions
  ledger,    \* the jobs table, as its users see it
  runs,      \* [Ticket -> the run of that job in flight]
  faults,    \* number of faults so far (bounded by MaxFaults)
  astray     \* history: <<p, "edited">>, p was edited between the requests
             \* of a run; <<p, "moved">>, its slug was another page's or none

upstream == <<wiki, pruned, now, changes>>
database == <<row, known, text, denied>>
vars == <<upstream, database, ledger, runs, faults, astray>>

Queue == INSTANCE WorkLedger WITH
           Singleton <- Periodic, Durable <- Rev,
           Asks <- {}, Offers <- {}, turn <- {}
Ticket == Queue!Ticket
SignalTicket == Signal \X (1 .. MaxSignals)
RevTicket == Rev \X {1}

Idle == [at |-> "idle"]
Request(wants, rearms) == [wants |-> wants, rearms |-> rearms]
(* A payload that has MaxSignals rows gets no further one.                 *)
Serve(t, r) == Queue!Serve(t, r) /\ runs' = [runs EXCEPT ![t] = Idle]
Begin(t, run) ==
  /\ ledger[t] = "open"
  /\ runs[t] = Idle
  /\ Cardinality({u \in Ticket : runs[u] # Idle}) < MaxRuns
  /\ runs' = [runs EXCEPT ![t] = run]

Init ==
  /\ wiki = [p \in Pages |-> [slug |-> NoSlug, log |-> <<>>]]
  /\ pruned = {} /\ now = 0 /\ changes = 0
  /\ row = [p \in Pages |-> [slug |-> NoSlug, updated |-> 0]]
  /\ known = {} /\ denied = {}
  /\ text = [r \in Rev |-> NoText]
  /\ ledger = [t \in Ticket |-> IF t[1] \in Periodic THEN "open" ELSE "absent"]
  /\ runs = [t \in Ticket |-> Idle]
  /\ faults = 0 /\ astray = {}

-----------------------------------------------------------------------------
(* The wiki: an entry of the log archives a source or, as a rename or a    *)
(* change of tags does, nothing.                                           *)

Live == {p \in Pages : wiki[p].slug # NoSlug}
At(slug) == {p \in Pages : wiki[p].slug = slug}
Changed == changes < MaxChanges /\ changes' = changes + 1

Log(p, slug, archives) ==
  /\ Changed /\ Len(wiki[p].log) < MaxLog
  /\ wiki' = [wiki EXCEPT ![p] =
       [slug |-> slug, log |-> Append(@.log, [source |-> archives, at |-> now])]]
  /\ UNCHANGED <<pruned, now, database, ledger, runs, faults, astray>>

CreatePage(p, slug) == wiki[p].log = <<>> /\ At(slug) = {} /\ Log(p, slug, TRUE)
EditPage(p) == p \in Live /\ Log(p, wiki[p].slug, TRUE)
TagPage(p) == p \in Live /\ Log(p, wiki[p].slug, FALSE)
RenamePage(p, slug) == p \in Live /\ At(slug) = {} /\ Log(p, slug, FALSE)

DeletePage(p) ==
  /\ Changed /\ p \in Live
  /\ wiki' = [wiki EXCEPT ![p].slug = NoSlug]
  /\ UNCHANGED <<pruned, now, database, ledger, runs, faults, astray>>

Prune(r) ==
  /\ Changed /\ r \notin pruned /\ r[2] \in DOMAIN wiki[r[1]].log
  /\ pruned' = pruned \cup {r}
  /\ UNCHANGED <<wiki, now, database, ledger, runs, faults, astray>>

Tick ==
  /\ now < MaxTime
  /\ now' = now + 1
  /\ UNCHANGED <<wiki, pruned, changes, database, ledger, runs, faults, astray>>

-----------------------------------------------------------------------------
(* discover.                                                               *)

DiscoverTicket == <<DISCOVER, 1>>
UpdatedAt(p) == wiki[p].log[Len(wiki[p].log)].at

DiscoverList ==
  /\ Begin(DiscoverTicket,
           [at |-> "listed", list |-> {<<wiki[p].slug, UpdatedAt(p)>> : p \in Live}])
  /\ UNCHANGED <<upstream, database, ledger, faults, astray>>

(* Faulty: a page already known is taken for up to date.                   *)
UnknownOnly(list) == {e \in list : \A p \in Pages : row[p].slug # e[1]}
(* stale_pages: unknown, or changed after the second recorded.             *)
Stale(list) ==
  {e \in list : \A p \in Pages : row[p].slug = e[1] => row[p].updated < e[2]}

DiscoverCompare ==
  /\ runs[DiscoverTicket].at = "listed"
  /\ runs' = [runs EXCEPT ![DiscoverTicket] = [at |-> "compared", stale |-> Stale(@.list)]]
  /\ UNCHANGED <<upstream, database, ledger, faults, astray>>

DiscoverCommit ==
  /\ runs[DiscoverTicket].at = "compared"
  /\ Serve(DiscoverTicket, Request(runs[DiscoverTicket].stale, {}))
  /\ UNCHANGED <<upstream, database, faults, astray>>

-----------------------------------------------------------------------------
(* page.sync: three requests by slug, then max_rev, then the effects.      *)

(* Faulty: every entry of the log counts.                                  *)
Entries(log) == DOMAIN log
(* The entries that archive a source.                                      *)
Snapshots(log) == {n \in DOMAIN log : log[n].source}
Newest(p) == <<p, Max({n \in DOMAIN wiki[p].log : wiki[p].log[n].source})>>

SyncArticle(t) ==
  /\ \E p \in At(t[1][1]) :
       Begin(t, [at |-> "article", page |-> p, source |-> Newest(p)])
  /\ UNCHANGED <<upstream, database, ledger, faults, astray>>

SyncLog(t) ==
  LET run == runs[t]
  IN  /\ run.at = "article"
      /\ \E q \in At(t[1][1]) :
           /\ runs' = [runs EXCEPT ![t] =
                [at |-> "log", page |-> run.page, source |-> run.source,
                 entries |-> Snapshots(wiki[q].log)]]
           /\ astray' = astray \cup
                (CASE q # run.page -> {<<run.page, "moved">>}
                   [] q = run.page /\ Newest(q) # run.source -> {<<q, "edited">>}
                   [] OTHER -> {})
      /\ UNCHANGED <<upstream, database, ledger, faults>>

(* max_rev, none for a page without rows.                                  *)
MaxKnown(p) == Max({0} \cup {r[2] : r \in {x \in known : x[1] = p}})

(* Faulty: the log is asked for its newest entry only.                     *)
HeadAbove(entries, max) ==
  {n \in entries : n > max /\ \A m \in entries : m <= n}
(* snapshots_above.                                                        *)
SnapshotsAbove(entries, max) == {n \in entries : n > max}

SyncFiles(t) ==
  LET run == runs[t]
  IN  /\ run.at = "log" /\ At(t[1][1]) # {}
      /\ runs' = [runs EXCEPT ![t] =
           [at |-> "read", page |-> run.page, source |-> run.source,
            revs |-> SnapshotsAbove(run.entries, MaxKnown(run.page))]]
      /\ UNCHANGED <<upstream, database, ledger, faults, astray>>

(* Nothing behind the slug at one of the requests: 404, permanent.         *)
SyncNotFound(t) ==
  /\ ledger[t] = "open" /\ runs[t].at \in {"idle", "article", "log"}
  /\ At(t[1][1]) = {}
  /\ Queue!Drop(t)
  /\ runs' = [runs EXCEPT ![t] = Idle]
  /\ UNCHANGED <<upstream, database, faults, astray>>

(* Faulty: no unique index.                                                *)
NeverTaken(p, slug) == FALSE
(* ux_pages_slug.                                                          *)
SlugTaken(p, slug) == \E o \in Pages \ {p} : row[o].slug = slug

Heads(revs) == {n \in revs : \A m \in revs : m <= n}
(* Faulty: the wrong end of the newest-first list goes without a fetch.    *)
AllButOldest(revs) == {n \in revs : \E m \in revs : m < n}
(* The revisions that need a fetch job: all but the head.                  *)
BelowHead(revs) == revs \ Heads(revs)

(* Faulty: the row is stamped with the time of the commit.                 *)
StampedNow(t) == now
(* The watermark is the listing's, carried in the payload.                 *)
Watermark(t) == t[1][2]

SyncCommit(t) ==
  LET p == runs[t].page
      revs == runs[t].revs
      fetches == {p} \X BelowHead(revs)
  IN  /\ runs[t].at = "read"
      /\ ~SlugTaken(p, t[1][1])
      /\ row' = [row EXCEPT ![p] = [slug |-> t[1][1], updated |-> Watermark(t)]]
      /\ known' = known \cup ({p} \X revs)
      /\ text' = [r \in Rev |-> IF r \in {p} \X Heads(revs) /\ text[r] = NoText
                                THEN runs[t].source ELSE text[r]]
      /\ Serve(t, Request(fetches, fetches))
      /\ UNCHANGED <<upstream, denied, faults, astray>>

-----------------------------------------------------------------------------
(* revision.fetch: by the slug the page row has when the run begins.  The  *)
(* answer is used at the commit only.                                      *)

Settled(r) == text[r] # NoText \/ r \in denied

FetchBegin(t) ==
  /\ Begin(t, IF Settled(t[1]) THEN [at |-> "skip"]
              ELSE [at |-> "fetching", slug |-> row[t[1][1]].slug])
  /\ UNCHANGED <<upstream, database, ledger, faults, astray>>

FetchSkip(t) ==
  /\ runs[t].at = "skip"
  /\ Serve(t, Request({}, {}))
  /\ UNCHANGED <<upstream, database, faults, astray>>

(* Which revision of the page now behind the slug has the number.          *)
Answers(t) ==
  {<<q, t[1][2]>> : q \in {p \in At(runs[t].slug) : t[1][2] \in Snapshots(wiki[p].log)}}
    \ pruned

FetchStore(t) ==
  /\ runs[t].at = "fetching" /\ t[1] \in known
  /\ \E answer \in Answers(t) :
       /\ text' = [text EXCEPT ![t[1]] = answer]
       /\ astray' = IF answer = t[1] THEN astray
                    ELSE astray \cup {<<t[1][1], "moved">>}
  /\ Serve(t, Request({}, {}))
  /\ UNCHANGED <<upstream, row, known, denied, faults>>

FetchDeny(t) ==
  /\ runs[t].at = "fetching" /\ Answers(t) = {}
  /\ denied' = denied \cup {t[1]}
  /\ astray' = IF wiki[t[1][1]].slug \in {runs[t].slug, NoSlug} THEN astray
               ELSE astray \cup {<<t[1][1], "moved">>}
  /\ Serve(t, Request({}, {}))
  /\ UNCHANGED <<upstream, row, known, text, faults>>

-----------------------------------------------------------------------------
(* backfill, and the ends of a run that commits nothing.                   *)

Backfill ==
  LET bare == {r \in known : ~Settled(r)}
  IN  /\ Serve(<<BACKFILL, 1>>, Request(bare, bare))
      /\ UNCHANGED <<upstream, database, faults, astray>>

Fault == faults < MaxFaults /\ faults' = faults + 1

RunLost(t) ==
  /\ runs[t] # Idle /\ Fault
  /\ runs' = [runs EXCEPT ![t] = Idle]
  /\ UNCHANGED <<upstream, database, ledger, astray>>

RunDropped(t) ==
  /\ runs[t] # Idle /\ t[1] \notin Periodic /\ Fault
  /\ runs' = [runs EXCEPT ![t] = Idle]
  /\ Queue!Drop(t)
  /\ UNCHANGED <<upstream, database, astray>>

Crash ==
  /\ \E t \in Ticket : runs[t] # Idle
  /\ Fault
  /\ runs' = [t \in Ticket |-> Idle]
  /\ UNCHANGED <<upstream, database, ledger, astray>>

-----------------------------------------------------------------------------

WikiNext ==
  \/ \E p \in Pages, s \in Slugs : CreatePage(p, s) \/ RenamePage(p, s)
  \/ \E p \in Pages : EditPage(p) \/ TagPage(p) \/ DeletePage(p)
  \/ \E r \in Rev : Prune(r)
  \/ Tick

DiscoverGoesOn == DiscoverCompare \/ DiscoverCommit
SyncGoesOn(t) == SyncLog(t) \/ SyncFiles(t) \/ SyncNotFound(t) \/ SyncCommit(t)
FetchGoesOn(t) == FetchSkip(t) \/ FetchStore(t) \/ FetchDeny(t)

Next ==
  \/ WikiNext
  \/ DiscoverList \/ DiscoverGoesOn
  \/ \E t \in SignalTicket : SyncArticle(t) \/ SyncGoesOn(t)
  \/ \E t \in RevTicket : FetchBegin(t) \/ FetchGoesOn(t)
  \/ \E t \in Ticket : RunLost(t) \/ RunDropped(t)
  \/ Backfill \/ Crash

Spec == Init /\ [][Next]_vars

-----------------------------------------------------------------------------
(* Properties.                                                             *)

RunState ==
  {Idle}
  \cup [at : {"listed"}, list : SUBSET Signal]
  \cup [at : {"compared"}, stale : SUBSET Signal]
  \cup [at : {"article"}, page : Pages, source : Rev]
  \cup [at : {"log"}, page : Pages, source : Rev, entries : SUBSET (1 .. MaxLog)]
  \cup [at : {"read"}, page : Pages, source : Rev, revs : SUBSET (1 .. MaxLog)]
  \cup [at : {"skip"}] \cup [at : {"fetching"}, slug : Slugs]

(* Rows have distinct slugs.                                               *)
TypeOK ==
  /\ \A p \in Pages : wiki[p].slug \in Name /\ Len(wiki[p].log) <= MaxLog
  /\ pruned \subseteq Rev /\ now \in Time
  /\ changes \in 0 .. MaxChanges /\ faults \in 0 .. MaxFaults
  /\ row \in [Pages -> [slug : Name, updated : Time]]
  /\ \A p, q \in Pages : row[p].slug = row[q].slug /\ row[p].slug # NoSlug => p = q
  /\ known \subseteq Rev /\ denied \subseteq known
  /\ text \in [Rev -> Rev \cup {NoText}]
  /\ ledger \in [Ticket -> {"absent", "open", "done", "dead"}]
  /\ runs \in [Ticket -> RunState]

Moved(p) == <<p, "moved">> \in astray

(* Below a revision row no snapshot is missing, though syncs of a page     *)
(* read its log and max_rev at different times and commit in any order     *)
(* (rufoundation.rs snapshots_above: only what is above max_rev).          *)
NoGap ==
  \A r \in known : ~Moved(r[1]) =>
    \A n \in Snapshots(wiki[r[1]].log) : n < r[2] => <<r[1], n>> \in known

(* A page row's watermark never promises more than is known: snapshots of  *)
(* earlier seconds have their rows, also when signals of different         *)
(* listings commit out of order (rufoundation.rs "the diff baseline stays  *)
(* stable").                                                               *)
WatermarkHonest ==
  \A p \in Pages : ~Moved(p) =>
    \A n \in Snapshots(wiki[p].log) :
      wiki[p].log[n].at < row[p].updated => <<p, n>> \in known

(* A revision row without content that is not denied has a fetch job that  *)
(* is open or within reach of backfill, although the head gets none.       *)
NothingStranded ==
  \A r \in known : ~Settled(r) => ledger[<<r, 1>>] \in {"open", "dead"}

(* A text is its revision's own, and a denied one is pruned or its page    *)
(* deleted, unless the page was edited or moved between the requests of a  *)
(* run: sync and fetch, racing, never mix up the texts of a page at rest.  *)
ArchiveIsTrue ==
  \A r \in known :
    /\ text[r] \in {NoText, r} \/ Moved(r[1]) \/ <<r[1], "edited">> \in astray
    /\ r \in denied => r \in pruned \/ wiki[r[1]].slug = NoSlug \/ Moved(r[1])

(* Two changes of a page in one second: the second one may be taken for    *)
(* recorded already.                                                       *)
Tied(p) ==
  \E m, n \in DOMAIN wiki[p].log : m # n /\ wiki[p].log[m].at = wiki[p].log[n].at

(* A page discover passes over as up to date has no snapshot the database  *)
(* does not know, whatever signals were dropped or came late, unless its   *)
(* slug misled a run, or another page's row still holds it, which discover *)
(* then takes for the page's (rufoundation.rs "a page never re-syncs for a *)
(* change state it already recorded").  With NothingStranded it is why     *)
(* edits arrive in the end.                                                *)
Displaced(p) == \E q \in Pages \ {p} : row[q].slug = wiki[p].slug
NothingOverlooked ==
  \A p \in Live :
    LET entry == <<wiki[p].slug, UpdatedAt(p)>>
    IN  Stale({entry}) = {} /\ ~Moved(p) /\ ~Tied(p) /\ ~Displaced(p)
          => \A n \in Snapshots(wiki[p].log) : <<p, n>> \in known

(* rufoundation.rs: the article's source is the newest source-bearing      *)
(* version, so what is stored of a revision is that revision's text.       *)
HeadIsItsSource == \A r \in known : text[r] \in {NoText, r}

=============================================================================
