------------------------------- MODULE Publish -------------------------------
(***************************************************************************)
(* Publication of a site's database into out/ (out.rs publish, run by the  *)
(* job out.update and at the end of an import): one archive per page with  *)
(* the texts stored, and the manifests pages.json and files.json.  It runs *)
(* beside the jobs that store revisions and rename pages, reads the        *)
(* database in several queries, and may be cut off between any two calls.  *)
(* What the next run skips depends on out_state.packed_revs, which a run   *)
(* that was cut off has left behind.                                       *)
(*                                                                         *)
(* One publisher at a time: the job has one row, the importer holds the    *)
(* site's lock.  Committed rows survive a loss of power (db.rs sets        *)
(* synchronous=FULL); a file does once it and its directory are synced.    *)
(***************************************************************************)
EXTENDS Naturals, FiniteSets

CONSTANTS
  N,           \* pages 1 .. N, in the order of their ids
  Revs,        \* bound: revisions of a page are 1 .. Revs
  MaxChanges,  \* bound: transactions of other jobs
  MaxMishaps,  \* bound: kills, I/O errors, losses of power, wipes of out/
  Absent, Torn \* no file; a file with part of its bytes

ASSUME PublishAssumption ==
  /\ N \in Nat \ {0} /\ {Revs, MaxChanges, MaxMishaps} \subseteq Nat
  /\ Absent # Torn

VARIABLES
  known,    \* [Pages -> number of revisions rows]
  stored,   \* [Pages -> revisions whose content is stored]
  look,     \* [Pages -> version of slug, title and tags in its row]
  packed,   \* [Pages -> out_state.packed_revs]
  rows,     \* version of the files table
  seen,     \* [Targets -> the file processes see]
  kept,     \* [Targets -> the file sure to be there after a loss of power]
  flushed,  \* targets whose visible file has its bytes on disk
  pub,      \* the publisher: where it is and what it has read
  mishaps,  \* number of mishaps so far (bounded by MaxMishaps)
  changes,  \* number of other jobs' transactions (bounded by MaxChanges)
  texted    \* history: [Pages -> its look when a text was last stored]

database == <<known, stored, look, rows, changes, texted>>
files == <<seen, kept, flushed>>
vars == <<database, packed, files, pub, mishaps>>

Pages == 1 .. N
PagesJson == N + 1
FilesJson == N + 2
Targets == 1 .. N + 2

(* An archive has texts and a look, pages.json an entry per page,          *)
(* files.json the files table.                                             *)
File(t) ==
  IF t \in Pages THEN [texts : SUBSET (1 .. Revs), look : 0 .. MaxChanges]
  ELSE IF t = PagesJson
  THEN [Pages -> [look : 0 .. MaxChanges, stored : 0 .. Revs, known : 0 .. Revs]]
  ELSE 0 .. MaxChanges

ASSUME FileAssumption == \A t \in Targets : {Absent, Torn} \cap File(t) = {}

(* at: the next step; target: archive or manifest under way; list: count   *)
(* and look per page as listed; doc: of the target; next: the files        *)
(* manifest, made before either is written; dir: the temporary file and    *)
(* its directory are there; synced: the temporary file was flushed.        *)
Idle == [at |-> "idle", target |-> 1, list |-> [p \in {} |-> p], doc |-> Absent,
         next |-> Absent, dir |-> FALSE, synced |-> FALSE]
Goto(step) == pub' = [pub EXCEPT !.at = step]

Init ==
  /\ known = [p \in Pages |-> 0] /\ stored = [p \in Pages |-> {}]
  /\ look = [p \in Pages |-> 0] /\ texted = look
  /\ packed = [p \in Pages |-> 0]
  /\ rows = 0 /\ mishaps = 0 /\ changes = 0
  /\ seen = [t \in Targets |-> Absent] /\ kept = seen /\ flushed = {}
  /\ pub = Idle

-----------------------------------------------------------------------------
(* The jobs beside it.                                                     *)

(* page.sync: a new revision and the page's look, in one transaction; a    *)
(* RuFoundation site has the text of the newest revision with it.          *)
Sync(p) ==
  /\ known[p] < Revs
  /\ known' = [known EXCEPT ![p] = @ + 1]
  /\ look' = [look EXCEPT ![p] = @ + 1]
  /\ \E withText \in BOOLEAN :
       /\ stored' = [stored EXCEPT ![p] = IF withText THEN @ \cup {known'[p]} ELSE @]
       /\ texted' = [texted EXCEPT ![p] = IF withText THEN look'[p] ELSE @]
  /\ UNCHANGED rows

(* page.sync: another look without a new revision.                         *)
Retag(p) ==
  /\ known[p] > 0
  /\ look' = [look EXCEPT ![p] = @ + 1]
  /\ UNCHANGED <<known, stored, rows, texted>>

(* revision.fetch, in any order.                                           *)
Store(p, r) ==
  /\ r \in (1 .. known[p]) \ stored[p]
  /\ stored' = [stored EXCEPT ![p] = @ \cup {r}]
  /\ texted' = [texted EXCEPT ![p] = look[p]]
  /\ UNCHANGED <<known, look, rows>>

(* file.fetch, theme.crawl: another row of files.                          *)
SaveFile == rows' = rows + 1 /\ UNCHANGED <<known, stored, look, texted>>

DatabaseMoves ==
  /\ changes < MaxChanges /\ changes' = changes + 1
  /\ SaveFile \/ \E p \in Pages : Sync(p) \/ Retag(p) \/ \E r \in 1 .. Revs : Store(p, r)
  /\ UNCHANGED <<packed, files, pub, mishaps>>

-----------------------------------------------------------------------------
(* publish: the pages.                                                     *)

(* Faulty: revisions without a text are counted.                           *)
KnownCount(p) == known[p]
StoredCount(p) == Cardinality(stored[p])

(* pages_to_pack: one query.                                               *)
List ==
  /\ pub.at = "idle"
  /\ pub' = [Idle EXCEPT !.at = "page",
       !.list = [p \in Pages |-> [count |-> StoredCount(p), look |-> look[p],
                                  packed |-> packed[p]]]]
  /\ UNCHANGED <<database, packed, files, mishaps>>

Listed == pub.list[pub.target]
NextTarget ==
  pub' = [Idle EXCEPT !.at = IF pub.target < N THEN "page" ELSE "pages",
                      !.target = pub.target + 1,
                      !.list = [p \in DOMAIN pub.list \ {pub.target} |-> pub.list[p]]]
AtPage == pub.at = "page"

SkipEmpty ==
  /\ AtPage /\ Listed.count = 0
  /\ packed' = [packed EXCEPT ![pub.target] = 0]
  /\ NextTarget
  /\ UNCHANGED <<database, files, mishaps>>

(* Faulty: the count alone says that a page is packed.                     *)
Counted == Listed.packed = Listed.count
UpToDate == Listed.packed = Listed.count /\ seen[pub.target] # Absent

SkipPacked ==
  /\ AtPage /\ Listed.count > 0 /\ UpToDate
  /\ NextTarget
  /\ UNCHANGED <<database, packed, files, mishaps>>

(* An archive: the texts stored now, under the look listed.                *)
Archive(p) == [texts |-> stored[p], look |-> Listed.look]

ReadTexts ==
  /\ AtPage /\ Listed.count > 0 /\ ~UpToDate
  /\ pub' = [pub EXCEPT !.at = "write", !.doc = Archive(pub.target)]
  /\ UNCHANGED <<database, packed, files, mishaps>>

-----------------------------------------------------------------------------
(* write_page_archive, write_if_changed: one file, call by call.           *)

(* Faulty: the bytes stay in the cache.                                    *)
NotFlushed == FALSE
Flushed == TRUE

(* The temporary file, which no one else touches, and its fsync.           *)
Write ==
  /\ pub.at = "write"
  /\ pub' = [pub EXCEPT !.at = "rename", !.dir = TRUE, !.synced = Flushed]
  /\ UNCHANGED <<database, packed, files, mishaps>>

Rename ==
  /\ pub.at = "rename" /\ pub.dir
  /\ seen' = [seen EXCEPT ![pub.target] = pub.doc]
  /\ flushed' = IF pub.synced THEN flushed \cup {pub.target} ELSE flushed \ {pub.target}
  /\ pub' = [pub EXCEPT !.at = "dirsync", !.synced = FALSE]
  /\ UNCHANGED <<database, packed, kept, mishaps>>

OnDisk(t) == IF t \in flushed \/ seen[t] = Absent THEN seen[t] ELSE Torn

(* The directory is synced, not the ones above it: an archive's may be new *)
(* and its own name still be lost.                                         *)
Fresh(t) == t \in Pages /\ kept[t] = Absent

DirSync ==
  /\ pub.at = "dirsync" /\ pub.dir
  /\ \E file \in {OnDisk(pub.target)} \cup (IF Fresh(pub.target) THEN {Absent} ELSE {}) :
       kept' = [kept EXCEPT ![pub.target] = file]
  /\ IF pub.target \in Pages THEN Goto("record")
     ELSE pub' = [pub EXCEPT !.at = "compare", !.target = @ + 1, !.doc = pub.next]
  /\ UNCHANGED <<database, packed, seen, flushed, mishaps>>

(* Faulty: the texts there are now, or those in the archive, are counted.  *)
CountNow == StoredCount(pub.target)
CountPacked == Cardinality(pub.doc.texts)
CountListed == Listed.count

(* set_packed.                                                             *)
Record ==
  /\ pub.at = "record"
  /\ packed' = [packed EXCEPT ![pub.target] = CountListed]
  /\ NextTarget
  /\ UNCHANGED <<database, files, mishaps>>

-----------------------------------------------------------------------------
(* write_manifests.                                                        *)

PagesDoc == [p \in Pages |-> [look |-> look[p], stored |-> StoredCount(p), known |-> known[p]]]

ReadPages ==
  /\ pub.at = "pages"
  /\ pub' = [pub EXCEPT !.at = "files", !.doc = PagesDoc]
  /\ UNCHANGED <<database, packed, files, mishaps>>

ReadFiles ==
  /\ pub.at = "files"
  /\ pub' = [pub EXCEPT !.at = "compare", !.next = rows]
  /\ UNCHANGED <<database, packed, files, mishaps>>

Same == seen[pub.target] # Absent /\ seen[pub.target] = pub.doc

Compare ==
  /\ pub.at = "compare" /\ pub.target \in {PagesJson, FilesJson}
  /\ IF ~Same THEN Goto("write")
     ELSE pub' = [pub EXCEPT !.target = @ + 1, !.doc = pub.next]
  /\ UNCHANGED <<database, packed, files, mishaps>>

Published ==
  /\ pub.at = "compare" /\ pub.target \notin {PagesJson, FilesJson}
  /\ pub' = Idle
  /\ UNCHANGED <<database, packed, files, mishaps>>

-----------------------------------------------------------------------------
(* Mishaps: the run ends where it is, and the job is run again.            *)

Mishap == mishaps < MaxMishaps /\ mishaps' = mishaps + 1
Busy == pub.at # "idle"

Killed ==
  /\ Mishap /\ Busy /\ pub' = Idle
  /\ UNCHANGED <<database, packed, files>>

(* out/ was removed under it: renaming and opening the directory fail.     *)
DirGone ==
  /\ pub.at \in {"rename", "dirsync"} /\ ~pub.dir
  /\ pub' = Idle
  /\ UNCHANGED <<database, packed, files, mishaps>>

(* "everything here can be regenerated".                                   *)
Wipe ==
  /\ Mishap
  /\ seen' = [t \in Targets |-> Absent] /\ kept' = seen' /\ flushed' = {}
  /\ pub' = [pub EXCEPT !.dir = FALSE]
  /\ UNCHANGED <<database, packed>>

(* Of each target the file kept is left, or the visible one as far as it   *)
(* has reached the disk.                                                   *)
PowerLoss ==
  /\ Mishap
  /\ \E lost \in SUBSET Targets :
       seen' = [t \in Targets |-> IF t \in lost THEN kept[t] ELSE OnDisk(t)]
  /\ kept' = seen' /\ flushed' = Targets
  /\ pub' = Idle
  /\ UNCHANGED <<database, packed>>

-----------------------------------------------------------------------------

Publishes ==
  \/ List \/ SkipEmpty \/ SkipPacked \/ ReadTexts
  \/ Write \/ Rename \/ DirSync \/ Record
  \/ ReadPages \/ ReadFiles \/ Compare \/ Published \/ DirGone

Next == DatabaseMoves \/ Publishes \/ Killed \/ Wipe \/ PowerLoss

Spec == Init /\ [][Next]_vars

(* The job is run again and again (JobQueue EverythingSettles; its row is  *)
(* periodic), and a run goes on.                                           *)
FairSpec == Spec /\ WF_vars(Publishes)

-----------------------------------------------------------------------------
(* Properties.                                                             *)

TypeOK ==
  /\ known \in [Pages -> 0 .. Revs]
  /\ \A p \in Pages : stored[p] \subseteq 1 .. known[p] /\ texted[p] <= look[p]
  /\ look \in [Pages -> 0 .. MaxChanges]
  /\ packed \in [Pages -> 0 .. Revs]
  /\ \A p \in Pages : packed[p] <= Cardinality(stored[p])
  /\ rows \in 0 .. MaxChanges /\ changes \in 0 .. MaxChanges /\ mishaps \in 0 .. MaxMishaps
  /\ flushed \subseteq Targets
  /\ pub.target \in 1 .. N + 3
  /\ pub.at \in {"idle", "page", "write", "rename", "dirsync", "record",
                 "pages", "files", "compare"}

(* No target is ever a part of a file, not after a loss of power either    *)
(* (out.rs "atomically (tmp + fsync + rename)").                           *)
NothingTorn == \A t \in Targets : Torn \notin {seen[t], kept[t]}

(* What a next run would skip: equal counts and a file in place.           *)
Skipped(p, file) == packed[p] = Cardinality(stored[p]) /\ file \notin {Absent, Torn} /\ stored[p] # {}

(* An archive the next run skips holds every text stored, now and after a  *)
(* loss of power, however runs were cut off and texts arrived between the  *)
(* count, the reading and the record (out.rs "Repacked only when the       *)
(* stored-revision count drifts").                                         *)
SkippedIsWhole ==
  \A p \in Pages : \A file \in {seen[p], kept[p]} :
    Skipped(p, file) => file.texts = stored[p]

(* An archive the next run skips names the page at least as it was named   *)
(* when the last of its texts was stored.                                  *)
SkippedIsNamed ==
  \A p \in Pages : \A file \in {seen[p], kept[p]} :
    Skipped(p, file) => file.look >= texted[p]

(* Once nothing happens any more out/ has it all: every archive with every *)
(* text, and the manifests as the database has them.                       *)
Current ==
  /\ \A p \in Pages :
       stored[p] # {} =>
         seen[p] # Absent /\ seen[p].texts = stored[p] /\ seen[p].look >= texted[p]
  /\ seen[PagesJson] = PagesDoc
  /\ seen[FilesJson] = rows
PublicationConverges == <>[]Current

=============================================================================
