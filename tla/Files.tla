------------------------------- MODULE Files -------------------------------
(***************************************************************************)
(* Attachments and theme files of a Wikidot site (workers.rs file_fetch,   *)
(* shell_sync, theme_crawl, backfill; theme.rs crawl; importer.rs): the    *)
(* rows of the files table and the jobs that settle them.  Two kinds of    *)
(* job write one row, from verdicts reached at different times; marks on   *)
(* hosts, kept in memory, stand in for requests; and a marker decides      *)
(* whether the theme is crawled again.                                     *)
(*                                                                         *)
(* The job table is used through WorkLedger, as in Pipeline.  A saved      *)
(* row's blob can be read (BlobStore).  What the daemon starts from is     *)
(* what the repairs make of an older version's table (Repair).             *)
(***************************************************************************)
EXTENDS Naturals, FiniteSets, Repair

CONSTANTS
  Css,         \* the style sheets among the files (Path)
  Refs,        \* [Css -> SUBSET Path], their @import and url() references
  Themes,      \* what the homepage may name: sets of root style sheets, the
               \* payloads of theme.crawl; {} is a site without a theme
  Host,        \* the hosts of the URLs
  HostOf,      \* [Path -> Host]
  SHELL, BACKFILL,   \* the periodic jobs
  MaxChanges,  \* bound: changes of the homepage
  MaxFaults,   \* bound: lost or dropped runs, crashes, failed or
               \* refused requests of a crawl, hosts that cannot be reached
  MaxRuns      \* bound: jobs running at a time

Periodic == {SHELL, BACKFILL}
Crawls == Themes \ {{}}
ASSUME FilesAssumption ==
  /\ Css \subseteq Path /\ Refs \in [Css -> SUBSET Path]
  /\ HostOf \in [Path -> Host] /\ Themes \subseteq SUBSET Css
  /\ Path \cap Crawls = {} /\ Periodic \cap (Path \cup Crawls) = {}
  /\ {MaxChanges, MaxFaults, MaxRuns} \subseteq Nat

VARIABLES
  site,      \* upstream: the theme roots the homepage names
  changes,   \* number of changes of them so far (bounded by MaxChanges)
  row,       \* files: [Path -> status]
  marker,    \* meta "theme.crawled"
  ledger,    \* the jobs table, as its users see it
  marks,     \* host_marks in memory: [Host -> mark]
  runs,      \* [Ticket -> the run of that job in flight]
  faults     \* number of faults so far (bounded by MaxFaults)

vars == <<site, changes, row, marker, ledger, marks, runs, faults>>

Queue == INSTANCE WorkLedger WITH
           Singleton <- Periodic, Durable <- Path \cup Crawls, Signal <- {},
           MaxSignals <- 0, Asks <- {}, Offers <- {}, turn <- {}
Ticket == Queue!Ticket
FileTicket == Path \X {1}
CrawlTicket == Crawls \X {1}

Idle == [at |-> "idle"]
NoMarks == [h \in Host |-> "none"]
Settled == {"saved", "missing"}
Pending == {p \in Path : row[p] = "pending"}

Request(wants, rearms) == [wants |-> wants, rearms |-> rearms]
Serve(t, r) == Queue!Serve(t, r) /\ runs' = [runs EXCEPT ![t] = Idle]
Begin(t, run) ==
  /\ ledger[t] = "open"
  /\ runs[t] = Idle
  /\ Cardinality({u \in Ticket : runs[u] # Idle}) < MaxRuns
  /\ runs' = [runs EXCEPT ![t] = run]
Fault == faults < MaxFaults /\ faults' = faults + 1

(* INSERT OR IGNORE of pending rows.                                       *)
Referenced(paths) ==
  [p \in Path |-> IF p \in paths /\ row[p] = "absent" THEN "pending" ELSE row[p]]

(* Tables an older version may have left, of files pages refer to.  Rows   *)
(* were never deleted, so that a job has one.                              *)
OldTables ==
  LET known   == {k \in OldKey : CanonOf[k] \in Mentioned}
      entries == {<<"absent", "absent">>} \cup ((RowStatus \ {"absent"}) \X JobStatus)
      table(e) == [row  |-> [k \in OldKey |-> IF k \in known THEN e[k][1] ELSE "absent"],
                   jobs |-> [k \in OldKey |-> IF k \in known THEN e[k][2] ELSE "absent"]]
  IN  {table(e) : e \in [known -> entries]}

(* recover follows the repairs.                                            *)
AsTicket(job) == IF job \in {"pending", "running"} THEN "open" ELSE job

Init ==
  /\ site \in Themes /\ changes = 0
  /\ marker = [roots |-> {}, failed |-> {}]   \* none: no theme has these roots
  /\ \E old \in OldTables, mined \in SUBSET Mentioned :
       LET new == Upgraded(old, mined)
       IN  /\ row = [p \in Path |-> new.row[p]]
           /\ ledger = [t \in Ticket |->
                CASE t[1] \in Periodic -> "open"
                  [] t[1] \in Path     -> AsTicket(new.jobs[t[1]])
                  [] OTHER             -> "absent"]
  /\ marks = NoMarks
  /\ runs = [t \in Ticket |-> Idle]
  /\ faults = 0

(* The homepage gets another theme, or none.                               *)
Restyle(theme) ==
  /\ changes < MaxChanges
  /\ changes' = changes + 1
  /\ site' = theme
  /\ UNCHANGED <<row, marker, ledger, marks, runs, faults>>

(* A page.sync or revision.fetch commits with files it found mentioned.    *)
Reference(paths) ==
  /\ row' = Referenced(paths)
  /\ Queue!Accept(Request(paths, {}))
  /\ UNCHANGED <<site, changes, marker, marks, runs, faults>>

-----------------------------------------------------------------------------
(* file.fetch.                                                             *)

(* What is known before a request is made: the row, then the host's mark.  *)
Foreseen(p) ==
  CASE row[p] \in Settled                -> "skip"
    [] row[p] \notin Settled /\ marks[HostOf[p]] = "gone"        -> "missing"
    [] row[p] \notin Settled /\ marks[HostOf[p]] = "unreachable" -> "suppressed"
    [] OTHER                             -> "fetching"

FileBegin(t) ==
  /\ Foreseen(t[1]) # "suppressed"
  /\ Begin(t, [at |-> Foreseen(t[1])])
  /\ UNCHANGED <<site, changes, row, marker, ledger, marks, faults>>

(* A host out of reach fails the job for good, until backfill.             *)
FileSuppressed(t) ==
  /\ ledger[t] = "open" /\ runs[t] = Idle
  /\ Foreseen(t[1]) = "suppressed"
  /\ Queue!Drop(t)
  /\ UNCHANGED <<site, changes, row, marker, marks, runs, faults>>

(* Bytes, a 404 or the error page of a missing file, or the error page of  *)
(* a host that is gone or private, which marks it.  An empty body and any  *)
(* other answer is a lost or dropped run.                                  *)
FileAnswer(t) ==
  /\ runs[t].at = "fetching"
  /\ \/ \E verdict \in Settled :
          runs' = [runs EXCEPT ![t] = [at |-> verdict]] /\ UNCHANGED marks
     \/ /\ runs' = [runs EXCEPT ![t] = [at |-> "missing"]]
        /\ marks' = [marks EXCEPT ![HostOf[t[1]]] = "gone"]
  /\ UNCHANGED <<site, changes, row, marker, ledger, faults>>

FileCommit(t) ==
  /\ runs[t].at \in Settled \cup {"skip"}
  /\ row' = IF runs[t].at = "skip" THEN row ELSE [row EXCEPT ![t[1]] = runs[t].at]
  /\ Serve(t, Request({}, {}))
  /\ UNCHANGED <<site, changes, marker, marks, faults>>

-----------------------------------------------------------------------------
(* shell.sync: the homepage's roots are compared with the marker, and the  *)
(* crawl is enqueued with resurrect.                                       *)

ShellTicket == <<SHELL, 1>>

ShellFetch ==
  /\ Begin(ShellTicket, [at |-> "homepage", roots |-> site])
  /\ UNCHANGED <<site, changes, row, marker, ledger, marks, faults>>

(* Faulty: a crawl with failures is taken for done.                        *)
RootsChanged(roots) == roots # {} /\ marker.roots # roots
NeedsCrawl(roots) == roots # {} /\ (marker.roots # roots \/ marker.failed # {})

ShellCompare ==
  LET run == runs[ShellTicket]
  IN  /\ run.at = "homepage"
      /\ runs' = [runs EXCEPT ![ShellTicket] =
           [at |-> "compared", wants |-> IF NeedsCrawl(run.roots) THEN {run.roots} ELSE {}]]
      /\ UNCHANGED <<site, changes, row, marker, ledger, marks, faults>>

CrawlAgain(wants) == Request(wants, wants)

ShellCommit ==
  /\ runs[ShellTicket].at = "compared"
  /\ Serve(ShellTicket, CrawlAgain(runs[ShellTicket].wants))
  /\ UNCHANGED <<site, changes, row, marker, marks, faults>>

-----------------------------------------------------------------------------
(* theme.crawl: style sheets breadth first, then the other files, and one  *)
(* transaction for all that was found.                                     *)

CrawlBegin(t) ==
  /\ Begin(t, [at |-> "crawl", todo |-> t[1], seen |-> t[1],
               saved |-> {}, missing |-> {}, failed |-> {}])
  /\ UNCHANGED <<site, changes, row, marker, ledger, marks, faults>>

(* What a visit may come to.  Of a style sheet the host's mark is looked   *)
(* at before the row, of any other file after it.  The answer is used at   *)
(* the commit only: when it arrives makes no difference.                   *)
Outcomes(u) ==
  CASE u \notin Css /\ row[u] = "saved"  -> {"kept"}
    [] (u \in Css \/ row[u] # "saved") /\ marks[HostOf[u]] = "gone" -> {"missing"}
    [] (u \in Css \/ row[u] # "saved") /\ marks[HostOf[u]] = "unreachable" -> {"failed"}
    [] u \in Css /\ row[u] = "saved" /\ marks[HostOf[u]] = "none" -> {"kept"}
    [] OTHER -> {"fetched"} \cup (IF faults < MaxFaults THEN {"missing", "failed"} ELSE {})

(* Faulty: no visited set.                                                 *)
AllRefs(run, u) == Refs[u]
(* A style sheet that was read is descended into.                          *)
NewRefs(run, u) == Refs[u] \ run.seen

(* Faulty: a silent drop of what could not be fetched.                     *)
FailedBy(u, outcome) == IF outcome = "missing" THEN {u} ELSE {}
(* marker_failed: whatever yielded nothing.                                *)
Fruitless(u, outcome) == IF outcome \in {"missing", "failed"} THEN {u} ELSE {}

CrawlVisit(t) ==
  LET run == runs[t]
  IN  /\ run.at = "crawl"
      /\ \E u \in run.todo, outcome \in {"kept", "fetched", "missing", "failed"} :
           LET refs == IF u \in Css /\ outcome \in {"kept", "fetched"}
                       THEN NewRefs(run, u) ELSE {}
           IN  /\ u \in Css \/ run.todo \cap Css = {}
               /\ outcome \in Outcomes(u)
               /\ runs' = [runs EXCEPT ![t] =
                    [at      |-> "crawl",
                     todo    |-> (run.todo \ {u}) \cup refs,
                     seen    |-> run.seen \cup refs,
                     saved   |-> run.saved \cup (IF outcome = "fetched" THEN {u} ELSE {}),
                     missing |-> run.missing \cup (IF outcome = "missing" THEN {u} ELSE {}),
                     failed  |-> run.failed \cup Fruitless(u, outcome)]]
               /\ faults' = IF "fetched" \in Outcomes(u) /\ outcome # "fetched"
                            THEN faults + 1 ELSE faults
      /\ UNCHANGED <<site, changes, row, marker, ledger, marks>>

(* The missing rows are written after the saved ones, the marker last.     *)
CrawlCommit(t) ==
  LET run == runs[t]
  IN  /\ run.at = "crawl" /\ run.todo = {}
      /\ row' = [p \in Path |-> IF p \in run.missing THEN "missing"
                                ELSE IF p \in run.saved THEN "saved" ELSE row[p]]
      /\ marker' = [roots |-> t[1], failed |-> run.failed]
      /\ Serve(t, Request({}, {}))
      /\ UNCHANGED <<site, changes, marks, faults>>

-----------------------------------------------------------------------------
(* backfill, import, faults.                                               *)

(* Faulty: the sweep enqueues without resurrect.                           *)
NeverRearmed(paths) == Request(paths, {})
Rearmed(paths) == Request(paths, paths)

Backfill ==
  /\ Serve(<<BACKFILL, 1>>, Rearmed(Pending))
  /\ UNCHANGED <<site, changes, row, marker, marks, faults>>

(* Faulty: the fetches are armed before the mined references are inserted. *)
ArmedEarly(whole, bare) == (Pending \ whole)
(* Every row that is pending in the end is armed, with resurrect.          *)
ArmedLast(whole, bare) == {p \in Path : p \notin whole /\ Referenced(bare)[p] = "pending"}

(* import-legacy, with the daemon down: rows with a local blob, and rows   *)
(* merely referred to.                                                     *)
ImportLegacy(whole, bare) ==
  /\ \A t \in Ticket : runs[t] = Idle
  /\ row' = [p \in Path |-> IF p \in whole THEN "saved" ELSE Referenced(bare)[p]]
  /\ Queue!Accept(Rearmed(ArmedLast(whole, bare)))
  /\ marks' = NoMarks
  /\ UNCHANGED <<site, changes, marker, runs, faults>>

(* A request to the host could not connect.  A gone mark is not replaced.  *)
ConnectFails(h) ==
  /\ marks[h] = "none"
  /\ Fault
  /\ marks' = [marks EXCEPT ![h] = "unreachable"]
  /\ UNCHANGED <<site, changes, row, marker, ledger, runs>>

MarkExpires(h) ==
  /\ marks[h] # "none"
  /\ marks' = [marks EXCEPT ![h] = "none"]
  /\ UNCHANGED <<site, changes, row, marker, ledger, runs, faults>>

(* A transient failure or a completion that rolled back.                   *)
RunLost(t) ==
  /\ runs[t] # Idle
  /\ Fault
  /\ runs' = [runs EXCEPT ![t] = Idle]
  /\ UNCHANGED <<site, changes, row, marker, ledger, marks>>

(* The failure that is permanent (403) or the last attempt.                *)
RunDropped(t) ==
  /\ runs[t] # Idle /\ t[1] \notin Periodic
  /\ Fault
  /\ runs' = [runs EXCEPT ![t] = Idle]
  /\ Queue!Drop(t)
  /\ UNCHANGED <<site, changes, row, marker, marks>>

Crash ==
  /\ Fault
  /\ runs' = [t \in Ticket |-> Idle]
  /\ marks' = NoMarks
  /\ UNCHANGED <<site, changes, row, marker, ledger>>

-----------------------------------------------------------------------------

FileGoesOn(t) == FileSuppressed(t) \/ FileAnswer(t) \/ FileCommit(t)
CrawlGoesOn(t) == CrawlVisit(t) \/ CrawlCommit(t)
ShellGoesOn == ShellCompare \/ ShellCommit

Next ==
  \/ \E theme \in Themes : Restyle(theme)
  \/ \E paths \in SUBSET Mentioned : Reference(paths)
  \/ \E t \in FileTicket : FileBegin(t) \/ FileGoesOn(t)
  \/ \E t \in CrawlTicket : CrawlBegin(t) \/ CrawlGoesOn(t)
  \/ ShellFetch \/ ShellGoesOn
  \/ \E t \in Ticket : RunLost(t) \/ RunDropped(t)
  \/ Backfill \/ Crash
  \/ \E whole, bare \in SUBSET Mentioned : ImportLegacy(whole, bare)
  \/ \E h \in Host : ConnectFails(h) \/ MarkExpires(h)

Spec == Init /\ [][Next]_vars

(* Open jobs are taken up again and again though permits are busy now and  *)
(* then, and what runs goes on; marks have a lifetime.  That some file,    *)
(* and some crawl, makes a step is less than the dispatcher grants.        *)
Fairness ==
  /\ SF_vars(\E t \in FileTicket : FileBegin(t) \/ FileGoesOn(t))
  /\ SF_vars(\E t \in CrawlTicket : CrawlBegin(t) \/ CrawlGoesOn(t))
  /\ SF_vars(ShellFetch \/ ShellGoesOn)
  /\ WF_vars(Backfill) /\ WF_vars(\E h \in Host : MarkExpires(h))
FairSpec == Spec /\ Fairness

-----------------------------------------------------------------------------
(* Properties.                                                             *)

RunState ==
  {Idle}
  \cup [at : Settled \cup {"skip", "fetching"}]
  \cup [at : {"homepage"}, roots : Themes]
  \cup [at : {"compared"}, wants : SUBSET Crawls]
  \cup [at : {"crawl"}, todo : SUBSET Path, seen : SUBSET Path,
        saved : SUBSET Path, missing : SUBSET Path, failed : SUBSET Path]

(* A crawl has one verdict per file.                                       *)
TypeOK ==
  /\ site \in Themes /\ changes \in 0 .. MaxChanges /\ faults \in 0 .. MaxFaults
  /\ row \in [Path -> {"absent", "pending"} \cup Settled]
  /\ marker \in [roots : Themes \cup {{}}, failed : SUBSET Path]
  /\ ledger \in [Ticket -> {"absent", "open", "done", "dead"}]
  /\ marks \in [Host -> {"none", "unreachable", "gone"}]
  /\ runs \in [Ticket -> RunState]
  /\ \A t \in Ticket : runs[t].at = "crawl" => runs[t].saved \cap runs[t].missing = {}

(* A pending row has a file.fetch job that is open, or dead and within     *)
(* reach of backfill, whichever of the crawl, the pages' jobs and the      *)
(* importer wrote the row and the job (workers.rs backfill, importer.rs    *)
(* "without one they would sit pending forever").                          *)
PendingHasJob == \A p \in Pending : ledger[<<p, 1>>] \in {"open", "dead"}

(* What a theme consists of: the least set with its roots and all they     *)
(* refer to.                                                               *)
Step(files) == files \cup UNION {Refs[u] : u \in files \cap Css}
FilesOf(roots) ==
  {p \in Path : \A files \in SUBSET Path :
     roots \subseteq files /\ Step(files) \subseteq files => p \in files}

(* A marker without failures is never written over a hole: every file the  *)
(* theme consists of has been settled, also those a concurrent job was     *)
(* taking care of (workers.rs "a silent drop would write a clean crawl     *)
(* marker and the asset would never be retried").                          *)
CleanMarkerIsComplete ==
  marker.failed = {} => \A p \in FilesOf(marker.roots) : row[p] \in Settled

(* Every pending row is eventually settled, through dead-letters of hosts  *)
(* that were out of reach.                                                 *)
PendingSettles == \A p \in Mentioned : (row[p] = "pending") ~> (row[p] # "pending")

(* Once the homepage stops changing, its theme is completely crawled: no   *)
(* crawl of older roots, no tombstone and no failure in between is final   *)
(* (jobs.rs state-diff class: a swallowed enqueue self-heals).             *)
ThemeConverges ==
  <>[](site # {} => marker = [roots |-> site, failed |-> {}])

(* jobs.rs: "path -> bytes is FROZEN AT FIRST OBSERVATION": a saved file   *)
(* stays saved.                                                            *)
SavedStays == [][\A p \in Path : row[p] = "saved" => row'[p] = "saved"]_vars

=============================================================================
