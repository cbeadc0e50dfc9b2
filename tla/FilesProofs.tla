----------------------------- MODULE FilesProofs -----------------------------
(* Theorems about Files, for every set of files, hosts and themes, every   *)
(* import graph, every table an older version may have left, and any       *)
(* number of runs and faults.                                              *)
EXTENDS Files, TLAPS

-----------------------------------------------------------------------------
(* The repairs of the files table, of any table: their steps make tables   *)
(* of tables.                                                              *)

LEMMA WithoutType ==
  ASSUME NEW t \in Table, NEW keys, NEW states
  PROVE  Without(t, keys, states) \in Table
BY DEF Without, Present, Table, RowStatus, JobStatus

LEMMA ResetType ==
  ASSUME NEW t \in Table
  PROVE  /\ Reset(t) \in Table
         /\ \A k \in OldKey : Reset(t).row[k] # "errorpage"
         /\ Reset(t).jobs = t.jobs
BY DEF Reset, Table, RowStatus, JobStatus

LEMMA SeededType ==
  ASSUME NEW t \in Table, NEW mined
  PROVE  Seeded(t, mined) \in Table
BY DEF Seeded, Table, RowStatus, JobStatus

LEMMA MergedType ==
  ASSUME NEW t \in Table
  PROVE  Merged(t) \in Table
<1>1. \A c : Survivor(t, c) \in RowStatus \ {"errorpage"}
  BY DEF Survivor, RowStatus
<1>2. QED
  BY <1>1 DEF Merged, Table, RowStatus, JobStatus

LEMMA ArmedType ==
  ASSUME NEW t \in Table
  PROVE  /\ Armed(t) \in Table
         /\ Armed(t).row = t.row
         /\ \A k \in OldKey :
              t.row[k] = "pending" => Armed(t).jobs[k] \in {"pending", "running"}
BY DEF Armed, Table, RowStatus, JobStatus

-----------------------------------------------------------------------------
(* Version 6.                                                              *)

(* The rows of version 6 before they are merged: garbage is gone, error    *)
(* pages are pending, everything mentioned has a row, and every other row  *)
(* is as it was.                                                           *)
LEMMA BeforeMerge ==
  ASSUME NEW t \in Table, NEW mined \in SUBSET Mentioned,
         NEW s, s = Seeded(Reset(Without(t, Garbage, {"pending"})), mined)
  PROVE  /\ s \in Table
         /\ \A k \in OldKey : s.row[k] # "errorpage"
         /\ \A k \in mined : k \in OldKey /\ s.row[k] # "absent"
         /\ \A k \in Garbage : s.row[k] = "absent"
         /\ \A k \in OldKey \ Garbage :
              s.row[k] = CASE t.row[k] = "errorpage" -> "pending"
                           [] t.row[k] = "absent" /\ k \in mined -> "pending"
                           [] OTHER -> t.row[k]
<1> DEFINE w == Without(t, Garbage, {"pending"})
           r == Reset(w)
<1>1. w \in Table /\ r \in Table /\ s \in Table
  BY WithoutType, ResetType, SeededType
<1>2. mined \subseteq OldKey \ Garbage /\ Garbage \subseteq OldKey
  BY RepairAssumption
<1>3. \A k \in OldKey :
        w.row[k] = IF k \in Garbage THEN "absent" ELSE t.row[k]
  BY DEF Without
<1>4. \A k \in OldKey :
        r.row[k] = IF w.row[k] = "errorpage" THEN "pending" ELSE w.row[k]
  BY <1>1 DEF Reset, Table
<1>5. \A k \in OldKey :
        s.row[k] = IF k \in mined /\ r.row[k] = "absent" THEN "pending" ELSE r.row[k]
  BY <1>1 DEF Seeded, Table
<1> HIDE DEF w, r
<1>6. QED
  BY <1>1, <1>2, <1>3, <1>4, <1>5

(* A key's row after version 6 is the survivor of its spellings.           *)
LEMMA AfterV6 ==
  ASSUME NEW t \in Table, NEW mined \in SUBSET Mentioned,
         NEW s, s = Seeded(Reset(Without(t, Garbage, {"pending"})), mined)
  PROVE  /\ RepairV6(t, mined) \in Table
         /\ RepairV6(t, mined).row
              = [k \in OldKey |-> IF k \in Path THEN Survivor(s, k) ELSE "absent"]
         /\ \A k \in OldKey : RepairV6(t, mined).row[k] = "pending" =>
              RepairV6(t, mined).jobs[k] \in {"pending", "running"}
<1>1. s \in Table
  BY BeforeMerge
<1>2. Merged(s) \in Table /\ Armed(Merged(s)) \in Table
  BY <1>1, MergedType, ArmedType
<1>3. RepairV6(t, mined) = Armed(Merged(s))
  BY DEF RepairV6
<1>4. Merged(s).row = [k \in OldKey |-> IF k \in Path THEN Survivor(s, k) ELSE "absent"]
  BY DEF Merged
<1>5. QED
  BY <1>2, <1>3, <1>4, ArmedType

(* What a table looks like when nothing is left to repair.                 *)
Repaired(t, mined) ==
  /\ \A k \in OldKey : t.row[k] # "errorpage"
  /\ \A k \in mined : t.row[k] # "absent"
  /\ \A k \in OldKey \ Path : t.row[k] = "absent"
  /\ \A k \in Garbage : t.row[k] = "absent"
  /\ \A k \in OldKey : t.row[k] = "pending" => t.jobs[k] \in {"pending", "running"}

(* Version 6 leaves one row per file, under its canonical key, none for    *)
(* garbage or for an error page, one for everything the texts mention, and *)
(* a fetch on its way for every row that is pending (db.rs repair_files_v6 *)
(* "fetch jobs are armed for every pending row").                          *)
THEOREM V6Repairs ==
  ASSUME NEW t \in Table, NEW mined \in SUBSET Mentioned
  PROVE  Repaired(RepairV6(t, mined), mined)
<1> DEFINE s == Seeded(Reset(Without(t, Garbage, {"pending"})), mined)
           v == RepairV6(t, mined)
<1>1. /\ v \in Table
      /\ v.row = [k \in OldKey |-> IF k \in Path THEN Survivor(s, k) ELSE "absent"]
      /\ \A k \in OldKey : v.row[k] = "pending" => v.jobs[k] \in {"pending", "running"}
  BY AfterV6
<1>2. /\ \A k \in OldKey : s.row[k] # "errorpage"
      /\ \A k \in mined : k \in OldKey /\ s.row[k] # "absent"
      /\ \A k \in Garbage : s.row[k] = "absent"
      /\ s.row \in [OldKey -> RowStatus]
  BY BeforeMerge DEF Table
<1> HIDE DEF s, v
<1>3. \A c : Survivor(s, c) # "errorpage"
  BY DEF Survivor
<1>4. \A k \in mined : v.row[k] # "absent"
  <2> SUFFICES ASSUME NEW k \in mined
               PROVE  v.row[k] # "absent"
    OBVIOUS
  <2>1. k \in Path /\ k \in OldKey /\ CanonOf[k] = k
    BY RepairAssumption
  <2>2. k \in Spellings(s, k)
    BY <1>2, <2>1 DEF Spellings
  <2>3. s.row[k] \in {"pending", "missing", "saved"}
    BY <1>2, <2>1 DEF RowStatus
  <2>4. Survivor(s, k) # "absent"
    BY <2>2, <2>3 DEF Survivor
  <2>5. QED
    BY <1>1, <2>1, <2>4
<1>5. \A k \in Garbage : v.row[k] = "absent"
  <2> SUFFICES ASSUME NEW k \in Garbage
               PROVE  v.row[k] = "absent"
    OBVIOUS
  <2>1. k \in OldKey
    BY RepairAssumption
  <2>2. Spellings(s, k) = {}
    BY <1>2, RepairAssumption DEF Spellings
  <2>3. Survivor(s, k) = "absent"
    BY <2>2 DEF Survivor
  <2>4. QED
    BY <1>1, <2>1, <2>3
<1>6. \A k \in OldKey : v.row[k] = IF k \in Path THEN Survivor(s, k) ELSE "absent"
  BY <1>1
<1>7. Repaired(v, mined)
  BY <1>1, <1>3, <1>4, <1>5, <1>6 DEF Repaired
<1>8. QED
  BY <1>7 DEF v

(* Version 6 has nothing to do on a table it repaired (db.rs               *)
(* repair_files_v6 "Idempotent by construction").                          *)
THEOREM V6Idempotent ==
  ASSUME NEW t \in Table, NEW mined \in SUBSET Mentioned
  PROVE  RepairV6(RepairV6(t, mined), mined) = RepairV6(t, mined)
<1> DEFINE v == RepairV6(t, mined)
           w == Without(v, Garbage, {"pending"})
<1>1. v \in Table /\ Repaired(v, mined)
  BY V6Repairs, AfterV6
<1> HIDE DEF v
<1>2. w = v
  <2>1. Present(v, Garbage) = {}
    BY <1>1 DEF Present, Repaired
  <2>2. w.row = v.row
    BY <1>1, RepairAssumption DEF Without, Repaired, Table
  <2>3. w.jobs = v.jobs
    BY <1>1, <2>1 DEF Without, Table
  <2>4. QED
    BY <1>1, <2>2, <2>3, WithoutType DEF Table
<1>3. Reset(v) = v
  BY <1>1 DEF Reset, Repaired, Table
<1>4. Seeded(v, mined) = v
  BY <1>1 DEF Seeded, Repaired, Table
<1>5. Merged(v) = v
  <2>1. \A p \in Path : Survivor(v, p) = v.row[p]
    <3> SUFFICES ASSUME NEW p \in Path
                 PROVE  Survivor(v, p) = v.row[p]
      OBVIOUS
    <3>1. p \in OldKey /\ CanonOf[p] = p /\ \A q \in Path : CanonOf[q] = q
      BY RepairAssumption
    <3>2. Spellings(v, p) = IF v.row[p] = "absent" THEN {} ELSE {p}
      BY <1>1, <3>1 DEF Spellings, Repaired
    <3>3. v.row[p] \in {"absent", "pending", "missing", "saved"}
      BY <1>1, <3>1 DEF Repaired, Table, RowStatus
    <3>4. QED
      BY <3>2, <3>3 DEF Survivor
  <2>2. Merged(v).row = v.row
    <3>1. \A k \in OldKey : Merged(v).row[k] = v.row[k]
      BY <1>1, <2>1 DEF Merged, Repaired
    <3>2. QED
      BY <1>1, <3>1, MergedType DEF Table
  <2>3. Merged(v).jobs = v.jobs
    BY <1>1 DEF Merged, Repaired, Table
  <2>4. QED
    BY <1>1, <2>2, <2>3, MergedType DEF Table
<1>6. Armed(v) = v
  BY <1>1 DEF Armed, Repaired, Table
<1>7. RepairV6(v, mined) = v
  BY <1>2, <1>3, <1>4, <1>5, <1>6 DEF RepairV6
<1>8. QED
  BY <1>7 DEF v

-----------------------------------------------------------------------------
(* Version 7, and both.                                                    *)

LEMMA AfterV7 ==
  ASSUME NEW t \in Table, NEW mined \in SUBSET Mentioned
  PROVE  /\ RepairV7(t, mined) \in Table
         /\ \A k \in OldKey :
              RepairV7(t, mined).row[k]
                = IF k \in Bracketed THEN "absent"
                  ELSE IF k \in mined /\ t.row[k] = "absent" THEN "pending" ELSE t.row[k]
         /\ \A k \in OldKey : RepairV7(t, mined).row[k] = "pending" =>
              RepairV7(t, mined).jobs[k] \in {"pending", "running"}
<1> DEFINE w == Without(t, Bracketed, JobStatus)
           s == Seeded(w, mined)
<1>1. w \in Table /\ s \in Table
  BY WithoutType, SeededType
<1>2. RepairV7(t, mined) = Armed(s)
  BY DEF RepairV7
<1>3. \A k \in OldKey : w.row[k] = IF k \in Bracketed THEN "absent" ELSE t.row[k]
  BY DEF Without
<1>4. \A k \in OldKey :
        s.row[k] = IF k \in mined /\ w.row[k] = "absent" THEN "pending" ELSE w.row[k]
  BY <1>1 DEF Seeded, Table
<1>5. mined \cap Bracketed = {}
  BY RepairAssumption
<1> HIDE DEF w, s
<1>6. Armed(s).row = s.row /\ Armed(s) \in Table
  BY <1>1, ArmedType
<1>7. \A k \in OldKey : Armed(s).row[k] = "pending" => Armed(s).jobs[k] \in {"pending", "running"}
  BY <1>1, ArmedType
<1>8. QED
  BY <1>2, <1>3, <1>4, <1>5, <1>6, <1>7

(* A daemon that has opened an old database starts from a repaired table.  *)
THEOREM UpgradeRepairs ==
  ASSUME NEW t \in Table, NEW mined \in SUBSET Mentioned
  PROVE  Upgraded(t, mined) \in Table /\ Repaired(Upgraded(t, mined), mined)
<1> DEFINE v == RepairV6(t, mined)
<1>1. v \in Table /\ Repaired(v, mined)
  BY V6Repairs, AfterV6
<1>2. mined \subseteq Path \ Garbage /\ Garbage \subseteq OldKey /\ mined \subseteq OldKey
  BY RepairAssumption
<1> HIDE DEF v
<1>3. Repaired(RepairV7(v, mined), mined)
  <2>1. \A k \in mined : k \notin Bracketed
    BY RepairAssumption
  <2>2. QED
    BY <1>1, <1>2, <2>1, AfterV7 DEF Repaired
<1>4. QED
  BY <1>1, <1>3, AfterV7 DEF Upgraded, v

(* No file that was saved is lost by the upgrade: whichever spelling its   *)
(* row had, the row under the canonical key is saved, unless the key was   *)
(* garbage (db.rs repair_files_v6 "duplicate keys for one file merge into  *)
(* the row carrying the most state").                                      *)
THEOREM SavedSurvives ==
  ASSUME NEW t \in Table, NEW mined \in SUBSET Mentioned,
         NEW k \in OldKey \ (Garbage \cup Bracketed), t.row[k] = "saved"
  PROVE  Upgraded(t, mined).row[CanonOf[k]] = "saved"
<1> DEFINE s == Seeded(Reset(Without(t, Garbage, {"pending"})), mined)
           v == RepairV6(t, mined)
           c == CanonOf[k]
<1>1. c \in Path /\ c \in OldKey /\ c \notin Bracketed
  BY RepairAssumption
<1>2. s.row[k] = "saved"
  BY BeforeMerge
<1>3. /\ v \in Table
      /\ v.row = [o \in OldKey |-> IF o \in Path THEN Survivor(s, o) ELSE "absent"]
      /\ \A o \in OldKey : v.row[o] = "pending" => v.jobs[o] \in {"pending", "running"}
  BY AfterV6
<1> HIDE DEF s, v
<1>4. k \in Spellings(s, c)
  BY <1>2 DEF Spellings
<1>5. Survivor(s, c) = "saved"
  BY <1>2, <1>4 DEF Survivor
<1>6. RepairV7(v, mined).row[c] = "saved"
  BY <1>1, <1>3, <1>5, AfterV7
<1>7. QED
  BY <1>6 DEF Upgraded, v

(* An error page saved as a file is fetched again, unless another spelling *)
(* of the file was saved or is known to be missing (db.rs repair_files_v6  *)
(* "these rows re-fetch into their truthful state").                       *)
THEOREM ErrorPagesAreRefetched ==
  ASSUME NEW t \in Table, NEW mined \in SUBSET Mentioned,
         NEW k \in OldKey \ (Garbage \cup Bracketed), t.row[k] = "errorpage",
         \A o \in OldKey \ Garbage :
           CanonOf[o] = CanonOf[k] => t.row[o] \notin {"saved", "missing"}
  PROVE  /\ Upgraded(t, mined).row[CanonOf[k]] = "pending"
         /\ Upgraded(t, mined).jobs[CanonOf[k]] \in {"pending", "running"}
<1> DEFINE s == Seeded(Reset(Without(t, Garbage, {"pending"})), mined)
           v == RepairV6(t, mined)
           c == CanonOf[k]
<1>1. c \in Path /\ c \in OldKey /\ c \notin Bracketed
  BY RepairAssumption
<1>2. /\ s.row[k] = "pending"
      /\ \A o \in OldKey : CanonOf[o] = c => s.row[o] \notin {"saved", "missing"}
  BY BeforeMerge
<1>3. /\ v \in Table
      /\ v.row = [o \in OldKey |-> IF o \in Path THEN Survivor(s, o) ELSE "absent"]
      /\ \A o \in OldKey : v.row[o] = "pending" => v.jobs[o] \in {"pending", "running"}
  BY AfterV6
<1> HIDE DEF s, v
<1>4. k \in Spellings(s, c) /\ \A o \in Spellings(s, c) : s.row[o] \notin {"saved", "missing"}
  BY <1>2 DEF Spellings
<1>5. Survivor(s, c) = "pending"
  BY <1>2, <1>4 DEF Survivor
<1>6. RepairV7(v, mined).row[c] = "pending"
  BY <1>1, <1>3, <1>5, AfterV7
<1>7. QED
  BY <1>1, <1>3, <1>6, AfterV7 DEF Upgraded, v


-----------------------------------------------------------------------------
(* The inductive invariant.                                                *)

Status == {"absent", "open", "done", "dead"}
Fetch(p) == <<p, 1>>

(* A fetch job that is done has settled its row.                           *)
Truthful == \A p \in Path : ledger[Fetch(p)] = "done" => row[p] \in Settled

(* A crawl knows what it has seen and not yet visited; what it visited     *)
(* failed, or is settled now or by its commit, and a style sheet it read   *)
(* has all its references seen.                                            *)
Crawled(run, roots) ==
  LET visited == run.seen \ run.todo
  IN  /\ roots \cup run.todo \subseteq run.seen
      /\ run.saved \cup run.missing \cup run.failed \subseteq visited
      /\ run.saved \cap run.missing = {}
      /\ \A u \in visited : u \in run.failed \cup run.saved \/ row[u] \in Settled
      /\ \A u \in visited \cap Css : u \in run.failed \/ Refs[u] \subseteq run.seen

(* A run that skips its fetch found the row settled.                       *)
RunOf(t) ==
  /\ runs[t].at \in Settled \cup {"skip", "fetching"} => t \in FileTicket
  /\ runs[t].at = "skip" => row[t[1]] \in Settled
  /\ runs[t].at = "crawl" => t \in CrawlTicket /\ Crawled(runs[t], t[1])
Runs == \A t \in Ticket : RunOf(t)

Inv == TypeOK /\ PendingHasJob /\ CleanMarkerIsComplete /\ Truthful /\ Runs

-----------------------------------------------------------------------------
(* Tickets and the ledger.                                                 *)

(* Every ticket is a job's only row.                                       *)
LEMMA Tickets ==
  /\ Ticket = (Periodic \cup Path \cup Crawls) \X {1}
  /\ \A p \in Path : Fetch(p) \in FileTicket /\ Fetch(p)[1] = p
  /\ FileTicket \subseteq Ticket /\ CrawlTicket \subseteq Ticket
  /\ \A t \in Ticket : t = Fetch(t[1]) /\ (t \in FileTicket <=> t[1] \in Path)
<1>1. Ticket = (Periodic \cup Path \cup Crawls) \X {1}
  BY DEF Ticket, Queue!Ticket
<1>2. QED
  BY <1>1 DEF Fetch, FileTicket, CrawlTicket

(* Recording a request only opens jobs: those it re-arms, and those it     *)
(* wants and that never were.                                              *)
LEMMA Recorded ==
  ASSUME NEW l \in [Ticket -> Status], NEW req
  PROVE  /\ Queue!Recorded(l, req) \in [Ticket -> Status]
         /\ \A t \in Ticket : Queue!Recorded(l, req)[t] \in {l[t], "open"}
         /\ \A p \in req.wants \cap Path :
              /\ Queue!Recorded(l, req)[Fetch(p)] # "absent"
              /\ p \in req.rearms => Queue!Recorded(l, req)[Fetch(p)] = "open"
         /\ \A t \in Ticket : t[1] \notin req.wants => Queue!Recorded(l, req)[t] = l[t]
<1>1. \A t \in Ticket : Queue!Recorded(l, req)[t] =
        IF Queue!Opens(l, req, t) THEN "open" ELSE l[t]
  BY DEF Queue!Recorded, Ticket
<1>2. \A t \in Ticket : t[1] \notin req.wants => ~Queue!Opens(l, req, t)
  BY DEF Queue!Opens
<1>3. ASSUME NEW p \in req.wants \cap Path
      PROVE  /\ l[Fetch(p)] = "absent" => Queue!Opens(l, req, Fetch(p))
             /\ p \in req.rearms /\ l[Fetch(p)] \in {"done", "dead"} => Queue!Opens(l, req, Fetch(p))
             /\ Fetch(p) \in Ticket /\ l[Fetch(p)] \in Status
  BY <1>3, Tickets DEF Queue!Opens
<1>4. Queue!Recorded(l, req) \in [Ticket -> Status]
  BY DEF Queue!Recorded, Ticket, Status
<1>5. ASSUME NEW p \in req.wants \cap Path
      PROVE  /\ Queue!Recorded(l, req)[Fetch(p)] # "absent"
             /\ p \in req.rearms => Queue!Recorded(l, req)[Fetch(p)] = "open"
  BY <1>1, <1>3 DEF Status
<1>6. QED
  BY <1>1, <1>2, <1>4, <1>5

(* A served job is done unless it wants itself, and others are only opened *)
(* by the request.                                                         *)
LEMMA Served ==
  ASSUME ledger \in [Ticket -> Status], NEW t \in Ticket, NEW req, Queue!Serve(t, req)
  PROVE  /\ ledger' \in [Ticket -> Status]
         /\ \A p \in Path : Fetch(p) # t => ledger'[Fetch(p)] \in {ledger[Fetch(p)], "open"}
         /\ \A p \in req.wants \cap req.rearms \cap Path : ledger'[Fetch(p)] = "open"
<1> DEFINE l == [ledger EXCEPT ![t] = Queue!Settled(t)]
<1>1. Queue!Settled(t) \in Status
  BY DEF Queue!Settled, Status
<1>2. l \in [Ticket -> Status] /\ \A u \in Ticket : u # t => l[u] = ledger[u]
  BY <1>1
<1>3. ledger' = Queue!Recorded(l, req)
  BY DEF Queue!Serve
<1> HIDE DEF l
<1>4. \A p \in Path : Fetch(p) \in Ticket
  BY Tickets
<1>5. QED
  BY <1>2, <1>3, <1>4, Recorded

-----------------------------------------------------------------------------
(* What the steps have in common.                                          *)

(* What is upstream, in memory or counted.                                 *)
Frame ==
  /\ site \in Themes /\ changes \in 0 .. MaxChanges /\ faults \in 0 .. MaxFaults
  /\ marks \in [Host -> {"none", "unreachable", "gone"}]
RowType == [Path -> {"absent", "pending"} \cup Settled]

(* A crawl stays good as long as settled rows stay settled.                *)
LEMMA CrawlStays ==
  ASSUME NEW run, NEW roots, Crawled(run, roots), run.seen \subseteq Path,
         \A p \in Path : row[p] \in Settled => row'[p] \in Settled
  PROVE  Crawled(run, roots)'
<1>1. \A u \in run.seen \ run.todo : u \in run.failed \cup run.saved \/ row'[u] \in Settled
  BY DEF Crawled
<1>2. QED
  BY <1>1 DEF Crawled

(* A crawl's record.                                                       *)
LEMMA CrawlType ==
  ASSUME NEW run \in RunState, run.at = "crawl"
  PROVE  run \in [at : {"crawl"}, todo : SUBSET Path, seen : SUBSET Path,
                  saved : SUBSET Path, missing : SUBSET Path, failed : SUBSET Path]
BY DEF RunState, Idle, Settled

(* A step keeps the invariant if settled rows stay settled, pending ones   *)
(* keep a job and done jobs tell the truth, the marker is left alone or    *)
(* complete, and the runs it changes are good.                             *)
LEMMA Keeps ==
  ASSUME Inv, Frame', row' \in RowType, ledger' \in [Ticket -> Status],
         runs' \in [Ticket -> RunState],
         \A p \in Path : row[p] \in Settled => row'[p] \in Settled,
         \A p \in Path : row'[p] = "pending" => ledger'[Fetch(p)] \in {"open", "dead"},
         \A p \in Path : ledger'[Fetch(p)] = "done" => row'[p] \in Settled,
         \/ marker' = marker
         \/ marker' \in [roots : Themes \cup {{}}, failed : SUBSET Path] /\ CleanMarkerIsComplete',
         \A t \in Ticket : runs'[t] = runs[t] \/ RunOf(t)'
  PROVE  Inv'
<1>1. TypeOK /\ CleanMarkerIsComplete /\ Runs
  BY DEF Inv
<1>2. ASSUME NEW t \in Ticket
      PROVE  RunOf(t)'
  <2>1. CASE runs'[t] = runs[t]
    <3>1. RunOf(t) /\ runs[t] \in RunState
      BY <1>1 DEF Runs, TypeOK
    <3>2. PICK run \in RunState : run = runs[t]
      BY <3>1
    <3>3. PICK roots : roots = t[1]
      OBVIOUS
    <3>4. ASSUME run.at = "crawl"
          PROVE  Crawled(run, roots)'
      <4>1. run.seen \subseteq Path
        BY <3>4, CrawlType
      <4>2. Crawled(run, roots)
        BY <3>1, <3>2, <3>3, <3>4 DEF RunOf
      <4>3. QED
        BY <4>1, <4>2, CrawlStays
    <3>5. run.at = "skip" => t[1] \in Path
      BY <3>1, <3>2 DEF RunOf, FileTicket
    <3>6. QED
      BY <2>1, <3>1, <3>2, <3>3, <3>4, <3>5 DEF RunOf
  <2>2. CASE runs'[t] # runs[t]
    BY <2>2
  <2>3. QED
    BY <2>1, <2>2
<1>3. \A t \in Ticket : runs'[t].at = "crawl" => runs'[t].saved \cap runs'[t].missing = {}
  BY <1>2 DEF RunOf, Crawled
<1>4. marker' \in [roots : Themes \cup {{}}, failed : SUBSET Path]
  BY <1>1 DEF TypeOK
<1>5. TypeOK'
  BY <1>3, <1>4 DEF TypeOK, Frame, RowType, Status
<1>6. CleanMarkerIsComplete'
  <2>1. CASE marker' = marker
    BY <1>1, <2>1 DEF CleanMarkerIsComplete, FilesOf, Step
  <2>2. CASE marker' # marker
    BY <2>2
  <2>3. QED
    BY <2>1, <2>2
<1>7. PendingHasJob' /\ Truthful'
  BY DEF PendingHasJob, Pending, Truthful, Fetch
<1>8. QED
  BY <1>2, <1>5, <1>6, <1>7 DEF Inv, Runs

-----------------------------------------------------------------------------
(* The start: what the repairs leave.                                      *)

(* A repair never makes a job done.                                        *)
LEMMA NoneBecomesDone ==
  ASSUME NEW t \in Table, NEW mined, NEW k \in OldKey
  PROVE  /\ RepairV6(t, mined).jobs[k] = "done" => t.jobs[k] = "done"
         /\ RepairV7(t, mined).jobs[k] = "done" => t.jobs[k] = "done"
<1>1. ASSUME NEW s \in Table, NEW keys, NEW states
      PROVE  Without(s, keys, states).jobs[k] = "done" => s.jobs[k] = "done"
  BY DEF Without, Table
<1>2. ASSUME NEW s \in Table
      PROVE  /\ Reset(s).jobs = s.jobs
             /\ Seeded(s, mined).jobs = s.jobs
             /\ Merged(s).jobs[k] = "done" => s.jobs[k] = "done"
             /\ Armed(s).jobs[k] = "done" => s.jobs[k] = "done"
  BY DEF Reset, Seeded, Merged, Armed, Table
<1>3. RepairV6(t, mined).jobs[k] = "done" => t.jobs[k] = "done"
  <2>1. PICK w \in Table : w = Without(t, Garbage, {"pending"})
    BY WithoutType
  <2>2. PICK r \in Table : r = Reset(w)
    BY ResetType
  <2>3. PICK s \in Table : s = Seeded(r, mined)
    BY SeededType
  <2>4. PICK m \in Table : m = Merged(s)
    BY MergedType
  <2>5. RepairV6(t, mined) = Armed(m)
    BY <2>1, <2>2, <2>3, <2>4 DEF RepairV6
  <2>6. QED
    BY <1>1, <1>2, <2>1, <2>2, <2>3, <2>4, <2>5
<1>4. RepairV7(t, mined).jobs[k] = "done" => t.jobs[k] = "done"
  <2>1. PICK w \in Table : w = Without(t, Bracketed, JobStatus)
    BY WithoutType
  <2>2. PICK s \in Table : s = Seeded(w, mined)
    BY SeededType
  <2>3. RepairV7(t, mined) = Armed(s)
    BY <2>1, <2>2 DEF RepairV7
  <2>4. QED
    BY <1>1, <1>2, <2>1, <2>2, <2>3
<1>5. QED
  BY <1>3, <1>4

(* A job of an older table has a row, and a file texts refer to.           *)
LEMMA OldTablesType ==
  ASSUME NEW old \in OldTables
  PROVE  /\ old \in Table
         /\ \A k \in OldKey : old.jobs[k] # "absent" => old.row[k] # "absent" /\ CanonOf[k] \in Mentioned
<1> DEFINE known == {k \in OldKey : CanonOf[k] \in Mentioned}
           entries == {<<"absent", "absent">>} \cup ((RowStatus \ {"absent"}) \X JobStatus)
<1>1. PICK e \in [known -> entries] :
        old = [row  |-> [k \in OldKey |-> IF k \in known THEN e[k][1] ELSE "absent"],
               jobs |-> [k \in OldKey |-> IF k \in known THEN e[k][2] ELSE "absent"]]
  BY DEF OldTables
<1>2. \A k \in known : /\ e[k][1] \in RowStatus /\ e[k][2] \in JobStatus
                       /\ e[k][2] # "absent" => e[k][1] # "absent"
  <2>1. \A k \in known : e[k] \in entries
    OBVIOUS
  <2>2. \A x \in entries : /\ x[1] \in RowStatus /\ x[2] \in JobStatus
                           /\ x[2] # "absent" => x[1] # "absent"
    BY DEF RowStatus, JobStatus
  <2>3. QED
    BY <2>1, <2>2
<1>3. "absent" \in RowStatus /\ "absent" \in JobStatus
  BY DEF RowStatus, JobStatus
<1>4. /\ old.row = [k \in OldKey |-> IF k \in known THEN e[k][1] ELSE "absent"]
      /\ old.jobs = [k \in OldKey |-> IF k \in known THEN e[k][2] ELSE "absent"]
  BY <1>1
<1> HIDE DEF entries
<1>5. old.row \in [OldKey -> RowStatus] /\ old.jobs \in [OldKey -> JobStatus]
  BY <1>2, <1>3, <1>4
<1>6. old \in Table
  BY <1>1, <1>4, <1>5 DEF Table
<1>7. QED
  BY <1>2, <1>4, <1>6

(* A row whose job was done is kept by the repairs.                        *)
LEMMA DoneKeepsRow ==
  ASSUME NEW old \in OldTables, NEW mined \in SUBSET Mentioned,
         NEW p \in Path, old.jobs[p] = "done"
  PROVE  Upgraded(old, mined).row[p] # "absent"
<1>1. /\ old \in Table /\ old.row[p] # "absent" /\ p \in OldKey
      /\ p \notin Garbage \cup Bracketed /\ CanonOf[p] = p
  BY OldTablesType, RepairAssumption
<1>2. PICK s : s = Seeded(Reset(Without(old, Garbage, {"pending"})), mined)
  OBVIOUS
<1>3. /\ s \in Table /\ \A k \in OldKey : s.row[k] # "errorpage"
      /\ s.row[p] # "absent"
  <2>1. /\ s \in Table
        /\ \A k \in OldKey : s.row[k] # "errorpage"
        /\ \A k \in OldKey \ Garbage :
              s.row[k] = CASE old.row[k] = "errorpage" -> "pending"
                           [] old.row[k] = "absent" /\ k \in mined -> "pending"
                           [] OTHER -> old.row[k]
    BY <1>1, <1>2, BeforeMerge
  <2>2. QED
    BY <1>1, <2>1
<1>4. Survivor(s, p) # "absent"
  <2>1. p \in Spellings(s, p)
    BY <1>1, <1>3 DEF Spellings
  <2>2. s.row[p] \in {"saved", "missing", "pending"}
    BY <1>1, <1>3 DEF Table, RowStatus
  <2>3. QED
    BY <2>1, <2>2 DEF Survivor
<1>5. PICK v : v = RepairV6(old, mined)
  OBVIOUS
<1>6. v \in Table /\ v.row[p] = Survivor(s, p)
  <2>1. /\ v \in Table
        /\ v.row = [k \in OldKey |-> IF k \in Path THEN Survivor(s, k) ELSE "absent"]
    BY <1>1, <1>2, <1>5, AfterV6
  <2>2. QED
    BY <1>1, <2>1
<1>7. QED
  BY <1>1, <1>4, <1>5, <1>6, AfterV7 DEF Upgraded

LEMMA InitInv == Init => Inv
<1> SUFFICES ASSUME Init PROVE Inv
  OBVIOUS
<1>1. PICK old \in OldTables, mined \in SUBSET Mentioned :
        LET new == Upgraded(old, mined)
        IN  /\ row = [p \in Path |-> new.row[p]]
            /\ ledger = [t \in Ticket |->
                 CASE t[1] \in Periodic -> "open"
                   [] t[1] \in Path     -> AsTicket(new.jobs[t[1]])
                   [] OTHER             -> "absent"]
  BY DEF Init
<1>2. PICK new : new = Upgraded(old, mined)
  OBVIOUS
<1>3. /\ old \in Table /\ new \in Table
      /\ \A k \in OldKey : new.row[k] # "errorpage"
      /\ \A k \in OldKey : new.row[k] = "pending" => new.jobs[k] \in {"pending", "running"}
  BY <1>2, OldTablesType, UpgradeRepairs DEF Repaired
<1>4. \A p \in Path : p \in OldKey /\ p \notin Periodic
  BY RepairAssumption, FilesAssumption
<1>5. \A p \in Path : new.jobs[p] = "done" => new.row[p] \in Settled
  <2> TAKE p \in Path
  <2> HAVE new.jobs[p] = "done"
  <2>1. old.jobs[p] = "done"
    <3>1. PICK v \in Table : v = RepairV6(old, mined)
      BY <1>3, AfterV6
    <3>2. v.jobs[p] = "done"
      BY <1>2, <1>4, <3>1, NoneBecomesDone DEF Upgraded
    <3>3. QED
      BY <1>3, <1>4, <3>1, <3>2, NoneBecomesDone
  <2>2. new.row[p] # "absent"
    BY <1>2, <2>1, DoneKeepsRow
  <2>3. new.row[p] \in RowStatus /\ new.row[p] # "errorpage" /\ new.row[p] # "pending"
    BY <1>3, <1>4 DEF Table
  <2>4. QED
    BY <2>2, <2>3 DEF RowStatus, Settled
<1>6. row = [p \in Path |-> new.row[p]] /\ row \in RowType
  <2>1. \A p \in Path : new.row[p] \in {"absent", "pending"} \cup Settled
    BY <1>3, <1>4 DEF Table, RowStatus, Settled
  <2>2. QED
    BY <1>1, <1>2, <2>1 DEF RowType
<1>7. /\ ledger \in [Ticket -> Status]
      /\ \A p \in Path : ledger[Fetch(p)] = AsTicket(new.jobs[p])
  <2>1. \A k \in OldKey : AsTicket(new.jobs[k]) \in Status
    BY <1>3 DEF AsTicket, Table, JobStatus, Status
  <2>2. ledger = [t \in Ticket |->
                 CASE t[1] \in Periodic -> "open"
                   [] t[1] \in Path     -> AsTicket(new.jobs[t[1]])
                   [] OTHER             -> "absent"]
    BY <1>1, <1>2
  <2>3. ledger \in [Ticket -> Status]
    BY <1>4, <2>1, <2>2 DEF Status
  <2>4. \A p \in Path : Fetch(p) \in Ticket /\ Fetch(p)[1] = p
    BY Tickets
  <2>5. QED
    BY <1>4, <2>2, <2>3, <2>4
<1>8. \A t \in Ticket : runs[t] = Idle
  BY DEF Init
<1>9. TypeOK
  <2>1. runs \in [Ticket -> RunState] /\ \A t \in Ticket : runs[t].at # "crawl"
    BY <1>8 DEF Init, RunState, Idle
  <2>2. marks \in [Host -> {"none", "unreachable", "gone"}]
    BY DEF Init, NoMarks
  <2>3. marker \in [roots : Themes \cup {{}}, failed : SUBSET Path]
    BY DEF Init
  <2>4. site \in Themes /\ changes \in 0 .. MaxChanges /\ faults \in 0 .. MaxFaults
    BY FilesAssumption DEF Init
  <2>5. QED
    BY <1>6, <1>7, <2>1, <2>2, <2>3, <2>4 DEF TypeOK, RowType, Status
<1>10. CleanMarkerIsComplete
  <2>1. Step({}) = {}
    <3>1. \A x : x \notin Step({})
      BY DEF Step
    <3>2. QED
      BY <3>1
  <2>2. \A p \in Path : p \notin FilesOf({})
    <3>1. {} \in SUBSET Path /\ {} \subseteq {} /\ Step({}) \subseteq {}
      BY <2>1
    <3>2. QED
      BY <3>1, Zenon DEF FilesOf
  <2>3. \A p \in FilesOf(marker.roots) : p \in Path /\ marker.roots = {}
    BY DEF FilesOf, Init
  <2>4. QED
    BY <2>2, <2>3 DEF CleanMarkerIsComplete
<1>11. PendingHasJob /\ Truthful
  BY <1>3, <1>4, <1>5, <1>6, <1>7 DEF PendingHasJob, Truthful, Pending, AsTicket, Fetch
<1>12. Runs
  BY <1>8 DEF Runs, RunOf, Idle, Settled
<1>13. QED
  BY <1>9, <1>10, <1>11, <1>12 DEF Inv

-----------------------------------------------------------------------------
(* One lemma per group of actions.                                         *)

(* What the invariant says of the types.                                   *)
LEMMA Typed ==
  ASSUME Inv
  PROVE  /\ Frame /\ row \in RowType /\ ledger \in [Ticket -> Status]
         /\ runs \in [Ticket -> RunState]
         /\ marker \in [roots : Themes \cup {{}}, failed : SUBSET Path]
         /\ \A p \in Path : row[p] = "pending" => ledger[Fetch(p)] \in {"open", "dead"}
         /\ \A p \in Path : ledger[Fetch(p)] = "done" => row[p] \in Settled
         /\ \A t \in Ticket : RunOf(t)
BY DEF Inv, TypeOK, Frame, RowType, Status, PendingHasJob, Pending, Truthful, Fetch, Runs

(* An idle run is good.                                                    *)
LEMMA IdleRuns ==
  /\ Idle \in RunState
  /\ Idle.at \notin Settled \cup {"skip", "fetching", "crawl"}
BY DEF Idle, RunState, Settled

(* A step that touches one run, and no table.                              *)
LEMMA OneRun ==
  ASSUME Inv, Frame', UNCHANGED <<row, ledger, marker>>,
         NEW t \in Ticket, NEW run \in RunState, runs' = [runs EXCEPT ![t] = run],
         runs'[t] = run => RunOf(t)'
  PROVE  Inv'
<1>1. /\ runs \in [Ticket -> RunState] /\ row' \in RowType /\ ledger' \in [Ticket -> Status]
      /\ \A p \in Path : row[p] = "pending" => ledger[Fetch(p)] \in {"open", "dead"}
      /\ \A p \in Path : ledger[Fetch(p)] = "done" => row[p] \in Settled
  BY Typed
<1>2. runs' \in [Ticket -> RunState] /\ \A u \in Ticket : u # t => runs'[u] = runs[u]
  BY <1>1
<1>3. RunOf(t)'
  BY <1>1
<1>4. QED
  BY <1>1, <1>2, <1>3, Keeps

(* A step of the tables that leaves the rows alone opens jobs or drops     *)
(* them, and ends a run or none.                                           *)
LEMMA JobsMove ==
  ASSUME Inv, Frame', UNCHANGED <<row, marker>>,
         ledger' \in [Ticket -> Status],
         \A p \in Path : ledger'[Fetch(p)] \in {ledger[Fetch(p)], "open", "dead"},
         runs' \in [Ticket -> RunState],
         \A t \in Ticket : runs'[t] \in {runs[t], Idle}
  PROVE  Inv'
<1>1. /\ runs \in [Ticket -> RunState] /\ row' \in RowType
      /\ \A p \in Path : row[p] = "pending" => ledger[Fetch(p)] \in {"open", "dead"}
      /\ \A p \in Path : ledger[Fetch(p)] = "done" => row[p] \in Settled
  BY Typed
<1>2. \A t \in Ticket : runs'[t] = Idle => RunOf(t)'
  BY IdleRuns DEF RunOf
<1>3. QED
  BY <1>1, <1>2, Keeps

LEMMA UpstreamInv ==
  ASSUME Inv
  PROVE  /\ \A theme \in Themes : Restyle(theme) => Inv'
         /\ \A h \in Host : ConnectFails(h) => Inv'
         /\ \A h \in Host : MarkExpires(h) => Inv'
         /\ Crash => Inv'
<1>1. /\ Frame /\ runs \in [Ticket -> RunState] /\ ledger \in [Ticket -> Status]
      /\ MaxChanges \in Nat /\ MaxFaults \in Nat
  BY Typed, FilesAssumption
<1>2. ASSUME NEW theme \in Themes, Restyle(theme) PROVE Inv'
  <2>1. Frame' /\ UNCHANGED <<row, marker, ledger, runs>>
    BY <1>1, <1>2 DEF Restyle, Frame
  <2>2. QED
    BY <1>1, <2>1, JobsMove, Tickets
<1>3. ASSUME NEW h \in Host, ConnectFails(h) \/ MarkExpires(h) PROVE Inv'
  <2>1. Frame' /\ UNCHANGED <<row, marker, ledger, runs>>
    BY <1>1, <1>3 DEF ConnectFails, MarkExpires, Fault, Frame
  <2>2. QED
    BY <1>1, <2>1, JobsMove, Tickets
<1>4. ASSUME Crash PROVE Inv'
  <2>1. /\ Frame' /\ UNCHANGED <<row, marker, ledger>>
        /\ runs' = [t \in Ticket |-> Idle]
    BY <1>1, <1>4 DEF Crash, Fault, Frame, NoMarks
  <2>2. QED
    BY <1>1, <2>1, IdleRuns, JobsMove, Tickets
<1>5. QED
  BY <1>2, <1>3, <1>4

LEMMA RunEndsInv ==
  ASSUME Inv, NEW t \in Ticket
  PROVE  (RunLost(t) => Inv') /\ (RunDropped(t) => Inv') /\ (FileSuppressed(t) => Inv')
<1>1. /\ Frame /\ runs \in [Ticket -> RunState] /\ ledger \in [Ticket -> Status]
      /\ MaxFaults \in Nat
  BY Typed, FilesAssumption
<1>2. Queue!Drop(t) => /\ ledger' \in [Ticket -> Status]
                       /\ \A p \in Path : ledger'[Fetch(p)] \in {ledger[Fetch(p)], "dead"}
  BY <1>1, Tickets DEF Queue!Drop, Status
<1>3. ASSUME RunLost(t) PROVE Inv'
  <2>1. /\ Frame' /\ UNCHANGED <<row, marker, ledger>>
        /\ runs' = [runs EXCEPT ![t] = Idle]
    BY <1>1, <1>3 DEF RunLost, Fault, Frame
  <2>2. QED
    BY <1>1, <2>1, IdleRuns, JobsMove, Tickets
<1>4. ASSUME RunDropped(t) PROVE Inv'
  <2>1. /\ Frame' /\ UNCHANGED <<row, marker>> /\ Queue!Drop(t)
        /\ runs' = [runs EXCEPT ![t] = Idle]
    BY <1>1, <1>4 DEF RunDropped, Fault, Frame
  <2>2. QED
    BY <1>1, <1>2, <2>1, IdleRuns, JobsMove
<1>5. ASSUME FileSuppressed(t) PROVE Inv'
  <2>1. Frame' /\ UNCHANGED <<row, marker, runs>> /\ Queue!Drop(t)
    BY <1>1, <1>5 DEF FileSuppressed, Frame
  <2>2. QED
    BY <1>1, <1>2, <2>1, JobsMove
<1>6. QED
  BY <1>3, <1>4, <1>5

(* Requests of the pages' jobs, of the importer and of the sweep.          *)
LEMMA RequestsInv ==
  ASSUME Inv
  PROVE  /\ \A paths \in SUBSET Mentioned : Reference(paths) => Inv'
         /\ \A whole, bare \in SUBSET Mentioned : ImportLegacy(whole, bare) => Inv'
         /\ Backfill => Inv'
<1>1. /\ Frame /\ runs \in [Ticket -> RunState] /\ ledger \in [Ticket -> Status]
      /\ row \in RowType
      /\ \A p \in Path : row[p] = "pending" => ledger[Fetch(p)] \in {"open", "dead"}
      /\ \A p \in Path : ledger[Fetch(p)] = "done" => row[p] \in Settled
      /\ \A p \in Path : Fetch(p) \in Ticket /\ ledger[Fetch(p)] \in Status
      /\ Mentioned \subseteq Path
  BY Typed, Tickets, RepairAssumption
<1>2. ASSUME NEW bare
      PROVE  /\ Referenced(bare) \in RowType
             /\ \A p \in Path : row[p] # "absent" => Referenced(bare)[p] = row[p]
             /\ \A p \in Path : row[p] = "absent" =>
                  Referenced(bare)[p] = IF p \in bare THEN "pending" ELSE "absent"
  BY <1>1 DEF Referenced, RowType
<1>3. ASSUME NEW paths \in SUBSET Mentioned, Reference(paths) PROVE Inv'
  <2>1. /\ Frame' /\ UNCHANGED <<marker, runs>> /\ row' = Referenced(paths)
        /\ ledger' = Queue!Recorded(ledger, Request(paths, {}))
    BY <1>1, <1>3 DEF Reference, Queue!Accept, Frame
  <2>2. PICK req : req = Request(paths, {})
    OBVIOUS
  <2>3. req.wants = paths
    BY <2>2 DEF Request
  <2>4. /\ ledger' \in [Ticket -> Status]
        /\ \A p \in Path : ledger'[Fetch(p)] \in {ledger[Fetch(p)], "open"}
        /\ \A p \in paths : ledger'[Fetch(p)] # "absent"
    BY <1>1, <2>1, <2>2, <2>3, Recorded
  <2>5. ASSUME NEW p \in Path
        PROVE  /\ row[p] \in Settled => row'[p] \in Settled
               /\ row'[p] = "pending" => ledger'[Fetch(p)] \in {"open", "dead"}
               /\ ledger'[Fetch(p)] = "done" => row'[p] \in Settled
    <3>1. CASE row[p] = "absent"
      <4>1. row'[p] = IF p \in paths THEN "pending" ELSE "absent"
        BY <1>2, <2>1, <3>1
      <4>2. ledger[Fetch(p)] # "done"
        BY <1>1, <3>1 DEF Settled
      <4>3. QED
        BY <1>1, <2>4, <3>1, <4>1, <4>2 DEF Settled, Status
    <3>2. CASE row[p] # "absent"
      <4>1. row'[p] = row[p]
        BY <1>2, <2>1, <3>2
      <4>2. QED
        BY <1>1, <2>4, <4>1
    <3>3. QED
      BY <3>1, <3>2
  <2>6. QED
    BY <1>1, <1>2, <2>1, <2>4, <2>5, Keeps
<1>4. ASSUME NEW whole \in SUBSET Mentioned, NEW bare \in SUBSET Mentioned,
             ImportLegacy(whole, bare)
      PROVE  Inv'
  <2>1. /\ Frame' /\ UNCHANGED <<marker, runs>>
        /\ row' = [p \in Path |-> IF p \in whole THEN "saved" ELSE Referenced(bare)[p]]
        /\ ledger' = Queue!Recorded(ledger, Rearmed(ArmedLast(whole, bare)))
    BY <1>1, <1>4 DEF ImportLegacy, Queue!Accept, Frame, NoMarks
  <2>2. PICK req : req = Rearmed(ArmedLast(whole, bare))
    OBVIOUS
  <2>3. /\ req.wants = ArmedLast(whole, bare) /\ req.rearms = ArmedLast(whole, bare)
        /\ \A p \in Path : p \in req.wants <=> row'[p] = "pending"
    <3>1. \A p \in Path : p \in ArmedLast(whole, bare) <=> row'[p] = "pending"
      BY <2>1 DEF ArmedLast
    <3>2. QED
      BY <2>2, <3>1 DEF Rearmed, Request
  <2>4. /\ ledger' \in [Ticket -> Status]
        /\ \A p \in Path : ledger'[Fetch(p)] \in {ledger[Fetch(p)], "open"}
        /\ \A p \in Path : row'[p] = "pending" => ledger'[Fetch(p)] = "open"
    BY <1>1, <2>1, <2>2, <2>3, Recorded
  <2>5. /\ row' \in RowType
        /\ \A p \in Path : row[p] \in Settled => row'[p] \in Settled
    BY <1>1, <1>2, <2>1 DEF RowType, Settled
  <2>6. QED
    BY <1>1, <2>1, <2>4, <2>5, Keeps
<1>5. ASSUME Backfill PROVE Inv'
  <2>1. PICK t \in Ticket : t = <<BACKFILL, 1>>
    BY Tickets DEF Periodic
  <2>2. PICK req : req = Rearmed(Pending)
    OBVIOUS
  <2>3. /\ Frame' /\ UNCHANGED <<row, marker>> /\ Queue!Serve(t, req)
        /\ runs' = [runs EXCEPT ![t] = Idle]
    BY <1>1, <1>5, <2>1, <2>2 DEF Backfill, Serve, Frame
  <2>4. \A p \in Path : Fetch(p) # t
    BY <2>1, FilesAssumption DEF Fetch, Periodic
  <2>5. /\ ledger' \in [Ticket -> Status]
        /\ \A p \in Path : ledger'[Fetch(p)] \in {ledger[Fetch(p)], "open"}
    BY <1>1, <2>3, <2>4, Served
  <2>6. QED
    BY <1>1, <2>3, <2>5, IdleRuns, JobsMove
<1>6. QED
  BY <1>3, <1>4, <1>5

LEMMA FileFetchInv ==
  ASSUME Inv, NEW t \in FileTicket
  PROVE  (FileBegin(t) => Inv') /\ (FileAnswer(t) => Inv') /\ (FileCommit(t) => Inv')
<1>1. /\ Frame /\ runs \in [Ticket -> RunState] /\ ledger \in [Ticket -> Status]
      /\ row \in RowType /\ RunOf(t)
      /\ \A p \in Path : row[p] = "pending" => ledger[Fetch(p)] \in {"open", "dead"}
      /\ \A p \in Path : ledger[Fetch(p)] = "done" => row[p] \in Settled
      /\ \A p \in Path : Fetch(p) \in Ticket /\ ledger[Fetch(p)] \in Status
      /\ t \in Ticket /\ t[1] \in Path /\ t = Fetch(t[1])
  BY Typed, Tickets
<1>2. ASSUME FileBegin(t) PROVE Inv'
  <2>1. PICK at : at = Foreseen(t[1])
    OBVIOUS
  <2>2. /\ at \in Settled \cup {"skip", "fetching"}
        /\ at = "skip" => row[t[1]] \in Settled
    BY <1>2, <2>1 DEF Foreseen, FileBegin, Settled
  <2>3. PICK run \in RunState : run = [at |-> at]
    BY <2>2 DEF RunState
  <2>4. /\ Frame' /\ UNCHANGED <<row, ledger, marker>>
        /\ runs' = [runs EXCEPT ![t] = run]
    BY <1>1, <1>2, <2>1, <2>3 DEF FileBegin, Begin, Frame
  <2>5. runs'[t] = run => RunOf(t)'
    BY <2>2, <2>3, <2>4 DEF RunOf, Settled
  <2>6. QED
    BY <1>1, <2>4, <2>5, OneRun
<1>3. ASSUME FileAnswer(t) PROVE Inv'
  <2>1. PICK verdict \in Settled : runs' = [runs EXCEPT ![t] = [at |-> verdict]]
    BY <1>3 DEF FileAnswer, Settled
  <2>2. PICK run \in RunState : run = [at |-> verdict]
    BY DEF RunState
  <2>3. Frame' /\ UNCHANGED <<row, ledger, marker>>
    BY <1>1, <1>3 DEF FileAnswer, Frame
  <2>4. runs'[t] = run => RunOf(t)'
    BY <2>2 DEF RunOf, Settled
  <2>5. QED
    BY <1>1, <2>1, <2>2, <2>3, <2>4, OneRun
<1>4. ASSUME FileCommit(t) PROVE Inv'
  <2>1. PICK req : req = Request({}, {})
    OBVIOUS
  <2>2. /\ Frame' /\ UNCHANGED marker /\ Queue!Serve(t, req)
        /\ runs' = [runs EXCEPT ![t] = Idle]
        /\ runs[t].at \in Settled \cup {"skip"}
        /\ row' = IF runs[t].at = "skip" THEN row ELSE [row EXCEPT ![t[1]] = runs[t].at]
    BY <1>1, <1>4, <2>1 DEF FileCommit, Serve, Frame
  <2>3. /\ ledger' \in [Ticket -> Status]
        /\ \A p \in Path : p # t[1] => ledger'[Fetch(p)] \in {ledger[Fetch(p)], "open"}
    <3>1. \A p \in Path : p # t[1] => Fetch(p) # t
      BY DEF Fetch
    <3>2. QED
      BY <1>1, <2>2, <3>1, Served
  <2>4. /\ row' \in RowType /\ row'[t[1]] \in Settled
        /\ \A p \in Path : p # t[1] => row'[p] = row[p]
    BY <1>1, <2>2 DEF RowType, RunOf, Settled
  <2>5. ASSUME NEW p \in Path
        PROVE  /\ row[p] \in Settled => row'[p] \in Settled
               /\ row'[p] = "pending" => ledger'[Fetch(p)] \in {"open", "dead"}
               /\ ledger'[Fetch(p)] = "done" => row'[p] \in Settled
    <3>1. CASE p = t[1]
      BY <2>4, <3>1 DEF Settled
    <3>2. CASE p # t[1]
      <4>1. ledger'[Fetch(p)] \in {ledger[Fetch(p)], "open"} /\ row'[p] = row[p]
        BY <2>3, <2>4, <3>2
      <4>2. QED
        BY <1>1, <4>1
    <3>3. QED
      BY <3>1, <3>2
  <2>6. /\ runs' \in [Ticket -> RunState]
        /\ \A u \in Ticket : runs'[u] = runs[u] \/ runs'[u] = Idle
    BY <1>1, <2>2, IdleRuns
  <2>7. \A u \in Ticket : runs'[u] = Idle => RunOf(u)'
    BY IdleRuns DEF RunOf
  <2>8. QED
    BY <2>2, <2>3, <2>4, <2>5, <2>6, <2>7, Keeps
<1>5. QED
  BY <1>2, <1>3, <1>4

LEMMA ShellInv ==
  ASSUME Inv
  PROVE  (ShellFetch => Inv') /\ (ShellCompare => Inv') /\ (ShellCommit => Inv')
<1>1. /\ Frame /\ runs \in [Ticket -> RunState] /\ ledger \in [Ticket -> Status]
      /\ site \in Themes
  BY Typed DEF Frame
<1>2. PICK t \in Ticket : t = ShellTicket
  BY Tickets DEF ShellTicket, Periodic
<1>3. runs[t] \in RunState /\ \A p \in Path : Fetch(p) # t
  BY <1>1, <1>2, FilesAssumption DEF ShellTicket, Fetch, Periodic
<1>4. ASSUME ShellFetch PROVE Inv'
  <2>1. PICK run \in RunState : run = [at |-> "homepage", roots |-> site]
    BY <1>1 DEF RunState
  <2>2. /\ Frame' /\ UNCHANGED <<row, ledger, marker>>
        /\ runs' = [runs EXCEPT ![t] = run]
    BY <1>1, <1>2, <1>4, <2>1 DEF ShellFetch, Begin, Frame
  <2>3. runs'[t] = run => RunOf(t)'
    BY <2>1 DEF RunOf, Settled
  <2>4. QED
    BY <2>2, <2>3, OneRun
<1>5. ASSUME ShellCompare PROVE Inv'
  <2>1. runs[t].at = "homepage"
    BY <1>2, <1>5 DEF ShellCompare
  <2>2. runs[t].roots \in Themes
    BY <1>3, <2>1 DEF RunState, Idle, Settled
  <2>3. PICK wants \in SUBSET Crawls :
          wants = IF NeedsCrawl(runs[t].roots) THEN {runs[t].roots} ELSE {}
    BY <2>2 DEF NeedsCrawl, Crawls
  <2>4. PICK run \in RunState : run = [at |-> "compared", wants |-> wants]
    BY DEF RunState
  <2>5. /\ Frame' /\ UNCHANGED <<row, ledger, marker>>
        /\ runs' = [runs EXCEPT ![t] = run]
    BY <1>1, <1>2, <1>5, <2>3, <2>4 DEF ShellCompare, Frame
  <2>6. runs'[t] = run => RunOf(t)'
    BY <2>4 DEF RunOf, Settled
  <2>7. QED
    BY <2>5, <2>6, OneRun
<1>6. ASSUME ShellCommit PROVE Inv'
  <2>1. PICK req : req = CrawlAgain(runs[t].wants)
    OBVIOUS
  <2>2. /\ Frame' /\ UNCHANGED <<row, marker>> /\ Queue!Serve(t, req)
        /\ runs' = [runs EXCEPT ![t] = Idle]
    BY <1>1, <1>2, <1>6, <2>1 DEF ShellCommit, Serve, Frame
  <2>3. /\ ledger' \in [Ticket -> Status]
        /\ \A p \in Path : ledger'[Fetch(p)] \in {ledger[Fetch(p)], "open"}
    BY <1>1, <1>3, <2>2, Served
  <2>4. QED
    BY <1>1, <2>2, <2>3, IdleRuns, JobsMove
<1>7. QED
  BY <1>4, <1>5, <1>6

(* A crawl ticket's roots are style sheets, and no file's fetch.           *)
LEMMA CrawlTickets ==
  ASSUME NEW t \in CrawlTicket
  PROVE  /\ t \in Ticket /\ t[1] \in Themes /\ t[1] \in SUBSET Path
         /\ \A p \in Path : Fetch(p) # t
<1>1. t \in Ticket /\ t[1] \in Crawls
  BY Tickets DEF CrawlTicket
<1>2. t[1] \in Themes /\ t[1] \in SUBSET Path
  BY <1>1, FilesAssumption DEF Crawls
<1>3. \A p \in Path : Fetch(p) # t
  BY <1>1, FilesAssumption DEF Fetch
<1>4. QED
  BY <1>1, <1>2, <1>3

LEMMA CrawlBeginInv ==
  ASSUME Inv, NEW t \in CrawlTicket, CrawlBegin(t)
  PROVE  Inv'
<1>1. PICK roots \in SUBSET Path : roots = t[1]
  BY CrawlTickets
<1>2. PICK run \in RunState :
        run = [at |-> "crawl", todo |-> roots, seen |-> roots,
               saved |-> {}, missing |-> {}, failed |-> {}]
  BY <1>1 DEF RunState
<1>3. /\ Frame' /\ UNCHANGED <<row, ledger, marker>>
      /\ runs' = [runs EXCEPT ![t] = run]
  BY <1>1, <1>2, Typed DEF CrawlBegin, Begin, Frame
<1>4. /\ run.at = "crawl" /\ run.todo = roots /\ run.seen = roots
      /\ run.saved = {} /\ run.missing = {} /\ run.failed = {}
  BY <1>2
<1>5. Crawled(run, roots)'
  BY <1>4 DEF Crawled
<1>6. runs'[t] = run => RunOf(t)'
  BY <1>1, <1>4, <1>5 DEF RunOf, Settled
<1>7. QED
  BY <1>2, <1>3, <1>6, CrawlTickets, OneRun

(* A visit: the file is new among the visited, and what it refers to, if   *)
(* it is a style sheet that was read, is seen.                             *)
LEMMA CrawlVisitInv ==
  ASSUME Inv, NEW t \in CrawlTicket, CrawlVisit(t)
  PROVE  Inv'
<1>1. PICK run \in RunState : run = runs[t]
  BY CrawlTickets, Typed
<1>2. PICK roots \in SUBSET Path : roots = t[1]
  BY CrawlTickets
<1>3. PICK u \in runs[t].todo, outcome \in {"kept", "fetched", "missing", "failed"} :
        LET refs == IF u \in Css /\ outcome \in {"kept", "fetched"}
                    THEN NewRefs(runs[t], u) ELSE {}
        IN  /\ outcome \in Outcomes(u)
            /\ runs' = [runs EXCEPT ![t] =
                 [at      |-> "crawl",
                  todo    |-> (runs[t].todo \ {u}) \cup refs,
                  seen    |-> runs[t].seen \cup refs,
                  saved   |-> runs[t].saved \cup (IF outcome = "fetched" THEN {u} ELSE {}),
                  missing |-> runs[t].missing \cup (IF outcome = "missing" THEN {u} ELSE {}),
                  failed  |-> runs[t].failed \cup Fruitless(u, outcome)]]
            /\ faults' = IF "fetched" \in Outcomes(u) /\ outcome # "fetched"
                         THEN faults + 1 ELSE faults
  BY DEF CrawlVisit
<1>4. /\ run.at = "crawl" /\ Crawled(run, roots) /\ u \in run.todo
      /\ UNCHANGED <<site, changes, row, marker, ledger, marks>>
  <2>1. run.at = "crawl" /\ UNCHANGED <<site, changes, row, marker, ledger, marks>>
    BY <1>1 DEF CrawlVisit
  <2>2. RunOf(t)
    BY CrawlTickets, Typed
  <2>3. QED
    BY <1>1, <1>2, <1>3, <2>1, <2>2 DEF RunOf
<1>5. /\ run.todo \in SUBSET Path /\ run.seen \in SUBSET Path /\ run.saved \in SUBSET Path
      /\ run.missing \in SUBSET Path /\ run.failed \in SUBSET Path
      /\ u \in Path
  BY <1>4, CrawlType
<1>6. /\ roots \cup run.todo \subseteq run.seen
      /\ run.saved \cup run.missing \cup run.failed \subseteq run.seen \ run.todo
      /\ run.saved \cap run.missing = {}
      /\ \A v \in run.seen \ run.todo : v \in run.failed \cup run.saved \/ row[v] \in Settled
      /\ \A v \in (run.seen \ run.todo) \cap Css : v \in run.failed \/ Refs[v] \subseteq run.seen
  BY <1>4 DEF Crawled
<1>7. PICK refs \in SUBSET Path :
        /\ refs = IF u \in Css /\ outcome \in {"kept", "fetched"} THEN NewRefs(run, u) ELSE {}
        /\ refs \cap run.seen = {}
        /\ u \in Css /\ outcome \in {"kept", "fetched"} => Refs[u] \subseteq run.seen \cup refs
  <2>1. u \in Css => Refs[u] \in SUBSET Path
    BY FilesAssumption
  <2>2. CASE u \in Css /\ outcome \in {"kept", "fetched"}
    <3>1. PICK refs \in SUBSET Path : refs = NewRefs(run, u)
      BY <2>1, <2>2 DEF NewRefs
    <3>2. refs \cap run.seen = {} /\ Refs[u] \subseteq run.seen \cup refs
      BY <3>1 DEF NewRefs
    <3>3. QED
      BY <2>2, <3>1, <3>2
  <2>3. CASE ~(u \in Css /\ outcome \in {"kept", "fetched"})
    <3>1. PICK refs \in SUBSET Path : refs = {}
      OBVIOUS
    <3>2. QED
      BY <2>3, <3>1
  <2>4. QED
    BY <2>2, <2>3
<1>8. PICK saved \in SUBSET Path :
        saved = run.saved \cup (IF outcome = "fetched" THEN {u} ELSE {})
  BY <1>5
<1>9. PICK missing \in SUBSET Path :
        missing = run.missing \cup (IF outcome = "missing" THEN {u} ELSE {})
  BY <1>5
<1>10. PICK failed \in SUBSET Path : failed = run.failed \cup Fruitless(u, outcome)
  BY <1>5 DEF Fruitless
<1>11. PICK seen \in SUBSET Path : seen = run.seen \cup refs
  BY <1>5
<1>12. PICK todo \in SUBSET Path : todo = (run.todo \ {u}) \cup refs
  BY <1>5
<1>13. PICK next \in RunState :
         next = [at |-> "crawl", todo |-> todo, seen |-> seen,
                 saved |-> saved, missing |-> missing, failed |-> failed]
  BY DEF RunState
<1>14. runs' = [runs EXCEPT ![t] = next]
  BY <1>1, <1>3, <1>7, <1>8, <1>9, <1>10, <1>11, <1>12, <1>13
<1>15. /\ seen \ todo = (run.seen \ run.todo) \cup {u}
       /\ u \notin run.saved \cup run.missing
  BY <1>4, <1>6, <1>7, <1>11, <1>12
<1>16. /\ outcome = "kept" => row[u] = "saved"
       /\ outcome \in {"missing", "failed"} => u \in failed
       /\ outcome = "fetched" => u \in saved
       /\ failed \subseteq run.failed \cup {u} /\ run.failed \subseteq failed
  BY <1>3, <1>8, <1>10 DEF Outcomes, Fruitless
<1>17. Crawled(next, roots)
  <2>1. roots \cup todo \subseteq seen
    BY <1>6, <1>11, <1>12
  <2>2. saved \cup missing \cup failed \subseteq seen \ todo
    BY <1>6, <1>8, <1>9, <1>15, <1>16
  <2>3. saved \cap missing = {}
    BY <1>6, <1>8, <1>9, <1>15
  <2>4. \A v \in seen \ todo : v \in failed \cup saved \/ row[v] \in Settled
    <3>1. u \in failed \cup saved \/ row[u] \in Settled
      BY <1>16 DEF Settled
    <3>2. QED
      BY <1>6, <1>8, <1>15, <1>16, <3>1
  <2>5. \A v \in (seen \ todo) \cap Css : v \in failed \/ Refs[v] \subseteq seen
    <3>1. u \in Css => u \in failed \/ Refs[u] \subseteq seen
      BY <1>7, <1>11, <1>16
    <3>2. QED
      BY <1>6, <1>11, <1>15, <1>16, <3>1
  <2>6. QED
    BY <1>13, <2>1, <2>2, <2>3, <2>4, <2>5 DEF Crawled
<1>18. Crawled(next, roots)'
  BY <1>4, <1>13, <1>17, CrawlStays
<1>19. Frame'
  <2>1. faults \in 0 .. MaxFaults /\ Frame /\ MaxFaults \in Nat
    BY Typed, FilesAssumption DEF Frame
  <2>2. "fetched" \in Outcomes(u) /\ outcome # "fetched" => faults < MaxFaults
    BY <1>3 DEF Outcomes
  <2>3. QED
    BY <1>3, <1>4, <2>1, <2>2 DEF Frame
<1>20. runs'[t] = next => RunOf(t)'
  BY <1>2, <1>13, <1>18 DEF RunOf, Settled
<1>21. QED
  BY <1>4, <1>13, <1>14, <1>19, <1>20, CrawlTickets, OneRun

(* The commit: everything seen was visited, so that without failures what  *)
(* was seen is settled and closed under references, and holds the theme.   *)
LEMMA CrawlCommitInv ==
  ASSUME Inv, NEW t \in CrawlTicket, CrawlCommit(t)
  PROVE  Inv'
<1>1. PICK run \in RunState : run = runs[t]
  BY CrawlTickets, Typed
<1>2. PICK roots \in SUBSET Path : roots = t[1]
  BY CrawlTickets
<1>3. PICK req : req = Request({}, {})
  OBVIOUS
<1>4. /\ run.at = "crawl" /\ run.todo = {}
      /\ row' = [p \in Path |-> IF p \in run.missing THEN "missing"
                                ELSE IF p \in run.saved THEN "saved" ELSE row[p]]
      /\ marker' = [roots |-> roots, failed |-> run.failed]
      /\ Queue!Serve(t, req) /\ runs' = [runs EXCEPT ![t] = Idle]
      /\ UNCHANGED <<site, changes, marks, faults>>
  BY <1>1, <1>2, <1>3 DEF CrawlCommit, Serve
<1>5. /\ run.seen \in SUBSET Path /\ run.failed \in SUBSET Path /\ Crawled(run, roots)
  <2>1. run.seen \in SUBSET Path /\ run.failed \in SUBSET Path
    BY <1>4, CrawlType
  <2>2. RunOf(t)
    BY CrawlTickets, Typed
  <2>3. QED
    BY <1>1, <1>2, <1>4, <2>1, <2>2 DEF RunOf
<1>6. /\ Frame /\ row \in RowType /\ ledger \in [Ticket -> Status]
      /\ runs \in [Ticket -> RunState]
      /\ \A p \in Path : row[p] = "pending" => ledger[Fetch(p)] \in {"open", "dead"}
      /\ \A p \in Path : ledger[Fetch(p)] = "done" => row[p] \in Settled
  BY Typed
<1>7. /\ row' \in RowType
      /\ \A p \in Path : row[p] \in Settled \/ p \in run.saved \cup run.missing => row'[p] \in Settled
      /\ \A p \in Path : row'[p] = "pending" => row[p] = "pending"
  BY <1>4, <1>6 DEF RowType, Settled
<1>8. /\ ledger' \in [Ticket -> Status]
      /\ \A p \in Path : ledger'[Fetch(p)] \in {ledger[Fetch(p)], "open"}
  BY <1>4, <1>6, CrawlTickets, Served
<1>9. marker' \in [roots : Themes \cup {{}}, failed : SUBSET Path]
  BY <1>2, <1>4, <1>5, CrawlTickets
<1>10. CleanMarkerIsComplete'
  <2>1. ASSUME run.failed = {}, NEW p \in FilesOf(roots)
        PROVE  row'[p] \in Settled
    <3>1. /\ roots \subseteq run.seen
          /\ \A u \in run.seen : u \in run.saved \/ row[u] \in Settled
          /\ \A u \in run.seen \cap Css : Refs[u] \subseteq run.seen
      BY <1>4, <1>5, <2>1 DEF Crawled
    <3>2. Step(run.seen) \subseteq run.seen
      BY <3>1 DEF Step
    <3>3. p \in run.seen /\ p \in Path
      BY <1>5, <2>1, <3>1, <3>2 DEF FilesOf
    <3>4. QED
      BY <1>7, <3>1, <3>3
  <2>2. marker'.roots = roots /\ marker'.failed = run.failed
    BY <1>4
  <2>3. FilesOf(roots)' = FilesOf(roots)
    BY DEF FilesOf, Step
  <2>4. QED
    BY <2>1, <2>2, <2>3 DEF CleanMarkerIsComplete, FilesOf
<1>11. /\ runs' \in [Ticket -> RunState]
       /\ \A u \in Ticket : runs'[u] = runs[u] \/ runs'[u] = Idle
  BY <1>4, <1>6, IdleRuns
<1>12. \A u \in Ticket : runs'[u] = Idle => RunOf(u)'
  BY IdleRuns DEF RunOf
<1>13. Frame'
  BY <1>4, <1>6 DEF Frame
<1>14. \A p \in Path : row'[p] = "pending" => ledger'[Fetch(p)] \in {"open", "dead"}
  BY <1>6, <1>7, <1>8
<1>15. \A p \in Path : ledger'[Fetch(p)] = "done" => row'[p] \in Settled
  BY <1>6, <1>7, <1>8
<1>16. QED
  BY <1>7, <1>8, <1>9, <1>10, <1>11, <1>12, <1>13, <1>14, <1>15, Keeps

-----------------------------------------------------------------------------
(* The theorems.                                                           *)

(* Every step of every actor preserves the invariant.                      *)
LEMMA StepInv == Inv /\ [Next]_vars => Inv'
<1> SUFFICES ASSUME Inv, [Next]_vars PROVE Inv'
  OBVIOUS
<1>1. CASE UNCHANGED vars
  <2>1. Frame /\ runs \in [Ticket -> RunState] /\ ledger \in [Ticket -> Status]
    BY Typed
  <2>2. Frame' /\ UNCHANGED <<row, marker, ledger, runs>>
    BY <1>1, <2>1 DEF vars, Frame
  <2>3. QED
    BY <2>1, <2>2, JobsMove, Tickets
<1>2. CASE \E theme \in Themes : Restyle(theme)
  BY <1>2, UpstreamInv
<1>3. CASE \E paths \in SUBSET Mentioned : Reference(paths)
  BY <1>3, RequestsInv
<1>4. ASSUME NEW t \in FileTicket, FileBegin(t) \/ FileGoesOn(t)
      PROVE  Inv'
  BY <1>4, FileFetchInv, RunEndsInv, Tickets DEF FileGoesOn
<1>5. ASSUME NEW t \in CrawlTicket, CrawlBegin(t) \/ CrawlGoesOn(t)
      PROVE  Inv'
  BY <1>5, CrawlBeginInv, CrawlVisitInv, CrawlCommitInv DEF CrawlGoesOn
<1>6. CASE ShellFetch \/ ShellGoesOn
  BY <1>6, ShellInv DEF ShellGoesOn
<1>7. CASE \E t \in Ticket : RunLost(t) \/ RunDropped(t)
  BY <1>7, RunEndsInv
<1>8. CASE Backfill \/ Crash
  BY <1>8, RequestsInv, UpstreamInv
<1>9. CASE \E whole, bare \in SUBSET Mentioned : ImportLegacy(whole, bare)
  BY <1>9, RequestsInv
<1>10. CASE \E h \in Host : ConnectFails(h) \/ MarkExpires(h)
  BY <1>10, UpstreamInv
<1>11. QED
  BY <1>1, <1>2, <1>3, <1>4, <1>5, <1>6, <1>7, <1>8, <1>9, <1>10 DEF Next

(* The inductive invariant holds in every behaviour.                       *)
THEOREM Invariance == Spec => []Inv
BY InitInv, StepInv, PTL DEF Spec

(* The tables, the runs and the marks have the shapes the code gives them. *)
THEOREM TypeCorrect == Spec => []TypeOK
<1>1. Inv => TypeOK
  BY DEF Inv
<1>2. QED
  BY <1>1, Invariance, PTL

(* Whatever an older version left and whichever jobs write the files table *)
(* meanwhile, a pending row has a fetch that is open, or dead and within   *)
(* reach of the sweep (importer.rs "without one they would sit pending     *)
(* forever").                                                              *)
THEOREM PendingRowsHaveAJob == Spec => []PendingHasJob
<1>1. Inv => PendingHasJob
  BY DEF Inv
<1>2. QED
  BY <1>1, Invariance, PTL

(* A crawl marker without failures vouches for every file the theme        *)
(* consists of, for every import graph, cyclic ones too (workers.rs "a     *)
(* silent drop would write a clean crawl marker").                         *)
THEOREM CleanMarkersAreComplete == Spec => []CleanMarkerIsComplete
<1>1. Inv => CleanMarkerIsComplete
  BY DEF Inv
<1>2. QED
  BY <1>1, Invariance, PTL

=============================================================================
