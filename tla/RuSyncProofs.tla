---------------------------- MODULE RuSyncProofs ----------------------------
(* Theorems about RuSync, for every set of pages and slugs, every length   *)
(* of the logs, every time, number of runs, signals and faults.            *)
EXTENDS RuSync, SequenceTheorems, WellFoundedInduction, TLAPS

-----------------------------------------------------------------------------
(* The inductive invariant.                                                *)

Status == {"absent", "open", "done", "dead"}
Fetch(r) == <<r, 1>>
Edited(p) == <<p, "edited">> \in astray

(* The wiki: a page begins with a source, and nothing is in the future.    *)
LogEntry == [source : BOOLEAN, at : Time]
WikiIsSound ==
  /\ wiki \in [Pages -> [slug : Name, log : Seq(LogEntry)]]
  /\ \A p \in Pages : Len(wiki[p].log) # 0 => wiki[p].log[1].source
  /\ \A p \in Pages : wiki[p].slug # NoSlug => Len(wiki[p].log) # 0
  /\ \A p \in Pages : \A n \in DOMAIN wiki[p].log : wiki[p].log[n].at <= now

(* What the database and the jobs say of time lies in the past.            *)
Dated ==
  /\ \A p \in Pages : row[p].updated <= now
  /\ \A t \in SignalTicket : ledger[t] # "absent" => t[1][2] <= now

(* Revision rows have a page row and, of a page that never misled a run, a *)
(* snapshot; texts and jobs have revision rows.                            *)
RowsAreSound ==
  /\ \A r \in known :
       /\ row[r[1]].slug # NoSlug
       /\ Moved(r[1]) \/ r[2] \in Snapshots(wiki[r[1]].log)
  /\ \A r \in Rev : text[r] # NoText \/ ledger[Fetch(r)] # "absent" => r \in known

(* What a sync has read, of a page that never misled it.  What was logged  *)
(* since is newer than all it read, and than its signal.  What is below    *)
(* max_rev is known.  The source is the newest entry's, unless the page    *)
(* was edited before the log was read.                                     *)
LogRead(run, updated) ==
  LET p == run.page
  IN  /\ run.entries \subseteq Snapshots(wiki[p].log)
      /\ \A n \in Snapshots(wiki[p].log) \ run.entries :
           updated <= wiki[p].log[n].at /\ \A m \in run.entries : m < n
      /\ ~Edited(p) => \E m \in run.entries :
           run.source = <<p, m>> /\ \A k \in run.entries : k <= m
RevsRead(run, updated) ==
  LET p == run.page
  IN  /\ run.revs \subseteq Snapshots(wiki[p].log)
      /\ \A n \in Snapshots(wiki[p].log) \ run.revs :
           \/ <<p, n>> \in known
           \/ updated <= wiki[p].log[n].at /\ \A m \in run.revs : m < n
      /\ ~Edited(p) => \A m \in Heads(run.revs) : run.source = <<p, m>>

RunOf(t) ==
  /\ runs[t].at = "listed" => \A e \in runs[t].list : e[2] <= now
  /\ runs[t].at = "compared" => \A e \in runs[t].stale : e[2] <= now
  /\ runs[t].at \in {"article", "log", "read"} => t \in SignalTicket /\ t[1][2] <= now
  /\ runs[t].at = "log" => Moved(runs[t].page) \/ LogRead(runs[t], t[1][2])
  /\ runs[t].at = "read" => Moved(runs[t].page) \/ RevsRead(runs[t], t[1][2])
  /\ runs[t].at \in {"skip", "fetching"} => t \in RevTicket /\ t[1] \in known
  /\ runs[t].at = "skip" => Settled(t[1])
Runs == \A t \in Ticket : RunOf(t)

Inv ==
  /\ TypeOK /\ WikiIsSound /\ Dated /\ RowsAreSound /\ Runs
  /\ NoGap /\ WatermarkHonest /\ NothingStranded /\ ArchiveIsTrue

-----------------------------------------------------------------------------
(* Tickets and the ledger.                                                 *)

(* The tickets are those of the ledger.                                    *)
LEMMA Tickets ==
  /\ Ticket = ((Periodic \cup Rev) \X {1}) \cup SignalTicket
  /\ \A r \in Rev : Fetch(r) \in RevTicket /\ Fetch(r)[1] = r /\ r \notin Signal /\ r \notin Periodic
  /\ \A t \in Ticket : t[1] \in Rev => t = Fetch(t[1])
  /\ \A t \in Ticket : t \in SignalTicket <=> t[1] \in Signal
  /\ \A t \in Ticket : t \in RevTicket <=> t[1] \in Rev
  /\ RevTicket \subseteq Ticket /\ SignalTicket \subseteq Ticket
  /\ \A i \in Periodic : <<i, 1>> \in Ticket /\ i \notin Rev /\ i \notin Signal
<1>1. Ticket = ((Periodic \cup Rev) \X {1}) \cup SignalTicket
  BY DEF Ticket, Queue!Ticket, SignalTicket
<1>2. \A r \in Rev : r \notin Signal /\ r \notin Periodic
  BY RuAssumption
<1>3. \A i \in Periodic : i \notin Rev /\ i \notin Signal
  BY RuAssumption
<1>4. QED
  BY <1>1, <1>2, <1>3 DEF Fetch, RevTicket, SignalTicket

(* Recording a request opens only what it wants, and of the revisions it   *)
(* wants those that have no job, or one it re-arms.                        *)
LEMMA Recorded ==
  ASSUME NEW l \in [Ticket -> Status], NEW req
  PROVE  /\ Queue!Recorded(l, req) \in [Ticket -> Status]
         /\ \A t \in Ticket : Queue!Recorded(l, req)[t] \in {l[t], "open"}
         /\ \A t \in Ticket : t[1] \notin req.wants => Queue!Recorded(l, req)[t] = l[t]
         /\ \A r \in req.wants \cap req.rearms \cap Rev : Queue!Recorded(l, req)[Fetch(r)] = "open"
<1>1. \A t \in Ticket : Queue!Recorded(l, req)[t] =
        IF Queue!Opens(l, req, t) THEN "open" ELSE l[t]
  BY DEF Queue!Recorded, Ticket
<1>2. \A t \in Ticket : t[1] \notin req.wants => ~Queue!Opens(l, req, t)
  BY DEF Queue!Opens
<1>3. ASSUME NEW r \in req.wants \cap req.rearms \cap Rev
      PROVE  /\ l[Fetch(r)] \in {"absent", "done", "dead"} => Queue!Opens(l, req, Fetch(r))
             /\ Fetch(r) \in Ticket /\ l[Fetch(r)] \in Status
  BY <1>3, Tickets DEF Queue!Opens
<1>4. Queue!Recorded(l, req) \in [Ticket -> Status]
  BY DEF Queue!Recorded, Ticket, Status
<1>5. ASSUME NEW r \in req.wants \cap req.rearms \cap Rev
      PROVE  Queue!Recorded(l, req)[Fetch(r)] = "open"
  BY <1>1, <1>3 DEF Status
<1>6. QED
  BY <1>1, <1>2, <1>4, <1>5

(* A served ticket is settled, and others are only opened, if wanted.      *)
LEMMA Served ==
  ASSUME ledger \in [Ticket -> Status], NEW t \in Ticket, NEW req, Queue!Serve(t, req)
  PROVE  /\ ledger[t] = "open" /\ ledger' \in [Ticket -> Status]
         /\ \A u \in Ticket \ {t} :
              /\ ledger'[u] \in {ledger[u], "open"}
              /\ u[1] \notin req.wants => ledger'[u] = ledger[u]
         /\ \A r \in req.wants \cap req.rearms \cap Rev : ledger'[Fetch(r)] = "open"
<1> DEFINE l == [ledger EXCEPT ![t] = Queue!Settled(t)]
<1>1. Queue!Settled(t) \in Status
  BY DEF Queue!Settled, Status
<1>2. l \in [Ticket -> Status] /\ \A u \in Ticket \ {t} : l[u] = ledger[u]
  BY <1>1
<1>3. ledger' = Queue!Recorded(l, req) /\ ledger[t] = "open"
  BY DEF Queue!Serve
<1> HIDE DEF l
<1>4. QED
  BY <1>2, <1>3, Recorded

-----------------------------------------------------------------------------
(* Logs and maxima.                                                        *)

(* A set of natural numbers below a bound has its maximum.                 *)
LEMMA MaxOf ==
  ASSUME NEW n \in Nat, NEW S \in SUBSET (0 .. n), S # {}
  PROVE  Max(S) \in S /\ \A k \in S : k <= Max(S)
<1> DEFINE less == {ss \in Nat \X Nat : ss[1] < ss[2]}
           T == {x \in 0 .. n : n - x \in S}
<1>1. IsWellFoundedOn(less, Nat)
  BY NatLessThanWellFounded DEF OpToRel
<1>2. PICK s \in S : TRUE
  OBVIOUS
<1>3. n - s \in T /\ T \subseteq Nat
  BY <1>2
<1>4. PICK x \in T : \A y \in T : <<y, x>> \notin less
  BY <1>1, <1>3, WFMin
<1>5. n - x \in S /\ x \in 0 .. n
  BY <1>4
<1>6. ASSUME NEW k \in S
      PROVE  n - x >= k
  <2>1. n - k \in T
    BY <1>6
  <2>2. <<n - k, x>> \notin less
    BY <1>4, <2>1
  <2>3. ~(n - k < x)
    BY <1>5, <2>1, <2>2
  <2>4. QED
    BY <1>5, <2>3
<1>7. Max(S) \in S /\ \A k \in S : Max(S) >= k
  BY <1>5, <1>6 DEF Max
<1>8. QED
  BY <1>7

(* The log of a page.                                                      *)
LEMMA LogFacts ==
  ASSUME TypeOK, WikiIsSound, NEW p \in Pages
  PROVE  /\ wiki[p].log \in Seq(LogEntry) /\ wiki[p].slug \in Name
         /\ Len(wiki[p].log) \in 0 .. MaxLog
         /\ DOMAIN wiki[p].log = 1 .. Len(wiki[p].log)
         /\ \A n \in DOMAIN wiki[p].log : wiki[p].log[n] \in LogEntry
         /\ Snapshots(wiki[p].log) \subseteq 1 .. Len(wiki[p].log)
         /\ Snapshots(wiki[p].log) \in SUBSET (1 .. MaxLog)
<1>1. wiki[p].log \in Seq(LogEntry) /\ wiki[p].slug \in Name
  BY DEF WikiIsSound
<1>2. Len(wiki[p].log) \in 0 .. MaxLog /\ DOMAIN wiki[p].log = 1 .. Len(wiki[p].log)
  BY <1>1, RuAssumption DEF TypeOK
<1>3. Snapshots(wiki[p].log) \subseteq 1 .. Len(wiki[p].log)
  BY <1>2 DEF Snapshots
<1>4. MaxLog \in Nat
  BY RuAssumption
<1>5. \A n \in DOMAIN wiki[p].log : wiki[p].log[n] \in LogEntry
  BY <1>1, <1>2
<1>6. QED
  BY <1>1, <1>2, <1>3, <1>4, <1>5

(* The newest source of a page that has a log.                             *)
LEMMA NewestFacts ==
  ASSUME TypeOK, WikiIsSound, NEW p \in Pages, Len(wiki[p].log) # 0
  PROVE  \E m \in Snapshots(wiki[p].log) :
           /\ Newest(p) = <<p, m>> /\ <<p, m>> \in Rev
           /\ \A k \in Snapshots(wiki[p].log) : k <= m
<1>1. PICK S : S = {n \in DOMAIN wiki[p].log : wiki[p].log[n].source}
  OBVIOUS
<1>2. S = Snapshots(wiki[p].log)
  BY <1>1 DEF Snapshots
<1>3. S \in SUBSET (0 .. MaxLog) /\ S \subseteq 1 .. MaxLog /\ MaxLog \in Nat
  <2>1. S \in SUBSET (1 .. MaxLog) /\ MaxLog \in Nat
    BY <1>2, LogFacts, RuAssumption
  <2>2. QED
    BY <2>1
<1>4. 1 \in S
  BY <1>1, LogFacts DEF WikiIsSound
<1>5. Max(S) \in S /\ \A k \in S : k <= Max(S)
  BY <1>3, <1>4, MaxOf
<1>6. Newest(p) = <<p, Max(S)>>
  BY <1>1 DEF Newest
<1>7. <<p, Max(S)>> \in Rev
  BY <1>3, <1>5 DEF Rev
<1>8. QED
  BY <1>2, <1>5, <1>6, <1>7

(* max_rev.                                                                *)
LEMMA MaxKnownFacts ==
  ASSUME TypeOK, NEW p \in Pages
  PROVE  /\ MaxKnown(p) \in 0 .. MaxLog
         /\ MaxKnown(p) = 0 \/ <<p, MaxKnown(p)>> \in known
         /\ \A n : <<p, n>> \in known => n <= MaxKnown(p)
<1>1. PICK S : S = {0} \cup {r[2] : r \in {x \in known : x[1] = p}}
  OBVIOUS
<1>2. known \subseteq Pages \X (1 .. MaxLog) /\ MaxLog \in Nat
  BY RuAssumption DEF TypeOK, Rev
<1>3. /\ S \in SUBSET (0 .. MaxLog) /\ 0 \in S
      /\ \A n \in S : n = 0 \/ <<p, n>> \in known
      /\ \A n : <<p, n>> \in known => n \in S
  BY <1>1, <1>2
<1>4. Max(S) \in S /\ \A k \in S : k <= Max(S)
  BY <1>2, <1>3, MaxOf
<1>5. MaxKnown(p) = Max(S)
  BY <1>1 DEF MaxKnown
<1>6. QED
  BY <1>3, <1>4, <1>5

-----------------------------------------------------------------------------
(* Runs in flight while the others go on.                                  *)

(* A log is added to, at the end and not in the past.                      *)
Extends(log, new) ==
  /\ DOMAIN log \subseteq DOMAIN new
  /\ \A n \in DOMAIN log : new[n] = log[n]
  /\ \A n \in DOMAIN new \ DOMAIN log : now <= new[n].at /\ \A m \in DOMAIN log : m < n

(* What a sync that read the log holds, and one that read max_rev.         *)
LEMMA SyncType ==
  ASSUME NEW run \in RunState
  PROVE  /\ run.at = "log" => /\ run.page \in Pages /\ run.source \in Rev
                              /\ run.entries \subseteq 1 .. MaxLog
         /\ run.at = "read" => /\ run.page \in Pages /\ run.source \in Rev
                               /\ run.revs \subseteq 1 .. MaxLog
         /\ run.at = "article" => run.page \in Pages /\ run.source \in Rev
         /\ run.at = "listed" => run.list \subseteq Signal
         /\ run.at = "compared" => run.stale \subseteq Signal
BY DEF RunState, Idle

LEMMA SnapshotsExtend ==
  ASSUME NEW log, NEW new, Extends(log, new)
  PROVE  /\ Snapshots(log) \subseteq Snapshots(new)
         /\ \A n \in Snapshots(new) \ Snapshots(log) :
              now <= new[n].at /\ \A m \in DOMAIN log : m < n
BY DEF Extends, Snapshots

(* What a run has read stays good while logs grow, rows are added and      *)
(* revisions are settled.                                                  *)
LEMMA RunGoesOn ==
  ASSUME Inv, NEW t \in Ticket, runs'[t] = runs[t],
         \A p \in Pages : Extends(wiki[p].log, wiki'[p].log),
         \A p \in Pages : wiki'[p].log \in Seq(LogEntry),
         now' \in Time, now <= now', known \subseteq known', astray \subseteq astray',
         \A r \in Rev : Settled(r) => Settled(r)'
  PROVE  RunOf(t)'
<1>1. /\ RunOf(t) /\ runs[t] \in RunState /\ now \in Time /\ TypeOK /\ WikiIsSound
      /\ Time \subseteq Int
  BY RuAssumption DEF Inv, Runs, TypeOK, Time
<1>2. PICK run \in RunState : run = runs[t]
  BY <1>1
<1>3. PICK payload : payload = t[1]
  OBVIOUS
<1>4. t \in SignalTicket => payload[2] \in Int
  BY <1>1, <1>3 DEF SignalTicket, Signal
<1>5. Signal \subseteq Slugs \X Int
  BY <1>1 DEF Signal
<1>6. /\ run.at = "listed" => \A e \in run.list : e[2] <= now'
      /\ run.at = "compared" => \A e \in run.stale : e[2] <= now'
      /\ run.at \in {"article", "log", "read"} => t \in SignalTicket /\ payload[2] <= now'
  BY <1>1, <1>2, <1>3, <1>4, <1>5, SyncType DEF RunOf
<1>7. /\ run.at \in {"skip", "fetching"} => t \in RevTicket /\ payload \in known'
      /\ run.at = "skip" => Settled(payload)'
  BY <1>1, <1>2, <1>3, Tickets DEF RunOf
<1>8. ASSUME run.at = "log", <<run.page, "moved">> \notin astray'
      PROVE  LogRead(run, payload[2])'
  <2>1. /\ run.page \in Pages /\ run.entries \subseteq 1 .. MaxLog
        /\ payload[2] \in Int /\ payload[2] <= now
    BY <1>1, <1>2, <1>3, <1>4, <1>8, SyncType DEF RunOf
  <2>2. LogRead(run, payload[2])
    BY <1>1, <1>2, <1>3, <1>8 DEF RunOf, Moved
  <2>3. PICK p \in Pages : p = run.page
    BY <2>1
  <2>4. PICK log \in Seq(LogEntry) : log = wiki[p].log
    BY <1>1, LogFacts
  <2>5. PICK new \in Seq(LogEntry) : new = wiki'[p].log
    OBVIOUS
  <2>6. /\ Snapshots(log) \subseteq Snapshots(new)
        /\ \A n \in Snapshots(new) \ Snapshots(log) :
             now <= new[n].at /\ \A m \in DOMAIN log : m < n
        /\ \A n \in Snapshots(log) : new[n] = log[n]
    BY <2>4, <2>5, SnapshotsExtend DEF Extends, Snapshots
  <2>7. /\ run.entries \subseteq Snapshots(log)
        /\ \A n \in Snapshots(log) \ run.entries :
             payload[2] <= log[n].at /\ \A m \in run.entries : m < n
        /\ ~Edited(p) => \E m \in run.entries :
             run.source = <<p, m>> /\ \A k \in run.entries : k <= m
    BY <2>2, <2>3, <2>4 DEF LogRead
  <2>8. Snapshots(log) \subseteq DOMAIN log
    BY DEF Snapshots
  <2>9. \A n \in Snapshots(new) : new[n].at \in Int
    <3>1. \A n \in DOMAIN new : new[n] \in LogEntry
      OBVIOUS
    <3>2. \A e \in LogEntry : e.at \in Int
      BY <1>1 DEF LogEntry
    <3>3. QED
      BY <3>1, <3>2 DEF Snapshots
  <2>10. ASSUME NEW n \in Snapshots(new) \ run.entries
         PROVE  payload[2] <= new[n].at /\ \A m \in run.entries : m < n
    <3>1. CASE n \in Snapshots(log)
      BY <2>6, <2>7, <3>1
    <3>2. CASE n \notin Snapshots(log)
      <4>1. n \in Snapshots(new) \ Snapshots(log)
        BY <3>2
      <4>2. now <= new[n].at /\ \A m \in DOMAIN log : m < n
        BY <2>6, <4>1
      <4>3. new[n].at \in Int /\ now \in Int
        BY <1>1, <2>9, <4>1
      <4>4. payload[2] <= new[n].at
        BY <2>1, <4>2, <4>3
      <4>5. run.entries \subseteq DOMAIN log
        BY <2>7, <2>8
      <4>6. \A m \in run.entries : m < n
        BY <4>2, <4>5
      <4>7. QED
        BY <4>4, <4>6
    <3>3. QED
      BY <3>1, <3>2
  <2>11. Edited(p) => Edited(p)'
    BY DEF Edited
  <2>12. QED
    BY <2>3, <2>5, <2>6, <2>7, <2>10, <2>11 DEF LogRead
<1>9. ASSUME run.at = "read", <<run.page, "moved">> \notin astray'
      PROVE  RevsRead(run, payload[2])'
  <2>1. /\ run.page \in Pages /\ run.revs \subseteq 1 .. MaxLog
        /\ payload[2] \in Int /\ payload[2] <= now
    BY <1>1, <1>2, <1>3, <1>4, <1>9, SyncType DEF RunOf
  <2>2. RevsRead(run, payload[2])
    BY <1>1, <1>2, <1>3, <1>9 DEF RunOf, Moved
  <2>3. PICK p \in Pages : p = run.page
    BY <2>1
  <2>4. PICK log \in Seq(LogEntry) : log = wiki[p].log
    BY <1>1, LogFacts
  <2>5. PICK new \in Seq(LogEntry) : new = wiki'[p].log
    OBVIOUS
  <2>6. /\ Snapshots(log) \subseteq Snapshots(new)
        /\ \A n \in Snapshots(new) \ Snapshots(log) :
             now <= new[n].at /\ \A m \in DOMAIN log : m < n
        /\ \A n \in Snapshots(log) : new[n] = log[n]
    BY <2>4, <2>5, SnapshotsExtend DEF Extends, Snapshots
  <2>7. /\ run.revs \subseteq Snapshots(log)
        /\ \A n \in Snapshots(log) \ run.revs :
             \/ <<p, n>> \in known
             \/ payload[2] <= log[n].at /\ \A m \in run.revs : m < n
        /\ ~Edited(p) => \A m \in Heads(run.revs) : run.source = <<p, m>>
    BY <2>2, <2>3, <2>4 DEF RevsRead
  <2>8. Snapshots(log) \subseteq DOMAIN log
    BY DEF Snapshots
  <2>9. \A n \in Snapshots(new) : new[n].at \in Int
    <3>1. \A n \in DOMAIN new : new[n] \in LogEntry
      OBVIOUS
    <3>2. \A e \in LogEntry : e.at \in Int
      BY <1>1 DEF LogEntry
    <3>3. QED
      BY <3>1, <3>2 DEF Snapshots
  <2>10. ASSUME NEW n \in Snapshots(new) \ run.revs
         PROVE  \/ <<p, n>> \in known'
                \/ payload[2] <= new[n].at /\ \A m \in run.revs : m < n
    <3>1. CASE n \in Snapshots(log)
      BY <2>6, <2>7, <3>1
    <3>2. CASE n \notin Snapshots(log)
      <4>1. n \in Snapshots(new) \ Snapshots(log)
        BY <3>2
      <4>2. now <= new[n].at /\ \A m \in DOMAIN log : m < n
        BY <2>6, <4>1
      <4>3. new[n].at \in Int /\ now \in Int
        BY <1>1, <2>9, <4>1
      <4>4. payload[2] <= new[n].at
        BY <2>1, <4>2, <4>3
      <4>5. run.revs \subseteq DOMAIN log
        BY <2>7, <2>8
      <4>6. \A m \in run.revs : m < n
        BY <4>2, <4>5
      <4>7. QED
        BY <4>4, <4>6
    <3>3. QED
      BY <3>1, <3>2
  <2>11. Edited(p) => Edited(p)'
    BY DEF Edited
  <2>12. QED
    BY <2>3, <2>5, <2>6, <2>7, <2>10, <2>11 DEF RevsRead
<1>10. QED
  BY <1>2, <1>3, <1>6, <1>7, <1>8, <1>9 DEF RunOf, Moved

-----------------------------------------------------------------------------
(* The wiki's steps.                                                       *)

LEMMA WikiMoves ==
  ASSUME Inv, UNCHANGED <<database, ledger, runs, faults, astray>>,
         WikiIsSound', \A p \in Pages : Len(wiki'[p].log) <= MaxLog,
         \A p \in Pages : Extends(wiki[p].log, wiki'[p].log),
         \A p \in Pages : wiki[p].slug = NoSlug /\ Len(wiki[p].log) # 0 => wiki'[p].slug = NoSlug,
         pruned \subseteq pruned', pruned' \subseteq Rev,
         now' \in Time, now <= now', changes' \in 0 .. MaxChanges
  PROVE  Inv'
<1>1. /\ TypeOK /\ WikiIsSound /\ Dated /\ RowsAreSound /\ Runs
      /\ NoGap /\ WatermarkHonest /\ NothingStranded /\ ArchiveIsTrue
      /\ Time \subseteq Int /\ now \in Time
  BY RuAssumption DEF Inv, TypeOK, Time
<1>2. UNCHANGED <<row, known, text, denied, ledger, runs, faults, astray>>
  BY DEF database
<1>3. \A p \in Pages : wiki'[p].slug \in Name /\ wiki'[p].log \in Seq(LogEntry)
  BY DEF WikiIsSound
<1>4. TypeOK'
  BY <1>1, <1>2, <1>3 DEF TypeOK
<1>5. Dated'
  <2>1. /\ row \in [Pages -> [slug : Name, updated : Time]]
        /\ \A t \in SignalTicket : t[1][2] \in Time
    BY <1>1 DEF TypeOK, SignalTicket, Signal
  <2>2. ASSUME NEW p \in Pages
        PROVE  row'[p].updated <= now'
    <3>1. row[p].updated \in Int /\ row[p].updated <= now /\ now \in Int /\ now' \in Int
      BY <1>1, <2>1 DEF Dated
    <3>2. QED
      BY <1>2, <3>1
  <2>3. ASSUME NEW t \in SignalTicket, ledger'[t] # "absent"
        PROVE  t[1][2] <= now'
    <3>1. t[1][2] \in Int /\ t[1][2] <= now /\ now \in Int /\ now' \in Int
      BY <1>1, <1>2, <2>1, <2>3 DEF Dated
    <3>2. QED
      BY <3>1
  <2>4. QED
    BY <2>2, <2>3 DEF Dated
<1>6. ASSUME NEW p \in Pages
      PROVE  /\ Snapshots(wiki[p].log) \subseteq Snapshots(wiki'[p].log)
             /\ \A n \in Snapshots(wiki[p].log) : wiki'[p].log[n] = wiki[p].log[n]
             /\ \A n \in Snapshots(wiki'[p].log) \ Snapshots(wiki[p].log) :
                  /\ now <= wiki'[p].log[n].at /\ wiki'[p].log[n].at \in Int
                  /\ \A m \in Snapshots(wiki[p].log) : m < n
  <2>1. PICK log \in Seq(LogEntry) : log = wiki[p].log
    BY <1>1, LogFacts
  <2>2. PICK new \in Seq(LogEntry) : new = wiki'[p].log
    BY <1>3
  <2>3. Extends(log, new)
    BY <2>1, <2>2
  <2>4. \A n \in DOMAIN new : new[n].at \in Int
    <3>1. \A n \in DOMAIN new : new[n] \in LogEntry
      OBVIOUS
    <3>2. QED
      BY <1>1, <3>1 DEF LogEntry
  <2>5. QED
    BY <2>1, <2>2, <2>3, <2>4, SnapshotsExtend DEF Extends, Snapshots
<1>7. \A r \in known : r[1] \in Pages /\ r = <<r[1], r[2]>>
  BY <1>1 DEF TypeOK, Rev
<1>8. RowsAreSound'
  BY <1>1, <1>2, <1>6, <1>7 DEF RowsAreSound, Moved
<1>9. Runs'
  <2>1. \A r \in Rev : Settled(r) => Settled(r)'
    BY <1>2 DEF Settled
  <2>2. QED
    BY <1>2, <1>3, <2>1, RunGoesOn DEF Runs
<1>10. NoGap'
  <2> SUFFICES ASSUME NEW r \in known, ~Moved(r[1]),
                      NEW n \in Snapshots(wiki'[r[1]].log), n < r[2]
               PROVE  <<r[1], n>> \in known
    BY <1>2 DEF NoGap, Moved
  <2>1. r[2] \in Snapshots(wiki[r[1]].log)
    BY <1>1 DEF RowsAreSound
  <2>2. r[2] \in Int /\ n \in Int
    <3>1. wiki'[r[1]].log \in Seq(LogEntry)
      BY <1>3, <1>7
    <3>2. QED
      BY <1>1, <3>1 DEF TypeOK, Rev, Snapshots
  <2>3. n \in Snapshots(wiki[r[1]].log)
    <3>1. PICK p \in Pages : p = r[1]
      BY <1>7
    <3>2. \A i \in Snapshots(wiki'[p].log) \ Snapshots(wiki[p].log) :
            \A m \in Snapshots(wiki[p].log) : m < i
      BY <1>6
    <3>3. ~(r[2] < n)
      BY <2>2
    <3>4. QED
      BY <2>1, <3>1, <3>2, <3>3
  <2>4. QED
    BY <1>1, <2>3 DEF NoGap
<1>11. WatermarkHonest'
  <2> SUFFICES ASSUME NEW p \in Pages, ~Moved(p),
                      NEW n \in Snapshots(wiki'[p].log), wiki'[p].log[n].at < row[p].updated
               PROVE  <<p, n>> \in known
    BY <1>2 DEF WatermarkHonest, Moved
  <2>1. row[p].updated <= now /\ row[p].updated \in Int /\ now \in Int
    BY <1>1 DEF Dated, TypeOK
  <2>2. n \in Snapshots(wiki[p].log)
    BY <1>6, <2>1
  <2>3. QED
    BY <1>1, <1>6, <2>2 DEF WatermarkHonest
<1>12. NothingStranded'
  BY <1>1, <1>2 DEF NothingStranded, Settled
<1>13. ArchiveIsTrue'
  <2>1. ASSUME NEW r \in known, r \in denied, ~Moved(r[1])
        PROVE  r \in pruned' \/ wiki'[r[1]].slug = NoSlug
    <3>1. r[2] \in Snapshots(wiki[r[1]].log)
      BY <1>1, <2>1 DEF RowsAreSound
    <3>2. Len(wiki[r[1]].log) # 0
      <4>1. PICK p \in Pages : p = r[1]
        BY <1>7
      <4>2. Snapshots(wiki[p].log) \subseteq 1 .. Len(wiki[p].log)
        BY <1>1, LogFacts
      <4>3. r[2] \in 1 .. Len(wiki[p].log)
        BY <3>1, <4>1, <4>2
      <4>4. QED
        BY <4>1, <4>3
    <3>3. r \in pruned \/ wiki[r[1]].slug = NoSlug
      BY <1>1, <2>1 DEF ArchiveIsTrue
    <3>4. QED
      BY <1>7, <3>2, <3>3
  <2>2. QED
    BY <1>1, <1>2, <2>1 DEF ArchiveIsTrue, Moved
<1>14. QED
  BY <1>4, <1>5, <1>8, <1>9, <1>10, <1>11, <1>12, <1>13 DEF Inv

(* A page's log grows by one entry, under the same name or another.        *)
LEMMA LogStep ==
  ASSUME TypeOK, WikiIsSound,
         NEW p \in Pages, NEW slug \in Slugs, NEW archives \in BOOLEAN,
         Log(p, slug, archives)
  PROVE  \E new \in Seq(LogEntry), entry \in LogEntry :
           /\ entry.source = archives /\ entry.at = now
           /\ Len(wiki[p].log) < MaxLog /\ Len(new) = Len(wiki[p].log) + 1
           /\ \A n \in 1 .. Len(wiki[p].log) : new[n] = wiki[p].log[n]
           /\ new[Len(new)] = entry
           /\ Extends(wiki[p].log, new)
           /\ wiki' \in [Pages -> [slug : Name, log : Seq(LogEntry)]]
           /\ wiki'[p].slug = slug /\ wiki'[p].log = new
           /\ \A q \in Pages \ {p} : wiki'[q] = wiki[q]
           /\ changes' \in 0 .. MaxChanges
           /\ UNCHANGED <<pruned, now, database, ledger, runs, faults, astray>>
<1>1. now \in Time /\ Time \subseteq Int
  BY RuAssumption DEF TypeOK, Time
<1>2. PICK log \in Seq(LogEntry) : log = wiki[p].log
  BY LogFacts
<1>3. PICK entry \in LogEntry : entry = [source |-> archives, at |-> now]
  BY <1>1 DEF LogEntry
<1>4. PICK new \in Seq(LogEntry) : new = Append(log, entry)
  <2>1. Append(log, entry) \in Seq(LogEntry)
    BY <1>2, <1>3, AppendProperties
  <2>2. QED
    BY <2>1
<1>5. /\ Len(new) = Len(log) + 1 /\ DOMAIN log = 1 .. Len(log) /\ DOMAIN new = 1 .. Len(log) + 1
      /\ Len(log) \in Nat /\ Len(log) < MaxLog
      /\ \A n \in 1 .. Len(log) : new[n] = log[n]
      /\ new[Len(log) + 1] = entry
  BY <1>2, <1>4, RuAssumption DEF Log
<1>6. /\ wiki' = [wiki EXCEPT ![p] = [slug |-> slug, log |-> new]]
      /\ changes' \in 0 .. MaxChanges
      /\ UNCHANGED <<pruned, now, database, ledger, runs, faults, astray>>
  BY <1>1, <1>2, <1>3, <1>4, RuAssumption DEF Log, Changed, TypeOK
<1>7. PICK page \in [slug : Name, log : Seq(LogEntry)] : page = [slug |-> slug, log |-> new]
  BY DEF Name
<1>8. /\ wiki' \in [Pages -> [slug : Name, log : Seq(LogEntry)]]
      /\ wiki'[p] = page /\ \A q \in Pages \ {p} : wiki'[q] = wiki[q]
  BY <1>6, <1>7 DEF WikiIsSound
<1>9. page.slug = slug /\ page.log = new
  BY <1>7
<1>10. entry.source = archives /\ entry.at = now /\ now <= now
  BY <1>1, <1>3
<1>11. Extends(log, new)
  BY <1>5, <1>10 DEF Extends
<1>12. QED
  BY <1>2, <1>5, <1>6, <1>8, <1>9, <1>10, <1>11

LEMMA LogInv ==
  ASSUME Inv, NEW p \in Pages, NEW slug \in Slugs, NEW archives \in BOOLEAN,
         Log(p, slug, archives),
         wiki[p].slug = NoSlug => wiki[p].log = <<>>,
         wiki[p].log = <<>> => archives
  PROVE  Inv'
<1>1. TypeOK /\ WikiIsSound /\ NoSlug \notin Slugs /\ Time \subseteq Int /\ now \in Time
  BY RuAssumption DEF Inv, TypeOK, Time
<1>2. PICK log \in Seq(LogEntry) : log = wiki[p].log
  BY <1>1, LogFacts
<1>3. PICK new \in Seq(LogEntry), entry \in LogEntry :
        /\ entry.source = archives /\ entry.at = now
        /\ Len(log) < MaxLog /\ Len(new) = Len(log) + 1
        /\ \A n \in 1 .. Len(log) : new[n] = log[n]
        /\ new[Len(new)] = entry
        /\ Extends(log, new)
        /\ wiki' \in [Pages -> [slug : Name, log : Seq(LogEntry)]]
        /\ wiki'[p].slug = slug /\ wiki'[p].log = new
        /\ \A q \in Pages \ {p} : wiki'[q] = wiki[q]
        /\ changes' \in 0 .. MaxChanges
        /\ UNCHANGED <<pruned, now, database, ledger, runs, faults, astray>>
  BY <1>1, <1>2, LogStep
<1>4. MaxLog \in Nat /\ Len(log) \in Nat
  BY RuAssumption
<1>5. /\ DOMAIN log = 1 .. Len(log) /\ DOMAIN new = 1 .. Len(log) + 1
      /\ new[Len(log) + 1] = entry
  BY <1>3, <1>4
<1>6. WikiIsSound'
  <2>1. ASSUME NEW q \in Pages
        PROVE  /\ Len(wiki'[q].log) # 0 => wiki'[q].log[1].source
               /\ wiki'[q].slug # NoSlug => Len(wiki'[q].log) # 0
               /\ \A n \in DOMAIN wiki'[q].log : wiki'[q].log[n].at <= now
    <3>1. CASE q = p
      <4>1. wiki'[q].log = new /\ wiki'[q].slug = slug
        BY <1>3, <3>1
      <4>2. new[1].source
        <5>1. CASE Len(log) = 0
          <6>1. log = <<>>
            BY <5>1
          <6>2. archives
            BY <1>2, <6>1
          <6>3. new[1] = entry
            BY <1>5, <5>1
          <6>4. entry.source = archives
            BY <1>3
          <6>5. QED
            BY <6>2, <6>3, <6>4
        <5>2. CASE Len(log) # 0
          <6>1. log[1].source
            BY <1>1, <1>2, <5>2 DEF WikiIsSound
          <6>2. QED
            BY <1>3, <1>4, <5>2, <6>1
        <5>3. QED
          BY <5>1, <5>2
      <4>3. \A n \in DOMAIN new : new[n].at <= now
        <5>1. \A n \in DOMAIN log : log[n].at <= now
          BY <1>1, <1>2 DEF WikiIsSound
        <5>2. entry.at = now /\ now <= now
          BY <1>1, <1>3
        <5>3. QED
          BY <1>3, <1>4, <1>5, <5>1, <5>2
      <4>4. Len(new) # 0
        BY <1>3, <1>4
      <4>5. QED
        BY <4>1, <4>2, <4>3, <4>4
    <3>2. CASE q # p
      BY <1>1, <1>3, <3>2 DEF WikiIsSound
    <3>3. QED
      BY <3>1, <3>2
  <2>2. QED
    BY <1>3, <2>1 DEF WikiIsSound
<1>7. \A q \in Pages : Len(wiki'[q].log) <= MaxLog
  <2>1. Len(new) <= MaxLog
    BY <1>3, <1>4
  <2>2. \A q \in Pages \ {p} : Len(wiki'[q].log) <= MaxLog
    BY <1>1, <1>3 DEF TypeOK
  <2>3. QED
    BY <1>3, <2>1, <2>2
<1>8. \A q \in Pages : Extends(wiki[q].log, wiki'[q].log)
  <2>1. \A q \in Pages \ {p} : Extends(wiki[q].log, wiki'[q].log)
    BY <1>3 DEF Extends
  <2>2. QED
    BY <1>2, <1>3, <2>1
<1>9. \A q \in Pages : wiki[q].slug = NoSlug /\ Len(wiki[q].log) # 0 => wiki'[q].slug = NoSlug
  <2>1. wiki[p].slug = NoSlug => Len(wiki[p].log) = 0
    OBVIOUS
  <2>2. QED
    BY <1>3, <2>1
<1>10. pruned \subseteq pruned' /\ pruned' \subseteq Rev /\ now' \in Time /\ now <= now'
  BY <1>1, <1>3 DEF TypeOK
<1>11. QED
  BY <1>3, <1>6, <1>7, <1>8, <1>9, <1>10, WikiMoves

LEMMA UpstreamInv == Inv /\ WikiNext => Inv'
<1> SUFFICES ASSUME Inv, WikiNext PROVE Inv'
  OBVIOUS
<1>1. /\ TypeOK /\ WikiIsSound /\ NoSlug \notin Slugs /\ Time \subseteq Int /\ now \in Time
      /\ \A p \in Pages : wiki[p].slug \in Name
  BY RuAssumption DEF Inv, TypeOK, Time
<1>2. ASSUME NEW p \in Pages, NEW s \in Slugs, CreatePage(p, s)
      PROVE  Inv'
  BY <1>2, LogInv DEF CreatePage
<1>3. ASSUME NEW p \in Pages, wiki[p].slug # NoSlug
      PROVE  wiki[p].slug \in Slugs /\ wiki[p].log # <<>>
  BY <1>1, <1>3 DEF WikiIsSound, Name
<1>4. ASSUME NEW p \in Pages, NEW s \in Slugs, RenamePage(p, s)
      PROVE  Inv'
  BY <1>3, <1>4, LogInv DEF RenamePage, Live
<1>5. ASSUME NEW p \in Pages, EditPage(p) \/ TagPage(p)
      PROVE  Inv'
  <2>1. PICK archives \in BOOLEAN : wiki[p].slug # NoSlug /\ Log(p, wiki[p].slug, archives)
    BY <1>5 DEF EditPage, TagPage, Live
  <2>2. PICK slug \in Slugs : slug = wiki[p].slug
    BY <1>3, <2>1
  <2>3. wiki[p].log # <<>> /\ wiki[p].slug # NoSlug
    BY <1>3, <2>1
  <2>4. QED
    BY <2>1, <2>2, <2>3, LogInv
<1>6. ASSUME NEW p \in Pages, DeletePage(p)
      PROVE  Inv'
  <2>1. /\ wiki' = [wiki EXCEPT ![p].slug = NoSlug]
        /\ changes' \in 0 .. MaxChanges
        /\ UNCHANGED <<pruned, now, database, ledger, runs, faults, astray>>
    BY <1>1, <1>6, RuAssumption DEF DeletePage, Changed, TypeOK
  <2>2. wiki \in [Pages -> [slug : Name, log : Seq(LogEntry)]]
    BY <1>1 DEF WikiIsSound
  <2>3. /\ wiki' \in [Pages -> [slug : Name, log : Seq(LogEntry)]]
        /\ \A q \in Pages : wiki'[q].log = wiki[q].log /\ wiki'[q].slug \in {wiki[q].slug, NoSlug}
    BY <2>1, <2>2 DEF Name
  <2>4. WikiIsSound'
    BY <1>1, <2>1, <2>3 DEF WikiIsSound
  <2>5. \A q \in Pages : Len(wiki'[q].log) <= MaxLog
    BY <1>1, <2>3 DEF TypeOK
  <2>6. \A q \in Pages : Extends(wiki[q].log, wiki'[q].log)
    BY <2>3 DEF Extends
  <2>7. pruned \subseteq pruned' /\ pruned' \subseteq Rev /\ now' \in Time /\ now <= now'
    BY <1>1, <2>1 DEF TypeOK
  <2>8. QED
    BY <2>1, <2>3, <2>4, <2>5, <2>6, <2>7, WikiMoves
<1>7. ASSUME NEW r \in Rev, Prune(r)
      PROVE  Inv'
  <2>1. /\ UNCHANGED <<wiki, now, database, ledger, runs, faults, astray>>
        /\ pruned \subseteq pruned' /\ pruned' \subseteq Rev
        /\ changes' \in 0 .. MaxChanges
    BY <1>1, <1>7, RuAssumption DEF Prune, Changed, TypeOK
  <2>2. WikiIsSound' /\ \A q \in Pages : Len(wiki'[q].log) <= MaxLog
    BY <1>1, <2>1 DEF WikiIsSound, TypeOK
  <2>3. \A q \in Pages : Extends(wiki[q].log, wiki'[q].log)
    BY <2>1 DEF Extends
  <2>4. now' \in Time /\ now <= now'
    BY <1>1, <2>1
  <2>5. QED
    BY <2>1, <2>2, <2>3, <2>4, WikiMoves
<1>8. ASSUME Tick
      PROVE  Inv'
  <2>1. /\ UNCHANGED <<wiki, pruned, changes, database, ledger, runs, faults, astray>>
        /\ now' \in Time /\ now <= now' /\ changes' \in 0 .. MaxChanges /\ pruned' \subseteq Rev
    BY <1>1, <1>8, RuAssumption DEF Tick, Time, TypeOK
  <2>2. \A p \in Pages : \A n \in DOMAIN wiki[p].log : wiki[p].log[n].at <= now'
    <3> SUFFICES ASSUME NEW p \in Pages, NEW n \in DOMAIN wiki[p].log
                 PROVE  wiki[p].log[n].at <= now'
      OBVIOUS
    <3>1. wiki[p].log[n] \in LogEntry
      BY <1>1, LogFacts
    <3>2. wiki[p].log[n].at \in Int /\ wiki[p].log[n].at <= now
      BY <1>1, <3>1 DEF LogEntry, WikiIsSound
    <3>3. now \in Int /\ now' \in Int
      BY <1>1, <2>1
    <3>4. QED
      BY <2>1, <3>2, <3>3
  <2>3. WikiIsSound' /\ \A q \in Pages : Len(wiki'[q].log) <= MaxLog
    BY <1>1, <2>1, <2>2 DEF WikiIsSound, TypeOK
  <2>4. \A q \in Pages : Extends(wiki[q].log, wiki'[q].log)
    BY <2>1 DEF Extends
  <2>5. QED
    BY <2>1, <2>3, <2>4, WikiMoves
<1>9. QED
  BY <1>2, <1>4, <1>5, <1>6, <1>7, <1>8 DEF WikiNext

-----------------------------------------------------------------------------
(* The jobs' steps that leave the database alone.                          *)

(* A run that is over, or has not begun, has read nothing.                 *)
LEMMA IdleRun ==
  ASSUME NEW t \in Ticket, runs'[t] = Idle
  PROVE  RunOf(t)'
BY DEF RunOf, Idle

(* What was asked for of a fetch, and what a run holds, must be sound; the *)
(* rest of the invariant does not speak of jobs.                           *)
LEMMA JobsMove ==
  ASSUME Inv, UNCHANGED <<upstream, database>>, astray \subseteq astray',
         faults' \in 0 .. MaxFaults,
         ledger' \in [Ticket -> Status],
         \A t \in Ticket : ledger'[t] # "absent" =>
           \/ ledger[t] # "absent"
           \/ t[1] \in Periodic
           \/ t \in SignalTicket /\ t[1][2] <= now
           \/ t[1] \in known,
         \A r \in known : ~Settled(r) => ledger'[Fetch(r)] \in {"open", "dead"},
         runs' \in [Ticket -> RunState],
         \A t \in Ticket : runs'[t] = runs[t] \/ RunOf(t)'
  PROVE  Inv'
<1>1. /\ TypeOK /\ WikiIsSound /\ Dated /\ RowsAreSound /\ Runs
      /\ NoGap /\ WatermarkHonest /\ NothingStranded /\ ArchiveIsTrue
  BY DEF Inv
<1>2. /\ UNCHANGED <<wiki, pruned, now, changes, row, known, text, denied>>
      /\ known \subseteq Rev
      /\ \A p : Moved(p) => Moved(p)'
      /\ \A p : Edited(p) => Edited(p)'
  BY <1>1 DEF database, upstream, TypeOK, Moved, Edited
<1>3. TypeOK'
  BY <1>1, <1>2 DEF TypeOK, Status
<1>4. WikiIsSound' /\ NoGap' /\ WatermarkHonest'
  BY <1>1, <1>2 DEF WikiIsSound, NoGap, WatermarkHonest
<1>5. Dated'
  <2>1. ASSUME NEW t \in SignalTicket, ledger'[t] # "absent"
        PROVE  t[1][2] <= now
    <3>1. t \in Ticket /\ t[1] \in Signal
      BY Tickets
    <3>2. t[1] \notin Periodic /\ t[1] \notin known
      BY <1>2, <3>1, Tickets, RuAssumption
    <3>3. QED
      BY <1>1, <2>1, <3>1, <3>2 DEF Dated
  <2>2. QED
    BY <1>1, <1>2, <2>1 DEF Dated
<1>6. RowsAreSound'
  <2>1. ASSUME NEW r \in Rev, text[r] # NoText \/ ledger'[Fetch(r)] # "absent"
        PROVE  r \in known
    <3>1. Fetch(r) \in Ticket /\ Fetch(r)[1] = r /\ r \notin Periodic /\ Fetch(r) \notin SignalTicket
      BY Tickets
    <3>2. QED
      BY <1>1, <2>1, <3>1 DEF RowsAreSound
  <2>2. QED
    BY <1>1, <1>2, <2>1 DEF RowsAreSound
<1>7. Runs'
  <2>1. ASSUME NEW t \in Ticket, runs'[t] = runs[t]
        PROVE  RunOf(t)'
    <3>1. \A p \in Pages : Extends(wiki[p].log, wiki'[p].log) /\ wiki'[p].log \in Seq(LogEntry)
      BY <1>1, <1>2, LogFacts DEF Extends
    <3>2. now' \in Time /\ now <= now'
      BY <1>1, <1>2, RuAssumption DEF TypeOK, Time
    <3>3. known \subseteq known' /\ \A r \in Rev : Settled(r) => Settled(r)'
      BY <1>2 DEF Settled
    <3>4. QED
      BY <2>1, <3>1, <3>2, <3>3, RunGoesOn
  <2>2. QED
    BY <2>1 DEF Runs
<1>8. NothingStranded'
  BY <1>2 DEF NothingStranded, Settled, Fetch
<1>9. ArchiveIsTrue'
  BY <1>1, <1>2 DEF ArchiveIsTrue, Edited
<1>10. QED
  BY <1>3, <1>4, <1>5, <1>6, <1>7, <1>8, <1>9 DEF Inv

(* One run goes on, and nothing else changes.                              *)
LEMMA RunMoves ==
  ASSUME Inv, UNCHANGED <<upstream, database, ledger, faults>>, astray \subseteq astray',
         NEW t \in Ticket, NEW run \in RunState,
         runs' = [runs EXCEPT ![t] = run], RunOf(t)'
  PROVE  Inv'
<1>1. /\ ledger \in [Ticket -> Status] /\ runs \in [Ticket -> RunState] /\ faults \in 0 .. MaxFaults
      /\ NothingStranded
  BY DEF Inv, TypeOK, Status
<1>2. runs' \in [Ticket -> RunState] /\ \A u \in Ticket : runs'[u] = runs[u] \/ RunOf(u)'
  BY <1>1
<1>3. \A r \in known : ~Settled(r) => ledger'[Fetch(r)] \in {"open", "dead"}
  BY <1>1 DEF NothingStranded, Fetch
<1>4. QED
  BY <1>1, <1>2, <1>3, JobsMove

(* A run commits what it asks for and nothing else.                        *)
LEMMA ServedInv ==
  ASSUME Inv, UNCHANGED <<upstream, database, faults, astray>>,
         NEW t \in Ticket, NEW req, Serve(t, req),
         t \in RevTicket => Settled(t[1]),
         \A w \in req.wants : (w \in Signal /\ w[2] <= now) \/ w \in known
  PROVE  Inv'
<1>1. /\ ledger \in [Ticket -> Status] /\ runs \in [Ticket -> RunState] /\ faults \in 0 .. MaxFaults
      /\ NothingStranded /\ known \subseteq Rev
  BY DEF Inv, TypeOK, Status
<1>2. Queue!Serve(t, req) /\ runs' = [runs EXCEPT ![t] = Idle]
  BY DEF Serve
<1>3. /\ ledger[t] = "open" /\ ledger' \in [Ticket -> Status]
      /\ \A u \in Ticket \ {t} :
           /\ ledger'[u] \in {ledger[u], "open"}
           /\ u[1] \notin req.wants => ledger'[u] = ledger[u]
  BY <1>1, <1>2, Served
<1>4. runs' \in [Ticket -> RunState] /\ \A u \in Ticket : runs'[u] = runs[u] \/ RunOf(u)'
  <2>1. Idle \in RunState
    BY DEF RunState
  <2>2. runs' \in [Ticket -> RunState] /\ runs'[t] = Idle /\ \A u \in Ticket \ {t} : runs'[u] = runs[u]
    BY <1>1, <1>2, <2>1
  <2>3. QED
    BY <2>2, IdleRun
<1>5. ASSUME NEW r \in known, ~Settled(r)
      PROVE  ledger'[Fetch(r)] \in {"open", "dead"}
  <2>1. Fetch(r) \in Ticket /\ Fetch(r) \in RevTicket /\ Fetch(r)[1] = r
    BY <1>1, Tickets
  <2>2. Fetch(r) # t
    BY <1>5, <2>1
  <2>3. ledger[Fetch(r)] \in {"open", "dead"}
    BY <1>1, <1>5 DEF NothingStranded, Fetch
  <2>4. QED
    BY <1>3, <2>1, <2>2, <2>3
<1>6. ASSUME NEW u \in Ticket, ledger'[u] # "absent"
      PROVE  \/ ledger[u] # "absent"
             \/ u \in SignalTicket /\ u[1][2] <= now
             \/ u[1] \in known
  <2>1. u[1] \in Signal => u \in SignalTicket
    BY Tickets
  <2>2. QED
    BY <1>3, <1>6, <2>1
<1>7. QED
  BY <1>1, <1>3, <1>4, <1>5, <1>6, JobsMove

(* A run that is lost or given up, and a crash of them all.                *)
LEMMA FaultInv ==
  ASSUME Inv, UNCHANGED <<upstream, database, astray>>, faults' \in 0 .. MaxFaults,
         runs' \in [Ticket -> RunState],
         \A u \in Ticket : runs'[u] = runs[u] \/ runs'[u] = Idle,
         UNCHANGED ledger \/ \E t \in Ticket : Queue!Drop(t)
  PROVE  Inv'
<1>1. ledger \in [Ticket -> Status] /\ NothingStranded /\ known \subseteq Rev
  BY DEF Inv, TypeOK, Status
<1>2. \A u \in Ticket : runs'[u] = runs[u] \/ RunOf(u)'
  BY IdleRun
<1>3. /\ ledger' \in [Ticket -> Status]
      /\ \A u \in Ticket : ledger'[u] = ledger[u] \/ (ledger[u] = "open" /\ ledger'[u] = "dead")
  BY <1>1 DEF Queue!Drop, Status
<1>4. \A r \in known : ~Settled(r) => ledger'[Fetch(r)] \in {"open", "dead"}
  <2>1. \A r \in known : Fetch(r) \in Ticket
    BY <1>1, Tickets
  <2>2. QED
    BY <1>1, <1>3, <2>1 DEF NothingStranded, Fetch
<1>5. \A u \in Ticket : ledger'[u] # "absent" => ledger[u] # "absent"
  BY <1>3
<1>6. QED
  BY <1>2, <1>3, <1>4, <1>5, JobsMove

LEMMA EndsInv ==
  ASSUME Inv, NEW t \in Ticket, RunLost(t) \/ RunDropped(t) \/ SyncNotFound(t) \/ Crash
  PROVE  Inv'
<1>1. /\ runs \in [Ticket -> RunState] /\ Idle \in RunState
      /\ faults \in 0 .. MaxFaults /\ MaxFaults \in Nat
  BY RuAssumption DEF Inv, TypeOK, RunState
<1>2. CASE RunLost(t)
  <2>1. /\ UNCHANGED <<upstream, database, astray, ledger>> /\ faults' \in 0 .. MaxFaults
        /\ runs' = [runs EXCEPT ![t] = Idle]
    BY <1>1, <1>2 DEF RunLost, Fault
  <2>2. runs' \in [Ticket -> RunState] /\ \A u \in Ticket : runs'[u] = runs[u] \/ runs'[u] = Idle
    BY <1>1, <2>1
  <2>3. QED
    BY <2>1, <2>2, FaultInv
<1>3. CASE RunDropped(t)
  <2>1. /\ UNCHANGED <<upstream, database, astray>> /\ faults' \in 0 .. MaxFaults
        /\ runs' = [runs EXCEPT ![t] = Idle] /\ Queue!Drop(t)
    BY <1>1, <1>3 DEF RunDropped, Fault
  <2>2. runs' \in [Ticket -> RunState] /\ \A u \in Ticket : runs'[u] = runs[u] \/ runs'[u] = Idle
    BY <1>1, <2>1
  <2>3. QED
    BY <2>1, <2>2, FaultInv
<1>4. CASE SyncNotFound(t)
  <2>1. /\ UNCHANGED <<upstream, database, astray>> /\ faults' \in 0 .. MaxFaults
        /\ runs' = [runs EXCEPT ![t] = Idle] /\ Queue!Drop(t)
    BY <1>1, <1>4 DEF SyncNotFound
  <2>2. runs' \in [Ticket -> RunState] /\ \A u \in Ticket : runs'[u] = runs[u] \/ runs'[u] = Idle
    BY <1>1, <2>1
  <2>3. QED
    BY <2>1, <2>2, FaultInv
<1>5. CASE Crash
  <2>1. /\ UNCHANGED <<upstream, database, astray, ledger>> /\ faults' \in 0 .. MaxFaults
        /\ runs' = [u \in Ticket |-> Idle]
    BY <1>1, <1>5 DEF Crash, Fault
  <2>2. runs' \in [Ticket -> RunState] /\ \A u \in Ticket : runs'[u] = runs[u] \/ runs'[u] = Idle
    BY <1>1, <2>1
  <2>3. QED
    BY <2>1, <2>2, FaultInv
<1>6. QED
  BY <1>2, <1>3, <1>4, <1>5

(* discover and backfill.                                                  *)
LEMMA PeriodicInv ==
  ASSUME Inv, DiscoverList \/ DiscoverGoesOn \/ Backfill
  PROVE  Inv'
<1>1. /\ TypeOK /\ WikiIsSound /\ Runs /\ runs \in [Ticket -> RunState]
      /\ DiscoverTicket \in Ticket /\ DiscoverTicket \notin RevTicket
      /\ <<BACKFILL, 1>> \in Ticket /\ <<BACKFILL, 1>> \notin RevTicket
  <2>1. DISCOVER \in Periodic /\ BACKFILL \in Periodic
    BY DEF Periodic
  <2>2. QED
    BY <2>1, Tickets DEF Inv, TypeOK, DiscoverTicket
<1>2. PICK d \in Ticket : d = DiscoverTicket
  BY <1>1
<1>3. CASE DiscoverList
  <2>1. PICK list : list = {<<wiki[p].slug, UpdatedAt(p)>> : p \in Live}
    OBVIOUS
  <2>2. ASSUME NEW p \in Live
        PROVE  wiki[p].slug \in Slugs /\ UpdatedAt(p) \in Time /\ UpdatedAt(p) <= now
    <3>1. /\ p \in Pages /\ wiki[p].slug # NoSlug /\ wiki[p].slug \in Name
          /\ wiki[p].log \in Seq(LogEntry) /\ Len(wiki[p].log) # 0
      BY <1>1, LogFacts DEF Live, WikiIsSound
    <3>2. Len(wiki[p].log) \in DOMAIN wiki[p].log
      BY <3>1
    <3>3. wiki[p].log[Len(wiki[p].log)] \in LogEntry
      BY <3>1, <3>2
    <3>4. QED
      BY <1>1, <3>1, <3>2, <3>3 DEF LogEntry, WikiIsSound, UpdatedAt, Name
  <2>3. list \subseteq Signal /\ \A e \in list : e[2] <= now
    BY <2>1, <2>2 DEF Signal
  <2>4. PICK run \in RunState : run = [at |-> "listed", list |-> list]
    BY <2>3 DEF RunState
  <2>5. /\ UNCHANGED <<upstream, database, ledger, faults, astray>>
        /\ runs' = [runs EXCEPT ![d] = run]
    BY <1>2, <1>3, <2>1, <2>4 DEF DiscoverList, Begin
  <2>6. runs'[d] = run /\ now' = now
    BY <1>1, <2>5 DEF upstream
  <2>7. RunOf(d)'
    BY <2>3, <2>4, <2>6 DEF RunOf
  <2>8. QED
    BY <2>5, <2>7, RunMoves
<1>4. CASE DiscoverCompare
  <2>1. PICK old \in RunState : old = runs[d]
    BY <1>1
  <2>2. old.at = "listed" /\ old.list \subseteq Signal /\ \A e \in old.list : e[2] <= now
    BY <1>1, <1>2, <1>4, <2>1, SyncType DEF DiscoverCompare, Runs, RunOf
  <2>3. Stale(old.list) \subseteq old.list
    BY DEF Stale
  <2>4. PICK run \in RunState : run = [at |-> "compared", stale |-> Stale(old.list)]
    BY <2>2, <2>3 DEF RunState
  <2>5. /\ UNCHANGED <<upstream, database, ledger, faults, astray>>
        /\ runs' = [runs EXCEPT ![d] = run]
    BY <1>1, <1>2, <1>4, <2>1, <2>4 DEF DiscoverCompare
  <2>6. runs'[d] = run /\ now' = now
    BY <1>1, <2>5 DEF upstream
  <2>7. RunOf(d)'
    BY <2>2, <2>3, <2>4, <2>6 DEF RunOf
  <2>8. QED
    BY <2>5, <2>7, RunMoves
<1>5. CASE DiscoverCommit
  <2>1. PICK old \in RunState : old = runs[d]
    BY <1>1
  <2>2. old.at = "compared" /\ old.stale \subseteq Signal /\ \A e \in old.stale : e[2] <= now
    BY <1>1, <1>2, <1>5, <2>1, SyncType DEF DiscoverCommit, Runs, RunOf
  <2>3. PICK req : req = Request(old.stale, {})
    OBVIOUS
  <2>4. req.wants = old.stale
    BY <2>3 DEF Request
  <2>5. Serve(d, req) /\ UNCHANGED <<upstream, database, faults, astray>>
    BY <1>2, <1>5, <2>1, <2>3 DEF DiscoverCommit
  <2>6. QED
    BY <1>1, <1>2, <2>2, <2>4, <2>5, ServedInv
<1>6. CASE Backfill
  <2>1. PICK bare : bare = {r \in known : ~Settled(r)}
    OBVIOUS
  <2>2. PICK req : req = Request(bare, bare)
    OBVIOUS
  <2>3. \A w \in req.wants : w \in known
    BY <2>1, <2>2 DEF Request
  <2>4. PICK b \in Ticket : b = <<BACKFILL, 1>>
    BY <1>1
  <2>5. Serve(b, req) /\ UNCHANGED <<upstream, database, faults, astray>>
    BY <1>6, <2>1, <2>2, <2>4 DEF Backfill
  <2>6. QED
    BY <1>1, <2>3, <2>4, <2>5, ServedInv
<1>7. QED
  BY <1>3, <1>4, <1>5, <1>6 DEF DiscoverGoesOn

-----------------------------------------------------------------------------
(* page.sync.                                                              *)

(* No snapshot up to max_rev is missing.                                   *)
LEMMA BelowMax ==
  ASSUME TypeOK, WikiIsSound, NoGap, NEW p \in Pages, ~Moved(p),
         NEW n \in Snapshots(wiki[p].log), n <= MaxKnown(p)
  PROVE  <<p, n>> \in known
<1>1. PICK max \in 0 .. MaxLog : max = MaxKnown(p)
  BY MaxKnownFacts
<1>2. n \in 1 .. MaxLog /\ MaxLog \in Nat
  BY LogFacts, RuAssumption
<1>3. <<p, max>> \in known
  BY <1>1, <1>2, MaxKnownFacts
<1>4. CASE n = max
  BY <1>3, <1>4
<1>5. CASE n # max
  <2>1. n < max
    BY <1>1, <1>2, <1>5
  <2>2. PICK r \in known : r = <<p, max>>
    BY <1>3
  <2>3. r[1] = p /\ r[2] = max
    BY <2>2
  <2>4. QED
    BY <2>1, <2>3 DEF NoGap
<1>6. QED
  BY <1>4, <1>5

(* What its requests bring.                                                *)
LEMMA SyncReads ==
  ASSUME Inv, NEW t \in SignalTicket, SyncArticle(t) \/ SyncLog(t) \/ SyncFiles(t)
  PROVE  Inv'
<1>1. /\ TypeOK /\ WikiIsSound /\ Dated /\ RowsAreSound /\ Runs /\ NoGap
      /\ runs \in [Ticket -> RunState] /\ t \in Ticket /\ RunOf(t) /\ MaxLog \in Nat
      /\ now \in Int
  BY RuAssumption, Tickets DEF Inv, TypeOK, Runs, Time
<1>2. PICK old \in RunState : old = runs[t]
  BY <1>1
<1>3. PICK updated \in Time : updated = t[1][2]
  BY DEF SignalTicket, Signal
<1>4. CASE SyncArticle(t)
  <2>1. PICK p \in At(t[1][1]) :
          Begin(t, [at |-> "article", page |-> p, source |-> Newest(p)])
    BY <1>4 DEF SyncArticle
  <2>2. p \in Pages /\ wiki[p].slug = t[1][1] /\ t[1][1] \in Slugs
    BY DEF At, SignalTicket, Signal
  <2>3. Len(wiki[p].log) # 0
    BY <1>1, <2>2, RuAssumption DEF WikiIsSound
  <2>4. Newest(p) \in Rev
    BY <1>1, <2>2, <2>3, NewestFacts
  <2>5. PICK run \in RunState : run = [at |-> "article", page |-> p, source |-> Newest(p)]
    BY <2>2, <2>4 DEF RunState
  <2>6. /\ UNCHANGED <<upstream, database, ledger, faults, astray>>
        /\ runs' = [runs EXCEPT ![t] = run] /\ ledger[t] = "open"
    BY <1>4, <2>1, <2>5 DEF SyncArticle, Begin
  <2>7. runs'[t] = run /\ now' = now
    BY <1>1, <2>6 DEF upstream
  <2>8. updated <= now
    BY <1>1, <1>3, <2>6 DEF Dated
  <2>9. RunOf(t)'
    BY <1>3, <2>5, <2>7, <2>8 DEF RunOf
  <2>10. QED
    BY <1>1, <2>6, <2>9, RunMoves
<1>5. CASE SyncLog(t)
  <2>1. PICK q \in At(t[1][1]) :
          /\ runs' = [runs EXCEPT ![t] =
               [at |-> "log", page |-> runs[t].page, source |-> runs[t].source,
                entries |-> Snapshots(wiki[q].log)]]
          /\ astray' = astray \cup
               (CASE q # runs[t].page -> {<<runs[t].page, "moved">>}
                  [] q = runs[t].page /\ Newest(q) # runs[t].source -> {<<q, "edited">>}
                  [] OTHER -> {})
    BY <1>5 DEF SyncLog
  <2>2. q \in Pages /\ wiki[q].slug = t[1][1] /\ t[1][1] \in Slugs
    BY DEF At, SignalTicket, Signal
  <2>3. Len(wiki[q].log) # 0
    BY <1>1, <2>2, RuAssumption DEF WikiIsSound
  <2>4. PICK entries \in SUBSET (1 .. MaxLog) : entries = Snapshots(wiki[q].log)
    BY <1>1, <2>2, LogFacts
  <2>5. /\ old.at = "article" /\ old.page \in Pages /\ old.source \in Rev
        /\ UNCHANGED <<upstream, database, ledger, faults>>
    BY <1>2, <1>5, SyncType DEF SyncLog
  <2>6. PICK p \in Pages, source \in Rev : p = old.page /\ source = old.source
    BY <2>5
  <2>7. PICK run \in RunState :
          run = [at |-> "log", page |-> p, source |-> source, entries |-> entries]
    BY <2>6 DEF RunState
  <2>8. runs' = [runs EXCEPT ![t] = run]
    BY <1>2, <2>1, <2>4, <2>6, <2>7
  <2>9. runs'[t] = run /\ UNCHANGED <<wiki, now, known>> /\ updated <= now
    BY <1>1, <1>2, <1>3, <2>5, <2>8 DEF upstream, database, RunOf
  <2>10. astray \subseteq astray'
    BY <2>1
  <2>11. ASSUME <<p, "moved">> \notin astray'
         PROVE  q = p
    BY <1>2, <2>1, <2>6, <2>11
  <2>12. ASSUME q = p, <<p, "edited">> \notin astray'
         PROVE  Newest(q) = source
    BY <1>2, <2>1, <2>6, <2>12
  <2>13. ASSUME <<p, "moved">> \notin astray'
         PROVE  LogRead(run, updated)'
    <3>1. q = p
      BY <2>11, <2>13
    <3>2. PICK m \in Snapshots(wiki[q].log) :
            Newest(q) = <<q, m>> /\ \A k \in Snapshots(wiki[q].log) : k <= m
      BY <1>1, <2>2, <2>3, NewestFacts
    <3>3. run.page = q /\ run.entries = Snapshots(wiki[q].log) /\ run.source = source
      BY <2>4, <2>7, <3>1
    <3>4. wiki' = wiki
      BY <2>9
    <3>5. ~Edited(q)' => source = <<q, m>>
      BY <2>12, <3>1, <3>2 DEF Edited
    <3>6. QED
      BY <3>2, <3>3, <3>4, <3>5 DEF LogRead
  <2>14. RunOf(t)'
    BY <1>3, <2>7, <2>9, <2>13 DEF RunOf, Moved
  <2>15. QED
    BY <1>1, <2>5, <2>8, <2>10, <2>14, RunMoves
<1>6. CASE SyncFiles(t)
  <2>1. /\ old.at = "log" /\ old.page \in Pages /\ old.source \in Rev
        /\ old.entries \subseteq 1 .. MaxLog
        /\ UNCHANGED <<upstream, database, ledger, faults, astray>>
    BY <1>2, <1>6, SyncType DEF SyncFiles
  <2>2. PICK p \in Pages, source \in Rev, entries \in SUBSET (1 .. MaxLog) :
          p = old.page /\ source = old.source /\ entries = old.entries
    BY <2>1
  <2>3. PICK max \in 0 .. MaxLog : max = MaxKnown(p)
    BY <1>1, MaxKnownFacts
  <2>4. PICK revs \in SUBSET (1 .. MaxLog) : revs = {n \in entries : n > max}
    OBVIOUS
  <2>5. PICK run \in RunState :
          run = [at |-> "read", page |-> p, source |-> source, revs |-> revs]
    BY DEF RunState
  <2>6. runs' = [runs EXCEPT ![t] = run]
    BY <1>2, <1>6, <2>2, <2>3, <2>4, <2>5 DEF SyncFiles, SnapshotsAbove
  <2>7. runs'[t] = run /\ UNCHANGED <<wiki, now, known, astray>> /\ updated <= now
    BY <1>1, <1>2, <1>3, <2>1, <2>6 DEF upstream, database, RunOf
  <2>8. ASSUME ~Moved(p)
        PROVE  RevsRead(run, updated)'
    <3>1. LogRead(old, updated)
      BY <1>1, <1>2, <1>3, <2>1, <2>2, <2>8 DEF RunOf
    <3>2. PICK S \in SUBSET (1 .. MaxLog) : S = Snapshots(wiki[p].log)
      BY <1>1, LogFacts
    <3>3. /\ entries \subseteq S
          /\ \A n \in S \ entries : updated <= wiki[p].log[n].at /\ \A m \in entries : m < n
          /\ ~Edited(p) => \E m \in entries : source = <<p, m>> /\ \A k \in entries : k <= m
      BY <2>2, <3>1, <3>2 DEF LogRead
    <3>4. ASSUME NEW n \in entries \ revs
          PROVE  <<p, n>> \in known
      <4>1. n <= MaxKnown(p) /\ n \in Snapshots(wiki[p].log)
        BY <1>1, <2>3, <2>4, <3>2, <3>3
      <4>2. QED
        BY <1>1, <2>8, <4>1, BelowMax
    <3>5. \A n \in S \ revs :
            \/ <<p, n>> \in known
            \/ updated <= wiki[p].log[n].at /\ \A m \in revs : m < n
      BY <2>4, <3>3, <3>4
    <3>6. ASSUME ~Edited(p), NEW m \in Heads(revs)
          PROVE  source = <<p, m>>
      <4>1. PICK k \in entries : source = <<p, k>> /\ \A x \in entries : x <= k
        BY <3>3, <3>6
      <4>2. m \in entries /\ m > max /\ \A x \in revs : x <= m
        BY <2>4 DEF Heads
      <4>3. m <= k /\ k \in Int /\ m \in Int
        BY <1>1, <4>1, <4>2
      <4>4. k \in revs
        BY <1>1, <2>4, <4>2, <4>3
      <4>5. k <= m
        BY <4>2, <4>4
      <4>6. m = k
        BY <4>3, <4>5
      <4>7. QED
        BY <4>1, <4>6
    <3>7. run.page = p /\ run.revs = revs /\ run.source = source
      BY <2>5
    <3>8. UNCHANGED <<wiki, known, astray>> /\ (Edited(p)' <=> Edited(p))
      BY <2>7 DEF Edited
    <3>9. QED
      BY <2>4, <3>2, <3>3, <3>5, <3>6, <3>7, <3>8 DEF RevsRead
  <2>9. RunOf(t)'
    BY <1>3, <2>5, <2>7, <2>8 DEF RunOf, Moved
  <2>10. QED
    BY <1>1, <2>1, <2>6, <2>9, RunMoves
<1>7. QED
  BY <1>4, <1>5, <1>6

(* revision.fetch, until its answer is used.                               *)
LEMMA FetchReads ==
  ASSUME Inv, NEW t \in RevTicket, FetchBegin(t) \/ FetchSkip(t)
  PROVE  Inv'
<1>1. /\ TypeOK /\ RowsAreSound /\ Runs /\ runs \in [Ticket -> RunState] /\ t \in Ticket
      /\ t[1] \in Rev /\ t = Fetch(t[1]) /\ RunOf(t)
  BY Tickets DEF Inv, TypeOK, Runs
<1>2. CASE FetchBegin(t)
  <2>1. ledger[t] = "open" /\ UNCHANGED <<upstream, database, ledger, faults, astray>>
    BY <1>2 DEF FetchBegin, Begin
  <2>2. t[1] \in known
    <3>1. ledger[Fetch(t[1])] # "absent"
      BY <1>1, <2>1
    <3>2. QED
      BY <1>1, <3>1 DEF RowsAreSound
  <2>3. row[t[1][1]].slug \in Slugs
    <3>1. row[t[1][1]].slug # NoSlug /\ t[1][1] \in Pages
      BY <1>1, <2>2 DEF RowsAreSound, Rev
    <3>2. QED
      BY <1>1, <3>1 DEF TypeOK, Name
  <2>4. CASE Settled(t[1])
    <3>1. PICK run \in RunState : run = [at |-> "skip"]
      BY DEF RunState
    <3>2. runs' = [runs EXCEPT ![t] = run]
      BY <1>2, <2>4, <3>1 DEF FetchBegin, Begin
    <3>3. runs'[t] = run /\ UNCHANGED <<known, text, denied>>
      BY <1>1, <2>1, <3>2 DEF database
    <3>4. RunOf(t)'
      BY <2>2, <2>4, <3>1, <3>3 DEF RunOf, Settled
    <3>5. QED
      BY <1>1, <2>1, <3>2, <3>4, RunMoves
  <2>5. CASE ~Settled(t[1])
    <3>1. PICK run \in RunState : run = [at |-> "fetching", slug |-> row[t[1][1]].slug]
      BY <2>3 DEF RunState
    <3>2. runs' = [runs EXCEPT ![t] = run]
      BY <1>2, <2>5, <3>1 DEF FetchBegin, Begin
    <3>3. runs'[t] = run /\ known' = known
      BY <1>1, <2>1, <3>2 DEF database
    <3>4. RunOf(t)'
      BY <2>2, <3>1, <3>3 DEF RunOf
    <3>5. QED
      BY <1>1, <2>1, <3>2, <3>4, RunMoves
  <2>6. QED
    BY <2>4, <2>5
<1>3. CASE FetchSkip(t)
  <2>1. Settled(t[1])
    BY <1>1, <1>3 DEF FetchSkip, RunOf
  <2>2. PICK req : req = Request({}, {})
    OBVIOUS
  <2>3. req.wants = {}
    BY <2>2 DEF Request
  <2>4. Serve(t, req) /\ UNCHANGED <<upstream, database, faults, astray>>
    BY <1>3, <2>2 DEF FetchSkip
  <2>5. QED
    BY <1>1, <2>1, <2>3, <2>4, ServedInv
<1>4. QED
  BY <1>2, <1>3

-----------------------------------------------------------------------------
(* The commits.                                                            *)

LEMMA SyncCommits ==
  ASSUME Inv, NEW t \in SignalTicket, SyncCommit(t)
  PROVE  Inv'
<1>1. /\ TypeOK /\ WikiIsSound /\ Dated /\ RowsAreSound /\ Runs
      /\ NoGap /\ WatermarkHonest /\ NothingStranded /\ ArchiveIsTrue
      /\ runs \in [Ticket -> RunState] /\ t \in Ticket /\ t \notin RevTicket /\ RunOf(t)
      /\ ledger \in [Ticket -> Status] /\ MaxLog \in Nat /\ now \in Int /\ Time \subseteq Int
      /\ Idle \in RunState
  <2>1. t[1] \in Signal /\ t \in Ticket
    BY Tickets
  <2>2. QED
    BY <2>1, Tickets, RuAssumption DEF Inv, TypeOK, Runs, Time, Status, RunState
<1>2. PICK old \in RunState : old = runs[t]
  BY <1>1
<1>3. PICK slug \in Slugs, updated \in Time : slug = t[1][1] /\ updated = t[1][2]
  BY DEF SignalTicket, Signal
<1>4. /\ old.at = "read" /\ old.page \in Pages /\ old.source \in Rev
      /\ old.revs \subseteq 1 .. MaxLog /\ updated <= now
      /\ UNCHANGED <<upstream, denied, faults, astray>>
  BY <1>1, <1>2, <1>3, SyncType DEF SyncCommit, RunOf
<1>5. PICK p \in Pages, source \in Rev, revs \in SUBSET (1 .. MaxLog) :
        p = old.page /\ source = old.source /\ revs = old.revs
  BY <1>4
<1>6. Moved(p) \/ RevsRead(old, updated)
  BY <1>1, <1>2, <1>3, <1>4, <1>5 DEF RunOf
<1>7. ASSUME ~Moved(p)
      PROVE  /\ revs \subseteq Snapshots(wiki[p].log)
             /\ \A n \in Snapshots(wiki[p].log) \ revs :
                  \/ <<p, n>> \in known
                  \/ updated <= wiki[p].log[n].at /\ \A m \in revs : m < n
             /\ ~Edited(p) => \A m \in Heads(revs) : source = <<p, m>>
  BY <1>5, <1>6, <1>7 DEF RevsRead
<1>8. PICK fetches : fetches = {p} \X BelowHead(revs)
  OBVIOUS
<1>9. PICK heads : heads = {p} \X Heads(revs)
  OBVIOUS
<1>10. /\ fetches \cup heads = {p} \X revs /\ {p} \X revs \subseteq Rev
  BY <1>8, <1>9 DEF BelowHead, Heads, Rev
<1>11. PICK req : req = Request(fetches, fetches)
  OBVIOUS
<1>12. req.wants = fetches /\ req.rearms = fetches
  BY <1>11 DEF Request
<1>13. PICK newRow \in [slug : Name, updated : Time] : newRow = [slug |-> slug, updated |-> updated]
  BY DEF Name
<1>14. /\ row' = [row EXCEPT ![p] = newRow]
       /\ known' = known \cup ({p} \X revs)
       /\ text' = [r \in Rev |-> IF r \in heads /\ text[r] = NoText THEN source ELSE text[r]]
       /\ Queue!Serve(t, req) /\ runs' = [runs EXCEPT ![t] = Idle]
       /\ \A o \in Pages \ {p} : row[o].slug # slug
  BY <1>2, <1>3, <1>5, <1>8, <1>9, <1>11, <1>13
     DEF SyncCommit, Serve, SlugTaken, Watermark
<1>15. /\ row' \in [Pages -> [slug : Name, updated : Time]]
       /\ row'[p] = newRow /\ newRow.slug = slug /\ newRow.updated = updated
       /\ \A q \in Pages \ {p} : row'[q] = row[q]
  BY <1>1, <1>13, <1>14 DEF TypeOK
<1>16. /\ ledger[t] = "open" /\ ledger' \in [Ticket -> Status]
       /\ \A u \in Ticket \ {t} :
            /\ ledger'[u] \in {ledger[u], "open"}
            /\ u[1] \notin fetches => ledger'[u] = ledger[u]
       /\ \A r \in fetches : ledger'[Fetch(r)] = "open"
  BY <1>1, <1>10, <1>12, <1>14, Served
<1>17. /\ text' \in [Rev -> Rev \cup {NoText}]
       /\ \A r \in Rev : text'[r] = text[r] \/ (r \in heads /\ text'[r] = source)
       /\ \A r \in heads : text'[r] # NoText
       /\ \A r \in Rev : text[r] # NoText => text'[r] = text[r]
  <2>1. text \in [Rev -> Rev \cup {NoText}] /\ NoText \notin Rev
    BY <1>1, RuAssumption DEF TypeOK
  <2>2. QED
    BY <1>10, <1>14, <2>1
<1>18. UNCHANGED <<wiki, pruned, now, changes, denied, faults, astray>>
  BY <1>4 DEF upstream
<1>19. known \subseteq known' /\ known \subseteq Rev /\ denied \subseteq known
  BY <1>1, <1>14 DEF TypeOK
<1>20. \A r \in Rev : Settled(r) => Settled(r)'
  BY <1>17, <1>18 DEF Settled
<1>21. TypeOK'
  <2>1. \A a, b \in Pages : row'[a].slug = row'[b].slug /\ row'[a].slug # NoSlug => a = b
    <3>1. \A a, b \in Pages : row[a].slug = row[b].slug /\ row[a].slug # NoSlug => a = b
      BY <1>1 DEF TypeOK
    <3>2. QED
      BY <1>14, <1>15, <3>1
  <2>2. known' \subseteq Rev /\ denied' \subseteq known'
    BY <1>10, <1>14, <1>18, <1>19
  <2>3. runs' \in [Ticket -> RunState]
    BY <1>1, <1>14
  <2>4. /\ \A q \in Pages : wiki'[q].slug \in Name /\ Len(wiki'[q].log) <= MaxLog
        /\ pruned' \subseteq Rev /\ now' \in Time
        /\ changes' \in 0 .. MaxChanges /\ faults' \in 0 .. MaxFaults
    BY <1>1, <1>18 DEF TypeOK
  <2>5. ledger' \in [Ticket -> {"absent", "open", "done", "dead"}]
    BY <1>16 DEF Status
  <2>6. QED
    BY <1>15, <1>17, <2>1, <2>2, <2>3, <2>4, <2>5 DEF TypeOK
<1>22. WikiIsSound'
  BY <1>1, <1>18 DEF WikiIsSound
<1>23. Dated'
  <2>1. \A q \in Pages : row'[q].updated <= now
    BY <1>1, <1>4, <1>15 DEF Dated
  <2>2. ASSUME NEW u \in SignalTicket, ledger'[u] # "absent"
        PROVE  u[1][2] <= now
    <3>1. u \in Ticket /\ u[1] \notin fetches
      <4>1. u \in Ticket /\ u[1] \in Signal
        BY Tickets
      <4>2. QED
        BY <1>10, <4>1, Tickets
    <3>2. ledger[u] # "absent"
      BY <1>16, <2>2, <3>1
    <3>3. QED
      BY <1>1, <3>2 DEF Dated
  <2>3. QED
    BY <1>18, <2>1, <2>2 DEF Dated
<1>24. RowsAreSound'
  <2>1. ASSUME NEW r \in known'
        PROVE  /\ row'[r[1]].slug # NoSlug
               /\ Moved(r[1]) \/ r[2] \in Snapshots(wiki[r[1]].log)
    <3>1. NoSlug \notin Slugs
      BY RuAssumption
    <3>2. CASE r \in known
      <4>1. r[1] \in Pages
        BY <1>19, <3>2 DEF Rev
      <4>2. row'[r[1]].slug # NoSlug
        BY <1>1, <1>15, <3>1, <3>2, <4>1 DEF RowsAreSound
      <4>3. QED
        BY <1>1, <3>2, <4>2 DEF RowsAreSound
    <3>3. CASE r \in {p} \X revs
      <4>1. r[1] = p /\ r[2] \in revs
        BY <3>3
      <4>2. QED
        BY <1>7, <1>15, <3>1, <4>1
    <3>4. QED
      BY <1>14, <3>2, <3>3
  <2>2. ASSUME NEW r \in Rev, text'[r] # NoText \/ ledger'[Fetch(r)] # "absent"
        PROVE  r \in known'
    <3>1. Fetch(r) \in Ticket /\ Fetch(r) # t /\ Fetch(r)[1] = r
      BY <1>1, Tickets
    <3>2. CASE text'[r] # NoText
      BY <1>1, <1>10, <1>14, <1>17, <3>2 DEF RowsAreSound
    <3>3. CASE ledger'[Fetch(r)] # "absent"
      <4>1. r \in fetches \/ ledger[Fetch(r)] # "absent"
        BY <1>16, <3>1, <3>3
      <4>2. QED
        BY <1>1, <1>10, <1>14, <4>1 DEF RowsAreSound
    <3>4. QED
      BY <2>2, <3>2, <3>3
  <2>3. QED
    BY <1>18, <2>1, <2>2 DEF RowsAreSound, Moved, Fetch
<1>25. Runs'
  <2>1. \A q \in Pages : Extends(wiki[q].log, wiki'[q].log) /\ wiki'[q].log \in Seq(LogEntry)
    BY <1>1, <1>18, LogFacts DEF Extends
  <2>2. now' \in Time /\ now <= now'
    BY <1>1, <1>18 DEF TypeOK
  <2>3. ASSUME NEW u \in Ticket \ {t}
        PROVE  RunOf(u)'
    <3>1. runs'[u] = runs[u]
      BY <1>1, <1>14
    <3>2. QED
      BY <1>18, <1>19, <1>20, <2>1, <2>2, <3>1, RunGoesOn
  <2>4. RunOf(t)'
    <3>1. runs'[t] = Idle
      BY <1>1, <1>14
    <3>2. QED
      BY <1>1, <3>1, IdleRun
  <2>5. QED
    BY <2>3, <2>4 DEF Runs
<1>26. NoGap'
  <2> SUFFICES ASSUME NEW r \in known', ~Moved(r[1]),
                      NEW n \in Snapshots(wiki[r[1]].log), n < r[2]
               PROVE  <<r[1], n>> \in known'
    BY <1>18 DEF NoGap, Moved
  <2>1. CASE r \in known
    BY <1>1, <1>19, <2>1 DEF NoGap
  <2>2. CASE r \in {p} \X revs
    <3>1. r[1] = p /\ r[2] \in revs
      BY <2>2
    <3>2. n \in Int /\ r[2] \in Int
      <4>1. Snapshots(wiki[p].log) \in SUBSET (1 .. MaxLog) /\ n \in Snapshots(wiki[p].log)
        BY <1>1, <3>1, LogFacts
      <4>2. n \in 1 .. MaxLog /\ r[2] \in 1 .. MaxLog
        BY <3>1, <4>1
      <4>3. QED
        BY <1>1, <4>2
    <3>3. n \in revs \/ <<p, n>> \in known
      BY <1>7, <3>1, <3>2
    <3>4. QED
      BY <1>14, <3>1, <3>3
  <2>3. QED
    BY <1>14, <2>1, <2>2
<1>27. WatermarkHonest'
  <2> SUFFICES ASSUME NEW q \in Pages, ~Moved(q), NEW n \in Snapshots(wiki[q].log),
                      wiki[q].log[n].at < row'[q].updated
               PROVE  <<q, n>> \in known'
    BY <1>18 DEF WatermarkHonest, Moved
  <2>1. CASE q # p
    BY <1>1, <1>15, <1>19, <2>1 DEF WatermarkHonest
  <2>2. CASE q = p
    <3>1. wiki[p].log[n].at < updated
      BY <1>15, <2>2
    <3>2. wiki[p].log[n].at \in Int /\ updated \in Int
      <4>1. n \in DOMAIN wiki[p].log
        BY <2>2 DEF Snapshots
      <4>2. wiki[p].log[n] \in LogEntry
        BY <1>1, <4>1, LogFacts
      <4>3. QED
        BY <1>1, <4>2 DEF LogEntry
    <3>3. n \in revs \/ <<p, n>> \in known
      BY <1>7, <2>2, <3>1, <3>2
    <3>4. QED
      BY <1>14, <2>2, <3>3
  <2>3. QED
    BY <2>1, <2>2
<1>28. NothingStranded'
  <2> SUFFICES ASSUME NEW r \in known', ~Settled(r)'
               PROVE  ledger'[Fetch(r)] \in {"open", "dead"}
    BY DEF NothingStranded, Fetch
  <2>1. r \in Rev
    BY <1>10, <1>14, <1>19
  <2>2. Fetch(r) \in Ticket /\ Fetch(r) # t
    BY <1>1, <2>1, Tickets
  <2>3. CASE r \in known
    <3>1. ledger[Fetch(r)] \in {"open", "dead"}
      BY <1>1, <1>20, <2>1, <2>3 DEF NothingStranded, Fetch
    <3>2. QED
      BY <1>16, <2>2, <3>1
  <2>4. CASE r \in {p} \X revs
    <3>1. r \notin heads
      BY <1>17 DEF Settled
    <3>2. QED
      BY <1>10, <1>16, <2>4, <3>1
  <2>5. QED
    BY <1>14, <2>3, <2>4
<1>29. ArchiveIsTrue'
  <2> SUFFICES ASSUME NEW r \in known'
               PROVE  /\ text'[r] \in {NoText, r} \/ Moved(r[1]) \/ Edited(r[1])
                      /\ r \in denied => r \in pruned \/ wiki[r[1]].slug = NoSlug \/ Moved(r[1])
    BY <1>18 DEF ArchiveIsTrue, Moved, Edited
  <2>1. r \in Rev
    BY <1>10, <1>14, <1>19
  <2>2. r \in denied => r \in pruned \/ wiki[r[1]].slug = NoSlug \/ Moved(r[1])
    BY <1>1, <1>19 DEF ArchiveIsTrue
  <2>3. CASE text'[r] = text[r]
    <3>1. text[r] # NoText => r \in known
      BY <1>1, <2>1 DEF RowsAreSound
    <3>2. text[r] \in {NoText, r} \/ Moved(r[1]) \/ Edited(r[1])
      BY <1>1, <3>1 DEF ArchiveIsTrue, Edited
    <3>3. QED
      BY <2>2, <2>3, <3>2
  <2>4. CASE r \in heads /\ text'[r] = source
    <3>1. PICK m \in Heads(revs) : r = <<p, m>>
      BY <1>9, <2>4
    <3>2. r[1] = p
      BY <3>1
    <3>3. Moved(p) \/ Edited(p) \/ source = r
      BY <1>7, <3>1
    <3>4. QED
      BY <2>2, <2>4, <3>2, <3>3
  <2>5. QED
    BY <1>17, <2>1, <2>3, <2>4
<1>30. QED
  BY <1>21, <1>22, <1>23, <1>24, <1>25, <1>26, <1>27, <1>28, <1>29 DEF Inv

(* A fetch settles its revision.                                           *)
LEMMA FetchSettles ==
  ASSUME Inv, NEW t \in RevTicket, Serve(t, Request({}, {})),
         UNCHANGED <<upstream, row, known, faults>>, astray \subseteq astray',
         t[1] \in known,
         text' \in [Rev -> Rev \cup {NoText}],
         \A r \in Rev \ {t[1]} : text'[r] = text[r],
         text'[t[1]] = text[t[1]] \/ text'[t[1]] # NoText,
         denied \subseteq denied', denied' \subseteq denied \cup {t[1]},
         Settled(t[1])',
         text'[t[1]] \in {text[t[1]], t[1]} \/ Moved(t[1][1])',
         t[1] \in denied' => \/ t[1] \in denied \/ t[1] \in pruned
                             \/ wiki[t[1][1]].slug = NoSlug \/ Moved(t[1][1])'
  PROVE  Inv'
<1>1. /\ TypeOK /\ WikiIsSound /\ Dated /\ RowsAreSound /\ Runs
      /\ NoGap /\ WatermarkHonest /\ NothingStranded /\ ArchiveIsTrue
      /\ runs \in [Ticket -> RunState] /\ t \in Ticket /\ t[1] \in Rev /\ t = Fetch(t[1])
      /\ ledger \in [Ticket -> Status] /\ now \in Int /\ Idle \in RunState
  BY Tickets, RuAssumption DEF Inv, TypeOK, Time, Status, RunState
<1>2. PICK rev \in Rev : rev = t[1]
  BY <1>1
<1>3. PICK req : req = Request({}, {})
  OBVIOUS
<1>4. Queue!Serve(t, req) /\ req.wants = {} /\ runs' = [runs EXCEPT ![t] = Idle]
  BY <1>3 DEF Serve, Request
<1>5. /\ ledger[t] = "open" /\ ledger' \in [Ticket -> Status]
      /\ \A u \in Ticket \ {t} : ledger'[u] = ledger[u]
  BY <1>1, <1>4, Served
<1>6. /\ UNCHANGED <<wiki, pruned, now, changes, row, known, faults>>
      /\ known \subseteq Rev /\ denied \subseteq known
      /\ \A p : Moved(p) => Moved(p)'
      /\ \A p : Edited(p) => Edited(p)'
  BY <1>1 DEF upstream, TypeOK, Moved, Edited
<1>7. \A r \in Rev : Settled(r) => Settled(r)'
  <2>1. \A r \in Rev : text[r] # NoText => text'[r] # NoText
    BY <1>1
  <2>2. QED
    BY <2>1 DEF Settled
<1>8. TypeOK'
  <2>1. denied' \subseteq known' /\ runs' \in [Ticket -> RunState]
    BY <1>1, <1>4, <1>6
  <2>2. QED
    BY <1>1, <1>5, <1>6, <2>1 DEF TypeOK, Status
<1>9. WikiIsSound' /\ NoGap' /\ WatermarkHonest'
  BY <1>1, <1>6 DEF WikiIsSound, NoGap, WatermarkHonest
<1>10. Dated'
  <2>1. \A u \in SignalTicket : u \in Ticket /\ u # t
    BY <1>1, Tickets
  <2>2. QED
    BY <1>1, <1>5, <1>6, <2>1 DEF Dated
<1>11. RowsAreSound'
  <2>1. ASSUME NEW r \in Rev, text'[r] # NoText \/ ledger'[Fetch(r)] # "absent"
        PROVE  r \in known
    <3>1. CASE r = t[1]
      BY <3>1
    <3>2. CASE r # t[1]
      <4>1. Fetch(r) \in Ticket /\ Fetch(r) # t
        BY <3>2, Tickets
      <4>2. QED
        BY <1>1, <1>5, <2>1, <3>2, <4>1 DEF RowsAreSound
    <3>3. QED
      BY <3>1, <3>2
  <2>2. QED
    BY <1>1, <1>6, <2>1 DEF RowsAreSound, Fetch
<1>12. Runs'
  <2>1. \A q \in Pages : Extends(wiki[q].log, wiki'[q].log) /\ wiki'[q].log \in Seq(LogEntry)
    BY <1>1, <1>6, LogFacts DEF Extends
  <2>2. now' \in Time /\ now <= now' /\ known \subseteq known'
    BY <1>1, <1>6 DEF TypeOK
  <2>3. ASSUME NEW u \in Ticket \ {t}
        PROVE  RunOf(u)'
    <3>1. runs'[u] = runs[u]
      BY <1>1, <1>4
    <3>2. QED
      BY <1>7, <2>1, <2>2, <3>1, RunGoesOn
  <2>4. RunOf(t)'
    <3>1. runs'[t] = Idle
      BY <1>1, <1>4
    <3>2. QED
      BY <1>1, <3>1, IdleRun
  <2>5. QED
    BY <2>3, <2>4 DEF Runs
<1>13. NothingStranded'
  <2> SUFFICES ASSUME NEW r \in known, ~Settled(r)'
               PROVE  ledger'[Fetch(r)] \in {"open", "dead"}
    BY <1>6 DEF NothingStranded, Fetch
  <2>1. r \in Rev /\ r # t[1] /\ ~Settled(r)
    BY <1>6, <1>7
  <2>2. Fetch(r) \in Ticket /\ Fetch(r) # t
    BY <2>1, Tickets
  <2>3. QED
    BY <1>1, <1>5, <2>1, <2>2 DEF NothingStranded, Fetch
<1>14. ArchiveIsTrue'
  <2> SUFFICES ASSUME NEW r \in known
               PROVE  /\ text'[r] \in {NoText, r} \/ Moved(r[1])' \/ Edited(r[1])'
                      /\ r \in denied' =>
                           r \in pruned \/ wiki[r[1]].slug = NoSlug \/ Moved(r[1])'
    BY <1>6 DEF ArchiveIsTrue, Moved, Edited
  <2>1. /\ text[r] \in {NoText, r} \/ Moved(r[1]) \/ Edited(r[1])
        /\ r \in denied => r \in pruned \/ wiki[r[1]].slug = NoSlug \/ Moved(r[1])
    BY <1>1 DEF ArchiveIsTrue, Edited
  <2>2. CASE r = t[1]
    BY <1>6, <2>1, <2>2
  <2>3. CASE r # t[1]
    <3>1. text'[r] = text[r] /\ (r \in denied' => r \in denied)
      BY <1>6, <2>3
    <3>2. QED
      BY <1>6, <2>1, <3>1
  <2>4. QED
    BY <2>2, <2>3
<1>15. QED
  BY <1>8, <1>9, <1>10, <1>11, <1>12, <1>13, <1>14 DEF Inv

LEMMA FetchCommits ==
  ASSUME Inv, NEW t \in RevTicket, FetchStore(t) \/ FetchDeny(t)
  PROVE  Inv'
<1>1. /\ TypeOK /\ WikiIsSound /\ RowsAreSound /\ Runs /\ ArchiveIsTrue
      /\ runs \in [Ticket -> RunState] /\ t \in Ticket /\ t[1] \in Rev /\ RunOf(t)
      /\ text \in [Rev -> Rev \cup {NoText}] /\ NoText \notin Rev
  BY Tickets, RuAssumption DEF Inv, TypeOK, Runs
<1>2. PICK rev \in Rev : rev = t[1]
  BY <1>1
<1>3. PICK p \in Pages, i \in 1 .. MaxLog : rev = <<p, i>>
  BY DEF Rev
<1>4. rev[1] = p /\ rev[2] = i
  BY <1>3
<1>5. CASE FetchStore(t)
  <2>1. PICK answer \in Answers(t) :
          /\ text' = [text EXCEPT ![rev] = answer]
          /\ astray' = IF answer = rev THEN astray ELSE astray \cup {<<rev[1], "moved">>}
    BY <1>2, <1>5 DEF FetchStore
  <2>2. answer \in Rev
    <3>1. PICK q \in Pages : answer = <<q, rev[2]>>
      BY <1>2 DEF Answers, At
    <3>2. QED
      BY <1>3, <1>4, <3>1 DEF Rev
  <2>3. /\ text' \in [Rev -> Rev \cup {NoText}] /\ text'[rev] = answer
        /\ \A r \in Rev \ {rev} : text'[r] = text[r]
    BY <1>1, <2>1, <2>2
  <2>4. astray \subseteq astray' /\ (answer = rev \/ Moved(rev[1])')
    BY <2>1 DEF Moved
  <2>5. /\ Serve(t, Request({}, {})) /\ rev \in known
        /\ UNCHANGED <<upstream, row, known, denied, faults>>
    BY <1>2, <1>5 DEF FetchStore
  <2>6. text'[rev] # NoText /\ Settled(rev)'
    BY <1>1, <2>2, <2>3 DEF Settled
  <2>7. denied \subseteq denied' /\ denied' \subseteq denied \cup {rev}
    BY <2>5
  <2>8. text'[rev] \in {text[rev], rev} \/ Moved(rev[1])'
    BY <2>3, <2>4
  <2>9. rev \in denied' => rev \in denied
    BY <2>5
  <2>10. QED
    BY <1>2, <2>3, <2>4, <2>5, <2>6, <2>7, <2>8, <2>9, FetchSettles
<1>6. CASE FetchDeny(t)
  <2>1. PICK run \in RunState : run = runs[t]
    BY <1>1
  <2>2. PICK slug \in Slugs : slug = run.slug
    <3>1. run.at = "fetching"
      BY <1>6, <2>1 DEF FetchDeny
    <3>2. QED
      BY <3>1 DEF RunState, Idle
  <2>3. /\ Answers(t) = {} /\ denied' = denied \cup {rev}
        /\ astray' = IF wiki[rev[1]].slug \in {slug, NoSlug} THEN astray
                     ELSE astray \cup {<<rev[1], "moved">>}
        /\ Serve(t, Request({}, {})) /\ UNCHANGED <<upstream, row, known, text, faults>>
    BY <1>2, <1>6, <2>1, <2>2 DEF FetchDeny
  <2>4. rev \in known
    BY <1>1, <1>2, <1>6 DEF FetchDeny, RunOf
  <2>5. astray \subseteq astray' /\ (wiki[p].slug \in {slug, NoSlug} \/ Moved(rev[1])')
    BY <1>4, <2>3 DEF Moved
  <2>6. rev \in pruned \/ wiki[rev[1]].slug = NoSlug \/ Moved(rev[1])'
    <3>1. CASE Moved(rev[1])
      BY <2>5, <3>1 DEF Moved
    <3>2. CASE ~Moved(rev[1]) /\ wiki[p].slug = slug
      <4>1. i \in Snapshots(wiki[p].log)
        BY <1>1, <1>4, <2>4, <3>2 DEF RowsAreSound
      <4>2. p \in At(runs[t].slug)
        BY <2>1, <2>2, <3>2 DEF At
      <4>3. <<p, t[1][2]>> \in Answers(t) \/ <<p, t[1][2]>> \in pruned
        BY <1>2, <1>4, <4>1, <4>2 DEF Answers
      <4>4. QED
        BY <1>2, <1>3, <1>4, <2>3, <4>3
    <3>3. QED
      BY <1>4, <2>5, <3>1, <3>2
  <2>7. Settled(rev)' /\ denied \subseteq denied' /\ denied' \subseteq denied \cup {rev}
    BY <2>3 DEF Settled
  <2>8. /\ text' \in [Rev -> Rev \cup {NoText}] /\ text'[rev] = text[rev]
        /\ \A r \in Rev \ {rev} : text'[r] = text[r]
    BY <1>1, <2>3
  <2>9. QED
    BY <1>2, <2>3, <2>4, <2>5, <2>6, <2>7, <2>8, FetchSettles
<1>7. QED
  BY <1>5, <1>6

-----------------------------------------------------------------------------
(* What discover passes over: a second layer of the invariant.             *)

(* The second of a log's last entry; no two pages have a name in common,   *)
(* and the last entry is the latest.                                       *)
LastAt(log) == log[Len(log)].at
NamesAndTimes ==
  /\ \A p, q \in Pages : wiki[p].slug = wiki[q].slug /\ wiki[p].slug # NoSlug => p = q
  /\ \A p \in Pages : \A n \in DOMAIN wiki[p].log : wiki[p].log[n].at <= LastAt(wiki[p].log)

(* A signal's time is not after the last change of the page behind it.     *)
Past(e) == \A p \in Pages : wiki[p].slug = e[1] => e[2] <= LastAt(wiki[p].log)

(* The snapshots up to a second the log has reached, ties aside, are among *)
(* those seen.                                                             *)
TiedIn(log) == \E m, n \in DOMAIN log : m # n /\ log[m].at = log[n].at
Covered(log, updated, seen) ==
  /\ Len(log) # 0 /\ updated <= LastAt(log)
  /\ ~TiedIn(log) => \A n \in Snapshots(log) : log[n].at <= updated => n \in seen
KnownOf(p) == {n \in 1 .. MaxLog : <<p, n>> \in known}

PastRun(t) ==
  /\ runs[t].at = "listed" => \A e \in runs[t].list : Past(e)
  /\ runs[t].at = "compared" => \A e \in runs[t].stale : Past(e)
  /\ runs[t].at = "article" => Past(t[1])
  /\ runs[t].at = "log" =>
       \/ Moved(runs[t].page)
       \/ Covered(wiki[runs[t].page].log, t[1][2], runs[t].entries)
  /\ runs[t].at = "read" =>
       \/ Moved(runs[t].page)
       \/ Covered(wiki[runs[t].page].log, t[1][2], runs[t].revs \cup KnownOf(runs[t].page))
CoveredRow(p) ==
  row[p].slug = NoSlug \/ Moved(p) \/ Covered(wiki[p].log, row[p].updated, KnownOf(p))

UpToDate ==
  /\ NamesAndTimes
  /\ \A t \in SignalTicket : ledger[t] # "absent" => Past(t[1])
  /\ \A t \in Ticket : PastRun(t)
  /\ \A p \in Pages : CoveredRow(p)

(* A log that is added to stays covered: what is new either comes later    *)
(* than the second that was reached, or is tied with what reached it.      *)
LEMMA CoveredGrows ==
  ASSUME NEW log \in Seq(LogEntry), NEW new \in Seq(LogEntry), Extends(log, new),
         now \in Time, \A n \in DOMAIN log : log[n].at <= now,
         NEW updated \in Time, NEW seen, Covered(log, updated, seen),
         NEW more, seen \subseteq more
  PROVE  Covered(new, updated, more)
<1>1. Time \subseteq Int
  BY RuAssumption DEF Time
<1>2. /\ DOMAIN log = 1 .. Len(log) /\ DOMAIN new = 1 .. Len(new)
      /\ Len(log) \in Nat /\ Len(new) \in Nat
      /\ Len(log) # 0 /\ updated <= LastAt(log)
  BY DEF Covered
<1>3. /\ \A n \in DOMAIN log : n \in DOMAIN new /\ new[n] = log[n]
      /\ \A n \in DOMAIN new \ DOMAIN log : now <= new[n].at
  BY DEF Extends
<1>4. /\ \A n \in DOMAIN log : log[n].at \in Int
      /\ \A n \in DOMAIN new : new[n].at \in Int
      /\ now \in Int /\ updated \in Int
  <2>1. \A e \in LogEntry : e.at \in Int
    BY <1>1 DEF LogEntry
  <2>2. /\ \A n \in DOMAIN log : log[n] \in LogEntry
        /\ \A n \in DOMAIN new : new[n] \in LogEntry
    OBVIOUS
  <2>3. QED
    BY <1>1, <2>1, <2>2
<1>5. Len(log) \in DOMAIN log /\ LastAt(log) \in Int /\ LastAt(log) <= now
  BY <1>2, <1>4 DEF LastAt
<1>6. Len(new) # 0 /\ Len(new) \in DOMAIN new
  BY <1>2, <1>3, <1>5
<1>7. updated <= LastAt(new)
  <2>1. CASE Len(new) \in DOMAIN log
    <3>1. \A m, n \in Nat : m \in 1 .. n /\ n \in 1 .. m => m = n
      OBVIOUS
    <3>2. Len(new) = Len(log)
      BY <1>2, <1>3, <1>5, <2>1, <3>1
    <3>3. LastAt(new) = LastAt(log)
      BY <1>3, <1>5, <3>2 DEF LastAt
    <3>4. QED
      BY <1>2, <3>3
  <2>2. CASE Len(new) \notin DOMAIN log
    <3>1. now <= LastAt(new) /\ LastAt(new) \in Int
      BY <1>3, <1>4, <1>6, <2>2 DEF LastAt
    <3>2. QED
      BY <1>2, <1>4, <1>5, <3>1
  <2>3. QED
    BY <2>1, <2>2
<1>8. ASSUME ~TiedIn(new), NEW n \in Snapshots(new), new[n].at <= updated
      PROVE  n \in more
  <2>1. n \in DOMAIN new
    BY DEF Snapshots
  <2>2. CASE n \in DOMAIN log
    <3>1. ~TiedIn(log)
      BY <1>3, <1>8 DEF TiedIn
    <3>2. n \in Snapshots(log) /\ log[n].at <= updated
      BY <1>3, <1>8, <2>2 DEF Snapshots
    <3>3. QED
      BY <3>1, <3>2 DEF Covered
  <2>3. CASE n \notin DOMAIN log
    <3>1. now <= new[n].at /\ new[n].at \in Int
      BY <1>3, <1>4, <2>1, <2>3
    <3>2. new[n].at = LastAt(log)
      BY <1>2, <1>4, <1>5, <1>8, <3>1
    <3>3. n # Len(log) /\ Len(log) \in DOMAIN new /\ new[Len(log)].at = LastAt(log)
      BY <1>3, <1>5, <2>3 DEF LastAt
    <3>4. QED
      BY <1>8, <2>1, <3>2, <3>3 DEF TiedIn
  <2>4. QED
    BY <2>2, <2>3
<1>9. QED
  BY <1>6, <1>7, <1>8 DEF Covered

(* What a run has seen, and a row covers, stays so.                        *)
LEMMA UpToDateGoesOn ==
  ASSUME Inv, Inv', UpToDate, NamesAndTimes',
         \A p \in Pages : Extends(wiki[p].log, wiki'[p].log),
         \A e \in Signal : e[2] <= now /\ Past(e) => Past(e)',
         known \subseteq known', astray \subseteq astray',
         \A t \in SignalTicket : ledger'[t] # "absent" => ledger[t] # "absent" \/ Past(t[1])',
         \A t \in Ticket : runs'[t] = runs[t] \/ PastRun(t)',
         \A p \in Pages : row'[p] = row[p] \/ CoveredRow(p)'
  PROVE  UpToDate'
<1>1. /\ TypeOK /\ WikiIsSound /\ Dated /\ Runs
      /\ runs \in [Ticket -> RunState] /\ now \in Time
      /\ row \in [Pages -> [slug : Name, updated : Time]]
      /\ WikiIsSound'
  BY DEF Inv, TypeOK
<1>2. \A p \in Pages : wiki[p].log \in Seq(LogEntry) /\ wiki'[p].log \in Seq(LogEntry)
  BY <1>1, LogFacts DEF WikiIsSound
<1>3. ASSUME NEW p \in Pages, NEW updated \in Time, NEW seen, NEW more, seen \subseteq more,
             Covered(wiki[p].log, updated, seen)
      PROVE  Covered(wiki'[p].log, updated, more)
  <2>1. PICK log \in Seq(LogEntry) : log = wiki[p].log
    BY <1>2
  <2>2. PICK new \in Seq(LogEntry) : new = wiki'[p].log
    BY <1>2
  <2>3. \A n \in DOMAIN log : log[n].at <= now
    BY <1>1, <2>1 DEF WikiIsSound
  <2>4. Extends(log, new) /\ Covered(log, updated, seen)
    BY <1>3, <2>1, <2>2
  <2>5. QED
    BY <1>1, <1>3, <2>2, <2>3, <2>4, CoveredGrows
<1>4. \A p \in Pages : (Moved(p) => Moved(p)') /\ KnownOf(p) \subseteq KnownOf(p)'
  BY DEF Moved, KnownOf
<1>5. ASSUME NEW t \in SignalTicket, ledger'[t] # "absent"
      PROVE  Past(t[1])'
  BY <1>1, <1>5, Tickets DEF UpToDate, Dated
<1>6. ASSUME NEW t \in Ticket, runs'[t] = runs[t]
      PROVE  PastRun(t)'
  <2>1. PICK run \in RunState : run = runs[t]
    BY <1>1
  <2>2. PICK payload : payload = t[1]
    OBVIOUS
  <2>3. PastRun(t) /\ RunOf(t)
    BY <1>1 DEF UpToDate, Runs
  <2>4. run.at \in {"article", "log", "read"} =>
          payload \in Signal /\ payload[2] \in Time /\ payload[2] <= now
    BY <2>1, <2>2, <2>3, Tickets DEF RunOf, Signal
  <2>5. /\ run.at = "listed" => \A e \in run.list : Past(e)'
        /\ run.at = "compared" => \A e \in run.stale : Past(e)'
        /\ run.at = "article" => Past(payload)'
    <3>1. /\ run.at = "listed" => \A e \in run.list : Past(e) /\ e \in Signal /\ e[2] <= now
          /\ run.at = "compared" => \A e \in run.stale : Past(e) /\ e \in Signal /\ e[2] <= now
          /\ run.at = "article" => Past(payload)
      BY <2>1, <2>2, <2>3, SyncType DEF PastRun, RunOf
    <3>2. QED
      BY <2>4, <3>1
  <2>6. ASSUME run.at = "log"
        PROVE  Moved(run.page)' \/ Covered(wiki'[run.page].log, payload[2], run.entries)
    <3>1. run.page \in Pages
      BY <2>6, SyncType
    <3>2. Moved(run.page) \/ Covered(wiki[run.page].log, payload[2], run.entries)
      BY <2>1, <2>2, <2>3, <2>6 DEF PastRun
    <3>3. QED
      BY <1>3, <1>4, <2>4, <2>6, <3>1, <3>2
  <2>7. ASSUME run.at = "read"
        PROVE  \/ Moved(run.page)'
               \/ Covered(wiki'[run.page].log, payload[2], run.revs \cup KnownOf(run.page)')
    <3>1. PICK p \in Pages : p = run.page
      BY <2>7, SyncType
    <3>2. PICK seen : seen = run.revs \cup KnownOf(p)
      OBVIOUS
    <3>3. PICK more : more = run.revs \cup KnownOf(p)'
      OBVIOUS
    <3>4. Moved(p) \/ Covered(wiki[p].log, payload[2], seen)
      BY <2>1, <2>2, <2>3, <2>7, <3>1, <3>2 DEF PastRun
    <3>5. seen \subseteq more
      BY <1>4, <3>2, <3>3
    <3>6. Moved(p)' \/ Covered(wiki'[p].log, payload[2], more)
      BY <1>3, <1>4, <2>4, <2>7, <3>4, <3>5
    <3>7. QED
      BY <3>1, <3>3, <3>6
  <2>8. QED
    BY <1>6, <2>1, <2>2, <2>5, <2>6, <2>7 DEF PastRun
<1>7. ASSUME NEW p \in Pages, row'[p] = row[p]
      PROVE  CoveredRow(p)'
  <2>1. PICK updated \in Time : updated = row[p].updated
    BY <1>1
  <2>2. row[p].slug = NoSlug \/ Moved(p) \/ Covered(wiki[p].log, updated, KnownOf(p))
    BY <2>1 DEF UpToDate, CoveredRow
  <2>3. PICK seen : seen = KnownOf(p)
    OBVIOUS
  <2>4. PICK more : more = KnownOf(p)'
    OBVIOUS
  <2>5. row[p].slug = NoSlug \/ Moved(p)' \/ Covered(wiki'[p].log, updated, more)
    BY <1>3, <1>4, <2>2, <2>3, <2>4
  <2>6. QED
    BY <1>7, <2>1, <2>4, <2>5 DEF CoveredRow
<1>8. QED
  BY <1>5, <1>6, <1>7 DEF UpToDate

(* A step of the wiki adds an entry of this second to one log, or none,    *)
(* and gives a page no name that is in use.                                *)
LEMMA WikiShape ==
  ASSUME Inv, WikiNext
  PROVE  /\ UNCHANGED <<row, known, ledger, runs, astray>>
         /\ \/ UNCHANGED wiki
            \/ \E p \in Pages :
                 /\ \A q \in Pages \ {p} : wiki'[q] = wiki[q]
                 /\ wiki'[p].slug \in {wiki[p].slug, NoSlug} \/ At(wiki'[p].slug) = {}
                 /\ \/ /\ wiki'[p].log = wiki[p].log
                       /\ wiki'[p].slug \in {wiki[p].slug, NoSlug}
                    \/ /\ Extends(wiki[p].log, wiki'[p].log)
                       /\ Len(wiki'[p].log) # 0 /\ LastAt(wiki'[p].log) = now
<1>1. TypeOK /\ WikiIsSound /\ \A p \in Pages : wiki[p].slug \in Name
  BY DEF Inv, TypeOK
<1>2. ASSUME NEW p \in Pages, NEW s \in Slugs, NEW archives \in BOOLEAN, Log(p, s, archives)
      PROVE  /\ \A q \in Pages \ {p} : wiki'[q] = wiki[q]
             /\ wiki'[p].slug = s
             /\ Extends(wiki[p].log, wiki'[p].log)
             /\ Len(wiki'[p].log) # 0 /\ LastAt(wiki'[p].log) = now
             /\ UNCHANGED <<row, known, ledger, runs, astray>>
  <2>1. Len(wiki[p].log) \in Nat
    BY <1>1, LogFacts
  <2>2. PICK new \in Seq(LogEntry), entry \in LogEntry :
          /\ entry.at = now /\ Len(new) = Len(wiki[p].log) + 1 /\ new[Len(new)] = entry
          /\ Extends(wiki[p].log, new)
          /\ wiki'[p].slug = s /\ wiki'[p].log = new
          /\ \A q \in Pages \ {p} : wiki'[q] = wiki[q]
          /\ UNCHANGED <<pruned, now, database, ledger, runs, faults, astray>>
    BY <1>1, <1>2, LogStep
  <2>3. Len(new) # 0 /\ LastAt(new) = now
    BY <2>1, <2>2 DEF LastAt
  <2>4. QED
    BY <2>2, <2>3 DEF database
<1>3. ASSUME NEW p \in Pages, NEW s \in Slugs, CreatePage(p, s) \/ RenamePage(p, s)
      PROVE  /\ \A q \in Pages \ {p} : wiki'[q] = wiki[q]
             /\ At(wiki'[p].slug) = {}
             /\ Extends(wiki[p].log, wiki'[p].log)
             /\ Len(wiki'[p].log) # 0 /\ LastAt(wiki'[p].log) = now
             /\ UNCHANGED <<row, known, ledger, runs, astray>>
  BY <1>2, <1>3 DEF CreatePage, RenamePage
<1>4. ASSUME NEW p \in Pages, EditPage(p) \/ TagPage(p)
      PROVE  /\ \A q \in Pages \ {p} : wiki'[q] = wiki[q]
             /\ wiki'[p].slug = wiki[p].slug
             /\ Extends(wiki[p].log, wiki'[p].log)
             /\ Len(wiki'[p].log) # 0 /\ LastAt(wiki'[p].log) = now
             /\ UNCHANGED <<row, known, ledger, runs, astray>>
  <2>1. PICK s \in Slugs, archives \in BOOLEAN : s = wiki[p].slug /\ Log(p, s, archives)
    BY <1>1, <1>4 DEF EditPage, TagPage, Live, Name
  <2>2. QED
    BY <1>2, <2>1
<1>5. ASSUME NEW p \in Pages, DeletePage(p)
      PROVE  /\ \A q \in Pages \ {p} : wiki'[q] = wiki[q]
             /\ wiki'[p].log = wiki[p].log /\ wiki'[p].slug = NoSlug
             /\ UNCHANGED <<row, known, ledger, runs, astray>>
  <2>1. wiki \in [Pages -> [slug : Name, log : Seq(LogEntry)]]
    BY <1>1 DEF WikiIsSound
  <2>2. QED
    BY <1>5, <2>1 DEF DeletePage, database
<1>6. ASSUME Tick \/ \E r \in Rev : Prune(r)
      PROVE  UNCHANGED <<wiki, row, known, ledger, runs, astray>>
  BY <1>6 DEF Tick, Prune, database
<1>7. QED
  BY <1>3, <1>4, <1>5, <1>6 DEF WikiNext

LEMMA UpToDateWiki ==
  ASSUME Inv, Inv', UpToDate, WikiNext
  PROVE  UpToDate'
<1>1. /\ TypeOK /\ WikiIsSound /\ WikiIsSound' /\ NamesAndTimes
      /\ now \in Int /\ Time \subseteq Int /\ NoSlug \notin Slugs
  BY RuAssumption DEF Inv, TypeOK, Time, UpToDate
<1>2. UNCHANGED <<row, known, ledger, runs, astray>>
  BY WikiShape
<1>3. CASE UNCHANGED wiki
  <2>1. \A p \in Pages : Extends(wiki[p].log, wiki'[p].log)
    BY <1>3 DEF Extends
  <2>2. NamesAndTimes' /\ \A e \in Signal : e[2] <= now /\ Past(e) => Past(e)'
    BY <1>1, <1>3 DEF NamesAndTimes, Past
  <2>3. QED
    BY <1>2, <2>1, <2>2, UpToDateGoesOn
<1>4. ASSUME NEW p \in Pages,
             \A q \in Pages \ {p} : wiki'[q] = wiki[q],
             wiki'[p].slug \in {wiki[p].slug, NoSlug} \/ At(wiki'[p].slug) = {},
             \/ /\ wiki'[p].log = wiki[p].log
                /\ wiki'[p].slug \in {wiki[p].slug, NoSlug}
             \/ /\ Extends(wiki[p].log, wiki'[p].log)
                /\ Len(wiki'[p].log) # 0 /\ LastAt(wiki'[p].log) = now
      PROVE  UpToDate'
  <2>1. \A q \in Pages : Extends(wiki[q].log, wiki'[q].log)
    BY <1>4 DEF Extends
  <2>2. ASSUME NEW q \in Pages, NEW n \in DOMAIN wiki'[q].log
        PROVE  wiki'[q].log[n].at <= LastAt(wiki'[q].log)
    <3>1. CASE wiki'[q].log = wiki[q].log
      BY <1>1, <3>1 DEF NamesAndTimes
    <3>2. CASE q = p /\ LastAt(wiki'[p].log) = now
      <4>1. now' = now \/ UNCHANGED wiki
        BY DEF WikiNext, CreatePage, RenamePage, EditPage, TagPage, DeletePage, Prune, Tick, Log
      <4>2. CASE now' = now
        <5>1. wiki'[q].log[n].at <= now
          BY <1>1, <4>2 DEF WikiIsSound
        <5>2. QED
          BY <3>2, <5>1
      <4>3. QED
        BY <3>1, <4>1, <4>2
    <3>3. QED
      BY <1>4, <3>1, <3>2
  <2>3. ASSUME NEW a \in Pages, NEW b \in Pages,
               wiki'[a].slug = wiki'[b].slug, wiki'[a].slug # NoSlug
        PROVE  a = b
    <3>1. \A q \in Pages \ {p} : wiki[q].slug # NoSlug /\ wiki[q].slug = wiki'[p].slug => FALSE
      BY <1>1, <1>4 DEF NamesAndTimes, At
    <3>2. QED
      BY <1>1, <1>4, <2>3, <3>1 DEF NamesAndTimes
  <2>4. NamesAndTimes'
    BY <2>2, <2>3 DEF NamesAndTimes
  <2>5. ASSUME NEW e \in Signal, e[2] <= now, Past(e)
        PROVE  Past(e)'
    <3> SUFFICES ASSUME NEW q \in Pages, wiki'[q].slug = e[1]
                 PROVE  e[2] <= LastAt(wiki'[q].log)
      BY DEF Past
    <3>1. CASE wiki'[q].log = wiki[q].log /\ wiki'[q].slug = wiki[q].slug
      BY <2>5, <3>1 DEF Past
    <3>2. CASE q = p /\ LastAt(wiki'[p].log) = now
      BY <2>5, <3>2
    <3>3. QED
      BY <1>1, <1>4, <3>1, <3>2 DEF Signal
  <2>6. QED
    BY <1>2, <2>1, <2>4, <2>5, UpToDateGoesOn
<1>5. QED
  BY <1>3, <1>4, WikiShape

(* Steps of jobs: a run that goes on or ends, and one that commits.        *)
LEMMA UpToDateRuns ==
  ASSUME Inv, Inv', UpToDate, UNCHANGED upstream, known \subseteq known', astray \subseteq astray',
         \A t \in SignalTicket : ledger'[t] # "absent" => ledger[t] # "absent" \/ Past(t[1]),
         \A t \in Ticket : runs'[t] = runs[t] \/ runs'[t] = Idle \/ PastRun(t)',
         \A p \in Pages : row'[p] = row[p] \/ CoveredRow(p)'
  PROVE  UpToDate'
<1>1. UNCHANGED <<wiki, now>> /\ NamesAndTimes
  BY DEF upstream, UpToDate
<1>2. NamesAndTimes' /\ \A e : Past(e) <=> Past(e)'
  BY <1>1 DEF NamesAndTimes, Past
<1>3. \A p \in Pages : Extends(wiki[p].log, wiki'[p].log)
  BY <1>1 DEF Extends
<1>4. \A t \in Ticket : runs'[t] = Idle => PastRun(t)'
  BY DEF PastRun, Idle
<1>5. QED
  BY <1>2, <1>3, <1>4, UpToDateGoesOn

LEMMA UpToDateServes ==
  ASSUME Inv, Inv', UpToDate, UNCHANGED upstream, known \subseteq known', astray \subseteq astray',
         NEW t \in Ticket, NEW req, Serve(t, req),
         \A w \in req.wants \cap Signal : Past(w),
         \A p \in Pages : row'[p] = row[p] \/ CoveredRow(p)'
  PROVE  UpToDate'
<1>1. ledger \in [Ticket -> Status] /\ runs \in [Ticket -> RunState]
  BY DEF Inv, TypeOK, Status
<1>2. Queue!Serve(t, req) /\ runs' = [runs EXCEPT ![t] = Idle]
  BY DEF Serve
<1>3. /\ ledger[t] = "open"
      /\ \A u \in Ticket \ {t} : u[1] \notin req.wants => ledger'[u] = ledger[u]
  BY <1>1, <1>2, Served
<1>4. ASSUME NEW u \in SignalTicket, ledger'[u] # "absent"
      PROVE  ledger[u] # "absent" \/ Past(u[1])
  <2>1. u \in Ticket /\ u[1] \in Signal
    BY Tickets
  <2>2. QED
    BY <1>3, <1>4, <2>1
<1>5. \A u \in Ticket : runs'[u] = runs[u] \/ runs'[u] = Idle
  BY <1>1, <1>2
<1>6. QED
  BY <1>4, <1>5, UpToDateRuns

(* One run goes on, and no more.                                           *)
LEMMA UpToDateReads ==
  ASSUME Inv, Inv', UpToDate, UNCHANGED <<upstream, database, ledger>>, astray \subseteq astray',
         NEW t \in Ticket, \A u \in Ticket \ {t} : runs'[u] = runs[u], PastRun(t)'
  PROVE  UpToDate'
<1>1. UNCHANGED <<row, known>>
  BY DEF database
<1>2. QED
  BY <1>1, UpToDateRuns

LEMMA UpToDatePeriodic ==
  ASSUME Inv, Inv', UpToDate, DiscoverList \/ DiscoverGoesOn \/ Backfill
  PROVE  UpToDate'
<1>1. /\ runs \in [Ticket -> RunState] /\ known \subseteq Rev /\ Rev \cap Signal = {}
      /\ NamesAndTimes /\ \A t \in Ticket : PastRun(t)
  BY RuAssumption DEF Inv, TypeOK, UpToDate
<1>2. PICK d \in Ticket : d = DiscoverTicket
  BY Tickets DEF Periodic, DiscoverTicket
<1>3. CASE DiscoverList
  <2>1. PICK list : list = {<<wiki[p].slug, UpdatedAt(p)>> : p \in Live}
    OBVIOUS
  <2>2. PICK run : run = [at |-> "listed", list |-> list]
    OBVIOUS
  <2>3. /\ UNCHANGED <<upstream, database, ledger, faults, astray>>
        /\ runs' = [runs EXCEPT ![d] = run]
    BY <1>2, <1>3, <2>1, <2>2 DEF DiscoverList, Begin
  <2>4. ASSUME NEW e \in list
        PROVE  Past(e)'
    <3>1. PICK p \in Live : e = <<wiki[p].slug, UpdatedAt(p)>>
      BY <2>1
    <3>2. p \in Pages /\ wiki[p].slug # NoSlug /\ UpdatedAt(p) = LastAt(wiki[p].log)
      BY DEF Live, UpdatedAt, LastAt
    <3>3. UpdatedAt(p) \in Int
      <4>1. wiki[p].log \in Seq(LogEntry) /\ Len(wiki[p].log) # 0
        BY <3>2, LogFacts DEF Inv, WikiIsSound
      <4>2. wiki[p].log[Len(wiki[p].log)] \in LogEntry
        BY <4>1
      <4>3. QED
        BY <4>2, RuAssumption DEF LogEntry, Time, UpdatedAt
    <3>4. \A q \in Pages : wiki[q].slug = wiki[p].slug => q = p
      BY <1>1, <3>2 DEF NamesAndTimes
    <3>5. wiki' = wiki
      BY <2>3 DEF upstream
    <3>6. QED
      BY <3>1, <3>2, <3>3, <3>4, <3>5 DEF Past
  <2>5. PastRun(d)' /\ \A u \in Ticket \ {d} : runs'[u] = runs[u]
    <3>1. runs'[d] = run /\ \A u \in Ticket \ {d} : runs'[u] = runs[u]
      BY <1>1, <2>3
    <3>2. QED
      BY <2>2, <2>4, <3>1 DEF PastRun
  <2>6. QED
    BY <2>3, <2>5, UpToDateReads
<1>4. CASE DiscoverCompare
  <2>1. PICK old : old = runs[d]
    OBVIOUS
  <2>2. old.at = "listed" /\ \A e \in old.list : Past(e)
    BY <1>1, <1>2, <1>4, <2>1 DEF DiscoverCompare, PastRun
  <2>3. PICK run : run = [at |-> "compared", stale |-> Stale(old.list)]
    OBVIOUS
  <2>4. /\ UNCHANGED <<upstream, database, ledger, faults, astray>>
        /\ runs' = [runs EXCEPT ![d] = run]
    BY <1>1, <1>2, <1>4, <2>1, <2>3 DEF DiscoverCompare
  <2>5. wiki' = wiki /\ Stale(old.list) \subseteq old.list
    BY <2>4 DEF upstream, Stale
  <2>6. PastRun(d)' /\ \A u \in Ticket \ {d} : runs'[u] = runs[u]
    <3>1. runs'[d] = run /\ \A u \in Ticket \ {d} : runs'[u] = runs[u]
      BY <1>1, <2>4
    <3>2. \A e \in old.list : Past(e)'
      BY <2>2, <2>5 DEF Past
    <3>3. QED
      BY <2>3, <2>5, <3>1, <3>2 DEF PastRun
  <2>7. QED
    BY <2>4, <2>6, UpToDateReads
<1>5. CASE DiscoverCommit
  <2>1. PICK old : old = runs[d]
    OBVIOUS
  <2>2. old.at = "compared" /\ \A e \in old.stale : Past(e)
    BY <1>1, <1>2, <1>5, <2>1 DEF DiscoverCommit, PastRun
  <2>3. PICK req : req = Request(old.stale, {})
    OBVIOUS
  <2>4. req.wants = old.stale
    BY <2>3 DEF Request
  <2>5. Serve(d, req) /\ UNCHANGED <<upstream, row, known, astray>>
    BY <1>2, <1>5, <2>1, <2>3 DEF DiscoverCommit, database
  <2>6. QED
    BY <2>2, <2>4, <2>5, UpToDateServes
<1>6. CASE Backfill
  <2>1. PICK bare : bare = {r \in known : ~Settled(r)}
    OBVIOUS
  <2>2. PICK req : req = Request(bare, bare)
    OBVIOUS
  <2>3. req.wants \cap Signal = {}
    BY <1>1, <2>1, <2>2 DEF Request
  <2>4. PICK b \in Ticket : b = <<BACKFILL, 1>>
    BY Tickets DEF Periodic
  <2>5. Serve(b, req) /\ UNCHANGED <<upstream, row, known, astray>>
    BY <1>6, <2>1, <2>2, <2>4 DEF Backfill, database
  <2>6. QED
    BY <2>3, <2>5, UpToDateServes
<1>7. QED
  BY <1>3, <1>4, <1>5, <1>6 DEF DiscoverGoesOn

(* The entries a log request brings are all there are, and what of them is *)
(* not above max_rev is known.                                             *)
LEMMA UpToDateSyncs ==
  ASSUME Inv, Inv', UpToDate, NEW t \in SignalTicket,
         SyncArticle(t) \/ SyncLog(t) \/ SyncFiles(t) \/ SyncCommit(t)
  PROVE  UpToDate'
<1>1. /\ TypeOK /\ WikiIsSound /\ Runs /\ NoGap /\ t \in Ticket /\ runs \in [Ticket -> RunState]
      /\ RunOf(t) /\ PastRun(t)
      /\ ledger[t] # "absent" => Past(t[1])
      /\ MaxLog \in Nat /\ NoSlug \notin Slugs
  BY Tickets, RuAssumption DEF Inv, TypeOK, Runs, UpToDate
<1>2. PICK old \in RunState : old = runs[t]
  BY <1>1
<1>3. PICK slug \in Slugs, updated \in Time : slug = t[1][1] /\ updated = t[1][2]
  BY DEF SignalTicket, Signal
<1>4. CASE SyncArticle(t)
  <2>1. PICK p \in Pages : Begin(t, [at |-> "article", page |-> p, source |-> Newest(p)])
    BY <1>4 DEF SyncArticle, At
  <2>2. PICK run : run = [at |-> "article", page |-> p, source |-> Newest(p)]
    OBVIOUS
  <2>3. /\ ledger[t] = "open" /\ runs' = [runs EXCEPT ![t] = run]
        /\ UNCHANGED <<upstream, database, ledger, astray>>
    BY <1>4, <2>1, <2>2 DEF Begin, SyncArticle
  <2>4. runs'[t] = run /\ run.at = "article" /\ \A u \in Ticket \ {t} : runs'[u] = runs[u]
    BY <1>1, <2>2, <2>3
  <2>5. Past(t[1])'
    BY <1>1, <2>3 DEF Past, upstream
  <2>6. PastRun(t)'
    BY <2>4, <2>5 DEF PastRun
  <2>7. QED
    BY <1>1, <2>3, <2>4, <2>6, UpToDateReads
<1>5. CASE SyncLog(t)
  <2>1. PICK q \in At(t[1][1]) :
          /\ runs' = [runs EXCEPT ![t] =
               [at |-> "log", page |-> runs[t].page, source |-> runs[t].source,
                entries |-> Snapshots(wiki[q].log)]]
          /\ astray' = astray \cup
               (CASE q # runs[t].page -> {<<runs[t].page, "moved">>}
                  [] q = runs[t].page /\ Newest(q) # runs[t].source -> {<<q, "edited">>}
                  [] OTHER -> {})
    BY <1>5 DEF SyncLog
  <2>2. q \in Pages /\ wiki[q].slug = slug /\ old.at = "article"
        /\ UNCHANGED <<upstream, database, ledger>>
    BY <1>2, <1>3, <1>5 DEF SyncLog, At
  <2>3. PICK run : run = [at |-> "log", page |-> old.page, source |-> old.source,
                          entries |-> Snapshots(wiki[q].log)]
    OBVIOUS
  <2>4. runs' = [runs EXCEPT ![t] = run]
    BY <1>2, <2>1, <2>3
  <2>5. /\ runs'[t] = run /\ \A u \in Ticket \ {t} : runs'[u] = runs[u]
        /\ run.at = "log" /\ run.page = old.page /\ run.entries = Snapshots(wiki[q].log)
    BY <1>1, <2>3, <2>4
  <2>6. Covered(wiki[q].log, updated, Snapshots(wiki[q].log))
    <3>1. Len(wiki[q].log) # 0
      BY <1>1, <2>2 DEF WikiIsSound
    <3>2. Past(t[1])
      BY <1>1, <1>2, <2>2 DEF PastRun
    <3>3. updated <= LastAt(wiki[q].log)
      BY <1>3, <2>2, <3>2 DEF Past
    <3>4. QED
      BY <3>1, <3>3 DEF Covered
  <2>7. q = old.page \/ <<old.page, "moved">> \in astray'
    BY <1>2, <2>1
  <2>8. PastRun(t)'
    BY <1>3, <2>2, <2>5, <2>6, <2>7 DEF PastRun, Moved, upstream
  <2>9. astray \subseteq astray'
    BY <2>1
  <2>10. QED
    BY <1>1, <2>2, <2>5, <2>8, <2>9, UpToDateReads
<1>6. CASE SyncFiles(t)
  <2>1. old.at = "log" /\ UNCHANGED <<upstream, database, ledger, astray>>
    BY <1>2, <1>6 DEF SyncFiles
  <2>2. PICK p \in Pages : p = old.page
    BY <2>1, SyncType
  <2>3. PICK revs : revs = SnapshotsAbove(old.entries, MaxKnown(p))
    OBVIOUS
  <2>4. PICK run : run = [at |-> "read", page |-> p, source |-> old.source, revs |-> revs]
    OBVIOUS
  <2>5. runs' = [runs EXCEPT ![t] = run]
    BY <1>2, <1>6, <2>2, <2>3, <2>4 DEF SyncFiles
  <2>6. /\ runs'[t] = run /\ \A u \in Ticket \ {t} : runs'[u] = runs[u]
        /\ run.at = "read" /\ run.page = p /\ run.revs = revs
    BY <1>1, <2>4, <2>5
  <2>7. ASSUME ~Moved(p)
        PROVE  Covered(wiki[p].log, updated, revs \cup KnownOf(p))
    <3>1. Covered(wiki[p].log, updated, old.entries)
      BY <1>1, <1>2, <1>3, <2>1, <2>2, <2>7 DEF PastRun
    <3>2. ASSUME NEW n \in Snapshots(wiki[p].log), n \in old.entries
          PROVE  n \in revs \cup KnownOf(p)
      <4>1. n \in 1 .. MaxLog /\ MaxKnown(p) \in 0 .. MaxLog
        BY <1>1, LogFacts, MaxKnownFacts
      <4>2. CASE n > MaxKnown(p)
        BY <2>3, <3>2, <4>2 DEF SnapshotsAbove
      <4>3. CASE ~(n > MaxKnown(p))
        <5>1. n <= MaxKnown(p)
          BY <1>1, <4>1, <4>3
        <5>2. QED
          BY <1>1, <2>7, <4>1, <5>1, BelowMax DEF KnownOf
      <4>4. QED
        BY <4>2, <4>3
    <3>3. QED
      BY <3>1, <3>2 DEF Covered
  <2>8. UNCHANGED <<wiki, known, astray>>
    BY <2>1 DEF upstream, database
  <2>9. PastRun(t)'
    BY <1>3, <2>6, <2>7, <2>8 DEF PastRun, Moved, KnownOf
  <2>10. QED
    BY <1>1, <2>1, <2>6, <2>9, UpToDateReads
<1>7. CASE SyncCommit(t)
  <2>1. PICK p \in Pages, revs \in SUBSET (1 .. MaxLog) :
          p = old.page /\ revs = old.revs /\ old.at = "read"
    BY <1>2, <1>7, SyncType DEF SyncCommit
  <2>2. PICK fetches : fetches = {p} \X BelowHead(revs)
    OBVIOUS
  <2>3. PICK req : req = Request(fetches, fetches)
    OBVIOUS
  <2>4. /\ row' = [row EXCEPT ![p] = [slug |-> slug, updated |-> updated]]
        /\ known' = known \cup ({p} \X revs)
        /\ Serve(t, req) /\ UNCHANGED <<upstream, astray>>
    BY <1>2, <1>3, <1>7, <2>1, <2>2, <2>3 DEF SyncCommit, Watermark
  <2>5. req.wants \cap Signal = {}
    <3>1. fetches \subseteq Rev
      BY <2>2 DEF BelowHead, Rev
    <3>2. QED
      BY <2>3, <3>1, RuAssumption DEF Request
  <2>6. row \in [Pages -> [slug : Name, updated : Time]]
    BY <1>1 DEF TypeOK
  <2>7. row'[p].updated = updated /\ \A q \in Pages \ {p} : row'[q] = row[q]
    BY <2>4, <2>6
  <2>8. Moved(p) \/ Covered(wiki[p].log, updated, revs \cup KnownOf(p))
    BY <1>1, <1>2, <1>3, <2>1 DEF PastRun
  <2>9. KnownOf(p)' = revs \cup KnownOf(p)
    BY <2>4 DEF KnownOf
  <2>10. CoveredRow(p)'
    <3>1. UNCHANGED <<wiki, astray>>
      BY <2>4 DEF upstream
    <3>2. Moved(p)' \/ Covered(wiki'[p].log, row'[p].updated, KnownOf(p)')
      BY <2>7, <2>8, <2>9, <3>1 DEF Moved
    <3>3. QED
      BY <3>2 DEF CoveredRow
  <2>11. known \subseteq known'
    BY <2>4
  <2>12. QED
    BY <1>1, <2>4, <2>5, <2>7, <2>10, <2>11, UpToDateServes
<1>8. QED
  BY <1>4, <1>5, <1>6, <1>7

LEMMA UpToDateFetches ==
  ASSUME Inv, Inv', UpToDate, NEW t \in RevTicket, FetchBegin(t) \/ FetchGoesOn(t)
  PROVE  UpToDate'
<1>1. t \in Ticket /\ runs \in [Ticket -> RunState]
  BY Tickets DEF Inv, TypeOK
<1>2. CASE FetchBegin(t)
  <2>1. PICK run : /\ run.at \in {"skip", "fetching"} /\ runs' = [runs EXCEPT ![t] = run]
                   /\ UNCHANGED <<upstream, database, ledger, astray>>
    <3>1. CASE Settled(t[1])
      <4>1. PICK run : run = [at |-> "skip"]
        OBVIOUS
      <4>2. run.at \in {"skip", "fetching"}
        BY <4>1
      <4>3. QED
        BY <1>2, <3>1, <4>1, <4>2 DEF FetchBegin, Begin
    <3>2. CASE ~Settled(t[1])
      <4>1. PICK run : run = [at |-> "fetching", slug |-> row[t[1][1]].slug]
        OBVIOUS
      <4>2. run.at \in {"skip", "fetching"}
        BY <4>1
      <4>3. QED
        BY <1>2, <3>2, <4>1, <4>2 DEF FetchBegin, Begin
    <3>3. QED
      BY <3>1, <3>2
  <2>2. runs'[t] = run /\ \A u \in Ticket \ {t} : runs'[u] = runs[u]
    BY <1>1, <2>1
  <2>3. PastRun(t)'
    BY <2>1, <2>2 DEF PastRun
  <2>4. QED
    BY <1>1, <2>1, <2>2, <2>3, UpToDateReads
<1>3. CASE FetchGoesOn(t)
  <2>1. PICK req : req = Request({}, {})
    OBVIOUS
  <2>2. req.wants \cap Signal = {}
    BY <2>1 DEF Request
  <2>3. Serve(t, req) /\ UNCHANGED <<upstream, row, known>> /\ astray \subseteq astray'
    BY <1>3, <2>1 DEF FetchGoesOn, FetchSkip, FetchStore, FetchDeny, database
  <2>4. QED
    BY <1>1, <2>2, <2>3, UpToDateServes
<1>4. QED
  BY <1>2, <1>3

LEMMA UpToDateEnds ==
  ASSUME Inv, Inv', UpToDate, NEW t \in Ticket,
         RunLost(t) \/ RunDropped(t) \/ SyncNotFound(t) \/ Crash
  PROVE  UpToDate'
<1>1. ledger \in [Ticket -> Status] /\ runs \in [Ticket -> RunState]
  BY DEF Inv, TypeOK, Status
<1>2. UNCHANGED <<upstream, row, known, astray>>
  BY DEF RunLost, RunDropped, SyncNotFound, Crash, database
<1>3. \A u \in Ticket : runs'[u] = runs[u] \/ runs'[u] = Idle
  BY <1>1 DEF RunLost, RunDropped, SyncNotFound, Crash
<1>4. \A u \in Ticket : ledger'[u] # "absent" => ledger[u] # "absent"
  BY <1>1 DEF RunLost, RunDropped, SyncNotFound, Crash, Queue!Drop
<1>5. \A u \in SignalTicket : u \in Ticket
  BY Tickets
<1>6. QED
  BY <1>2, <1>3, <1>4, <1>5, UpToDateRuns

-----------------------------------------------------------------------------
(* The theorems.                                                           *)

LEMMA InitInv == Init => Inv
<1> SUFFICES ASSUME Init PROVE Inv
  OBVIOUS
<1>1. /\ {MaxLog, MaxTime, MaxChanges, MaxFaults} \subseteq Nat
      /\ Rev \cap Signal = {} /\ Periodic \cap (Rev \cup Signal) = {}
      /\ \A t \in Ticket : runs[t] = Idle
      /\ known = {} /\ denied = {} /\ now = 0
  BY RuAssumption DEF Init
<1>2. PICK page \in [slug : Name, log : Seq(LogEntry)] :
        page.slug = NoSlug /\ page.log = <<>> /\ wiki = [p \in Pages |-> page]
  <2>1. PICK none \in Seq(LogEntry) : none = <<>>
    <3>1. <<>> \in Seq(LogEntry)
      OBVIOUS
    <3>2. QED
      BY <3>1, Zenon
  <2>2. PICK name \in Name : name = NoSlug
    BY DEF Name
  <2>3. PICK page \in [slug : Name, log : Seq(LogEntry)] : page = [slug |-> name, log |-> none]
    OBVIOUS
  <2>4. QED
    BY <2>1, <2>2, <2>3 DEF Init
<1>3. WikiIsSound
  BY <1>1, <1>2 DEF WikiIsSound, Snapshots
<1>4. TypeOK
  <2>1. runs \in [Ticket -> RunState]
    BY DEF Init, RunState
  <2>2. ledger \in [Ticket -> {"absent", "open", "done", "dead"}]
    BY DEF Init
  <2>3. /\ row \in [Pages -> [slug : Name, updated : Time]]
        /\ \A p \in Pages : row[p].slug = NoSlug
    BY <1>1 DEF Init, Name, Time
  <2>4. \A p \in Pages : wiki[p].slug \in Name /\ Len(wiki[p].log) <= MaxLog
    BY <1>1, <1>2
  <2>5. /\ pruned \subseteq Rev /\ now \in Time
        /\ changes \in 0 .. MaxChanges /\ faults \in 0 .. MaxFaults
        /\ text \in [Rev -> Rev \cup {NoText}]
    BY <1>1 DEF Init, Time
  <2>6. QED
    BY <1>1, <2>1, <2>2, <2>3, <2>4, <2>5 DEF TypeOK
<1>5. Dated
  <2>1. \A p \in Pages : row[p].updated = 0
    BY DEF Init
  <2>2. \A t \in SignalTicket : ledger[t] = "absent"
    BY Tickets, RuAssumption DEF Init
  <2>3. QED
    BY <1>1, <2>1, <2>2 DEF Dated
<1>6. RowsAreSound
  <2>1. \A r \in Rev : text[r] = NoText
    BY DEF Init
  <2>2. \A r \in Rev : ledger[Fetch(r)] = "absent"
    <3>1. \A r \in Rev : Fetch(r) \in Ticket /\ Fetch(r)[1] \notin Periodic
      BY Tickets
    <3>2. QED
      BY <3>1 DEF Init
  <2>3. QED
    BY <1>1, <2>1, <2>2 DEF RowsAreSound
<1>7. Runs
  BY <1>1 DEF Runs, RunOf, Idle
<1>8. NoGap /\ NothingStranded /\ ArchiveIsTrue
  BY <1>1 DEF NoGap, NothingStranded, ArchiveIsTrue
<1>9. WatermarkHonest
  BY <1>2 DEF WatermarkHonest, Snapshots
<1>10. QED
  BY <1>3, <1>4, <1>5, <1>6, <1>7, <1>8, <1>9 DEF Inv

LEMMA StepInv == Inv /\ [Next]_vars => Inv'
<1> SUFFICES ASSUME Inv, [Next]_vars PROVE Inv'
  OBVIOUS
<1>1. CASE UNCHANGED vars
  <2>1. UNCHANGED <<wiki, pruned, now, changes, row, known, text, denied,
                    ledger, runs, faults, astray>>
    BY <1>1 DEF vars, upstream, database
  <2>2. UNCHANGED <<upstream, database, astray, ledger>>
    BY <2>1 DEF upstream, database
  <2>3. /\ faults' \in 0 .. MaxFaults /\ runs' \in [Ticket -> RunState]
        /\ \A u \in Ticket : runs'[u] = runs[u] \/ runs'[u] = Idle
    BY <2>1 DEF Inv, TypeOK
  <2>4. QED
    BY <2>2, <2>3, FaultInv
<1>2. CASE WikiNext
  BY <1>2, UpstreamInv
<1>3. CASE DiscoverList \/ DiscoverGoesOn \/ Backfill
  BY <1>3, PeriodicInv
<1>4. ASSUME NEW t \in SignalTicket, SyncArticle(t) \/ SyncGoesOn(t)
      PROVE  Inv'
  <2>1. t \in Ticket
    BY Tickets
  <2>2. QED
    BY <1>4, <2>1, SyncReads, SyncCommits, EndsInv DEF SyncGoesOn
<1>5. ASSUME NEW t \in RevTicket, FetchBegin(t) \/ FetchGoesOn(t)
      PROVE  Inv'
  BY <1>5, FetchReads, FetchCommits DEF FetchGoesOn
<1>6. ASSUME NEW t \in Ticket, RunLost(t) \/ RunDropped(t)
      PROVE  Inv'
  BY <1>6, EndsInv
<1>7. CASE Crash
  <2>1. \E t \in Ticket : TRUE
    BY <1>7 DEF Crash
  <2>2. QED
    BY <1>7, <2>1, EndsInv
<1>8. QED
  BY <1>1, <1>2, <1>3, <1>4, <1>5, <1>6, <1>7 DEF Next

(* The invariant holds of every behaviour.                                 *)
THEOREM Invariance == Spec => []Inv
<1>1. QED
  BY InitInv, StepInv, PTL DEF Spec

(* Every variable has its type; page rows have distinct slugs, and only    *)
(* rows are denied.                                                        *)
THEOREM TypeCorrect == Spec => []TypeOK
<1>1. Inv => TypeOK
  BY DEF Inv
<1>2. QED
  BY <1>1, Invariance, PTL

(* Below a revision row no snapshot is missing.                            *)
THEOREM RowsHaveNoGap == Spec => []NoGap
<1>1. Inv => NoGap
  BY DEF Inv
<1>2. QED
  BY <1>1, Invariance, PTL

(* What a page row's watermark promises is known.                          *)
THEOREM WatermarksAreHonest == Spec => []WatermarkHonest
<1>1. Inv => WatermarkHonest
  BY DEF Inv
<1>2. QED
  BY <1>1, Invariance, PTL

(* A revision row without content has a fetch job.                         *)
THEOREM RowsHaveAJob == Spec => []NothingStranded
<1>1. Inv => NothingStranded
  BY DEF Inv
<1>2. QED
  BY <1>1, Invariance, PTL

(* Of a page at rest, what is stored is true.                              *)
THEOREM StoredIsTrue == Spec => []ArchiveIsTrue
<1>1. Inv => ArchiveIsTrue
  BY DEF Inv
<1>2. QED
  BY <1>1, Invariance, PTL

LEMMA InitUpToDate == Init => UpToDate
<1> SUFFICES ASSUME Init PROVE UpToDate
  OBVIOUS
<1>1. /\ \A p \in Pages : wiki[p].slug = NoSlug /\ wiki[p].log = <<>> /\ row[p].slug = NoSlug
      /\ \A t \in Ticket : runs[t] = Idle
  BY DEF Init
<1>2. \A t \in SignalTicket : ledger[t] = "absent"
  BY Tickets, RuAssumption DEF Init
<1>3. NamesAndTimes
  BY <1>1 DEF NamesAndTimes
<1>4. \A t \in Ticket : PastRun(t)
  BY <1>1 DEF PastRun, Idle
<1>5. QED
  BY <1>1, <1>2, <1>3, <1>4 DEF UpToDate, CoveredRow

LEMMA StepUpToDate == Inv /\ Inv' /\ UpToDate /\ [Next]_vars => UpToDate'
<1> SUFFICES ASSUME Inv, Inv', UpToDate, [Next]_vars PROVE UpToDate'
  OBVIOUS
<1>1. CASE UNCHANGED vars
  <2>1. UNCHANGED <<upstream, row, known, ledger, runs, astray>>
    BY <1>1 DEF vars, database
  <2>2. QED
    BY <2>1, UpToDateRuns
<1>2. CASE WikiNext
  BY <1>2, UpToDateWiki
<1>3. CASE DiscoverList \/ DiscoverGoesOn \/ Backfill
  BY <1>3, UpToDatePeriodic
<1>4. ASSUME NEW t \in SignalTicket, SyncArticle(t) \/ SyncGoesOn(t)
      PROVE  UpToDate'
  <2>1. t \in Ticket
    BY Tickets
  <2>2. QED
    BY <1>4, <2>1, UpToDateSyncs, UpToDateEnds DEF SyncGoesOn
<1>5. ASSUME NEW t \in RevTicket, FetchBegin(t) \/ FetchGoesOn(t)
      PROVE  UpToDate'
  BY <1>5, UpToDateFetches
<1>6. ASSUME NEW t \in Ticket, RunLost(t) \/ RunDropped(t)
      PROVE  UpToDate'
  BY <1>6, UpToDateEnds
<1>7. CASE Crash
  <2>1. \E t \in Ticket : TRUE
    BY <1>7 DEF Crash
  <2>2. QED
    BY <1>7, <2>1, UpToDateEnds
<1>8. QED
  BY <1>1, <1>2, <1>3, <1>4, <1>5, <1>6, <1>7 DEF Next

(* Rows that cover all they claim are all discover needs.                  *)
LEMMA UpToDateSuffices == Inv /\ UpToDate => NothingOverlooked
<1> SUFFICES ASSUME Inv, UpToDate,
                    NEW p \in Live, Stale({<<wiki[p].slug, UpdatedAt(p)>>}) = {},
                    ~Moved(p), ~Tied(p), ~Displaced(p),
                    NEW n \in Snapshots(wiki[p].log)
             PROVE  <<p, n>> \in known
  BY DEF NothingOverlooked
<1>1. /\ TypeOK /\ WikiIsSound /\ p \in Pages /\ wiki[p].slug # NoSlug
      /\ CoveredRow(p) /\ NamesAndTimes /\ MaxLog \in Nat /\ Time \subseteq Int
  BY RuAssumption DEF Inv, UpToDate, Live, Time
<1>2. PICK entry : entry = <<wiki[p].slug, UpdatedAt(p)>>
  OBVIOUS
<1>3. PICK q \in Pages : row[q].slug = wiki[p].slug /\ ~(row[q].updated < UpdatedAt(p))
  <2>1. entry \notin Stale({entry}) /\ entry[1] = wiki[p].slug /\ entry[2] = UpdatedAt(p)
    BY <1>2
  <2>2. QED
    BY <2>1 DEF Stale
<1>4. q = p
  BY <1>3 DEF Displaced
<1>5. Covered(wiki[p].log, row[p].updated, KnownOf(p)) /\ ~TiedIn(wiki[p].log)
  BY <1>1, <1>3, <1>4 DEF CoveredRow, Tied, TiedIn
<1>6. wiki[p].log[n].at <= row[p].updated
  <2>1. n \in DOMAIN wiki[p].log /\ Len(wiki[p].log) \in DOMAIN wiki[p].log
    BY <1>1, LogFacts DEF Snapshots, WikiIsSound
  <2>2. wiki[p].log[n].at \in Int /\ wiki[p].log[Len(wiki[p].log)].at \in Int
    <3>1. wiki[p].log[n] \in LogEntry /\ wiki[p].log[Len(wiki[p].log)] \in LogEntry
      BY <1>1, <2>1, LogFacts
    <3>2. QED
      BY <1>1, <3>1 DEF LogEntry
  <2>3. row[p].updated \in Int
    BY <1>1 DEF TypeOK
  <2>4. wiki[p].log[n].at <= UpdatedAt(p) /\ UpdatedAt(p) \in Int
    BY <1>1, <2>1, <2>2 DEF NamesAndTimes, UpdatedAt, LastAt
  <2>5. QED
    BY <1>3, <1>4, <2>2, <2>3, <2>4
<1>7. n \in KnownOf(p)
  BY <1>5, <1>6 DEF Covered
<1>8. QED
  BY <1>7 DEF KnownOf

(* What discover passes over as up to date has all its rows, ties within a *)
(* second, misled runs and displaced slugs aside.                          *)
THEOREM NothingIsOverlooked == Spec => []NothingOverlooked
<1>1. Spec => []UpToDate
  BY InitUpToDate, StepUpToDate, Invariance, PTL DEF Spec
<1>2. QED
  BY <1>1, UpToDateSuffices, Invariance, PTL

=============================================================================
