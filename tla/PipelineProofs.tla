--------------------------- MODULE PipelineProofs ---------------------------
(* Theorems about Pipeline, for every set of pages and slugs, every number *)
(* of revisions, window size, number of runs and signals.                  *)
EXTENDS Pipeline, FiniteSetTheorems, WellFoundedInduction, TLAPS

-----------------------------------------------------------------------------
(* The inductive invariant.                                                *)

Status == {"absent", "open", "done", "dead"}
Fetch(r) == <<r, 1>>

(* A row's fetch job says the truth: done means stored or denied.          *)
Truthful ==
  \A r \in Rev : ledger[Fetch(r)] = "done" => r \in stored \cup denied

(* A run that skips its fetch found it settled, one in flight did not.     *)
FetchingOf(t) ==
  /\ runs[t].at \in {"skip", "fetching"} => t[1] \in Rev
  /\ runs[t].at = "skip" => t[1] \in stored \cup denied
  /\ runs[t].at = "fetching" => t[1] \notin stored \cup denied
Fetching == \A t \in Ticket : FetchingOf(t)

(* A walk through the list has every revision above the known ones, down   *)
(* to the end of its last window as the list is now; a walk that ended has *)
(* them all.                                                               *)
Gapless(run) == \A i \in run.revs : \A j \in run.above + 1 .. i : j \in run.revs
Walked(run) ==
  \A i \in run.revs : \A j \in run.above + 1 .. i :
    j \in run.revs \/ j < wiki[run.page].revs - (run.window - 1) * PerPage
Grounded(run) == \A n \in 0 .. run.above : <<run.page, n>> \in known
WalkOf(t) ==
  /\ runs[t].at \in {"listing", "listed"} =>
       t[1] \in Slugs /\ Grounded(runs[t]) /\ runs[t].window >= 1
  /\ runs[t].at = "listing" => Walked(runs[t])
  /\ runs[t].at = "listed" => Gapless(runs[t])
Walks == \A t \in Ticket : WalkOf(t)

Inv == TypeOK /\ NoGap /\ NothingStranded /\ Truthful /\ Fetching /\ Walks

-----------------------------------------------------------------------------
(* Tickets and the ledger.                                                 *)

(* The tickets are those of the ledger.                                    *)
LEMMA Tickets ==
  /\ Ticket = ((Periodic \cup Rev) \X {1}) \cup (Slugs \X (1 .. MaxSignals))
  /\ \A r \in Rev : Fetch(r) \in Ticket /\ Fetch(r)[1] = r /\ r \notin Slugs /\ r \notin Periodic
  /\ \A t \in Ticket : t[1] \in Rev => t = Fetch(t[1])
<1>1. Ticket = ((Periodic \cup Rev) \X {1}) \cup (Slugs \X (1 .. MaxSignals))
  BY DEF Ticket, Queue!Ticket
<1>2. \A r \in Rev : r \notin Slugs /\ r \notin Periodic
  BY NameAssumption
<1>3. QED
  BY <1>1, <1>2 DEF Fetch

(* What recording a request does to the job of a revision.                 *)
LEMMA RecordedFetch ==
  ASSUME NEW l \in [Ticket -> Status], NEW req, NEW r \in Rev
  PROVE  Queue!Recorded(l, req)[Fetch(r)] =
           IF /\ r \in req.wants
              /\ \/ l[Fetch(r)] = "absent"
                 \/ r \in req.rearms /\ l[Fetch(r)] \in {"done", "dead"}
           THEN "open" ELSE l[Fetch(r)]
<1>1. Fetch(r) \in Ticket /\ Fetch(r)[1] = r /\ r \notin Slugs
  BY Tickets
<1>2. Queue!Opens(l, req, Fetch(r)) <=>
        /\ r \in req.wants
        /\ \/ l[Fetch(r)] = "absent"
           \/ r \in req.rearms /\ l[Fetch(r)] \in {"done", "dead"}
  BY <1>1 DEF Queue!Opens
<1>3. QED
  BY <1>1, <1>2 DEF Queue!Recorded, Ticket

(* Recording keeps the ledger typed.                                       *)
LEMMA RecordedType ==
  ASSUME NEW l \in [Ticket -> Status], NEW req
  PROVE  Queue!Recorded(l, req) \in [Ticket -> Status]
BY DEF Queue!Recorded, Ticket, Status

(* A served ticket: the ledger stays typed; the job of a revision is done  *)
(* if it is the one served, and opened by the request if absent or         *)
(* re-armed.                                                               *)
LEMMA Served ==
  ASSUME ledger \in [Ticket -> Status], NEW t \in Ticket, NEW req, Queue!Serve(t, req)
  PROVE  /\ ledger' \in [Ticket -> Status]
         /\ \A r \in Rev \ {t[1]} : ledger'[Fetch(r)] =
              IF /\ r \in req.wants
                 /\ \/ ledger[Fetch(r)] = "absent"
                    \/ r \in req.rearms /\ ledger[Fetch(r)] \in {"done", "dead"}
              THEN "open" ELSE ledger[Fetch(r)]
         /\ t[1] \in Rev /\ t[1] \notin req.wants => ledger'[t] = "done"
<1> DEFINE l == [ledger EXCEPT ![t] = Queue!Settled(t)]
<1>1. Queue!Settled(t) \in Status
  BY DEF Queue!Settled, Status
<1>2. l \in [Ticket -> Status] /\ l[t] = Queue!Settled(t)
        /\ \A u \in Ticket \ {t} : l[u] = ledger[u]
  BY <1>1
<1>3. ledger' = Queue!Recorded(l, req)
  BY DEF Queue!Serve
<1> HIDE DEF l
<1>4. ledger' \in [Ticket -> Status]
  BY <1>2, <1>3, RecordedType
<1>5. ASSUME NEW r \in Rev \ {t[1]}
      PROVE  ledger'[Fetch(r)] =
               IF /\ r \in req.wants
                  /\ \/ ledger[Fetch(r)] = "absent"
                     \/ r \in req.rearms /\ ledger[Fetch(r)] \in {"done", "dead"}
               THEN "open" ELSE ledger[Fetch(r)]
  <2>1. Fetch(r) \in Ticket \ {t}
    BY Tickets
  <2>2. l[Fetch(r)] = ledger[Fetch(r)]
    BY <1>2, <2>1
  <2>3. QED
    BY <1>2, <1>3, <2>2, RecordedFetch
<1>6. ASSUME t[1] \in Rev, t[1] \notin req.wants
      PROVE  ledger'[t] = "done"
  <2>1. t = Fetch(t[1]) /\ t[1] \notin Slugs /\ t[1] \notin Periodic
    BY <1>6, Tickets
  <2>2. Queue!Settled(t) = "done"
    BY <2>1 DEF Queue!Settled
  <2>3. ledger'[Fetch(t[1])] = l[Fetch(t[1])]
    BY <1>2, <1>3, <1>6, RecordedFetch
  <2>4. QED
    BY <1>2, <2>1, <2>2, <2>3
<1>7. QED
  BY <1>4, <1>5, <1>6

(* A dropped ticket is dead, the others are as they were.                  *)
LEMMA Dropped ==
  ASSUME ledger \in [Ticket -> Status], NEW t \in Ticket, Queue!Drop(t)
  PROVE  /\ ledger' \in [Ticket -> Status] /\ ledger[t] = "open" /\ ledger'[t] = "dead"
         /\ \A u \in Ticket \ {t} : ledger'[u] = ledger[u]
BY DEF Queue!Drop, Status

-----------------------------------------------------------------------------
(* The newest known revision.                                              *)

(* A set of natural numbers below a bound has a greatest.                  *)
LEMMA Greatest ==
  ASSUME NEW n \in Nat, NEW S \in SUBSET (0 .. n), S # {}
  PROVE  \E m \in S : \A k \in S : k <= m
<1> DEFINE less == {ss \in Nat \X Nat : ss[1] < ss[2]}
           T == {x \in 0 .. n : n - x \in S}
<1>1. IsWellFoundedOn(less, Nat)
  BY NatLessThanWellFounded DEF OpToRel
<1>2. PICK s \in S : TRUE
  OBVIOUS
<1>3. n - s \in T /\ T \subseteq Nat
  BY <1>2
<1>4. PICK x \in T : \A y \in T : <<y, x>> \notin less
  BY <1>1, <1>3, WFMin
<1>5. n - x \in S /\ x \in 0 .. n
  BY <1>4
<1>6. ASSUME NEW k \in S
      PROVE  k <= n - x
  <2>1. n - k \in T
    BY <1>6
  <2>2. <<n - k, x>> \notin less
    BY <1>4, <2>1
  <2>3. ~(n - k < x)
    BY <1>5, <2>1, <2>2
  <2>4. QED
    BY <1>5, <2>3
<1>7. QED
  BY <1>5, <1>6

(* max_rev: every number up to it is a row, if there are no gaps.          *)
LEMMA MaxKnownFacts ==
  ASSUME TypeOK, NoGap, NEW p \in Pages
  PROVE  /\ MaxKnown(p) \in -1 .. MaxRev - 1
         /\ \A n \in 0 .. MaxKnown(p) : <<p, n>> \in known
<1> DEFINE nos == {r[2] : r \in {x \in known : x[1] = p}}
           m == CHOOSE n \in nos : \A k \in nos : k <= n
<1>1. MaxRev \in Nat
  BY BoundAssumption
<1>2. known \subseteq Pages \X (0 .. MaxRev - 1)
  BY DEF TypeOK, Rev
<1>3. nos \subseteq 0 .. MaxRev - 1 /\ \A n \in nos : <<p, n>> \in known
  BY <1>2
<1>4. CASE nos = {}
  <2>1. MaxKnown(p) = -1
    BY <1>4 DEF MaxKnown
  <2>2. QED
    BY <1>1, <2>1
<1>5. CASE nos # {}
  <2>1. MaxRev - 1 \in Nat
    BY <1>1, <1>3, <1>5
  <2>2. \E n \in nos : \A k \in nos : k <= n
    BY <1>3, <1>5, <2>1, Greatest
  <2>3. m \in nos
    BY <2>2
  <2>4. MaxKnown(p) = m
    BY <1>5 DEF MaxKnown
  <2> HIDE DEF m
  <2>5. <<p, m>> \in known /\ m \in 0 .. MaxRev - 1
    BY <1>3, <2>3
  <2>6. \A n \in 0 .. m : <<p, n>> \in known
    BY <2>5 DEF NoGap
  <2>7. QED
    BY <2>4, <2>5, <2>6
<1>6. QED
  BY <1>4, <1>5

-----------------------------------------------------------------------------
(* What the steps have in common.                                          *)

(* A run that walks the list is one of the records it should be.           *)
LEMMA WalkType ==
  ASSUME NEW run \in RunState, run.at \in {"listing", "listed"}
  PROVE  run \in [at : {"listing", "listed"}, page : Pages, above : -1 .. MaxRev - 1,
                  window : Nat, revs : SUBSET (0 .. MaxRev - 1)]
BY DEF RunState, Idle

(* A walk stays good while rows are added and the list grows.              *)
LEMMA WalkGoesOn ==
  ASSUME TypeOK, NEW t \in Ticket, WalkOf(t), runs'[t] = runs[t], known \subseteq known',
         \A p \in Pages : wiki'[p].revs \in Nat /\ wiki[p].revs <= wiki'[p].revs
  PROVE  WalkOf(t)'
<1>1. CASE runs[t].at \in {"listing", "listed"}
  <2>1. PICK run \in RunState : run = runs[t]
    BY DEF TypeOK
  <2>2. run.page \in Pages /\ run.above \in Int /\ run.window \in Nat /\ run.revs \subseteq Int
    BY <1>1, <2>1, WalkType
  <2>3. Grounded(run) => Grounded(run)'
    BY DEF Grounded
  <2>4. ASSUME Walked(run)
        PROVE  Walked(run)'
    <3>1. PICK gone : gone = (run.window - 1) * PerPage
      OBVIOUS
    <3>2. gone \in Int
      BY <2>2, <3>1, BoundAssumption
    <3>3. wiki[run.page].revs \in Nat /\ wiki'[run.page].revs \in Nat
            /\ wiki[run.page].revs <= wiki'[run.page].revs
      BY <2>2, BoundAssumption DEF TypeOK
    <3>4. ASSUME NEW i \in run.revs, NEW j \in run.above + 1 .. i, j \notin run.revs
          PROVE  j < wiki'[run.page].revs - gone
      <4>1. j < wiki[run.page].revs - gone
        BY <2>4, <3>1, <3>4 DEF Walked
      <4>2. j \in Int
        BY <2>2
      <4>3. QED
        BY <3>2, <3>3, <4>1, <4>2
    <3>5. QED
      BY <3>1, <3>4 DEF Walked
  <2>5. QED
    BY <2>1, <2>3, <2>4 DEF WalkOf, Gapless
<1>2. CASE runs[t].at \notin {"listing", "listed"}
  BY <1>2 DEF WalkOf
<1>3. QED
  BY <1>1, <1>2

(* A run that holds no walk has nothing to keep.                           *)
LEMMA NoWalk ==
  ASSUME NEW t, runs'[t].at \notin {"listing", "listed"}
  PROVE  WalkOf(t)'
BY DEF WalkOf

(* A run that is no fetch has nothing to keep either.                      *)
LEMMA NoFetch ==
  ASSUME NEW t, runs'[t].at \notin {"skip", "fetching"}
  PROVE  FetchingOf(t)'
BY DEF FetchingOf

(* A step that only changes runs, well.                                    *)
LEMMA OnlyRuns ==
  ASSUME Inv, UNCHANGED <<upstream, database, ledger>>, runs' \in [Ticket -> RunState],
         \A t \in Ticket : runs'[t] = runs[t] \/ (FetchingOf(t)' /\ WalkOf(t)')
  PROVE  Inv'
<1>0. TypeOK /\ NoGap /\ NothingStranded /\ Truthful /\ Fetching /\ Walks
  BY DEF Inv
<1>1. UNCHANGED <<wiki, hidden, feed, page, known, stored, denied, ledger>>
  BY DEF upstream, database
<1>2. TypeOK'
  BY <1>0, <1>1 DEF TypeOK
<1>3. NoGap' /\ NothingStranded' /\ Truthful'
  BY <1>0, <1>1 DEF NoGap, NothingStranded, Truthful
<1>4. ASSUME NEW t \in Ticket, runs'[t] = runs[t]
      PROVE  FetchingOf(t)' /\ WalkOf(t)'
  <2>1. FetchingOf(t) /\ WalkOf(t)
    BY <1>0 DEF Fetching, Walks
  <2>2. FetchingOf(t)'
    BY <1>1, <1>4, <2>1 DEF FetchingOf
  <2>3. \A p \in Pages : wiki'[p].revs \in Nat /\ wiki[p].revs <= wiki'[p].revs
    BY <1>0, <1>1, BoundAssumption DEF TypeOK
  <2>4. QED
    BY <1>0, <1>1, <1>4, <2>1, <2>2, <2>3, WalkGoesOn
<1>5. Fetching' /\ Walks'
  BY <1>4 DEF Fetching, Walks
<1>6. QED
  BY <1>2, <1>3, <1>5 DEF Inv

(* A step of the wiki: pages keep or gain revisions.                       *)
LEMMA OnlyUpstream ==
  ASSUME Inv, UNCHANGED <<database, ledger, runs>>,
         wiki' \in [Pages -> [slug : Name, revs : 0 .. MaxRev]],
         hidden' \subseteq Rev, feed' \subseteq Rev,
         \A p \in Pages : wiki[p].revs <= wiki'[p].revs
  PROVE  Inv'
<1>0. TypeOK /\ NoGap /\ NothingStranded /\ Truthful /\ Fetching /\ Walks
  BY DEF Inv
<1>1. UNCHANGED <<page, known, stored, denied, ledger, runs>>
  BY DEF database
<1>2. TypeOK'
  BY <1>0, <1>1 DEF TypeOK
<1>3. NoGap' /\ NothingStranded' /\ Truthful'
  BY <1>0, <1>1 DEF NoGap, NothingStranded, Truthful
<1>4. Fetching'
  BY <1>0, <1>1 DEF Fetching, FetchingOf
<1>5. \A p \in Pages : wiki'[p].revs \in Nat
  BY BoundAssumption
<1>6. \A t \in Ticket : WalkOf(t)'
  BY <1>0, <1>1, <1>5, WalkGoesOn DEF Walks
<1>7. QED
  BY <1>2, <1>3, <1>4, <1>6 DEF Inv, Walks

(* A run commits: its job is served with a request, rows are added, and no *)
(* revision but its own is settled.                                        *)
LEMMA Commits ==
  ASSUME Inv, NEW t \in Ticket, NEW req, Serve(t, req),
         UNCHANGED <<wiki, hidden>>, feed' \subseteq Rev, page' \in [Pages -> Name],
         known \subseteq known', known' \subseteq Rev, stored' \subseteq known', denied' \subseteq Rev,
         stored \subseteq stored', denied \subseteq denied',
         stored' \cup denied' \subseteq stored \cup denied \cup {t[1]},
         t[1] \in Rev => t[1] \in stored' \cup denied' /\ t[1] \notin req.wants,
         known' \ known \subseteq req.wants \cap req.rearms,
         NoGap'
  PROVE  Inv'
<1>0. TypeOK /\ NoGap /\ NothingStranded /\ Truthful /\ Fetching /\ Walks
  BY DEF Inv
<1>1. ledger \in [Ticket -> Status] /\ Queue!Serve(t, req) /\ runs' = [runs EXCEPT ![t] = Idle]
  BY <1>0 DEF Serve, TypeOK, Status
<1>2. ledger' \in [Ticket -> Status]
  BY <1>1, Served
<1>3. \A r \in Rev \ {t[1]} : ledger'[Fetch(r)] =
        IF /\ r \in req.wants
           /\ \/ ledger[Fetch(r)] = "absent"
              \/ r \in req.rearms /\ ledger[Fetch(r)] \in {"done", "dead"}
        THEN "open" ELSE ledger[Fetch(r)]
  BY <1>1, Served
<1>4. Idle \in RunState /\ Idle.at = "idle"
  BY DEF RunState, Idle
<1>5. runs' \in [Ticket -> RunState] /\ runs'[t] = Idle
        /\ \A u \in Ticket \ {t} : runs'[u] = runs[u]
  BY <1>0, <1>1, <1>4 DEF TypeOK
<1>6. TypeOK'
  BY <1>0, <1>2, <1>5 DEF TypeOK, Status
<1>7. NothingStranded'
  <2> SUFFICES ASSUME NEW r \in known' \ (stored' \cup denied')
               PROVE  ledger'[Fetch(r)] \in {"open", "dead"}
    BY DEF NothingStranded, Fetch
  <2>1. r \in Rev \ {t[1]} /\ Fetch(r) \in Ticket
    BY Tickets
  <2>2. CASE r \in known
    <3>1. ledger[Fetch(r)] \in {"open", "dead"}
      BY <1>0, <2>2 DEF NothingStranded, Fetch
    <3>2. QED
      BY <1>3, <2>1, <3>1
  <2>3. CASE r \notin known
    <3>1. r \in req.wants /\ r \in req.rearms
      BY <2>3
    <3>2. ledger[Fetch(r)] \in Status
      BY <1>1, <2>1
    <3>3. QED
      BY <1>3, <2>1, <3>1, <3>2 DEF Status
  <2>4. QED
    BY <2>2, <2>3
<1>8. Truthful'
  <2> SUFFICES ASSUME NEW r \in Rev, ledger'[Fetch(r)] = "done"
               PROVE  r \in stored' \cup denied'
    BY DEF Truthful
  <2>1. CASE r = t[1]
    BY <2>1
  <2>2. CASE r # t[1]
    <3>1. ledger[Fetch(r)] = "done"
      BY <1>3, <2>2
    <3>2. QED
      BY <1>0, <3>1 DEF Truthful
  <2>3. QED
    BY <2>1, <2>2
<1>9. ASSUME NEW u \in Ticket
      PROVE  FetchingOf(u)' /\ WalkOf(u)'
  <2>1. CASE u = t
    <3>1. runs'[u].at = "idle"
      BY <1>4, <1>5, <2>1
    <3>2. QED
      BY <3>1, NoWalk, NoFetch
  <2>2. CASE u # t
    <3>1. runs'[u] = runs[u] /\ FetchingOf(u) /\ WalkOf(u)
      BY <1>0, <1>5, <2>2 DEF Fetching, Walks
    <3>2. u[1] \in Rev => u[1] # t[1]
      BY <2>2, Tickets
    <3>3. FetchingOf(u)'
      BY <3>1, <3>2 DEF FetchingOf
    <3>4. \A p \in Pages : wiki'[p].revs \in Nat /\ wiki[p].revs <= wiki'[p].revs
      BY <1>0, BoundAssumption DEF TypeOK
    <3>5. QED
      BY <1>0, <3>1, <3>3, <3>4, WalkGoesOn
  <2>3. QED
    BY <2>1, <2>2
<1>10. QED
  BY <1>6, <1>7, <1>8, <1>9 DEF Inv, Fetching, Walks

(* A job is given up while its run, if any, ends.                          *)
LEMMA GivesUp ==
  ASSUME Inv, NEW t \in Ticket, Queue!Drop(t), UNCHANGED <<upstream, database>>,
         runs' = [runs EXCEPT ![t] = Idle] \/ runs' = runs
  PROVE  Inv'
<1>0. TypeOK /\ NoGap /\ NothingStranded /\ Truthful /\ Fetching /\ Walks
  BY DEF Inv
<1>1. UNCHANGED <<wiki, hidden, feed, page, known, stored, denied>>
  BY DEF upstream, database
<1>2. ledger \in [Ticket -> Status]
  BY <1>0 DEF TypeOK, Status
<1>3. ledger' \in [Ticket -> Status] /\ ledger'[t] = "dead"
        /\ \A u \in Ticket \ {t} : ledger'[u] = ledger[u]
  BY <1>2, Dropped
<1>4. Idle \in RunState /\ Idle.at = "idle"
  BY DEF RunState, Idle
<1>5. runs' \in [Ticket -> RunState]
        /\ \A u \in Ticket : runs'[u] = runs[u] \/ runs'[u] = Idle
  BY <1>0, <1>4 DEF TypeOK
<1>6. TypeOK'
  BY <1>0, <1>1, <1>3, <1>5 DEF TypeOK, Status
<1>7. NoGap'
  BY <1>0, <1>1 DEF NoGap
<1>8. NothingStranded'
  <2>1. \A r \in Rev : Fetch(r) \in Ticket
    BY Tickets
  <2>2. known \subseteq Rev
    BY <1>0 DEF TypeOK
  <2>3. QED
    BY <1>0, <1>1, <1>3, <2>1, <2>2 DEF NothingStranded, Fetch
<1>9. Truthful'
  <2>1. \A r \in Rev : Fetch(r) \in Ticket
    BY Tickets
  <2>2. QED
    BY <1>0, <1>1, <1>3, <2>1 DEF Truthful
<1>10. ASSUME NEW u \in Ticket
       PROVE  FetchingOf(u)' /\ WalkOf(u)'
  <2>1. CASE runs'[u] = Idle
    BY <1>4, <2>1, NoWalk, NoFetch
  <2>2. CASE runs'[u] = runs[u]
    <3>1. FetchingOf(u) /\ WalkOf(u)
      BY <1>0 DEF Fetching, Walks
    <3>2. FetchingOf(u)'
      BY <1>1, <2>2, <3>1 DEF FetchingOf
    <3>3. \A p \in Pages : wiki'[p].revs \in Nat /\ wiki[p].revs <= wiki'[p].revs
      BY <1>0, <1>1, BoundAssumption DEF TypeOK
    <3>4. QED
      BY <1>0, <1>1, <2>2, <3>1, <3>2, <3>3, WalkGoesOn
  <2>3. QED
    BY <1>5, <2>1, <2>2
<1>11. QED
  BY <1>6, <1>7, <1>8, <1>9, <1>10 DEF Inv, Fetching, Walks

-----------------------------------------------------------------------------
(* The steps, one by one.                                                  *)

(* The invariant holds of the empty archive.                               *)
LEMMA InitInv == Init => Inv
<1> SUFFICES ASSUME Init
             PROVE  Inv
  OBVIOUS
<1>1. Idle \in RunState /\ Idle.at = "idle"
  BY DEF RunState, Idle
<1>2. 0 \in 0 .. MaxRev
  BY BoundAssumption
<1>3. TypeOK
  BY <1>1, <1>2 DEF Init, TypeOK, Name
<1>4. NoGap /\ NothingStranded
  BY DEF Init, NoGap, NothingStranded
<1>5. Truthful
  <2>1. \A r \in Rev : Fetch(r) \in Ticket /\ Fetch(r)[1] = r /\ r \notin Periodic
    BY Tickets
  <2>2. QED
    BY <2>1 DEF Init, Truthful
<1>6. Fetching /\ Walks
  BY <1>1 DEF Init, Fetching, FetchingOf, Walks, WalkOf
<1>7. QED
  BY <1>3, <1>4, <1>5, <1>6 DEF Inv

(* The wiki changes: no page loses revisions.                              *)
LEMMA WikiMoves ==
  ASSUME TypeOK, WikiNext
  PROVE  /\ wiki' \in [Pages -> [slug : Name, revs : 0 .. MaxRev]]
         /\ hidden' \subseteq Rev /\ feed' \subseteq Rev
         /\ \A p \in Pages : wiki[p].revs <= wiki'[p].revs
         /\ UNCHANGED <<database, ledger, runs>>
<1>1. wiki \in [Pages -> [slug : Name, revs : 0 .. MaxRev]] /\ hidden \subseteq Rev
        /\ feed \subseteq Rev /\ MaxRev \in Nat
  BY BoundAssumption DEF TypeOK
<1>2. CASE \E p \in Pages, slug \in Name : Change(p, slug)
  <2>1. PICK p \in Pages, slug \in Name : Change(p, slug)
    BY <1>2
  <2>2. PICK n \in 0 .. MaxRev : n = wiki[p].revs
    BY <1>1
  <2>3. n < MaxRev /\ wiki' = [wiki EXCEPT ![p] = [slug |-> slug, revs |-> n + 1]]
    BY <2>1, <2>2 DEF Change
  <2>4. wiki' \in [Pages -> [slug : Name, revs : 0 .. MaxRev]]
    BY <1>1, <2>3
  <2>5. \A q \in Pages : wiki[q].revs <= wiki'[q].revs
    BY <1>1, <2>2, <2>3
  <2>6. feed' \subseteq Rev
    BY <1>1, <2>1, <2>2, <2>3 DEF Change, Rev
  <2>7. QED
    BY <1>1, <2>1, <2>4, <2>5, <2>6 DEF Change
<1>3. CASE \E p \in Pages : DeletePage(p)
  <2>1. PICK p \in Pages : DeletePage(p)
    BY <1>3
  <2>2. PICK n \in 0 .. MaxRev : n = wiki[p].revs
    BY <1>1
  <2>3. wiki' = [wiki EXCEPT ![p] = [wiki[p] EXCEPT !.slug = NoSlug]]
    BY <2>1 DEF DeletePage
  <2>4. [wiki[p] EXCEPT !.slug = NoSlug] = [slug |-> NoSlug, revs |-> n]
    BY <1>1, <2>2
  <2>5. wiki' = [wiki EXCEPT ![p] = [slug |-> NoSlug, revs |-> n]]
    BY <2>3, <2>4
  <2>6. wiki' \in [Pages -> [slug : Name, revs : 0 .. MaxRev]]
    BY <1>1, <2>5 DEF Name
  <2>7. \A q \in Pages : wiki[q].revs <= wiki'[q].revs
    BY <1>1, <2>2, <2>5
  <2>8. QED
    BY <1>1, <2>1, <2>6, <2>7 DEF DeletePage
<1>4. CASE \E r \in Rev : HideRevision(r)
  BY <1>1, <1>4 DEF HideRevision
<1>5. \A p \in Pages : wiki[p].slug \in Name
  BY <1>1
<1>6. QED
  BY <1>2, <1>3, <1>4, <1>5 DEF WikiNext, CreatePage, RenamePage, EditPage, Name

(* A step of the wiki keeps the invariant.                                 *)
LEMMA WikiStep == Inv /\ WikiNext => Inv'
BY WikiMoves, OnlyUpstream DEF Inv

(* A job is taken up with a good run.                                      *)
LEMMA Begins ==
  ASSUME Inv, NEW t \in Ticket, NEW run \in RunState, Begin(t, run),
         UNCHANGED <<upstream, database, ledger>>,
         runs'[t] = run => FetchingOf(t)' /\ WalkOf(t)'
  PROVE  Inv'
<1>1. runs \in [Ticket -> RunState] /\ runs' = [runs EXCEPT ![t] = run]
  BY DEF Inv, TypeOK, Begin
<1>2. runs' \in [Ticket -> RunState] /\ runs'[t] = run
        /\ \A u \in Ticket \ {t} : runs'[u] = runs[u]
  BY <1>1
<1>3. \A u \in Ticket : runs'[u] = runs[u] \/ (FetchingOf(u)' /\ WalkOf(u)')
  BY <1>2
<1>4. QED
  BY <1>2, <1>3, OnlyRuns

(* discover reads the feed.                                                *)
LEMMA DiscoverScanStep == Inv /\ DiscoverScan => Inv'
<1> SUFFICES ASSUME Inv, DiscoverScan
             PROVE  Inv'
  OBVIOUS
<1>1. DiscoverTicket \in Ticket
  BY Tickets DEF DiscoverTicket, Periodic
<1>2. PICK names : names = {wiki[e[1]].slug : e \in feed}
  OBVIOUS
<1>3. names \subseteq Name /\ feed \subseteq Rev
  <2>1. \A e \in feed : e[1] \in Pages
    BY DEF Inv, TypeOK, Rev
  <2>2. QED
    BY <1>2, <2>1 DEF Inv, TypeOK
<1>4. PICK run : run = [at |-> "scanned", entries |-> feed, slugs |-> names]
  OBVIOUS
<1>5. run \in RunState /\ run.at = "scanned"
  BY <1>3, <1>4 DEF RunState
<1>6. Begin(DiscoverTicket, run) /\ UNCHANGED <<upstream, database, ledger>>
  BY <1>2, <1>4 DEF DiscoverScan
<1>7. runs'[DiscoverTicket] = run
        => FetchingOf(DiscoverTicket)' /\ WalkOf(DiscoverTicket)'
  BY <1>5, NoWalk, NoFetch
<1>8. QED
  BY <1>1, <1>5, <1>6, <1>7, Begins

(* discover commits the watermark and its signals.                         *)
LEMMA DiscoverCommitStep == Inv /\ DiscoverCommit => Inv'
<1> SUFFICES ASSUME Inv, DiscoverCommit
             PROVE  Inv'
  OBVIOUS
<1>1. DiscoverTicket \in Ticket /\ DiscoverTicket[1] \notin Rev
  BY Tickets, NameAssumption DEF DiscoverTicket, Periodic
<1>2. PICK req : req = Request(runs[DiscoverTicket].slugs, {})
  OBVIOUS
<1>3. Serve(DiscoverTicket, req) /\ UNCHANGED <<wiki, hidden, page, known, stored, denied>>
        /\ feed' \subseteq feed
  BY <1>2 DEF DiscoverCommit, database
<1>4. NoGap' /\ TypeOK
  BY <1>3 DEF Inv, NoGap
<1>5. QED
  BY <1>1, <1>3, <1>4, Commits DEF TypeOK

(* page.sync resolves its slug and reads max_rev.                          *)
LEMMA ResolvePageStep ==
  ASSUME Inv, NEW t \in Ticket, ResolvePage(t)
  PROVE  Inv'
<1>1. TypeOK /\ NoGap
  BY DEF Inv
<1>2. PICK p \in Pages :
        Begin(t, [at |-> "listing", page |-> p, above |-> MaxKnown(p),
                  window |-> 1, revs |-> {}])
  BY DEF ResolvePage
<1>3. PICK run : run = [at |-> "listing", page |-> p, above |-> MaxKnown(p),
                        window |-> 1, revs |-> {}]
  OBVIOUS
<1>4. MaxKnown(p) \in -1 .. MaxRev - 1 /\ \A n \in 0 .. MaxKnown(p) : <<p, n>> \in known
  BY <1>1, MaxKnownFacts
<1>5. run \in RunState
  BY <1>3, <1>4 DEF RunState
<1>6. UNCHANGED <<upstream, database, ledger>> /\ t[1] \in Slugs
  BY DEF ResolvePage
<1>7. known' = known
  BY <1>6 DEF database
<1>8. ASSUME runs'[t] = run
      PROVE  FetchingOf(t)' /\ WalkOf(t)'
  <2>1. run.at = "listing" /\ run.revs = {} /\ run.window = 1
    BY <1>3
  <2>2. Grounded(run)'
    BY <1>3, <1>4, <1>7 DEF Grounded
  <2>3. Walked(run)'
    BY <2>1 DEF Walked
  <2>4. WalkOf(t)'
    BY <1>6, <1>8, <2>1, <2>2, <2>3 DEF WalkOf
  <2>5. QED
    BY <1>8, <2>1, <2>4, NoFetch
<1>9. QED
  BY <1>2, <1>3, <1>5, <1>6, <1>8, Begins

(* A window that lies above what is known is full of new revisions.        *)
LEMMA FullWindow ==
  ASSUME NEW a \in Int, NEW n \in Int, NEW S, S = a .. a + n - 1, n \in Nat \ {0}
  PROVE  Cardinality(S) = n
<1>1. Cardinality(a .. a + n - 1) = (a + n - 1) - a + 1
  BY FS_Interval
<1>2. QED
  BY <1>1

(* What a window leaves out of the new revisions it reaches down to lies   *)
(* below it, and the window was full of others.                            *)
LEMMA OneWindow ==
  ASSUME TypeOK, NEW run \in RunState, run.at = "listing", run.window >= 1,
         NEW j \in Int, j > run.above, j \notin NewIn(run),
         j < wiki[run.page].revs - (run.window - 1) * PerPage
  PROVE  /\ j < wiki[run.page].revs - run.window * PerPage
         /\ Cardinality(NewIn(run)) >= PerPage
<1>1. run.page \in Pages /\ run.above \in -1 .. MaxRev - 1 /\ run.window \in Nat
  BY WalkType
<1>2. PICK n \in 0 .. MaxRev : n = wiki[run.page].revs
  BY <1>1 DEF TypeOK
<1>3. PICK below : below = n - (run.window - 1) * PerPage
  OBVIOUS
<1>4. PerPage \in Nat \ {0} /\ MaxRev \in Nat
  BY BoundAssumption
<1>5. below \in Int /\ below <= n /\ n - run.window * PerPage = below - PerPage
  <2>1. (run.window - 1) * PerPage \in Nat
    BY <1>1, <1>4
  <2>2. run.window * PerPage = (run.window - 1) * PerPage + PerPage
    BY <1>1, <1>4
  <2>3. QED
    BY <1>3, <1>4, <2>1, <2>2
<1>6. PICK new : new = NewIn(run)
  OBVIOUS
<1>7. new = {i \in run.above + 1 .. n - 1 : i \in below - PerPage .. below - 1}
  BY <1>2, <1>3, <1>5, <1>6 DEF NewIn
<1>8. j < below - PerPage
  <2>1. j \in run.above + 1 .. n - 1 /\ j < below
    BY <1>1, <1>2, <1>3, <1>4, <1>5
  <2>2. j \notin below - PerPage .. below - 1
    BY <1>6, <1>7, <2>1
  <2>3. QED
    BY <1>4, <1>5, <2>1, <2>2
<1>9. Cardinality(new) = PerPage
  <2>1. \A k \in below - PerPage .. below - 1 : k \in run.above + 1 .. n - 1
    BY <1>1, <1>4, <1>5, <1>8
  <2>2. new = below - PerPage .. (below - PerPage) + PerPage - 1
    BY <1>4, <1>5, <1>7, <2>1
  <2>3. QED
    BY <1>4, <1>5, <2>2, FullWindow
<1>10. QED
  BY <1>2, <1>4, <1>5, <1>6, <1>8, <1>9

(* One window of the list is read: nothing between it and what was known   *)
(* is skipped, and the walk ends only where it meets what is known.        *)
LEMMA ListRevisionsStep ==
  ASSUME Inv, NEW t \in Ticket, ListRevisions(t)
  PROVE  Inv'
<1>0. TypeOK /\ Walks
  BY DEF Inv
<1>1. PICK run \in RunState : run = runs[t]
  BY <1>0 DEF TypeOK
<1>2. run.at = "listing"
  BY <1>1 DEF ListRevisions
<1>3. run \in [at : {"listing", "listed"}, page : Pages, above : -1 .. MaxRev - 1,
               window : Nat, revs : SUBSET (0 .. MaxRev - 1)]
  BY <1>2, WalkType
<1>4. t[1] \in Slugs /\ Grounded(run) /\ Walked(run) /\ run.window >= 1
  BY <1>0, <1>1, <1>2 DEF Walks, WalkOf
<1>5. PICK n \in 0 .. MaxRev : n = wiki[run.page].revs
  BY <1>0, <1>3 DEF TypeOK
<1>6. PICK below : below = n - (run.window - 1) * PerPage
  OBVIOUS
<1>7. PerPage \in Nat \ {0} /\ MaxRev \in Nat /\ run.window \in Nat
  BY <1>3, BoundAssumption
<1>8. below \in Int /\ below <= n /\ n - run.window * PerPage = below - PerPage
  <2>1. (run.window - 1) * PerPage \in Nat
    BY <1>4, <1>7
  <2>2. run.window * PerPage = (run.window - 1) * PerPage + PerPage
    BY <1>4, <1>7
  <2>3. QED
    BY <1>6, <1>7, <2>1, <2>2
<1>9. PICK new : new = NewIn(run)
  OBVIOUS
<1>10. new = {i \in run.above + 1 .. n - 1 : i \in below - PerPage .. below - 1}
  BY <1>5, <1>6, <1>8, <1>9 DEF NewIn
<1>11. PICK next : next = [run EXCEPT !.revs = @ \cup new, !.window = @ + 1,
                             !.at = IF Cardinality(new) >= PerPage THEN "listing" ELSE "listed"]
  OBVIOUS
<1>12. next = [at |-> IF Cardinality(new) >= PerPage THEN "listing" ELSE "listed",
               page |-> run.page, above |-> run.above, window |-> run.window + 1,
               revs |-> run.revs \cup new]
  BY <1>3, <1>11
<1>13. new \subseteq 0 .. MaxRev - 1
  <2>1. run.above \in Int /\ run.above >= -1 /\ n \in Int /\ n <= MaxRev
    BY <1>3, <1>5, <1>7
  <2>2. run.above + 1 .. n - 1 \subseteq 0 .. MaxRev - 1
    BY <1>7, <2>1
  <2>3. QED
    BY <1>10, <2>2
<1>14. next \in RunState
  <2>1. run.window + 1 \in Nat /\ run.page \in Pages /\ run.above \in -1 .. MaxRev - 1
    BY <1>3
  <2>2. run.revs \subseteq 0 .. MaxRev - 1
    BY <1>3
  <2>3. run.revs \cup new \in SUBSET (0 .. MaxRev - 1)
    BY <1>13, <2>2
  <2>4. ASSUME NEW at \in {"listing", "listed"},
               next = [at |-> at, page |-> run.page, above |-> run.above,
                       window |-> run.window + 1, revs |-> run.revs \cup new]
        PROVE  next \in RunState
    BY <2>1, <2>3, <2>4 DEF RunState
  <2>5. QED
    BY <1>12, <2>4
<1>15. runs' = [runs EXCEPT ![t] = next] /\ UNCHANGED <<upstream, database, ledger>>
  BY <1>1, <1>9, <1>11 DEF ListRevisions
<1>16. runs \in [Ticket -> RunState]
  BY <1>0 DEF TypeOK
<1>17. runs' \in [Ticket -> RunState] /\ runs'[t] = next
         /\ \A u \in Ticket \ {t} : runs'[u] = runs[u]
  BY <1>14, <1>15, <1>16
<1>18. known' = known /\ wiki' = wiki
  BY <1>15 DEF upstream, database
<1>19. ASSUME NEW i \in next.revs, NEW j \in run.above + 1 .. i, j \notin next.revs
       PROVE  j < below - PerPage /\ Cardinality(new) >= PerPage
  <2>1. j \notin run.revs /\ j \notin new /\ j \in Int /\ i \in Int /\ j > run.above /\ j <= i
    BY <1>3, <1>12, <1>13, <1>19
  <2>2. j < below
    <3>1. CASE i \in run.revs
      BY <1>4, <1>5, <1>6, <2>1, <3>1, <1>19 DEF Walked
    <3>2. CASE i \in new
      BY <1>8, <1>7, <1>10, <2>1, <3>2
    <3>3. QED
      BY <1>12, <3>1, <3>2
  <2>3. QED
    BY <1>0, <1>2, <1>4, <1>5, <1>6, <1>8, <1>9, <2>1, <2>2, OneWindow
<1>20. Grounded(next)' /\ next.page = run.page /\ next.above = run.above
         /\ next.window = run.window + 1
  BY <1>4, <1>12, <1>18 DEF Grounded
<1>21. CASE Cardinality(new) >= PerPage
  <2>1. next.at = "listing"
    BY <1>12, <1>21
  <2>2. wiki'[next.page].revs - (next.window - 1) * PerPage = below - PerPage
    BY <1>5, <1>7, <1>8, <1>18, <1>20
  <2>3. Walked(next)'
    BY <1>19, <1>20, <2>2 DEF Walked
  <2>4. WalkOf(t)'
    BY <1>4, <1>7, <1>17, <1>20, <2>1, <2>3 DEF WalkOf
  <2>5. FetchingOf(t)'
    BY <1>17, <2>1, NoFetch
  <2>6. QED
    BY <1>15, <1>17, <2>4, <2>5, OnlyRuns
<1>22. CASE ~(Cardinality(new) >= PerPage)
  <2>1. next.at = "listed"
    BY <1>12, <1>22
  <2>2. ASSUME NEW i \in next.revs, NEW j \in run.above + 1 .. i, j \notin next.revs
        PROVE  FALSE
    BY <1>19, <1>22, <2>2
  <2>3. Gapless(next)'
    BY <1>20, <2>2 DEF Gapless
  <2>4. WalkOf(t)'
    BY <1>4, <1>7, <1>17, <1>20, <2>1, <2>3 DEF WalkOf
  <2>5. FetchingOf(t)'
    BY <1>17, <2>1, NoFetch
  <2>6. QED
    BY <1>15, <1>17, <2>4, <2>5, OnlyRuns
<1>23. QED
  BY <1>21, <1>22

(* page.sync commits its rows: no gap, for the walk was complete down to   *)
(* rows that have none, and every row has a fetch job in the same step.    *)
LEMMA SyncCommitStep ==
  ASSUME Inv, NEW t \in Ticket, SyncCommit(t)
  PROVE  Inv'
<1>0. TypeOK /\ Walks /\ NoGap
  BY DEF Inv
<1>1. PICK run \in RunState : run = runs[t]
  BY <1>0 DEF TypeOK
<1>2. run.at = "listed"
  BY <1>1 DEF SyncCommit
<1>3. run.page \in Pages /\ run.above \in -1 .. MaxRev - 1 /\ run.revs \subseteq 0 .. MaxRev - 1
  BY <1>2, WalkType
<1>4. t[1] \in Slugs /\ Grounded(run) /\ Gapless(run)
  BY <1>0, <1>1, <1>2 DEF Walks, WalkOf
<1>5. PICK new : new = {run.page} \X run.revs
  OBVIOUS
<1>6. Synced(t) = new
  BY <1>1, <1>5 DEF Synced
<1>7. PICK req : req = Request(new, new)
  OBVIOUS
<1>8. req.wants = new /\ req.rearms = new
  BY <1>7 DEF Request
<1>9. Serve(t, req) /\ UNCHANGED <<wiki, hidden, feed, stored, denied>>
        /\ known' = known \cup new
        /\ page' = [page EXCEPT ![run.page] = t[1]]
  BY <1>1, <1>5, <1>6, <1>7 DEF SyncCommit, upstream
<1>10. new \subseteq Rev
  BY <1>3, <1>5 DEF Rev
<1>11. NoGap'
  <2> SUFFICES ASSUME NEW r \in known', NEW n \in 0 .. r[2]
               PROVE  <<r[1], n>> \in known'
    BY DEF NoGap
  <2>1. CASE r \in known
    BY <1>0, <1>9, <2>1 DEF NoGap
  <2>2. CASE r \in new
    <3>1. r[1] = run.page /\ r[2] \in run.revs /\ r[2] \in Int
      BY <1>3, <1>5, <2>2
    <3>2. CASE n <= run.above
      <4>1. n \in 0 .. run.above
        BY <1>3, <3>2
      <4>2. QED
        BY <1>4, <1>9, <3>1, <4>1 DEF Grounded
    <3>3. CASE ~(n <= run.above)
      <4>1. n \in run.above + 1 .. r[2]
        BY <1>3, <3>1, <3>3
      <4>2. n \in run.revs
        BY <1>4, <3>1, <4>1 DEF Gapless
      <4>3. QED
        BY <1>5, <1>9, <3>1, <4>2
    <3>4. QED
      BY <3>2, <3>3
  <2>3. QED
    BY <1>9, <2>1, <2>2
<1>12. page' \in [Pages -> Name]
  BY <1>0, <1>3, <1>4, <1>9 DEF TypeOK, Name
<1>13. t[1] \notin Rev
  BY <1>4, NameAssumption
<1>14. known \subseteq Rev /\ feed \subseteq Rev /\ stored \subseteq known /\ denied \subseteq Rev
  BY <1>0 DEF TypeOK
<1>15. known' \ known \subseteq req.wants \cap req.rearms /\ known' \subseteq Rev
  BY <1>8, <1>9, <1>10, <1>14
<1>16. QED
  BY <1>9, <1>11, <1>12, <1>13, <1>14, <1>15, Commits

(* A fetch is taken up: settled or not is what the database says now.      *)
LEMMA FetchBeginStep ==
  ASSUME Inv, NEW t \in Ticket, FetchBegin(t)
  PROVE  Inv'
<1>1. PICK run : run = [at |-> IF Settled(t[1]) THEN "skip" ELSE "fetching"]
  OBVIOUS
<1>2. run.at = IF Settled(t[1]) THEN "skip" ELSE "fetching"
  BY <1>1
<1>3. run = [at |-> "skip"] \/ run = [at |-> "fetching"]
  BY <1>1
<1>4. run \in RunState
  BY <1>3 DEF RunState
<1>5. Begin(t, run) /\ t[1] \in Rev /\ UNCHANGED <<upstream, database, ledger>>
  BY <1>1 DEF FetchBegin
<1>6. stored' = stored /\ denied' = denied
  BY <1>5 DEF database
<1>7. runs'[t] = run => FetchingOf(t)' /\ WalkOf(t)'
  <2>1. run.at \notin {"listing", "listed"}
    BY <1>3
  <2>2. runs'[t] = run => WalkOf(t)'
    BY <2>1, NoWalk
  <2>3. runs'[t] = run => FetchingOf(t)'
    BY <1>2, <1>5, <1>6 DEF FetchingOf, Settled
  <2>4. QED
    BY <2>2, <2>3
<1>8. QED
  BY <1>4, <1>5, <1>7, Begins

(* A fetch commits: a text into its row, a refusal, or nothing at all.     *)
LEMMA FetchCommitStep ==
  ASSUME Inv, NEW t \in Ticket, FetchCommit(t)
  PROVE  Inv'
<1>0. TypeOK /\ NoGap /\ Fetching
  BY DEF Inv
<1>1. known \subseteq Rev /\ feed \subseteq Rev /\ stored \subseteq known /\ denied \subseteq Rev
  BY <1>0 DEF TypeOK
<1>2. t[1] \in Rev /\ (runs[t].at = "skip" => t[1] \in stored \cup denied)
  BY <1>0 DEF FetchCommit, Fetching, FetchingOf
<1>3. PICK req : req = Request({}, {})
  OBVIOUS
<1>4. req.wants = {} /\ req.rearms = {}
  BY <1>3 DEF Request
<1>5. Serve(t, req) /\ UNCHANGED <<wiki, hidden, feed, page, known>>
  BY <1>3 DEF FetchCommit, upstream
<1>6. /\ stored \subseteq stored' /\ stored' \subseteq known
      /\ denied \subseteq denied' /\ denied' \subseteq Rev
      /\ stored' \cup denied' \subseteq stored \cup denied \cup {t[1]}
      /\ t[1] \in stored' \cup denied'
  BY <1>1, <1>2 DEF FetchCommit
<1>7. NoGap'
  BY <1>0, <1>5 DEF NoGap
<1>8. page' \in [Pages -> Name]
  BY <1>0, <1>5 DEF TypeOK
<1>9. QED
  BY <1>1, <1>2, <1>4, <1>5, <1>6, <1>7, <1>8, Commits

(* backfill re-arms.                                                       *)
LEMMA BackfillStep == Inv /\ Backfill => Inv'
<1> SUFFICES ASSUME Inv, Backfill
             PROVE  Inv'
  OBVIOUS
<1>1. PICK t : t = <<BACKFILL, 1>>
  OBVIOUS
<1>2. t \in Ticket /\ t[1] \notin Rev
  BY <1>1, Tickets, NameAssumption DEF Periodic
<1>3. PICK req : req = Rearmed(known \ (stored \cup denied))
  OBVIOUS
<1>4. Serve(t, req) /\ UNCHANGED <<wiki, hidden, feed, page, known, stored, denied>>
  BY <1>1, <1>3 DEF Backfill, upstream, database
<1>5. NoGap' /\ TypeOK
  BY <1>4 DEF Inv, NoGap
<1>6. QED
  BY <1>2, <1>4, <1>5, Commits DEF TypeOK

(* A run is lost, or all of them are.                                      *)
LEMMA RunsLost ==
  ASSUME Inv, UNCHANGED <<upstream, database, ledger>>,
         \/ \E t \in Ticket : runs' = [runs EXCEPT ![t] = Idle]
         \/ runs' = [t \in Ticket |-> Idle]
  PROVE  Inv'
<1>1. Idle \in RunState /\ Idle.at = "idle"
  BY DEF RunState, Idle
<1>2. runs \in [Ticket -> RunState]
  BY DEF Inv, TypeOK
<1>3. runs' \in [Ticket -> RunState] /\ \A t \in Ticket : runs'[t] = runs[t] \/ runs'[t] = Idle
  BY <1>1, <1>2
<1>4. \A t \in Ticket : runs'[t] = Idle => FetchingOf(t)' /\ WalkOf(t)'
  BY <1>1, NoWalk, NoFetch
<1>5. QED
  BY <1>3, <1>4, OnlyRuns

(* An import: rows without a hole, a fetch job for every bare one; a done  *)
(* job it leaves alone is of a revision settled before.                    *)
LEMMA ImportStep ==
  ASSUME Inv, NEW p \in Pages, NEW n \in 1 .. MaxRev, NEW texts \in SUBSET ({p} \X (0 .. n - 1)),
         ImportLegacy(p, n, texts)
  PROVE  Inv'
<1>0. TypeOK /\ NoGap /\ NothingStranded /\ Truthful
  BY DEF Inv
<1>1. PICK new : new = {p} \X (0 .. n - 1)
  OBVIOUS
<1>2. PICK req : req = Request((known \cup new) \ (stored \cup texts), {})
  OBVIOUS
<1>3. req.wants = (known \cup new) \ (stored \cup texts) /\ req.rearms = {}
  BY <1>2 DEF Request
<1>4. /\ known' = known \cup new /\ stored' = stored \cup texts
      /\ page' = [page EXCEPT ![p] = wiki[p].slug]
      /\ ledger' = Queue!Recorded(ledger, req)
      /\ UNCHANGED <<wiki, hidden, feed, denied, runs>>
      /\ \A t \in Ticket : runs[t] = Idle
  BY <1>1, <1>2 DEF ImportLegacy, Queue!Accept, upstream
<1>5. new \subseteq Rev /\ texts \subseteq new /\ known \subseteq Rev /\ stored \subseteq known
  BY <1>0, <1>1, BoundAssumption DEF TypeOK, Rev
<1>6. ledger \in [Ticket -> Status]
  BY <1>0 DEF TypeOK, Status
<1>7. ledger' \in [Ticket -> Status]
  BY <1>4, <1>6, RecordedType
<1>8. \A r \in Rev : ledger'[Fetch(r)] =
        IF r \in req.wants /\ ledger[Fetch(r)] = "absent" THEN "open" ELSE ledger[Fetch(r)]
  BY <1>3, <1>4, <1>6, RecordedFetch
<1>9. TypeOK'
  BY <1>0, <1>4, <1>5, <1>7 DEF TypeOK, Status
<1>10. NoGap'
  <2> SUFFICES ASSUME NEW r \in known', NEW m \in 0 .. r[2]
               PROVE  <<r[1], m>> \in known'
    BY DEF NoGap
  <2>1. CASE r \in known
    BY <1>0, <1>4, <2>1 DEF NoGap
  <2>2. CASE r \in new
    <3>1. r[1] = p /\ r[2] \in 0 .. n - 1
      BY <1>1, <2>2
    <3>2. m \in 0 .. n - 1
      BY <3>1, BoundAssumption
    <3>3. QED
      BY <1>1, <1>4, <3>1, <3>2
  <2>3. QED
    BY <1>4, <2>1, <2>2
<1>11. NothingStranded'
  <2> SUFFICES ASSUME NEW r \in known' \ (stored' \cup denied')
               PROVE  ledger'[Fetch(r)] \in {"open", "dead"}
    BY DEF NothingStranded, Fetch
  <2>1. r \in Rev /\ Fetch(r) \in Ticket /\ r \notin stored \cup denied /\ r \in req.wants
    BY <1>3, <1>4, <1>5, Tickets
  <2>2. ledger[Fetch(r)] # "done"
    BY <1>0, <2>1 DEF Truthful
  <2>3. ledger[Fetch(r)] \in Status
    BY <1>6, <2>1
  <2>4. QED
    BY <1>8, <2>1, <2>2, <2>3 DEF Status
<1>12. Truthful'
  BY <1>0, <1>4, <1>8 DEF Truthful
<1>13. \A t \in Ticket : FetchingOf(t)' /\ WalkOf(t)'
  BY <1>4, NoWalk, NoFetch DEF Idle
<1>14. QED
  BY <1>9, <1>10, <1>11, <1>12, <1>13 DEF Inv, Fetching, Walks

(* Every step keeps the invariant.                                         *)
LEMMA NextInv == Inv /\ [Next]_vars => Inv'
<1> SUFFICES ASSUME Inv, [Next]_vars
             PROVE  Inv'
  OBVIOUS
<1>1. CASE WikiNext
  BY <1>1, WikiStep
<1>2. CASE DiscoverScan \/ DiscoverCommit \/ Backfill
  BY <1>2, DiscoverScanStep, DiscoverCommitStep, BackfillStep
<1>3. ASSUME NEW t \in Ticket, RunNext(t)
      PROVE  Inv'
  <2>1. CASE ResolvePage(t)
    BY <2>1, ResolvePageStep
  <2>2. CASE PageNotFound(t)
    BY <2>2, GivesUp DEF PageNotFound
  <2>3. CASE ListRevisions(t)
    BY <2>3, ListRevisionsStep
  <2>4. CASE SyncCommit(t)
    BY <2>4, SyncCommitStep
  <2>5. CASE FetchBegin(t)
    BY <2>5, FetchBeginStep
  <2>6. CASE FetchCommit(t)
    BY <2>6, FetchCommitStep
  <2>7. CASE RunLost(t)
    BY <2>7, RunsLost DEF RunLost
  <2>8. CASE RunDropped(t)
    BY <2>8, GivesUp DEF RunDropped
  <2>9. QED
    BY <1>3, <2>1, <2>2, <2>3, <2>4, <2>5, <2>6, <2>7, <2>8 DEF RunNext
<1>4. CASE Crash
  BY <1>4, RunsLost DEF Crash
<1>5. ASSUME NEW p \in Pages, NEW n \in 1 .. MaxRev, NEW texts \in SUBSET ({p} \X (0 .. n - 1)),
             ImportLegacy(p, n, texts)
      PROVE  Inv'
  BY <1>5, ImportStep
<1>6. CASE UNCHANGED vars
  <2>1. UNCHANGED <<upstream, database, ledger>> /\ runs' = runs
    BY <1>6 DEF vars
  <2>2. runs' \in [Ticket -> RunState]
    BY <2>1 DEF Inv, TypeOK
  <2>3. QED
    BY <2>1, <2>2, OnlyRuns
<1>7. QED
  BY <1>1, <1>2, <1>3, <1>4, <1>5, <1>6 DEF Next

-----------------------------------------------------------------------------
(* The theorems.                                                           *)

(* The invariant holds in every reachable state.                           *)
THEOREM Invariance == Spec => []Inv
<1>1. Init => Inv
  BY InitInv
<1>2. Inv /\ [Next]_vars => Inv'
  BY NextInv
<1>3. QED
  BY <1>1, <1>2, PTL DEF Spec

(* Every variable keeps its type.                                          *)
THEOREM TypeCorrect == Spec => []TypeOK
<1>1. Inv => TypeOK
  BY DEF Inv
<1>2. QED
  BY <1>1, Invariance, PTL

(* The revision rows of a page have no gap, whatever the wiki does between *)
(* the windows of a walk and whatever runs, imports and crashes interleave *)
(* (workers.rs page_sync, wikidot.rs fetch_revisions_above).               *)
THEOREM RowsHaveNoGap == Spec => []NoGap
<1>1. Inv => NoGap
  BY DEF Inv
<1>2. QED
  BY <1>1, Invariance, PTL

(* A row without content and not denied always has a fetch job that is     *)
(* open or within reach of backfill (jobs.rs, importer.rs, backfill).      *)
THEOREM RowsHaveAJob == Spec => []NothingStranded
<1>1. Inv => NothingStranded
  BY DEF Inv
<1>2. QED
  BY <1>1, Invariance, PTL

(* A source that is stored or denied is not asked for again.               *)
THEOREM SettledIsLeftAlone == Spec => []NeverRefetched
<1>1. Inv => NeverRefetched
  <2> SUFFICES ASSUME Inv, NEW r \in stored \cup denied
               PROVE  runs[Fetch(r)].at # "fetching"
    BY DEF NeverRefetched, Fetch
  <2>1. r \in Rev
    BY DEF Inv, TypeOK
  <2>2. Fetch(r) \in Ticket /\ Fetch(r)[1] = r
    BY <2>1, Tickets
  <2>3. FetchingOf(Fetch(r))
    BY <2>2 DEF Inv, Fetching
  <2>4. QED
    BY <2>2, <2>3 DEF FetchingOf
<1>2. QED
  BY <1>1, Invariance, PTL

-----------------------------------------------------------------------------
(* A page.sync that begins after a change records it.                      *)

(* What a walk has of the first n revisions of its page: every one above   *)
(* the known, but for those below its last window.                         *)
Covers(run, n) ==
  \A j \in run.above + 1 .. n - 1 :
    \/ j \in run.revs
    \/ run.at = "listing" /\ j < wiki[run.page].revs - (run.window - 1) * PerPage
CatchesUp(t, p, n) ==
  /\ n <= wiki[p].revs
  /\ runs[t].at \in {"listing", "listed"} /\ runs[t].page = p => Covers(runs[t], n)

(* No step takes revisions away.                                           *)
LEMMA WikiGrows ==
  ASSUME Inv, [Next]_vars, NEW p \in Pages
  PROVE  /\ wiki[p].revs \in 0 .. MaxRev /\ wiki'[p].revs \in 0 .. MaxRev
         /\ wiki[p].revs <= wiki'[p].revs
<1>1. Inv'
  BY NextInv
<1>2. wiki[p].revs \in 0 .. MaxRev /\ wiki'[p].revs \in 0 .. MaxRev
  BY <1>1 DEF Inv, TypeOK
<1>3. CASE WikiNext
  BY <1>2, <1>3, WikiMoves DEF Inv
<1>4. CASE ~WikiNext
  <2>1. UNCHANGED wiki
    BY <1>4 DEF Next, vars, upstream, DiscoverScan, DiscoverCommit, RunNext, ResolvePage,
       PageNotFound, ListRevisions, SyncCommit, FetchBegin, FetchCommit, RunLost, RunDropped,
       Backfill, Crash, ImportLegacy
  <2>2. QED
    BY <1>2, <2>1, BoundAssumption
<1>5. QED
  BY <1>3, <1>4

(* What may happen to a run that walks the list.                           *)
LEMMA WalkSteps ==
  ASSUME Inv, [Next]_vars, NEW t \in Ticket
  PROVE  \/ runs'[t] = runs[t]
         \/ runs'[t].at \notin {"listing", "listed"}
         \/ ResolvePage(t) \/ ListRevisions(t)
<1>0. runs \in [Ticket -> RunState]
  BY DEF Inv, TypeOK
<1>1. ASSUME NEW u \in Ticket, NEW run, runs' = [runs EXCEPT ![u] = run],
             run.at \notin {"listing", "listed"}
      PROVE  runs'[t] = runs[t] \/ runs'[t].at \notin {"listing", "listed"}
  BY <1>0, <1>1
<1>2. Idle.at = "idle"
  BY DEF Idle
<1>3. DiscoverTicket \in Ticket /\ <<BACKFILL, 1>> \in Ticket
  BY Tickets DEF DiscoverTicket, Periodic
<1>4. CASE DiscoverScan
  BY <1>1, <1>3, <1>4 DEF DiscoverScan, Begin
<1>5. CASE DiscoverCommit \/ Backfill
  BY <1>1, <1>2, <1>3, <1>5 DEF DiscoverCommit, Backfill, Serve
<1>6. CASE Crash
  BY <1>2, <1>6 DEF Crash
<1>7. CASE WikiNext \/ UNCHANGED vars
  BY <1>7, WikiMoves DEF Inv, vars
<1>8. CASE \E p \in Pages, n \in 1 .. MaxRev : \E texts \in SUBSET ({p} \X (0 .. n - 1)) :
             ImportLegacy(p, n, texts)
  BY <1>8 DEF ImportLegacy
<1>9. ASSUME NEW u \in Ticket, RunNext(u)
      PROVE  \/ runs'[t] = runs[t]
             \/ runs'[t].at \notin {"listing", "listed"}
             \/ ResolvePage(t) \/ ListRevisions(t)
  <2>1. CASE PageNotFound(u)
    BY <2>1 DEF PageNotFound
  <2>2. CASE SyncCommit(u) \/ FetchCommit(u)
    BY <1>1, <1>2, <2>2 DEF SyncCommit, FetchCommit, Serve
  <2>3. CASE RunLost(u) \/ RunDropped(u)
    BY <1>1, <1>2, <2>3 DEF RunLost, RunDropped
  <2>4. CASE FetchBegin(u)
    BY <1>1, <2>4 DEF FetchBegin, Begin
  <2>5. CASE ResolvePage(u) /\ u # t
    BY <1>0, <2>5 DEF ResolvePage, Begin
  <2>6. CASE ListRevisions(u) /\ u # t
    BY <1>0, <2>6 DEF ListRevisions
  <2>7. QED
    BY <1>9, <2>1, <2>2, <2>3, <2>4, <2>5, <2>6 DEF RunNext
<1>10. QED
  BY <1>4, <1>5, <1>6, <1>7, <1>8, <1>9 DEF Next

(* A run that has not begun has everything ahead of it, and a walk loses   *)
(* nothing of what there was when it began.                                *)
LEMMA CatchUpStep ==
  ASSUME Inv, [Next]_vars, NEW t \in Ticket, NEW p \in Pages, NEW n \in 0 .. MaxRev,
         CatchesUp(t, p, n)
  PROVE  CatchesUp(t, p, n)'
<1>0. TypeOK /\ Walks /\ Inv' /\ MaxRev \in Nat /\ PerPage \in Nat \ {0}
  BY NextInv, BoundAssumption DEF Inv
<1>1. /\ wiki[p].revs \in Nat /\ wiki'[p].revs \in Nat
      /\ wiki[p].revs <= wiki'[p].revs /\ n <= wiki[p].revs /\ n <= wiki'[p].revs
  BY <1>0, WikiGrows DEF CatchesUp
<1>2. SUFFICES ASSUME NEW next, next = runs'[t], next.at \in {"listing", "listed"}, next.page = p
               PROVE  Covers(next, n)'
  BY <1>1 DEF CatchesUp
<1>3. PICK run \in RunState : run = runs[t]
  BY <1>0 DEF TypeOK
<1>4. CASE next = run
  <2>1. run.at \in {"listing", "listed"} /\ run.page = p /\ Covers(run, n)
    BY <1>2, <1>3, <1>4 DEF CatchesUp
  <2>2. run.above \in Int /\ run.window \in Nat
    BY <2>1, WalkType
  <2>3. PICK gone : gone = (run.window - 1) * PerPage
    OBVIOUS
  <2>4. gone \in Int
    BY <1>0, <2>2, <2>3
  <2>5. ASSUME NEW j \in run.above + 1 .. n - 1, j < wiki[p].revs - gone
        PROVE  j < wiki'[p].revs - gone
    BY <1>1, <2>2, <2>4, <2>5
  <2>6. QED
    BY <1>4, <2>1, <2>3, <2>5 DEF Covers
<1>5. CASE ResolvePage(t)
  <2>1. PICK q \in Pages :
          Begin(t, [at |-> "listing", page |-> q, above |-> MaxKnown(q), window |-> 1, revs |-> {}])
    BY <1>5 DEF ResolvePage
  <2>2. next = [at |-> "listing", page |-> q, above |-> MaxKnown(q), window |-> 1, revs |-> {}]
    BY <1>0, <1>2, <2>1 DEF Begin, TypeOK
  <2>3. q = p /\ MaxKnown(p) \in Int
    BY <1>0, <1>2, <2>2, MaxKnownFacts DEF Inv
  <2>4. (1 - 1) * PerPage = 0
    BY <1>0
  <2>5. \A j \in MaxKnown(p) + 1 .. n - 1 : j < wiki'[p].revs - (1 - 1) * PerPage
    BY <1>0, <1>1, <2>3, <2>4
  <2>6. QED
    BY <2>2, <2>3, <2>5 DEF Covers
<1>6. CASE ListRevisions(t)
  <2>1. run.at = "listing" /\ run.window \in Nat /\ run.above \in Int /\ run.page \in Pages
    BY <1>3, <1>6, WalkType DEF ListRevisions
  <2>2. PICK new : new = NewIn(run)
    OBVIOUS
  <2>3. next = [run EXCEPT !.revs = @ \cup new, !.window = @ + 1,
                           !.at = IF Cardinality(new) >= PerPage THEN "listing" ELSE "listed"]
    BY <1>0, <1>2, <1>3, <1>6, <2>2 DEF ListRevisions, TypeOK
  <2>4. run \in [at : {"listing", "listed"}, page : Pages, above : -1 .. MaxRev - 1,
                 window : Nat, revs : SUBSET (0 .. MaxRev - 1)]
    BY <2>1, WalkType
  <2>5. /\ next.page = run.page /\ next.above = run.above
        /\ next.window = run.window + 1 /\ next.revs = run.revs \cup new
        /\ next.at = IF Cardinality(new) >= PerPage THEN "listing" ELSE "listed"
    BY <2>3, <2>4
  <2>6. run.page = p /\ run.window >= 1 /\ Covers(run, n) /\ wiki' = wiki
    BY <1>0, <1>2, <1>3, <1>6, <2>1, <2>5 DEF CatchesUp, Walks, WalkOf, ListRevisions, upstream
  <2>7. (run.window + 1) - 1 = run.window
    BY <2>1
  <2>8. ASSUME NEW j \in run.above + 1 .. n - 1, j \notin run.revs \cup new
        PROVE  j < wiki[p].revs - run.window * PerPage /\ Cardinality(new) >= PerPage
    <3>1. j \in Int /\ j > run.above
      BY <1>0, <2>1
    <3>2. j < wiki[run.page].revs - (run.window - 1) * PerPage
      BY <2>6, <2>8 DEF Covers
    <3>3. QED
      BY <1>0, <2>1, <2>2, <2>6, <2>8, <3>1, <3>2, OneWindow
  <2>9. QED
    BY <2>5, <2>6, <2>7, <2>8 DEF Covers
<1>7. QED
  BY <1>2, <1>3, <1>4, <1>5, <1>6, WalkSteps

(* When a run that was begun after page p had n revisions commits, they    *)
(* are all rows.                                                           *)
Records(t, p, n) == SyncCommit(t) /\ runs[t].page = p => {p} \X (0 .. n - 1) \subseteq known'

LEMMA CommitRecords ==
  ASSUME Inv, NEW t \in Ticket, NEW p \in Pages, NEW n \in 0 .. MaxRev, CatchesUp(t, p, n)
  PROVE  Records(t, p, n)
<1> SUFFICES ASSUME SyncCommit(t), runs[t].page = p, NEW j \in 0 .. n - 1
             PROVE  <<p, j>> \in known'
  BY DEF Records
<1>1. runs[t].at = "listed" /\ known' = known \cup ({p} \X runs[t].revs)
  BY DEF SyncCommit
<1>2. PICK run \in RunState : run = runs[t]
  BY DEF Inv, TypeOK
<1>3. run.above \in Int /\ Grounded(run) /\ Covers(run, n)
  BY <1>1, <1>2, WalkType DEF Inv, Walks, WalkOf, CatchesUp
<1>4. CASE j <= run.above
  <2>1. j \in 0 .. run.above
    BY <1>3, <1>4
  <2>2. QED
    BY <1>1, <1>2, <1>3, <2>1 DEF Grounded
<1>5. CASE ~(j <= run.above)
  <2>1. j \in run.above + 1 .. n - 1
    BY <1>3, <1>5, BoundAssumption
  <2>2. j \in run.revs
    BY <1>1, <1>2, <1>3, <2>1 DEF Covers
  <2>3. QED
    BY <1>1, <1>2, <2>2
<1>6. QED
  BY <1>4, <1>5

(* No change is lost between the moment it is signalled and the moment the *)
(* signal's row is deleted: take any page p with n revisions and any       *)
(* signal t whose run has not begun; a run of t that commits for p has     *)
(* made rows of all n, however the list moves between its windows,         *)
(* whatever other runs, imports and crashes come in between, and whichever *)
(* attempt it is (db.rs complete_ephemeral: a row lives from signal to     *)
(* successful execution).                                                  *)
THEOREM SignalRecordsChange ==
  ASSUME NEW CONSTANT t \in Ticket, NEW CONSTANT p \in Pages, NEW CONSTANT n \in 0 .. MaxRev
  PROVE  Spec => [](runs[t] = Idle /\ n <= wiki[p].revs => [][Records(t, p, n)]_vars)
<1>1. Inv /\ runs[t] = Idle /\ n <= wiki[p].revs => CatchesUp(t, p, n)
  BY DEF CatchesUp, Idle
<1>2. Inv /\ CatchesUp(t, p, n) /\ [Next]_vars => CatchesUp(t, p, n)'
  BY CatchUpStep
<1>3. Inv /\ CatchesUp(t, p, n) /\ [Next]_vars => [Records(t, p, n)]_vars
  BY CommitRecords
<1>4. QED
  BY <1>1, <1>2, <1>3, Invariance, PTL DEF Spec

=============================================================================
