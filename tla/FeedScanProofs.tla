---------------------------- MODULE FeedScanProofs ----------------------------
(* Theorems about FeedScan, for every set of pages, size of a window,      *)
(* number of changes and seconds, and number of mishaps.                   *)
EXTENDS FeedScan, FiniteSetTheorems, WellFoundedInduction, TLAPS

-----------------------------------------------------------------------------
(* The inductive invariant.                                                *)

(* Numbers name entries and follow time; nothing is in the future.         *)
Past(e) == e.no <= changes /\ e.ts <= clock
FeedIsSound ==
  /\ IsFiniteSet(feed) /\ Cardinality(feed) <= changes
  /\ \A e \in feed : Past(e)
  /\ \A e, f \in feed : e.no = f.no => e = f
  /\ \A e, f \in feed : e.no <= f.no => e.ts <= f.ts
  /\ unsignalled \subseteq feed
WatermarkIsPast == wm # NoEntry => Past(wm)

(* A change not yet signalled is one this scan has seen, the next one will *)
(* come across, or lies ahead in this one.                                 *)
Ahead(slug) ==
  /\ scan.at = "walking"
  /\ \E f \in feed :
       f.slug = slug /\ Reached(wm, feed, f) /\ (scan.page - 1) * PerPage <= Place(f)
ScanIsSound ==
  scan # Idle =>
    /\ Past(scan.head)
    /\ scan.at = "walking" => scan.page <= MaxChanges + 1
    /\ \A e \in unsignalled \ overlooked :
         e.slug \in scan.seen \/ e.slug \in Absorbed(scan.head, feed) \/ Ahead(e.slug)

(* A change that had no signal when the scan began it has seen, or will.   *)
ScanTakesAll ==
  scan # Idle =>
    /\ begun <= changes
    /\ \A e \in unsignalled \ overlooked :
         e.no <= begun => e.slug \in scan.seen \/ Ahead(e.slug)

Inv ==
  TypeOK /\ NothingSkipped /\ FeedIsSound /\ WatermarkIsPast /\ ScanIsSound /\ ScanTakesAll

-----------------------------------------------------------------------------
(* Entries by number, and their places.                                    *)

(* Of some entries one is the oldest, and the one picked is the newest.    *)
LEMMA Oldest ==
  ASSUME NEW S \in SUBSET Entry, S # {}
  PROVE  \E e \in S : \A f \in S : e.no <= f.no
<1> DEFINE less == {ss \in Nat \X Nat : ss[1] < ss[2]}
           T == {e.no : e \in S}
<1>1. IsWellFoundedOn(less, Nat)
  BY NatLessThanWellFounded DEF OpToRel
<1>2. T # {} /\ T \subseteq Nat
  BY FeedAssumption DEF Entry
<1>3. PICK x \in T : \A y \in T : <<y, x>> \notin less
  BY <1>1, <1>2, WFMin
<1>4. PICK e \in S : x = e.no
  BY <1>3
<1>5. ASSUME NEW f \in S
      PROVE  e.no <= f.no
  <2>1. f.no \in T /\ <<f.no, x>> \notin less
    BY <1>3, <1>5
  <2>2. f.no \in Nat /\ e.no \in Nat
    BY <1>2, <1>4, <2>1
  <2>3. ~(f.no < e.no)
    BY <1>4, <2>1, <2>2
  <2>4. QED
    BY <2>2, <2>3
<1>6. QED
  BY <1>5

LEMMA NewestFacts ==
  ASSUME NEW S \in SUBSET Entry, S # {}
  PROVE  Newest(S) \in S /\ \A f \in S : f.no <= Newest(S).no
<1> DEFINE less == {ss \in Nat \X Nat : ss[1] < ss[2]}
           T == {MaxChanges - e.no : e \in S}
<1>1. IsWellFoundedOn(less, Nat)
  BY NatLessThanWellFounded DEF OpToRel
<1>2. \A e \in S : e.no \in 1 .. MaxChanges /\ MaxChanges \in Nat
  BY FeedAssumption DEF Entry
<1>3. T # {} /\ T \subseteq Nat
  BY <1>2
<1>4. PICK x \in T : \A y \in T : <<y, x>> \notin less
  BY <1>1, <1>3, WFMin
<1>5. PICK e \in S : x = MaxChanges - e.no
  BY <1>4
<1>6. ASSUME NEW f \in S
      PROVE  f.no <= e.no
  <2>1. MaxChanges - f.no \in T /\ <<MaxChanges - f.no, x>> \notin less
    BY <1>4, <1>6
  <2>2. ~(MaxChanges - f.no < MaxChanges - e.no)
    BY <1>3, <1>4, <1>5, <2>1
  <2>3. QED
    BY <1>2, <2>2
<1>7. QED
  BY <1>6 DEF Newest

(* A place is a number below the length of the feed, higher for the older. *)
LEMMA PlaceFacts ==
  ASSUME IsFiniteSet(feed), feed \subseteq Entry, NEW e \in feed
  PROVE  /\ Place(e) \in Nat /\ Cardinality(feed) \in Nat
         /\ Place(e) < Cardinality(feed)
         /\ \A f \in feed : e.no <= f.no => Place(f) <= Place(e)
<1> DEFINE newer(f) == {g \in feed : g.no > f.no}
<1>1. \A f \in feed : f.no \in Nat
  BY FeedAssumption DEF Entry
<1>2. newer(e) \subseteq feed \ {e}
  BY <1>1
<1>3. /\ IsFiniteSet(feed \ {e})
      /\ Cardinality(feed \ {e}) = Cardinality(feed) - 1
  BY FS_RemoveElement
<1>4. /\ IsFiniteSet(newer(e))
      /\ Cardinality(newer(e)) <= Cardinality(feed \ {e})
  BY <1>2, <1>3, FS_Subset
<1>5. Cardinality(newer(e)) \in Nat /\ Cardinality(feed) \in Nat
  BY <1>4, FS_CardinalityType
<1>6. ASSUME NEW f \in feed, e.no <= f.no
      PROVE  Place(f) <= Place(e)
  <2>1. newer(f) \subseteq newer(e)
    BY <1>1, <1>6
  <2>2. Cardinality(newer(f)) <= Cardinality(newer(e))
    BY <1>4, <2>1, FS_Subset
  <2>3. QED
    BY <2>2 DEF Place
<1>7. QED
  BY <1>3, <1>4, <1>5, <1>6 DEF Place

(* A change moves every entry one place back.                              *)
LEMMA PlacesMove ==
  ASSUME IsFiniteSet(feed), NEW new, new \notin feed, feed' = feed \cup {new},
         NEW e \in feed, new.no > e.no
  PROVE  Place(e)' = Place(e) + 1
<1> DEFINE newer == {g \in feed : g.no > e.no}
<1>1. IsFiniteSet(newer)
  BY FS_Subset
<1>2. {g \in feed' : g.no > e.no} = newer \cup {new} /\ new \notin newer
  OBVIOUS
<1>3. Cardinality(newer \cup {new}) = Cardinality(newer) + 1
  BY <1>1, <1>2, FS_AddElement
<1>4. QED
  BY <1>2, <1>3 DEF Place

(* Every place up to that of an entry is taken.                            *)
LEMMA PlacesTaken ==
  ASSUME TypeOK, FeedIsSound, NEW e \in feed, NEW k \in Nat, k <= Place(e)
  PROVE  \E f \in feed : Place(f) = k
<1> DEFINE behind == {f \in feed : k <= Place(f)}
<1>1. \A f \in feed : Place(f) \in Nat /\ f.no \in Nat
  BY PlaceFacts, FeedAssumption DEF TypeOK, FeedIsSound, Entry
<1> DEFINE less == {ss \in Nat \X Nat : ss[1] < ss[2]}
           T == {Place(f) : f \in behind}
<1>2. IsWellFoundedOn(less, Nat)
  BY NatLessThanWellFounded DEF OpToRel
<1>3. T # {} /\ T \subseteq Nat
  BY <1>1
<1>4. PICK m \in T : \A y \in T : <<y, m>> \notin less
  BY <1>2, <1>3, WFMin
<1>5. PICK g \in feed : Place(g) = m /\ k <= m
  BY <1>4
<1>6. m \in Nat /\ \A f \in behind : ~(Place(f) < m)
  <2>1. m \in Nat
    BY <1>3, <1>4
  <2>2. ASSUME NEW f \in behind
        PROVE  ~(Place(f) < m)
    <3>1. Place(f) \in T /\ Place(f) \in Nat /\ <<Place(f), m>> \notin less
      BY <1>1, <1>4, <2>2
    <3>2. QED
      BY <2>1, <3>1
  <2>3. QED
    BY <2>1, <2>2
<1>7. CASE m = k
  BY <1>5, <1>7
<1>8. CASE m # k
  <2> DEFINE newer(f) == {h \in feed : h.no > f.no}
  <2>1. IsFiniteSet(newer(g)) /\ Cardinality(newer(g)) = m /\ m > 0
    BY <1>5, <1>6, <1>8, FS_Subset DEF Place, FeedIsSound
  <2>2. newer(g) # {} /\ newer(g) \subseteq Entry
    BY <2>1, FS_EmptySet DEF TypeOK
  <2>3. PICK h \in newer(g) : \A f \in newer(g) : h.no <= f.no
    BY <2>2, Oldest
  <2>4. h \in feed /\ \A f \in feed : f.no > h.no <=> f \in newer(g) \ {h}
    BY <1>1, <2>3 DEF FeedIsSound
  <2>5. newer(h) = newer(g) \ {h}
    BY <2>4
  <2>6. Cardinality(newer(h)) = m - 1
    BY <2>1, <2>3, <2>5, FS_RemoveElement
  <2>7. Place(h) = m - 1
    BY <2>6 DEF Place
  <2>8. h \in behind /\ Place(h) < m
    BY <1>5, <1>6, <1>8, <2>4, <2>7
  <2>9. QED
    BY <1>6, <2>8
<1>9. QED
  BY <1>7, <1>8

-----------------------------------------------------------------------------
(* Windows.                                                                *)

(* A window that lists something is within the changes made.               *)
LEMMA WindowFacts ==
  ASSUME TypeOK, FeedIsSound, NEW n \in Nat \ {0}
  PROVE  /\ Window(n) \subseteq feed
         /\ Window(n) # {} => n <= MaxChanges
<1>1. ASSUME NEW e \in Window(n)
      PROVE  n <= MaxChanges
  <2>1. e \in feed /\ (n - 1) * PerPage <= Place(e)
    BY DEF Window
  <2>2. Place(e) \in Nat /\ Cardinality(feed) \in Nat /\ Place(e) < Cardinality(feed)
    BY <2>1, PlaceFacts DEF TypeOK, FeedIsSound
  <2>3. Cardinality(feed) <= MaxChanges /\ MaxChanges \in Nat
    BY <2>2, FeedAssumption DEF TypeOK, FeedIsSound
  <2>4. PICK k \in Nat : n = k + 1
    <3>1. n - 1 \in Nat /\ n = (n - 1) + 1
      OBVIOUS
    <3>2. QED
      BY <3>1
  <2>5. PerPage \in Nat /\ PerPage >= 1 /\ k * PerPage >= k
    BY <2>4, FeedAssumption
  <2>6. k * PerPage <= Place(e)
    BY <2>1, <2>4
  <2>7. QED
    BY <2>2, <2>3, <2>4, <2>5, <2>6
<1>2. QED
  BY <1>1 DEF Window

(* What lies ahead of the walk is read with the next window, or still lies *)
(* ahead: the walk goes on past that window.                               *)
LEMMA WindowFollows ==
  ASSUME TypeOK, FeedIsSound, NEW n \in Nat \ {0}, NEW e \in feed,
         Reached(wm, feed, e), (n - 1) * PerPage <= Place(e)
  PROVE  \/ e.slug \in Absorbed(wm, Window(n))
         \/ /\ n * PerPage <= Place(e)
            /\ Window(n) # {} /\ ~Reaches(wm, Window(n))
<1>1. \A f \in feed : Place(f) \in Nat /\ f.no \in Nat
  BY PlaceFacts, FeedAssumption DEF TypeOK, FeedIsSound, Entry
<1>2. /\ (n - 1) * PerPage \in Nat /\ n * PerPage \in Nat
      /\ n * PerPage = (n - 1) * PerPage + PerPage
      /\ PerPage \in Nat /\ PerPage >= 1
  <2>1. PICK k \in Nat : n = k + 1
    <3>1. n - 1 \in Nat /\ n = (n - 1) + 1
      OBVIOUS
    <3>2. QED
      BY <3>1
  <2>2. PerPage \in Nat /\ PerPage >= 1
    BY FeedAssumption
  <2>3. k * PerPage \in Nat /\ (k + 1) * PerPage = k * PerPage + PerPage
    BY <2>1, <2>2
  <2>4. QED
    BY <2>1, <2>2, <2>3
<1>3. CASE Place(e) < n * PerPage
  <2>1. e \in Window(n) /\ Window(n) \subseteq feed
    BY <1>3 DEF Window
  <2>2. Reached(wm, Window(n), e)
    BY <2>1 DEF Reached
  <2>3. QED
    BY <2>1, <2>2 DEF Absorbed
<1>4. CASE ~(Place(e) < n * PerPage)
  <2>1. n * PerPage <= Place(e)
    BY <1>1, <1>2, <1>4
  <2>2. Window(n) # {}
    <3>1. PICK f \in feed : Place(f) = (n - 1) * PerPage
      BY <1>2, PlacesTaken
    <3>2. f \in Window(n)
      BY <1>2, <3>1 DEF Window
    <3>3. QED
      BY <3>2
  <2>3. ASSUME NEW f \in Window(n)
        PROVE  ~Stops(wm, f)
    <3>1. f \in feed /\ Place(f) < n * PerPage
      BY DEF Window
    <3>2. ~(f.no <= e.no)
      BY <1>1, <1>2, <2>1, <3>1, PlaceFacts DEF TypeOK, FeedIsSound
    <3>3. f.no >= e.no
      BY <1>1, <3>1, <3>2
    <3>4. QED
      BY <3>1, <3>3 DEF Reached
  <2>4. QED
    BY <2>1, <2>2, <2>3 DEF Reaches
<1>5. QED
  BY <1>3, <1>4

-----------------------------------------------------------------------------
(* The steps of the wiki.                                                  *)

(* A new entry is reached by every walk, and hides nothing from one.       *)
LEMMA NewEntry ==
  ASSUME Inv, NEW s \in Slugs, NEW ts \in 1 .. MaxTime, Change(s, ts),
         NEW w, w = NoEntry \/ (w \in Entry /\ Past(w))
  PROVE  LET new == [no |-> changes + 1, slug |-> s, ts |-> ts]
         IN  /\ new \in Entry /\ new \notin feed /\ feed' = feed \cup {new}
             /\ \A e \in feed : e.no < new.no /\ e.ts <= new.ts
             /\ Reached(w, feed', new)
             /\ \A e \in feed : Reached(w, feed, e) => Reached(w, feed', e)
             /\ Absorbed(w, feed) \cup {s} \subseteq Absorbed(w, feed')
<1> DEFINE new == [no |-> changes + 1, slug |-> s, ts |-> ts]
<1>1. /\ feed' = feed \cup {new} /\ changes < MaxChanges /\ ts >= clock
      /\ changes \in Nat /\ MaxChanges \in Nat /\ clock \in Nat /\ ts \in Nat
  BY FeedAssumption DEF Change, Inv, TypeOK
<1>2. new \in Entry
  BY <1>1 DEF Entry
<1>3. \A e \in feed : e.no \in Nat /\ e.ts \in Nat /\ e.no <= changes /\ e.ts <= clock
  BY FeedAssumption DEF Inv, TypeOK, FeedIsSound, Past, Entry
<1>4. \A e \in feed : e.no < new.no /\ e.ts <= new.ts
  BY <1>1, <1>3
<1>5. new \notin feed
  BY <1>1, <1>4
<1>6. ~Stops(w, new)
  <2>1. CASE w = NoEntry
    BY <2>1 DEF Stops
  <2>2. CASE w \in Entry /\ Past(w)
    <3>1. w.no \in Nat /\ w.ts \in Nat /\ w.no <= changes /\ w.ts <= clock
      BY <2>2, FeedAssumption DEF Past, Entry
    <3>2. new # w /\ ~(new.ts < w.ts)
      BY <1>1, <3>1
    <3>3. QED
      BY <3>2 DEF Stops
  <2>3. QED
    BY <2>1, <2>2
<1>7. Reached(w, feed', new)
  <2>1. \A f \in feed' : f.no >= new.no => f = new
    BY <1>1, <1>3, <1>4
  <2>2. QED
    BY <1>6, <2>1 DEF Reached
<1>8. \A e \in feed : Reached(w, feed, e) => Reached(w, feed', e)
  BY <1>1, <1>6 DEF Reached
<1>9. Absorbed(w, feed) \cup {s} \subseteq Absorbed(w, feed')
  <2>1. new \in feed' /\ new.slug = s
    BY <1>1
  <2>2. s \in Absorbed(w, feed')
    BY <1>7, <2>1 DEF Absorbed
  <2>3. QED
    BY <1>1, <1>8, <2>2 DEF Absorbed
<1>10. QED
  BY <1>1, <1>2, <1>4, <1>5, <1>7, <1>8, <1>9

LEMMA ChangeInv ==
  ASSUME Inv, NEW s \in Slugs, NEW ts \in 1 .. MaxTime, Change(s, ts)
  PROVE  Inv'
<1> DEFINE new == [no |-> changes + 1, slug |-> s, ts |-> ts]
<1>1. /\ unsignalled' = unsignalled \cup {new} /\ changes' = changes + 1 /\ clock' = ts
      /\ changes < MaxChanges /\ ts >= clock /\ changes \in Nat /\ clock \in Nat
      /\ MaxChanges \in Nat /\ MaxTime \in Nat
      /\ UNCHANGED <<wm, scan, mishaps, overlooked, begun>>
  BY FeedAssumption DEF Change, Inv, TypeOK
<1>2. wm = NoEntry \/ (wm \in Entry /\ Past(wm))
  BY DEF Inv, TypeOK, WatermarkIsPast
<1>3. /\ new \in Entry /\ new \notin feed /\ feed' = feed \cup {new}
      /\ \A e \in feed : e.no < new.no /\ e.ts <= new.ts
      /\ \A e \in feed : Reached(wm, feed, e) => Reached(wm, feed', e)
      /\ Absorbed(wm, feed) \cup {s} \subseteq Absorbed(wm, feed')
  BY <1>2, NewEntry
<1>4. \A e \in Entry : e.no \in Nat /\ e.ts \in Nat /\ (Past(e) => Past(e)')
  BY <1>1, FeedAssumption DEF Entry, Past
<1>5. TypeOK'
  BY <1>1, <1>3 DEF Inv, TypeOK
<1>6. FeedIsSound'
  <2>1. IsFiniteSet(feed') /\ Cardinality(feed') = Cardinality(feed) + 1
    BY <1>3, FS_AddElement DEF Inv, FeedIsSound
  <2>2. Cardinality(feed) \in Nat /\ Cardinality(feed) <= changes
    BY FS_CardinalityType DEF Inv, FeedIsSound
  <2>3. \A e \in feed' : e \in Entry /\ Past(e)'
    BY <1>1, <1>3, <1>4 DEF Inv, TypeOK, FeedIsSound, Past
  <2>4. \A e, f \in feed' : e.no = f.no => e = f
    BY <1>3, <1>4, <2>3 DEF Inv, FeedIsSound
  <2>5. \A e, f \in feed' : e.no <= f.no => e.ts <= f.ts
    BY <1>3, <1>4, <2>3 DEF Inv, FeedIsSound
  <2>6. unsignalled' \subseteq feed'
    BY <1>1, <1>3 DEF Inv, FeedIsSound
  <2>7. QED
    BY <1>1, <2>1, <2>2, <2>3, <2>4, <2>5, <2>6 DEF FeedIsSound
<1>7. WatermarkIsPast'
  BY <1>1, <1>2, <1>4 DEF WatermarkIsPast
<1>8. NothingSkipped'
  <2>1. ASSUME NEW e \in unsignalled' \ overlooked'
        PROVE  e.slug \in Absorbed(wm, feed')
    <3>1. e = new \/ e \in unsignalled \ overlooked
      BY <1>1, <2>1
    <3>2. e = new => e.slug = s
      OBVIOUS
    <3>3. QED
      BY <1>3, <3>1, <3>2 DEF Inv, NothingSkipped
  <2>2. QED
    BY <1>1, <2>1 DEF NothingSkipped
<1>9. ASSUME NEW slug, Ahead(slug)
      PROVE  Ahead(slug)'
  <2>1. PICK e \in feed : /\ e.slug = slug /\ Reached(wm, feed, e)
                          /\ (scan.page - 1) * PerPage <= Place(e)
    BY <1>9 DEF Ahead
  <2>2. Place(e)' = Place(e) + 1
    BY <1>3, PlacesMove DEF Inv, FeedIsSound
  <2>3. scan # Idle
    BY <1>9 DEF Ahead, Idle
  <2>4. Place(e) \in Nat /\ (scan.page - 1) * PerPage \in Int
    BY <2>3, PlaceFacts, FeedAssumption DEF Inv, TypeOK, FeedIsSound
  <2>5. (scan.page - 1) * PerPage <= Place(e)'
    BY <2>1, <2>2, <2>4
  <2>6. e \in feed' /\ Reached(wm', feed', e)
    BY <1>1, <1>3, <2>1
  <2>7. QED
    BY <1>1, <1>9, <2>1, <2>5, <2>6 DEF Ahead
<1>10. ScanIsSound'
  <2> SUFFICES ASSUME scan # Idle
               PROVE  ScanIsSound'
    BY <1>1 DEF ScanIsSound
  <2>1. scan.head \in Entry /\ Past(scan.head)
    BY FeedAssumption DEF Inv, TypeOK, ScanIsSound
  <2>2. Absorbed(scan.head, feed) \cup {s} \subseteq Absorbed(scan.head, feed')
    BY <2>1, NewEntry
  <2>3. \A e \in unsignalled' \ overlooked' :
          e.slug \in scan.seen \/ e.slug \in Absorbed(scan.head, feed') \/ Ahead(e.slug)'
    BY <1>1, <1>9, <2>2 DEF Inv, ScanIsSound
  <2>4. QED
    BY <1>1, <1>4, <2>1, <2>3 DEF Inv, ScanIsSound
<1>11. ScanTakesAll'
  <2> SUFFICES ASSUME scan # Idle
               PROVE  ScanTakesAll'
    BY <1>1 DEF ScanTakesAll
  <2>1. begun \in Nat /\ begun <= changes
    BY FeedAssumption DEF Inv, TypeOK, ScanTakesAll
  <2>2. begun' <= changes' /\ ~(new.no <= begun)
    BY <1>1, <2>1
  <2>3. QED
    BY <1>1, <1>9, <2>2 DEF Inv, ScanTakesAll
<1>12. QED
  BY <1>5, <1>6, <1>7, <1>8, <1>10, <1>11 DEF Inv

(* A deletion hides nothing from the next scan, and a scan it disturbs may *)
(* have missed anything.                                                   *)
LEMMA DeleteInv ==
  ASSUME Inv, NEW s \in Slugs, DeletePage(s)
  PROVE  Inv'
<1>1. /\ feed' = {e \in feed : e.slug # s}
      /\ unsignalled' = {e \in unsignalled : e.slug # s}
      /\ overlooked' = IF scan = Idle THEN overlooked \cap unsignalled' ELSE unsignalled'
      /\ UNCHANGED <<changes, clock, wm, scan, mishaps, begun>>
  BY DEF DeletePage
<1>2. feed' \subseteq feed /\ unsignalled' \subseteq unsignalled
  BY <1>1
<1>3. TypeOK'
  BY <1>1, <1>2 DEF Inv, TypeOK
<1>4. FeedIsSound'
  <2>1. IsFiniteSet(feed') /\ Cardinality(feed') <= Cardinality(feed)
    BY <1>2, FS_Subset DEF Inv, FeedIsSound
  <2>2. /\ Cardinality(feed) \in Nat /\ Cardinality(feed') \in Nat /\ changes \in Nat
        /\ Cardinality(feed) <= changes
    BY <2>1, FS_CardinalityType, FeedAssumption DEF Inv, TypeOK, FeedIsSound
  <2>3. QED
    BY <1>1, <1>2, <2>1, <2>2 DEF Inv, FeedIsSound, Past
<1>5. WatermarkIsPast'
  BY <1>1 DEF Inv, WatermarkIsPast, Past
<1>6. NothingSkipped'
  <2>1. ASSUME NEW e \in unsignalled' \ overlooked'
        PROVE  e.slug \in Absorbed(wm', feed')
    <3>1. e \in unsignalled \ overlooked /\ e.slug # s
      BY <1>1, <2>1
    <3>2. PICK f \in feed : f.slug = e.slug /\ Reached(wm, feed, f)
      BY <3>1 DEF Inv, NothingSkipped, Absorbed
    <3>3. f \in feed' /\ Reached(wm', feed', f)
      BY <1>1, <1>2, <3>1, <3>2 DEF Reached
    <3>4. QED
      BY <3>2, <3>3 DEF Absorbed
  <2>2. QED
    BY <2>1 DEF NothingSkipped
<1>7. ScanIsSound' /\ ScanTakesAll'
  BY <1>1 DEF Inv, ScanIsSound, ScanTakesAll, Past
<1>8. QED
  BY <1>3, <1>4, <1>5, <1>6, <1>7 DEF Inv

-----------------------------------------------------------------------------
(* The steps of the scan.                                                  *)

LEMMA FirstWindowInv ==
  ASSUME Inv, FirstWindow
  PROVE  Inv'
<1> DEFINE first == Window(1)
           head == NextWatermark(first)
           read == IF Reaches(wm, first) THEN "scanned" ELSE "walking"
<1>1. /\ first # {} /\ UNCHANGED <<feed, changes, clock, wm, mishaps, unsignalled, overlooked>>
      /\ scan' = [at |-> read, page |-> 2, head |-> head, seen |-> Absorbed(wm, first)]
      /\ begun' = changes
  BY DEF FirstWindow
<1>2. first \subseteq feed /\ 1 <= MaxChanges /\ MaxChanges \in Nat
  BY <1>1, WindowFacts, FeedAssumption DEF Inv
<1>3. head \in Entry /\ Past(head)
  <2>1. Newest(first) \in first
    BY <1>1, <1>2, NewestFacts DEF Inv, TypeOK
  <2>2. Newest(first) \in Entry /\ Past(Newest(first))
    BY <1>2, <2>1 DEF Inv, TypeOK, FeedIsSound
  <2>3. wm # NoEntry => wm \in Entry /\ Past(wm)
    BY DEF Inv, TypeOK, WatermarkIsPast
  <2>4. QED
    BY <2>2, <2>3 DEF NextWatermark
<1>4. TypeOK'
  <2>1. Absorbed(wm, first) \subseteq Slugs
    BY <1>2 DEF Absorbed, Inv, TypeOK, Entry
  <2>2. scan' \in [at : {"walking", "scanned"}, page : 2 .. MaxChanges + 2,
                   head : Entry, seen : SUBSET Slugs]
    BY <1>1, <1>2, <1>3, <2>1
  <2>3. QED
    BY <1>1, <2>2 DEF Inv, TypeOK
<1>5. FeedIsSound' /\ WatermarkIsPast' /\ NothingSkipped'
  BY <1>1 DEF Inv, FeedIsSound, WatermarkIsPast, NothingSkipped, Past
<1>6. ScanIsSound' /\ ScanTakesAll'
  <2>1. ASSUME NEW e \in unsignalled \ overlooked
        PROVE  e.slug \in scan'.seen \/ Ahead(e.slug)'
    <3>1. PICK f \in feed : f.slug = e.slug /\ Reached(wm, feed, f)
      BY <2>1 DEF Inv, NothingSkipped, Absorbed
    <3>2. (1 - 1) * PerPage <= Place(f) /\ 1 * PerPage = PerPage /\ (2 - 1) * PerPage = PerPage
      BY <3>1, PlaceFacts, FeedAssumption DEF Inv, TypeOK, FeedIsSound
    <3>3. \/ f.slug \in Absorbed(wm, first)
          \/ PerPage <= Place(f) /\ ~Reaches(wm, first)
      BY <3>1, <3>2, WindowFollows DEF Inv
    <3>4. CASE f.slug \in Absorbed(wm, first)
      BY <1>1, <3>1, <3>4
    <3>5. CASE PerPage <= Place(f) /\ ~Reaches(wm, first)
      <4>1. /\ scan'.at = "walking" /\ scan'.page = 2
            /\ Place(f)' = Place(f) /\ feed' = feed /\ wm' = wm
        BY <1>1, <3>5 DEF Place
      <4>2. (scan'.page - 1) * PerPage <= Place(f)'
        BY <3>2, <3>5, <4>1
      <4>3. QED
        BY <3>1, <4>1, <4>2 DEF Ahead
    <3>6. QED
      BY <3>3, <3>4, <3>5
  <2>2. Past(scan.head)' /\ scan'.page <= MaxChanges + 1
    BY <1>1, <1>2, <1>3 DEF Past
  <2>3. begun' <= changes'
    BY <1>1, FeedAssumption DEF Inv, TypeOK
  <2>4. QED
    BY <1>1, <2>1, <2>2, <2>3 DEF ScanIsSound, ScanTakesAll
<1>7. QED
  BY <1>4, <1>5, <1>6 DEF Inv

LEMMA NextWindowInv ==
  ASSUME Inv, NextWindow
  PROVE  Inv'
<1> DEFINE n == scan.page
           window == Window(n)
<1>1. /\ scan.at = "walking"
      /\ UNCHANGED <<feed, changes, clock, wm, mishaps, unsignalled, overlooked, begun>>
      /\ scan' = [scan EXCEPT !.at = IF Ends(window) THEN "scanned" ELSE "walking",
                              !.page = @ + 1, !.seen = @ \cup Absorbed(wm, window)]
  BY DEF NextWindow, history
<1>2. scan # Idle
  BY <1>1 DEF Idle
<1>3. /\ scan \in [at : {"walking", "scanned"}, page : 2 .. MaxChanges + 2,
                   head : Entry, seen : SUBSET Slugs]
      /\ n \in Nat \ {0} /\ n <= MaxChanges + 1 /\ MaxChanges \in Nat
  BY <1>1, <1>2, FeedAssumption DEF Inv, TypeOK, ScanIsSound
<1>4. window \subseteq feed /\ (window # {} => n <= MaxChanges)
  BY <1>3, WindowFacts DEF Inv
<1>5. /\ scan'.at = IF Ends(window) THEN "scanned" ELSE "walking"
      /\ scan'.page = n + 1 /\ scan'.head = scan.head
      /\ scan'.seen = scan.seen \cup Absorbed(wm, window)
  BY <1>1, <1>3
<1>6. TypeOK'
  <2>1. Absorbed(wm, window) \subseteq Slugs
    BY <1>4 DEF Absorbed, Inv, TypeOK, Entry
  <2>2. n + 1 \in 2 .. MaxChanges + 2
    BY <1>3
  <2>3. scan' \in [at : {"walking", "scanned"}, page : 2 .. MaxChanges + 2,
                   head : Entry, seen : SUBSET Slugs]
    BY <1>1, <1>3, <2>1, <2>2
  <2>4. QED
    BY <1>1, <2>3 DEF Inv, TypeOK
<1>7. FeedIsSound' /\ WatermarkIsPast' /\ NothingSkipped'
  BY <1>1 DEF Inv, FeedIsSound, WatermarkIsPast, NothingSkipped, Past
<1>8. ScanIsSound' /\ ScanTakesAll'
  <2>1. ASSUME NEW slug, Ahead(slug)
        PROVE  slug \in scan'.seen \/ Ahead(slug)'
    <3>1. PICK f \in feed : /\ f.slug = slug /\ Reached(wm, feed, f)
                            /\ (n - 1) * PerPage <= Place(f)
      BY <2>1 DEF Ahead
    <3>2. \/ f.slug \in Absorbed(wm, window)
          \/ n * PerPage <= Place(f) /\ ~Ends(window)
      BY <1>3, <3>1, WindowFollows DEF Inv, Ends
    <3>3. CASE n * PerPage <= Place(f) /\ ~Ends(window)
      <4>1. /\ scan'.at = "walking" /\ scan'.page - 1 = n
            /\ Place(f)' = Place(f) /\ feed' = feed /\ wm' = wm
        BY <1>1, <1>3, <1>5, <3>3 DEF Place
      <4>2. QED
        BY <3>1, <3>3, <4>1 DEF Ahead
    <3>4. QED
      BY <1>5, <3>1, <3>2, <3>3
  <2>2. \A e \in unsignalled \ overlooked :
          e.slug \in scan'.seen \/ e.slug \in Absorbed(scan'.head, feed) \/ Ahead(e.slug)'
    BY <1>2, <1>5, <2>1 DEF Inv, ScanIsSound
  <2>3. Past(scan.head)' /\ (scan'.at = "walking" => scan'.page <= MaxChanges + 1)
    BY <1>1, <1>2, <1>3, <1>4, <1>5 DEF Inv, ScanIsSound, Past, Ends
  <2>4. ScanTakesAll'
    BY <1>1, <1>2, <1>5, <2>1 DEF Inv, ScanTakesAll
  <2>5. QED
    BY <1>1, <2>2, <2>3, <2>4 DEF ScanIsSound
<1>9. QED
  BY <1>6, <1>7, <1>8 DEF Inv

LEMMA MisreadInv ==
  ASSUME Inv, Misread
  PROVE  Inv'
<1>1. /\ scan.at = "walking" /\ mishaps < MaxMishaps /\ mishaps' = mishaps + 1
      /\ scan' = [scan EXCEPT !.at = "scanned", !.page = @ + 1]
      /\ overlooked' = unsignalled
      /\ UNCHANGED <<feed, changes, clock, wm, unsignalled, begun>>
  BY DEF Misread, Mishap
<1>2. /\ scan # Idle /\ MaxChanges \in Nat /\ MaxMishaps \in Nat
      /\ scan \in [at : {"walking", "scanned"}, page : 2 .. MaxChanges + 2,
                   head : Entry, seen : SUBSET Slugs]
      /\ scan.page <= MaxChanges + 1
  BY <1>1, FeedAssumption DEF Inv, TypeOK, ScanIsSound, Idle
<1>3. TypeOK'
  <2>1. scan' \in [at : {"walking", "scanned"}, page : 2 .. MaxChanges + 2,
                   head : Entry, seen : SUBSET Slugs]
    <3>1. scan.page + 1 \in 2 .. MaxChanges + 2
      BY <1>2
    <3>2. QED
      BY <1>1, <1>2, <3>1
  <2>2. mishaps' \in 0 .. MaxMishaps
    BY <1>1, <1>2 DEF Inv, TypeOK
  <2>3. QED
    BY <1>1, <2>1, <2>2 DEF Inv, TypeOK
<1>4. FeedIsSound' /\ WatermarkIsPast' /\ NothingSkipped'
  BY <1>1 DEF Inv, FeedIsSound, WatermarkIsPast, NothingSkipped, Past
<1>5. ScanIsSound' /\ ScanTakesAll'
  BY <1>1, <1>2 DEF Inv, ScanIsSound, ScanTakesAll, Past
<1>6. QED
  BY <1>3, <1>4, <1>5 DEF Inv

LEMMA CommitInv ==
  ASSUME Inv, Commit
  PROVE  Inv'
<1>1. /\ scan.at = "scanned" /\ wm' = scan.head /\ scan' = Idle
      /\ unsignalled' = {e \in unsignalled : e.slug \notin scan.seen}
      /\ overlooked' = overlooked \cap unsignalled' /\ begun' = 0
      /\ UNCHANGED <<feed, changes, clock, mishaps>>
  BY DEF Commit, FixedHead
<1>2. scan # Idle /\ scan.head \in Entry /\ Past(scan.head)
  BY <1>1 DEF Inv, TypeOK, ScanIsSound, Idle
<1>3. TypeOK'
  BY <1>1, <1>2, FeedAssumption DEF Inv, TypeOK
<1>4. FeedIsSound' /\ WatermarkIsPast'
  BY <1>1, <1>2 DEF Inv, FeedIsSound, WatermarkIsPast, Past
<1>5. NothingSkipped'
  <2>1. \A slug : ~Ahead(slug)
    BY <1>1 DEF Ahead
  <2>2. QED
    BY <1>1, <1>2, <2>1 DEF Inv, ScanIsSound, NothingSkipped
<1>6. ScanIsSound' /\ ScanTakesAll'
  BY <1>1 DEF ScanIsSound, ScanTakesAll
<1>7. QED
  BY <1>3, <1>4, <1>5, <1>6 DEF Inv

LEMMA LostInv ==
  ASSUME Inv, Lost
  PROVE  Inv'
<1>1. /\ scan' = Idle /\ begun' = 0 /\ mishaps < MaxMishaps /\ mishaps' = mishaps + 1
      /\ UNCHANGED <<feed, changes, clock, wm, unsignalled, overlooked>>
  BY DEF Lost, Mishap
<1>2. TypeOK'
  BY <1>1, FeedAssumption DEF Inv, TypeOK
<1>3. QED
  BY <1>1, <1>2
  DEF Inv, FeedIsSound, WatermarkIsPast, NothingSkipped, ScanIsSound, ScanTakesAll, Past

(* What an import leaves unsignalled is newer than its watermark.          *)
LEMMA ImportInv ==
  ASSUME Inv, NEW last \in feed, ImportLegacy(last)
  PROVE  Inv'
<1>1. /\ scan = Idle /\ wm' = last
      /\ unsignalled' = {e \in unsignalled : e.no > last.no}
      /\ overlooked' = overlooked \cap unsignalled'
      /\ UNCHANGED <<feed, changes, clock, scan, mishaps, begun>>
  BY DEF ImportLegacy
<1>2. TypeOK'
  BY <1>1 DEF Inv, TypeOK
<1>3. FeedIsSound' /\ WatermarkIsPast' /\ ScanIsSound' /\ ScanTakesAll'
  BY <1>1 DEF Inv, FeedIsSound, WatermarkIsPast, ScanIsSound, ScanTakesAll, Past
<1>4. \A e \in feed : e.no \in Nat /\ e.ts \in Nat
  BY FeedAssumption DEF Inv, TypeOK, Entry
<1>5. ASSUME NEW e \in unsignalled'
      PROVE  e.slug \in Absorbed(wm', feed')
  <2>1. e \in feed /\ e.no > last.no
    BY <1>1, <1>5 DEF Inv, FeedIsSound
  <2>2. ASSUME NEW f \in feed, f.no >= e.no
        PROVE  ~Stops(last, f)
    <3>1. f.no > last.no /\ last.ts <= f.ts
      BY <1>4, <2>1, <2>2 DEF Inv, FeedIsSound
    <3>2. QED
      BY <1>4, <3>1 DEF Stops
  <2>3. Reached(wm', feed', e)
    BY <1>1, <2>2 DEF Reached
  <2>4. QED
    BY <1>1, <2>1, <2>3 DEF Absorbed
<1>6. QED
  BY <1>2, <1>3, <1>5 DEF Inv, NothingSkipped

-----------------------------------------------------------------------------
(* The theorems.                                                           *)

LEMMA InitInv == Init => Inv
<1> SUFFICES ASSUME Init
             PROVE  Inv
  OBVIOUS
<1>1. IsFiniteSet({}) /\ Cardinality({}) = 0
  BY FS_EmptySet
<1>2. QED
  BY <1>1, FeedAssumption
  DEF Init, Inv, TypeOK, FeedIsSound, WatermarkIsPast, NothingSkipped, ScanIsSound, ScanTakesAll

LEMMA StepInv == Inv /\ [Next]_vars => Inv'
<1> SUFFICES ASSUME Inv, [Next]_vars
             PROVE  Inv'
  OBVIOUS
<1>1. CASE UNCHANGED vars
  <2>1. UNCHANGED <<feed, changes, clock, wm, scan, mishaps, unsignalled, overlooked, begun>>
    BY <1>1 DEF vars, history
  <2>2. TypeOK' /\ FeedIsSound' /\ WatermarkIsPast' /\ NothingSkipped'
    BY <2>1 DEF Inv, TypeOK, FeedIsSound, WatermarkIsPast, NothingSkipped, Past
  <2>3. \A slug : Ahead(slug)' <=> Ahead(slug)
    BY <2>1 DEF Ahead, Place
  <2>4. ScanIsSound' /\ ScanTakesAll'
    BY <2>1, <2>3 DEF Inv, ScanIsSound, ScanTakesAll, Past
  <2>5. QED
    BY <2>2, <2>4 DEF Inv
<1>2. CASE \E s \in Slugs, ts \in 1 .. MaxTime : Change(s, ts)
  BY <1>2, ChangeInv
<1>3. CASE \E s \in Slugs : DeletePage(s)
  BY <1>3, DeleteInv
<1>4. CASE \E last \in feed : ImportLegacy(last)
  BY <1>4, ImportInv
<1>5. QED
  BY <1>1, <1>2, <1>3, <1>4, FirstWindowInv, NextWindowInv, MisreadInv, CommitInv, LostInv
  DEF Next

THEOREM Invariance == Spec => []Inv
BY InitInv, StepInv, PTL DEF Spec

(* The type invariant: the walk never asks for a window more than one past *)
(* the end of the feed.                                                    *)
THEOREM TypeCorrect == Spec => []TypeOK
<1>1. Inv => TypeOK
  BY DEF Inv
<1>2. QED
  BY <1>1, Invariance, PTL

(* Whatever slides through the feed while a scan walks it, no change ends  *)
(* up behind the watermark without a signal, those a misread window or a   *)
(* deletion under the scan let slip aside.                                 *)
THEOREM NothingIsSkipped == Spec => []NothingSkipped
<1>1. Inv => NothingSkipped
  BY DEF Inv
<1>2. QED
  BY <1>1, Invariance, PTL

-----------------------------------------------------------------------------
(* The scan implements what it promises: one step of Discovery for each of *)
(* its own, windows being none.                                            *)

(* A window read is no step of Discovery, the first one is Take.           *)
LEMMA FirstWindowTakes ==
  ASSUME Inv, FirstWindow
  PROVE  Discover!Take
<1>1. /\ scan = Idle /\ begun' = changes
      /\ UNCHANGED <<feed, changes, mishaps, unsignalled, overlooked>>
  BY DEF FirstWindow
<1>2. scan' # Idle
  BY DEF FirstWindow, Idle
<1>3. \A e \in Pending : e.no <= changes
  BY DEF Inv, FeedIsSound, Past, Pending
<1>4. Pending' = Pending
  BY <1>1 DEF Pending
<1>5. {e \in Pending : e.no <= begun}' = Pending
  BY <1>1, <1>3, <1>4
<1>6. QED
  BY <1>1, <1>2, <1>4, <1>5 DEF Discover!Take, Taken

LEMMA CommitSignals ==
  ASSUME Inv, Commit
  PROVE  \E slugs \in SUBSET Slugs : Discover!Signal(slugs)
<1>1. /\ scan.at = "scanned" /\ scan' = Idle
      /\ unsignalled' = {e \in unsignalled : e.slug \notin scan.seen}
      /\ overlooked' = overlooked \cap unsignalled'
      /\ UNCHANGED <<feed, changes, clock, mishaps>>
  BY DEF Commit
<1>2. scan # Idle /\ scan.seen \in SUBSET Slugs
  BY <1>1 DEF Inv, TypeOK, Idle
<1>3. {e.slug : e \in {e \in Pending : e.no <= begun}} \subseteq scan.seen
  <2>1. \A slug : ~Ahead(slug)
    BY <1>1 DEF Ahead
  <2>2. QED
    BY <1>2, <2>1 DEF Inv, ScanTakesAll, Pending
<1>4. Pending' = {e \in Pending : e.slug \notin scan.seen}
  BY <1>1 DEF Pending
<1>5. Discover!Signal(scan.seen)
  BY <1>1, <1>2, <1>3, <1>4 DEF Discover!Signal, Taken
<1>6. QED
  <2> USE <1>2
  <2> WITNESS scan.seen \in SUBSET Slugs
  <2> QED
    BY <1>5

(* What happens to the feed meanwhile.                                     *)
LEMMA ChangeHappens ==
  ASSUME Inv, NEW s \in Slugs, NEW ts \in 1 .. MaxTime, Change(s, ts)
  PROVE  \E e \in Entry : Discover!Happen(e)
<1> DEFINE new == [no |-> changes + 1, slug |-> s, ts |-> ts]
<1>1. /\ feed' = feed \cup {new} /\ unsignalled' = unsignalled \cup {new}
      /\ UNCHANGED <<scan, mishaps, overlooked, begun>>
  BY DEF Change
<1>2. new \in Entry /\ new \notin feed
  BY NewEntry DEF Inv
<1>3. new \notin overlooked /\ Pending' = Pending \cup {new}
  BY <1>1, <1>2 DEF Pending, Inv, TypeOK, FeedIsSound
<1>4. scan # Idle => ~(new.no <= begun)
  BY FeedAssumption DEF Inv, TypeOK, ScanTakesAll
<1>5. Taken' = Taken
  BY <1>1, <1>3, <1>4 DEF Taken
<1>6. Discover!Happen(new)
  BY <1>1, <1>2, <1>3, <1>5 DEF Discover!Happen, Taken
<1>7. QED
  BY <1>2, <1>6

LEMMA DeleteReleases ==
  ASSUME Inv, NEW s \in Slugs, DeletePage(s)
  PROVE  Discover!Delete(s)
<1>1. /\ \E e \in feed : e.slug = s
      /\ feed' = {e \in feed : e.slug # s}
      /\ unsignalled' = {e \in unsignalled : e.slug # s}
      /\ overlooked' = IF scan = Idle THEN overlooked \cap unsignalled' ELSE unsignalled'
      /\ UNCHANGED <<scan, mishaps, begun>>
  BY DEF DeletePage
<1>2. CASE scan = Idle
  <2>1. Pending' = {e \in Pending : e.slug # s}
    BY <1>1, <1>2 DEF Pending
  <2>2. QED
    BY <1>1, <1>2, <2>1 DEF Discover!Delete, Taken
<1>3. CASE scan # Idle
  <2>1. Pending' = {}
    BY <1>1, <1>3 DEF Pending
  <2>2. {e \in Pending : e.no <= begun}' = {}
    BY <2>1
  <2>3. QED
    BY <1>1, <1>3, <2>1, <2>2 DEF Discover!Delete, Discover!Released, Taken
<1>4. QED
  BY <1>2, <1>3

LEMMA MisreadSlips ==
  ASSUME Inv, Misread
  PROVE  Discover!Slip
<1>1. /\ scan.at = "walking" /\ scan' = [scan EXCEPT !.at = "scanned", !.page = @ + 1]
      /\ mishaps' = mishaps + 1 /\ overlooked' = unsignalled
      /\ UNCHANGED <<feed, unsignalled, begun>>
  BY DEF Misread, Mishap
<1>2. scan # Idle
  BY <1>1 DEF Idle
<1>3. scan'.at = "scanned" /\ scan' # Idle
  BY <1>1, <1>2 DEF Inv, TypeOK, Idle
<1>4. Pending' = {}
  BY <1>1 DEF Pending
<1>5. {e \in Pending : e.no <= begun}' = {}
  BY <1>4
<1>6. QED
  BY <1>1, <1>2, <1>3, <1>4, <1>5 DEF Discover!Slip, Discover!Released, Taken

LEMMA LostFails ==
  ASSUME Lost
  PROVE  Discover!Fail
<1>1. /\ scan # Idle /\ scan' = Idle /\ mishaps' = mishaps + 1
      /\ UNCHANGED <<feed, unsignalled, overlooked>>
  BY DEF Lost, Mishap
<1>2. Pending' = Pending
  BY <1>1 DEF Pending
<1>3. QED
  BY <1>1, <1>2 DEF Discover!Fail, Taken

LEMMA ImportImports ==
  ASSUME NEW last \in feed, ImportLegacy(last)
  PROVE  Discover!Import(last)
<1>1. /\ scan = Idle
      /\ unsignalled' = {e \in unsignalled : e.no > last.no}
      /\ overlooked' = overlooked \cap unsignalled'
      /\ UNCHANGED <<feed, scan, mishaps>>
  BY DEF ImportLegacy
<1>2. Pending' = {e \in Pending : e.no > last.no}
  BY <1>1 DEF Pending
<1>3. QED
  BY <1>1, <1>2 DEF Discover!Import, Taken

(* Deeper windows stutter.                                                 *)
LEMMA WindowStutters ==
  ASSUME Inv, NextWindow \/ UNCHANGED vars
  PROVE  UNCHANGED Discover!discovery
<1>1. UNCHANGED <<feed, mishaps, unsignalled, overlooked, begun>>
  BY DEF NextWindow, vars, history
<1>2. scan' = Idle <=> scan = Idle
  <2>1. CASE NextWindow
    <3>1. scan.at = "walking" /\ DOMAIN scan' = DOMAIN scan
      BY <2>1 DEF NextWindow
    <3>2. scan # Idle
      BY <3>1 DEF Idle
    <3>3. scan \in [at : {"walking", "scanned"}, page : 2 .. MaxChanges + 2,
                    head : Entry, seen : SUBSET Slugs]
      BY <3>2 DEF Inv, TypeOK
    <3>4. scan'.at \in {"walking", "scanned"}
      BY <2>1, <3>3 DEF NextWindow
    <3>5. QED
      BY <3>2, <3>4 DEF Idle
  <2>2. QED
    BY <2>1 DEF vars
<1>3. Pending' = Pending /\ {e \in Pending : e.no <= begun}' = {e \in Pending : e.no <= begun}
  BY <1>1 DEF Pending
<1>4. QED
  BY <1>1, <1>2, <1>3 DEF Discover!discovery, Taken

LEMMA StepImplements == Inv /\ [Next]_vars => [Discover!DiscoveryNext]_(Discover!discovery)
<1> SUFFICES ASSUME Inv, [Next]_vars
             PROVE  [Discover!DiscoveryNext]_(Discover!discovery)
  OBVIOUS
<1>1. CASE \E s \in Slugs, ts \in 1 .. MaxTime : Change(s, ts)
  BY <1>1, ChangeHappens DEF Discover!DiscoveryNext
<1>2. CASE \E s \in Slugs : DeletePage(s)
  BY <1>2, DeleteReleases DEF Discover!DiscoveryNext
<1>3. CASE FirstWindow
  BY <1>3, FirstWindowTakes DEF Discover!DiscoveryNext
<1>4. CASE NextWindow \/ UNCHANGED vars
  BY <1>4, WindowStutters
<1>5. CASE Misread
  BY <1>5, MisreadSlips DEF Discover!DiscoveryNext
<1>6. CASE Commit
  BY <1>6, CommitSignals DEF Discover!DiscoveryNext
<1>7. CASE Lost
  BY <1>7, LostFails DEF Discover!DiscoveryNext
<1>8. CASE \E last \in feed : ImportLegacy(last)
  BY <1>8, ImportImports DEF Discover!DiscoveryNext
<1>9. QED
  BY <1>1, <1>2, <1>3, <1>4, <1>5, <1>6, <1>7, <1>8 DEF Next

(* A scan, though it reads the feed in windows while the feed slides, does *)
(* what a run that saw it in one instant would promise.                    *)
THEOREM ScanImplementsDiscovery == Spec => ImplementsDiscovery
<1>1. Init => Discover!DiscoveryInit
  BY DEF Init, Discover!DiscoveryInit, Pending, Taken
<1>2. QED
  BY <1>1, StepImplements, Invariance, PTL DEF Spec, ImplementsDiscovery, Discover!DiscoverySpec

=============================================================================
