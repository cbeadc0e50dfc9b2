---------------------------- MODULE PublishProofs ----------------------------
(* Theorems about Publish, for every number of pages and revisions and     *)
(* every bound on the changes and mishaps around a publication.            *)
EXTENDS Publish, FiniteSetTheorems, TLAPS

-----------------------------------------------------------------------------
(* The inductive invariant.                                                *)

(* The database, as far as a publication reads it.                         *)
Database ==
  /\ known \in [Pages -> 0 .. Revs] /\ stored \in [Pages -> SUBSET (1 .. Revs)]
  /\ look \in [Pages -> Nat] /\ texted \in [Pages -> Nat]
  /\ packed \in [Pages -> 0 .. Revs]
  /\ rows \in Nat /\ changes \in 0 .. MaxChanges /\ rows <= changes
  /\ mishaps \in 0 .. MaxMishaps
  /\ \A p \in Pages : /\ stored[p] \subseteq 1 .. known[p]
                      /\ texted[p] <= look[p] /\ look[p] <= changes
                      /\ packed[p] <= StoredCount(p)

Docs == {Absent} \cup UNION {File(t) : t \in Targets}
Entry == [count : 0 .. Revs, look : 0 .. MaxChanges, packed : 0 .. Revs]
Lists == UNION {[S -> Entry] : S \in SUBSET Pages}
At == {"idle", "page", "write", "rename", "dirsync", "record", "pages", "files", "compare"}
Publisher == [at : At, target : 1 .. N + 3, list : Lists, doc : Docs, next : Docs,
              dir : BOOLEAN, synced : BOOLEAN]

Making == pub.at \in {"write", "rename", "dirsync", "record"}
Position ==
  /\ pub \in Publisher
  /\ pub.at \in {"page", "record"} => pub.target \in Pages
  /\ pub.at \in {"pages", "files"} => pub.target = PagesJson
  /\ pub.at = "compare" => pub.target \notin Pages
  /\ Making => pub.target \in Targets
  /\ pub.at = "rename" => pub.synced

(* What was listed of a page yet to do: its count is no more than there    *)
(* are, and if as many, its look is no older than the last text.           *)
Honest(p) ==
  /\ packed[p] <= pub.list[p].count
  /\ pub.list[p].count <= StoredCount(p)
  /\ pub.list[p].count = StoredCount(p) => texted[p] <= pub.list[p].look
OnPages == (pub.at = "page" \/ Making) /\ pub.target \in Pages
Listing ==
  OnPages => \A p \in pub.target .. N : p \in DOMAIN pub.list /\ Honest(p)

(* The document under way.                                                 *)
Document ==
  /\ Making => pub.doc \in File(pub.target)
  /\ pub.at = "files" => pub.doc \in File(PagesJson)
  /\ pub.at = "compare" /\ pub.target \in Targets => pub.doc \in File(pub.target)
  /\ (Making \/ pub.at = "compare") /\ pub.target \notin Pages => pub.next \in File(FilesJson)
  /\ Making /\ pub.target \in Pages =>
       /\ pub.doc.texts \subseteq stored[pub.target]
       /\ Listed.count <= Cardinality(pub.doc.texts)
       /\ pub.doc.look = Listed.look
  /\ pub.at \in {"dirsync", "record"} => seen[pub.target] \in {pub.doc, Absent}
  /\ pub.at = "record" => kept[pub.target] \in {pub.doc, Absent}

(* A file of out/ that the next run may skip, now or after more texts.     *)
Good(p, file) ==
  file # Absent =>
    /\ file.texts \subseteq stored[p]
    /\ packed[p] <= Cardinality(file.texts)
    /\ packed[p] = StoredCount(p) => texted[p] <= file.look
Files ==
  /\ seen \in [Targets -> Docs] /\ kept \in [Targets -> Docs] /\ flushed \subseteq Targets
  /\ \A t \in Targets : /\ seen[t] \in {Absent} \cup File(t)
                        /\ kept[t] \in {Absent} \cup File(t)
                        /\ seen[t] = Absent \/ t \in flushed
  /\ \A p \in Pages : Good(p, seen[p]) /\ Good(p, kept[p])

Inv == Database /\ Position /\ Listing /\ Document /\ Files

-----------------------------------------------------------------------------
(* Facts about the constants and about counting.                           *)

(* Pages, manifests and their numbers.                                     *)
LEMMA Facts ==
  /\ N \in Nat /\ N >= 1 /\ Revs \in Nat /\ MaxChanges \in Nat /\ MaxMishaps \in Nat
  /\ Absent # Torn
  /\ Pages \subseteq Targets /\ Pages \subseteq Nat /\ Targets \subseteq 1 .. N + 3
  /\ PagesJson \in Targets \ Pages /\ FilesJson \in Targets \ Pages /\ PagesJson # FilesJson
BY PublishAssumption DEF Pages, Targets, PagesJson, FilesJson

(* Files are neither absent nor torn, and documents.                       *)
LEMMA FileFacts ==
  ASSUME NEW t \in Targets, NEW file \in File(t)
  PROVE  file # Absent /\ file # Torn /\ file \in Docs
BY FileAssumption DEF Docs

(* An archive, pages.json and files.json.                                  *)
LEMMA FileKinds ==
  /\ \A p \in Pages : File(p) = [texts : SUBSET (1 .. Revs), look : 0 .. MaxChanges]
  /\ File(PagesJson) =
       [Pages -> [look : 0 .. MaxChanges, stored : 0 .. Revs, known : 0 .. Revs]]
  /\ File(FilesJson) = 0 .. MaxChanges
BY Facts DEF File

(* Counting texts: subsets count less, and equals only if they are all.    *)
LEMMA Counting ==
  ASSUME NEW S \in SUBSET (1 .. Revs)
  PROVE  /\ Cardinality(S) \in 0 .. Revs
         /\ (Cardinality(S) = 0 <=> S = {})
         /\ \A T \in SUBSET S : /\ Cardinality(T) \in 0 .. Revs
                                /\ Cardinality(T) <= Cardinality(S)
                                /\ Cardinality(T) = Cardinality(S) => T = S
         /\ \A r \in (1 .. Revs) \ S : Cardinality(S \cup {r}) = Cardinality(S) + 1
<1>1. IsFiniteSet(1 .. Revs) /\ Cardinality(1 .. Revs) = Revs
  BY Facts, FS_Interval
<1>2. ASSUME NEW X \in SUBSET (1 .. Revs)
      PROVE  IsFiniteSet(X) /\ Cardinality(X) \in 0 .. Revs
  <2>1. IsFiniteSet(X) /\ Cardinality(X) <= Revs
    BY <1>1, FS_Subset
  <2>2. Cardinality(X) \in Nat
    BY <2>1, FS_CardinalityType
  <2>3. QED
    BY <2>1, <2>2, Facts
<1>3. \A T \in SUBSET S : /\ Cardinality(T) \in 0 .. Revs
                          /\ Cardinality(T) <= Cardinality(S)
                          /\ Cardinality(T) = Cardinality(S) => T = S
  BY <1>2, FS_Subset
<1>4. \A r \in (1 .. Revs) \ S : Cardinality(S \cup {r}) = Cardinality(S) + 1
  BY <1>2, FS_AddElement
<1>5. Cardinality(S) = 0 <=> S = {}
  BY <1>2, FS_EmptySet
<1>6. QED
  BY <1>2, <1>3, <1>4, <1>5

(* The invariant holds at first.                                           *)
LEMMA InitInv == Init => Inv
<1> SUFFICES ASSUME Init
             PROVE  Inv
  OBVIOUS
<1> USE Facts
<1>1. \A p \in Pages : StoredCount(p) = 0
  BY Counting DEF Init, StoredCount
<1>2. Database
  BY <1>1 DEF Init, Database
<1>3. Position
  <2>1. [p \in {} |-> p] \in Lists
    <3>1. [p \in {} |-> p] \in [{} -> Entry]
      OBVIOUS
    <3>2. QED
      BY <3>1 DEF Lists
  <2>2. Absent \in Docs /\ 1 \in 1 .. N + 3
    BY DEF Docs
  <2>3. pub \in Publisher
    BY <2>1, <2>2 DEF Init, Idle, Publisher, At
  <2>4. QED
    BY <2>3 DEF Init, Idle, Position, Making
<1>4. Listing /\ Document
  BY DEF Init, Idle, Listing, Document, OnPages, Making
<1>5. Files
  BY DEF Init, Files, Good, Docs
<1>6. QED
  BY <1>2, <1>3, <1>4, <1>5 DEF Inv

-----------------------------------------------------------------------------
(* The jobs beside it.                                                     *)

(* A page is left as it is, or has more texts than before.                 *)
Grows(p) ==
  \/ stored'[p] = stored[p] /\ texted'[p] = texted[p]
  \/ stored[p] \subseteq stored'[p] /\ StoredCount(p) < StoredCount(p)'

(* Another job's transaction keeps the database in order, and texts and    *)
(* names only move forward.                                                *)
LEMMA OtherJobs ==
  ASSUME Database, DatabaseMoves
  PROVE  Database' /\ \A p \in Pages : Grows(p)
<1> USE Facts
<1>1. changes' = changes + 1 /\ changes' \in 0 .. MaxChanges /\ UNCHANGED <<packed, mishaps>>
  BY DEF DatabaseMoves, Database
<1>2. CASE SaveFile
  BY <1>1, <1>2 DEF SaveFile, Database, Grows, StoredCount
<1>3. ASSUME NEW p \in Pages, NEW r \in (1 .. Revs) \ stored[p],
             stored' = [stored EXCEPT ![p] = @ \cup {r}]
      PROVE  /\ stored' \in [Pages -> SUBSET (1 .. Revs)]
             /\ stored'[p] = stored[p] \cup {r}
             /\ StoredCount(p)' = StoredCount(p) + 1
             /\ \A q \in Pages \ {p} : stored'[q] = stored[q] /\ StoredCount(q)' = StoredCount(q)
  <2>1. stored' \in [Pages -> SUBSET (1 .. Revs)] /\ stored'[p] = stored[p] \cup {r}
    BY <1>3 DEF Database
  <2>2. Cardinality(stored[p] \cup {r}) = Cardinality(stored[p]) + 1
    BY <1>3, Counting DEF Database
  <2>3. QED
    BY <1>3, <2>1, <2>2 DEF StoredCount, Database
<1>4. ASSUME NEW p \in Pages, Sync(p)
      PROVE  Database' /\ \A q \in Pages : Grows(q)
  <2>1. known[p] + 1 \in (1 .. Revs) \ stored[p]
    BY <1>4 DEF Sync, Database
  <2>2. /\ known' = [known EXCEPT ![p] = known[p] + 1]
        /\ look' = [look EXCEPT ![p] = look[p] + 1]
        /\ rows' = rows
    BY <1>4 DEF Sync
  <2>3. known'[p] = known[p] + 1 /\ look'[p] = look[p] + 1
    BY <2>2 DEF Database
  <2>4. CASE stored' = [stored EXCEPT ![p] = stored[p]] /\ texted' = [texted EXCEPT ![p] = texted[p]]
    <3>1. stored' = stored /\ texted' = texted
      BY <2>4 DEF Database
    <3>2. \A q \in Pages : Grows(q)
      BY <3>1 DEF Grows
    <3>3. Database'
      BY <1>1, <2>1, <2>2, <2>3, <3>1 DEF Database, StoredCount
    <3>4. QED
      BY <3>2, <3>3
  <2>5. CASE /\ stored' = [stored EXCEPT ![p] = @ \cup {known[p] + 1}]
             /\ texted' = [texted EXCEPT ![p] = look[p] + 1]
    <3>1. /\ stored' \in [Pages -> SUBSET (1 .. Revs)]
          /\ stored'[p] = stored[p] \cup {known[p] + 1}
          /\ StoredCount(p)' = StoredCount(p) + 1
          /\ \A q \in Pages \ {p} : stored'[q] = stored[q] /\ StoredCount(q)' = StoredCount(q)
      BY <1>3, <2>1, <2>5
    <3>2. StoredCount(p) \in Nat
      BY Counting DEF StoredCount, Database
    <3>3. /\ texted' \in [Pages -> Nat] /\ texted'[p] = look'[p]
          /\ \A q \in Pages \ {p} : texted'[q] = texted[q]
      BY <2>3, <2>5 DEF Database
    <3>4. \A q \in Pages : Grows(q)
      <4>1. Grows(p)
        BY <3>1, <3>2 DEF Grows
      <4>2. \A q \in Pages \ {p} : Grows(q)
        BY <3>1, <3>3 DEF Grows
      <4>3. QED
        BY <4>1, <4>2
    <3>5. \A q \in Pages : /\ stored'[q] \subseteq 1 .. known'[q]
                           /\ texted'[q] <= look'[q] /\ look'[q] <= changes'
                           /\ packed'[q] <= StoredCount(q)'
      BY <1>1, <2>1, <2>2, <2>3, <3>1, <3>2, <3>3 DEF Database
    <3>6. known' \in [Pages -> 0 .. Revs] /\ look' \in [Pages -> Nat]
      BY <2>1, <2>2 DEF Database
    <3>7. QED
      BY <1>1, <2>2, <3>1, <3>3, <3>4, <3>5, <3>6 DEF Database
  <2>6. QED
    BY <1>4, <2>3, <2>4, <2>5 DEF Sync
<1>5. ASSUME NEW p \in Pages, Retag(p)
      PROVE  Database' /\ \A q \in Pages : Grows(q)
  BY <1>1, <1>5 DEF Retag, Database, Grows, StoredCount
<1>6. ASSUME NEW p \in Pages, NEW r \in 1 .. Revs, Store(p, r)
      PROVE  Database' /\ \A q \in Pages : Grows(q)
  <2>1. r \in (1 .. known[p]) \ stored[p] /\ UNCHANGED <<known, look, rows>>
    BY <1>6 DEF Store
  <2>2. /\ stored' \in [Pages -> SUBSET (1 .. Revs)]
        /\ stored'[p] = stored[p] \cup {r}
        /\ StoredCount(p)' = StoredCount(p) + 1
        /\ \A q \in Pages \ {p} : stored'[q] = stored[q] /\ StoredCount(q)' = StoredCount(q)
    BY <1>3, <1>6, <2>1 DEF Store
  <2>3. StoredCount(p) \in Nat
    BY Counting DEF StoredCount, Database
  <2>4. /\ texted' \in [Pages -> Nat] /\ texted'[p] = look[p]
        /\ \A q \in Pages \ {p} : texted'[q] = texted[q]
    BY <1>6 DEF Store, Database
  <2>5. \A q \in Pages : Grows(q)
    BY <2>2, <2>3, <2>4 DEF Grows
  <2>6. \A q \in Pages : /\ stored'[q] \subseteq 1 .. known'[q]
                         /\ texted'[q] <= look'[q] /\ look'[q] <= changes'
                         /\ packed'[q] <= StoredCount(q)'
    BY <1>1, <2>1, <2>2, <2>3, <2>4 DEF Database
  <2>7. QED
    BY <1>1, <2>1, <2>2, <2>4, <2>5, <2>6 DEF Database
<1>7. QED
  BY <1>2, <1>4, <1>5, <1>6 DEF DatabaseMoves

(* An archive that is no obstacle to a later run stays none.               *)
LEMMA GoodStays ==
  ASSUME Database, NEW p \in Pages, Grows(p), packed' = packed, NEW file, Good(p, file)
  PROVE  Good(p, file)'
<1>1. StoredCount(p) \in Nat /\ packed[p] <= StoredCount(p) /\ packed[p] \in Nat
  BY Counting, Facts DEF StoredCount, Database
<1>2. CASE stored'[p] = stored[p] /\ texted'[p] = texted[p]
  BY <1>2 DEF Good, StoredCount
<1>3. CASE stored[p] \subseteq stored'[p] /\ StoredCount(p) < StoredCount(p)'
  <2>1. StoredCount(p)' # packed[p]
    BY <1>1, <1>3
  <2>2. QED
    BY <1>3, <2>1 DEF Good
<1>4. QED
  BY <1>2, <1>3 DEF Grows

(* The listing of a page stays honest.                                     *)
LEMMA HonestStays ==
  ASSUME Database, Database', NEW p \in Pages, Grows(p), packed' = packed, pub' = pub,
         pub.list[p].count \in Nat, Honest(p)
  PROVE  Honest(p)'
<1>1. StoredCount(p) \in Nat /\ StoredCount(p)' \in Nat
  BY Counting, Facts DEF StoredCount, Database
<1>2. CASE stored'[p] = stored[p] /\ texted'[p] = texted[p]
  BY <1>2 DEF Honest, StoredCount
<1>3. CASE StoredCount(p) < StoredCount(p)'
  BY <1>1, <1>3 DEF Honest
<1>4. QED
  BY <1>2, <1>3 DEF Grows

(* What a list has of a page.                                              *)
LEMMA Listings ==
  ASSUME NEW l \in Lists, NEW p \in DOMAIN l
  PROVE  /\ l[p] \in Entry /\ p \in Pages
         /\ l[p].count \in 0 .. Revs /\ l[p].look \in 0 .. MaxChanges
<1>1. PICK S \in SUBSET Pages : l \in [S -> Entry]
  BY DEF Lists
<1>2. l[p] \in Entry /\ p \in Pages
  BY <1>1
<1>3. QED
  BY <1>2 DEF Entry

(* Other jobs keep the invariant.                                          *)
LEMMA OtherJobsInv == Inv /\ DatabaseMoves => Inv'
<1> SUFFICES ASSUME Inv, DatabaseMoves
             PROVE  Inv'
  OBVIOUS
<1> USE Facts
<1>1. Database' /\ (\A p \in Pages : Grows(p)) /\ UNCHANGED <<packed, files, pub, mishaps>>
  BY OtherJobs DEF Inv, DatabaseMoves
<1>2. Position'
  BY <1>1 DEF Inv, Position, Making
<1>3. Listing'
  <2>1. SUFFICES ASSUME OnPages, NEW p \in pub.target .. N
                 PROVE  p \in DOMAIN pub.list /\ Honest(p)'
    BY <1>1 DEF Listing, OnPages, Making
  <2>2. p \in DOMAIN pub.list /\ Honest(p) /\ pub.list \in Lists
    BY <2>1 DEF Inv, Listing, Position, Publisher
  <2>3. p \in Pages /\ pub.list[p].count \in Nat
    BY <2>2, Listings
  <2>4. QED
    BY <1>1, <2>2, <2>3, HonestStays DEF Inv
<1>4. Document'
  <2>1. UNCHANGED <<pub, seen, kept>>
    BY <1>1 DEF files
  <2>2. \A p \in Pages : stored[p] \subseteq stored'[p]
    BY <1>1 DEF Grows
  <2>3. QED
    BY <2>1, <2>2 DEF Inv, Document, Making, Listed
<1>5. Files'
  <2>1. UNCHANGED <<seen, kept, flushed, packed>>
    BY <1>1 DEF files
  <2>2. \A p \in Pages : Good(p, seen[p])' /\ Good(p, kept[p])'
    <3>1. ASSUME NEW p \in Pages, NEW file, Good(p, file)
          PROVE  /\ file # Absent => file.texts \subseteq stored'[p] /\ packed'[p] <= Cardinality(file.texts)
                 /\ file # Absent /\ packed'[p] = StoredCount(p)' => texted'[p] <= file.look
      BY <1>1, <2>1, <3>1, GoodStays DEF Inv, Good
    <3>2. QED
      BY <2>1, <3>1 DEF Inv, Files, Good
  <2>3. QED
    BY <2>1, <2>2 DEF Inv, Files
<1>6. QED
  BY <1>1, <1>2, <1>3, <1>4, <1>5 DEF Inv

-----------------------------------------------------------------------------
(* The publisher.                                                          *)

(* A step that writes neither the database nor packed_revs keeps both.     *)
LEMMA DatabaseKept ==
  ASSUME Database, UNCHANGED <<database, packed>>, mishaps' \in 0 .. MaxMishaps
  PROVE  Database' /\ \A p \in Pages : StoredCount(p)' = StoredCount(p)
BY DEF Database, database, StoredCount

(* One that writes no file either keeps those.                             *)
LEMMA FilesKept ==
  ASSUME Files, UNCHANGED <<database, packed, files>>
  PROVE  Files'
<1>1. UNCHANGED <<stored, texted, packed, seen, kept, flushed>>
  BY DEF database, files
<1>2. QED
  BY <1>1 DEF Files, Good, StoredCount

(* A publisher that has ended is under way with nothing.                   *)
LEMMA Ended ==
  ASSUME pub' = Idle
  PROVE  Position' /\ Listing' /\ Document'
<1> USE Facts
<1>1. [p \in {} |-> p] \in Lists
  <2>1. [p \in {} |-> p] \in [{} -> Entry]
    OBVIOUS
  <2>2. QED
    BY <2>1 DEF Lists
<1>2. Idle \in Publisher
  BY <1>1 DEF Idle, Publisher, At, Docs
<1>3. QED
  BY <1>2 DEF Idle, Position, Listing, Document, OnPages, Making

(* The publisher goes on to the next page, or to the manifests.            *)
LEMMA NextPage ==
  ASSUME Inv, OnPages, NextTarget, UNCHANGED database,
         \A p \in Pages \ {pub.target} : packed'[p] = packed[p]
  PROVE  Position' /\ Listing' /\ Document'
<1> USE Facts
<1> DEFINE t == pub.target
           l == [p \in DOMAIN pub.list \ {t} |-> pub.list[p]]
<1>1. t \in Pages /\ pub.list \in Lists
  BY DEF OnPages, Inv, Position, Publisher
<1>2. l \in Lists
  <2>1. PICK S \in SUBSET Pages : pub.list \in [S -> Entry]
    BY <1>1 DEF Lists
  <2>2. l \in [S \ {t} -> Entry]
    BY <2>1
  <2>3. QED
    BY <2>2 DEF Lists
<1>3. /\ pub'.at = IF t < N THEN "page" ELSE "pages"
      /\ pub'.target = t + 1 /\ pub'.list = l
      /\ pub' \in Publisher
  <2>1. pub' = [at |-> IF t < N THEN "page" ELSE "pages", target |-> t + 1, list |-> l,
                doc |-> Absent, next |-> Absent, dir |-> FALSE, synced |-> FALSE]
    BY DEF NextTarget, Idle
  <2>2. t + 1 \in 1 .. N + 3
    BY <1>1 DEF Pages
  <2>3. QED
    BY <1>2, <2>1, <2>2 DEF Publisher, At, Docs
<1> HIDE DEF l
<1>4. Position'
  BY <1>1, <1>3 DEF Position, Making, Pages, PagesJson
<1>5. ASSUME NEW p \in t + 1 .. N, pub'.at = "page"
      PROVE  p \in DOMAIN l /\ Honest(p)'
  <2>1. p \in t .. N /\ p \in Pages /\ p # t
    BY <1>1, <1>5 DEF Pages
  <2>2. p \in DOMAIN pub.list /\ Honest(p)
    BY <2>1 DEF Inv, Listing
  <2>3. p \in DOMAIN l /\ l[p] = pub.list[p]
    BY <2>1, <2>2 DEF l
  <2>4. packed'[p] = packed[p] /\ UNCHANGED <<stored, texted>>
    BY <2>1 DEF database
  <2>5. QED
    BY <1>3, <2>2, <2>3, <2>4 DEF Honest, StoredCount
<1>6. Listing'
  BY <1>3, <1>5 DEF Listing, OnPages, Making
<1>7. Document'
  BY <1>3 DEF Document, Making
<1>8. QED
  BY <1>4, <1>6, <1>7

(* Steps that only read.                                                   *)
LEMMA Reads ==
  ASSUME Inv, List \/ SkipPacked \/ ReadTexts \/ Write \/ ReadPages \/ ReadFiles
              \/ Compare \/ Published \/ DirGone
  PROVE  Position' /\ Listing' /\ Document'
<1> USE Facts
<1>1. UNCHANGED <<database, packed, files, mishaps>>
  BY DEF List, SkipPacked, ReadTexts, Write, ReadPages, ReadFiles, Compare, Published, DirGone
<1>2. Database /\ Position /\ Listing /\ Document /\ pub \in Publisher
  BY DEF Inv, Position
<1>3. UNCHANGED <<stored, texted, look, known, rows, packed, seen, kept>>
  BY <1>1 DEF database, files
<1>4. CASE List
  <2> DEFINE entry(p) == [count |-> StoredCount(p), look |-> look[p], packed |-> packed[p]]
             l == [p \in Pages |-> entry(p)]
  <2>1. pub' = [Idle EXCEPT !.at = "page", !.list = l]
    BY <1>4 DEF List
  <2>2. \A p \in Pages : entry(p) \in Entry
    <3>1. \A p \in Pages : StoredCount(p) \in 0 .. Revs
      BY <1>2, Counting DEF StoredCount, Database
    <3>2. \A p \in Pages : look[p] \in 0 .. MaxChanges /\ packed[p] \in 0 .. Revs
      BY <1>2 DEF Database
    <3>3. QED
      BY <3>1, <3>2 DEF Entry
  <2>3. l \in Lists
    <3>1. l \in [Pages -> Entry]
      BY <2>2
    <3>2. QED
      BY <3>1 DEF Lists
  <2>4. \A p \in Pages : l[p].count = StoredCount(p) /\ l[p].look = look[p]
    OBVIOUS
  <2>5. DOMAIN l = Pages
    OBVIOUS
  <2> HIDE DEF l
  <2>6. pub'.at = "page" /\ pub'.target = 1 /\ pub'.list = l /\ pub' \in Publisher
    <3>1. pub' = [at |-> "page", target |-> 1, list |-> l, doc |-> Absent,
                  next |-> Absent, dir |-> FALSE, synced |-> FALSE]
      BY <2>1 DEF Idle
    <3>2. QED
      BY <2>3, <3>1 DEF Publisher, At, Docs
  <2>7. 1 \in Pages
    BY DEF Pages
  <2>8. Position'
    BY <2>6, <2>7 DEF Position, Making
  <2>9. ASSUME NEW p \in Pages
        PROVE  Honest(p)'
    <3>1. packed[p] <= StoredCount(p) /\ StoredCount(p) \in Nat /\ texted[p] <= look[p]
      BY <1>2, Counting DEF StoredCount, Database
    <3>2. StoredCount(p)' = StoredCount(p)
      BY <1>3 DEF StoredCount
    <3>3. QED
      BY <1>3, <2>4, <2>6, <3>1, <3>2 DEF Honest
  <2>10. Listing'
    BY <2>5, <2>6, <2>9 DEF Listing, Pages
  <2>11. Document'
    BY <2>6, <2>7 DEF Document, Making
  <2>12. QED
    BY <2>8, <2>10, <2>11
<1>5. CASE SkipPacked
  <2>1. OnPages /\ NextTarget
    BY <1>2, <1>5 DEF SkipPacked, AtPage, OnPages, Position
  <2>2. QED
    BY <1>1, <1>3, <2>1, NextPage
<1>6. CASE ReadTexts
  <2> DEFINE t == pub.target
             d == Archive(t)
  <2>1. OnPages /\ t \in Pages /\ t \in t .. N /\ t \in Targets /\ pub.at = "page"
    BY <1>2, <1>6 DEF ReadTexts, AtPage, OnPages, Position, Pages
  <2>2. t \in DOMAIN pub.list /\ Honest(t) /\ pub.list[t].look \in 0 .. MaxChanges
    BY <1>2, <2>1, Listings DEF Listing, Publisher
  <2>3. d \in File(t) /\ d.texts = stored[t] /\ d.look = Listed.look
    BY <1>2, <2>1, <2>2, FileKinds DEF Archive, Listed, Database
  <2>4. d \in Docs
    BY <2>1, <2>3, FileFacts
  <2> HIDE DEF d
  <2>5. pub' = [pub EXCEPT !.at = "write", !.doc = d]
    BY <1>6 DEF ReadTexts, d
  <2>6. /\ pub'.at = "write" /\ pub'.doc = d /\ pub'.target = t /\ pub'.list = pub.list
        /\ pub' \in Publisher
    BY <1>2, <2>4, <2>5 DEF Publisher, At
  <2>7. Position'
    BY <2>1, <2>6 DEF Position, Making
  <2>8. Listing'
    BY <1>2, <1>3, <2>1, <2>6 DEF Listing, OnPages, Making, Honest, StoredCount
  <2>9. Document'
    BY <1>3, <2>1, <2>2, <2>3, <2>6 DEF Document, Making, Listed, Honest, StoredCount
  <2>10. QED
    BY <2>7, <2>8, <2>9
<1>7. CASE Write
  <2>1. pub' = [pub EXCEPT !.at = "rename", !.dir = TRUE, !.synced = TRUE]
    BY <1>7 DEF Write, Flushed
  <2>2. /\ pub.at = "write" /\ pub'.at = "rename" /\ pub'.synced = TRUE /\ pub' \in Publisher
        /\ pub'.doc = pub.doc /\ pub'.target = pub.target /\ pub'.list = pub.list
        /\ pub'.next = pub.next
    BY <1>2, <1>7, <2>1 DEF Write, Publisher, At
  <2>3. Position'
    BY <1>2, <2>2 DEF Position, Making
  <2>4. Listing'
    BY <1>2, <1>3, <2>2 DEF Listing, OnPages, Making, Honest, StoredCount
  <2>5. Document'
    BY <1>2, <1>3, <2>2 DEF Document, Making, Listed
  <2>6. QED
    BY <2>3, <2>4, <2>5
<1>8. CASE ReadPages
  <2>1. PagesDoc \in File(PagesJson)
    <3>1. \A p \in Pages : StoredCount(p) \in 0 .. Revs
      BY <1>2, Counting DEF StoredCount, Database
    <3>2. \A p \in Pages : look[p] \in 0 .. MaxChanges /\ known[p] \in 0 .. Revs
      BY <1>2 DEF Database
    <3>3. QED
      BY <3>1, <3>2, FileKinds DEF PagesDoc
  <2>2. PagesDoc \in Docs
    BY <2>1, FileFacts
  <2>3. /\ pub.at = "pages" /\ pub'.at = "files" /\ pub'.doc = PagesDoc
        /\ pub'.target = pub.target /\ pub' \in Publisher
    BY <1>2, <1>8, <2>2 DEF ReadPages, Publisher, At
  <2>4. QED
    BY <1>2, <2>1, <2>3 DEF Position, Listing, Document, OnPages, Making
<1>9. CASE ReadFiles
  <2>1. rows \in File(FilesJson) /\ rows \in Docs
    <3>1. rows \in File(FilesJson)
      BY <1>2, FileKinds DEF Database
    <3>2. QED
      BY <3>1, FileFacts
  <2>2. /\ pub.at = "files" /\ pub'.at = "compare" /\ pub'.doc = pub.doc /\ pub'.next = rows
        /\ pub'.target = pub.target /\ pub' \in Publisher
    BY <1>2, <1>9, <2>1 DEF ReadFiles, Publisher, At
  <2>3. QED
    BY <1>2, <2>1, <2>2 DEF Position, Listing, Document, OnPages, Making
<1>10. CASE Compare
  <2>1. pub.at = "compare" /\ pub.target \in {PagesJson, FilesJson}
    BY <1>10 DEF Compare
  <2>2. CASE pub' = [pub EXCEPT !.at = "write"]
    <3>1. /\ pub'.at = "write" /\ pub'.target = pub.target /\ pub'.doc = pub.doc
          /\ pub'.next = pub.next /\ pub' \in Publisher
      BY <1>2, <2>2 DEF Publisher, At
    <3>2. QED
      BY <1>2, <2>1, <3>1 DEF Position, Listing, Document, OnPages, Making
  <2>3. CASE pub' = [pub EXCEPT !.target = @ + 1, !.doc = pub.next]
    <3>1. pub.target + 1 \in 1 .. N + 3 /\ pub.target + 1 \notin Pages
            /\ (pub.target + 1 \in Targets => pub.target + 1 = FilesJson)
      BY <2>1 DEF PagesJson, FilesJson, Targets, Pages
    <3>2. /\ pub'.at = "compare" /\ pub'.target = pub.target + 1 /\ pub'.doc = pub.next
          /\ pub'.next = pub.next /\ pub' \in Publisher
      BY <1>2, <2>1, <2>3, <3>1 DEF Publisher, At
    <3>3. pub.next \in File(FilesJson)
      BY <1>2, <2>1 DEF Document
    <3>4. QED
      BY <3>1, <3>2, <3>3 DEF Position, Listing, Document, OnPages, Making
  <2>4. QED
    BY <1>10, <2>2, <2>3 DEF Compare, Goto
<1>11. CASE Published \/ DirGone
  BY <1>11, Ended DEF Published, DirGone
<1>12. QED
  BY <1>4, <1>5, <1>6, <1>7, <1>8, <1>9, <1>10, <1>11

(* Recording what is packed.                                               *)
(* The counts of a page.                                                   *)
LEMMA Counts ==
  ASSUME Database, NEW p \in Pages
  PROVE  StoredCount(p) \in Nat /\ packed[p] \in Nat
BY Counting, Facts DEF StoredCount, Database

LEMMA Records == Inv /\ (SkipEmpty \/ Record) => Inv'
<1> SUFFICES ASSUME Inv, SkipEmpty \/ Record
             PROVE  Inv'
  OBVIOUS
<1> USE Facts
<1>0. PICK t : t = pub.target
  OBVIOUS
<1> USE <1>0
<1>1. Database /\ Position /\ Listing /\ Document /\ Files
  BY DEF Inv
<1>2. OnPages /\ t \in Pages /\ t \in t .. N /\ t \in Targets
  BY <1>1 DEF SkipEmpty, Record, AtPage, OnPages, Position, Making, Pages
<1>3. /\ Honest(t) /\ pub.list[t].count \in 0 .. Revs
      /\ StoredCount(t) \in Nat
  BY <1>1, <1>2, Listings, Counting DEF Listing, Position, Publisher, StoredCount, Database
<1>4. /\ packed' = [packed EXCEPT ![t] = pub.list[t].count]
      /\ NextTarget /\ UNCHANGED <<database, files, mishaps>>
  <2>1. CASE SkipEmpty
    BY <2>1 DEF SkipEmpty, Listed
  <2>2. CASE Record
    BY <2>2 DEF Record, CountListed, Listed
  <2>3. QED
    BY <2>1, <2>2
<1>5. UNCHANGED <<known, stored, look, texted, rows, changes, seen, kept, flushed>>
  BY <1>4 DEF database, files
<1>6. packed' \in [Pages -> 0 .. Revs] /\ packed'[t] = pub.list[t].count
  BY <1>1, <1>2, <1>3, <1>4 DEF Database
<1>7. \A p \in Pages \ {t} : packed'[p] = packed[p]
  BY <1>1, <1>4 DEF Database
<1>8. \A p \in Pages : StoredCount(p)' = StoredCount(p)
  BY <1>5 DEF StoredCount
<1>9. Database'
  BY <1>1, <1>3, <1>4, <1>5, <1>6, <1>7, <1>8 DEF Database, Honest
<1>10. Position' /\ Listing' /\ Document'
  BY <1>2, <1>4, <1>7, NextPage
<1>11. ASSUME NEW file \in {seen[t], kept[t]}, file # Absent
       PROVE  /\ file.texts \subseteq stored[t]
              /\ packed'[t] <= Cardinality(file.texts)
              /\ packed'[t] = StoredCount(t) => texted[t] <= file.look
  <2>1. Good(t, file)
    BY <1>1, <1>2, <1>11 DEF Files
  <2>2. CASE SkipEmpty
    <3>1. packed[t] = packed'[t]
      BY <1>1, <1>2, <1>3, <1>6, <2>2 DEF SkipEmpty, Listed, Honest, Database
    <3>2. QED
      BY <1>11, <2>1, <3>1 DEF Good
  <2>3. CASE Record
    <3>1. file = pub.doc /\ pub.at = "record"
      BY <1>1, <1>11, <2>3 DEF Record, Document
    <3>2. Listed.count <= Cardinality(file.texts) /\ file.look = Listed.look
            /\ file.texts \subseteq stored[t]
      BY <1>1, <1>2, <3>1 DEF Document, Making
    <3>3. QED
      BY <1>3, <1>6, <3>2 DEF Listed, Honest
  <2>4. QED
    BY <2>2, <2>3
<1>12. \A p \in Pages : Good(p, seen[p])' /\ Good(p, kept[p])'
  <2>1. Good(t, seen[t])' /\ Good(t, kept[t])'
    BY <1>2, <1>5, <1>8, <1>11 DEF Good
  <2>2. \A p \in Pages \ {t} : Good(p, seen[p])' /\ Good(p, kept[p])'
    BY <1>1, <1>5, <1>7, <1>8 DEF Files, Good
  <2>3. QED
    BY <2>1, <2>2
<1>13. Files'
  BY <1>1, <1>5, <1>12 DEF Files
<1>14. QED
  BY <1>9, <1>10, <1>13 DEF Inv

(* The document replaces the file.                                         *)
LEMMA Renames == Inv /\ Rename => Inv'
<1> SUFFICES ASSUME Inv, Rename
             PROVE  Inv'
  OBVIOUS
<1> USE Facts
<1>0. PICK t : t = pub.target
  OBVIOUS
<1> USE <1>0
<1>1. Database /\ Position /\ Listing /\ Document /\ Files
  BY DEF Inv
<1>2. /\ pub.at = "rename" /\ pub.synced /\ t \in Targets /\ pub \in Publisher
      /\ pub.doc \in File(t) /\ pub.doc \in Docs
  BY <1>1, FileFacts DEF Rename, Position, Document, Making
<1>3. /\ seen' = [seen EXCEPT ![t] = pub.doc] /\ flushed' = flushed \cup {t}
      /\ pub' = [pub EXCEPT !.at = "dirsync", !.synced = FALSE]
      /\ UNCHANGED <<database, packed, kept, mishaps>>
  BY <1>2 DEF Rename
<1>4. /\ pub'.at = "dirsync" /\ pub'.target = t /\ pub'.doc = pub.doc /\ pub'.next = pub.next
      /\ pub'.list = pub.list /\ pub' \in Publisher
  BY <1>2, <1>3 DEF Publisher, At
<1>5. /\ UNCHANGED <<stored, texted, packed>> /\ Database'
      /\ \A p \in Pages : StoredCount(p)' = StoredCount(p)
  BY <1>1, <1>3, DatabaseKept DEF database, Database
<1>6. /\ seen' \in [Targets -> Docs] /\ seen'[t] = pub.doc
      /\ \A s \in Targets \ {t} : seen'[s] = seen[s]
  BY <1>1, <1>2, <1>3 DEF Files
<1>7. Position'
  BY <1>1, <1>2, <1>4 DEF Position, Making
<1>8. Listing'
  BY <1>1, <1>2, <1>4, <1>5 DEF Listing, OnPages, Making, Honest, StoredCount
<1>9. Document'
  BY <1>1, <1>2, <1>4, <1>5, <1>6 DEF Document, Making, Listed
<1>10. ASSUME t \in Pages
       PROVE  Good(t, pub.doc)
  <2>1. /\ pub.doc.texts \subseteq stored[t] /\ Listed.count <= Cardinality(pub.doc.texts)
        /\ pub.doc.look = Listed.look
    BY <1>1, <1>2, <1>10 DEF Document, Making
  <2>2. t \in DOMAIN pub.list /\ Honest(t)
    BY <1>1, <1>2, <1>10 DEF Listing, OnPages, Making, Pages
  <2>3. Listed.count \in Nat /\ StoredCount(t) \in Nat /\ packed[t] \in Nat
          /\ Cardinality(pub.doc.texts) \in Nat
    <3>1. Cardinality(pub.doc.texts) \in Nat
      <4>1. stored[t] \in SUBSET (1 .. Revs) /\ pub.doc.texts \in SUBSET stored[t]
        BY <1>1, <1>10, <2>1 DEF Database
      <4>2. QED
        BY <4>1, Counting
    <3>2. Listed.count \in Nat
      <4>1. pub.list[t].count \in 0 .. Revs
        BY <1>2, <2>2, Listings DEF Publisher
      <4>2. QED
        BY <4>1 DEF Listed
    <3>3. QED
      BY <1>1, <1>10, <3>1, <3>2, Counts
  <2>4. QED
    BY <2>1, <2>2, <2>3 DEF Good, Honest, Listed
<1>11. \A p \in Pages : Good(p, seen[p])' /\ Good(p, kept[p])'
  <2>1. \A p \in Pages \ {t} : Good(p, seen[p])' /\ Good(p, kept[p])'
    BY <1>1, <1>3, <1>5, <1>6 DEF Files, Good
  <2>2. t \in Pages => Good(t, seen[t])' /\ Good(t, kept[t])'
    BY <1>1, <1>3, <1>4, <1>5, <1>6, <1>10 DEF Files, Good
  <2>3. QED
    BY <2>1, <2>2
<1>12. \A s \in Targets : /\ seen'[s] \in {Absent} \cup File(s)
                          /\ seen'[s] = Absent \/ s \in flushed'
  BY <1>1, <1>2, <1>3, <1>6 DEF Files
<1>13. Files'
  BY <1>1, <1>2, <1>3, <1>6, <1>11, <1>12 DEF Files
<1>14. QED
  BY <1>5, <1>7, <1>8, <1>9, <1>13 DEF Inv

(* What processes see is what the disk has of a file.                      *)
LEMMA AllOnDisk == Files => \A t \in Targets : OnDisk(t) = seen[t]
BY DEF Files, OnDisk

(* Its directory entry reaches the disk, or not, if it is a new one.       *)
LEMMA DirSyncs == Inv /\ DirSync => Inv'
<1> SUFFICES ASSUME Inv, DirSync
             PROVE  Inv'
  OBVIOUS
<1> USE Facts
<1>0. PICK t : t = pub.target
  OBVIOUS
<1> USE <1>0
<1>1. Database /\ Position /\ Listing /\ Document /\ Files
  BY DEF Inv
<1>2. pub.at = "dirsync" /\ t \in Targets /\ pub \in Publisher /\ t \in Nat
  BY <1>1 DEF DirSync, Position, Making
<1>3. PICK file \in {seen[t], Absent} : kept' = [kept EXCEPT ![t] = file]
  BY <1>1, <1>2, AllOnDisk DEF DirSync
<1>4. UNCHANGED <<database, packed, seen, flushed, mishaps>>
  BY DEF DirSync
<1>5. /\ UNCHANGED <<stored, texted, packed>> /\ Database'
      /\ \A p \in Pages : StoredCount(p)' = StoredCount(p)
  BY <1>1, <1>4, DatabaseKept DEF database, Database
<1>6. /\ kept' \in [Targets -> Docs] /\ kept'[t] = file
      /\ \A s \in Targets \ {t} : kept'[s] = kept[s]
  BY <1>1, <1>2, <1>3 DEF Files, Docs
<1>7. file \in {pub.doc, Absent}
  BY <1>1, <1>2, <1>3 DEF Document
<1>8. Files'
  <2>1. \A p \in Pages : Good(p, seen[p])'
    BY <1>1, <1>4, <1>5 DEF Files, Good
  <2>2. \A p \in Pages : Good(p, kept[p])'
    BY <1>1, <1>3, <1>5, <1>6 DEF Files, Good
  <2>3. \A s \in Targets : kept'[s] \in {Absent} \cup File(s)
    BY <1>1, <1>3, <1>6 DEF Files
  <2>4. QED
    BY <1>1, <1>4, <1>6, <2>1, <2>2, <2>3 DEF Files
<1>9. CASE t \in Pages
  <2>1. /\ pub'.at = "record" /\ pub'.target = t /\ pub'.doc = pub.doc
        /\ pub'.list = pub.list /\ pub' \in Publisher
    BY <1>2, <1>9 DEF DirSync, Goto, Publisher, At
  <2>2. Position'
    BY <1>9, <2>1 DEF Position, Making
  <2>3. Listing'
    BY <1>1, <1>2, <1>5, <1>9, <2>1 DEF Listing, OnPages, Making, Honest, StoredCount
  <2>4. Document'
    BY <1>1, <1>2, <1>4, <1>5, <1>6, <1>7, <1>9, <2>1 DEF Document, Making, Listed
  <2>5. QED
    BY <1>5, <1>8, <2>2, <2>3, <2>4 DEF Inv
<1>10. CASE t \notin Pages
  <2>1. /\ t + 1 \in 1 .. N + 3 /\ t + 1 \notin Pages
        /\ t + 1 \in Targets => t + 1 = FilesJson
    BY <1>2, <1>10 DEF Targets, Pages, FilesJson
  <2>2. /\ pub'.at = "compare" /\ pub'.target = t + 1 /\ pub'.doc = pub.next
        /\ pub'.next = pub.next /\ pub' \in Publisher
    BY <1>2, <1>10, <2>1 DEF DirSync, Publisher, At
  <2>3. pub.next \in File(FilesJson)
    BY <1>1, <1>2, <1>10 DEF Document, Making
  <2>4. Position' /\ Listing' /\ Document'
    BY <2>1, <2>2, <2>3 DEF Position, Listing, Document, OnPages, Making
  <2>5. QED
    BY <1>5, <1>8, <2>4 DEF Inv
<1>11. QED
  BY <1>9, <1>10

-----------------------------------------------------------------------------
(* Mishaps.                                                                *)

(* Files vanish: out/ is wiped, or power is lost.                          *)
LEMMA Vanishing ==
  ASSUME Inv, Wipe \/ PowerLoss
  PROVE  Database' /\ Files'
<1> USE Facts
<1>1. Database /\ Files
  BY DEF Inv
<1>2. mishaps' \in 0 .. MaxMishaps /\ UNCHANGED <<database, packed>>
  BY <1>1 DEF Wipe, PowerLoss, Mishap, Database
<1>3. /\ UNCHANGED <<stored, texted, packed>> /\ Database'
      /\ \A p \in Pages : StoredCount(p)' = StoredCount(p)
  BY <1>1, <1>2, DatabaseKept DEF database
<1>4. CASE Wipe
  BY <1>4, <1>3 DEF Wipe, Files, Good, Docs
<1>5. CASE PowerLoss
  <2>1. /\ seen' \in [Targets -> Docs] /\ kept' = seen' /\ flushed' = Targets
        /\ \A t \in Targets : seen'[t] \in {seen[t], kept[t]}
    <3>1. PICK lost \in SUBSET Targets :
            seen' = [t \in Targets |-> IF t \in lost THEN kept[t] ELSE OnDisk(t)]
      BY <1>5 DEF PowerLoss
    <3>2. QED
      BY <1>1, <1>5, <3>1, AllOnDisk DEF PowerLoss, Files
  <2>2. \A p \in Pages : Good(p, seen[p])'
    BY <1>1, <1>3, <2>1 DEF Files, Good
  <2>3. \A p \in Pages : Good(p, kept[p])'
    BY <2>1, <2>2 DEF Good
  <2>4. \A t \in Targets : seen'[t] \in {Absent} \cup File(t)
    BY <1>1, <2>1 DEF Files
  <2>5. QED
    BY <1>3, <2>1, <2>2, <2>3, <2>4 DEF Files
<1>6. QED
  BY <1>3, <1>4, <1>5

(* A wipe leaves the publisher where it is.                                *)
LEMMA Wipes == Inv /\ Wipe => Inv'
<1> SUFFICES ASSUME Inv, Wipe
             PROVE  Inv'
  OBVIOUS
<1> USE Facts
<1>1. Database' /\ Files'
  BY Vanishing
<1>2. pub' = [pub EXCEPT !.dir = FALSE] /\ UNCHANGED <<database, packed>>
      /\ \A t \in Targets : seen'[t] = Absent /\ kept'[t] = Absent
  BY DEF Wipe
<1>3. /\ pub'.at = pub.at /\ pub'.target = pub.target /\ pub'.doc = pub.doc
      /\ pub'.next = pub.next /\ pub'.list = pub.list /\ pub'.synced = pub.synced
      /\ pub' \in Publisher
  BY <1>2 DEF Inv, Position, Publisher
<1>4. UNCHANGED <<stored, texted, packed>>
  BY <1>2 DEF database
<1>5. Position'
  BY <1>3 DEF Inv, Position, Making
<1>6. Listing'
  BY <1>3, <1>4 DEF Inv, Listing, OnPages, Making, Honest, StoredCount
<1>7. Document'
  <2>1. pub.at \in {"dirsync", "record"} => pub.target \in Targets
    BY DEF Inv, Position, Making
  <2>2. QED
    BY <1>2, <1>3, <1>4, <2>1 DEF Inv, Document, Making, Listed
<1>8. QED
  BY <1>1, <1>5, <1>6, <1>7 DEF Inv

(* Every step keeps the invariant.                                         *)
LEMMA StepInv == Inv /\ [Next]_vars => Inv'
<1> SUFFICES ASSUME Inv, [Next]_vars
             PROVE  Inv'
  OBVIOUS
<1> USE Facts
<1>1. CASE UNCHANGED vars
  <2>1. UNCHANGED <<database, packed, files, pub, mishaps>>
    BY <1>1 DEF vars
  <2>2. UNCHANGED <<known, stored, look, rows, changes, texted, seen, kept, flushed>>
    BY <2>1 DEF database, files
  <2>3. Database' /\ Files'
    BY <2>1, DatabaseKept, FilesKept DEF Inv, Database
  <2>4. Position' /\ Listing' /\ Document'
    BY <2>1, <2>2 DEF Inv, Position, Listing, Document, OnPages, Making, Listed, Honest, StoredCount
  <2>5. QED
    BY <2>3, <2>4 DEF Inv
<1>2. CASE List \/ SkipPacked \/ ReadTexts \/ Write \/ ReadPages \/ ReadFiles
             \/ Compare \/ Published \/ DirGone
  <2>1. UNCHANGED <<database, packed, files, mishaps>>
    BY <1>2 DEF List, SkipPacked, ReadTexts, Write, ReadPages, ReadFiles, Compare, Published, DirGone
  <2>2. Database' /\ Files'
    BY <2>1, DatabaseKept, FilesKept DEF Inv, Database
  <2>3. QED
    BY <1>2, <2>2, Reads DEF Inv
<1>3. CASE Killed
  <2>1. UNCHANGED <<database, packed, files>> /\ mishaps' \in 0 .. MaxMishaps /\ pub' = Idle
    BY <1>3 DEF Killed, Mishap, Inv, Database
  <2>2. Database' /\ Files'
    BY <2>1, DatabaseKept, FilesKept DEF Inv
  <2>3. QED
    BY <2>1, <2>2, Ended DEF Inv
<1>4. CASE PowerLoss
  BY <1>4, Vanishing, Ended DEF PowerLoss, Inv
<1>5. QED
  BY <1>1, <1>2, <1>3, <1>4, OtherJobsInv, Records, Renames, DirSyncs, Wipes
     DEF Next, Publishes

-----------------------------------------------------------------------------
(* The theorems.                                                           *)

(* The invariant holds in every behaviour.                                 *)
THEOREM Invariance == Spec => []Inv
BY InitInv, StepInv, PTL DEF Spec

(* Every state is typed.                                                   *)
THEOREM TypeCorrect == Spec => []TypeOK
<1>1. Inv => TypeOK
  <2> SUFFICES ASSUME Inv
               PROVE  TypeOK
    OBVIOUS
  <2>1. look \in [Pages -> 0 .. MaxChanges]
    BY Facts DEF Inv, Database
  <2>2. pub.target \in 1 .. N + 3 /\ pub.at \in At
    BY DEF Inv, Position, Publisher
  <2>3. QED
    BY Facts, <2>1, <2>2 DEF Inv, Database, Files, TypeOK, At, StoredCount
<1>2. QED
  BY Invariance, <1>1, PTL

(* No target is ever a part of a file, whatever was cut off, wiped or lost *)
(* with the power.                                                         *)
THEOREM NeverTorn == Spec => []NothingTorn
<1>1. Inv => NothingTorn
  BY Facts, FileFacts DEF Inv, Files, NothingTorn
<1>2. QED
  BY Invariance, <1>1, PTL

(* A page the next run would skip is whole: every text stored is in its    *)
(* archive, for any number of pages, runs and transactions between the     *)
(* count, the reading and the record of what is packed.                    *)
THEOREM SkipsOnlyWhole == Spec => []SkippedIsWhole
<1>1. Inv => SkippedIsWhole
  <2> SUFFICES ASSUME Inv, NEW p \in Pages, NEW file \in {seen[p], kept[p]}, Skipped(p, file)
               PROVE  file.texts = stored[p]
    BY DEF SkippedIsWhole
  <2>1. Good(p, file) /\ file # Absent /\ stored[p] \in SUBSET (1 .. Revs)
    BY DEF Inv, Files, Database, Skipped
  <2>2. file.texts \in SUBSET stored[p] /\ Cardinality(stored[p]) <= Cardinality(file.texts)
    BY <2>1 DEF Good, Skipped
  <2>3. /\ Cardinality(file.texts) \in Nat /\ Cardinality(stored[p]) \in Nat
        /\ Cardinality(file.texts) <= Cardinality(stored[p])
        /\ Cardinality(file.texts) = Cardinality(stored[p]) => file.texts = stored[p]
    BY <2>1, <2>2, Counting
  <2>4. QED
    BY <2>2, <2>3
<1>2. QED
  BY Invariance, <1>1, PTL

(* And it is named at least as it was when its last text was stored.       *)
THEOREM SkipsOnlyNamed == Spec => []SkippedIsNamed
<1>1. Inv => SkippedIsNamed
  <2> SUFFICES ASSUME Inv, NEW p \in Pages, NEW file \in {seen[p], kept[p]}, Skipped(p, file)
               PROVE  texted[p] <= file.look
    BY DEF SkippedIsNamed
  <2>1. Good(p, file) /\ file # Absent
    BY DEF Inv, Files, Skipped
  <2>2. QED
    BY <2>1 DEF Good, Skipped, StoredCount
<1>2. QED
  BY Invariance, <1>1, PTL

-----------------------------------------------------------------------------
(* A run of publish that nothing disturbs, from its listing on.            *)

(* The state List leads to.                                                *)
Exact(p) == pub.list[p] = [count |-> StoredCount(p), look |-> look[p], packed |-> packed[p]]
JustListed ==
  pub.at = "page" /\ pub.target = 1 /\ DOMAIN pub.list = Pages /\ \A p \in Pages : Exact(p)

(* What it has come to: the pages done, those still listed as they are,    *)
(* the manifests, and the file under way.                                  *)
PageDone(p) ==
  /\ packed[p] = StoredCount(p)
  /\ stored[p] # {} =>
       seen[p] # Absent /\ seen[p].texts = stored[p] /\ seen[p].look >= texted[p]
PagesWhole ==
  /\ OnPages => \A p \in 1 .. pub.target - 1 : PageDone(p)
  /\ OnPages => \A p \in pub.target .. N : Exact(p)
  /\ ~OnPages => \A p \in Pages : PageDone(p)
ManifestsWhole ==
  /\ pub.at = "files" => pub.doc = PagesDoc
  /\ (pub.at = "compare" \/ Making) /\ pub.target \notin Pages =>
       /\ pub.next = rows
       /\ pub.target = PagesJson => pub.doc = PagesDoc
       /\ pub.target # PagesJson => pub.doc = rows /\ seen[PagesJson] = PagesDoc
       /\ pub.target \notin {PagesJson, FilesJson} => seen[FilesJson] = rows
  /\ pub.at = "idle" => seen[PagesJson] = PagesDoc /\ seen[FilesJson] = rows
FileWhole ==
  /\ pub.at \in {"rename", "dirsync"} => pub.dir
  /\ Making /\ pub.target \in Pages => pub.doc = Archive(pub.target)
  /\ pub.at \in {"dirsync", "record"} => seen[pub.target] = pub.doc
Whole == PagesWhole /\ ManifestsWhole /\ FileWhole

(* Nothing is left for it to write.                                        *)
Done == Whole /\ Current /\ ~Making /\ \A p \in Pages : PageDone(p)

(* The listing is where an undisturbed run starts from.                    *)
LEMMA ListIsJust == Inv /\ List => JustListed'
<1> SUFFICES ASSUME Inv, List
             PROVE  JustListed'
  OBVIOUS
<1>1. /\ pub'.at = "page" /\ pub'.target = 1
      /\ pub'.list = [p \in Pages |-> [count |-> StoredCount(p), look |-> look[p],
                                       packed |-> packed[p]]]
  BY DEF List, Idle
<1>2. UNCHANGED <<stored, look, packed>>
  BY DEF List, database
<1>3. QED
  BY <1>1, <1>2 DEF JustListed, Exact, StoredCount

(* Nothing is done yet there.                                              *)
LEMMA JustIsWhole == Inv /\ JustListed => Whole
<1> SUFFICES ASSUME Inv, JustListed
             PROVE  Whole
  OBVIOUS
<1>1. pub.at = "page" /\ pub.target = 1 /\ OnPages /\ \A p \in 1 .. N : Exact(p)
  BY Facts DEF JustListed, OnPages, Pages
<1>2. QED
  BY <1>1, Facts DEF Whole, PagesWhole, ManifestsWhole, FileWhole, Making

(* The publisher does not touch what it reads.                             *)
LEMMA PublisherReads ==
  ASSUME Publishes
  PROVE  UNCHANGED <<known, stored, look, texted, rows, changes, mishaps>>
BY DEF Publishes, List, SkipEmpty, SkipPacked, ReadTexts, Write, Rename, DirSync, Record,
       ReadPages, ReadFiles, Compare, Published, DirGone, database

(* A page that a run takes for packed is done, and so is one without texts *)
(* once that is recorded.                                                  *)
LEMMA PackedIsDone ==
  ASSUME Inv, NEW p \in Pages, packed[p] = StoredCount(p), seen[p] # Absent \/ stored[p] = {}
  PROVE  PageDone(p)
<1> SUFFICES ASSUME stored[p] # {}
             PROVE  seen[p] # Absent /\ seen[p].texts = stored[p] /\ seen[p].look >= texted[p]
  BY DEF PageDone
<1>1. Good(p, seen[p]) /\ seen[p] # Absent /\ stored[p] \in SUBSET (1 .. Revs)
  BY DEF Inv, Files, Database
<1>2. seen[p].texts \in SUBSET stored[p] /\ StoredCount(p) <= Cardinality(seen[p].texts)
  BY <1>1 DEF Good
<1>3. /\ Cardinality(seen[p].texts) <= StoredCount(p)
      /\ Cardinality(seen[p].texts) = StoredCount(p) => seen[p].texts = stored[p]
      /\ Cardinality(seen[p].texts) \in Nat /\ StoredCount(p) \in Nat
  BY <1>1, <1>2, Counting DEF StoredCount
<1>4. QED
  BY <1>1, <1>2, <1>3 DEF Good

-----------------------------------------------------------------------------
(* A page is done when the publisher leaves it.                            *)
LEMMA LeavesDone ==
  ASSUME Inv, Whole, OnPages, NextTarget, UNCHANGED <<known, stored, look, texted, rows, seen>>,
         NEW t, t = pub.target,
         \A p \in Pages \ {t} : packed'[p] = packed[p], PageDone(t)'
  PROVE  Whole'
<1> USE Facts
<1> DEFINE l == [p \in DOMAIN pub.list \ {t} |-> pub.list[p]]
<1>1. t \in Pages /\ t \in Nat
  BY DEF OnPages
<1>2. pub' = [at |-> IF t < N THEN "page" ELSE "pages", target |-> t + 1, list |-> l,
              doc |-> Absent, next |-> Absent, dir |-> FALSE, synced |-> FALSE]
  BY DEF NextTarget, Idle
<1>3. \A p \in 1 .. t : PageDone(p)'
  <2>1. \A p \in 1 .. t - 1 : p \in Pages \ {t} /\ PageDone(p)
    BY <1>1 DEF Whole, PagesWhole, Pages
  <2>2. \A p \in 1 .. t - 1 : PageDone(p)'
    BY <2>1 DEF PageDone, StoredCount
  <2>3. QED
    BY <1>1, <2>2
<1>4. ASSUME NEW p \in t + 1 .. N
      PROVE  Exact(p)'
  <2>1. p \in t .. N /\ p \in Pages \ {t}
    BY <1>1 DEF Pages
  <2>2. p \in DOMAIN pub.list /\ Exact(p)
    BY <2>1 DEF Inv, Listing, Whole, PagesWhole
  <2>3. l[p] = pub.list[p]
    BY <2>1, <2>2
  <2>4. pub'.list = l
    BY <1>2
  <2> HIDE DEF l
  <2>5. QED
    BY <2>1, <2>2, <2>3, <2>4 DEF Exact, StoredCount
<1> HIDE DEF l
<1>5. pub'.at \in {"page", "pages"} /\ pub'.target = t + 1 /\ (pub'.at = "pages" <=> ~(t < N))
  BY <1>2
<1>6. PagesWhole'
  BY <1>1, <1>3, <1>4, <1>5 DEF PagesWhole, OnPages, Making, Pages
<1>7. ManifestsWhole' /\ FileWhole'
  BY <1>5 DEF ManifestsWhole, FileWhole, Making
<1>8. QED
  BY <1>6, <1>7 DEF Whole

(* The three ways to leave a page.                                         *)
LEMMA PageSteps == Inv /\ Whole /\ (SkipEmpty \/ SkipPacked \/ Record) => Whole'
<1> SUFFICES ASSUME Inv, Whole, SkipEmpty \/ SkipPacked \/ Record
             PROVE  Whole'
  OBVIOUS
<1> USE Facts
<1>0. PICK t : t = pub.target
  OBVIOUS
<1> USE <1>0
<1>1. OnPages /\ t \in Pages /\ t \in t .. N /\ t \in Targets /\ NextTarget
  BY DEF SkipEmpty, SkipPacked, Record, AtPage, OnPages, Inv, Position, Making, Pages
<1>2. Exact(t) /\ Listed.count = StoredCount(t) /\ Listed.packed = packed[t]
      /\ Listed.look = look[t]
  BY <1>1 DEF Whole, PagesWhole, Exact, Listed
<1>3. UNCHANGED <<known, stored, look, texted, rows, seen>>
  BY DEF SkipEmpty, SkipPacked, Record, database, files
<1>4. /\ \A p \in Pages \ {t} : packed'[p] = packed[p]
      /\ packed'[t] = StoredCount(t)
  BY <1>1, <1>2 DEF SkipEmpty, SkipPacked, Record, UpToDate, CountListed, Inv, Database
<1>5. PageDone(t)'
  <2>1. CASE SkipEmpty
    <3>1. stored[t] = {}
      BY <1>1, <1>2, <2>1, Counting DEF SkipEmpty, StoredCount, Inv, Database
    <3>2. QED
      BY <1>3, <1>4, <3>1 DEF PageDone, StoredCount
  <2>2. CASE SkipPacked
    <3>1. packed[t] = StoredCount(t) /\ seen[t] # Absent
      BY <1>2, <2>2 DEF SkipPacked, UpToDate
    <3>2. PageDone(t)
      BY <1>1, <3>1, PackedIsDone
    <3>3. QED
      BY <1>3, <1>4, <3>2 DEF PageDone, StoredCount
  <2>3. CASE Record
    <3>1. pub.at = "record"
      BY <2>3 DEF Record
    <3>2. seen[t] = Archive(t) /\ pub.doc \in File(t)
      BY <1>1, <3>1 DEF Whole, FileWhole, Making, Inv, Document
    <3>3. seen[t] # Absent /\ seen[t].texts = stored[t] /\ seen[t].look = look[t]
      BY <1>1, <1>2, <3>1, <3>2, FileFacts DEF Archive, Whole, FileWhole
    <3>4. look[t] >= texted[t]
      BY <1>1 DEF Inv, Database
    <3>5. QED
      BY <1>3, <1>4, <3>3, <3>4 DEF PageDone, StoredCount
  <2>4. QED
    BY <2>1, <2>2, <2>3
<1>6. QED
  BY <1>1, <1>3, <1>4, <1>5, LeavesDone

(* One file, call by call.                                                 *)
LEMMA FileSteps ==
  Inv /\ Whole /\ (ReadTexts \/ Write \/ Rename \/ DirSync) => Whole'
<1> SUFFICES ASSUME Inv, Whole, ReadTexts \/ Write \/ Rename \/ DirSync
             PROVE  Whole'
  OBVIOUS
<1> USE Facts
<1>0. PICK t : t = pub.target
  OBVIOUS
<1> USE <1>0
<1>1. /\ pub \in Publisher /\ t \in Targets /\ (Making \/ pub.at = "page")
      /\ pub.at = "page" => t \in Pages
  BY DEF Inv, Position, ReadTexts, AtPage, Write, Rename, DirSync, Making
<1>2. UNCHANGED <<known, stored, look, texted, rows, packed>>
  BY DEF ReadTexts, Write, Rename, DirSync, database
<1>3. /\ \A p \in Pages : StoredCount(p)' = StoredCount(p)
      /\ PagesDoc' = PagesDoc
  BY <1>2 DEF StoredCount, PagesDoc
<1>4. /\ seen \in [Targets -> Docs]
      /\ \A s \in Targets \ {t} : seen'[s] = seen[s]
  BY <1>1 DEF ReadTexts, Write, Rename, DirSync, files, Inv, Files
<1>5. ASSUME \A p \in Pages \ {t} : seen'[p] = seen[p], t \in Pages, pub'.target = t,
             pub'.list = pub.list, pub'.at = "page" \/ Making'
      PROVE  PagesWhole'
  <2>1. \A p \in 1 .. t - 1 : p \in Pages \ {t} /\ PageDone(p)
    BY <1>1, <1>5 DEF Whole, PagesWhole, OnPages, Pages
  <2>2. \A p \in 1 .. t - 1 : PageDone(p)'
    BY <1>2, <1>3, <1>5, <2>1 DEF PageDone, StoredCount
  <2>3. \A p \in t .. N : Exact(p)'
    BY <1>1, <1>2, <1>3, <1>5 DEF Whole, PagesWhole, OnPages, Exact, Pages
  <2>4. QED
    BY <1>5, <2>2, <2>3 DEF PagesWhole, OnPages
<1>6. ASSUME t \notin Pages, pub'.target \notin Pages
      PROVE  PagesWhole'
  <2>1. \A p \in Pages : PageDone(p) /\ seen'[p] = seen[p]
    BY <1>1, <1>4, <1>6 DEF Whole, PagesWhole, OnPages
  <2>2. \A p \in Pages : PageDone(p)'
    BY <1>2, <1>3, <2>1 DEF PageDone, StoredCount
  <2>3. QED
    BY <1>6, <2>2 DEF PagesWhole, OnPages
<1>7. CASE ReadTexts
  <2>1. t \in Pages
    BY <1>1, <1>7 DEF ReadTexts, AtPage
  <2>2. pub' = [pub EXCEPT !.at = "write", !.doc = Archive(t)] /\ seen' = seen
    BY <1>7 DEF ReadTexts, files
  <2>3. /\ pub'.at = "write" /\ pub'.doc = Archive(t) /\ pub'.target = t
        /\ pub'.list = pub.list
    BY <1>1, <2>2 DEF Publisher
  <2>4. Archive(t)' = Archive(t)
    BY <1>2, <2>3 DEF Archive, Listed
  <2>5. PagesWhole'
    BY <1>5, <2>1, <2>2, <2>3 DEF Making
  <2>6. ManifestsWhole' /\ FileWhole'
    BY <2>1, <2>3, <2>4 DEF ManifestsWhole, FileWhole, Making
  <2>7. QED
    BY <2>5, <2>6 DEF Whole
<1>8. CASE Write
  <2>1. pub.at = "write" /\ seen' = seen
        /\ pub' = [pub EXCEPT !.at = "rename", !.dir = TRUE, !.synced = Flushed]
    BY <1>8 DEF Write, files
  <2>2. /\ pub'.at = "rename" /\ pub'.doc = pub.doc /\ pub'.target = t /\ pub'.next = pub.next
        /\ pub'.list = pub.list /\ pub'.dir = TRUE
    BY <1>1, <2>1 DEF Publisher
  <2>3. Archive(t)' = Archive(t)
    BY <1>2, <2>2 DEF Archive, Listed
  <2>4. PagesWhole'
    BY <1>5, <1>6, <2>1, <2>2 DEF Making
  <2>5. ManifestsWhole'
    BY <1>2, <1>3, <2>1, <2>2 DEF Whole, ManifestsWhole, Making
  <2>6. FileWhole'
    BY <2>1, <2>2, <2>3 DEF Whole, FileWhole, Making
  <2>7. QED
    BY <2>4, <2>5, <2>6 DEF Whole
<1>9. CASE Rename
  <2>1. pub.at = "rename" /\ seen' = [seen EXCEPT ![t] = pub.doc]
        /\ pub' = [pub EXCEPT !.at = "dirsync", !.synced = FALSE]
    BY <1>9 DEF Rename
  <2>2. /\ pub'.at = "dirsync" /\ pub'.doc = pub.doc /\ pub'.target = t /\ pub'.next = pub.next
        /\ pub'.list = pub.list /\ pub'.dir = pub.dir /\ seen'[t] = pub.doc
    BY <1>1, <1>4, <2>1 DEF Publisher
  <2>3. Archive(t)' = Archive(t)
    BY <1>2, <2>2 DEF Archive, Listed
  <2>4. PagesWhole'
    BY <1>4, <1>5, <1>6, <2>1, <2>2 DEF Making
  <2>5. ManifestsWhole'
    BY <1>1, <1>2, <1>3, <1>4, <2>1, <2>2 DEF Whole, ManifestsWhole, Making
  <2>6. FileWhole'
    BY <2>1, <2>2, <2>3 DEF Whole, FileWhole, Making
  <2>7. QED
    BY <2>4, <2>5, <2>6 DEF Whole
<1>10. CASE DirSync
  <2>1. pub.at = "dirsync" /\ seen' = seen /\ seen[t] = pub.doc
    BY <1>10 DEF DirSync, Whole, FileWhole
  <2>2. CASE t \in Pages
    <3>1. /\ pub'.at = "record" /\ pub'.doc = pub.doc /\ pub'.target = t
          /\ pub'.list = pub.list
      BY <1>1, <1>10, <2>2 DEF DirSync, Goto, Publisher
    <3>2. Archive(t)' = Archive(t)
      BY <1>2, <3>1 DEF Archive, Listed
    <3>3. PagesWhole'
      BY <1>5, <2>1, <2>2, <3>1 DEF Making
    <3>4. ManifestsWhole' /\ FileWhole'
      BY <2>1, <2>2, <3>1, <3>2 DEF Whole, ManifestsWhole, FileWhole, Making
    <3>5. QED
      BY <3>3, <3>4 DEF Whole
  <2>3. CASE t \notin Pages
    <3>1. /\ pub'.at = "compare" /\ pub'.doc = pub.next /\ pub'.target = t + 1
          /\ pub'.next = pub.next
      BY <1>1, <1>10, <2>3 DEF DirSync, Publisher
    <3>2. t \in {PagesJson, FilesJson} /\ t + 1 \notin Pages
          /\ PagesJson + 1 = FilesJson /\ FilesJson + 1 \notin {PagesJson, FilesJson}
      BY <1>1, <2>3 DEF Targets, Pages, PagesJson, FilesJson
    <3>3. PagesWhole'
      BY <1>6, <2>3, <3>1, <3>2
    <3>4. /\ pub.next = rows
          /\ t = PagesJson => pub.doc = PagesDoc
          /\ t # PagesJson => pub.doc = rows /\ seen[PagesJson] = PagesDoc
      BY <1>1, <2>1, <2>3 DEF Whole, ManifestsWhole, Making
    <3>5. ManifestsWhole' /\ FileWhole'
      BY <1>2, <1>3, <2>1, <3>1, <3>2, <3>4 DEF ManifestsWhole, FileWhole, Making
    <3>6. QED
      BY <3>3, <3>5 DEF Whole
  <2>4. QED
    BY <2>2, <2>3
<1>11. QED
  BY <1>7, <1>8, <1>9, <1>10

(* The manifests.                                                          *)
LEMMA ManifestSteps ==
  Inv /\ Whole /\ (List \/ ReadPages \/ ReadFiles \/ Compare \/ Published) => Whole'
<1> SUFFICES ASSUME Inv, Whole, List \/ ReadPages \/ ReadFiles \/ Compare \/ Published
             PROVE  Whole'
  OBVIOUS
<1> USE Facts
<1>1. pub \in Publisher /\ UNCHANGED <<known, stored, look, texted, rows, packed, seen>>
  BY DEF Inv, Position, List, ReadPages, ReadFiles, Compare, Published, database, files
<1>2. PagesDoc' = PagesDoc /\ \A p \in Pages : PageDone(p)' <=> PageDone(p)
  BY <1>1 DEF StoredCount, PagesDoc, PageDone
<1>3. CASE List
  <2>1. JustListed'
    BY <1>3, ListIsJust
  <2>2. pub'.at = "page" /\ pub'.target = 1 /\ \A p \in 1 .. N : Exact(p)'
    BY <2>1 DEF JustListed, Pages
  <2>3. QED
    BY <2>2 DEF Whole, PagesWhole, ManifestsWhole, FileWhole, Making, OnPages, Pages
<1>4. ASSUME ~OnPages, ~OnPages'
      PROVE  PagesWhole'
  BY <1>2, <1>4 DEF Whole, PagesWhole
<1>5. CASE ReadPages
  <2>1. /\ pub.at = "pages" /\ pub'.at = "files" /\ pub'.doc = PagesDoc
        /\ pub'.target = pub.target
    BY <1>1, <1>5 DEF ReadPages, Publisher
  <2>2. PagesWhole'
    BY <1>4, <2>1 DEF OnPages, Making
  <2>3. QED
    BY <1>2, <2>1, <2>2 DEF Whole, ManifestsWhole, FileWhole, Making
<1>6. CASE ReadFiles
  <2>1. /\ pub.at = "files" /\ pub'.at = "compare" /\ pub'.doc = PagesDoc
        /\ pub'.target = PagesJson /\ pub'.next = rows
    BY <1>1, <1>6 DEF ReadFiles, Publisher, Inv, Position, Whole, ManifestsWhole
  <2>2. PagesWhole'
    BY <1>4, <2>1 DEF OnPages, Making
  <2>3. QED
    BY <1>1, <1>2, <2>1, <2>2 DEF Whole, ManifestsWhole, FileWhole, Making
<1>7. CASE Compare
  <2>1. pub.at = "compare" /\ pub.target \in {PagesJson, FilesJson}
    BY <1>7 DEF Compare
  <2>2. /\ pub.next = rows
        /\ pub.target = PagesJson => pub.doc = PagesDoc
        /\ pub.target = FilesJson => pub.doc = rows /\ seen[PagesJson] = PagesDoc
    BY <2>1 DEF Whole, ManifestsWhole
  <2>3. CASE ~Same
    <3>1. /\ pub'.at = "write" /\ pub'.doc = pub.doc /\ pub'.target = pub.target
          /\ pub'.next = pub.next
      BY <1>1, <1>7, <2>3 DEF Compare, Goto, Publisher
    <3>2. PagesWhole'
      BY <1>4, <2>1, <3>1 DEF OnPages, Making
    <3>3. QED
      BY <1>1, <1>2, <2>1, <2>2, <3>1, <3>2 DEF Whole, ManifestsWhole, FileWhole, Making
  <2>4. CASE Same
    <3>1. /\ pub'.at = "compare" /\ pub'.doc = rows /\ pub'.target = pub.target + 1
          /\ pub'.next = rows
      BY <1>1, <1>7, <2>2, <2>4 DEF Compare, Publisher
    <3>2. /\ pub.target + 1 \notin Pages /\ PagesJson + 1 = FilesJson
          /\ FilesJson + 1 \notin {PagesJson, FilesJson}
      BY <2>1 DEF Pages, PagesJson, FilesJson
    <3>3. seen[pub.target] = pub.doc
      BY <2>4 DEF Same
    <3>4. PagesWhole'
      BY <1>4, <2>1, <3>1 DEF OnPages, Making
    <3>5. QED
      BY <1>1, <1>2, <2>1, <2>2, <3>1, <3>2, <3>3, <3>4
         DEF Whole, ManifestsWhole, FileWhole, Making
  <2>5. QED
    BY <2>3, <2>4
<1>8. CASE Published
  <2>1. /\ pub.at = "compare" /\ pub.target \notin {PagesJson, FilesJson} /\ pub.target \notin Pages
        /\ pub'.at = "idle"
    BY <1>8 DEF Published, Idle, Inv, Position
  <2>2. seen[PagesJson] = PagesDoc /\ seen[FilesJson] = rows
    BY <2>1 DEF Whole, ManifestsWhole
  <2>3. PagesWhole'
    BY <1>4, <2>1 DEF OnPages, Making
  <2>4. QED
    BY <1>1, <1>2, <2>1, <2>2, <2>3 DEF Whole, ManifestsWhole, FileWhole, Making
<1>9. QED
  BY <1>3, <1>5, <1>6, <1>7, <1>8

(* An undisturbed run keeps to what it listed.                             *)
LEMMA WholeStep == Inv /\ Whole /\ [Publishes]_vars => Whole'
<1> SUFFICES ASSUME Inv, Whole, [Publishes]_vars
             PROVE  Whole'
  OBVIOUS
<1>1. CASE UNCHANGED vars
  <2>1. UNCHANGED <<database, packed, files, pub>>
    BY <1>1 DEF vars
  <2>2. UNCHANGED <<known, stored, look, texted, rows, packed, seen, pub>>
    BY <2>1 DEF database, files
  <2>3. PagesDoc' = PagesDoc
    BY <2>2 DEF PagesDoc, StoredCount
  <2>4. QED
    BY <2>2, <2>3 DEF Whole, PagesWhole, ManifestsWhole, FileWhole, PageDone, Exact, Archive,
                      Listed, OnPages, Making, StoredCount
<1>2. CASE DirGone
  BY <1>2 DEF DirGone, Whole, FileWhole
<1>3. QED
  BY <1>1, <1>2, PageSteps, FileSteps, ManifestSteps DEF Publishes

(* When it has ended, out/ has it all.                                     *)
LEMMA EndedWhole ==
  ASSUME Inv, Whole, pub.at = "idle"
  PROVE  Done
<1>1. ~OnPages /\ ~Making
  BY DEF OnPages, Making
<1>2. \A p \in Pages : PageDone(p)
  BY <1>1 DEF Whole, PagesWhole
<1>3. Current
  BY <1>2 DEF Current, PageDone, Whole, ManifestsWhole
<1>4. QED
  BY <1>1, <1>2, <1>3 DEF Done

(* And a further one writes nothing.                                       *)
LEMMA DoneStep == Inv /\ Done /\ [Publishes]_vars => Done' /\ UNCHANGED <<packed, files>>
<1> SUFFICES ASSUME Inv, Done, [Publishes]_vars
             PROVE  Done' /\ UNCHANGED <<packed, files>>
  OBVIOUS
<1> USE Facts
<1>1. Whole /\ Whole'
  BY WholeStep DEF Done
<1>2. ASSUME UNCHANGED <<known, stored, look, texted, rows, packed, files>>, ~Making'
      PROVE  Done' /\ UNCHANGED <<packed, files>>
  <2>1. UNCHANGED seen
    BY <1>2 DEF files
  <2>2. QED
    BY <1>1, <1>2, <2>1 DEF Done, Current, PageDone, PagesDoc, StoredCount
<1>3. CASE UNCHANGED vars
  <2>1. UNCHANGED <<known, stored, look, texted, rows, packed, files, pub>>
    BY <1>3 DEF vars, database
  <2>2. QED
    BY <1>2, <2>1 DEF Making, Done
<1>4. ASSUME Publishes, AtPage
      PROVE  pub.target \in Pages /\ Exact(pub.target) /\ PageDone(pub.target)
  <2>1. pub.target \in Pages /\ pub.target \in pub.target .. N /\ OnPages
    BY <1>4 DEF AtPage, Inv, Position, OnPages, Pages
  <2>2. QED
    BY <1>1, <2>1 DEF Whole, PagesWhole, Done
<1>5. CASE SkipEmpty
  <2>1. Listed.count = 0 /\ pub.target \in Pages /\ Exact(pub.target) /\ PageDone(pub.target)
    BY <1>4, <1>5 DEF SkipEmpty, Publishes
  <2>2. packed[pub.target] = 0
    BY <2>1 DEF Listed, Exact, PageDone
  <2>3. packed' = packed /\ UNCHANGED <<database, files>>
    BY <1>5, <2>2 DEF SkipEmpty, Inv, Database
  <2>4. ~Making'
    BY <1>5 DEF SkipEmpty, NextTarget, Idle, Making
  <2>5. QED
    BY <1>2, <2>3, <2>4 DEF database
<1>6. CASE SkipPacked \/ List \/ ReadPages \/ ReadFiles \/ Published
  <2>1. UNCHANGED <<database, packed, files>>
    BY <1>6 DEF SkipPacked, List, ReadPages, ReadFiles, Published
  <2>2. ~Making'
    <3>1. pub'.at \in {"idle", "page", "pages", "files", "compare"}
      <4>1. pub \in Publisher
        BY DEF Inv, Position
      <4>2. CASE SkipPacked
        <5>1. pub' = [at |-> IF pub.target < N THEN "page" ELSE "pages",
                      target |-> pub.target + 1,
                      list |-> [p \in DOMAIN pub.list \ {pub.target} |-> pub.list[p]],
                      doc |-> Absent, next |-> Absent, dir |-> FALSE, synced |-> FALSE]
          BY <4>2 DEF SkipPacked, NextTarget, Idle
        <5>2. QED
          BY <5>1
      <4>3. CASE List \/ Published
        BY <4>3, ListIsJust DEF JustListed, Published, Idle
      <4>4. CASE ReadPages \/ ReadFiles
        BY <4>1, <4>4 DEF ReadPages, ReadFiles, Publisher
      <4>5. QED
        BY <1>6, <4>2, <4>3, <4>4
    <3>2. QED
      BY <3>1 DEF Making
  <2>3. QED
    BY <1>2, <2>1, <2>2 DEF database
<1>7. CASE ReadTexts
  <2>1. /\ AtPage /\ Listed.count > 0 /\ ~UpToDate
        /\ pub.target \in Pages /\ Exact(pub.target) /\ PageDone(pub.target)
    BY <1>4, <1>7 DEF ReadTexts, Publishes
  <2>2. StoredCount(pub.target) > 0 /\ Listed.packed = Listed.count
    BY <2>1 DEF Listed, Exact, PageDone
  <2>3. stored[pub.target] # {}
    BY <2>1, <2>2, Counting DEF StoredCount, Inv, Database
  <2>4. QED
    BY <2>1, <2>2, <2>3 DEF PageDone, UpToDate
<1>8. CASE Compare
  <2>1. pub.at = "compare" /\ pub.target \in {PagesJson, FilesJson} /\ pub.target \in Targets
    BY <1>8 DEF Compare
  <2>2. pub.doc = seen[pub.target]
    BY <1>1, <2>1 DEF Whole, ManifestsWhole, Done, Current
  <2>3. pub.doc # Absent
    BY <2>1, FileFacts DEF Inv, Document
  <2>4. pub' = [pub EXCEPT !.target = @ + 1, !.doc = pub.next] /\ UNCHANGED <<database, packed, files>>
    BY <1>8, <2>2, <2>3 DEF Compare, Same
  <2>5. pub'.at = "compare"
    BY <2>1, <2>4 DEF Inv, Position, Publisher
  <2>6. QED
    BY <1>2, <2>4, <2>5 DEF database, Making
<1>9. CASE Write \/ Rename \/ DirSync \/ Record \/ DirGone
  BY <1>1, <1>9 DEF Write, Rename, DirSync, Record, DirGone, Done, Making
<1>10. QED
  BY <1>3, <1>5, <1>6, <1>7, <1>8, <1>9 DEF Publishes

(* A run that nothing disturbs from its listing to its end leaves out/     *)
(* current, whatever state earlier runs that were cut off, wiped or        *)
(* overtaken by a loss of power had left: the safety half of               *)
(* PublicationConverges (out.rs publish "everything here can be            *)
(* regenerated").                                                          *)
THEOREM UndisturbedIsCurrent ==
  Spec => [](JustListed /\ [][Publishes]_vars => [](pub.at = "idle" => Current))
<1>1. Inv /\ JustListed => Whole
  BY JustIsWhole
<1>2. Inv /\ Whole /\ [Publishes]_vars => Whole'
  BY WholeStep
<1>3. Inv /\ Whole => (pub.at = "idle" => Current)
  BY EndedWhole DEF Done
<1>4. QED
  BY Invariance, <1>1, <1>2, <1>3, PTL

(* And whatever runs after it, as long as nothing happens, writes neither  *)
(* a file nor a count: what is current is not packed again (out.rs         *)
(* "Repacked only when the stored-revision count drifts",                  *)
(* write_if_changed).                                                      *)
THEOREM CurrentIsNotWritten ==
  Spec => [](JustListed /\ [][Publishes]_vars =>
               [](pub.at = "idle" => [][UNCHANGED <<packed, files>>]_vars))
<1>1. Inv /\ JustListed => Whole
  BY JustIsWhole
<1>2. Inv /\ Whole /\ [Publishes]_vars => Whole'
  BY WholeStep
<1>3. Inv /\ Whole => (pub.at = "idle" => Done)
  BY EndedWhole
<1>4. Inv /\ Done /\ [Publishes]_vars => Done' /\ [UNCHANGED <<packed, files>>]_vars
  BY DoneStep
<1>5. QED
  BY Invariance, <1>1, <1>2, <1>3, <1>4, PTL

=============================================================================
