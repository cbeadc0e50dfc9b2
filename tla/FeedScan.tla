------------------------------ MODULE FeedScan ------------------------------
(***************************************************************************)
(* The discover job of a Wikidot site, window by window (workers.rs        *)
(* discover, absorb_window): the recent-changes feed is read newest first, *)
(* one request per window, while the wiki goes on changing, until the old  *)
(* watermark or the end of the feed shows up; watermark and page.sync      *)
(* signals are committed together.                                         *)
(*                                                                         *)
(* An entry's number stands for its revision and author: it makes two      *)
(* changes of one page in the same second different entries.  The feed is  *)
(* the set of its entries, an entry's place in it the number of those      *)
(* newer.                                                                  *)
(***************************************************************************)
EXTENDS Naturals, FiniteSets

CONSTANTS
  Slugs,        \* pages of the wiki
  NoEntry,      \* no watermark yet
  PerPage,      \* entries of one window (200 in the code)
  MaxChanges,   \* bound: upstream changes
  MaxTime,      \* bound: seconds in which they happen
  MaxMishaps    \* bound: lost scans and misread windows

Entry == [no : 1 .. MaxChanges, slug : Slugs, ts : 1 .. MaxTime]

ASSUME FeedAssumption ==
  /\ PerPage \in Nat \ {0} /\ MaxTime \in Nat \ {0}
  /\ {MaxChanges, MaxMishaps} \subseteq Nat
  /\ NoEntry \notin Entry

VARIABLES
  feed,       \* upstream: the change entries it lists
  changes,    \* number of changes so far (bounded by MaxChanges)
  clock,      \* upstream: the second of the latest change
  wm,         \* meta "saved_up_to": an entry, or NoEntry
  scan,       \* the run of discover in flight
  mishaps,    \* number of mishaps so far (bounded by MaxMishaps)
  unsignalled, \* history: changes with no page.sync signal for their page
               \* committed since they happened, and not imported
  overlooked,  \* history: those of them a disturbed scan may have missed
  begun        \* history: changes made when the scan in flight read its
               \* first window, 0 without one

history == <<unsignalled, overlooked, begun>>
vars == <<feed, changes, clock, wm, scan, mishaps, history>>

Idle == [at |-> "idle"]

Init ==
  /\ feed = {} /\ changes = 0 /\ clock = 1
  /\ wm = NoEntry
  /\ scan = Idle /\ mishaps = 0
  /\ unsignalled = {} /\ overlooked = {} /\ begun = 0

-----------------------------------------------------------------------------
(* The wiki.  A deleted page takes its entries out of the feed, and moves  *)
(* those behind them towards the front, past what a scan reads next.       *)

Change(s, ts) ==
  /\ changes < MaxChanges /\ ts >= clock
  /\ LET e == [no |-> changes + 1, slug |-> s, ts |-> ts]
     IN  /\ feed' = feed \cup {e}
         /\ unsignalled' = unsignalled \cup {e}
  /\ changes' = changes + 1 /\ clock' = ts
  /\ UNCHANGED <<wm, scan, mishaps, overlooked, begun>>

DeletePage(s) ==
  /\ \E e \in feed : e.slug = s
  /\ feed' = {e \in feed : e.slug # s}
  /\ unsignalled' = {e \in unsignalled : e.slug # s}
  /\ overlooked' = IF scan = Idle THEN overlooked \cap unsignalled' ELSE unsignalled'
  /\ UNCHANGED <<changes, clock, wm, scan, mishaps, begun>>

-----------------------------------------------------------------------------
(* The scan.                                                               *)

Place(e) == Cardinality({f \in feed : f.no > e.no})
Window(n) == {e \in feed : (n - 1) * PerPage <= Place(e) /\ Place(e) < n * PerPage}
Newest(entries) == CHOOSE e \in entries : \A f \in entries : f.no <= e.no

(* Faulty: every entry of the watermark's second is taken for old.         *)
StopsInItsSecond(w, e) == w # NoEntry /\ e.ts <= w.ts
(* absorb_window: the entry that ends the walk.                            *)
Stops(w, e) == w # NoEntry /\ (e = w \/ e.ts < w.ts)

Reaches(w, entries) == \E e \in entries : Stops(w, e)
(* The entry is read, and none before it ends the walk.                    *)
Reached(w, entries, e) == \A f \in entries : f.no >= e.no => ~Stops(w, f)
Absorbed(w, entries) == {e.slug : e \in {f \in entries : Reached(w, entries, f)}}

(* The next watermark: the head of the first window, unless that is no     *)
(* newer than the old one.                                                 *)
NextWatermark(first) ==
  IF wm # NoEntry /\ Newest(first).ts <= wm.ts THEN wm ELSE Newest(first)

(* The first window.  An empty one ends the run with nothing changed.      *)
FirstWindow ==
  LET first == Window(1)
  IN  /\ scan = Idle
      /\ first # {}
      /\ scan' = [at |-> IF Reaches(wm, first) THEN "scanned" ELSE "walking",
                  page |-> 2, head |-> NextWatermark(first),
                  seen |-> Absorbed(wm, first)]
      /\ begun' = changes
      /\ UNCHANGED <<feed, changes, clock, wm, mishaps, unsignalled, overlooked>>

(* Faulty: only the watermark ends the walk.                               *)
EndsAtWatermark(window) == Reaches(wm, window)
Ends(window) == window = {} \/ Reaches(wm, window)

(* A deeper window, as the feed is at this instant; an empty one counts as *)
(* the end of the feed.                                                    *)
NextWindow ==
  /\ scan.at = "walking"
  /\ LET window == Window(scan.page)
     IN  scan' = [scan EXCEPT
                    !.at = IF Ends(window) THEN "scanned" ELSE "walking",
                    !.page = @ + 1,
                    !.seen = @ \cup Absorbed(wm, window)]
  /\ UNCHANGED <<feed, changes, clock, wm, mishaps, history>>

Mishap == mishaps < MaxMishaps /\ mishaps' = mishaps + 1

(* A deeper window of which nothing can be parsed is taken for the end.    *)
Misread ==
  /\ scan.at = "walking" /\ Mishap
  /\ Window(scan.page) # {}
  /\ scan' = [scan EXCEPT !.at = "scanned", !.page = @ + 1]
  /\ overlooked' = unsignalled
  /\ UNCHANGED <<feed, changes, clock, wm, unsignalled, begun>>

(* Faulty: the watermark is the feed's head when the scan ends.            *)
HeadAtTheEnd == IF feed = {} THEN scan.head ELSE Newest(feed)
(* The watermark fixed before anything was collected.                      *)
FixedHead == scan.head

Commit ==
  /\ scan.at = "scanned"
  /\ wm' = FixedHead
  /\ unsignalled' = {e \in unsignalled : e.slug \notin scan.seen}
  /\ overlooked' = overlooked \cap unsignalled'
  /\ scan' = Idle /\ begun' = 0
  /\ UNCHANGED <<feed, changes, clock, mishaps>>

(* A request failed, the commit rolled back, or the process died.          *)
Lost ==
  /\ scan # Idle /\ Mishap
  /\ scan' = Idle /\ begun' = 0
  /\ UNCHANGED <<feed, changes, clock, wm, unsignalled, overlooked>>

(* import-legacy, with the daemon down: the watermark becomes that of the  *)
(* old archive, which has every change up to it, whatever it was before.   *)
ImportLegacy(last) ==
  /\ scan = Idle
  /\ wm' = last
  /\ unsignalled' = {e \in unsignalled : e.no > last.no}
  /\ overlooked' = overlooked \cap unsignalled'
  /\ UNCHANGED <<feed, changes, clock, scan, mishaps, begun>>

-----------------------------------------------------------------------------

Next ==
  \/ \E s \in Slugs, ts \in 1 .. MaxTime : Change(s, ts)
  \/ \E s \in Slugs : DeletePage(s)
  \/ FirstWindow \/ NextWindow \/ Misread \/ Commit \/ Lost
  \/ \E last \in feed : ImportLegacy(last)

Spec == Init /\ [][Next]_vars

(* The periodic job runs again and again, and its requests do not fail for *)
(* ever.                                                                   *)
ScanFairness == WF_vars(FirstWindow \/ NextWindow \/ Commit)
FairSpec == Spec /\ ScanFairness

-----------------------------------------------------------------------------
(* Properties.                                                             *)

(* The page number stays within one window of the feed's end: the walk     *)
(* always stops.                                                           *)
TypeOK ==
  /\ feed \subseteq Entry
  /\ changes \in 0 .. MaxChanges /\ clock \in 1 .. MaxTime
  /\ mishaps \in 0 .. MaxMishaps
  /\ wm \in Entry \cup {NoEntry}
  /\ scan \in {Idle} \cup [at : {"walking", "scanned"}, page : 2 .. MaxChanges + 2,
                           head : Entry, seen : SUBSET Slugs]
  /\ unsignalled \subseteq Entry /\ overlooked \subseteq unsignalled
  /\ begun \in 0 .. MaxChanges

(* A change that no signal followed is one the next scan will come across: *)
(* whatever slid through the feed while a scan walked it, and whatever the *)
(* commit or an import made the watermark, no entry ends up behind it      *)
(* unsignalled (workers.rs: newest-first walking makes the feed overlap    *)
(* instead of gapping).  A window that could not be parsed, or a deletion  *)
(* during the walk, costs no change made after it.                         *)
NothingSkipped ==
  \A e \in unsignalled \ overlooked : e.slug \in Absorbed(wm, feed)

(* A scan as what it promises: in spite of its windows it signals, when it *)
(* commits, the page of every change that had no signal when it began      *)
(* (workers.rs discover: changes arriving mid-scan belong to the next      *)
(* interval, and no others).                                               *)
Pending == unsignalled \ overlooked
Taken == IF scan = Idle THEN {} ELSE {e \in Pending : e.no <= begun}
Discover == INSTANCE Discovery WITH
              pending <- Pending, running <- scan # Idle, taken <- Taken
ImplementsDiscovery == Discover!DiscoverySpec

(* Every change is eventually followed by a page.sync signal for its page, *)
(* unless it was overlooked so.                                            *)
EveryChangeSignalled ==
  \A no \in 1 .. MaxChanges :
    (\E e \in unsignalled : e.no = no) ~> (\A e \in unsignalled \ overlooked : e.no # no)

=============================================================================
