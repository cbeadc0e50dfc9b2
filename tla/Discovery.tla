------------------------------ MODULE Discovery ------------------------------
(***************************************************************************)
(* What the discover job of a Wikidot site promises, with its windows, its *)
(* watermark and the sliding of the feed hidden: a run takes on, in one    *)
(* instant, every change that no signal has followed, and its commit       *)
(* signals at least the pages of those.  Only a deletion during the run,   *)
(* or a window misread, releases it from what it has taken on.             *)
(***************************************************************************)
EXTENDS Naturals

CONSTANTS
  Entry,   \* change entries, each with the slug of its page and its number
  Slugs    \* pages of the wiki

VARIABLES
  feed,      \* the changes listed
  pending,   \* those no signal has followed, and no disturbed run let slip
  running,   \* whether a run is in flight
  taken,     \* the changes that run has taken on
  mishaps    \* number of runs lost and windows misread

discovery == <<feed, pending, running, taken, mishaps>>

DiscoveryInit ==
  feed = {} /\ pending = {} /\ running = FALSE /\ taken = {} /\ mishaps = 0

-----------------------------------------------------------------------------

Happen(e) ==
  /\ e \notin feed
  /\ feed' = feed \cup {e} /\ pending' = pending \cup {e}
  /\ UNCHANGED <<running, taken, mishaps>>

Released == pending' = {} /\ taken' = {}

Delete(slug) ==
  /\ \E e \in feed : e.slug = slug
  /\ feed' = {e \in feed : e.slug # slug}
  /\ \/ running /\ Released
     \/ ~running /\ pending' = {e \in pending : e.slug # slug} /\ UNCHANGED taken
  /\ UNCHANGED <<running, mishaps>>

Take ==
  /\ ~running /\ running' = TRUE
  /\ taken' = pending
  /\ UNCHANGED <<feed, pending, mishaps>>

Slip ==
  /\ running /\ Released
  /\ mishaps' = mishaps + 1
  /\ UNCHANGED <<feed, running>>

Signal(slugs) ==
  /\ running /\ running' = FALSE
  /\ {e.slug : e \in taken} \subseteq slugs
  /\ pending' = {e \in pending : e.slug \notin slugs} /\ taken' = {}
  /\ UNCHANGED <<feed, mishaps>>

Fail ==
  /\ running /\ running' = FALSE
  /\ taken' = {} /\ mishaps' = mishaps + 1
  /\ UNCHANGED <<feed, pending>>

(* An old archive that has every change up to one is imported.             *)
Import(last) ==
  /\ ~running
  /\ pending' = {e \in pending : e.no > last.no}
  /\ UNCHANGED <<feed, running, taken, mishaps>>

DiscoveryNext ==
  \/ \E e \in Entry : Happen(e)
  \/ \E slug \in Slugs : Delete(slug)
  \/ Take \/ Slip \/ Fail
  \/ \E slugs \in SUBSET Slugs : Signal(slugs)
  \/ \E last \in feed : Import(last)

DiscoverySpec == DiscoveryInit /\ [][DiscoveryNext]_discovery

=============================================================================
