------------------------------- MODULE Limiter -------------------------------
(***************************************************************************)
(* The rate limiter every request of every site goes through (http.rs): a  *)
(* channel of arrivals, a heap ordered by priority and then age, and one   *)
(* task that grants the head of the heap at most once per interval.  The   *)
(* task polls arrivals and the due time in random order, so it may grant   *)
(* while an urgent request still lies in the channel.                      *)
(*                                                                         *)
(* Of time only whether the interval since the last grant has passed is    *)
(* kept.  It passes with the channel empty: the task takes arrivals in     *)
(* microseconds, the interval is a good part of a second.                  *)
(***************************************************************************)
EXTENDS Naturals

CONSTANTS
  Clients,   \* tasks that make requests, one at a time each
  Prio       \* [Clients -> the priority of the job the task runs]

ASSUME LimiterAssumption == Prio \in [Clients -> Nat]

VARIABLES
  channel,   \* who waits for a ticket unseen by the task
  queue,     \* who waits for a ticket in the task's heap
  older,     \* pairs of waiting clients, the first one's seq being lower
  cooling,   \* the interval since the last grant has not passed
  overtaken  \* history: [Clients -> grants to others behind it, while it waits]

limiter == <<channel, queue, older, cooling, overtaken>>

LimiterInit ==
  /\ channel = {} /\ queue = {} /\ older = {}
  /\ cooling = FALSE
  /\ overtaken = [c \in Clients |-> 0]

Waiting == channel \cup queue

(* Waiter::cmp: priority first, then age.                                  *)
Ahead(c, d) == Prio[c] > Prio[d] \/ (Prio[c] = Prio[d] /\ <<c, d>> \in older)

-----------------------------------------------------------------------------

(* The number is taken and sent in one step.                               *)
Acquire(c) ==
  /\ c \notin Waiting
  /\ channel' = channel \cup {c}
  /\ older' = older \cup (Waiting \X {c})
  /\ UNCHANGED <<queue, cooling, overtaken>>

Receive(c) ==
  /\ c \in channel /\ \A d \in channel : <<d, c>> \notin older
  /\ channel' = channel \ {c}
  /\ queue' = queue \cup {c}
  /\ UNCHANGED <<older, cooling, overtaken>>

(* Faulty: the time of the grant is not kept.                              *)
StillRested == cooling' = cooling
Rests == cooling' = TRUE

Grant(c) ==
  /\ c \in queue /\ \A d \in queue : ~Ahead(d, c)
  /\ ~cooling /\ Rests
  /\ queue' = queue \ {c}
  /\ older' = {pair \in older : c \notin {pair[1], pair[2]}}
  /\ overtaken' = [d \in Clients |->
       CASE d = c -> 0
         [] d \in Waiting \ {c} /\ Ahead(d, c) -> overtaken[d] + 1
         [] OTHER -> overtaken[d]]
  /\ UNCHANGED channel

Elapse ==
  /\ cooling /\ channel = {}
  /\ cooling' = FALSE
  /\ UNCHANGED <<channel, queue, older, overtaken>>

LimiterRuns == Elapse \/ \E c \in Clients : Receive(c)

-----------------------------------------------------------------------------

LimiterTypeOK ==
  /\ channel \subseteq Clients /\ queue \subseteq Clients /\ channel \cap queue = {}
  /\ older \subseteq Waiting \X Waiting
  /\ \A c, d \in Waiting : c # d => (<<c, d>> \in older <=> <<d, c>> \notin older)
  /\ cooling \in BOOLEAN
  /\ overtaken \in [Clients -> Nat]

(* A request is overtaken by at most one less urgent or younger one, which *)
(* the task granted before it looked into the channel; after that grant it *)
(* empties the channel before it may grant again (http.rs "the             *)
(* highest-priority waiter wins the next ticket").                         *)
OvertakenOnce == \A c \in Clients : overtaken[c] <= 1

=============================================================================
