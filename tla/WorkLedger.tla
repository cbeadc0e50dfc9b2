----------------------------- MODULE WorkLedger -----------------------------
(***************************************************************************)
(* What the job table promises to the rest of the program, with claims,    *)
(* permits, retries, time, crashes and restarts hidden.                    *)
(*                                                                         *)
(* A ticket is one piece of requested work: the single row of a durable    *)
(* (kind, payload), or one of the rows that page.sync signals for the same *)
(* slug occupy at the same time.  A ticket is opened by a request, and     *)
(* stays open until a run of it commits (Serve) or the queue gives it up   *)
(* (Drop).  The work a served ticket asks for is recorded in the very step *)
(* that serves it, and nothing else ever changes the ledger.               *)
(***************************************************************************)
EXTENDS Naturals

CONSTANTS
  Singleton,   \* identities that are re-opened when served (periodic jobs)
  Durable,     \* identities served once and then remembered as done
  Signal,      \* identities whose every request is a ticket of its own
  Asks,        \* [identity -> the requests a run of it may make]; a request
               \* is [wants, rearms], sets of identities, rearms being
               \* wanted and not signals
  Offers,      \* the requests from outside: seeding, import
  MaxSignals   \* bound: tickets one signal identity can hold at a time

VARIABLES
  ledger,   \* [Ticket -> {"absent", "open", "done", "dead"}]
  turn      \* [Singleton -> BOOLEAN], flips when a run of it commits: tells
            \* a served ticket that is open again from one not served

Ticket == ((Singleton \cup Durable) \X {1}) \cup (Signal \X (1 .. MaxSignals))

(* The free ticket a new signal of identity s is written on.               *)
FreeTicket(l, s, t) ==
  /\ t[1] = s
  /\ l[t] = "absent"
  /\ \A u \in Ticket : u[1] = s /\ l[u] = "absent" => t[2] <= u[2]

(* Whether request r opens ticket t of ledger l: a signal always opens a   *)
(* fresh one, a durable identity only an absent or a re-armed settled one. *)
Opens(l, r, t) ==
  /\ t[1] \in r.wants
  /\ \/ t[1] \in Signal /\ FreeTicket(l, t[1], t)
     \/ t[1] \notin Signal /\ l[t] = "absent"
     \/ t[1] \notin Signal /\ t[1] \in r.rearms /\ l[t] \in {"done", "dead"}

Recorded(l, r) == [t \in Ticket |-> IF Opens(l, r, t) THEN "open" ELSE l[t]]

(* What a served ticket becomes.                                           *)
Settled(t) ==
  CASE t[1] \in Singleton -> "open"
    [] t[1] \in Signal    -> "absent"
    [] OTHER              -> "done"

-----------------------------------------------------------------------------

LedgerInit ==
  /\ ledger = [t \in Ticket |-> "absent"]
  /\ turn = [i \in Singleton |-> FALSE]

(* Work is asked for from outside: seeding, import.                        *)
Accept(r) == ledger' = Recorded(ledger, r)

(* A run of t commits together with the request it makes.                  *)
Serve(t, r) ==
  /\ ledger[t] = "open"
  /\ ledger' = Recorded([ledger EXCEPT ![t] = Settled(t)], r)

Turned(t) == [i \in Singleton |-> IF i = t[1] THEN ~turn[i] ELSE turn[i]]

(* The queue dead-letters t.                                               *)
Drop(t) ==
  /\ ledger[t] = "open"
  /\ ledger' = [ledger EXCEPT ![t] = "dead"]

LedgerNext ==
  \/ \E r \in Offers : Accept(r) /\ UNCHANGED turn
  \/ \E t \in Ticket : \E r \in Asks[t[1]] : Serve(t, r) /\ turn' = Turned(t)
  \/ \E t \in Ticket : Drop(t) /\ UNCHANGED turn

LedgerSpec == LedgerInit /\ [][LedgerNext]_<<ledger, turn>>

=============================================================================
