------------------------------- MODULE Session -------------------------------
(***************************************************************************)
(* The session a site's tasks share (http.rs, wikidot.rs): the cookie jar  *)
(* with its CSRF token, the jar's copy in the site's database, the scheme  *)
(* learned from responses, and the gate through which one task at a time   *)
(* fetches the site's root to get what is missing.  Every request takes a  *)
(* ticket of the limiter.  The server replaces its token, the site moves   *)
(* to the other scheme, requests fail and the daemon restarts meanwhile.   *)
(*                                                                         *)
(* Callers make one AJAX call each, the others fetch a page.  An attempt   *)
(* that fails is made again, by the call or by a new run of its job,       *)
(* unless the server denied it for good (FetchError::permanent).           *)
(***************************************************************************)
EXTENDS Limiter

CONSTANTS
  Callers,       \* clients that make an AJAX call
  NoOne,         \* nobody: no holder of the gate
  Schemes,       \* http and https
  Unlearned,     \* no scheme learned yet
  AjaxRetries,   \* AJAX_RETRIES, of the bootstrap
  Hops,          \* POST_REDIRECT_HOPS
  MaxMishaps     \* bound: rotations, moves, failures and crashes

ASSUME SessionAssumption ==
  /\ Callers \subseteq Clients /\ NoOne \notin Clients
  /\ Schemes # {} /\ Unlearned \notin Schemes
  /\ {AjaxRetries, MaxMishaps} \subseteq Nat /\ Hops \in Nat \ {0}

VARIABLES
  valid,      \* upstream: the token the server accepts
  canon,      \* upstream: the site's canonical scheme
  jar,        \* wikidot_token7 in memory
  disk,       \* wikidot_token7 in meta.cookies
  scheme,     \* the scheme learned
  gate,       \* token_gate: who holds it
  call,       \* [Clients -> where its call is]
  mishaps,    \* number of mishaps so far (bounded by MaxMishaps)
  settled,    \* history: since the last bootstrap request no token was
              \* forgotten, no bootstrap failed and no daemon started
  torn        \* history: a save of the jar failed or overlapped another

upstream == <<valid, canon>>
session == <<jar, scheme, gate>>
history == <<settled, torn>>
vars == <<limiter, upstream, session, disk, call, mishaps, history>>

NoToken == 0
Token == 0 .. MaxMishaps + 1

(* at: the next step; aim: what the request is for; token, url: of the     *)
(* form; tries: retries the bootstrap has left; hop: redirects followed;   *)
(* sets, says: of the response; json: the jar being saved.                 *)
Fresh(c) ==
  [at |-> IF c \in Callers THEN "check" ELSE "ask",
   aim |-> IF c \in Callers THEN "post" ELSE "page",
   token |-> NoToken, url |-> Unlearned, tries |-> 0, hop |-> 0,
   sets |-> NoToken, says |-> "none", json |-> NoToken]
Ended == {"done", "denied"}
Goto(c, step) == call' = [call EXCEPT ![c].at = step]
Leave(c, step) == call' = [call EXCEPT ![c] = [Fresh(c) EXCEPT !.at = step]]

Init ==
  /\ LimiterInit
  /\ valid = 1 /\ canon = CHOOSE s \in Schemes : TRUE
  /\ jar = NoToken /\ disk = NoToken
  /\ scheme = Unlearned /\ gate = NoOne
  /\ call = [c \in Clients |-> Fresh(c)]
  /\ mishaps = 0
  /\ settled = FALSE /\ torn = FALSE

-----------------------------------------------------------------------------
(* ensure_session.                                                         *)

(* Faulty: a token is all a session needs.                                 *)
NoTokenYet == jar = NoToken
Cold == jar = NoToken \/ scheme = Unlearned

Check(c) ==
  /\ call[c].at = "check"
  /\ Goto(c, IF Cold THEN "gate" ELSE "token")
  /\ UNCHANGED <<limiter, upstream, session, disk, mishaps, history>>

(* Faulty: no second look once the gate is passed.                         *)
AlwaysCold == TRUE
StillCold == Cold

EnterGate(c) ==
  /\ call[c].at = "gate" /\ gate = NoOne
  /\ IF StillCold
     THEN /\ gate' = c
          /\ call' = [call EXCEPT ![c].at = "ask", ![c].aim = "boot",
                                  ![c].tries = AjaxRetries]
     ELSE Goto(c, "token") /\ UNCHANGED gate
  /\ UNCHANGED <<limiter, upstream, jar, scheme, disk, mishaps, history>>

(* Faulty: the gate is given back before every retry.                      *)
GateGivenBack(c) == gate' = NoOne
GateKept(c) == gate' = gate

(* An attempt ends with a retryable error: the bootstrap tries again while *)
(* it has retries left, and then gives the gate back.                      *)
AttemptFails(c) ==
  IF call[c].aim = "boot" /\ call[c].tries > 0
  THEN /\ call' = [call EXCEPT ![c] =
            [Fresh(c) EXCEPT !.at = "ask", !.aim = "boot", !.tries = call[c].tries - 1]]
       /\ GateKept(c)
  ELSE /\ Leave(c, Fresh(c).at)
       /\ gate' = IF gate = c THEN NoOne ELSE gate

-----------------------------------------------------------------------------
(* A request: ticket, cookies, response.                                   *)

(* The token may have vanished since the check.                            *)
ReadToken(c) ==
  /\ call[c].at = "token"
  /\ IF jar = NoToken THEN Leave(c, "check")
     ELSE call' = [call EXCEPT ![c].at = "ask", ![c].token = jar, ![c].url = scheme]
  /\ UNCHANGED <<limiter, upstream, session, disk, mishaps, history>>

Ask(c) ==
  /\ call[c].at = "ask"
  /\ Acquire(c)
  /\ Goto(c, "wait")
  /\ UNCHANGED <<upstream, session, disk, mishaps, history>>

(* A GET ends at the canonical scheme; its response sets the token if the  *)
(* request's cookie had none, or, of a stale one, perhaps.                 *)
Sets(c) ==
  IF call[c].aim = "post" \/ jar = valid THEN {NoToken}
  ELSE IF jar = NoToken THEN {valid} ELSE {NoToken, valid}
Says(c) ==
  LET form == call[c]
  IN  CASE form.aim = "post" /\ form.url # canon -> "redirect"
        [] form.aim = "post" /\ form.url = canon /\ form.token # valid -> "wrong_token7"
        [] OTHER -> "ok"
Responds(c, sets, says) ==
  call' = [call EXCEPT
    ![c].at = IF sets = NoToken THEN "learn" ELSE "answer",
    ![c].sets = sets, ![c].says = says,
    ![c].token = IF says = "redirect" THEN @ ELSE NoToken,
    ![c].url = IF call[c].aim = "post" THEN @ ELSE canon]

(* The ticket is there: the server answers, the response is used later.    *)
Send(c) ==
  /\ Grant(c)
  /\ \E sets \in Sets(c) : Responds(c, sets, Says(c))
  /\ settled' = (settled \/ call[c].aim = "boot")
  /\ UNCHANGED <<upstream, session, disk, mishaps, torn>>

(* absorb_cookies: what changed is saved, the merge being over.            *)
Absorb(c) ==
  /\ call[c].at = "answer"
  /\ jar' = call[c].sets
  /\ call' = [call EXCEPT ![c].sets = NoToken,
                          ![c].at = IF call[c].sets # jar THEN "json" ELSE "learn"]
  /\ UNCHANGED <<limiter, upstream, scheme, gate, disk, mishaps, history>>

(* persist_cookies: the jar as it is now, written in a step of its own;    *)
(* then the call goes on where it was.                                     *)
Serialise(c) ==
  /\ call[c].at = "json"
  /\ call' = [call EXCEPT ![c].at = "save", ![c].json = jar]
  /\ torn' = (torn \/ \E d \in Clients : call[d].at = "save")
  /\ UNCHANGED <<limiter, upstream, session, disk, mishaps, settled>>

SaveEnds(c) ==
  /\ call[c].at = "save"
  /\ IF call[c].says = "wrong_token7" THEN AttemptFails(c)
     ELSE call' = [call EXCEPT ![c].at = "learn", ![c].json = NoToken] /\ UNCHANGED gate

Save(c) ==
  /\ SaveEnds(c)
  /\ disk' = call[c].json
  /\ UNCHANGED <<limiter, upstream, jar, scheme, mishaps, history>>

(* remember_scheme, and what the response is worth.                        *)
Learns(c, says) ==
  /\ call[c].at = "learn" /\ call[c].says = says
  /\ scheme' = call[c].url
  /\ UNCHANGED <<limiter, upstream, disk, mishaps, torn>>

Fails(c) ==
  /\ \/ Learns(c, "refused")
     \/ Learns(c, "redirect") /\ call[c].hop + 1 >= Hops
     \/ Learns(c, "ok") /\ call[c].aim = "boot" /\ jar = NoToken
  /\ AttemptFails(c)
  /\ settled' = (settled /\ call[c].aim # "boot")
  /\ UNCHANGED jar

(* An answer that is not retryable ends the call at once, a bootstrap with *)
(* tries left too, and its job; but a revision.fetch that met a 404 fails  *)
(* as if it were retryable, and its job runs again.                        *)
GivesUp(c) ==
  /\ Learns(c, "denied")
  /\ \E end \in {"denied", Fresh(c).at} : Leave(c, end)
  /\ gate' = IF gate = c THEN NoOne ELSE gate
  /\ settled' = (settled /\ call[c].aim # "boot")
  /\ UNCHANGED jar

(* The form is posted again, to the redirect's target.                     *)
Redirected(c) ==
  /\ Learns(c, "redirect") /\ call[c].hop + 1 < Hops
  /\ call' = [call EXCEPT ![c].at = "ask", ![c].url = canon, ![c].says = "none",
                          ![c].hop = call[c].hop + 1]
  /\ UNCHANGED <<jar, gate, settled>>

Booted(c) ==
  /\ Learns(c, "ok") /\ call[c].aim = "boot" /\ jar # NoToken
  /\ Leave(c, "token")
  /\ gate' = NoOne
  /\ UNCHANGED <<jar, settled>>

Succeeds(c) ==
  /\ Learns(c, "ok") /\ call[c].aim # "boot"
  /\ Leave(c, "done")
  /\ UNCHANGED <<jar, gate, settled>>

(* Faulty: the rejected token stays, or leaves memory only.                *)
KeepToken(c) == jar' = jar /\ AttemptFails(c)
DropInMemory(c) == jar' = NoToken /\ AttemptFails(c)
(* forget_token: the token in the jar, be it the one rejected or not.      *)
DropToken(c) ==
  /\ jar' = NoToken
  /\ IF jar = NoToken THEN AttemptFails(c) ELSE Goto(c, "json") /\ UNCHANGED gate

Rejected(c) ==
  /\ Learns(c, "wrong_token7")
  /\ DropToken(c)
  /\ settled' = (settled /\ jar = NoToken)

-----------------------------------------------------------------------------
(* Mishaps.                                                                *)

Mishap == mishaps < MaxMishaps /\ mishaps' = mishaps + 1

Rotate ==
  /\ Mishap
  /\ valid' = valid + 1
  /\ UNCHANGED <<limiter, canon, session, disk, call, history>>

Move ==
  /\ Mishap
  /\ canon' \in Schemes \ {canon}
  /\ UNCHANGED <<limiter, valid, session, disk, call, history>>

(* No response.                                                            *)
NoResponse(c) ==
  /\ Mishap /\ Grant(c)
  /\ AttemptFails(c)
  /\ settled' = (settled /\ call[c].aim # "boot")
  /\ UNCHANGED <<upstream, jar, scheme, disk, torn>>

(* An HTTP error that sets nothing, or an AJAX status: retryable (429,     *)
(* 5xx, other statuses) or not (403, 404, no_permission, gone).            *)
Refused(c) ==
  /\ Mishap /\ Grant(c)
  /\ \E says \in {"refused", "denied"} : Responds(c, NoToken, says)
  /\ UNCHANGED <<upstream, session, disk, history>>

SaveFails(c) ==
  /\ Mishap /\ SaveEnds(c)
  /\ torn' = TRUE
  /\ UNCHANGED <<limiter, upstream, jar, scheme, disk, settled>>

(* The daemon restarts: attach_store loads what was saved.                 *)
Restart ==
  /\ Mishap
  /\ channel' = {} /\ queue' = {} /\ older' = {} /\ cooling' = FALSE
  /\ overtaken' = [c \in Clients |-> 0]
  /\ jar' = disk /\ scheme' = Unlearned /\ gate' = NoOne
  /\ call' = [c \in Clients |-> IF call[c].at \in Ended THEN call[c] ELSE Fresh(c)]
  /\ settled' = FALSE /\ torn' = FALSE
  /\ UNCHANGED <<upstream, disk>>

-----------------------------------------------------------------------------

CallGoesOn(c) ==
  \/ Check(c) \/ EnterGate(c) \/ ReadToken(c) \/ Ask(c) \/ Absorb(c)
  \/ Serialise(c) \/ Save(c)
  \/ Fails(c) \/ GivesUp(c) \/ Redirected(c) \/ Booted(c) \/ Succeeds(c) \/ Rejected(c)

Granting == \E c \in Clients : Send(c)
TaskRuns == LimiterRuns /\ UNCHANGED <<upstream, session, disk, call, mishaps, history>>

Next ==
  \/ \E c \in Clients : CallGoesOn(c) \/ NoResponse(c) \/ Refused(c) \/ SaveFails(c)
  \/ Granting \/ TaskRuns
  \/ Rotate \/ Move \/ Restart

Spec == Init /\ [][Next]_vars

(* Something that can go on does: less than that each task does, which     *)
(* tokio grants, and which this system does not need.                      *)
Fairness == WF_vars(Granting \/ TaskRuns \/ \E c \in Clients : CallGoesOn(c))
FairSpec == Spec /\ Fairness

-----------------------------------------------------------------------------
(* Properties.                                                             *)

(* Who waits for a ticket is in the limiter, and the gate's holder is at   *)
(* its bootstrap.                                                          *)
TypeOK ==
  /\ LimiterTypeOK
  /\ Waiting = {c \in Clients : call[c].at = "wait"}
  /\ {valid, jar, disk} \subseteq Token /\ valid # NoToken
  /\ canon \in Schemes /\ scheme \in Schemes \cup {Unlearned}
  /\ gate \in Clients \cup {NoOne}
  /\ \A c \in Clients : gate = c <=> call[c].aim = "boot"
  /\ call \in [Clients ->
       [at : {"check", "gate", "token", "ask", "wait", "answer", "json", "save",
              "learn"} \cup Ended,
        aim : {"boot", "post", "page"}, token : Token,
        url : Schemes \cup {Unlearned}, tries : 0 .. AjaxRetries, hop : 0 .. Hops,
        sets : Token, says : {"none", "ok", "wrong_token7", "redirect",
                              "refused", "denied"},
        json : Token]]
  /\ mishaps \in 0 .. MaxMishaps

(* Cold callers share one bootstrap: another request for the site's root   *)
(* is made only after a token was forgotten, a bootstrap failed or the     *)
(* daemon started (wikidot.rs "one GET refreshes, the rest re-check under  *)
(* the lock").                                                             *)
OneBootstrapPerLoss ==
  \A c \in Clients :
    call[c].aim = "boot" /\ call[c].at \in {"ask", "wait"} => ~settled

(* The database has the token of the jar, unless two saves overlapped or   *)
(* one failed (http.rs persist_cookies).                                   *)
SavedUnlessTorn ==
  (\A c \in Clients : call[c].at \notin {"json", "save"}) /\ ~torn => disk = jar

(* A form goes to a scheme the site has answered on since the daemon       *)
(* started, a token from the database notwithstanding (wikidot.rs "AJAX    *)
(* POSTs must not go to a non-canonical scheme").                          *)
PostsKnowTheScheme ==
  \A c \in Callers :
    call[c].at \in {"ask", "wait"} /\ call[c].aim = "post" => call[c].url \in Schemes

(* Every call ends, done or denied for good by the server, whatever stale  *)
(* token was saved, kept or brought back by a late response, whoever drops *)
(* a token another call has just got, and whoever's bootstrap at the gate  *)
(* was denied (http.rs "a failed write only costs a re-bootstrap").        *)
EveryCallEnds == <>(\A c \in Clients : call[c].at \in Ended)

=============================================================================
