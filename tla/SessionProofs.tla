---------------------------- MODULE SessionProofs ----------------------------
(* Theorems about Session and the Limiter it goes through, for every set   *)
(* of clients, priorities, schemes and retry limits, and any number of     *)
(* mishaps.                                                                *)
EXTENDS Session, TLAPS

-----------------------------------------------------------------------------
(* The inductive invariant.                                                *)

(* Only who still lies in the channel can be overtaken, once between two   *)
(* grants; who waits no longer starts anew.                                *)
LimiterSound ==
  /\ LimiterTypeOK /\ OvertakenOnce
  /\ ~cooling => \A c \in channel : overtaken[c] = 0
  /\ \A c \in Clients \ Waiting : overtaken[c] = 0

(* What a call carries at each step, and what it may count on: a form is   *)
(* made, sent and answered under a scheme the site answered on, and only a *)
(* form is redirected or rejected.                                         *)
CallOf(r) ==
  /\ r.at = "token" => scheme \in Schemes
  /\ r.at \in {"ask", "wait"} /\ r.aim = "post" => r.url \in Schemes
  /\ r.at \in {"answer", "json", "save", "learn"} => r.url \in Schemes
  /\ r.at = "answer" => r.sets # NoToken
  /\ r.says \in {"redirect", "wrong_token7"} => r.aim = "post"
  /\ r.at \in {"check", "gate", "token", "ask", "wait"} => r.says = "none"
  /\ r.aim = "boot" => r.at \notin {"check", "gate", "token", "done", "denied"}
Calls == \A c \in Clients : CallOf(call[c])

(* Between bootstraps a settled session is whole: nobody finds it cold.    *)
SettledIsWarm == settled /\ gate = NoOne => jar # NoToken /\ scheme \in Schemes

(* Until saves overlap or fail there is one at a time, and what the jar    *)
(* has is saved, being saved or about to be.                               *)
Saved ==
  ~torn =>
    /\ \A c, d \in Clients : call[c].at = "save" /\ call[d].at = "save" => c = d
    /\ \/ \E c \in Clients : call[c].at = "json"
       \/ \E c \in Clients : call[c].at = "save" /\ call[c].json = jar
       \/ disk = jar /\ \A c \in Clients : call[c].at # "save"

Inv ==
  /\ TypeOK /\ LimiterSound /\ valid <= mishaps + 1
  /\ Calls /\ SettledIsWarm /\ OneBootstrapPerLoss /\ Saved

-----------------------------------------------------------------------------
(* The limiter.                                                            *)

LEMMA LimiterInitInv ==
  ASSUME LimiterInit
  PROVE  LimiterSound /\ Waiting = {}
<1>1. /\ channel = {} /\ queue = {} /\ older = {} /\ cooling = FALSE
      /\ overtaken = [c \in Clients |-> 0]
  BY DEF LimiterInit
<1>2. Waiting = {} /\ overtaken \in [Clients -> Nat] /\ \A c \in Clients : overtaken[c] = 0
  BY <1>1 DEF Waiting
<1>3. LimiterTypeOK
  BY <1>1, <1>2 DEF LimiterTypeOK
<1>4. QED
  BY <1>1, <1>2, <1>3 DEF LimiterSound, OvertakenOnce

LEMMA LimiterRestsInv ==
  ASSUME LimiterSound, UNCHANGED limiter
  PROVE  LimiterSound' /\ Waiting' = Waiting
BY DEF limiter, LimiterSound, LimiterTypeOK, OvertakenOnce, Waiting

LEMMA AcquireInv ==
  ASSUME LimiterSound, NEW c \in Clients, Acquire(c)
  PROVE  LimiterSound' /\ Waiting' = Waiting \cup {c}
<1>1. /\ c \notin Waiting /\ channel' = channel \cup {c}
      /\ older' = older \cup (Waiting \X {c})
      /\ queue' = queue /\ cooling' = cooling /\ overtaken' = overtaken
  BY DEF Acquire
<1>2. Waiting' = Waiting \cup {c} /\ older \subseteq Waiting \X Waiting
  BY <1>1 DEF Waiting, LimiterSound, LimiterTypeOK
<1>3. older' \subseteq Waiting' \X Waiting'
  BY <1>1, <1>2
<1>4. ASSUME NEW d \in Waiting', NEW e \in Waiting', d # e
      PROVE  <<d, e>> \in older' <=> <<e, d>> \notin older'
  <2>1. CASE d \in Waiting /\ e \in Waiting
    BY <1>1, <1>4, <2>1 DEF LimiterSound, LimiterTypeOK
  <2>2. CASE d = c \/ e = c
    BY <1>1, <1>2, <1>4, <2>2
  <2>3. QED
    BY <1>2, <2>1, <2>2
<1>5. LimiterTypeOK'
  BY <1>1, <1>3, <1>4 DEF LimiterSound, LimiterTypeOK, Waiting
<1>6. QED
  BY <1>1, <1>2, <1>5 DEF LimiterSound, OvertakenOnce

LEMMA ReceiveInv ==
  ASSUME LimiterSound, NEW c \in Clients, Receive(c)
  PROVE  LimiterSound' /\ Waiting' = Waiting
<1>1. /\ c \in channel /\ channel' = channel \ {c} /\ queue' = queue \cup {c}
      /\ older' = older /\ cooling' = cooling /\ overtaken' = overtaken
  BY DEF Receive
<1>2. Waiting' = Waiting
  BY <1>1 DEF Waiting
<1>3. LimiterTypeOK'
  BY <1>1, <1>2 DEF LimiterSound, LimiterTypeOK
<1>4. QED
  BY <1>1, <1>2, <1>3 DEF LimiterSound, OvertakenOnce

(* Who is overtaken now was not before: it lay in the channel while the    *)
(* task rested.                                                            *)
LEMMA GrantInv ==
  ASSUME LimiterSound, NEW c \in Clients, Grant(c)
  PROVE  LimiterSound' /\ c \in Waiting /\ Waiting' = Waiting \ {c}
<1> DEFINE passed(d) == d \in Waiting \ {c} /\ Ahead(d, c)
<1>1. /\ c \in queue /\ \A d \in queue : ~Ahead(d, c)
      /\ ~cooling /\ cooling' = TRUE /\ channel' = channel /\ queue' = queue \ {c}
      /\ older' = {pair \in older : c \notin {pair[1], pair[2]}}
  BY DEF Grant, Rests
<1>2. overtaken' = [d \in Clients |->
        IF d = c THEN 0 ELSE IF passed(d) THEN overtaken[d] + 1 ELSE overtaken[d]]
  BY DEF Grant
<1>3. c \in Waiting /\ c \notin channel /\ Waiting' = Waiting \ {c}
  BY <1>1 DEF Waiting, LimiterSound, LimiterTypeOK
<1>4. overtaken \in [Clients -> Nat] /\ overtaken' \in [Clients -> Nat]
  <2>1. overtaken \in [Clients -> Nat]
    BY DEF LimiterSound, LimiterTypeOK
  <2>2. \A d \in Clients : overtaken[d] + 1 \in Nat
    BY <2>1
  <2>3. QED
    BY <1>2, <2>1, <2>2
<1>5. older' \subseteq Waiting' \X Waiting'
  <2>1. ASSUME NEW pair \in older'
        PROVE  pair \in Waiting' \X Waiting'
    <3>1. pair \in Waiting \X Waiting /\ c # pair[1] /\ c # pair[2]
      BY <1>1, <2>1 DEF LimiterSound, LimiterTypeOK
    <3>2. QED
      BY <1>3, <3>1
  <2>2. QED
    BY <2>1
<1>6. \A d, e \in Waiting' : d # e => (<<d, e>> \in older' <=> <<e, d>> \notin older')
  BY <1>1, <1>3 DEF LimiterSound, LimiterTypeOK
<1>7. LimiterTypeOK'
  BY <1>1, <1>4, <1>5, <1>6 DEF LimiterSound, LimiterTypeOK
<1>8. \A d \in Clients : passed(d) => overtaken[d] = 0
  BY <1>1, <1>3 DEF Waiting, LimiterSound
<1>9. \A d \in Clients : overtaken'[d] <= 1
  BY <1>2, <1>4, <1>8 DEF LimiterSound, OvertakenOnce
<1>10. \A d \in Clients \ Waiting' : overtaken'[d] = 0
  BY <1>2, <1>3 DEF LimiterSound
<1>11. QED
  BY <1>1, <1>3, <1>7, <1>9, <1>10 DEF LimiterSound, OvertakenOnce

LEMMA ElapseInv ==
  ASSUME LimiterSound, Elapse
  PROVE  LimiterSound' /\ Waiting' = Waiting
BY DEF Elapse, LimiterSound, LimiterTypeOK, OvertakenOnce, Waiting

-----------------------------------------------------------------------------
(* The step of one call.                                                   *)

Rec ==
  [at : {"check", "gate", "token", "ask", "wait", "answer", "json", "save", "learn", "done",
        "denied"},
   aim : {"boot", "post", "page"}, token : Token,
   url : Schemes \cup {Unlearned}, tries : 0 .. AjaxRetries, hop : 0 .. Hops,
   sets : Token, says : {"none", "ok", "wrong_token7", "redirect", "refused", "denied"},
   json : Token]

(* The gate stays with whom is at its bootstrap, is entered or given back. *)
GateMoves(c, r) ==
  \/ gate' = gate /\ (r.aim = "boot" <=> call[c].aim = "boot")
  \/ gate = NoOne /\ gate' = c /\ r.aim = "boot"
  \/ gate = c /\ gate' = NoOne /\ r.aim # "boot"

LEMMA NoTokenType == NoToken \in Token
BY SessionAssumption DEF NoToken, Token

LEMMA FreshFacts ==
  ASSUME NEW c \in Clients
  PROVE  /\ Fresh(c) \in Rec
         /\ Fresh(c) = [Fresh(c) EXCEPT !.at = Fresh(c).at]
         /\ Fresh(c).at \in {"check", "ask"} /\ Fresh(c).aim \in {"post", "page"}
         /\ Fresh(c).aim = "post" => Fresh(c).at = "check"
         /\ Fresh(c).says = "none"
<1>1. NoToken \in Token /\ 0 \in 0 .. AjaxRetries /\ 0 \in 0 .. Hops
  BY NoTokenType, SessionAssumption
<1>2. QED
  BY <1>1 DEF Fresh, Rec

LEMMA CallType ==
  ASSUME Inv, NEW c \in Clients
  PROVE  call \in [Clients -> Rec] /\ call[c] \in Rec /\ CallOf(call[c])
BY DEF Inv, TypeOK, Rec, Calls, Ended

(* One call goes on: what is left to show of it.                           *)
LEMMA CallStep ==
  ASSUME Inv, NEW c \in Clients, NEW r \in Rec, call' = [call EXCEPT ![c] = r],
         LimiterSound', Waiting' = (Waiting \ {c}) \cup {d \in {c} : r.at = "wait"},
         UNCHANGED upstream, mishaps' \in mishaps .. MaxMishaps,
         jar' \in Token, disk' \in Token, scheme' \in {scheme} \cup Schemes,
         GateMoves(c, r), CallOf(r)', settled' => settled \/ gate = c,
         SettledIsWarm', Saved',
         r.aim = "boot" /\ r.at \in {"ask", "wait"} => ~settled'
  PROVE  Inv'
<1>1. call \in [Clients -> Rec] /\ call' \in [Clients -> Rec]
  BY CallType
<1>2. call'[c] = r /\ \A d \in Clients \ {c} : call'[d] = call[d]
  BY <1>1
<1>3. /\ gate \in Clients \cup {NoOne} /\ NoOne \notin Clients
      /\ \A d \in Clients : gate = d <=> call[d].aim = "boot"
  BY SessionAssumption DEF Inv, TypeOK
<1>4. gate' \in Clients \cup {NoOne} /\ \A d \in Clients : gate' = d <=> call'[d].aim = "boot"
  BY <1>2, <1>3 DEF GateMoves
<1>5. Waiting' = {d \in Clients : call'[d].at = "wait"}
  <2>1. Waiting = {d \in Clients : call[d].at = "wait"}
    BY DEF Inv, TypeOK
  <2>2. QED
    BY <1>2, <2>1
<1>6. mishaps' \in 0 .. MaxMishaps /\ valid' <= mishaps' + 1 /\ valid' \in Token /\ valid' # NoToken
  <2>1. /\ valid' = valid /\ valid \in Token /\ valid # NoToken
        /\ valid <= mishaps + 1 /\ mishaps \in 0 .. MaxMishaps
    BY DEF Inv, TypeOK, upstream
  <2>2. /\ mishaps \in Nat /\ mishaps' \in Nat /\ MaxMishaps \in Nat
        /\ mishaps <= mishaps' /\ mishaps' <= MaxMishaps
    BY <2>1, SessionAssumption
  <2>3. valid \in Nat
    BY <2>1, SessionAssumption DEF Token
  <2>4. valid' <= mishaps' + 1
    <3>1. \A v, m, n \in Nat : v <= m + 1 /\ m <= n => v <= n + 1
      OBVIOUS
    <3>2. QED
      BY <2>1, <2>2, <2>3, <3>1
  <2>5. mishaps' \in 0 .. MaxMishaps
    BY <2>2
  <2>6. QED
    BY <2>1, <2>4, <2>5
<1>7. TypeOK'
  <2>1. canon' \in Schemes /\ scheme' \in Schemes \cup {Unlearned}
    BY DEF Inv, TypeOK, upstream
  <2>2. LimiterTypeOK'
    BY DEF LimiterSound
  <2>3. QED
    BY <1>1, <1>4, <1>5, <1>6, <2>1, <2>2 DEF TypeOK, Rec, Ended
<1>8. Calls'
  <2>1. ASSUME NEW d \in Clients \ {c}
        PROVE  CallOf(call[d])'
    BY <1>2, <2>1, CallType DEF CallOf
  <2>2. CallOf(call[c])'
    BY <1>2 DEF CallOf
  <2>3. QED
    BY <2>1, <2>2 DEF Calls
<1>9. OneBootstrapPerLoss'
  BY <1>2, <1>3 DEF OneBootstrapPerLoss, Inv
<1>10. QED
  BY <1>6, <1>7, <1>8, <1>9 DEF Inv

(* Nothing is saved, or the jar is about to be.                            *)
LEMMA SavedStays ==
  ASSUME Inv, NEW c \in Clients, NEW r \in Rec, call' = [call EXCEPT ![c] = r],
         torn' = torn, call[c].at # "save", r.at # "save",
         \/ r.at = "json"
         \/ call[c].at # "json" /\ jar' = jar /\ disk' = disk
  PROVE  Saved'
<1>1. call'[c] = r /\ \A d \in Clients \ {c} : call'[d] = call[d]
  BY CallType
<1>2. QED
  BY <1>1 DEF Inv, Saved

(* A failed attempt starts again, a bootstrap with one retry less, or ends.*)
LEMMA FailedAttempt ==
  ASSUME Inv, NEW c \in Clients, AttemptFails(c)
  PROVE  \E r \in Rec :
           /\ call' = [call EXCEPT ![c] = r] /\ GateMoves(c, r)
           /\ r.at \in {"check", "ask"} /\ r.says = "none"
           /\ r.aim = "post" => r.at = "check"
           /\ r.aim = "boot" => r.at = "ask"
           /\ call[c].aim # "boot" => gate' = gate /\ r.aim # "boot"
<1>1. CASE call[c].aim = "boot" /\ call[c].tries > 0
  <2> DEFINE r == [Fresh(c) EXCEPT !.at = "ask", !.aim = "boot", !.tries = call[c].tries - 1]
  <2>1. call' = [call EXCEPT ![c] = r] /\ gate' = gate
    BY <1>1 DEF AttemptFails, GateKept
  <2>2. call[c].tries - 1 \in 0 .. AjaxRetries
    BY <1>1, CallType, SessionAssumption DEF Rec
  <2>3. /\ r \in Rec /\ r.at = "ask" /\ r.says = "none" /\ r.aim = "boot"
    BY <2>2, FreshFacts DEF Rec
  <2>4. QED
    BY <1>1, <2>1, <2>3 DEF GateMoves
<1>2. CASE ~(call[c].aim = "boot" /\ call[c].tries > 0)
  <2>1. /\ call' = [call EXCEPT ![c] = [Fresh(c) EXCEPT !.at = Fresh(c).at]]
        /\ gate' = IF gate = c THEN NoOne ELSE gate
    BY <1>2 DEF AttemptFails, Leave
  <2>2. call' = [call EXCEPT ![c] = Fresh(c)]
    BY <2>1, FreshFacts
  <2>3. gate = c <=> call[c].aim = "boot"
    BY DEF Inv, TypeOK
  <2>4. GateMoves(c, Fresh(c))
    BY <2>1, <2>3, FreshFacts DEF GateMoves
  <2>5. QED
    BY <2>1, <2>2, <2>3, <2>4, FreshFacts
<1>3. QED
  BY <1>1, <1>2

(* After a save, failed or not, the call goes on or its attempt fails.     *)
LEMMA AfterSave ==
  ASSUME Inv, NEW c \in Clients, SaveEnds(c)
  PROVE  \E r \in Rec :
           /\ call' = [call EXCEPT ![c] = r] /\ GateMoves(c, r) /\ gate' = gate
           /\ r.at \in {"check", "ask", "learn"} /\ CallOf(r)
           /\ r.aim = "boot" => r.at = "learn"
<1>1. call[c].at = "save" /\ call[c] \in Rec /\ CallOf(call[c])
  BY CallType DEF SaveEnds
<1>2. CASE call[c].says = "wrong_token7"
  <2>1. AttemptFails(c) /\ call[c].aim # "boot"
    BY <1>1, <1>2 DEF SaveEnds, CallOf
  <2>2. QED
    BY <2>1, FailedAttempt DEF CallOf
<1>3. CASE call[c].says # "wrong_token7"
  <2> DEFINE r == [call[c] EXCEPT !.at = "learn", !.json = NoToken]
  <2>1. call' = [call EXCEPT ![c] = r] /\ gate' = gate
    BY <1>1, <1>3 DEF SaveEnds
  <2>2. r \in Rec /\ r.at = "learn" /\ r.aim = call[c].aim /\ r.url = call[c].url
        /\ r.says = call[c].says
    BY <1>1, NoTokenType DEF Rec
  <2>3. CallOf(r)
    BY <1>1, <2>2 DEF CallOf
  <2>4. QED
    BY <2>1, <2>2, <2>3 DEF GateMoves
<1>4. QED
  BY <1>2, <1>3

-----------------------------------------------------------------------------
(* The gate, and the requests up to the server.                            *)

(* Steps that leave limiter, mishaps and site alone.                       *)
LEMMA Quiet ==
  ASSUME Inv, UNCHANGED limiter, NEW c \in Clients, NEW r \in Rec,
         r.at # "wait", call[c].at # "wait"
  PROVE  LimiterSound' /\ Waiting' = (Waiting \ {c}) \cup {d \in {c} : r.at = "wait"}
<1>1. LimiterSound' /\ Waiting' = Waiting
  BY LimiterRestsInv DEF Inv
<1>2. c \notin Waiting
  BY DEF Inv, TypeOK
<1>3. QED
  BY <1>1, <1>2

LEMMA SessionTypes ==
  ASSUME Inv
  PROVE  /\ jar \in Token /\ disk \in Token /\ valid \in Token /\ valid # NoToken
         /\ canon \in Schemes /\ scheme \in Schemes \cup {Unlearned}
         /\ mishaps \in mishaps .. MaxMishaps
         /\ \A c \in Clients : gate = c <=> call[c].aim = "boot"
         /\ scheme # Unlearned <=> scheme \in Schemes
BY SessionAssumption DEF Inv, TypeOK

LEMMA CheckInv ==
  ASSUME Inv, NEW c \in Clients, Check(c)
  PROVE  Inv'
<1>1. /\ call[c].at = "check"
      /\ UNCHANGED <<limiter, upstream, jar, scheme, gate, disk, mishaps, settled, torn>>
  BY DEF Check, session, history
<1>2. PICK r \in Rec : /\ call' = [call EXCEPT ![c] = r]
                       /\ r.at = IF Cold THEN "gate" ELSE "token"
                       /\ r.aim = call[c].aim /\ r.says = call[c].says
  <2> DEFINE step == IF Cold THEN "gate" ELSE "token"
             q == [call[c] EXCEPT !.at = step]
  <2>1. q \in Rec /\ q.at = step /\ q.aim = call[c].aim /\ q.says = call[c].says
    BY CallType DEF Rec
  <2>2. call' = [call EXCEPT ![c] = q]
    BY DEF Check, Goto
  <2>3. QED
    BY <2>1, <2>2
<1>3. CallOf(r)'
  BY <1>1, <1>2, CallType, SessionTypes DEF CallOf, Cold
<1>4. GateMoves(c, r) /\ SettledIsWarm'
  BY <1>1, <1>2 DEF GateMoves, SettledIsWarm, Inv
<1>5. Saved'
  BY <1>1, <1>2, SavedStays
<1>6. QED
  BY <1>1, <1>2, <1>3, <1>4, <1>5, Quiet, SessionTypes, CallStep

(* Who finds the session cold with the gate free knows it is not settled.  *)
LEMMA EnterGateInv ==
  ASSUME Inv, NEW c \in Clients, EnterGate(c)
  PROVE  Inv'
<1>1. /\ call[c].at = "gate" /\ gate = NoOne
      /\ UNCHANGED <<limiter, upstream, jar, scheme, disk, mishaps, settled, torn>>
  BY DEF EnterGate, history
<1>2. CASE Cold
  <2>1. gate' = c
    BY <1>2 DEF EnterGate, StillCold
  <2>2. PICK r \in Rec : /\ call' = [call EXCEPT ![c] = r]
                         /\ r.at = "ask" /\ r.aim = "boot" /\ r.says = call[c].says
    <3> DEFINE q == [call[c] EXCEPT !.at = "ask", !.aim = "boot", !.tries = AjaxRetries]
    <3>1. AjaxRetries \in 0 .. AjaxRetries
      BY SessionAssumption
    <3>2. q \in Rec /\ q.at = "ask" /\ q.aim = "boot" /\ q.says = call[c].says
      BY <3>1, CallType DEF Rec
    <3>3. call' = [call EXCEPT ![c] = q]
      BY <1>2 DEF EnterGate, StillCold
    <3>4. QED
      BY <3>2, <3>3
  <2>3. r.says = "none"
    BY <1>1, <2>2, CallType DEF CallOf
  <2>4. CallOf(r)'
    BY <2>2, <2>3 DEF CallOf
  <2>5. ~settled
    BY <1>1, <1>2, SessionTypes DEF Inv, SettledIsWarm, Cold
  <2>6. GateMoves(c, r) /\ SettledIsWarm'
    BY <1>1, <2>1, <2>2, <2>5 DEF GateMoves, SettledIsWarm
  <2>7. Saved'
    BY <1>1, <2>1, <2>2, SavedStays
  <2>8. QED
    BY <1>1, <2>1, <2>2, <2>4, <2>5, <2>6, <2>7, Quiet, SessionTypes, CallStep
<1>3. CASE ~Cold
  <2>1. gate' = gate /\ call' = [call EXCEPT ![c].at = "token"]
    BY <1>3 DEF EnterGate, StillCold, Goto
  <2>2. PICK r \in Rec : /\ call' = [call EXCEPT ![c] = r]
                         /\ r.at = "token" /\ r.aim = call[c].aim /\ r.says = call[c].says
    <3> DEFINE q == [call[c] EXCEPT !.at = "token"]
    <3>1. q \in Rec /\ q.at = "token" /\ q.aim = call[c].aim /\ q.says = call[c].says
      BY CallType DEF Rec
    <3>2. QED
      BY <2>1, <3>1
  <2>3. CallOf(r)'
    BY <1>1, <1>3, <2>2, CallType, SessionTypes DEF CallOf, Cold
  <2>4. GateMoves(c, r) /\ SettledIsWarm'
    BY <1>1, <2>1, <2>2 DEF GateMoves, SettledIsWarm, Inv
  <2>5. Saved'
    BY <1>1, <2>1, <2>2, SavedStays
  <2>6. QED
    BY <1>1, <2>1, <2>2, <2>3, <2>4, <2>5, Quiet, SessionTypes, CallStep
<1>4. QED
  BY <1>2, <1>3

LEMMA ReadTokenInv ==
  ASSUME Inv, NEW c \in Clients, ReadToken(c)
  PROVE  Inv'
<1>1. /\ call[c].at = "token" /\ scheme \in Schemes
      /\ UNCHANGED <<limiter, upstream, jar, scheme, gate, disk, mishaps, settled, torn>>
  BY CallType DEF ReadToken, session, history, CallOf
<1>2. call[c].aim # "boot" /\ call[c].says = "none"
  BY <1>1, CallType DEF CallOf
<1>3. \E r \in Rec : /\ call' = [call EXCEPT ![c] = r]
                     /\ r.at \in {"check", "ask"} /\ r.says = "none" /\ r.aim # "boot"
                     /\ r.at = "ask" => r.url \in Schemes
  <2>1. CASE jar = NoToken
    <3> DEFINE r == [Fresh(c) EXCEPT !.at = "check"]
    <3>1. call' = [call EXCEPT ![c] = r]
      BY <2>1 DEF ReadToken, Leave
    <3>2. r \in Rec /\ r.at = "check" /\ r.says = "none" /\ r.aim # "boot"
      BY FreshFacts DEF Rec
    <3>3. QED
      BY <3>1, <3>2
  <2>2. CASE jar # NoToken
    <3> DEFINE r == [call[c] EXCEPT !.at = "ask", !.token = jar, !.url = scheme]
    <3>1. call' = [call EXCEPT ![c] = r]
      BY <2>2, CallType DEF ReadToken, Rec
    <3>2. /\ r \in Rec /\ r.at = "ask" /\ r.says = "none" /\ r.aim # "boot"
          /\ r.url \in Schemes
      BY <1>1, <1>2, CallType, SessionTypes DEF Rec
    <3>3. QED
      BY <3>1, <3>2
  <2>3. QED
    BY <2>1, <2>2
<1>4. PICK r \in Rec : /\ call' = [call EXCEPT ![c] = r]
                       /\ r.at \in {"check", "ask"} /\ r.says = "none" /\ r.aim # "boot"
                       /\ r.at = "ask" => r.url \in Schemes
  BY <1>3
<1>5. CallOf(r)'
  BY <1>4 DEF CallOf
<1>6. GateMoves(c, r) /\ SettledIsWarm'
  BY <1>1, <1>2, <1>4 DEF GateMoves, SettledIsWarm, Inv
<1>7. Saved'
  BY <1>1, <1>4, SavedStays
<1>8. QED
  BY <1>1, <1>4, <1>5, <1>6, <1>7, Quiet, SessionTypes, CallStep

LEMMA AskInv ==
  ASSUME Inv, NEW c \in Clients, Ask(c)
  PROVE  Inv'
<1>1. /\ call[c].at = "ask" /\ Acquire(c) /\ call' = [call EXCEPT ![c].at = "wait"]
      /\ UNCHANGED <<upstream, jar, scheme, gate, disk, mishaps, settled, torn>>
  BY DEF Ask, Goto, session, history
<1>2. PICK r \in Rec : /\ call' = [call EXCEPT ![c] = r]
                       /\ r.at = "wait" /\ r.aim = call[c].aim /\ r.says = call[c].says
                       /\ r.url = call[c].url
  <2> DEFINE q == [call[c] EXCEPT !.at = "wait"]
  <2>1. /\ q \in Rec /\ q.at = "wait" /\ q.aim = call[c].aim /\ q.says = call[c].says
        /\ q.url = call[c].url
    BY CallType DEF Rec
  <2>2. QED
    BY <1>1, <2>1
<1>3. LimiterSound' /\ Waiting' = (Waiting \ {c}) \cup {d \in {c} : r.at = "wait"}
  BY <1>1, <1>2, AcquireInv DEF Inv
<1>4. CallOf(r)'
  BY <1>1, <1>2, CallType DEF CallOf
<1>5. GateMoves(c, r) /\ SettledIsWarm' /\ (r.aim = "boot" => ~settled')
  BY <1>1, <1>2 DEF GateMoves, SettledIsWarm, Inv, OneBootstrapPerLoss
<1>6. Saved'
  BY <1>1, <1>2, SavedStays
<1>7. QED
  BY <1>1, <1>2, <1>3, <1>4, <1>5, <1>6, SessionTypes, CallStep

(* The server answers: a bootstrap's answer settles the session.           *)
LEMMA SendInv ==
  ASSUME Inv, NEW c \in Clients, Grant(c), NEW sets, NEW says,
         \/ /\ sets \in Sets(c) /\ says = Says(c)
            /\ settled' = (settled \/ call[c].aim = "boot")
         \/ /\ sets = NoToken /\ says \in {"refused", "denied"}
            /\ settled' = settled,
         Responds(c, sets, says), mishaps' \in mishaps .. MaxMishaps,
         UNCHANGED <<upstream, session, disk, torn>>
  PROVE  Inv'
<1>1. UNCHANGED <<jar, scheme, gate, disk, torn, upstream>>
  BY DEF session
<1>2. LimiterSound' /\ c \in Waiting /\ Waiting' = Waiting \ {c}
  BY GrantInv DEF Inv
<1>3. call[c].at = "wait"
  BY <1>2 DEF Inv, TypeOK
<1>4. /\ says \in {"ok", "redirect", "wrong_token7", "refused", "denied"}
      /\ says \in {"redirect", "wrong_token7"} => call[c].aim = "post"
  <2>1. CASE says = Says(c)
    BY <2>1 DEF Says
  <2>2. CASE says \in {"refused", "denied"}
    BY <2>2
  <2>3. QED
    BY <2>1, <2>2
<1>5. sets \in Token
  BY NoTokenType, SessionTypes DEF Sets
<1>6. PICK r \in Rec :
        /\ call' = [call EXCEPT ![c] = r]
        /\ r.at \in {"learn", "answer"} /\ (r.at = "answer" => r.sets # NoToken)
        /\ r.says = says /\ r.aim = call[c].aim
        /\ r.url = IF call[c].aim = "post" THEN call[c].url ELSE canon
  <2> DEFINE step == IF sets = NoToken THEN "learn" ELSE "answer"
             url == IF call[c].aim = "post" THEN call[c].url ELSE canon
             token == IF says = "redirect" THEN call[c].token ELSE NoToken
             q == [call[c] EXCEPT !.at = step, !.sets = sets, !.says = says,
                                  !.token = token, !.url = url]
  <2>1. call[c] \in Rec
    BY CallType
  <2>2. url \in Schemes \cup {Unlearned} /\ token \in Token
    BY <2>1, NoTokenType, SessionTypes DEF Rec
  <2>3. step \in {"learn", "answer"} /\ (step = "answer" => sets # NoToken)
    OBVIOUS
  <2>4. call' = [call EXCEPT ![c] = q]
    BY DEF Responds
  <2> HIDE DEF step, url, token
  <2>5. says \in {"none", "ok", "wrong_token7", "redirect", "refused", "denied"}
    BY <1>4
  <2>6. q \in Rec
    BY <1>5, <2>1, <2>2, <2>3, <2>5 DEF Rec
  <2>7. /\ q.at = step /\ q.sets = sets /\ q.says = says
        /\ q.aim = call[c].aim /\ q.url = url
    BY <2>1 DEF Rec
  <2> HIDE DEF q
  <2>8. url = IF call[c].aim = "post" THEN call[c].url ELSE canon
    BY DEF url
  <2>9. QED
    BY <2>3, <2>4, <2>6, <2>7, <2>8
<1>7. CallOf(r)'
  <2>1. call[c].aim = "post" => call[c].url \in Schemes
    BY <1>3, CallType DEF CallOf
  <2>2. r.url \in Schemes /\ r.says = says
    BY <1>6, <2>1, SessionTypes
  <2>3. QED
    BY <1>4, <1>6, <2>2 DEF CallOf
<1>8. gate = c <=> call[c].aim = "boot"
  BY SessionTypes
<1>9. settled' => settled \/ gate = c
  BY <1>8
<1>10. GateMoves(c, r) /\ SettledIsWarm'
  BY <1>1, <1>6, <1>9, SessionAssumption DEF GateMoves, SettledIsWarm, Inv
<1>11. Saved'
  BY <1>1, <1>3, <1>6, SavedStays
<1>12. QED
  BY <1>1, <1>2, <1>6, <1>7, <1>9, <1>10, <1>11, SessionTypes, CallStep

-----------------------------------------------------------------------------
(* The response: cookies and their saving.                                 *)

LEMMA AbsorbInv ==
  ASSUME Inv, NEW c \in Clients, Absorb(c)
  PROVE  Inv'
<1>1. /\ call[c].at = "answer" /\ jar' = call[c].sets
      /\ UNCHANGED <<limiter, upstream, scheme, gate, disk, mishaps, settled, torn>>
  BY DEF Absorb, history
<1>2. PICK r \in Rec : /\ call' = [call EXCEPT ![c] = r]
                       /\ r.at = IF jar' # jar THEN "json" ELSE "learn"
                       /\ r.aim = call[c].aim /\ r.says = call[c].says
                       /\ r.url = call[c].url
  <2> DEFINE step == IF call[c].sets # jar THEN "json" ELSE "learn"
             q == [call[c] EXCEPT !.sets = NoToken, !.at = step]
  <2>1. /\ q \in Rec /\ q.at = step /\ q.aim = call[c].aim /\ q.says = call[c].says
        /\ q.url = call[c].url
    BY CallType, NoTokenType DEF Rec
  <2>2. call' = [call EXCEPT ![c] = q]
    BY DEF Absorb
  <2>3. QED
    BY <1>1, <2>1, <2>2
<1>3. jar' \in Token /\ jar' # NoToken
  BY <1>1, CallType DEF Rec, CallOf
<1>4. CallOf(r)'
  BY <1>1, <1>2, CallType DEF CallOf
<1>5. GateMoves(c, r) /\ SettledIsWarm'
  BY <1>1, <1>2, <1>3 DEF GateMoves, SettledIsWarm, Inv
<1>6. Saved'
  BY <1>1, <1>2, SavedStays
<1>7. QED
  BY <1>1, <1>2, <1>3, <1>4, <1>5, <1>6, Quiet, SessionTypes, CallStep

(* A jar is serialised as it is: if nobody else saves, what is saved next  *)
(* is the jar.                                                             *)
LEMMA SerialiseInv ==
  ASSUME Inv, NEW c \in Clients, Serialise(c)
  PROVE  Inv'
<1>1. /\ call[c].at = "json"
      /\ torn' = (torn \/ \E d \in Clients : call[d].at = "save")
      /\ UNCHANGED <<limiter, upstream, jar, scheme, gate, disk, mishaps, settled>>
  BY DEF Serialise, session
<1>2. PICK r \in Rec : /\ call' = [call EXCEPT ![c] = r]
                       /\ r.at = "save" /\ r.json = jar
                       /\ r.aim = call[c].aim /\ r.says = call[c].says
                       /\ r.url = call[c].url
  <2> DEFINE q == [call[c] EXCEPT !.at = "save", !.json = jar]
  <2>1. /\ q \in Rec /\ q.at = "save" /\ q.json = jar
        /\ q.aim = call[c].aim /\ q.says = call[c].says /\ q.url = call[c].url
    BY CallType, SessionTypes DEF Rec
  <2>2. call' = [call EXCEPT ![c] = q]
    BY DEF Serialise
  <2>3. QED
    BY <2>1, <2>2
<1>3. CallOf(r)'
  BY <1>1, <1>2, CallType DEF CallOf
<1>4. GateMoves(c, r) /\ SettledIsWarm'
  BY <1>1, <1>2 DEF GateMoves, SettledIsWarm, Inv
<1>5. Saved'
  <2> SUFFICES ASSUME ~torn'
               PROVE  /\ \A d, e \in Clients :
                           call'[d].at = "save" /\ call'[e].at = "save" => d = e
                      /\ \E d \in Clients : call'[d].at = "save" /\ call'[d].json = jar'
    BY DEF Saved
  <2>1. call'[c] = r /\ \A d \in Clients \ {c} : call'[d] = call[d]
    BY <1>2, CallType
  <2>2. \A d \in Clients : call[d].at # "save"
    BY <1>1
  <2>3. QED
    BY <1>1, <1>2, <2>1, <2>2
<1>6. QED
  BY <1>1, <1>2, <1>3, <1>4, <1>5, Quiet, SessionTypes, CallStep

(* A save that succeeds leaves the jar on disk, if no other was under way  *)
(* and the jar has not changed meanwhile.                                  *)
LEMMA SaveInv ==
  ASSUME Inv, NEW c \in Clients, Save(c) \/ SaveFails(c)
  PROVE  Inv'
<1>1. /\ SaveEnds(c) /\ call[c].at = "save" /\ mishaps' \in mishaps .. MaxMishaps
      /\ UNCHANGED <<limiter, upstream, jar, scheme, settled>>
      /\ \/ disk' = call[c].json /\ torn' = torn
         \/ disk' = disk /\ torn' = TRUE
  <2>1. CASE Save(c)
    BY <2>1, SessionTypes DEF Save, SaveEnds, history
  <2>2. CASE SaveFails(c)
    <3>1. mishaps' \in mishaps .. MaxMishaps
      BY <2>2, SessionAssumption DEF SaveFails, Mishap, Inv, TypeOK
    <3>2. QED
      BY <2>2, <3>1 DEF SaveFails, SaveEnds
  <2>3. QED
    BY <2>1, <2>2
<1>2. PICK r \in Rec : /\ call' = [call EXCEPT ![c] = r] /\ GateMoves(c, r) /\ gate' = gate
                       /\ r.at \in {"check", "ask", "learn"} /\ CallOf(r)
                       /\ r.aim = "boot" => r.at = "learn"
  BY <1>1, AfterSave
<1>3. CallOf(r)' /\ SettledIsWarm'
  BY <1>1, <1>2 DEF CallOf, SettledIsWarm, Inv
<1>4. disk' \in Token
  BY <1>1, CallType, SessionTypes DEF Rec
<1>5. Saved'
  <2> SUFFICES ASSUME ~torn'
               PROVE  /\ \A d \in Clients : call'[d].at # "save"
                      /\ (\E d \in Clients : call'[d].at = "json") \/ disk' = jar'
    BY DEF Saved
  <2>1. call'[c] = r /\ \A d \in Clients \ {c} : call'[d] = call[d]
    BY <1>2, CallType
  <2>2. /\ disk' = call[c].json
        /\ \A d \in Clients : call[d].at = "save" => d = c
        /\ (\E d \in Clients : call[d].at = "json") \/ call[c].json = jar
    BY <1>1 DEF Inv, Saved
  <2>3. \A d \in Clients : call'[d].at # "save"
    BY <1>2, <2>1, <2>2
  <2>4. \A d \in Clients : call[d].at = "json" => call'[d].at = "json"
    BY <1>1, <2>1
  <2>5. QED
    BY <1>1, <2>2, <2>3, <2>4
<1>6. QED
  BY <1>1, <1>2, <1>3, <1>4, <1>5, Quiet, SessionTypes, CallStep

-----------------------------------------------------------------------------
(* What the response is worth.                                             *)

LEMMA LearnFacts ==
  ASSUME Inv, NEW c \in Clients, NEW says, Learns(c, says)
  PROVE  /\ call[c].at = "learn" /\ call[c].says = says
         /\ scheme' = call[c].url /\ scheme' \in Schemes
         /\ UNCHANGED <<limiter, upstream, disk, mishaps, torn>>
BY CallType DEF Learns, CallOf

(* An attempt fails: a bootstrap's failure unsettles the session.          *)
LEMMA AttemptInv ==
  ASSUME Inv, NEW c \in Clients, AttemptFails(c),
         LimiterSound', Waiting' = Waiting \ {c}, call[c].at \notin {"json", "save"},
         UNCHANGED <<upstream, jar, disk, torn>>, mishaps' \in mishaps .. MaxMishaps,
         scheme' \in {scheme} \cup Schemes, settled' = (settled /\ call[c].aim # "boot")
  PROVE  Inv'
<1>1. PICK r \in Rec :
        /\ call' = [call EXCEPT ![c] = r] /\ GateMoves(c, r)
        /\ r.at \in {"check", "ask"} /\ r.says = "none"
        /\ r.aim = "post" => r.at = "check"
        /\ r.aim = "boot" => r.at = "ask"
        /\ call[c].aim # "boot" => gate' = gate /\ r.aim # "boot"
  BY FailedAttempt
<1>2. CallOf(r)'
  BY <1>1 DEF CallOf
<1>3. SettledIsWarm'
  BY <1>1 DEF SettledIsWarm, Inv
<1>4. Saved'
  BY <1>1, SavedStays
<1>5. Waiting' = (Waiting \ {c}) \cup {d \in {c} : r.at = "wait"}
  BY <1>1
<1>6. QED
  BY <1>1, <1>2, <1>3, <1>4, <1>5, SessionTypes, CallStep

(* A call that has its response waits for no ticket.                       *)
LEMMA Answered ==
  ASSUME Inv, NEW c \in Clients, call[c].at = "learn", UNCHANGED limiter
  PROVE  LimiterSound' /\ Waiting' = Waiting \ {c} /\ c \notin Waiting
<1>1. LimiterSound' /\ Waiting' = Waiting
  BY LimiterRestsInv DEF Inv
<1>2. c \notin Waiting
  BY DEF Inv, TypeOK
<1>3. QED
  BY <1>1, <1>2

LEMMA FailsInv ==
  ASSUME Inv, NEW c \in Clients, Fails(c)
  PROVE  Inv'
<1>1. PICK says : Learns(c, says)
  BY DEF Fails
<1>2. AttemptFails(c) /\ settled' = (settled /\ call[c].aim # "boot") /\ jar' = jar
  BY DEF Fails
<1>3. QED
  BY <1>1, <1>2, LearnFacts, Answered, SessionTypes, AttemptInv

(* A denial ends the call, or its job runs again; the gate is given back.  *)
LEMMA GivesUpInv ==
  ASSUME Inv, NEW c \in Clients, GivesUp(c)
  PROVE  Inv'
<1>1. PICK step \in {"denied", Fresh(c).at} :
        /\ Learns(c, "denied") /\ Leave(c, step)
        /\ gate' = IF gate = c THEN NoOne ELSE gate
        /\ settled' = (settled /\ call[c].aim # "boot") /\ jar' = jar
  BY DEF GivesUp
<1>2. PICK r \in Rec : /\ call' = [call EXCEPT ![c] = r]
                       /\ r.at \in {"denied", "check", "ask"}
                       /\ r.aim = "post" => r.at # "ask"
                       /\ r.aim # "boot" /\ r.says = "none"
  <2> DEFINE q == [Fresh(c) EXCEPT !.at = step]
  <2>1. /\ q \in Rec /\ q.at \in {"denied", "check", "ask"}
        /\ q.aim = "post" => q.at # "ask"
        /\ q.aim # "boot" /\ q.says = "none"
    BY FreshFacts DEF Rec
  <2>2. QED
    BY <1>1, <2>1 DEF Leave
<1>3. CallOf(r)'
  BY <1>2 DEF CallOf
<1>4. GateMoves(c, r)
  BY <1>1, <1>2, SessionTypes DEF GateMoves
<1>5. SettledIsWarm'
  <2>1. call[c].aim # "boot" => gate' = gate
    BY <1>1 DEF Inv, TypeOK
  <2>2. QED
    BY <1>1, <2>1, LearnFacts DEF SettledIsWarm, Inv
<1>6. Saved'
  BY <1>1, <1>2, LearnFacts, SavedStays
<1>7. Waiting' = (Waiting \ {c}) \cup {d \in {c} : r.at = "wait"}
  BY <1>1, <1>2, LearnFacts, Answered
<1>8. QED
  BY <1>1, <1>2, <1>3, <1>4, <1>5, <1>6, <1>7, LearnFacts, Answered, SessionTypes, CallStep

LEMMA RedirectedInv ==
  ASSUME Inv, NEW c \in Clients, Redirected(c)
  PROVE  Inv'
<1>1. /\ Learns(c, "redirect") /\ call[c].hop + 1 < Hops
      /\ UNCHANGED <<jar, gate, settled>>
  BY DEF Redirected
<1>2. call[c].aim = "post"
  BY <1>1, LearnFacts, CallType DEF CallOf
<1>3. PICK r \in Rec : /\ call' = [call EXCEPT ![c] = r]
                       /\ r.at = "ask" /\ r.aim = "post" /\ r.says = "none"
                       /\ r.url = canon
  <2> DEFINE q == [call[c] EXCEPT !.at = "ask", !.url = canon, !.says = "none",
                                  !.hop = call[c].hop + 1]
  <2>1. call[c] \in Rec
    BY CallType
  <2>2. call[c].hop + 1 \in 0 .. Hops
    BY <1>1, <2>1, SessionAssumption DEF Rec
  <2>3. q \in Rec /\ q.at = "ask" /\ q.aim = "post" /\ q.says = "none" /\ q.url = canon
    BY <1>2, <2>1, <2>2, SessionTypes DEF Rec
  <2>4. call' = [call EXCEPT ![c] = q]
    BY <2>1, SessionTypes DEF Redirected, Rec
  <2>5. QED
    BY <2>3, <2>4
<1>4. CallOf(r)'
  BY <1>3, SessionTypes DEF CallOf
<1>5. GateMoves(c, r) /\ SettledIsWarm'
  BY <1>1, <1>2, <1>3, LearnFacts DEF GateMoves, SettledIsWarm, Inv
<1>6. Saved'
  BY <1>1, <1>3, LearnFacts, SavedStays
<1>7. Waiting' = (Waiting \ {c}) \cup {d \in {c} : r.at = "wait"}
  BY <1>1, <1>3, LearnFacts, Answered
<1>8. QED
  BY <1>1, <1>3, <1>4, <1>5, <1>6, <1>7, LearnFacts, Answered, SessionTypes, CallStep

(* The bootstrap hands on a session that has token and scheme.             *)
LEMMA LeaveInv ==
  ASSUME Inv, NEW c \in Clients, Booted(c) \/ Succeeds(c)
  PROVE  Inv'
<1>1. PICK step \in {"token", "done"} :
        /\ Learns(c, "ok") /\ Leave(c, step) /\ UNCHANGED <<jar, settled>>
        /\ \/ call[c].aim = "boot" /\ jar # NoToken /\ gate' = NoOne
           \/ call[c].aim # "boot" /\ gate' = gate
  BY DEF Booted, Succeeds
<1>2. PICK r \in Rec : /\ call' = [call EXCEPT ![c] = r]
                       /\ r.at = step /\ r.aim # "boot" /\ r.says = "none"
  <2> DEFINE q == [Fresh(c) EXCEPT !.at = step]
  <2>1. q \in Rec /\ q.at = step /\ q.aim # "boot" /\ q.says = "none"
    BY FreshFacts DEF Rec
  <2>2. QED
    BY <1>1, <2>1 DEF Leave
<1>3. CallOf(r)'
  BY <1>1, <1>2, LearnFacts DEF CallOf
<1>4. GateMoves(c, r)
  BY <1>1, <1>2, SessionTypes DEF GateMoves
<1>5. SettledIsWarm'
  BY <1>1, LearnFacts DEF SettledIsWarm, Inv
<1>6. Saved'
  BY <1>1, <1>2, LearnFacts, SavedStays
<1>7. Waiting' = (Waiting \ {c}) \cup {d \in {c} : r.at = "wait"}
  BY <1>1, <1>2, LearnFacts, Answered
<1>8. QED
  BY <1>1, <1>2, <1>3, <1>4, <1>5, <1>6, <1>7, LearnFacts, Answered, SessionTypes, CallStep

(* A rejected form forgets the token, its own or another call's: a token   *)
(* that is gone unsettles the session, none to forget changes nothing.     *)
LEMMA RejectedInv ==
  ASSUME Inv, NEW c \in Clients, Rejected(c)
  PROVE  Inv'
<1>1. /\ Learns(c, "wrong_token7") /\ jar' = NoToken
      /\ settled' = (settled /\ jar = NoToken)
  BY DEF Rejected, DropToken
<1>2. call[c].aim = "post"
  BY <1>1, LearnFacts, CallType DEF CallOf
<1>3. CASE jar = NoToken
  <2>1. AttemptFails(c) /\ jar' = jar /\ settled' = (settled /\ call[c].aim # "boot")
    BY <1>1, <1>2, <1>3 DEF Rejected, DropToken, Inv, TypeOK
  <2>2. QED
    BY <1>1, <2>1, LearnFacts, Answered, SessionTypes, AttemptInv
<1>4. CASE jar # NoToken
  <2>1. call' = [call EXCEPT ![c].at = "json"] /\ gate' = gate
    BY <1>4 DEF Rejected, DropToken, Goto
  <2>2. PICK r \in Rec : /\ call' = [call EXCEPT ![c] = r]
                         /\ r.at = "json" /\ r.aim = "post" /\ r.says = call[c].says
                         /\ r.url = call[c].url
    <3> DEFINE q == [call[c] EXCEPT !.at = "json"]
    <3>1. /\ q \in Rec /\ q.at = "json" /\ q.aim = "post" /\ q.says = call[c].says
          /\ q.url = call[c].url
      BY <1>2, CallType DEF Rec
    <3>2. QED
      BY <2>1, <3>1
  <2>3. CallOf(r)'
    BY <1>1, <2>2, LearnFacts, CallType DEF CallOf
  <2>4. GateMoves(c, r) /\ SettledIsWarm'
    BY <1>1, <1>2, <1>4, <2>1, <2>2 DEF GateMoves, SettledIsWarm
  <2>5. Saved'
    BY <1>1, <2>2, LearnFacts, SavedStays
  <2>6. Waiting' = (Waiting \ {c}) \cup {d \in {c} : r.at = "wait"}
    BY <1>1, <2>2, LearnFacts, Answered
  <2>7. settled' => settled
    BY <1>1
  <2>8. QED
    BY <1>1, <2>2, <2>3, <2>4, <2>5, <2>6, <2>7, LearnFacts, Answered, NoTokenType,
       SessionTypes, CallStep
<1>5. QED
  BY <1>3, <1>4

-----------------------------------------------------------------------------
(* Mishaps and the limiter's own steps.                                    *)

LEMMA NoResponseInv ==
  ASSUME Inv, NEW c \in Clients, NoResponse(c)
  PROVE  Inv'
<1>1. /\ Mishap /\ Grant(c) /\ AttemptFails(c)
      /\ settled' = (settled /\ call[c].aim # "boot")
      /\ UNCHANGED <<upstream, jar, scheme, disk, torn>>
  BY DEF NoResponse
<1>2. LimiterSound' /\ c \in Waiting /\ Waiting' = Waiting \ {c}
  BY <1>1, GrantInv DEF Inv
<1>3. call[c].at = "wait"
  BY <1>2 DEF Inv, TypeOK
<1>4. mishaps' \in mishaps .. MaxMishaps
  BY <1>1, SessionAssumption DEF Mishap, Inv, TypeOK
<1>5. QED
  BY <1>1, <1>2, <1>3, <1>4, AttemptInv

(* The site rotates its token or moves, or the limiter goes on.            *)
LEMMA OthersInv ==
  ASSUME Inv, Rotate \/ Move \/ TaskRuns
  PROVE  Inv'
<1>1. /\ LimiterSound' /\ Waiting' = Waiting
      /\ UNCHANGED <<jar, scheme, gate, disk, call, settled, torn>>
  <2>1. CASE Rotate \/ Move
    <3>1. UNCHANGED <<limiter, jar, scheme, gate, disk, call, settled, torn>>
      BY <2>1 DEF Rotate, Move, session, history
    <3>2. QED
      BY <3>1, LimiterRestsInv DEF Inv
  <2>2. CASE TaskRuns
    <3>1. LimiterRuns /\ UNCHANGED <<jar, scheme, gate, disk, call, settled, torn>>
      BY <2>2 DEF TaskRuns, session, history
    <3>2. QED
      BY <3>1, ReceiveInv, ElapseInv DEF LimiterRuns, Inv
  <2>3. QED
    BY <2>1, <2>2
<1>2. /\ mishaps' \in 0 .. MaxMishaps /\ valid' <= mishaps' + 1
      /\ valid' \in Token /\ valid' # NoToken /\ canon' \in Schemes
  <2>1. /\ mishaps \in 0 .. MaxMishaps /\ valid <= mishaps + 1 /\ MaxMishaps \in Nat
        /\ valid \in Nat /\ valid # 0 /\ canon \in Schemes
    BY SessionTypes, SessionAssumption DEF Inv, TypeOK, Token, NoToken
  <2>2. CASE Rotate
    <3>1. /\ valid' = valid + 1 /\ mishaps' = mishaps + 1 /\ mishaps < MaxMishaps
          /\ canon' = canon
      BY <2>2 DEF Rotate, Mishap
    <3>2. valid' \in 0 .. MaxMishaps + 1 /\ valid' # 0
      BY <2>1, <3>1
    <3>3. QED
      BY <2>1, <3>1, <3>2 DEF Token, NoToken
  <2>3. CASE Move
    <3>1. /\ valid' = valid /\ mishaps' = mishaps + 1 /\ mishaps < MaxMishaps
          /\ canon' \in Schemes
      BY <2>3 DEF Move, Mishap
    <3>2. QED
      BY <2>1, <3>1, SessionTypes
  <2>4. CASE TaskRuns
    BY <2>1, <2>4, SessionTypes DEF TaskRuns, upstream
  <2>5. QED
    BY <2>2, <2>3, <2>4
<1>3. TypeOK'
  BY <1>1, <1>2 DEF Inv, TypeOK, LimiterSound
<1>4. QED
  BY <1>1, <1>2, <1>3
  DEF Inv, Calls, CallOf, SettledIsWarm, OneBootstrapPerLoss, Saved

(* A new daemon has the jar that was saved and knows nothing else.         *)
LEMMA RestartInv ==
  ASSUME Inv, Restart
  PROVE  Inv'
<1>1. /\ Mishap
      /\ channel' = {} /\ queue' = {} /\ older' = {} /\ cooling' = FALSE
      /\ overtaken' = [c \in Clients |-> 0]
      /\ jar' = disk /\ scheme' = Unlearned /\ gate' = NoOne /\ disk' = disk
      /\ call' = [c \in Clients |-> IF call[c].at \in Ended THEN call[c] ELSE Fresh(c)]
      /\ settled' = FALSE /\ torn' = FALSE /\ valid' = valid /\ canon' = canon
  BY DEF Restart, upstream
<1>2. LimiterSound' /\ Waiting' = {}
  <2>1. /\ Waiting' = {} /\ overtaken' \in [Clients -> Nat]
        /\ \A c \in Clients : overtaken'[c] = 0
    BY <1>1 DEF Waiting
  <2>2. LimiterTypeOK'
    BY <1>1, <2>1 DEF LimiterTypeOK
  <2>3. QED
    BY <1>1, <2>1, <2>2 DEF LimiterSound, OvertakenOnce
<1>3. ASSUME NEW c \in Clients
      PROVE  /\ call'[c] \in Rec
             /\ call'[c].aim \in {"post", "page"}
             /\ call'[c].at \in {"check", "ask"} \cup Ended
             /\ call'[c].aim = "post" => call'[c].at \in {"check"} \cup Ended
             /\ CallOf(call[c])'
  <2>1. CASE call[c].at \in Ended
    <3>1. call'[c] = call[c] /\ call[c].aim # "boot"
      BY <1>1, <2>1, CallType DEF CallOf, Ended
    <3>2. QED
      BY <2>1, <3>1, CallType DEF CallOf, Rec, Ended
  <2>2. CASE call[c].at \notin Ended
    <3>1. call'[c] = Fresh(c)
      BY <1>1, <2>2
    <3>2. QED
      BY <3>1, FreshFacts DEF CallOf
  <2>3. QED
    BY <2>1, <2>2
<1>4. mishaps' \in 0 .. MaxMishaps /\ valid <= mishaps' + 1
  <2>1. /\ mishaps \in 0 .. MaxMishaps /\ valid <= mishaps + 1 /\ MaxMishaps \in Nat
        /\ valid \in Nat /\ mishaps' = mishaps + 1 /\ mishaps < MaxMishaps
    BY <1>1, SessionTypes, SessionAssumption DEF Inv, TypeOK, Token, Mishap
  <2>2. QED
    BY <2>1
<1>5. TypeOK'
  <2>1. call' \in [Clients -> Rec]
    BY <1>1, <1>3
  <2>2. NoOne \notin Clients /\ \A c \in Clients : call'[c].aim # "boot" /\ call'[c].at # "wait"
    BY <1>3, SessionAssumption DEF Ended
  <2>3. QED
    BY <1>1, <1>2, <1>4, <2>1, <2>2, SessionTypes DEF TypeOK, Rec, Ended, LimiterSound
<1>6. Calls' /\ SettledIsWarm' /\ OneBootstrapPerLoss'
  BY <1>1, <1>3 DEF Calls, SettledIsWarm, OneBootstrapPerLoss
<1>7. Saved'
  <2>1. \A c \in Clients : call'[c].at # "save"
    BY <1>3 DEF Ended
  <2>2. QED
    BY <1>1, <2>1 DEF Saved
<1>8. QED
  BY <1>1, <1>2, <1>4, <1>5, <1>6, <1>7 DEF Inv

-----------------------------------------------------------------------------
(* The theorems.                                                           *)

LEMMA InitInv == Init => Inv
<1> SUFFICES ASSUME Init
             PROVE  Inv
  OBVIOUS
<1>1. /\ LimiterInit /\ valid = 1 /\ canon = (CHOOSE s \in Schemes : TRUE)
      /\ jar = NoToken /\ disk = NoToken /\ scheme = Unlearned /\ gate = NoOne
      /\ call = [c \in Clients |-> Fresh(c)]
      /\ mishaps = 0 /\ settled = FALSE /\ torn = FALSE
  BY DEF Init
<1>2. LimiterSound /\ Waiting = {}
  BY <1>1, LimiterInitInv
<1>3. canon \in Schemes
  BY <1>1, SessionAssumption
<1>4. valid \in Token /\ valid # NoToken /\ mishaps \in 0 .. MaxMishaps /\ valid <= mishaps + 1
  BY <1>1, SessionAssumption DEF Token, NoToken
<1>5. /\ call \in [Clients -> Rec]
      /\ \A c \in Clients : call[c] = Fresh(c) /\ call[c].aim # "boot" /\ call[c].at # "wait"
  BY <1>1, FreshFacts
<1>6. TypeOK
  BY <1>1, <1>2, <1>3, <1>4, <1>5, NoTokenType, SessionAssumption
  DEF TypeOK, Rec, Ended, LimiterSound
<1>7. Calls
  BY <1>5, FreshFacts DEF Calls, CallOf
<1>8. SettledIsWarm /\ OneBootstrapPerLoss /\ Saved
  BY <1>1, <1>5, FreshFacts DEF SettledIsWarm, OneBootstrapPerLoss, Saved
<1>9. QED
  BY <1>2, <1>4, <1>6, <1>7, <1>8 DEF Inv

LEMMA StepInv == Inv /\ [Next]_vars => Inv'
<1> SUFFICES ASSUME Inv, [Next]_vars
             PROVE  Inv'
  OBVIOUS
<1>1. CASE UNCHANGED vars
  <2>1. /\ UNCHANGED limiter
        /\ UNCHANGED <<valid, canon, jar, disk, scheme, gate, call, mishaps, settled, torn>>
    BY <1>1 DEF vars, upstream, session, history
  <2>2. LimiterSound' /\ Waiting' = Waiting
    BY <2>1, LimiterRestsInv DEF Inv
  <2>3. TypeOK'
    BY <2>1, <2>2 DEF Inv, TypeOK, LimiterSound
  <2>4. QED
    BY <2>1, <2>2, <2>3
    DEF Inv, Calls, CallOf, SettledIsWarm, OneBootstrapPerLoss, Saved
<1>2. ASSUME NEW c \in Clients, CallGoesOn(c)
      PROVE  Inv'
  BY <1>2, CheckInv, EnterGateInv, ReadTokenInv, AskInv, AbsorbInv, SerialiseInv, SaveInv,
     FailsInv, GivesUpInv, RedirectedInv, LeaveInv, RejectedInv
  DEF CallGoesOn
<1>3. ASSUME NEW c \in Clients, Send(c)
      PROVE  Inv'
  <2>1. PICK sets \in Sets(c) : Responds(c, sets, Says(c))
    BY <1>3 DEF Send
  <2>2. /\ Grant(c) /\ settled' = (settled \/ call[c].aim = "boot")
        /\ UNCHANGED <<upstream, session, disk, mishaps, torn>>
    BY <1>3 DEF Send
  <2>3. QED
    BY <2>1, <2>2, SendInv, SessionTypes
<1>4. ASSUME NEW c \in Clients, Refused(c)
      PROVE  Inv'
  <2>1. PICK says \in {"refused", "denied"} : Responds(c, NoToken, says)
    BY <1>4 DEF Refused
  <2>2. /\ Mishap /\ Grant(c)
        /\ UNCHANGED <<upstream, session, disk, settled, torn>>
    BY <1>4 DEF Refused, history
  <2>3. mishaps' \in mishaps .. MaxMishaps
    BY <2>2, SessionAssumption DEF Mishap, Inv, TypeOK
  <2>4. settled' = settled /\ UNCHANGED <<upstream, session, disk, torn>>
    BY <2>2
  <2>5. QED
    BY <2>1, <2>2, <2>3, <2>4, SendInv
<1>5. ASSUME NEW c \in Clients, NoResponse(c) \/ SaveFails(c)
      PROVE  Inv'
  BY <1>5, NoResponseInv, SaveInv
<1>6. QED
  BY <1>1, <1>2, <1>3, <1>4, <1>5, OthersInv, RestartInv DEF Next, Granting

THEOREM Invariance == Spec => []Inv
BY InitInv, StepInv, PTL DEF Spec

(* The type invariant, limiter and gate included: who waits for a ticket   *)
(* is in the limiter, and the gate's holder is at its bootstrap.           *)
THEOREM TypeCorrect == Spec => []TypeOK
<1>1. Inv => TypeOK
  BY DEF Inv
<1>2. QED
  BY <1>1, Invariance, PTL

(* Nobody is overtaken twice, in whichever order the limiter's task polls. *)
THEOREM OvertakenAtMostOnce == Spec => []OvertakenOnce
<1>1. Inv => OvertakenOnce
  BY DEF Inv, LimiterSound
<1>2. QED
  BY <1>1, Invariance, PTL

(* Cold callers share one bootstrap.                                       *)
THEOREM BootstrapIsShared == Spec => []OneBootstrapPerLoss
<1>1. Inv => OneBootstrapPerLoss
  BY DEF Inv
<1>2. QED
  BY <1>1, Invariance, PTL

(* The saved jar is the jar in memory once the saves are over, unless they *)
(* overlapped or failed.                                                   *)
THEOREM JarIsSaved == Spec => []SavedUnlessTorn
<1>1. Inv => SavedUnlessTorn
  BY DEF Inv, Saved, SavedUnlessTorn
<1>2. QED
  BY <1>1, Invariance, PTL

(* No form goes to a scheme the site has not answered on.                  *)
THEOREM FormsKnowTheScheme == Spec => []PostsKnowTheScheme
<1>1. Inv => PostsKnowTheScheme
  BY SessionAssumption DEF Inv, Calls, CallOf, PostsKnowTheScheme
<1>2. QED
  BY <1>1, Invariance, PTL

=============================================================================
