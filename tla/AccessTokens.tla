---------------------------- MODULE AccessTokens ----------------------------
(***************************************************************************)
(* Access tokens (JWTs) and their blacklist in Redis: AuthFilter in front  *)
(* of every protected endpoint, and the Redis part of logout.              *)
(*                                                                         *)
(* AuthFilter verifies the token, sends GET blacklist:jti:<jti> and        *)
(* returns; the reply's callback refuses the request or starts the         *)
(* handler.  logout sends SETEX with the seconds the token has left,       *)
(* makes its database calls while Redis works, and is answered by the      *)
(* callback of SETEX - or by its own catch block, or by both.              *)
(*                                                                         *)
(* The clock is in seconds and is the same for the server and Redis.       *)
(* MaxTime bounds it and the expiry dates.  A request slot takes one       *)
(* request after the other.                                                *)
(***************************************************************************)
EXTENDS SurrealCalls, Naturals

CONSTANTS Requests,   \* slots for requests in flight
          Jtis,       \* the access tokens, by their jti claim
          MaxTime,
          RedisFails, \* may a Redis command end in its error callback?
          Null

ASSUME MaxTimeAssumption == MaxTime \in Nat

ASSUME RedisFailsAssumption == RedisFails \in BOOLEAN

ASSUME NullAssumption == Null \notin Jtis

VARIABLES
    now,      \* std::time, and Redis' clock
    expiry,   \* the exp claim of each token
    key,      \* blacklist:jti:<jti> exists in Redis until key[jti]
    request,  \* the request in each slot
    ended,    \* history: tokens whose logout was answered with 204
    late      \* history: slots whose request came with such a token

vars == <<now, expiry, key, request, ended, late>>

\* cmd is the state of logout's SETEX, ttl its argument.  answers counts calls
\* of the response callback; seen is history: when Redis looked the key up.
NoRequest == [pc |-> "idle", jti |-> Null, ttl |-> 0, cmd |-> "none",
              answers |-> 0, seen |-> 0]

At(r, pc) == request[r].pc = pc

Update(r, rec) == request' = [request EXCEPT ![r] = rec]

\* jwt::verify_hs256 refuses a token only if exp < now.
Unexpired(j) == expiry[j] >= now

\* Redis drops a key when its time to live has passed.
Blacklisted(j) == now < key[j]

-----------------------------------------------------------------------------
(* AuthFilter::doFilter.                                                   *)

Arrive(r, j) ==
    /\ At(r, "idle")
    /\ Unexpired(j)
    /\ Update(r, [NoRequest EXCEPT !.pc = "filter.get", !.jti = j])
    /\ late' = IF j \in ended THEN late \cup {r} ELSE late \ {r}
    /\ UNCHANGED <<now, expiry, key, ended>>

\* Redis executes the GET; its reply is on the way.
RedisGet(r) ==
    /\ At(r, "filter.get")
    /\ Update(r, [request[r] EXCEPT !.seen = now,
                     !.pc = IF Blacklisted(request[r].jti) THEN "filter.hit"
                            ELSE "filter.nil"])
    /\ UNCHANGED <<now, expiry, key, ended, late>>

\* The error callback: 500.
RedisGetFails(r) ==
    /\ RedisFails
    /\ At(r, "filter.get")
    /\ Update(r, [request[r] EXCEPT !.pc = "idle", !.answers = @ + 1])
    /\ UNCHANGED <<now, expiry, key, ended, late>>

\* Mutant: the reply's type is not looked at.
FilterReplyAny(r) ==
    /\ request[r].pc \in {"filter.hit", "filter.nil"}
    /\ Update(r, [request[r] EXCEPT !.pc = "accepted"])
    /\ UNCHANGED <<now, expiry, key, ended, late>>

\* The callback of GET: 401 if the key exists, else on to the handler.
FilterReply(r) ==
    /\ \/ /\ At(r, "filter.hit")
          /\ Update(r, [request[r] EXCEPT !.pc = "idle", !.answers = @ + 1])
       \/ /\ At(r, "filter.nil")
          /\ Update(r, [request[r] EXCEPT !.pc = "accepted"])
    /\ UNCHANGED <<now, expiry, key, ended, late>>

\* Any other protected endpoint answers once.
OtherHandler(r) ==
    /\ At(r, "accepted")
    /\ Update(r, [request[r] EXCEPT !.pc = "idle", !.answers = @ + 1])
    /\ UNCHANGED <<now, expiry, key, ended, late>>

-----------------------------------------------------------------------------
(* logout.                                                                 *)

\* Mutant: one second short.
TimeToLiveShort(j) == IF expiry[j] > now THEN expiry[j] - now - 1 ELSE 0

TimeToLive(j) == IF expiry[j] > now THEN expiry[j] - now ELSE 0

\* ttl is computed and SETEX is sent; its callbacks come when they come.
LogoutStart(r) ==
    /\ At(r, "accepted")
    /\ Update(r, [request[r] EXCEPT !.pc = "logout.db", !.cmd = "sent",
                     !.ttl = TimeToLive(request[r].jti)])
    /\ UNCHANGED <<now, expiry, key, ended, late>>

\* The slot is free when both the handler and the command's callback are done.
Finished(rec) == IF rec.pc = "logout.done" /\ rec.cmd = "none"
                 THEN [rec EXCEPT !.pc = "idle"]
                 ELSE rec

\* The database calls of AuthSessions: the catch block answers with 500, the
\* normal return does not answer at all.
LogoutDatabase(r) ==
    /\ At(r, "logout.db")
    /\ \E o \in Outcomes :
          Update(r, Finished([request[r] EXCEPT !.pc = "logout.done",
                        !.answers = IF Throws(o) THEN @ + 1 ELSE @]))
    /\ UNCHANGED <<now, expiry, key, ended, late>>

\* Redis executes the SETEX; a time to live of 0 is an error there.
RedisSetex(r) ==
    /\ request[r].cmd = "sent"
    /\ \/ /\ request[r].ttl > 0
          /\ key' = [key EXCEPT ![request[r].jti] = now + request[r].ttl]
          /\ Update(r, [request[r] EXCEPT !.cmd = "ok"])
       \/ /\ request[r].ttl = 0
          /\ key' = key
          /\ Update(r, [request[r] EXCEPT !.cmd = "failed"])
    /\ UNCHANGED <<now, expiry, ended, late>>

\* The connection breaks before or after the command is executed.
RedisSetexFails(r) ==
    /\ RedisFails
    /\ request[r].cmd \in {"sent", "ok"}
    /\ Update(r, [request[r] EXCEPT !.cmd = "failed"])
    /\ UNCHANGED <<now, expiry, key, ended, late>>

\* Mutant: the error callback is missing.
LogoutReplyIfOk(r) ==
    /\ request[r].cmd \in {"ok", "failed"}
    /\ Update(r, Finished([request[r] EXCEPT !.cmd = "none",
                     !.answers = IF request[r].cmd = "ok" THEN @ + 1 ELSE @]))
    /\ ended' = IF request[r].cmd = "ok" THEN ended \cup {request[r].jti} ELSE ended
    /\ UNCHANGED <<now, expiry, key, late>>

\* The callbacks of SETEX: 204 or 500.
LogoutReply(r) ==
    /\ request[r].cmd \in {"ok", "failed"}
    /\ Update(r, Finished([request[r] EXCEPT !.cmd = "none", !.answers = @ + 1]))
    /\ ended' = IF request[r].cmd = "ok" THEN ended \cup {request[r].jti} ELSE ended
    /\ UNCHANGED <<now, expiry, key, late>>

-----------------------------------------------------------------------------
Tick ==
    /\ now < MaxTime
    /\ now' = now + 1
    /\ UNCHANGED <<expiry, key, request, ended, late>>

Init ==
    /\ now = 0
    /\ expiry \in [Jtis -> 0..MaxTime]
    /\ key = [j \in Jtis |-> 0]
    /\ request = [r \in Requests |-> NoRequest]
    /\ ended = {}
    /\ late = {}

Redis(r) == RedisGet(r) \/ RedisSetex(r)

Handle(r) == \/ FilterReply(r) \/ OtherHandler(r) \/ LogoutStart(r)
             \/ LogoutDatabase(r)

Next ==
    \/ \E r \in Requests, j \in Jtis : Arrive(r, j)
    \/ \E r \in Requests : \/ Redis(r) \/ Handle(r) \/ LogoutReply(r)
                           \/ RedisGetFails(r) \/ RedisSetexFails(r)
    \/ Tick

Spec == Init /\ [][Next]_vars

\* Redis executes what it is sent or the client reports an error, event loops
\* run the callbacks, and a database call returns or throws.  Time need not
\* pass, and clients need not send requests.
Fairness ==
    \A r \in Requests :
        /\ WF_vars(Redis(r) \/ RedisGetFails(r) \/ RedisSetexFails(r))
        /\ WF_vars(Handle(r))
        /\ WF_vars(LogoutReply(r))

FairSpec == Spec /\ Fairness

-----------------------------------------------------------------------------
(* Properties.                                                             *)

RequestRecords ==
    [pc : {"idle", "filter.get", "filter.hit", "filter.nil", "accepted",
           "logout.db", "logout.done"},
     jti : Jtis \cup {Null}, ttl : 0..MaxTime,
     cmd : {"none", "sent", "ok", "failed"},
     answers : 0..2, seen : 0..MaxTime]

\* Types.  A request's callback is never called a third time, a time to live
\* is never more than a token's lifetime, and a key is gone a lifetime after
\* the clock stops.
TypeOK ==
    /\ now \in 0..MaxTime
    /\ expiry \in [Jtis -> 0..MaxTime]
    /\ key \in [Jtis -> 0..(2 * MaxTime)]
    /\ request \in [Requests -> RequestRecords]
    /\ ended \subseteq Jtis
    /\ late \subseteq Requests

\* The 204 of logout means something: until the token expires it stays on the
\* blacklist, however long SETEX took to reach Redis and although a second
\* logout of the token sets the key again with a shorter time to live.
BlacklistOutlivesToken ==
    \A j \in ended : now < expiry[j] => Blacklisted(j)

\* A request that arrives after that 204 is let through only if Redis looked
\* the key up when the token's last second had begun.
LoggedOutRefused ==
    \A r \in late :
        request[r].pc \in {"accepted", "logout.db", "logout.done"}
            => request[r].seen >= expiry[request[r].jti]

\* Every request is answered, although logout's handler itself returns without
\* an answer, and whichever of Redis and the database fails.
EveryRequestAnswered ==
    \A r \in Requests : request[r].pc # "idle" ~> request[r].answers > 0

=============================================================================
