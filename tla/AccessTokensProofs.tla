------------------------- MODULE AccessTokensProofs -------------------------
(***************************************************************************)
(* The blacklist of AccessTokens, proved for every number of requests and  *)
(* tokens and every MaxTime.  The argument: a SETEX on its way carries a   *)
(* time to live that was enough when it was computed, and time only adds   *)
(* to the deadline it will set; so every deadline ever set, by the first   *)
(* logout of a token or by a later one, covers the token's lifetime.       *)
(***************************************************************************)
EXTENDS AccessTokens, TLAPS

FilterPCs == {"filter.get", "filter.hit", "filter.nil"}

HandlerPCs == {"accepted", "logout.db", "logout.done"}

\* How many answers a request has had, by how far it has come.
Answers(rec) ==
    /\ rec.pc \in FilterPCs \cup {"accepted"} => rec.answers = 0 /\ rec.cmd = "none"
    /\ rec.pc = "logout.db" => rec.answers <= (IF rec.cmd = "none" THEN 1 ELSE 0)
    /\ rec.pc = "logout.done" => rec.answers <= (IF rec.cmd = "none" THEN 2 ELSE 1)
    /\ rec.pc = "idle" => rec.cmd = "none"

\* What a request knows of the blacklist: its own SETEX, sent or executed, and
\* the lookup it was let through on.
Covered(r, rec, j) ==
    /\ rec.cmd = "sent" => rec.ttl = 0 \/ now + rec.ttl >= expiry[j]
    /\ rec.cmd = "ok" => key[j] >= expiry[j]
    /\ r \in late => j \in ended
    /\ r \in late /\ rec.pc \in {"filter.nil"} \cup HandlerPCs
          => rec.seen >= expiry[j]

RequestInv(r) ==
    /\ request[r].pc # "idle" => request[r].jti \in Jtis
    /\ Answers(request[r])
    /\ request[r].pc # "idle" => Covered(r, request[r], request[r].jti)

KeysInv == \A j \in Jtis : /\ key[j] = 0 \/ key[j] >= expiry[j]
                           /\ j \in ended => key[j] >= expiry[j]

IInv == TypeOK /\ KeysInv /\ \A r \in Requests : RequestInv(r)

-----------------------------------------------------------------------------
(* A step of one request, seen from the others: time passes, keys are set  *)
(* far enough ahead, tokens are logged out.                                *)

Forward == /\ now' >= now /\ expiry' = expiry /\ ended \subseteq ended'
           /\ \A j \in Jtis : key'[j] = key[j] \/ key'[j] >= expiry[j]

Same(k) == request'[k] = request[k] /\ (k \in late' <=> k \in late)

LEMMA OthersKeep ==
    ASSUME TypeOK, TypeOK', Forward, NEW k \in Requests, RequestInv(k),
           Same(k)
    PROVE  RequestInv(k)'
<1>1. /\ now \in Nat /\ now' \in Nat /\ now' >= now /\ request[k].ttl \in Nat
      /\ expiry \in [Jtis -> Nat] /\ expiry' = expiry
      /\ key \in [Jtis -> Nat] /\ key' \in [Jtis -> Nat]
  BY MaxTimeAssumption DEF TypeOK, RequestRecords, Forward
<1>2. QED
  BY <1>1 DEF Same, RequestInv, Answers, Covered, Forward

\* What an action has to show for its own request.
LEMMA RequestStep ==
    ASSUME NEW r \in Requests, IInv, TypeOK', KeysInv', Forward, RequestInv(r)',
           \A k \in Requests \ {r} : Same(k)
    PROVE  IInv'
<1>1. ASSUME NEW k \in Requests \ {r}
      PROVE  RequestInv(k)'
  BY <1>1, OthersKeep DEF IInv
<1>2. QED
  BY <1>1 DEF IInv

\* Actions of a request that touch neither clock nor Redis nor history.
LEMMA LocalStep ==
    ASSUME NEW r \in Requests, NEW rec \in RequestRecords, IInv, Update(r, rec),
           UNCHANGED <<now, expiry, key, ended, late>>,
           /\ rec.pc # "idle" => rec.jti \in Jtis
           /\ Answers(rec)
           /\ rec.pc # "idle" => Covered(r, rec, rec.jti)
    PROVE  IInv'
<1>1. /\ request'[r] = rec /\ \A k \in Requests \ {r} : Same(k)
      /\ request' \in [Requests -> RequestRecords]
  BY DEF Same, Update, IInv, TypeOK
<1>2. TypeOK' /\ KeysInv' /\ Forward
  <2>1. now \in Nat
    BY MaxTimeAssumption DEF IInv, TypeOK
  <2>2. QED
    BY <1>1, <2>1 DEF IInv, TypeOK, KeysInv, Forward
<1>3. RequestInv(r)'
  BY <1>1 DEF RequestInv, Answers, Covered
<1>4. QED
  BY <1>1, <1>2, <1>3, RequestStep

LEMMA Types ==
    ASSUME IInv, NEW r \in Requests
    PROVE  /\ request[r] \in RequestRecords /\ RequestInv(r)
           /\ now \in Nat /\ MaxTime \in Nat /\ now <= MaxTime
           /\ request[r].ttl \in Nat
           /\ expiry \in [Jtis -> Nat] /\ key \in [Jtis -> Nat]
           /\ \A j \in Jtis : expiry[j] <= MaxTime
BY MaxTimeAssumption DEF IInv, TypeOK, RequestRecords

LEMMA ArriveInv ==
    ASSUME NEW r \in Requests, NEW j \in Jtis, IInv, Arrive(r, j)
    PROVE  IInv'
<1> DEFINE rec == [NoRequest EXCEPT !.pc = "filter.get", !.jti = j]
<1>1. /\ rec \in RequestRecords /\ rec.pc = "filter.get" /\ rec.jti = j
      /\ rec.cmd = "none" /\ rec.answers = 0
  <2>1. 0 \in 0..MaxTime /\ 0 \in 0..2
    BY MaxTimeAssumption
  <2>2. QED
    BY <2>1 DEF NoRequest, RequestRecords
<1>2. /\ request'[r] = rec /\ \A k \in Requests \ {r} : Same(k)
      /\ request' \in [Requests -> RequestRecords]
      /\ UNCHANGED <<now, expiry, key, ended>>
      /\ late' \subseteq Requests
      /\ r \in late' => j \in ended
  BY <1>1 DEF Same, Arrive, Update, IInv, TypeOK
<1>3. TypeOK' /\ KeysInv' /\ Forward
  <2>1. now \in Nat
    BY Types
  <2>2. QED
    BY <1>2, <2>1 DEF IInv, TypeOK, KeysInv, Forward
<1>4. RequestInv(r)'
  <2> HIDE DEF rec
  <2>1. QED
    BY <1>1, <1>2 DEF RequestInv, Answers, Covered, FilterPCs, HandlerPCs
<1>5. QED
  BY <1>2, <1>3, <1>4, RequestStep

\* The lookup: a token that is logged out is found, or has expired.
LEMMA RedisGetInv ==
    ASSUME NEW r \in Requests, IInv, RedisGet(r)
    PROVE  IInv'
<1> DEFINE pc == IF Blacklisted(request[r].jti) THEN "filter.hit" ELSE "filter.nil"
           rec == [request[r] EXCEPT !.seen = now, !.pc = pc]
<1>1. request[r].pc = "filter.get" /\ request[r].jti \in Jtis
  BY Types DEF RedisGet, At, RequestInv
<1>2. pc \in {"filter.hit", "filter.nil"}
  OBVIOUS
<1>3. /\ rec \in RequestRecords /\ rec.pc = pc /\ rec.seen = now
      /\ rec.jti = request[r].jti /\ rec.cmd = request[r].cmd
      /\ rec.answers = request[r].answers
  <2> HIDE DEF pc
  <2>1. request[r] \in RequestRecords /\ now \in 0..MaxTime
    BY DEF IInv, TypeOK
  <2>2. QED
    BY <1>2, <2>1 DEF RequestRecords
<1>4. pc = "filter.nil" /\ r \in late => now >= expiry[request[r].jti]
  BY <1>1, Types DEF Blacklisted, IInv, KeysInv, RequestInv, Covered
<1>5. Answers(rec)
  <2> HIDE DEF rec, pc
  <2>1. QED
    BY <1>1, <1>2, <1>3, Types DEF RequestInv, Answers, FilterPCs
<1>6. Covered(r, rec, rec.jti)
  <2> HIDE DEF rec, pc
  <2>1. QED
    BY <1>1, <1>2, <1>3, <1>4, Types
       DEF RequestInv, Answers, Covered, FilterPCs, HandlerPCs
<1>7. QED
  BY <1>1, <1>3, <1>5, <1>6, LocalStep DEF RedisGet

\* A request that is answered and forgotten.
LEMMA AnswerInv ==
    ASSUME NEW r \in Requests, IInv, request[r].cmd = "none", request[r].answers = 0,
           Update(r, [request[r] EXCEPT !.pc = "idle", !.answers = @ + 1]),
           UNCHANGED <<now, expiry, key, ended, late>>
    PROVE  IInv'
<1> DEFINE rec == [request[r] EXCEPT !.pc = "idle", !.answers = @ + 1]
<1>1. rec = [request[r] EXCEPT !.pc = "idle", !.answers = 1]
  BY Types DEF RequestRecords
<1>2. rec \in RequestRecords /\ rec.pc = "idle" /\ rec.cmd = "none"
  <2>1. request[r] \in RequestRecords /\ 1 \in 0..2
    BY Types
  <2> HIDE DEF rec
  <2>2. QED
    BY <1>1, <2>1 DEF RequestRecords
<1>3. Answers(rec)
  BY <1>2 DEF Answers, FilterPCs
<1>4. QED
  BY <1>2, <1>3, LocalStep

LEMMA RedisGetFailsInv ==
    ASSUME NEW r \in Requests, IInv, RedisGetFails(r)
    PROVE  IInv'
BY Types, AnswerInv DEF RedisGetFails, At, RequestInv, Answers, FilterPCs

LEMMA OtherHandlerInv ==
    ASSUME NEW r \in Requests, IInv, OtherHandler(r)
    PROVE  IInv'
BY Types, AnswerInv DEF OtherHandler, At, RequestInv, Answers

LEMMA FilterReplyInv ==
    ASSUME NEW r \in Requests, IInv, FilterReply(r)
    PROVE  IInv'
<1>1. CASE At(r, "filter.hit")
  BY <1>1, Types, AnswerInv DEF FilterReply, At, RequestInv, Answers, FilterPCs
<1>2. CASE At(r, "filter.nil")
  <2> DEFINE rec == [request[r] EXCEPT !.pc = "accepted"]
  <2>1. /\ rec \in RequestRecords /\ rec.pc = "accepted"
        /\ rec.jti = request[r].jti /\ rec.cmd = request[r].cmd
        /\ rec.answers = request[r].answers
        /\ rec.seen = request[r].seen
    BY Types DEF RequestRecords
  <2>2. Answers(rec) /\ Covered(r, rec, rec.jti) /\ rec.jti \in Jtis
    <3> HIDE DEF rec
    <3>1. QED
      BY <1>2, <2>1, Types DEF At, RequestInv, Answers, Covered, FilterPCs, HandlerPCs
  <2>3. Update(r, rec) /\ UNCHANGED <<now, expiry, key, ended, late>>
    BY <1>2 DEF FilterReply, At
  <2>4. QED
    BY <2>1, <2>2, <2>3, LocalStep
<1>3. QED
  BY <1>1, <1>2 DEF FilterReply

-----------------------------------------------------------------------------
(* logout.                                                                 *)

LEMMA LogoutStartInv ==
    ASSUME NEW r \in Requests, IInv, LogoutStart(r)
    PROVE  IInv'
<1> DEFINE ttl == TimeToLive(request[r].jti)
           rec == [request[r] EXCEPT !.pc = "logout.db", !.cmd = "sent", !.ttl = ttl]
<1>1. /\ request[r].pc = "accepted" /\ request[r].jti \in Jtis
      /\ request[r] \in RequestRecords
  BY Types DEF LogoutStart, At, RequestInv
<1>2. ttl \in 0..MaxTime /\ (ttl = 0 \/ now + ttl >= expiry[request[r].jti])
  BY <1>1, Types DEF TimeToLive
<1>3. /\ rec \in RequestRecords /\ rec.pc = "logout.db" /\ rec.cmd = "sent"
      /\ rec.ttl = ttl /\ rec.jti = request[r].jti
      /\ rec.answers = request[r].answers /\ rec.seen = request[r].seen
  <2> HIDE DEF ttl
  <2>1. QED
    BY <1>1, <1>2 DEF RequestRecords
<1>4. Answers(rec) /\ Covered(r, rec, rec.jti)
  <2> HIDE DEF rec, ttl
  <2>1. QED
    BY <1>1, <1>2, <1>3, Types
       DEF RequestInv, Answers, Covered, FilterPCs, HandlerPCs
<1>5. QED
  BY <1>1, <1>3, <1>4, LocalStep DEF LogoutStart

\* A request whose handler and command are done is over; otherwise it stays.
LEMMA FinishedKeeps ==
    ASSUME NEW r, NEW rec \in RequestRecords, rec.jti \in Jtis,
           Answers(rec), Covered(r, rec, rec.jti)
    PROVE  /\ Finished(rec) \in RequestRecords
           /\ Finished(rec).pc # "idle" => Finished(rec) = rec
           /\ Answers(Finished(rec))
<1>1. CASE rec.pc = "logout.done" /\ rec.cmd = "none"
  <2>1. /\ Finished(rec) = [rec EXCEPT !.pc = "idle"]
        /\ Finished(rec) \in RequestRecords
        /\ Finished(rec).pc = "idle" /\ Finished(rec).cmd = "none"
    BY <1>1 DEF Finished, RequestRecords
  <2>2. QED
    BY <2>1 DEF Answers, FilterPCs
<1>2. CASE ~(rec.pc = "logout.done" /\ rec.cmd = "none")
  BY <1>2 DEF Finished
<1>3. QED
  BY <1>1, <1>2

LEMMA FinishStep ==
    ASSUME NEW r \in Requests, NEW rec \in RequestRecords, IInv,
           Update(r, Finished(rec)), UNCHANGED <<now, expiry, key, ended, late>>,
           rec.jti \in Jtis, Answers(rec), Covered(r, rec, rec.jti)
    PROVE  IInv'
<1> DEFINE end == Finished(rec)
<1>1. /\ end \in RequestRecords /\ Answers(end)
      /\ end.pc # "idle" => end = rec
  BY FinishedKeeps
<1>2. Update(r, end)
  OBVIOUS
<1> HIDE DEF end
<1>3. QED
  BY <1>1, <1>2, LocalStep

LEMMA LogoutDatabaseInv ==
    ASSUME NEW r \in Requests, IInv, LogoutDatabase(r)
    PROVE  IInv'
<1>1. PICK o \in Outcomes :
        Update(r, Finished([request[r] EXCEPT !.pc = "logout.done",
                              !.answers = IF Throws(o) THEN @ + 1 ELSE @]))
  BY DEF LogoutDatabase
<1> DEFINE n == IF Throws(o) THEN request[r].answers + 1 ELSE request[r].answers
           rec == [request[r] EXCEPT !.pc = "logout.done", !.answers = n]
<1>2. /\ request[r].pc = "logout.db" /\ request[r].jti \in Jtis
      /\ request[r] \in RequestRecords /\ request[r].answers \in 0..2
      /\ UNCHANGED <<now, expiry, key, ended, late>>
  BY Types DEF LogoutDatabase, At, RequestInv, RequestRecords
<1>3. n \in 0..2 /\ n <= request[r].answers + 1
  BY <1>2, Types DEF RequestInv, Answers
<1>4. /\ rec \in RequestRecords /\ rec.pc = "logout.done"
      /\ rec.cmd = request[r].cmd /\ rec.ttl = request[r].ttl
      /\ rec.jti = request[r].jti /\ rec.answers = n /\ rec.seen = request[r].seen
  <2> HIDE DEF n
  <2>1. QED
    BY <1>2, <1>3 DEF RequestRecords
<1>5. Answers(rec) /\ Covered(r, rec, rec.jti)
  <2> HIDE DEF rec, n
  <2>1. QED
    BY <1>2, <1>3, <1>4, Types
       DEF RequestInv, Answers, Covered, FilterPCs, HandlerPCs
<1>6. Update(r, Finished(rec))
  BY <1>1
<1> HIDE DEF rec
<1>7. QED
  BY <1>2, <1>4, <1>5, <1>6, FinishStep

LEMMA RedisSetexFailsInv ==
    ASSUME NEW r \in Requests, IInv, RedisSetexFails(r)
    PROVE  IInv'
<1> DEFINE rec == [request[r] EXCEPT !.cmd = "failed"]
<1>1. /\ request[r].cmd \in {"sent", "ok"} /\ request[r] \in RequestRecords
      /\ rec \in RequestRecords /\ rec.cmd = "failed" /\ rec.pc = request[r].pc
      /\ rec.jti = request[r].jti /\ rec.answers = request[r].answers
      /\ rec.seen = request[r].seen
  BY Types DEF RedisSetexFails, RequestRecords
<1>2. Answers(rec) /\ rec.pc # "idle" /\ rec.jti \in Jtis
  <2> HIDE DEF rec
  <2>1. QED
    BY <1>1, Types DEF RequestInv, Answers, FilterPCs
<1>3. Covered(r, rec, rec.jti)
  <2> HIDE DEF rec
  <2>1. QED
    BY <1>1, <1>2, Types DEF RequestInv, Covered
<1>4. QED
  BY <1>1, <1>2, <1>3, LocalStep DEF RedisSetexFails

\* SETEX is executed: the deadline it sets covers the token's lifetime.
LEMMA RedisSetexInv ==
    ASSUME NEW r \in Requests, IInv, RedisSetex(r)
    PROVE  IInv'
<1>1. /\ request[r].cmd = "sent" /\ request[r] \in RequestRecords
      /\ request[r].pc # "idle" /\ request[r].jti \in Jtis
      /\ UNCHANGED <<now, expiry, ended, late>>
  BY Types DEF RedisSetex, RequestInv, Answers
<1>2. CASE /\ request[r].ttl > 0
           /\ key' = [key EXCEPT ![request[r].jti] = now + request[r].ttl]
           /\ Update(r, [request[r] EXCEPT !.cmd = "ok"])
  <2> DEFINE j == request[r].jti
             rec == [request[r] EXCEPT !.cmd = "ok"]
  <2>1. /\ rec \in RequestRecords /\ rec.cmd = "ok" /\ rec.pc = request[r].pc
        /\ rec.jti = j /\ rec.answers = request[r].answers
        /\ rec.seen = request[r].seen
    BY <1>1 DEF RequestRecords
  <2>2. now + request[r].ttl >= expiry[j] /\ now + request[r].ttl \in 0..(2 * MaxTime)
    BY <1>1, <1>2, Types DEF RequestInv, Covered, RequestRecords
  <2>3. /\ request'[r] = rec /\ \A k \in Requests \ {r} : Same(k)
        /\ request' \in [Requests -> RequestRecords]
        /\ key' \in [Jtis -> 0..(2 * MaxTime)]
        /\ key'[j] >= expiry[j]
        /\ \A i \in Jtis : key'[i] = key[i] \/ key'[i] >= expiry[i]
    BY <1>1, <1>2, <2>1, <2>2 DEF Same, Update, IInv, TypeOK
  <2>4. TypeOK' /\ KeysInv' /\ Forward
    <3>1. now >= now
      BY Types
    <3>2. TypeOK' /\ Forward
      BY <1>1, <2>3, <3>1 DEF IInv, TypeOK, Forward
    <3>3. KeysInv'
      BY <1>1, <2>3 DEF IInv, KeysInv
    <3>4. QED
      BY <3>2, <3>3
  <2>5. RequestInv(r)'
    <3> HIDE DEF rec
    <3>1. QED
      BY <1>1, <2>1, <2>3, Types DEF RequestInv, Answers, Covered, FilterPCs
  <2>6. QED
    BY <2>3, <2>4, <2>5, RequestStep
<1>3. CASE key' = key /\ Update(r, [request[r] EXCEPT !.cmd = "failed"])
  <2> DEFINE rec == [request[r] EXCEPT !.cmd = "failed"]
  <2>1. /\ rec \in RequestRecords /\ rec.cmd = "failed" /\ rec.pc = request[r].pc
        /\ rec.jti = request[r].jti /\ rec.answers = request[r].answers
        /\ rec.seen = request[r].seen
    BY <1>1 DEF RequestRecords
  <2>2. Answers(rec) /\ Covered(r, rec, rec.jti)
    <3> HIDE DEF rec
    <3>1. QED
      BY <1>1, <2>1, Types DEF RequestInv, Answers, Covered, FilterPCs
  <2>3. QED
    BY <1>1, <1>3, <2>1, <2>2, LocalStep
<1>4. QED
  BY <1>2, <1>3 DEF RedisSetex

\* The callback of SETEX: if it answers with 204, the key is there.
LEMMA LogoutReplyInv ==
    ASSUME NEW r \in Requests, IInv, LogoutReply(r)
    PROVE  IInv'
<1> DEFINE j == request[r].jti
           rec == [request[r] EXCEPT !.cmd = "none", !.answers = request[r].answers + 1]
           end == Finished(rec)
<1>1. /\ request[r].cmd \in {"ok", "failed"} /\ request[r] \in RequestRecords
      /\ request[r].pc \in {"logout.db", "logout.done"} /\ j \in Jtis
      /\ request[r].answers \in 0..1
      /\ UNCHANGED <<now, expiry, key, late>>
      /\ ended' = IF request[r].cmd = "ok" THEN ended \cup {j} ELSE ended
      /\ Update(r, end)
  BY Types DEF LogoutReply, RequestInv, Answers, RequestRecords, FilterPCs
<1>2. request[r].answers + 1 \in 0..2 /\ request[r].answers + 1 <= 2
  BY <1>1
<1>3. /\ rec \in RequestRecords /\ rec.pc = request[r].pc /\ rec.cmd = "none"
      /\ rec.jti = j /\ rec.answers = request[r].answers + 1
      /\ rec.seen = request[r].seen
  BY <1>1, <1>2 DEF RequestRecords
<1>4. Answers(rec)
  <2> HIDE DEF rec, end
  <2>1. QED
    BY <1>1, <1>3, Types DEF RequestInv, Answers, FilterPCs
<1>5. Covered(r, rec, rec.jti)
  <2> HIDE DEF rec, end
  <2>1. QED
    BY <1>1, <1>3, Types DEF RequestInv, Covered
<1> HIDE DEF rec
<1>6. /\ end \in RequestRecords /\ Answers(end)
      /\ end.pc # "idle" => end = rec
  BY <1>1, <1>3, <1>4, <1>5, FinishedKeeps
<1> HIDE DEF end
<1>7. /\ request'[r] = end /\ \A k \in Requests \ {r} : Same(k)
      /\ request' \in [Requests -> RequestRecords]
  BY <1>1, <1>6 DEF Same, Update, IInv, TypeOK
<1>8. \A i \in Jtis : i \in ended' => i \in ended \/ key[i] >= expiry[i]
  BY <1>1, Types DEF RequestInv, Covered
<1>9. TypeOK' /\ KeysInv' /\ Forward
  <2>1. now >= now /\ ended \subseteq ended' /\ ended' \subseteq Jtis
    BY <1>1, Types DEF IInv, TypeOK
  <2>2. QED
    BY <1>1, <1>7, <1>8, <2>1 DEF IInv, TypeOK, KeysInv, Forward
<1>10. RequestInv(r)'
  <2>1. CASE end = rec
    BY <1>1, <1>3, <1>5, <1>6, <1>7, <1>9, <2>1
       DEF RequestInv, Answers, Covered, Forward
  <2>2. CASE end.pc = "idle"
    BY <1>6, <1>7, <2>2 DEF RequestInv, Answers, FilterPCs
  <2>3. QED
    BY <1>6, <2>1, <2>2
<1>11. QED
  BY <1>7, <1>9, <1>10, RequestStep

-----------------------------------------------------------------------------
(* The theorems.                                                           *)

LEMMA TickInv ==
    ASSUME IInv, Tick
    PROVE  IInv'
<1>1. /\ now \in Nat /\ MaxTime \in Nat /\ now' = now + 1 /\ now' \in 0..MaxTime
      /\ UNCHANGED <<expiry, key, request, ended, late>>
  BY MaxTimeAssumption DEF IInv, TypeOK, Tick
<1>2. TypeOK' /\ KeysInv' /\ Forward
  BY <1>1 DEF IInv, TypeOK, KeysInv, Forward
<1>3. ASSUME NEW k \in Requests
      PROVE  RequestInv(k)'
  <2>1. Same(k)
    BY <1>1 DEF Same
  <2>2. QED
    BY <1>2, <2>1, OthersKeep DEF IInv
<1>4. QED
  BY <1>2, <1>3 DEF IInv

LEMMA InitInv ==
    ASSUME Init
    PROVE  IInv
<1>1. MaxTime \in Nat /\ 0 \in 0..MaxTime /\ 0 \in 0..(2 * MaxTime) /\ 0 \in 0..2
  BY MaxTimeAssumption
<1>2. NoRequest \in RequestRecords /\ NoRequest.pc = "idle" /\ NoRequest.cmd = "none"
  BY <1>1 DEF NoRequest, RequestRecords
<1>3. TypeOK /\ KeysInv
  <2> HIDE DEF NoRequest
  <2>1. QED
    BY <1>1, <1>2 DEF Init, TypeOK, KeysInv
<1>4. ASSUME NEW r \in Requests
      PROVE  RequestInv(r)
  BY <1>2 DEF Init, RequestInv, Answers, FilterPCs
<1>5. QED
  BY <1>3, <1>4 DEF IInv

LEMMA StutterInv ==
    ASSUME IInv, UNCHANGED vars
    PROVE  IInv'
<1>1. /\ TypeOK' /\ KeysInv' /\ UNCHANGED <<now, expiry, key, request, ended, late>>
  BY DEF IInv, TypeOK, KeysInv, vars
<1>2. ASSUME NEW r \in Requests
      PROVE  RequestInv(r)'
  <2>1. RequestInv(r)
    BY DEF IInv
  <2>2. QED
    BY <1>1, <2>1 DEF RequestInv, Answers, Covered
<1>3. QED
  BY <1>1, <1>2 DEF IInv

LEMMA NextInv ==
    ASSUME IInv, [Next]_vars
    PROVE  IInv'
<1>1. CASE \E r \in Requests, j \in Jtis : Arrive(r, j)
  BY <1>1, ArriveInv
<1>2. CASE \E r \in Requests : Redis(r)
  BY <1>2, RedisGetInv, RedisSetexInv DEF Redis
<1>3. CASE \E r \in Requests : Handle(r)
  BY <1>3, FilterReplyInv, OtherHandlerInv, LogoutStartInv, LogoutDatabaseInv
     DEF Handle
<1>4. CASE \E r \in Requests : LogoutReply(r)
  BY <1>4, LogoutReplyInv
<1>5. CASE \E r \in Requests : RedisGetFails(r) \/ RedisSetexFails(r)
  BY <1>5, RedisGetFailsInv, RedisSetexFailsInv
<1>6. CASE Tick
  BY <1>6, TickInv
<1>7. CASE UNCHANGED vars
  BY <1>7, StutterInv
<1>8. QED
  BY <1>1, <1>2, <1>3, <1>4, <1>5, <1>6, <1>7 DEF Next

\* IInv is an inductive invariant of the filter and of logout.
THEOREM Invariance == Spec => []IInv
<1>1. Init => IInv
  BY InitInv
<1>2. IInv /\ [Next]_vars => IInv'
  BY NextInv
<1>3. QED
  BY <1>1, <1>2, PTL DEF Spec

\* The variables keep their types; in particular the response callback of a
\* request is never called a third time, whatever Redis and the database do.
THEOREM TypeCorrect == Spec => []TypeOK
<1>1. IInv => TypeOK
  BY DEF IInv
<1>2. QED
  BY <1>1, Invariance, PTL

\* A token whose logout was answered with 204 is on the blacklist until it
\* expires: no delay of SETEX and no second logout can shorten its stay.
THEOREM BlacklistCovers == Spec => []BlacklistOutlivesToken
<1>1. IInv => BlacklistOutlivesToken
  <2>1. SUFFICES ASSUME IInv, NEW j \in ended, now < expiry[j]
                 PROVE  now < key[j]
    BY DEF BlacklistOutlivesToken, Blacklisted
  <2>2. /\ j \in Jtis /\ now \in Nat /\ expiry[j] \in Nat /\ key[j] \in Nat
        /\ key[j] >= expiry[j]
    BY <2>1, MaxTimeAssumption DEF IInv, TypeOK, KeysInv
  <2>3. QED
    BY <2>1, <2>2
<1>2. QED
  BY <1>1, Invariance, PTL

\* AuthFilter lets no request through that comes with a token logged out
\* before, unless its lookup came in the token's last second or later.
THEOREM FilterRefuses == Spec => []LoggedOutRefused
<1>1. IInv => LoggedOutRefused
  <2>1. SUFFICES ASSUME IInv, NEW r \in late,
                        request[r].pc \in HandlerPCs
                 PROVE  request[r].seen >= expiry[request[r].jti]
    BY DEF LoggedOutRefused, HandlerPCs
  <2>2. r \in Requests /\ RequestInv(r)
    BY <2>1 DEF IInv, TypeOK
  <2>3. QED
    BY <2>1, <2>2 DEF RequestInv, Covered, HandlerPCs
<1>2. QED
  BY <1>1, Invariance, PTL

=============================================================================
