------------------------- MODULE AuthSessionsProofs -------------------------
(***************************************************************************)
(* The safety properties of AuthSessions, proved for every number of       *)
(* threads, users, sessions and tokens and for every choice of Faults.     *)
(*                                                                         *)
(* The inductive invariant has a part about the records alone (Records)    *)
(* and a part about each handler in flight (Handler).  A step of one       *)
(* handler moves records only forward - a revoked session stays revoked, a *)
(* dead token stays dead - and that is all the other handlers need to know *)
(* of it; so the proof for the others is made once (OthersKeep), and each  *)
(* action has to answer for its own handler and its own records.           *)
(*                                                                         *)
(* The refinement of RotatingTokens comes last.                            *)
(***************************************************************************)
EXTENDS AuthSessionsRefinement, TLAPS

-----------------------------------------------------------------------------
(* The inductive invariant.                                                *)

RefreshPCs == {"refresh.session", "refresh.user", "refresh.rotate"}

\* The handlers that end in issueTokens, until the token is created.
IssuingPCs == RefreshPCs \cup {"issue.session", "issue.touch", "issue.token"}

LogoutPCs == {"logout.tokens", "logout.finish"}

ResetPCs == {"reset.user", "reset.mark", "reset.revoke", "reset.finish"}

\* What the records say of each other: ids refer to created records; a token
\* that has a successor is dead for good; a late token's session is revoked.
Records ==
    /\ \A t \in Tokens : token[t].active => token[t].user # Null
    /\ \A t \in Tokens : token[t].session # Null
                            => session[token[t].session].user # Null
    /\ \A s \in Sessions \cap issued : session[s].user # Null
    /\ \A t \in Tokens : token[t].late =>
          token[t].session # Null /\ session[token[t].session].revoked
    /\ "error" \notin Faults =>
          \A t \in Tokens : token[t].parent # Null =>
             token[token[t].parent].user # Null /\ ~token[token[t].parent].active

\* The locals a handler's remaining calls use have been set, and refer to
\* created records.
Locals(h) ==
    /\ thread[h].pc = "idle" => thread[h] = Idle
    /\ thread[h].pc \in IssuingPCs => thread[h].user \in Users
    /\ thread[h].pc \in RefreshPCs => thread[h].tok \in Tokens
    /\ thread[h].pc = "issue.session" => thread[h].tok = Null
    /\ thread[h].pc \in ResetPCs => thread[h].rst \in Resets
    /\ thread[h].pc \in LogoutPCs => thread[h].sess \in Sessions
    /\ thread[h].sess # Null => session[thread[h].sess].user # Null
    /\ thread[h].tok # Null => token[thread[h].tok].user # Null
    /\ \A t \in Tokens \cap alive[h] : token[t].user # Null

\* What a check to come will find: where it succeeds now, the session was live
\* when the request arrived, and the user has been active since.
PendingChecks(h) ==
    /\ (/\ thread[h].pc = "refresh.session"
        /\ thread[h].sess # Null
        /\ ~session[thread[h].sess].revoked) => thread[h].sess \in alive[h]
    /\ (/\ thread[h].pc \in {"refresh.session", "refresh.user"}
        /\ status[thread[h].user] = "active") => thread[h].user \in alive[h]

\* OnlyLiveCredentials, of one handler.
LiveCredentials(h) ==
    /\ thread[h].tok # Null => thread[h].tok \in alive[h]
    /\ thread[h].rst # Null => thread[h].rst \in alive[h]
    /\ thread[h].pc \in SessionChecked => thread[h].sess \in alive[h]
    /\ thread[h].pc \in UserChecked => thread[h].user \in alive[h]

\* A handler that may yet mint has not minted from this token before and, if
\* it is past its session check, has minted no late token of this session.
FirstMint(h) ==
    /\ "error" \notin Faults /\ thread[h].tok # Null =>
          /\ thread[h].pc \in {"issue.touch", "issue.token"}
                => ~token[thread[h].tok].active
          /\ thread[h].pc \in IssuingPCs =>
                \A t \in Tokens : token[t].by = h => token[t].parent # thread[h].tok
    /\ thread[h].pc \in SessionChecked \cup {"issue.token"} /\ thread[h].sess # Null =>
          \A t \in Tokens : token[t].late /\ token[t].by = h
                               => token[t].session # thread[h].sess

\* A logout or a reset has done its part so far.
Revoking(h) ==
    "error" \notin Faults =>
        /\ thread[h].pc \in LogoutPCs => session[thread[h].sess].revoked
        /\ thread[h].pc \in {"reset.revoke", "reset.finish"}
              => reset[thread[h].rst].used
        /\ thread[h].pc = "logout.finish" =>
              \A t \in Tokens \cap alive[h] :
                 token[t].session = thread[h].sess => ~token[t].active
        /\ thread[h].pc = "reset.finish" =>
              \A t \in Tokens \cap alive[h] :
                 token[t].user = thread[h].user => ~token[t].active

Handler(h) == /\ Locals(h) /\ PendingChecks(h) /\ LiveCredentials(h)
              /\ FirstMint(h) /\ Revoking(h)

IInv == /\ TypeOK
        /\ Records
        /\ OneChildPerThread
        /\ OneLateTokenPerThread
        /\ \A h \in Threads : Handler(h)

-----------------------------------------------------------------------------
(* How one step changes the records.                                       *)

SessionsForward ==
    \A s \in Sessions :
        /\ session[s].user # Null => session'[s].user = session[s].user
        /\ session[s].revoked => session'[s].revoked

ResetsForward == \A r \in Resets : reset[r].used => reset'[r].used

\* A token is as it was, or has been deactivated.
Kept(t) == /\ token'[t].user = token[t].user
           /\ token'[t].session = token[t].session
           /\ token'[t].parent = token[t].parent
           /\ token'[t].by = token[t].by
           /\ token'[t].late = token[t].late
           /\ token'[t].active => token[t].active

NewBy(t, h) == token[t].user = Null /\ token'[t].by = h

\* A step of handler h leaves the other handlers where they were.
Alone(h) == \A k \in Threads \ {h} : thread'[k] = thread[k] /\ alive'[k] = alive[k]

-----------------------------------------------------------------------------
(* The other handlers, and records that only move forward.                 *)

LEMMA IdleHandler ==
    ASSUME NEW h \in Threads, thread'[h] = Idle, alive'[h] = {}
    PROVE  Handler(h)'
<1>1. /\ Idle.pc = "idle" /\ Idle.user = Null /\ Idle.sess = Null
      /\ Idle.tok = Null /\ Idle.rst = Null
  BY DEF Idle
<1>2. QED
  BY <1>1 DEF Handler, Locals, PendingChecks, LiveCredentials, FirstMint, Revoking,
              RefreshPCs, IssuingPCs, LogoutPCs, ResetPCs, SessionChecked, UserChecked

LEMMA OthersKeep ==
    ASSUME NEW h \in Threads, NEW k \in Threads, k # h,
           TypeOK, Handler(k), Alone(h), status' = status,
           SessionsForward, ResetsForward,
           \A t \in Tokens : Kept(t) \/ NewBy(t, h)
    PROVE  Handler(k)'
<1>1. thread'[k] = thread[k] /\ alive'[k] = alive[k]
  BY DEF Alone
<1>2. /\ thread[k].sess \in Sessions \cup {Null}
      /\ thread[k].tok \in Tokens \cup {Null}
  BY DEF TypeOK, ThreadRecords
<1>3. Locals(k)'
  BY <1>1, <1>2 DEF Handler, Locals, SessionsForward, Kept, NewBy, LogoutPCs
<1>4. PendingChecks(k)'
  BY <1>1, <1>2 DEF Handler, PendingChecks, SessionsForward
<1>5. LiveCredentials(k)'
  BY <1>1 DEF Handler, LiveCredentials
<1>6. FirstMint(k)'
  BY <1>1, <1>2 DEF Handler, FirstMint, Locals, Kept, NewBy
<1>7. Revoking(k)'
  BY <1>1, <1>2 DEF Handler, Revoking, Locals, SessionsForward, ResetsForward, Kept, NewBy, ResetPCs, LogoutPCs
<1>8. QED
  BY <1>3, <1>4, <1>5, <1>6, <1>7 DEF Handler

LEMMA RecordsKeep ==
    ASSUME TypeOK, Records, OneChildPerThread, OneLateTokenPerThread,
           SessionsForward, \A t \in Tokens : Kept(t),
           \A s \in Sessions \cap issued' : session'[s].user # Null
    PROVE  Records' /\ OneChildPerThread' /\ OneLateTokenPerThread'
<1>1. \A t \in Tokens : /\ token[t].session \in Sessions \cup {Null}
                        /\ token[t].parent \in Tokens \cup {Null}
  BY DEF TypeOK, TokenRecords
<1>2. Records'
  BY <1>1 DEF Records, SessionsForward, Kept
<1>3. OneChildPerThread'
  BY <1>1 DEF OneChildPerThread, Kept
<1>4. OneLateTokenPerThread'
  BY <1>1 DEF OneLateTokenPerThread, Kept
<1>5. QED
  BY <1>2, <1>3, <1>4

LEMMA HandlerStep ==
    ASSUME NEW h \in Threads, IInv, TypeOK', Handler(h)', Alone(h), status' = status,
           SessionsForward, ResetsForward, \A t \in Tokens : Kept(t),
           \A s \in Sessions \cap issued' : session'[s].user # Null
    PROVE  IInv'
BY OthersKeep, RecordsKeep DEF IInv

-----------------------------------------------------------------------------
(* Types.                                                                  *)

LEMMA IdleType == Idle \in ThreadRecords
BY DEF Idle, ThreadRecords, PCs

LEMMA AliveType == AliveNow \in SUBSET (Users \cup Sessions \cup Tokens \cup Resets)
BY DEF AliveNow

LEMMA EndType ==
    ASSUME NEW h \in Threads, TypeOK, End(h)
    PROVE  /\ thread' \in [Threads -> ThreadRecords]
           /\ alive' \in [Threads -> SUBSET (Users \cup Sessions \cup Tokens \cup Resets)]
BY IdleType DEF End, TypeOK

LEMMA GotoType ==
    ASSUME NEW h \in Threads, NEW rec \in ThreadRecords, TypeOK, Goto(h, rec)
    PROVE  /\ thread' \in [Threads -> ThreadRecords]
           /\ alive' \in [Threads -> SUBSET (Users \cup Sessions \cup Tokens \cup Resets)]
BY DEF Goto, TypeOK

LEMMA BeginType ==
    ASSUME NEW h \in Threads, NEW rec \in ThreadRecords, TypeOK, Begin(h, rec)
    PROVE  /\ thread' \in [Threads -> ThreadRecords]
           /\ alive' \in [Threads -> SUBSET (Users \cup Sessions \cup Tokens \cup Resets)]
BY AliveType DEF Begin, TypeOK

LEMMA PcType ==
    ASSUME NEW h \in Threads, TypeOK, NEW pc \in PCs
    PROVE  [thread[h] EXCEPT !.pc = pc] \in ThreadRecords
BY DEF TypeOK, ThreadRecords

-----------------------------------------------------------------------------
(* Steps that only move the handler: it answers, or its next call reads.   *)

LEMMA QuietFrame ==
    ASSUME IInv, UNCHANGED <<db, issued>>
    PROVE  /\ status' = status /\ SessionsForward /\ ResetsForward
           /\ \A t \in Tokens : Kept(t)
           /\ \A s \in Sessions \cap issued' : session'[s].user # Null
BY DEF db, SessionsForward, ResetsForward, Kept, IInv, Records

LEMMA EndAlone == ASSUME NEW h \in Threads, TypeOK, End(h)
                  PROVE  Alone(h) /\ thread'[h] = Idle /\ alive'[h] = {}
BY DEF End, Alone, TypeOK

LEMMA GotoAlone == ASSUME NEW h \in Threads, NEW rec, TypeOK, Goto(h, rec)
                   PROVE  Alone(h) /\ thread'[h] = rec /\ alive'[h] = alive[h]
BY DEF Goto, Alone, TypeOK

LEMMA BeginAlone == ASSUME NEW h \in Threads, NEW rec, TypeOK, Begin(h, rec)
                    PROVE  Alone(h) /\ thread'[h] = rec /\ alive'[h] = AliveNow
BY DEF Begin, Alone, TypeOK

LEMMA QuietType ==
    ASSUME TypeOK, UNCHANGED <<db, issued>>, thread' \in [Threads -> ThreadRecords],
           alive' \in [Threads -> SUBSET (Users \cup Sessions \cup Tokens \cup Resets)]
    PROVE  TypeOK'
BY DEF TypeOK, db

LEMMA QuietEnd ==
    ASSUME NEW h \in Threads, IInv, End(h), UNCHANGED <<db, issued>>
    PROVE  IInv'
<1>1. TypeOK
  BY DEF IInv
<1>2. TypeOK'
  BY <1>1, EndType, QuietType
<1>3. Handler(h)'
  BY <1>1, EndAlone, IdleHandler
<1>4. QED
  BY <1>1, <1>2, <1>3, QuietFrame, EndAlone, HandlerStep

LEMMA LoginInv ==
    ASSUME NEW h \in Threads, NEW u \in Users, IInv, Login(h, u)
    PROVE  IInv'
<1> DEFINE rec == [Idle EXCEPT !.pc = "issue.session", !.user = u]
<1>1. /\ rec \in ThreadRecords
      /\ rec.pc = "issue.session" /\ rec.user = u
      /\ rec.sess = Null /\ rec.tok = Null /\ rec.rst = Null
  BY DEF Idle, ThreadRecords, PCs
<1>2. TypeOK /\ Begin(h, rec) /\ UNCHANGED <<db, issued>> /\ u \in AliveNow
  BY DEF Login, IInv, AliveNow
<1>3. TypeOK'
  BY <1>1, <1>2, BeginType, QuietType
<1>4. thread'[h] = rec /\ alive'[h] = AliveNow /\ Alone(h)
  BY <1>2, BeginAlone
<1>5. \A t \in Tokens \cap AliveNow : token[t].active
  BY IdsAssumption DEF AliveNow
<1>6. Handler(h)'
  <2> HIDE DEF rec
  <2>1. Locals(h)'
    BY <1>1, <1>2, <1>4, <1>5 DEF Locals, RefreshPCs, IssuingPCs, LogoutPCs, ResetPCs, db, IInv, Records
  <2>2. PendingChecks(h)' /\ LiveCredentials(h)'
    BY <1>1, <1>2, <1>4 DEF PendingChecks, LiveCredentials, SessionChecked
  <2>3. FirstMint(h)' /\ Revoking(h)'
    BY <1>1, <1>4 DEF FirstMint, Revoking, SessionChecked, LogoutPCs
  <2>4. QED
    BY <2>1, <2>2, <2>3 DEF Handler
<1>7. QED
  BY <1>2, <1>3, <1>4, <1>6, QuietFrame, HandlerStep

LEMMA PcOnly ==
    ASSUME NEW h \in Threads, TypeOK, NEW pc \in PCs
    PROVE  LET rec == [thread[h] EXCEPT !.pc = pc] IN
           /\ rec \in ThreadRecords /\ rec.pc = pc
           /\ rec.user = thread[h].user /\ rec.sess = thread[h].sess
           /\ rec.tok = thread[h].tok /\ rec.rst = thread[h].rst
BY DEF TypeOK, ThreadRecords

\* A call that changes no record and is followed by another call: only what
\* Handler says at the new pc has to be shown.
LEMMA QuietGoto ==
    ASSUME NEW h \in Threads, IInv, NEW pc \in PCs,
           Goto(h, [thread[h] EXCEPT !.pc = pc]), UNCHANGED <<db, issued>>,
           Handler(h)'
    PROVE  IInv'
<1>1. TypeOK /\ [thread[h] EXCEPT !.pc = pc] \in ThreadRecords
  BY PcOnly DEF IInv
<1>2. TypeOK'
  BY <1>1, GotoType, QuietType
<1>3. QED
  BY <1>1, <1>2, QuietFrame, GotoAlone, HandlerStep

LEMMA RefreshLookupInv ==
    ASSUME NEW h \in Threads, NEW t \in Tokens, IInv, RefreshLookup(h, t)
    PROVE  IInv'
<1> DEFINE rec == [Idle EXCEPT !.pc = "refresh.session", !.tok = t,
                      !.user = token[t].user, !.sess = token[t].session]
<1>1. /\ rec.pc = "refresh.session" /\ rec.tok = t /\ rec.rst = Null
      /\ rec.user = token[t].user /\ rec.sess = token[t].session
  BY DEF Idle
<1>2. /\ TypeOK /\ Records /\ Begin(h, rec) /\ UNCHANGED <<db, issued>>
      /\ token[t].active
  BY DEF RefreshLookup, IInv
<1>3. /\ token[t].user \in Users /\ token[t].session \in Sessions \cup {Null}
      /\ rec \in ThreadRecords
  BY <1>2 DEF Records, TypeOK, TokenRecords, Idle, ThreadRecords, PCs
<1>4. TypeOK'
  BY <1>2, <1>3, BeginType, QuietType
<1>5. thread'[h] = rec /\ alive'[h] = AliveNow /\ Alone(h)
  BY <1>2, BeginAlone
<1>6. /\ \A x \in Tokens \cap AliveNow : token[x].active
      /\ t \in AliveNow
      /\ status[token[t].user] = "active" => token[t].user \in AliveNow
      /\ token[t].session # Null /\ ~session[token[t].session].revoked
            => token[t].session \in AliveNow
  BY <1>2, <1>3, IdsAssumption DEF AliveNow, SessionLive, Records
<1>7. UNCHANGED <<status, session, token>>
  BY <1>2 DEF db
<1>8. Handler(h)'
  <2> HIDE DEF rec
  <2>1. Locals(h)'
    BY <1>1, <1>2, <1>3, <1>5, <1>6, <1>7, IdsAssumption
       DEF Locals, RefreshPCs, IssuingPCs, LogoutPCs, ResetPCs, Records
  <2>2. PendingChecks(h)' /\ LiveCredentials(h)'
    BY <1>1, <1>5, <1>6, <1>7
       DEF PendingChecks, LiveCredentials, SessionChecked, UserChecked
  <2>3. FirstMint(h)' /\ Revoking(h)'
    BY <1>1, <1>2, <1>5, <1>7, IdsAssumption
       DEF FirstMint, Revoking, SessionChecked, LogoutPCs, Records
  <2>4. QED
    BY <2>1, <2>2, <2>3 DEF Handler
<1>9. QED
  BY <1>2, <1>4, <1>5, <1>8, QuietFrame, HandlerStep

LEMMA RefreshSessionInv ==
    ASSUME NEW h \in Threads, IInv, RefreshSession(h)
    PROVE  IInv'
<1> DEFINE rec == [thread[h] EXCEPT !.pc = "refresh.user"]
<1>1. /\ TypeOK /\ Handler(h) /\ UNCHANGED <<db, issued>>
      /\ thread[h].pc = "refresh.session"
  BY DEF RefreshSession, IInv, At
<1>2. \/ End(h)
      \/ SessionLive(thread[h].sess) /\ Goto(h, rec)
  BY DEF RefreshSession, Check
<1>3. CASE End(h)
  BY <1>1, <1>3, QuietEnd
<1>4. CASE SessionLive(thread[h].sess) /\ Goto(h, rec)
  <2>1. /\ rec.pc = "refresh.user" /\ "refresh.user" \in PCs
        /\ rec.user = thread[h].user /\ rec.sess = thread[h].sess
        /\ rec.tok = thread[h].tok /\ rec.rst = thread[h].rst
    BY <1>1, PcOnly DEF PCs
  <2>2. thread'[h] = rec /\ alive'[h] = alive[h]
    BY <1>1, <1>4, GotoAlone
  <2>3. UNCHANGED <<status, session, token>>
    BY <1>1 DEF db
  <2>4. /\ thread[h].sess # Null /\ ~session[thread[h].sess].revoked
        /\ thread[h].sess \in alive[h]
    BY <1>1, <1>4, IdsAssumption DEF SessionLive, Handler, PendingChecks
  <2>5. Handler(h)'
    <3> HIDE DEF rec
    <3>1. Locals(h)'
      BY <1>1, <2>1, <2>2, <2>3
         DEF Handler, Locals, RefreshPCs, IssuingPCs, LogoutPCs, ResetPCs
    <3>2. PendingChecks(h)' /\ LiveCredentials(h)'
      BY <1>1, <2>1, <2>2, <2>3, <2>4
         DEF Handler, PendingChecks, LiveCredentials, SessionChecked, UserChecked
    <3>3. FirstMint(h)'
      BY <1>1, <2>1, <2>2, <2>3, <2>4 DEF Handler, FirstMint, IInv, Records,
           IssuingPCs, RefreshPCs
    <3>4. Revoking(h)'
      BY <2>1, <2>2 DEF Revoking, LogoutPCs
    <3>5. QED
      BY <3>1, <3>2, <3>3, <3>4 DEF Handler
  <2>6. QED
    BY <1>1, <1>4, <2>1, <2>5, QuietGoto
<1>5. QED
  BY <1>2, <1>3, <1>4

LEMMA RefreshUserInv ==
    ASSUME NEW h \in Threads, IInv, RefreshUser(h)
    PROVE  IInv'
<1> DEFINE rec == [thread[h] EXCEPT !.pc = "refresh.rotate"]
<1>1. /\ TypeOK /\ Handler(h) /\ UNCHANGED <<db, issued>>
      /\ thread[h].pc = "refresh.user"
  BY DEF RefreshUser, IInv, At
<1>2. \/ End(h)
      \/ status[thread[h].user] = "active" /\ Goto(h, rec)
  BY DEF RefreshUser, Check
<1>3. CASE End(h)
  BY <1>1, <1>3, QuietEnd
<1>4. CASE status[thread[h].user] = "active" /\ Goto(h, rec)
  <2>1. /\ rec.pc = "refresh.rotate" /\ "refresh.rotate" \in PCs
        /\ rec.user = thread[h].user /\ rec.sess = thread[h].sess
        /\ rec.tok = thread[h].tok /\ rec.rst = thread[h].rst
    BY <1>1, PcOnly DEF PCs
  <2>2. thread'[h] = rec /\ alive'[h] = alive[h]
    BY <1>1, <1>4, GotoAlone
  <2>3. UNCHANGED <<status, session, token>>
    BY <1>1 DEF db
  <2>4. Handler(h)'
    <3> HIDE DEF rec
    <3>1. Locals(h)'
      BY <1>1, <2>1, <2>2, <2>3
         DEF Handler, Locals, RefreshPCs, IssuingPCs, LogoutPCs, ResetPCs
    <3>2. PendingChecks(h)' /\ LiveCredentials(h)'
      BY <1>1, <1>4, <2>1, <2>2, <2>3
         DEF Handler, PendingChecks, LiveCredentials, SessionChecked, UserChecked
    <3>3. FirstMint(h)'
      BY <1>1, <2>1, <2>2, <2>3 DEF Handler, FirstMint, IssuingPCs, RefreshPCs,
           SessionChecked
    <3>4. Revoking(h)'
      BY <2>1, <2>2 DEF Revoking, LogoutPCs
    <3>5. QED
      BY <3>1, <3>2, <3>3, <3>4 DEF Handler
  <2>5. QED
    BY <1>1, <1>4, <2>1, <2>4, QuietGoto
<1>5. QED
  BY <1>2, <1>3, <1>4

LEMMA IssueTouchInv ==
    ASSUME NEW h \in Threads, IInv, IssueTouch(h)
    PROVE  IInv'
<1> DEFINE rec == [thread[h] EXCEPT !.pc = "issue.token"]
<1>1. /\ TypeOK /\ Handler(h) /\ UNCHANGED <<db, issued>>
      /\ thread[h].pc = "issue.touch"
  BY DEF IssueTouch, IInv, At
<1>2. End(h) \/ Goto(h, rec)
  BY DEF IssueTouch, Continue
<1>3. CASE End(h)
  BY <1>1, <1>3, QuietEnd
<1>4. CASE Goto(h, rec)
  <2>1. /\ rec.pc = "issue.token" /\ "issue.token" \in PCs
        /\ rec.user = thread[h].user /\ rec.sess = thread[h].sess
        /\ rec.tok = thread[h].tok /\ rec.rst = thread[h].rst
    BY <1>1, PcOnly DEF PCs
  <2>2. thread'[h] = rec /\ alive'[h] = alive[h]
    BY <1>1, <1>4, GotoAlone
  <2>3. UNCHANGED <<status, session, token>>
    BY <1>1 DEF db
  <2>4. Handler(h)'
    <3> HIDE DEF rec
    <3>1. Locals(h)'
      BY <1>1, <2>1, <2>2, <2>3
         DEF Handler, Locals, RefreshPCs, IssuingPCs, LogoutPCs, ResetPCs
    <3>2. PendingChecks(h)' /\ LiveCredentials(h)'
      BY <1>1, <2>1, <2>2
         DEF Handler, PendingChecks, LiveCredentials, SessionChecked, UserChecked
    <3>3. FirstMint(h)' /\ Revoking(h)'
      BY <1>1, <2>1, <2>2, <2>3 DEF Handler, FirstMint, Revoking, IssuingPCs,
           SessionChecked, LogoutPCs
    <3>4. QED
      BY <3>1, <3>2, <3>3 DEF Handler
  <2>5. QED
    BY <1>1, <1>4, <2>1, <2>4, QuietGoto
<1>5. QED
  BY <1>2, <1>3, <1>4

LEMMA ResetUserInv ==
    ASSUME NEW h \in Threads, IInv, ResetUser(h)
    PROVE  IInv'
<1> DEFINE rec == [thread[h] EXCEPT !.pc = "reset.mark"]
<1>1. /\ TypeOK /\ Handler(h) /\ UNCHANGED <<db, issued>>
      /\ thread[h].pc = "reset.user"
  BY DEF ResetUser, IInv, At
<1>2. End(h) \/ Goto(h, rec)
  BY DEF ResetUser, Continue
<1>3. CASE End(h)
  BY <1>1, <1>3, QuietEnd
<1>4. CASE Goto(h, rec)
  <2>1. /\ rec.pc = "reset.mark" /\ "reset.mark" \in PCs
        /\ rec.user = thread[h].user /\ rec.sess = thread[h].sess
        /\ rec.tok = thread[h].tok /\ rec.rst = thread[h].rst
    BY <1>1, PcOnly DEF PCs
  <2>2. thread'[h] = rec /\ alive'[h] = alive[h]
    BY <1>1, <1>4, GotoAlone
  <2>3. UNCHANGED <<status, session, token>>
    BY <1>1 DEF db
  <2>4. Handler(h)'
    <3> HIDE DEF rec
    <3>1. Locals(h)'
      BY <1>1, <2>1, <2>2, <2>3
         DEF Handler, Locals, RefreshPCs, IssuingPCs, LogoutPCs, ResetPCs
    <3>2. PendingChecks(h)' /\ LiveCredentials(h)'
      BY <1>1, <2>1, <2>2
         DEF Handler, PendingChecks, LiveCredentials, SessionChecked, UserChecked
    <3>3. FirstMint(h)' /\ Revoking(h)'
      BY <1>1, <2>1, <2>2, <2>3 DEF Handler, FirstMint, Revoking, IssuingPCs,
           RefreshPCs, SessionChecked, LogoutPCs
    <3>4. QED
      BY <3>1, <3>2, <3>3 DEF Handler
  <2>5. QED
    BY <1>1, <1>4, <2>1, <2>4, QuietGoto
<1>5. QED
  BY <1>2, <1>3, <1>4

LEMMA ResetLookupInv ==
    ASSUME NEW h \in Threads, NEW r \in Resets, IInv, ResetLookup(h, r)
    PROVE  IInv'
<1> DEFINE rec == [Idle EXCEPT !.pc = "reset.user", !.user = reset[r].user,
                      !.rst = r]
<1>1. /\ rec.pc = "reset.user" /\ rec.tok = Null /\ rec.rst = r
      /\ rec.user = reset[r].user /\ rec.sess = Null
  BY DEF Idle
<1>2. /\ TypeOK /\ Records /\ Begin(h, rec) /\ UNCHANGED <<db, issued>>
      /\ ResetLive(r)
  BY DEF ResetLookup, IInv
<1>3. /\ reset[r].user \in Users
      /\ rec \in ThreadRecords
  BY <1>2 DEF ResetLive, TypeOK, Idle, ThreadRecords, PCs
<1>4. TypeOK'
  BY <1>2, <1>3, BeginType, QuietType
<1>5. thread'[h] = rec /\ alive'[h] = AliveNow /\ Alone(h)
  BY <1>2, BeginAlone
<1>6. /\ \A x \in Tokens \cap AliveNow : token[x].active
      /\ r \in AliveNow
  BY <1>2, IdsAssumption DEF AliveNow
<1>7. UNCHANGED <<status, session, token>>
  BY <1>2 DEF db
<1>8. Handler(h)'
  <2> HIDE DEF rec
  <2>1. Locals(h)'
    BY <1>1, <1>2, <1>5, <1>6, <1>7
       DEF Locals, RefreshPCs, IssuingPCs, LogoutPCs, ResetPCs, Records
  <2>2. PendingChecks(h)' /\ LiveCredentials(h)'
    BY <1>1, <1>5, <1>6
       DEF PendingChecks, LiveCredentials, SessionChecked, UserChecked
  <2>3. FirstMint(h)' /\ Revoking(h)'
    BY <1>1, <1>5 DEF FirstMint, Revoking, SessionChecked, LogoutPCs
  <2>4. QED
    BY <2>1, <2>2, <2>3 DEF Handler
<1>9. QED
  BY <1>2, <1>4, <1>5, <1>8, QuietFrame, HandlerStep

-----------------------------------------------------------------------------
(* Answers, and writes that deactivate or revoke.                          *)

\* A handler that ends in the same step, whatever it has written.
LEMMA WriteEnd ==
    ASSUME NEW h \in Threads, IInv, TypeOK', End(h), status' = status,
           SessionsForward, ResetsForward, \A t \in Tokens : Kept(t),
           \A s \in Sessions \cap issued' : session'[s].user # Null
    PROVE  IInv'
<1>1. Handler(h)' /\ Alone(h)
  BY EndAlone, IdleHandler DEF IInv
<1>2. QED
  BY <1>1, HandlerStep

LEMMA IssueFinishInv ==
    ASSUME NEW h \in Threads, IInv, IssueFinish(h)
    PROVE  IInv'
<1>1. /\ TypeOK /\ Records /\ Handler(h) /\ End(h) /\ UNCHANGED db
      /\ issued' \subseteq issued \cup ({thread[h].sess, thread[h].new} \ {Null})
  BY DEF IssueFinish, IInv
<1>2. /\ thread[h].sess \in Sessions \cup {Null}
      /\ thread[h].new \in Tokens \cup {Null}
  BY <1>1 DEF TypeOK, ThreadRecords
<1>3. TypeOK'
  BY <1>1, <1>2, EndType DEF TypeOK, db
<1>4. \A s \in Sessions \cap issued' : session'[s].user # Null
  BY <1>1, <1>2, IdsAssumption DEF Records, Handler, Locals, db
<1>5. /\ status' = status /\ SessionsForward /\ ResetsForward
      /\ \A t \in Tokens : Kept(t)
  BY <1>1 DEF db, SessionsForward, ResetsForward, Kept
<1>6. QED
  BY <1>1, <1>3, <1>4, <1>5, WriteEnd

LEMMA LogoutFinishInv ==
    ASSUME NEW h \in Threads, IInv, LogoutFinish(h)
    PROVE  IInv'
BY QuietEnd DEF LogoutFinish

LEMMA ResetFinishInv ==
    ASSUME NEW h \in Threads, IInv, ResetFinish(h)
    PROVE  IInv'
BY QuietEnd DEF ResetFinish

\* Without silent errors, a call that does not throw has been applied.
LEMMA NoSilentError ==
    ASSUME NEW o \in Outcomes, ~Throws(o), "error" \notin Faults
    PROVE  Applied(o)
BY FaultsAssumption DEF Outcomes, Throws, Applied

LEMMA DeactivateKept ==
    ASSUME TypeOK, NEW ts, token' = Deactivate(ts)
    PROVE  /\ token' \in [Tokens -> TokenRecords]
           /\ \A t \in Tokens : Kept(t) /\ (t \in ts => ~token'[t].active)
<1>1. ASSUME NEW t \in Tokens
      PROVE  /\ token'[t] \in TokenRecords /\ Kept(t)
             /\ t \in ts => ~token'[t].active
  <2>1. token[t] \in TokenRecords
    BY DEF TypeOK
  <2>2. token'[t] = IF t \in ts THEN [token[t] EXCEPT !.active = FALSE] ELSE token[t]
    BY DEF Deactivate
  <2>3. QED
    BY <2>1, <2>2 DEF TokenRecords, Kept
<1>2. token' = [t \in Tokens |-> token'[t]]
  BY DEF Deactivate
<1>3. QED
  BY <1>1, <1>2

\* rotate deactivates one token.
LEMMA RotateKept ==
    ASSUME TypeOK, NEW t \in Tokens, token' = [token EXCEPT ![t].active = FALSE]
    PROVE  /\ token' \in [Tokens -> TokenRecords]
           /\ \A x \in Tokens : Kept(x)
           /\ ~token'[t].active
<1>1. token' = Deactivate({t})
  BY DEF Deactivate, TypeOK
<1>2. QED
  BY <1>1, DeactivateKept

\* The other tables, when a step writes refresh_token only.
LEMMA TokenWriteFrame ==
    ASSUME IInv, UNCHANGED <<status, session, reset, issued>>
    PROVE  /\ SessionsForward /\ ResetsForward
           /\ \A s \in Sessions \cap issued' : session'[s].user # Null
BY DEF SessionsForward, ResetsForward, IInv, Records

LEMMA SameTokens ==
    ASSUME TypeOK, token' = token
    PROVE  token' \in [Tokens -> TokenRecords] /\ \A t \in Tokens : Kept(t)
BY DEF Kept, TypeOK

\* A write to refresh_token alone that keeps the records: what is left to show
\* is what Handler says when the handler goes on.
LEMMA TokenWrite ==
    ASSUME NEW h \in Threads, NEW o, NEW pc \in PCs, IInv,
           UNCHANGED <<status, session, reset, issued>>,
           token' \in [Tokens -> TokenRecords], \A t \in Tokens : Kept(t),
           Continue(h, o, [thread[h] EXCEPT !.pc = pc]),
           ~Throws(o) /\ Goto(h, [thread[h] EXCEPT !.pc = pc]) => Handler(h)'
    PROVE  IInv'
<1>1. TypeOK /\ [thread[h] EXCEPT !.pc = pc] \in ThreadRecords
  BY PcOnly DEF IInv
<1>2. CASE End(h)
  <2>1. TypeOK'
    BY <1>1, <1>2, EndType DEF TypeOK
  <2>2. QED
    BY <1>2, <2>1, TokenWriteFrame, WriteEnd
<1>3. CASE ~Throws(o) /\ Goto(h, [thread[h] EXCEPT !.pc = pc])
  <2>1. TypeOK'
    BY <1>1, <1>3, GotoType DEF TypeOK
  <2>2. Alone(h)
    BY <1>1, <1>3, GotoAlone
  <2>3. QED
    BY <1>3, <2>1, <2>2, TokenWriteFrame, HandlerStep
<1>4. QED
  BY <1>2, <1>3 DEF Continue

LEMMA RefreshRotateInv ==
    ASSUME NEW h \in Threads, IInv, RefreshRotate(h)
    PROVE  IInv'
<1> DEFINE rec == [thread[h] EXCEPT !.pc = "issue.touch"]
<1>1. /\ TypeOK /\ Handler(h) /\ UNCHANGED <<status, session, reset, issued>>
      /\ thread[h].pc = "refresh.rotate"
  BY DEF RefreshRotate, IInv, At
<1>2. PICK o \in Outcomes :
        /\ token' = IF Applied(o) THEN [token EXCEPT ![thread[h].tok].active = FALSE]
                    ELSE token
        /\ Continue(h, o, rec)
  BY DEF RefreshRotate
<1>3. thread[h].tok \in Tokens
  BY <1>1 DEF Handler, Locals, RefreshPCs
<1>4. /\ token' \in [Tokens -> TokenRecords] /\ \A t \in Tokens : Kept(t)
      /\ Applied(o) => ~token'[thread[h].tok].active
  BY <1>1, <1>2, <1>3, RotateKept, SameTokens
<1>5. ASSUME ~Throws(o), Goto(h, rec)
      PROVE  Handler(h)'
  <2>1. /\ rec.pc = "issue.touch"
        /\ rec.user = thread[h].user /\ rec.sess = thread[h].sess
        /\ rec.tok = thread[h].tok /\ rec.rst = thread[h].rst
    BY <1>1, PcOnly DEF PCs
  <2>2. thread'[h] = rec /\ alive'[h] = alive[h]
    BY <1>1, <1>5, GotoAlone
  <2> HIDE DEF rec
  <2>3. Locals(h)'
    BY <1>1, <1>3, <1>4, <2>1, <2>2
       DEF Handler, Locals, RefreshPCs, IssuingPCs, LogoutPCs, ResetPCs, Kept
  <2>4. PendingChecks(h)' /\ LiveCredentials(h)'
    BY <1>1, <2>1, <2>2
       DEF Handler, PendingChecks, LiveCredentials, SessionChecked, UserChecked
  <2>5. FirstMint(h)'
    BY <1>1, <1>2, <1>4, <1>5, <2>1, <2>2, NoSilentError
       DEF Handler, FirstMint, IssuingPCs, RefreshPCs, SessionChecked, Kept
  <2>6. Revoking(h)'
    BY <2>1, <2>2 DEF Revoking, LogoutPCs
  <2>7. QED
    BY <2>3, <2>4, <2>5, <2>6 DEF Handler
<1>6. "issue.touch" \in PCs
  BY DEF PCs
<1>7. QED
  BY <1>1, <1>2, <1>4, <1>5, <1>6, TokenWrite

LEMMA LogoutTokensInv ==
    ASSUME NEW h \in Threads, IInv, LogoutTokens(h)
    PROVE  IInv'
<1> DEFINE rec == [thread[h] EXCEPT !.pc = "logout.finish"]
<1>1. /\ TypeOK /\ Handler(h) /\ UNCHANGED <<status, session, reset, issued>>
      /\ thread[h].pc = "logout.tokens"
  BY DEF LogoutTokens, IInv, At
<1>2. PICK o \in Outcomes :
        /\ token' = IF Applied(o)
                    THEN Deactivate({t \in Tokens : token[t].session = thread[h].sess})
                    ELSE token
        /\ Continue(h, o, rec)
  BY DEF LogoutTokens
<1>3. /\ token' \in [Tokens -> TokenRecords] /\ \A t \in Tokens : Kept(t)
      /\ Applied(o) => \A t \in Tokens :
            token[t].session = thread[h].sess => ~token'[t].active
  BY <1>1, <1>2, DeactivateKept, SameTokens
<1>4. ASSUME ~Throws(o), Goto(h, rec)
      PROVE  Handler(h)'
  <2>1. /\ rec.pc = "logout.finish"
        /\ rec.user = thread[h].user /\ rec.sess = thread[h].sess
        /\ rec.tok = thread[h].tok /\ rec.rst = thread[h].rst
    BY <1>1, PcOnly DEF PCs
  <2>2. thread'[h] = rec /\ alive'[h] = alive[h]
    BY <1>1, <1>4, GotoAlone
  <2> HIDE DEF rec
  <2>3. Locals(h)'
    <3>1. thread[h].tok \in Tokens \cup {Null}
      BY <1>1 DEF TypeOK, ThreadRecords
    <3>2. QED
      BY <1>1, <1>3, <2>1, <2>2, <3>1
         DEF Handler, Locals, RefreshPCs, IssuingPCs, LogoutPCs, ResetPCs, Kept
  <2>4. PendingChecks(h)' /\ LiveCredentials(h)'
    BY <1>1, <2>1, <2>2
       DEF Handler, PendingChecks, LiveCredentials, SessionChecked, UserChecked
  <2>5. FirstMint(h)'
    BY <2>1, <2>2 DEF FirstMint, IssuingPCs, RefreshPCs, SessionChecked
  <2>6. Revoking(h)'
    BY <1>1, <1>2, <1>3, <1>4, <2>1, <2>2, NoSilentError
       DEF Handler, Revoking, LogoutPCs, Kept
  <2>7. QED
    BY <2>3, <2>4, <2>5, <2>6 DEF Handler
<1>5. "logout.finish" \in PCs
  BY DEF PCs
<1>6. QED
  BY <1>1, <1>2, <1>3, <1>4, <1>5, TokenWrite

LEMMA ResetRevokeInv ==
    ASSUME NEW h \in Threads, IInv, ResetRevoke(h)
    PROVE  IInv'
<1> DEFINE rec == [thread[h] EXCEPT !.pc = "reset.finish"]
<1>1. /\ TypeOK /\ Handler(h) /\ UNCHANGED <<status, session, reset, issued>>
      /\ thread[h].pc = "reset.revoke"
  BY DEF ResetRevoke, IInv, At
<1>2. PICK o \in Outcomes :
        /\ token' = IF Applied(o)
                    THEN Deactivate({t \in Tokens : token[t].user = thread[h].user})
                    ELSE token
        /\ Continue(h, o, rec)
  BY DEF ResetRevoke
<1>3. /\ token' \in [Tokens -> TokenRecords] /\ \A t \in Tokens : Kept(t)
      /\ Applied(o) => \A t \in Tokens :
            token[t].user = thread[h].user => ~token'[t].active
  BY <1>1, <1>2, DeactivateKept, SameTokens
<1>4. ASSUME ~Throws(o), Goto(h, rec)
      PROVE  Handler(h)'
  <2>1. /\ rec.pc = "reset.finish"
        /\ rec.user = thread[h].user /\ rec.sess = thread[h].sess
        /\ rec.tok = thread[h].tok /\ rec.rst = thread[h].rst
    BY <1>1, PcOnly DEF PCs
  <2>2. thread'[h] = rec /\ alive'[h] = alive[h]
    BY <1>1, <1>4, GotoAlone
  <2> HIDE DEF rec
  <2>3. Locals(h)'
    <3>1. thread[h].tok \in Tokens \cup {Null}
      BY <1>1 DEF TypeOK, ThreadRecords
    <3>2. QED
      BY <1>1, <1>3, <2>1, <2>2, <3>1
         DEF Handler, Locals, RefreshPCs, IssuingPCs, LogoutPCs, ResetPCs, Kept
  <2>4. PendingChecks(h)' /\ LiveCredentials(h)'
    BY <1>1, <2>1, <2>2
       DEF Handler, PendingChecks, LiveCredentials, SessionChecked, UserChecked
  <2>5. FirstMint(h)'
    BY <2>1, <2>2 DEF FirstMint, IssuingPCs, RefreshPCs, SessionChecked
  <2>6. Revoking(h)'
    BY <1>1, <1>2, <1>3, <1>4, <2>1, <2>2, NoSilentError
       DEF Handler, Revoking, LogoutPCs, Kept
  <2>7. QED
    BY <2>3, <2>4, <2>5, <2>6 DEF Handler
<1>5. "reset.finish" \in PCs
  BY DEF PCs
<1>6. QED
  BY <1>1, <1>2, <1>3, <1>4, <1>5, TokenWrite

LEMMA ResetMarkInv ==
    ASSUME NEW h \in Threads, IInv, ResetMark(h)
    PROVE  IInv'
<1> DEFINE rec == [thread[h] EXCEPT !.pc = "reset.revoke"]
<1>1. /\ TypeOK /\ Handler(h) /\ UNCHANGED <<status, session, token, issued>>
      /\ thread[h].pc = "reset.mark"
  BY DEF ResetMark, IInv, At
<1>2. PICK o \in Outcomes :
        /\ reset' = IF Applied(o) THEN [reset EXCEPT ![thread[h].rst].used = TRUE]
                    ELSE reset
        /\ Continue(h, o, rec)
  BY DEF ResetMark
<1>3. /\ thread[h].rst \in Resets /\ rec \in ThreadRecords
      /\ "reset.revoke" \in PCs
  BY <1>1, PcOnly DEF Handler, Locals, ResetPCs, PCs
<1>4. /\ reset' \in [Resets -> [user : Users \cup {Null}, used : BOOLEAN]]
      /\ ResetsForward
      /\ Applied(o) => reset'[thread[h].rst].used
  BY <1>1, <1>2, <1>3 DEF TypeOK, ResetsForward
<1>5. /\ SessionsForward /\ \A t \in Tokens : Kept(t)
      /\ \A s \in Sessions \cap issued' : session'[s].user # Null
  BY <1>1 DEF SessionsForward, Kept, IInv, Records
<1>6. TypeOK'
  BY <1>1, <1>2, <1>3, <1>4, EndType, GotoType DEF Continue, TypeOK
<1>7. CASE End(h)
  BY <1>1, <1>4, <1>5, <1>6, <1>7, WriteEnd
<1>8. CASE ~Throws(o) /\ Goto(h, rec)
  <2>1. /\ rec.pc = "reset.revoke"
        /\ rec.user = thread[h].user /\ rec.sess = thread[h].sess
        /\ rec.tok = thread[h].tok /\ rec.rst = thread[h].rst
    BY <1>1, PcOnly DEF PCs
  <2>2. thread'[h] = rec /\ alive'[h] = alive[h] /\ Alone(h)
    BY <1>1, <1>8, GotoAlone
  <2> HIDE DEF rec
  <2>3. Locals(h)'
    BY <1>1, <2>1, <2>2
       DEF Handler, Locals, RefreshPCs, IssuingPCs, LogoutPCs, ResetPCs
  <2>4. PendingChecks(h)' /\ LiveCredentials(h)'
    BY <1>1, <2>1, <2>2
       DEF Handler, PendingChecks, LiveCredentials, SessionChecked, UserChecked
  <2>5. FirstMint(h)'
    BY <2>1, <2>2 DEF FirstMint, IssuingPCs, RefreshPCs, SessionChecked
  <2>6. Revoking(h)'
    BY <1>2, <1>4, <1>8, <2>1, <2>2, NoSilentError DEF Revoking, LogoutPCs
  <2>7. Handler(h)'
    BY <2>3, <2>4, <2>5, <2>6 DEF Handler
  <2>8. QED
    BY <1>1, <1>4, <1>5, <1>6, <2>2, <2>7, HandlerStep
<1>9. QED
  BY <1>2, <1>7, <1>8 DEF Continue

LEMMA LogoutSessionInv ==
    ASSUME NEW h \in Threads, NEW s \in Sessions, IInv, LogoutSession(h, s)
    PROVE  IInv'
<1> DEFINE rec == [Idle EXCEPT !.pc = "logout.tokens", !.sess = s]
<1>1. /\ TypeOK /\ Records /\ Handler(h)
      /\ UNCHANGED <<status, token, reset, issued>>
      /\ s \in issued
  BY DEF LogoutSession, IInv
<1>2. PICK o \in Outcomes :
        /\ session' = IF Applied(o) THEN [session EXCEPT ![s].revoked = TRUE]
                      ELSE session
        /\ \/ Throws(o) /\ UNCHANGED <<thread, alive>>
           \/ ~Throws(o) /\ Begin(h, rec)
  BY DEF LogoutSession
<1>3. /\ rec \in ThreadRecords /\ rec.pc = "logout.tokens" /\ rec.sess = s
      /\ rec.tok = Null /\ rec.rst = Null
  BY DEF Idle, ThreadRecords, PCs
<1>4. /\ session' \in [Sessions -> [user : Users \cup {Null}, revoked : BOOLEAN]]
      /\ SessionsForward
      /\ Applied(o) => session'[s].revoked
      /\ \A x \in Sessions : session'[x].user = session[x].user
  BY <1>1, <1>2 DEF TypeOK, SessionsForward
<1>5. /\ ResetsForward /\ \A t \in Tokens : Kept(t)
      /\ \A x \in Sessions \cap issued' : session'[x].user # Null
  BY <1>1, <1>4 DEF ResetsForward, Kept, Records
<1>6. CASE UNCHANGED <<thread, alive>>
  <2>1. TypeOK' /\ Alone(h)
    BY <1>1, <1>4, <1>6 DEF TypeOK, Alone
  <2>2. Handler(h)'
    <3>1. /\ thread[h].sess \in Sessions \cup {Null}
          /\ thread'[h] = thread[h] /\ alive'[h] = alive[h]
      BY <1>1, <1>6 DEF TypeOK, ThreadRecords
    <3>2. Locals(h)' /\ PendingChecks(h)' /\ LiveCredentials(h)'
      BY <1>1, <1>4, <3>1 DEF Handler, Locals, PendingChecks, LiveCredentials,
           SessionsForward
    <3>3. FirstMint(h)' /\ Revoking(h)'
      BY <1>1, <1>4, <3>1 DEF Handler, Locals, FirstMint, Revoking, SessionsForward
    <3>4. QED
      BY <3>2, <3>3 DEF Handler
  <2>3. QED
    BY <1>1, <1>4, <1>5, <2>1, <2>2, HandlerStep
<1>7. CASE ~Throws(o) /\ Begin(h, rec)
  <2>1. TypeOK'
    BY <1>1, <1>3, <1>4, <1>7, BeginType DEF TypeOK
  <2>2. thread'[h] = rec /\ alive'[h] = AliveNow /\ Alone(h)
    BY <1>1, <1>7, BeginAlone
  <2>3. \A t \in Tokens \cap AliveNow : token[t].active
    BY IdsAssumption DEF AliveNow
  <2> HIDE DEF rec
  <2>4. Locals(h)'
    BY <1>1, <1>3, <1>4, <2>2, <2>3
       DEF Locals, RefreshPCs, IssuingPCs, LogoutPCs, ResetPCs, Records
  <2>5. PendingChecks(h)' /\ LiveCredentials(h)'
    BY <1>3, <2>2 DEF PendingChecks, LiveCredentials, SessionChecked, UserChecked
  <2>6. FirstMint(h)'
    BY <1>3, <2>2 DEF FirstMint, SessionChecked
  <2>7. Revoking(h)'
    BY <1>3, <1>4, <1>7, <2>2, NoSilentError DEF Revoking
  <2>8. Handler(h)'
    BY <2>4, <2>5, <2>6, <2>7 DEF Handler
  <2>9. QED
    BY <1>1, <1>4, <1>5, <2>1, <2>2, <2>8, HandlerStep
<1>8. QED
  BY <1>2, <1>6, <1>7

-----------------------------------------------------------------------------
(* Steps that create a record.                                             *)

LEMMA IssueSessionInv ==
    ASSUME NEW h \in Threads, IInv, IssueSession(h)
    PROVE  IInv'
<1>1. /\ TypeOK /\ Records /\ Handler(h) /\ UNCHANGED <<status, token, reset, issued>>
      /\ thread[h].pc = "issue.session"
  BY DEF IssueSession, IInv, At
<1>2. PICK o \in Outcomes, s \in Sessions :
        /\ session[s].user = Null
        /\ session' = IF Applied(o) THEN [session EXCEPT ![s].user = thread[h].user]
                      ELSE session
        /\ Continue(h, o, [thread[h] EXCEPT !.pc = "issue.token",
                              !.sess = IF Applied(o) THEN s ELSE Null])
  BY DEF IssueSession
<1> DEFINE sess == IF Applied(o) THEN s ELSE Null
           rec == [thread[h] EXCEPT !.pc = "issue.token", !.sess = sess]
<1>3. /\ thread[h].user \in Users /\ thread[h].user # Null
      /\ thread[h] \in ThreadRecords
      /\ sess \in Sessions \cup {Null}
  BY <1>1, IdsAssumption DEF Handler, Locals, IssuingPCs, TypeOK
<1>4. /\ rec \in ThreadRecords /\ rec.pc = "issue.token" /\ rec.sess = sess
      /\ rec.user = thread[h].user /\ rec.tok = thread[h].tok
      /\ rec.rst = thread[h].rst
  <2> HIDE DEF sess
  <2>1. QED
    BY <1>3 DEF ThreadRecords, PCs
<1>5. /\ session' \in [Sessions -> [user : Users \cup {Null}, revoked : BOOLEAN]]
      /\ SessionsForward
      /\ \A x \in Sessions : session[x].user # Null => session'[x].user # Null
      /\ Applied(o) => session'[s].user # Null
  BY <1>1, <1>2, <1>3 DEF TypeOK, SessionsForward
<1>6. /\ ResetsForward /\ \A t \in Tokens : Kept(t)
      /\ \A x \in Sessions \cap issued' : session'[x].user # Null
  BY <1>1, <1>5 DEF ResetsForward, Kept, Records
<1>7. CASE End(h)
  <2>1. TypeOK'
    BY <1>1, <1>5, <1>7, EndType DEF TypeOK
  <2>2. QED
    BY <1>1, <1>5, <1>6, <1>7, <2>1, WriteEnd
<1>8. CASE Goto(h, rec)
  <2> HIDE DEF rec
  <2>1. TypeOK'
    BY <1>1, <1>4, <1>5, <1>8, GotoType DEF TypeOK
  <2>2. thread'[h] = rec /\ alive'[h] = alive[h] /\ Alone(h)
    BY <1>1, <1>8, GotoAlone
  <2>3. sess # Null => session'[sess].user # Null /\ session[sess].user = Null
    BY <1>2, <1>5
  <2> HIDE DEF sess
  <2>4. Locals(h)'
    BY <1>1, <1>3, <1>4, <2>2, <2>3
       DEF Handler, Locals, RefreshPCs, IssuingPCs, LogoutPCs, ResetPCs
  <2>5. PendingChecks(h)' /\ LiveCredentials(h)'
    BY <1>1, <1>4, <2>2
       DEF Handler, PendingChecks, LiveCredentials, SessionChecked, UserChecked
  <2>6. FirstMint(h)' /\ Revoking(h)'
    BY <1>1, <1>4, <2>2, <2>3 DEF Handler, Locals, FirstMint, Revoking,
         LogoutPCs, Records
  <2>7. Handler(h)'
    BY <2>4, <2>5, <2>6 DEF Handler
  <2>8. QED
    BY <1>1, <1>5, <1>6, <2>1, <2>2, <2>7, HandlerStep
<1>9. QED
  BY <1>2, <1>7, <1>8 DEF Continue

\* The mint.  The only step that makes a token active, and the one on which the
\* bounds on tokens per thread turn.
LEMMA IssueTokenInv ==
    ASSUME NEW h \in Threads, IInv, IssueToken(h)
    PROVE  IInv'
<1>1. /\ TypeOK /\ Records /\ Handler(h) /\ UNCHANGED <<status, session, reset, issued>>
      /\ OneChildPerThread /\ OneLateTokenPerThread
      /\ thread[h].pc = "issue.token"
  BY DEF IssueToken, IInv, At
<1>2. PICK o \in Outcomes, t \in Tokens :
        /\ token[t].user = Null
        /\ token' = IF Applied(o) THEN [token EXCEPT ![t] = Minted(h)] ELSE token
        /\ Continue(h, o, [thread[h] EXCEPT !.pc = "issue.finish",
                              !.new = IF Applied(o) THEN t ELSE Null])
  BY DEF IssueToken
<1> DEFINE new == IF Applied(o) THEN t ELSE Null
           rec == [thread[h] EXCEPT !.pc = "issue.finish", !.new = new]
<1>3. /\ thread[h] \in ThreadRecords /\ new \in Tokens \cup {Null}
      /\ thread[h].user \in Users /\ thread[h].user # Null
      /\ thread[h].sess \in Sessions \cup {Null}
      /\ thread[h].tok \in Tokens \cup {Null}
  BY <1>1, IdsAssumption DEF TypeOK, ThreadRecords, Handler, Locals, IssuingPCs
<1>4. /\ rec \in ThreadRecords /\ rec.pc = "issue.finish"
      /\ rec.sess = thread[h].sess /\ rec.user = thread[h].user
      /\ rec.tok = thread[h].tok /\ rec.rst = thread[h].rst
  <2> HIDE DEF new
  <2>1. QED
    BY <1>3 DEF ThreadRecords, PCs
<1>5. Minted(h) \in TokenRecords
  <2>1. (thread[h].sess # Null /\ session[thread[h].sess].revoked) \in BOOLEAN
    BY <1>1, <1>3 DEF TypeOK
  <2>2. QED
    BY <1>3, <2>1 DEF Minted, TokenRecords
<1>6. /\ token' \in [Tokens -> TokenRecords]
      /\ \A x \in Tokens \ {t} : token'[x] = token[x]
      /\ token'[t] = token[t] \/ token'[t] = Minted(h)
  BY <1>1, <1>2, <1>5 DEF TypeOK
<1>7. /\ Minted(h).user = thread[h].user /\ Minted(h).session = thread[h].sess
      /\ Minted(h).active = TRUE /\ Minted(h).parent = thread[h].tok
      /\ Minted(h).by = h
      /\ Minted(h).late =>
            thread[h].sess # Null /\ session[thread[h].sess].revoked
  BY DEF Minted
<1>8. /\ SessionsForward /\ ResetsForward
      /\ \A x \in Tokens : Kept(x) \/ NewBy(x, h)
  BY <1>1, <1>2, <1>6, <1>7 DEF SessionsForward, ResetsForward, Kept, NewBy
<1>9. Records'
  <2>1. \A x \in Tokens : /\ token[x].session \in Sessions \cup {Null}
                          /\ token[x].parent \in Tokens \cup {Null}
    BY <1>1 DEF TypeOK, TokenRecords
  <2>2. /\ \A x \in Tokens : token'[x].active => token'[x].user # Null
        /\ \A x \in Tokens : token'[x].session # Null
              => session'[token'[x].session].user # Null
        /\ \A s \in Sessions \cap issued' : session'[s].user # Null
    BY <1>1, <1>3, <1>6, <1>7 DEF Records, Handler, Locals
  <2>3. ASSUME "error" \notin Faults, NEW x \in Tokens, token'[x].parent # Null
        PROVE  /\ token'[token'[x].parent].user # Null
               /\ ~token'[token'[x].parent].active
    <3>1. /\ token'[x].parent \in Tokens \ {t}
          /\ token[token'[x].parent].user # Null
          /\ ~token[token'[x].parent].active
      BY <1>1, <1>2, <1>3, <1>6, <1>7, <2>1, <2>3 DEF Records, Handler, Locals, FirstMint
    <3>2. QED
      BY <3>1, <1>6
  <2>4. ASSUME NEW x \in Tokens, token'[x].late
        PROVE  token'[x].session # Null /\ session'[token'[x].session].revoked
    <3>1. CASE token'[x] = token[x]
      BY <1>1, <2>4, <3>1 DEF Records
    <3>2. CASE token'[x] = Minted(h)
      BY <1>1, <1>7, <2>4, <3>2
    <3>3. QED
      BY <1>6, <3>1, <3>2
  <2>5. QED
    BY <2>2, <2>3, <2>4 DEF Records
<1>10. OneChildPerThread'
  <2>1. ASSUME "error" \notin Faults, NEW x \in Tokens,
               token[x].by = h, thread[h].tok # Null
        PROVE  token[x].parent # thread[h].tok
    BY <1>1, <2>1 DEF Handler, FirstMint, IssuingPCs
  <2>2. QED
    BY <1>1, <1>6, <1>7, <2>1 DEF OneChildPerThread
<1>11. OneLateTokenPerThread'
  <2>1. ASSUME NEW x \in Tokens, token[x].late, token[x].by = h, thread[h].sess # Null
        PROVE  token[x].session # thread[h].sess
    BY <1>1, <2>1 DEF Handler, FirstMint
  <2>2. ASSUME NEW a \in Tokens, NEW b \in Tokens \ {t},
               token'[a].late, token'[b].late, token'[a].by = token'[b].by,
               token'[a].session = token'[b].session
        PROVE  a = b
    <3>1. token'[b] = token[b]
      BY <1>6
    <3>2. CASE token'[a] = token[a]
      BY <1>1, <2>2, <3>1, <3>2 DEF OneLateTokenPerThread
    <3>3. CASE token'[a] = Minted(h)
      BY <1>7, <2>1, <2>2, <3>1, <3>3
    <3>4. QED
      BY <1>6, <3>2, <3>3
  <2>3. QED
    BY <2>2 DEF OneLateTokenPerThread
<1>12. TypeOK' /\ Alone(h)
  BY <1>1, <1>2, <1>4, <1>6, EndType, GotoType, EndAlone, GotoAlone DEF Continue, TypeOK
<1>13. Handler(h)'
  <2>1. CASE End(h)
    BY <1>1, <2>1, EndAlone, IdleHandler
  <2>2. CASE Goto(h, rec)
    <3> HIDE DEF rec
    <3>1. thread'[h] = rec /\ alive'[h] = alive[h]
      BY <1>1, <2>2, GotoAlone
    <3>2. Locals(h)'
      BY <1>1, <1>3, <1>4, <1>6, <1>7, <3>1
         DEF Handler, Locals, RefreshPCs, IssuingPCs, LogoutPCs, ResetPCs
    <3>3. PendingChecks(h)' /\ LiveCredentials(h)'
      BY <1>1, <1>4, <3>1
         DEF Handler, PendingChecks, LiveCredentials, SessionChecked, UserChecked
    <3>4. FirstMint(h)' /\ Revoking(h)'
      BY <1>4, <3>1 DEF FirstMint, Revoking, IssuingPCs, RefreshPCs,
           SessionChecked, LogoutPCs
    <3>5. QED
      BY <3>2, <3>3, <3>4 DEF Handler
  <2>3. QED
    BY <1>2, <2>1, <2>2 DEF Continue
<1>14. status' = status
  BY <1>1
<1>15. \A k \in Threads : Handler(k)'
  BY <1>1, <1>8, <1>12, <1>13, <1>14, OthersKeep DEF IInv
<1>16. QED
  BY <1>9, <1>10, <1>11, <1>12, <1>15 DEF IInv

LEMMA ForgotPasswordInv ==
    ASSUME NEW u \in Users, IInv, ForgotPassword(u)
    PROVE  IInv'
<1>1. PICK r \in Resets :
        /\ reset[r].user = Null
        /\ reset' = [reset EXCEPT ![r].user = u]
        /\ issued' \subseteq issued \cup {r}
  BY DEF ForgotPassword
<1>2. /\ TypeOK /\ Records
      /\ UNCHANGED <<status, session, token, thread, alive>>
  BY DEF ForgotPassword, IInv
<1>3. TypeOK'
  BY <1>1, <1>2 DEF TypeOK
<1>4. /\ SessionsForward /\ ResetsForward /\ \A t \in Tokens : Kept(t)
      /\ \A x \in Resets : reset[x].used => reset'[x].used
      /\ \A s \in Sessions \cap issued' : session'[s].user # Null
  BY <1>1, <1>2, IdsAssumption
     DEF TypeOK, SessionsForward, ResetsForward, Kept, Records
<1>5. ASSUME NEW h \in Threads
      PROVE  Handler(h)'
  <2>1. /\ Handler(h) /\ thread'[h] = thread[h] /\ alive'[h] = alive[h]
        /\ thread[h].pc \in {"reset.revoke", "reset.finish"} => thread[h].rst \in Resets
    BY <1>2 DEF IInv, Handler, Locals, ResetPCs
  <2>2. Locals(h)' /\ PendingChecks(h)' /\ LiveCredentials(h)'
    BY <1>2, <2>1 DEF Handler, Locals, PendingChecks, LiveCredentials
  <2>3. FirstMint(h)' /\ Revoking(h)'
    BY <1>2, <1>4, <2>1 DEF Handler, FirstMint, Revoking
  <2>4. QED
    BY <2>2, <2>3 DEF Handler
<1>6. QED
  BY <1>2, <1>3, <1>4, <1>5, RecordsKeep DEF IInv

\* A user enabled during a request counts as valid on arrival.
LEMMA AdminUpdateInv ==
    ASSUME NEW u \in Users, NEW st \in {"active", "disabled"}, IInv, AdminUpdate(u, st)
    PROVE  IInv'
<1>1. /\ TypeOK /\ Records /\ UNCHANGED <<session, token, reset, thread, issued>>
      /\ status' = [status EXCEPT ![u] = st]
      /\ alive' = IF st = "active"
                  THEN [h \in Threads |-> IF At(h, "idle") THEN {} ELSE alive[h] \cup {u}]
                  ELSE alive
  BY DEF AdminUpdate, IInv
<1>2. TypeOK'
  BY <1>1 DEF TypeOK
<1>3. /\ SessionsForward /\ \A t \in Tokens : Kept(t)
      /\ \A s \in Sessions \cap issued' : session'[s].user # Null
  BY <1>1 DEF SessionsForward, Kept, Records
<1>4. ASSUME NEW h \in Threads
      PROVE  Handler(h)'
  <2>1. CASE thread[h].pc = "idle" /\ st = "active"
    BY <1>1, <2>1, IdleHandler DEF IInv, Handler, Locals, At
  <2>2. CASE ~(thread[h].pc = "idle" /\ st = "active")
    <3>1. /\ Handler(h) /\ thread'[h] = thread[h]
          /\ alive[h] \subseteq alive'[h] /\ alive'[h] \subseteq alive[h] \cup {u}
          /\ Tokens \cap alive'[h] = Tokens \cap alive[h]
      BY <1>1, <2>2, IdsAssumption DEF IInv, At
    <3>2. thread[h].pc \in {"refresh.session", "refresh.user"} =>
             /\ thread[h].user \in Users
             /\ st = "active" => u \in alive'[h]
      BY <1>1, <2>2, <3>1 DEF Handler, Locals, IssuingPCs, RefreshPCs, At
    <3>3. Locals(h)'
      BY <1>1, <3>1 DEF Handler, Locals
    <3>4. PendingChecks(h)'
      BY <1>1, <3>1, <3>2 DEF Handler, PendingChecks, TypeOK
    <3>5. LiveCredentials(h)'
      BY <1>1, <3>1 DEF Handler, LiveCredentials
    <3>6. FirstMint(h)' /\ Revoking(h)'
      BY <1>1, <3>1 DEF Handler, FirstMint, Revoking
    <3>7. QED
      BY <3>3, <3>4, <3>5, <3>6 DEF Handler
  <2>3. QED
    BY <2>1, <2>2
<1>5. QED
  BY <1>1, <1>2, <1>3, <1>4, RecordsKeep DEF IInv

LEMMA CrashInv ==
    ASSUME IInv, Crash
    PROVE  IInv'
<1>1. UNCHANGED <<db, issued>> /\ TypeOK
  BY DEF Crash, IInv
<1>2. TypeOK'
  BY <1>1, IdleType, QuietType DEF Crash
<1>3. \A h \in Threads : Handler(h)'
  BY IdleHandler DEF Crash
<1>4. QED
  BY <1>1, <1>2, <1>3, QuietFrame, RecordsKeep DEF IInv

-----------------------------------------------------------------------------
LEMMA InitInv == Init => IInv
<1> SUFFICES ASSUME Init PROVE IInv
  OBVIOUS
<1>1. TypeOK
  BY IdleType DEF Init, TypeOK, NoSession, NoToken, NoReset, TokenRecords
<1>2. Records
  BY DEF Init, Records, NoToken
<1>3. OneChildPerThread /\ OneLateTokenPerThread
  BY DEF Init, OneChildPerThread, OneLateTokenPerThread, NoToken
<1>4. ASSUME NEW h \in Threads
      PROVE  Handler(h)
  <2>1. /\ thread[h] = Idle /\ alive[h] = {}
        /\ Idle.pc = "idle" /\ Idle.user = Null /\ Idle.sess = Null
        /\ Idle.tok = Null /\ Idle.rst = Null
    BY DEF Init, Idle
  <2>2. QED
    BY <2>1 DEF Handler, Locals, PendingChecks, LiveCredentials, FirstMint, Revoking,
                RefreshPCs, IssuingPCs, LogoutPCs, ResetPCs, SessionChecked, UserChecked
<1>5. QED
  BY <1>1, <1>2, <1>3, <1>4 DEF IInv

LEMMA StutterInv == IInv /\ UNCHANGED vars => IInv'
<1> SUFFICES ASSUME IInv, UNCHANGED vars PROVE IInv'
  OBVIOUS
<1>1. UNCHANGED <<db, issued, thread, alive>>
  BY DEF vars, db
<1>2. TypeOK'
  BY <1>1, QuietType DEF IInv, TypeOK
<1>3. \A h \in Threads : Handler(h)'
  BY <1>1 DEF IInv, Handler, Locals, PendingChecks, LiveCredentials, FirstMint,
              Revoking, db
<1>4. QED
  BY <1>1, <1>2, <1>3, QuietFrame, RecordsKeep DEF IInv

LEMMA NextInv == IInv /\ [Next]_vars => IInv'
<1> SUFFICES ASSUME IInv, [Next]_vars PROVE IInv'
  OBVIOUS
<1>1. ASSUME NEW h \in Threads, LoginStep(h) \/ IssueStep(h)
      PROVE  IInv'
  BY <1>1, LoginInv, IssueSessionInv, IssueTouchInv, IssueTokenInv, IssueFinishInv
     DEF LoginStep, IssueStep
<1>2. ASSUME NEW h \in Threads, RefreshStep(h)
      PROVE  IInv'
  BY <1>2, RefreshLookupInv, RefreshSessionInv, RefreshUserInv, RefreshRotateInv
     DEF RefreshStep
<1>3. ASSUME NEW h \in Threads, LogoutStep(h) \/ ResetStep(h)
      PROVE  IInv'
  BY <1>3, LogoutSessionInv, LogoutTokensInv, LogoutFinishInv,
     ResetLookupInv, ResetUserInv, ResetMarkInv, ResetRevokeInv, ResetFinishInv
     DEF LogoutStep, ResetStep
<1>4. QED
  BY <1>1, <1>2, <1>3, ForgotPasswordInv, AdminUpdateInv, CrashInv, StutterInv
     DEF Next

\* The inductive invariant holds of every behaviour.
THEOREM Invariance == Spec => []IInv
BY InitInv, NextInv, PTL DEF Spec

\* Every record and every handler's locals keep their types, and clients are
\* only handed ids of records (issueTokens' answers).
THEOREM TypeCorrect == Spec => []TypeOK
<1>1. IInv => TypeOK
  BY DEF IInv
<1>2. QED
  BY <1>1, Invariance, PTL

\* A refresh or a reset gets no further than its arguments were valid since it
\* arrived (refresh's three checks, resetPassword's lookup).
THEOREM LiveCredentialsOnly == Spec => []OnlyLiveCredentials
<1>1. IInv => OnlyLiveCredentials
  BY DEF IInv, Handler, LiveCredentials, OnlyLiveCredentials
<1>2. QED
  BY <1>1, Invariance, PTL

\* A thread never spends a refresh token twice: the successors of a token are
\* no more than the threads (refresh, issueTokens).
THEOREM RotationBound == Spec => []OneChildPerThread
<1>1. IInv => OneChildPerThread
  BY DEF IInv
<1>2. QED
  BY <1>1, Invariance, PTL

\* Whatever fails, a revoked session gets at most one more token per thread
\* (logout against the refreshes in flight).
THEOREM LateBound == Spec => []OneLateTokenPerThread
<1>1. IInv => OneLateTokenPerThread
  BY DEF IInv
<1>2. QED
  BY <1>1, Invariance, PTL

\* A logout that ends has revoked its session and the refresh tokens it found,
\* provided the database never refuses a statement in silence.
THEOREM LogoutRevokes == Spec => []LogoutCompleteIfErrorsThrow
<1>1. IInv => LogoutCompleteIfErrorsThrow
  <2> SUFFICES ASSUME IInv, "error" \notin Faults,
                      NEW h \in Threads, At(h, "logout.finish")
               PROVE  /\ session[thread[h].sess].revoked
                      /\ \A t \in Tokens \cap alive[h] :
                            token[t].session = thread[h].sess => ~token[t].active
    BY DEF LogoutCompleteIfErrorsThrow, LogoutComplete
  <2>1. Revoking(h) /\ thread[h].pc = "logout.finish"
    BY DEF IInv, Handler, At
  <2>2. QED
    BY <2>1 DEF Revoking, LogoutPCs
<1>2. QED
  BY <1>1, Invariance, PTL

\* A reset that ends has used up its reset token and killed the refresh tokens
\* it found, provided the database never refuses a statement in silence.
THEOREM ResetRevokes == Spec => []ResetComplete
<1>1. IInv => ResetComplete
  <2> SUFFICES ASSUME IInv, "error" \notin Faults,
                      NEW h \in Threads, At(h, "reset.finish")
               PROVE  /\ reset[thread[h].rst].used
                      /\ \A t \in Tokens \cap alive[h] :
                            token[t].user = thread[h].user => ~token[t].active
    BY DEF ResetComplete
  <2>1. Revoking(h) /\ thread[h].pc = "reset.finish"
    BY DEF IInv, Handler, At
  <2>2. QED
    BY <2>1 DEF Revoking
<1>2. QED
  BY <1>1, Invariance, PTL

-----------------------------------------------------------------------------
(* Nobody is locked out while no call fails.  The invariant says where the *)
(* token to go on with is: a client has it, or a request is on the way to  *)
(* hand it out.  A refresh before its rotation does not count: it may be   *)
(* refused, but then its own token is the one.                             *)

\* A request that will hand out the token it has created, or is to create.
Finishing == {"issue.touch", "issue.token", "issue.finish"}

\* The session is gone, or the user has reset the password.
Excused(s) == \/ session[s].revoked
              \/ \E r \in Resets : reset[r].used /\ reset[r].user = session[s].user

\* A client of session s has, or is about to get, a token to go on with.
Held(s) == \/ Excused(s)
           \/ \E h \in Threads : thread[h].pc \in Finishing /\ thread[h].sess = s
           \/ \E t \in Tokens \cap issued : token[t].active /\ token[t].session = s

\* The locals of a handler refer to records of one user and one session.
Chain(h) ==
    /\ thread[h].pc \in RefreshPCs =>
          thread[h].tok \in issued /\ token[thread[h].tok].session = thread[h].sess
    /\ thread[h].pc \in RefreshPCs \cup Finishing /\ thread[h].sess # Null =>
          session[thread[h].sess].user = thread[h].user
    /\ thread[h].pc = "issue.finish" =>
          /\ thread[h].new \in Tokens \ issued
          /\ token[thread[h].new].by = h /\ token[thread[h].new].user # Null
          /\ token[thread[h].new].session = thread[h].sess
          /\ token[thread[h].new].active \/ thread[h].sess = Null \/ Excused(thread[h].sess)
    /\ thread[h].pc \in ResetPCs =>
          thread[h].user \in Users /\ reset[thread[h].rst].user = thread[h].user

SessionTokens ==
    /\ \A t \in Tokens : token[t].session # Null
                            => session[token[t].session].user = token[t].user
    /\ \A t \in Tokens \cap issued : token[t].user # Null

SInv == /\ SessionTokens
        /\ \A s \in Sessions : session[s].user # Null => Held(s)
        /\ \A h \in Threads : Chain(h)

\* A step of handler h, as the records and the other handlers see it.  A token
\* dies by rotation, and then h goes on to mint, or with its session excused.
Frame(h) ==
    /\ Alone(h)
    /\ SessionsForward
    /\ ResetsForward /\ \A r \in Resets : reset'[r].user = reset[r].user
    /\ \A t \in Tokens : Kept(t) \/ NewBy(t, h)
    /\ issued \subseteq issued'
    /\ \A t \in Tokens \cap issued' : t \in issued \/ token[t].by = h
    /\ \A t \in Tokens : token[t].active /\ ~token'[t].active =>
          \/ token[t].session = Null
          \/ Excused(token[t].session)
          \/ /\ t \in issued
             /\ thread'[h].pc \in Finishing /\ thread'[h].sess = token[t].session

LEMMA OkOnly ==
    ASSUME Faults = {}, NEW o \in Outcomes
    PROVE  Applied(o) /\ ~Throws(o)
BY DEF Outcomes, Applied, Throws

LEMMA ExcusedStays ==
    ASSUME IInv, NEW h, Frame(h), NEW s \in Sessions, session[s].user # Null, Excused(s)
    PROVE  Excused(s)'
BY DEF Frame, Excused, SessionsForward, ResetsForward

LEMMA OtherChain ==
    ASSUME IInv, SInv, NEW h \in Threads, Frame(h), NEW k \in Threads, k # h
    PROVE  Chain(k)'
<1>1. /\ thread'[k] = thread[k] /\ Chain(k) /\ Locals(k)
      /\ thread[k] \in ThreadRecords
  BY DEF IInv, SInv, Handler, Frame, Alone, TypeOK
<1>2. thread[k].pc \in RefreshPCs =>
          thread'[k].tok \in issued' /\ token'[thread'[k].tok].session = thread'[k].sess
  BY <1>1, IdsAssumption DEF Chain, Locals, Frame, Kept, NewBy, IInv, TypeOK
<1>3. thread[k].pc \in RefreshPCs \cup Finishing /\ thread[k].sess # Null =>
          session'[thread[k].sess].user = thread[k].user
  BY <1>1 DEF Chain, Locals, Frame, SessionsForward, ThreadRecords
<1>4. ASSUME thread[k].pc = "issue.finish"
      PROVE  /\ thread[k].new \in Tokens \ issued'
             /\ token'[thread[k].new].by = k /\ token'[thread[k].new].user # Null
             /\ token'[thread[k].new].session = thread[k].sess
             /\ token'[thread[k].new].active \/ thread[k].sess = Null \/ Excused(thread[k].sess)'
  <2> DEFINE t == thread[k].new
  <2>1. /\ t \in Tokens \ issued /\ token[t].by = k /\ token[t].user # Null
        /\ token[t].session = thread[k].sess
        /\ token[t].active \/ thread[k].sess = Null \/ Excused(thread[k].sess)
    BY <1>1, <1>4 DEF Chain
  <2>2. Kept(t)
    BY <2>1 DEF Frame, NewBy
  <2>3. t \notin issued'
    BY <2>1 DEF Frame
  <2>4. thread[k].sess # Null =>
            thread[k].sess \in Sessions /\ session[thread[k].sess].user # Null
    BY <1>1 DEF Locals, ThreadRecords
  <2>5. thread[k].sess # Null /\ Excused(thread[k].sess) => Excused(thread[k].sess)'
    BY <1>1, <2>4 DEF Excused, Frame, SessionsForward, ResetsForward
  <2>6. token'[t].active \/ thread[k].sess = Null \/ Excused(thread[k].sess)'
    BY <2>1, <2>5 DEF Frame
  <2>7. QED
    BY <2>1, <2>2, <2>3, <2>6 DEF Kept
<1>5. thread[k].pc \in ResetPCs =>
          thread[k].user \in Users /\ reset'[thread[k].rst].user = thread[k].user
  BY <1>1 DEF Chain, Locals, Frame
<1>6. QED
  BY <1>1, <1>2, <1>3, <1>4, <1>5 DEF Chain

\* A session that is held stays so, if the handler that makes the step sees to
\* the session it was about to mint for.
LEMMA HeldStays ==
    ASSUME IInv, SInv, NEW h \in Threads, Frame(h), NEW s \in Sessions,
           session[s].user # Null,
           thread[h].pc \in Finishing /\ thread[h].sess = s => Held(s)'
    PROVE  Held(s)'
<1>1. CASE Excused(s)
  BY <1>1, ExcusedStays DEF Held
<1>2. ASSUME NEW k \in Threads, thread[k].pc \in Finishing, thread[k].sess = s
      PROVE  Held(s)'
  BY <1>2 DEF Held, Frame, Alone
<1>3. ASSUME NEW t \in Tokens \cap issued, token[t].active, token[t].session = s
      PROVE  Held(s)'
  <2>1. Kept(t) /\ t \in issued'
    BY <1>3 DEF Frame, NewBy, IInv, Records
  <2>2. CASE token'[t].active
    BY <1>3, <2>1, <2>2 DEF Held, Kept
  <2>3. CASE ~token'[t].active
    <3>1. Excused(s) \/ (thread'[h].pc \in Finishing /\ thread'[h].sess = s)
      BY <1>3, <2>3, IdsAssumption DEF Frame
    <3>2. QED
      BY <3>1, ExcusedStays DEF Held
  <2>4. QED
    BY <2>2, <2>3
<1>4. QED
  BY <1>1, <1>2, <1>3 DEF SInv, Held

\* What a step of one handler has to answer for itself.
LEMMA FrameStep ==
    ASSUME IInv, SInv, NEW h \in Threads, Frame(h), Chain(h)', SessionTokens',
           \A s \in Sessions : session[s].user = Null /\ session'[s].user # Null => Held(s)',
           \A s \in Sessions : thread[h].pc \in Finishing /\ thread[h].sess = s => Held(s)'
    PROVE  SInv'
<1>1. ASSUME NEW s \in Sessions, session[s].user # Null PROVE Held(s)'
  BY <1>1, HeldStays
<1>2. QED
  BY <1>1, OtherChain DEF SInv

\* The records as they were.
LEMMA QuietTokens ==
    ASSUME IInv, SInv, UNCHANGED <<session, token, issued>> PROVE SessionTokens'
BY DEF SInv, SessionTokens

\* Where no record changes, only what the handler goes on with is left to show.
LEMMA QuietChain ==
    ASSUME IInv, SInv, NEW h \in Threads, Alone(h), Chain(h)', UNCHANGED <<db, issued>>,
           thread[h].pc \in Finishing =>
               thread'[h].pc \in Finishing /\ thread'[h].sess = thread[h].sess
    PROVE  SInv'
<1>1. /\ UNCHANGED session /\ UNCHANGED token /\ UNCHANGED reset /\ UNCHANGED issued
  BY DEF db
<1>2. Frame(h)
  BY <1>1, QuietFrame DEF Frame
<1>3. \A s \in Sessions : thread[h].pc \in Finishing /\ thread[h].sess = s => Held(s)'
  BY DEF Held
<1>4. QED
  BY <1>1, <1>2, <1>3, QuietTokens, FrameStep

LEMMA IdleChain == ASSUME NEW h \in Threads, thread'[h] = Idle PROVE Chain(h)'
<1>1. Idle.pc = "idle"
  BY DEF Idle
<1>2. QED
  BY <1>1 DEF Chain, RefreshPCs, Finishing, ResetPCs

\* A request is refused, or answered, outside issueTokens.
LEMMA EndHeld ==
    ASSUME IInv, SInv, NEW h \in Threads, End(h), UNCHANGED <<db, issued>>,
           thread[h].pc \notin Finishing
    PROVE  SInv'
<1>1. Alone(h) /\ thread'[h] = Idle
  BY EndAlone DEF IInv
<1>2. QED
  BY <1>1, IdleChain, QuietChain

\* A handler goes on to its next call with the same locals.
LEMMA GotoHeld ==
    ASSUME IInv, SInv, NEW h \in Threads, NEW pc \in PCs, UNCHANGED <<db, issued>>,
           Goto(h, [thread[h] EXCEPT !.pc = pc]), pc # "issue.finish",
           pc \in RefreshPCs => thread[h].pc \in RefreshPCs,
           pc \in Finishing <=> thread[h].pc \in Finishing,
           pc \in ResetPCs => thread[h].pc \in ResetPCs
    PROVE  SInv'
<1> DEFINE rec == [thread[h] EXCEPT !.pc = pc]
<1>1. /\ rec.pc = pc /\ rec.user = thread[h].user /\ rec.sess = thread[h].sess
      /\ rec.tok = thread[h].tok /\ rec.rst = thread[h].rst
  BY PcOnly DEF IInv
<1>2. Alone(h) /\ thread'[h] = rec
  BY GotoAlone DEF IInv
<1> HIDE DEF rec
<1>3. UNCHANGED session /\ UNCHANGED token /\ UNCHANGED reset /\ UNCHANGED issued
  BY DEF db
<1>4. Chain(h)'
  BY <1>1, <1>2, <1>3 DEF SInv, Chain
<1>5. QED
  BY <1>1, <1>2, <1>4, QuietChain

-----------------------------------------------------------------------------
(* The steps, while no call fails.                                         *)

LEMMA LoginHeld ==
    ASSUME IInv, SInv, NEW h \in Threads, NEW u \in Users, Login(h, u) PROVE SInv'
<1> DEFINE rec == [Idle EXCEPT !.pc = "issue.session", !.user = u]
<1>1. rec.pc = "issue.session"
  BY DEF Idle
<1>2. Alone(h) /\ thread'[h] = rec /\ thread[h].pc = "idle" /\ UNCHANGED <<db, issued>>
  BY BeginAlone DEF IInv, Login, Begin, At
<1>3. Chain(h)'
  BY <1>1, <1>2 DEF Chain, RefreshPCs, Finishing, ResetPCs
<1>4. QED
  BY <1>2, <1>3, QuietChain DEF Finishing

LEMMA IssueSessionHeld ==
    ASSUME Faults = {}, IInv, SInv, NEW h \in Threads, IssueSession(h) PROVE SInv'
<1> DEFINE rec(s) == [thread[h] EXCEPT !.pc = "issue.token", !.sess = s]
<1>1. PICK s \in Sessions : /\ session[s].user = Null
                            /\ session' = [session EXCEPT ![s].user = thread[h].user]
                            /\ Goto(h, rec(s))
  BY OkOnly DEF IssueSession, Continue
<1>2. /\ TypeOK /\ Records /\ thread[h] \in ThreadRecords /\ thread[h].pc = "issue.session"
      /\ thread[h].user \in Users /\ thread[h].user # Null
      /\ UNCHANGED token /\ UNCHANGED reset /\ UNCHANGED issued
  BY IdsAssumption DEF IssueSession, At, IInv, Handler, Locals, IssuingPCs, TypeOK
<1>3. /\ session'[s].user = thread[h].user
      /\ \A x \in Sessions : /\ x # s => session'[x] = session[x]
                             /\ session'[x].revoked = session[x].revoked
  BY <1>1, <1>2 DEF TypeOK
<1>4. /\ rec(s).pc = "issue.token" /\ rec(s).sess = s /\ rec(s).user = thread[h].user
      /\ Alone(h) /\ thread'[h] = rec(s)
  BY <1>1, <1>2, GotoAlone DEF ThreadRecords
<1>5. \A t \in Tokens : token[t].session # s
  BY <1>1, <1>2, IdsAssumption DEF Records
<1>6. Frame(h)
  BY <1>1, <1>2, <1>3, <1>4 DEF Frame, SessionsForward, ResetsForward, Kept
<1>7. SessionTokens'
  BY <1>2, <1>3, <1>5 DEF SInv, SessionTokens, TypeOK, TokenRecords
<1>8. Chain(h)'
  BY <1>3, <1>4 DEF Chain, RefreshPCs, Finishing, ResetPCs
<1>9. Held(s)'
  BY <1>4 DEF Held, Finishing
<1>10. QED
  BY <1>2, <1>3, <1>6, <1>7, <1>8, <1>9, FrameStep DEF Finishing

LEMMA IssueTouchHeld ==
    ASSUME Faults = {}, IInv, SInv, NEW h \in Threads, IssueTouch(h) PROVE SInv'
<1>1. Goto(h, [thread[h] EXCEPT !.pc = "issue.token"])
  BY OkOnly DEF IssueTouch, Continue
<1>2. thread[h].pc = "issue.touch" /\ UNCHANGED <<db, issued>> /\ "issue.token" \in PCs
  BY DEF IssueTouch, At, PCs
<1>3. QED
  BY <1>1, <1>2, GotoHeld DEF Finishing, RefreshPCs, ResetPCs

\* The token has been created, and is the handler's to hand out.
LEMMA IssueTokenHeld ==
    ASSUME Faults = {}, IInv, SInv, NEW h \in Threads, IssueToken(h) PROVE SInv'
<1> DEFINE rec(t) == [thread[h] EXCEPT !.pc = "issue.finish", !.new = t]
<1>1. PICK t \in Tokens : /\ token[t].user = Null
                          /\ token' = [token EXCEPT ![t] = Minted(h)]
                          /\ Goto(h, rec(t))
  BY OkOnly DEF IssueToken, Continue
<1>2. /\ TypeOK /\ Records /\ thread[h] \in ThreadRecords /\ thread[h].pc = "issue.token"
      /\ thread[h].user \in Users /\ thread[h].user # Null
      /\ UNCHANGED session /\ UNCHANGED reset /\ UNCHANGED issued
  BY IdsAssumption DEF IssueToken, At, IInv, Handler, Locals, IssuingPCs, TypeOK
<1>3. /\ Minted(h).user = thread[h].user /\ Minted(h).session = thread[h].sess
      /\ Minted(h).active = TRUE /\ Minted(h).by = h
  BY DEF Minted
<1>4. token'[t] = Minted(h) /\ \A x \in Tokens : x # t => token'[x] = token[x]
  BY <1>1, <1>2 DEF TypeOK
<1>5. /\ rec(t).pc = "issue.finish" /\ rec(t).sess = thread[h].sess /\ rec(t).new = t
      /\ rec(t).user = thread[h].user /\ Alone(h) /\ thread'[h] = rec(t)
  BY <1>1, <1>2, GotoAlone DEF ThreadRecords
<1>6. t \notin issued
  BY <1>1 DEF SInv, SessionTokens
<1>7. Frame(h)
  BY <1>1, <1>2, <1>3, <1>4, <1>5
     DEF Frame, SessionsForward, ResetsForward, Kept, NewBy, Records
<1>8. thread[h].sess # Null => session[thread[h].sess].user = thread[h].user
  BY <1>2 DEF SInv, Chain, Finishing
<1>9. SessionTokens'
  BY <1>2, <1>3, <1>4, <1>6, <1>8 DEF SInv, SessionTokens
<1>10. Chain(h)'
  BY <1>2, <1>3, <1>4, <1>5, <1>6, <1>8 DEF Chain, RefreshPCs, Finishing, ResetPCs
<1>11. \A s \in Sessions : thread[h].sess = s => Held(s)'
  BY <1>5 DEF Held, Finishing
<1>12. QED
  BY <1>2, <1>7, <1>9, <1>10, <1>11, FrameStep

\* The token is handed out, or was killed with its session excused.
LEMMA IssueFinishHeld ==
    ASSUME Faults = {}, IInv, SInv, NEW h \in Threads, IssueFinish(h) PROVE SInv'
<1> DEFINE n == thread[h].new
<1>1. /\ issued' = issued \cup ({thread[h].sess, n} \ {Null})
      /\ End(h) /\ thread[h].pc = "issue.finish" /\ UNCHANGED db
  BY OkOnly DEF IssueFinish, At
<1>2. /\ UNCHANGED session /\ UNCHANGED token /\ UNCHANGED reset
      /\ thread[h].sess \in Sessions \cup {Null}
  BY <1>1 DEF db, IInv, TypeOK, ThreadRecords
<1>3. /\ n \in Tokens /\ n # Null /\ token[n].by = h /\ token[n].user # Null
      /\ token[n].session = thread[h].sess
      /\ token[n].active \/ thread[h].sess = Null \/ Excused(thread[h].sess)
  BY <1>1, IdsAssumption DEF SInv, Chain
<1>4. Alone(h) /\ thread'[h] = Idle /\ Chain(h)'
  BY <1>1, EndAlone, IdleChain DEF IInv
<1>5. issued' \cap Tokens \subseteq issued \cup {n}
  BY <1>1, <1>2, IdsAssumption
<1>6. Frame(h)
  BY <1>1, <1>2, <1>3, <1>4, <1>5 DEF Frame, SessionsForward, ResetsForward, Kept
<1>7. SessionTokens'
  BY <1>2, <1>3, <1>5 DEF SInv, SessionTokens
<1>8. ASSUME NEW s \in Sessions, thread[h].sess = s PROVE Held(s)'
  <2>1. s # Null /\ token[n].session = s /\ (token[n].active \/ Excused(s))
    BY <1>3, <1>8, IdsAssumption
  <2>2. n \in Tokens \cap issued'
    BY <1>1, <1>3
  <2>3. Excused(s) => Excused(s)'
    BY <1>2 DEF Excused
  <2>4. QED
    BY <1>2, <2>1, <2>2, <2>3 DEF Held
<1>9. QED
  BY <1>2, <1>4, <1>6, <1>7, <1>8, FrameStep

LEMMA RefreshLookupHeld ==
    ASSUME IInv, SInv, NEW h \in Threads, NEW t \in Tokens, RefreshLookup(h, t) PROVE SInv'
<1> DEFINE rec == [Idle EXCEPT !.pc = "refresh.session", !.tok = t,
                      !.user = token[t].user, !.sess = token[t].session]
<1>1. /\ rec.pc = "refresh.session" /\ rec.tok = t
      /\ rec.user = token[t].user /\ rec.sess = token[t].session
  BY DEF Idle
<1>2. /\ Alone(h) /\ thread'[h] = rec /\ thread[h].pc = "idle" /\ UNCHANGED <<db, issued>>
      /\ t \in issued
  BY BeginAlone DEF IInv, RefreshLookup, Begin, At
<1>3. UNCHANGED session /\ UNCHANGED token /\ UNCHANGED issued
  BY <1>2 DEF db
<1>4. token[t].session # Null => session[token[t].session].user = token[t].user
  BY DEF SInv, SessionTokens
<1> HIDE DEF rec
<1>5. Chain(h)'
  BY <1>1, <1>2, <1>3, <1>4 DEF Chain, RefreshPCs, Finishing, ResetPCs
<1>6. QED
  BY <1>2, <1>5, QuietChain DEF Finishing

LEMMA RefreshCheckHeld ==
    ASSUME IInv, SInv, NEW h \in Threads, RefreshSession(h) \/ RefreshUser(h) PROVE SInv'
<1>1. CASE RefreshSession(h)
  <2>1. /\ End(h) \/ Goto(h, [thread[h] EXCEPT !.pc = "refresh.user"])
        /\ thread[h].pc = "refresh.session" /\ UNCHANGED <<db, issued>>
        /\ "refresh.user" \in PCs
    BY <1>1 DEF RefreshSession, Check, At, PCs
  <2>2. QED
    BY <2>1, EndHeld, GotoHeld DEF Finishing, RefreshPCs, ResetPCs
<1>2. CASE RefreshUser(h)
  <2>1. /\ End(h) \/ Goto(h, [thread[h] EXCEPT !.pc = "refresh.rotate"])
        /\ thread[h].pc = "refresh.user" /\ UNCHANGED <<db, issued>>
        /\ "refresh.rotate" \in PCs
    BY <1>2 DEF RefreshUser, Check, At, PCs
  <2>2. QED
    BY <2>1, EndHeld, GotoHeld DEF Finishing, RefreshPCs, ResetPCs
<1>3. QED
  BY <1>1, <1>2

\* The token dies, and its session is the one the handler mints for.
LEMMA RefreshRotateHeld ==
    ASSUME Faults = {}, IInv, SInv, NEW h \in Threads, RefreshRotate(h) PROVE SInv'
<1> DEFINE rec == [thread[h] EXCEPT !.pc = "issue.touch"]
           t == thread[h].tok
<1>1. /\ token' = [token EXCEPT ![t].active = FALSE] /\ Goto(h, rec)
  BY OkOnly DEF RefreshRotate, Continue
<1>2. /\ TypeOK /\ thread[h].pc = "refresh.rotate" /\ t \in Tokens
      /\ UNCHANGED session /\ UNCHANGED reset /\ UNCHANGED issued
  BY DEF RefreshRotate, At, IInv, Handler, Locals, RefreshPCs
<1>3. /\ t \in issued /\ token[t].session = thread[h].sess
      /\ thread[h].sess # Null => session[thread[h].sess].user = thread[h].user
  BY <1>2 DEF SInv, Chain, RefreshPCs
<1>4. /\ \A x \in Tokens : Kept(x)
      /\ \A x \in Tokens : x # t => token'[x] = token[x]
  BY <1>1, <1>2, RotateKept
<1>5. /\ rec.pc = "issue.touch" /\ rec.sess = thread[h].sess /\ rec.user = thread[h].user
      /\ Alone(h) /\ thread'[h] = rec
  <2>1. /\ rec.pc = "issue.touch" /\ rec.sess = thread[h].sess
        /\ rec.user = thread[h].user
    BY <1>2, PcOnly DEF PCs
  <2>2. Alone(h) /\ thread'[h] = rec
    BY <1>1, <1>2, GotoAlone
  <2>3. QED
    BY <2>1, <2>2
<1> HIDE DEF rec
<1>6. Frame(h)
  BY <1>2, <1>3, <1>4, <1>5 DEF Frame, SessionsForward, ResetsForward, Finishing
<1>7. SessionTokens'
  BY <1>2, <1>4 DEF SInv, SessionTokens, Kept
<1>8. Chain(h)'
  BY <1>2, <1>3, <1>5 DEF Chain, RefreshPCs, Finishing, ResetPCs
<1>9. QED
  BY <1>2, <1>6, <1>7, <1>8, FrameStep DEF Finishing

LEMMA LogoutSessionHeld ==
    ASSUME Faults = {}, IInv, SInv, NEW h \in Threads, NEW s \in Sessions, LogoutSession(h, s)
    PROVE  SInv'
<1> DEFINE rec == [Idle EXCEPT !.pc = "logout.tokens", !.sess = s]
<1>1. /\ session' = [session EXCEPT ![s].revoked = TRUE] /\ Begin(h, rec)
      /\ thread[h].pc = "idle"
      /\ UNCHANGED token /\ UNCHANGED reset /\ UNCHANGED issued
  BY OkOnly DEF LogoutSession, At
<1>2. \A x \in Sessions : /\ session'[x].user = session[x].user
                          /\ session[x].revoked => session'[x].revoked
  BY <1>1 DEF IInv, TypeOK
<1>3. rec.pc = "logout.tokens" /\ Alone(h) /\ thread'[h] = rec
  BY <1>1, BeginAlone DEF IInv, Idle
<1>4. Frame(h)
  BY <1>1, <1>2, <1>3 DEF Frame, SessionsForward, ResetsForward, Kept
<1>5. SessionTokens'
  BY <1>1, <1>2 DEF SInv, SessionTokens, IInv, TypeOK, TokenRecords
<1>6. Chain(h)'
  BY <1>3 DEF Chain, RefreshPCs, Finishing, ResetPCs
<1>7. QED
  BY <1>1, <1>2, <1>4, <1>5, <1>6, FrameStep DEF Finishing

\* Logout and reset kill tokens of sessions that they have excused before.
LEMMA RevokeHeld ==
    ASSUME Faults = {}, IInv, SInv, NEW h \in Threads, NEW ts, token' = Deactivate(ts),
           NEW pc \in {"logout.finish", "reset.finish"},
           Goto(h, [thread[h] EXCEPT !.pc = pc]), thread[h].pc \notin Finishing,
           pc = "reset.finish" => thread[h].pc \in ResetPCs,
           UNCHANGED <<session, reset, issued>>,
           \A t \in Tokens : t \in ts /\ token[t].session # Null => Excused(token[t].session)
    PROVE  SInv'
<1> DEFINE rec == [thread[h] EXCEPT !.pc = pc]
<1>1. /\ rec.pc = pc /\ rec.user = thread[h].user /\ rec.rst = thread[h].rst
      /\ Alone(h) /\ thread'[h] = rec
  BY PcOnly, GotoAlone DEF PCs, IInv
<1> HIDE DEF rec
<1>2. /\ \A t \in Tokens : Kept(t)
      /\ \A t \in Tokens : t \notin ts => token'[t] = token[t]
  BY DeactivateKept DEF Deactivate, IInv
<1>3. Frame(h)
  BY <1>1, <1>2 DEF Frame, SessionsForward, ResetsForward
<1>4. SessionTokens'
  BY <1>2 DEF SInv, SessionTokens, Kept
<1>5. Chain(h)'
  BY <1>1 DEF SInv, Chain, RefreshPCs, Finishing, ResetPCs
<1>6. QED
  BY <1>3, <1>4, <1>5, FrameStep

LEMMA LogoutTokensHeld ==
    ASSUME Faults = {}, IInv, SInv, NEW h \in Threads, LogoutTokens(h) PROVE SInv'
<1> DEFINE ts == {t \in Tokens : token[t].session = thread[h].sess}
<1>1. /\ token' = Deactivate(ts) /\ Goto(h, [thread[h] EXCEPT !.pc = "logout.finish"])
      /\ thread[h].pc = "logout.tokens" /\ UNCHANGED <<session, reset, issued>>
  BY OkOnly DEF LogoutTokens, Continue, At
<1>2. session[thread[h].sess].revoked
  BY <1>1 DEF IInv, Handler, Revoking, LogoutPCs
<1>3. \A t \in Tokens : t \in ts => Excused(token[t].session)
  BY <1>2 DEF Excused
<1>4. QED
  BY <1>1, <1>3, RevokeHeld DEF Finishing

LEMMA ResetRevokeHeld ==
    ASSUME Faults = {}, IInv, SInv, NEW h \in Threads, ResetRevoke(h) PROVE SInv'
<1> DEFINE ts == {t \in Tokens : token[t].user = thread[h].user}
<1>1. /\ token' = Deactivate(ts) /\ Goto(h, [thread[h] EXCEPT !.pc = "reset.finish"])
      /\ thread[h].pc = "reset.revoke" /\ UNCHANGED <<session, reset, issued>>
  BY OkOnly DEF ResetRevoke, Continue, At
<1>2. /\ reset[thread[h].rst].used /\ thread[h].rst \in Resets
      /\ reset[thread[h].rst].user = thread[h].user
  BY <1>1 DEF IInv, Handler, Locals, Revoking, ResetPCs, SInv, Chain
<1>3. \A t \in Tokens : t \in ts /\ token[t].session # Null => Excused(token[t].session)
  BY <1>2 DEF Excused, SInv, SessionTokens
<1>4. QED
  BY <1>1, <1>3, RevokeHeld DEF Finishing, ResetPCs

\* A new reset token excuses nobody before it is used.
LEMMA ForgotHeld ==
    ASSUME IInv, SInv, NEW u \in Users, ForgotPassword(u) PROVE SInv'
<1>1. PICK r \in Resets : /\ reset[r].user = Null
                          /\ reset' = [reset EXCEPT ![r].user = u]
                          /\ issued' = issued \/ issued' = issued \cup {r}
  BY DEF ForgotPassword
<1>2. UNCHANGED session /\ UNCHANGED token /\ UNCHANGED thread
  BY DEF ForgotPassword
<1>3. \A x \in Resets : /\ reset'[x].used = reset[x].used
                        /\ reset[x].user # Null => reset'[x].user = reset[x].user
  BY <1>1 DEF IInv, TypeOK
<1>4. \A t \in Tokens : t \in issued' <=> t \in issued
  BY <1>1, IdsAssumption
<1>5. ASSUME NEW s \in Sessions, session[s].user # Null
      PROVE  (Excused(s) => Excused(s)') /\ Held(s)'
  <2>1. Excused(s) => Excused(s)'
    BY <1>2, <1>3, <1>5 DEF Excused
  <2>2. QED
    BY <1>2, <1>4, <1>5, <2>1 DEF SInv, Held
<1>6. ASSUME NEW k \in Threads PROVE Chain(k)'
  <2>1. thread[k] \in ThreadRecords /\ Locals(k) /\ Chain(k)
    BY DEF IInv, TypeOK, Handler, SInv
  <2>2. thread[k].sess \in Sessions /\ session[thread[k].sess].user # Null
            => (Excused(thread[k].sess) => Excused(thread[k].sess)')
    BY <1>2, <1>3 DEF Excused
  <2>3. thread[k].pc \in ResetPCs => reset'[thread[k].rst].user = thread[k].user
    BY <1>3, <2>1, IdsAssumption DEF Chain, Locals
  <2>4. thread[k].sess # Null =>
            thread[k].sess \in Sessions /\ session[thread[k].sess].user # Null
    BY <2>1 DEF Locals, ThreadRecords
  <2>5. thread[k].pc \in RefreshPCs => thread[k].tok \in issued'
    BY <1>1, <2>1 DEF Chain
  <2>6. QED
    BY <1>2, <1>4, <2>1, <2>2, <2>3, <2>4, <2>5 DEF Chain
<1>7. SessionTokens'
  BY <1>2, <1>4 DEF SInv, SessionTokens
<1>8. QED
  BY <1>2, <1>5, <1>6, <1>7 DEF SInv

\* The other steps of a reset and the writes of an administrator.
LEMMA OtherHeld ==
    ASSUME Faults = {}, IInv, SInv PROVE
    /\ \A h \in Threads, r \in Resets : ResetLookup(h, r) => SInv'
    /\ \A h \in Threads : ResetUser(h) \/ ResetMark(h) => SInv'
    /\ \A h \in Threads : LogoutFinish(h) \/ ResetFinish(h) => SInv'
    /\ \A u \in Users, st \in {"active", "disabled"} : AdminUpdate(u, st) => SInv'
<1>1. ASSUME NEW h \in Threads, NEW r \in Resets, ResetLookup(h, r) PROVE SInv'
  <2> DEFINE rec == [Idle EXCEPT !.pc = "reset.user", !.user = reset[r].user, !.rst = r]
  <2>1. /\ rec.pc = "reset.user" /\ rec.rst = r /\ rec.user = reset[r].user
    BY DEF Idle
  <2>2. /\ Alone(h) /\ thread'[h] = rec /\ thread[h].pc = "idle" /\ UNCHANGED <<db, issued>>
        /\ reset[r].user \in Users
    BY <1>1, BeginAlone DEF IInv, ResetLookup, ResetLive, Begin, At, TypeOK
  <2>3. UNCHANGED reset
    BY <2>2 DEF db
  <2> HIDE DEF rec
  <2>4. Chain(h)'
    BY <2>1, <2>2, <2>3 DEF Chain, RefreshPCs, Finishing
  <2>5. QED
    BY <2>2, <2>4, QuietChain DEF Finishing
<1>2. ASSUME NEW h \in Threads, ResetUser(h) PROVE SInv'
  <2>1. /\ Goto(h, [thread[h] EXCEPT !.pc = "reset.mark"]) /\ thread[h].pc = "reset.user"
        /\ UNCHANGED <<db, issued>> /\ "reset.mark" \in PCs
    BY <1>2, OkOnly DEF ResetUser, Continue, At, PCs
  <2>2. QED
    BY <2>1, GotoHeld DEF Finishing, RefreshPCs, ResetPCs
<1>3. ASSUME NEW h \in Threads, ResetMark(h) PROVE SInv'
  <2> DEFINE rec == [thread[h] EXCEPT !.pc = "reset.revoke"]
             r == thread[h].rst
  <2>1. /\ reset' = [reset EXCEPT ![r].used = TRUE] /\ Goto(h, rec)
        /\ thread[h].pc = "reset.mark" /\ UNCHANGED <<status, session, token, issued>>
    BY <1>3, OkOnly DEF ResetMark, Continue, At
  <2>2. \A x \in Resets : /\ reset'[x].user = reset[x].user
                          /\ reset[x].used => reset'[x].used
    BY <2>1 DEF IInv, TypeOK
  <2>3. /\ rec.pc = "reset.revoke" /\ rec.rst = r /\ rec.user = thread[h].user
    BY PcOnly DEF PCs, IInv
  <2>4. Alone(h) /\ thread'[h] = rec
    BY <2>1, GotoAlone DEF IInv
  <2> HIDE DEF rec
  <2>5. Frame(h)
    BY <2>1, <2>2, <2>4 DEF Frame, SessionsForward, ResetsForward, Kept
  <2>6. r \in Resets /\ thread[h].user \in Users /\ reset[r].user = thread[h].user
    BY <2>1 DEF SInv, Chain, ResetPCs, IInv, Handler, Locals
  <2>7. Chain(h)'
    BY <2>2, <2>3, <2>4, <2>6 DEF Chain, RefreshPCs, Finishing
  <2>8. QED
    BY <2>1, <2>5, <2>7, QuietTokens, FrameStep DEF Finishing
<1>4. ASSUME NEW h \in Threads, LogoutFinish(h) \/ ResetFinish(h) PROVE SInv'
  BY <1>4, EndHeld DEF LogoutFinish, ResetFinish, At, Finishing
<1>5. ASSUME NEW u \in Users, NEW st \in {"active", "disabled"}, AdminUpdate(u, st)
      PROVE  SInv'
  BY <1>5 DEF AdminUpdate, SInv, SessionTokens, Held, Excused, Chain
<1>6. QED
  BY <1>1, <1>2, <1>3, <1>4, <1>5

LEMMA NextHeld == ASSUME Faults = {}, IInv, SInv, [Next]_vars PROVE SInv'
<1>1. ASSUME NEW h \in Threads, LoginStep(h) \/ IssueStep(h) PROVE SInv'
  BY <1>1, LoginHeld, IssueSessionHeld, IssueTouchHeld, IssueTokenHeld, IssueFinishHeld
     DEF LoginStep, IssueStep
<1>2. ASSUME NEW h \in Threads, RefreshStep(h) PROVE SInv'
  BY <1>2, RefreshLookupHeld, RefreshCheckHeld, RefreshRotateHeld DEF RefreshStep
<1>3. ASSUME NEW h \in Threads, LogoutStep(h) \/ ResetStep(h) PROVE SInv'
  BY <1>3, LogoutSessionHeld, LogoutTokensHeld, ResetRevokeHeld, OtherHeld
     DEF LogoutStep, ResetStep
<1>4. CASE UNCHANGED vars
  BY <1>4 DEF vars, db, SInv, SessionTokens, Held, Excused, Chain
<1>5. QED
  BY <1>1, <1>2, <1>3, <1>4, ForgotHeld, OtherHeld DEF Next, Crash

LEMMA InitHeld == Init => SInv
<1>1. /\ NoSession.user = Null /\ NoToken.session = Null /\ Idle.pc = "idle"
  BY DEF NoSession, NoToken, Idle
<1>2. QED
  BY <1>1 DEF Init, SInv, SessionTokens, Chain, RefreshPCs, Finishing, ResetPCs

\* While no call fails, refresh never leaves a client without a token: whatever
\* it spends it replaces, and what it refuses it has not spent.
THEOREM NobodyStranded == Spec => []NeverStranded
<1>1. Init => IInv /\ (Faults = {} => SInv)
  BY InitInv, InitHeld
<1>2. /\ IInv /\ (Faults = {} => SInv) /\ [Next]_vars => (IInv /\ (Faults = {} => SInv))'
  BY NextInv, NextHeld
<1>3. IInv /\ (Faults = {} => SInv) => NeverStranded
  BY DEF IInv, Records, SInv, Held, Excused, NeverStranded
<1>4. QED
  BY <1>1, <1>2, <1>3, PTL DEF Spec

-----------------------------------------------------------------------------
(***************************************************************************)
(* AuthSessions implements RotatingTokens, provided no statement is        *)
(* refused in silence.  What a step does to the abstract request of its    *)
(* handler is one of a few things, each a lemma: it drops it, it leaves it *)
(* where it is, or there was none before and is none after.  Then each     *)
(* action is matched with its abstract step.                               *)
(***************************************************************************)
\* A session that was never created was never revoked.
Unborn == \A s \in Sessions : session[s].user = Null => ~session[s].revoked

-----------------------------------------------------------------------------
(* The abstract request.                                                   *)

LEMMA RequestBecomes ==
    ASSUME TypeOK, NEW h \in Threads, NEW rec,
           thread' = [thread EXCEPT ![h] = rec]
    PROVE  AbsRequest' = [AbsRequest EXCEPT ![h] = RequestOf(rec)]
BY DEF AbsRequest, TypeOK

\* The program counters at which a handler has no abstract request.
Detached == {"idle", "issue.session", "issue.finish", "logout.tokens", "logout.finish",
             "reset.user", "reset.mark", "reset.revoke", "reset.finish"}

LEMMA NoRequestOf ==
    ASSUME NEW rec, rec.pc \in Detached
    PROVE  RequestOf(rec) = RT!NoRequest
BY DEF RequestOf, Stage, RT!NoRequest, Detached

LEMMA IdleRequest == RequestOf(Idle) = RT!NoRequest
<1>1. Idle.pc \in Detached
  BY DEF Idle, Detached
<1>2. QED
  BY <1>1, NoRequestOf

LEMMA EndDrops ==
    ASSUME TypeOK, NEW h \in Threads, End(h)
    PROVE  RT!Becomes(h, RT!NoRequest)
BY RequestBecomes, IdleRequest DEF End, RT!Becomes

\* A handler that had no request and has none.
LEMMA StaysDetached ==
    ASSUME TypeOK, NEW h \in Threads, NEW rec, thread[h].pc \in Detached,
           rec.pc \in Detached, thread' = [thread EXCEPT ![h] = rec]
    PROVE  AbsRequest' = AbsRequest
<1>1. RequestOf(rec) = RequestOf(thread[h])
  BY NoRequestOf
<1>2. AbsRequest' = [AbsRequest EXCEPT ![h] = RequestOf(thread[h])]
  BY <1>1, RequestBecomes
<1>3. QED
  BY <1>2 DEF AbsRequest

LEMMA EndDetached ==
    ASSUME TypeOK, NEW h \in Threads, thread[h].pc \in Detached, End(h)
    PROVE  AbsRequest' = AbsRequest
<1>1. Idle.pc \in Detached
  BY DEF Idle, Detached
<1>2. QED
  BY <1>1, StaysDetached DEF End

\* What the record of a handler says when only its program counter has moved.
LEMMA MovedRequest ==
    ASSUME TypeOK, NEW h \in Threads, NEW pc,
           Goto(h, [thread[h] EXCEPT !.pc = pc])
    PROVE  AbsRequest' = [AbsRequest EXCEPT ![h] =
              [stage   |-> Stage(pc),
               token   |-> IF Stage(pc) \in {"presented", "admitted"}
                           THEN thread[h].tok ELSE Null,
               session |-> IF Stage(pc) # "none" THEN thread[h].sess ELSE Null]]
<1> DEFINE rec == [thread[h] EXCEPT !.pc = pc]
<1>1. rec.pc = pc /\ rec.tok = thread[h].tok /\ rec.sess = thread[h].sess
  BY DEF TypeOK, ThreadRecords
<1>2. AbsRequest' = [AbsRequest EXCEPT ![h] = RequestOf(rec)]
  BY RequestBecomes DEF Goto
<1> HIDE DEF rec
<1>3. QED
  BY <1>1, <1>2 DEF RequestOf

\* It stays at its stage.
LEMMA SameStage ==
    ASSUME TypeOK, NEW h \in Threads, NEW pc, Stage(pc) = Stage(thread[h].pc),
           Goto(h, [thread[h] EXCEPT !.pc = pc])
    PROVE  AbsRequest' = AbsRequest
<1>1. AbsRequest' = [AbsRequest EXCEPT ![h] = RequestOf(thread[h])]
  BY MovedRequest DEF RequestOf
<1>2. QED
  BY <1>1 DEF AbsRequest

LEMMA SameRecords ==
    ASSUME session' = session, token' = token
    PROVE  AbsSession' = AbsSession /\ AbsToken' = AbsToken
BY DEF AbsSession, AbsToken, SessionState, TokenState

LEMMA SameSessions == ASSUME session' = session PROVE AbsSession' = AbsSession
BY DEF AbsSession, SessionState

LEMMA SameTokens2 == ASSUME token' = token PROVE AbsToken' = AbsToken
BY DEF AbsToken, TokenState

\* Without silent errors a call is applied, or it was lost and throws.
LEMMA OutcomeCases ==
    ASSUME NEW o \in Outcomes, "error" \notin Faults
    PROVE  \/ Applied(o)
           \/ ~Applied(o) /\ Throws(o)
BY FaultsAssumption DEF Outcomes, Applied, Throws

-----------------------------------------------------------------------------
(* Steps that leave sessions and tokens alone.                             *)

LEMMA DropStep ==
    ASSUME TypeOK, NEW h \in Threads, End(h), session' = session, token' = token
    PROVE  RT!Next
BY EndDrops, SameRecords DEF RT!Next, RT!Drop

LEMMA StutterStep ==
    ASSUME session' = session, token' = token, AbsRequest' = AbsRequest
    PROVE  UNCHANGED RT!vars
BY SameRecords DEF RT!vars

LEMMA QuietSteps ==
    ASSUME IInv, NEW h \in Threads,
           \/ \E u \in Users : Login(h, u)
           \/ IssueFinish(h) \/ LogoutFinish(h)
           \/ \E r \in Resets : ResetLookup(h, r)
           \/ ResetUser(h) \/ ResetMark(h) \/ ResetFinish(h)
    PROVE  [RT!Next]_(RT!vars)
<1>0. TypeOK
  BY DEF IInv
<1>1. ASSUME NEW u \in Users, Login(h, u)
      PROVE  UNCHANGED RT!vars
  <2> DEFINE rec == [Idle EXCEPT !.pc = "issue.session", !.user = u]
  <2>1. rec.pc \in Detached /\ thread[h].pc \in Detached
    BY <1>1 DEF Login, Begin, At, Idle, Detached
  <2>2. thread' = [thread EXCEPT ![h] = rec] /\ UNCHANGED db
    BY <1>1 DEF Login, Begin
  <2> HIDE DEF rec
  <2>3. QED
    BY <1>0, <2>1, <2>2, StaysDetached, StutterStep DEF db
<1>2. ASSUME IssueFinish(h) \/ LogoutFinish(h) \/ ResetFinish(h)
      PROVE  RT!Next
  BY <1>0, <1>2, DropStep DEF IssueFinish, LogoutFinish, ResetFinish, db
<1>3. ASSUME NEW r \in Resets, ResetLookup(h, r)
      PROVE  UNCHANGED RT!vars
  <2> DEFINE rec == [Idle EXCEPT !.pc = "reset.user", !.user = reset[r].user, !.rst = r]
  <2>1. rec.pc \in Detached /\ thread[h].pc \in Detached
    BY <1>3 DEF ResetLookup, Begin, At, Idle, Detached
  <2>2. thread' = [thread EXCEPT ![h] = rec] /\ UNCHANGED db
    BY <1>3 DEF ResetLookup, Begin
  <2> HIDE DEF rec
  <2>3. QED
    BY <1>0, <2>1, <2>2, StaysDetached, StutterStep DEF db
<1>4. ASSUME ResetUser(h) \/ ResetMark(h)
      PROVE  [RT!Next]_(RT!vars)
  <2>1. PICK pc \in {"reset.mark", "reset.revoke"}, o \in Outcomes :
          /\ Continue(h, o, [thread[h] EXCEPT !.pc = pc])
          /\ Stage(pc) = Stage(thread[h].pc)
          /\ session' = session /\ token' = token
    BY <1>4 DEF ResetUser, ResetMark, At, Stage, db
  <2>2. QED
    BY <1>0, <2>1, SameStage, StutterStep, DropStep DEF Continue
<1>5. QED
  BY <1>1, <1>2, <1>3, <1>4

-----------------------------------------------------------------------------
(* The steps of a login and of a refresh.                                  *)

LEMMA IssueSessionStep ==
    ASSUME IInv, Unborn, "error" \notin Faults, NEW h \in Threads, IssueSession(h)
    PROVE  RT!Next
<1>1. /\ TypeOK /\ token' = token /\ thread[h].pc = "issue.session"
      /\ thread[h].user \in Users
  BY DEF IssueSession, IInv, Handler, Locals, IssuingPCs, At
<1>2. PICK o \in Outcomes, s \in Sessions :
        /\ session[s].user = Null
        /\ session' = IF Applied(o) THEN [session EXCEPT ![s].user = thread[h].user]
                      ELSE session
        /\ Continue(h, o, [thread[h] EXCEPT !.pc = "issue.token",
                              !.sess = IF Applied(o) THEN s ELSE Null])
  BY DEF IssueSession
<1>3. CASE ~Applied(o)
  BY <1>1, <1>2, <1>3, OutcomeCases, DropStep DEF Continue, Throws, Applied
<1>4. CASE Applied(o)
  <2>1. AbsSession' = [AbsSession EXCEPT ![s] = "open"] /\ AbsSession[s] = "none"
    <3>1. ~session[s].revoked /\ thread[h].user # Null
      BY <1>1, <1>2, IdsAssumption DEF Unborn
    <3>2. QED
      BY <1>1, <1>2, <1>4, <3>1 DEF AbsSession, SessionState, TypeOK
  <2>2. AbsRequest[h] = RT!NoRequest
    BY <1>1, NoRequestOf DEF AbsRequest, Detached
  <2>3. RT!Becomes(h, RT!Granted(s)) \/ UNCHANGED AbsRequest
    <3>1. CASE End(h)
      BY <1>1, <3>1, EndDetached DEF Detached
    <3>2. CASE Goto(h, [thread[h] EXCEPT !.pc = "issue.token", !.sess = s])
      <4> DEFINE rec == [thread[h] EXCEPT !.pc = "issue.token", !.sess = s]
      <4>1. rec.pc = "issue.token" /\ rec.sess = s
        BY <1>1 DEF TypeOK, ThreadRecords
      <4>2. thread' = [thread EXCEPT ![h] = rec]
        BY <3>2 DEF Goto
      <4> HIDE DEF rec
      <4>3. RequestOf(rec) = RT!Granted(s)
        BY <4>1 DEF RequestOf, Stage, RT!Granted
      <4>4. QED
        BY <1>1, <4>2, <4>3, RequestBecomes DEF RT!Becomes
    <3>3. QED
      BY <1>2, <1>4, <3>1, <3>2 DEF Continue
  <2>4. RT!At(h, "none")
    BY <2>2 DEF RT!At, RT!NoRequest
  <2>5. QED
    BY <1>1, <2>1, <2>3, <2>4, SameTokens2 DEF RT!Next, RT!Open
<1>5. QED
  BY <1>3, <1>4

LEMMA IssueTouchStep ==
    ASSUME IInv, NEW h \in Threads, IssueTouch(h)
    PROVE  [RT!Next]_(RT!vars)
<1>1. TypeOK /\ session' = session /\ token' = token /\ thread[h].pc = "issue.touch"
  BY DEF IssueTouch, IInv, At, db
<1>2. PICK o \in Outcomes : Continue(h, o, [thread[h] EXCEPT !.pc = "issue.token"])
  BY DEF IssueTouch
<1>3. Stage("issue.token") = Stage(thread[h].pc)
  BY <1>1 DEF Stage
<1>4. QED
  BY <1>1, <1>2, <1>3, SameStage, StutterStep, DropStep DEF Continue

LEMMA IssueTokenStep ==
    ASSUME IInv, "error" \notin Faults, NEW h \in Threads, IssueToken(h)
    PROVE  RT!Next
<1>1. /\ TypeOK /\ session' = session /\ thread[h].pc = "issue.token"
      /\ thread[h].user \in Users /\ thread[h].user # Null
  BY IdsAssumption DEF IssueToken, IInv, Handler, Locals, IssuingPCs, At
<1>2. PICK o \in Outcomes, t \in Tokens :
        /\ token[t].user = Null
        /\ token' = IF Applied(o) THEN [token EXCEPT ![t] = Minted(h)] ELSE token
        /\ Continue(h, o, [thread[h] EXCEPT !.pc = "issue.finish",
                              !.new = IF Applied(o) THEN t ELSE Null])
  BY DEF IssueToken
<1>3. CASE ~Applied(o)
  BY <1>1, <1>2, <1>3, OutcomeCases, DropStep DEF Continue, Throws, Applied
<1>4. CASE Applied(o)
  <2>1. /\ AbsRequest[h].stage = "granted" /\ AbsRequest[h].session = thread[h].sess
    BY <1>1 DEF AbsRequest, RequestOf, Stage
  <2>2. /\ AbsToken[t].state = "none"
        /\ AbsToken' = [AbsToken EXCEPT ![t] = [state   |-> "live",
                                                session |-> AbsRequest[h].session]]
    <3>1. Minted(h).user # Null /\ Minted(h).active /\ Minted(h).session = thread[h].sess
      BY <1>1 DEF Minted
    <3>2. \A x \in Tokens : token'[x] = IF x = t THEN Minted(h) ELSE token[x]
      BY <1>1, <1>2, <1>4 DEF TypeOK
    <3>3. QED
      BY <1>2, <2>1, <3>1, <3>2 DEF AbsToken, TokenState
  <2>3. RT!Becomes(h, RT!NoRequest)
    <3>1. CASE End(h)
      BY <1>1, <3>1, EndDrops
    <3>2. CASE Goto(h, [thread[h] EXCEPT !.pc = "issue.finish", !.new = t])
      <4> DEFINE rec == [thread[h] EXCEPT !.pc = "issue.finish", !.new = t]
      <4>1. rec.pc \in Detached
        BY <1>1 DEF TypeOK, ThreadRecords, Detached
      <4>2. thread' = [thread EXCEPT ![h] = rec]
        BY <3>2 DEF Goto
      <4> HIDE DEF rec
      <4>3. RequestOf(rec) = RT!NoRequest
        BY <4>1, NoRequestOf
      <4>4. QED
        BY <1>1, <4>2, <4>3, RequestBecomes DEF RT!Becomes
    <3>3. QED
      BY <1>2, <1>4, <3>1, <3>2 DEF Continue
  <2>4. QED
    BY <1>1, <2>1, <2>2, <2>3, SameSessions DEF RT!Next, RT!Mint, RT!At
<1>5. QED
  BY <1>3, <1>4

LEMMA RefreshLookupStep ==
    ASSUME IInv, NEW h \in Threads, NEW t \in Tokens, RefreshLookup(h, t)
    PROVE  RT!Next
<1> DEFINE rec == [Idle EXCEPT !.pc = "refresh.session", !.tok = t,
                      !.user = token[t].user, !.sess = token[t].session]
<1>1. /\ TypeOK /\ session' = session /\ token' = token
      /\ thread[h].pc = "idle" /\ thread' = [thread EXCEPT ![h] = rec]
      /\ token[t].active /\ token[t].user # Null
  BY DEF RefreshLookup, Begin, IInv, Records, At, db
<1>2. rec.pc = "refresh.session" /\ rec.tok = t /\ rec.sess = token[t].session
  BY DEF Idle
<1> HIDE DEF rec
<1>3. RequestOf(rec) = [stage |-> "presented", token |-> t,
                        session |-> AbsToken[t].session]
  BY <1>2 DEF RequestOf, Stage, AbsToken
<1>4. RT!Becomes(h, [stage |-> "presented", token |-> t, session |-> AbsToken[t].session])
  BY <1>1, <1>3, RequestBecomes DEF RT!Becomes
<1>5. AbsToken[t].state = "live" /\ AbsRequest[h].stage = "none"
  BY <1>1 DEF AbsToken, TokenState, AbsRequest, RequestOf, Stage
<1>6. QED
  BY <1>1, <1>4, <1>5, SameRecords DEF RT!Next, RT!Present, RT!At

LEMMA RefreshSessionStep ==
    ASSUME IInv, NEW h \in Threads, RefreshSession(h)
    PROVE  RT!Next
<1> DEFINE rec == [thread[h] EXCEPT !.pc = "refresh.user"]
<1>1. /\ TypeOK /\ session' = session /\ token' = token
      /\ thread[h].pc = "refresh.session"
      /\ End(h) \/ (SessionLive(thread[h].sess) /\ Goto(h, rec))
  BY DEF RefreshSession, Check, IInv, At, db
<1>2. CASE End(h)
  BY <1>1, <1>2, DropStep
<1>3. CASE SessionLive(thread[h].sess) /\ Goto(h, rec)
  <2>1. AbsRequest[h] = [stage |-> "presented", token |-> thread[h].tok,
                         session |-> thread[h].sess]
    BY <1>1 DEF AbsRequest, RequestOf, Stage
  <2>2. AbsSession[AbsRequest[h].session] = "open"
    BY <1>3, <2>1 DEF AbsSession, SessionState, SessionLive
  <2>3. AbsRequest' = [AbsRequest EXCEPT ![h] =
          [stage |-> "admitted", token |-> thread[h].tok, session |-> thread[h].sess]]
    BY <1>1, <1>3, MovedRequest DEF Stage
  <2>4. RT!Becomes(h, [AbsRequest[h] EXCEPT !.stage = "admitted"])
    <3>1. [AbsRequest[h] EXCEPT !.stage = "admitted"] =
             [stage |-> "admitted", token |-> thread[h].tok, session |-> thread[h].sess]
      BY <2>1
    <3>2. QED
      BY <2>3, <3>1 DEF RT!Becomes
  <2>5. QED
    BY <1>1, <2>1, <2>2, <2>4, SameRecords DEF RT!Next, RT!Admit, RT!At
<1>4. QED
  BY <1>1, <1>2, <1>3

LEMMA RefreshUserStep ==
    ASSUME IInv, NEW h \in Threads, RefreshUser(h)
    PROVE  [RT!Next]_(RT!vars)
<1>1. /\ TypeOK /\ session' = session /\ token' = token /\ thread[h].pc = "refresh.user"
      /\ End(h) \/ Goto(h, [thread[h] EXCEPT !.pc = "refresh.rotate"])
  BY DEF RefreshUser, Check, IInv, At, db
<1>2. Stage("refresh.rotate") = Stage(thread[h].pc)
  BY <1>1 DEF Stage
<1>3. QED
  BY <1>1, <1>2, SameStage, StutterStep, DropStep

LEMMA RefreshRotateStep ==
    ASSUME IInv, "error" \notin Faults, NEW h \in Threads, RefreshRotate(h)
    PROVE  RT!Next
<1> DEFINE tok == thread[h].tok
<1>1. /\ TypeOK /\ session' = session /\ thread[h].pc = "refresh.rotate"
      /\ tok \in Tokens /\ token[tok].user # Null
  BY IdsAssumption DEF RefreshRotate, IInv, Handler, Locals, RefreshPCs, At
<1>2. PICK o \in Outcomes :
        /\ token' = IF Applied(o) THEN [token EXCEPT ![tok].active = FALSE] ELSE token
        /\ Continue(h, o, [thread[h] EXCEPT !.pc = "issue.touch"])
  BY DEF RefreshRotate
<1>3. CASE ~Applied(o)
  BY <1>1, <1>2, <1>3, OutcomeCases, DropStep DEF Continue, Throws, Applied
<1>4. CASE Applied(o)
  <2>1. AbsRequest[h] = [stage |-> "admitted", token |-> tok, session |-> thread[h].sess]
    BY <1>1 DEF AbsRequest, RequestOf, Stage
  <2>2. AbsToken' = [AbsToken EXCEPT ![tok].state = "dead"]
    <3> DEFINE dead == [AbsToken[tok] EXCEPT !.state = "dead"]
    <3>1. /\ ~token'[tok].active /\ \A x \in Tokens : Kept(x)
          /\ \A x \in Tokens \ {tok} : token'[x] = token[x]
      BY <1>1, <1>2, <1>4, RotateKept DEF TypeOK
    <3>2. AbsToken'[tok] = dead
      BY <1>1, <3>1 DEF AbsToken, TokenState, Kept
    <3>3. \A x \in Tokens \ {tok} : AbsToken'[x] = AbsToken[x]
      BY <3>1 DEF AbsToken, TokenState
    <3> HIDE DEF dead
    <3>4. AbsToken' = [AbsToken EXCEPT ![tok] = dead]
      BY <3>2, <3>3 DEF AbsToken
    <3>5. QED
      BY <3>4 DEF dead
  <2>3. RT!Becomes(h, RT!Granted(thread[h].sess)) \/ RT!Becomes(h, RT!NoRequest)
    <3>1. CASE End(h)
      BY <1>1, <3>1, EndDrops
    <3>2. CASE Goto(h, [thread[h] EXCEPT !.pc = "issue.touch"])
      BY <1>1, <3>2, MovedRequest DEF Stage, RT!Becomes, RT!Granted
    <3>3. QED
      BY <1>2, <3>1, <3>2 DEF Continue
  <2> HIDE DEF tok
  <2>4. AbsRequest[h].stage = "admitted" /\ AbsRequest[h].token = tok
        /\ AbsRequest[h].session = thread[h].sess
    BY <2>1
  <2>5. QED
    BY <1>1, <2>2, <2>3, <2>4, SameSessions DEF RT!Next, RT!Spend, RT!At
<1>5. QED
  BY <1>3, <1>4

-----------------------------------------------------------------------------
(* Revocation, and the steps of nobody's request.                          *)

LEMMA LogoutSessionStep ==
    ASSUME IInv, NEW h \in Threads, NEW s \in Sessions, LogoutSession(h, s)
    PROVE  [RT!Next]_(RT!vars)
<1>1. /\ TypeOK /\ token' = token /\ thread[h].pc = "idle" /\ session[s].user # Null
      /\ session' = session \/ session' = [session EXCEPT ![s].revoked = TRUE]
  BY DEF LogoutSession, IInv, Records, At
<1>2. AbsRequest' = AbsRequest
  <2> DEFINE rec == [Idle EXCEPT !.pc = "logout.tokens", !.sess = s]
  <2>1. rec.pc \in Detached /\ thread[h].pc \in Detached
    BY <1>1 DEF Idle, Detached
  <2>2. UNCHANGED thread \/ thread' = [thread EXCEPT ![h] = rec]
    BY DEF LogoutSession, Begin
  <2> HIDE DEF rec
  <2>3. QED
    BY <1>1, <2>1, <2>2, StaysDetached DEF AbsRequest
<1>3. CASE session' = session
  BY <1>1, <1>2, <1>3, StutterStep
<1>4. CASE session' = [session EXCEPT ![s].revoked = TRUE]
  <2>1. \A x \in Sessions : /\ session'[x].user = session[x].user
                            /\ x # s => session'[x] = session[x]
                            /\ session'[s].revoked
    BY <1>1, <1>4 DEF TypeOK
  <2>2. AbsSession' = [AbsSession EXCEPT ![s] = "closed"]
    BY <1>1, <2>1 DEF AbsSession, SessionState
  <2>3. AbsSession[s] = "open" \/ AbsSession' = AbsSession
    BY <1>1, <2>1 DEF AbsSession, SessionState
  <2>4. AbsToken' = AbsToken
    BY <1>1, SameTokens2
  <2>5. QED
    BY <1>2, <2>2, <2>3, <2>4 DEF RT!Next, RT!Close, RT!vars
<1>5. QED
  BY <1>1, <1>3, <1>4

LEMMA DeactivateKills ==
    ASSUME TypeOK, NEW ts, token' = Deactivate(ts), session' = session,
           AbsRequest' = AbsRequest
    PROVE  RT!Next
<1> DEFINE killed == {t \in Tokens : t \in ts /\ AbsToken[t].state = "live"}
<1>1. \A t \in Tokens : /\ Kept(t) /\ (t \in ts => ~token'[t].active)
                        /\ t \notin ts => token'[t] = token[t]
  BY DeactivateKept DEF Deactivate
<1>2. \A t \in Tokens : AbsToken'[t] = IF t \in killed
                                       THEN [AbsToken[t] EXCEPT !.state = "dead"]
                                       ELSE AbsToken[t]
  <2> TAKE t \in Tokens
  <2>1. CASE t \in killed
    BY <1>1, <2>1 DEF AbsToken, TokenState, Kept
  <2>2. CASE t \notin killed
    BY <1>1, <2>2 DEF AbsToken, TokenState, Kept
  <2>3. QED
    BY <2>1, <2>2
<1>3. killed \in SUBSET {t \in Tokens : AbsToken[t].state = "live"}
  OBVIOUS
<1> HIDE DEF killed
<1>4. AbsToken' = [t \in Tokens |-> IF t \in killed
                                    THEN [AbsToken[t] EXCEPT !.state = "dead"]
                                    ELSE AbsToken[t]]
  BY <1>2 DEF AbsToken
<1>5. RT!Kill
  BY <1>3, <1>4, SameSessions DEF RT!Kill
<1>6. QED
  BY <1>5 DEF RT!Next

LEMMA KillStep ==
    ASSUME IInv, NEW h \in Threads, LogoutTokens(h) \/ ResetRevoke(h)
    PROVE  [RT!Next]_(RT!vars)
<1>1. /\ TypeOK /\ session' = session /\ thread[h].pc \in Detached
      /\ token' = token \/ \E ts : token' = Deactivate(ts)
  BY DEF LogoutTokens, ResetRevoke, IInv, At, Detached
<1>2. PICK pc \in {"logout.finish", "reset.finish"}, o \in Outcomes :
        Continue(h, o, [thread[h] EXCEPT !.pc = pc])
  BY DEF LogoutTokens, ResetRevoke
<1>3. AbsRequest' = AbsRequest
  <2>1. Stage(pc) = Stage(thread[h].pc)
    BY <1>1 DEF Stage, Detached
  <2>2. QED
    BY <1>1, <1>2, <2>1, SameStage, EndDetached DEF Continue
<1>4. QED
  BY <1>1, <1>3, StutterStep, DeactivateKills

LEMMA OtherSteps ==
    ASSUME \/ \E u \in Users : ForgotPassword(u)
           \/ \E u \in Users, st \in {"active", "disabled"} : AdminUpdate(u, st)
           \/ Crash
    PROVE  [RT!Next]_(RT!vars)
<1>1. CASE Crash
  <2>1. AbsRequest' = [h \in Threads |-> RT!NoRequest]
    BY <1>1, IdleRequest DEF Crash, AbsRequest
  <2>2. QED
    BY <1>1, <2>1, SameRecords DEF Crash, db, RT!Next, RT!DropAll
<1>2. CASE \/ \E u \in Users : ForgotPassword(u)
           \/ \E u \in Users, st \in {"active", "disabled"} : AdminUpdate(u, st)
  <2>1. session' = session /\ token' = token /\ thread' = thread
    BY <1>2 DEF ForgotPassword, AdminUpdate
  <2>2. QED
    BY <2>1, StutterStep DEF AbsRequest
<1>3. QED
  BY <1>1, <1>2

LEMMA InitImplements == Init => RT!Init
<1> SUFFICES ASSUME Init PROVE RT!Init
  OBVIOUS
<1>1. AbsSession = [s \in Sessions |-> "none"]
  BY DEF Init, NoSession, AbsSession, SessionState
<1>2. AbsToken = [t \in Tokens |-> [state |-> "none", session |-> Null]]
  BY DEF Init, NoToken, AbsToken, TokenState
<1>3. AbsRequest = [h \in Threads |-> RT!NoRequest]
  BY IdleRequest DEF Init, AbsRequest
<1>4. QED
  BY <1>1, <1>2, <1>3 DEF RT!Init

-----------------------------------------------------------------------------
LEMMA UnbornNext ==
    ASSUME IInv, Unborn, [Next]_vars
    PROVE  Unborn'
<1>1. session \in [Sessions -> [user : Users \cup {Null}, revoked : BOOLEAN]]
  BY DEF IInv, TypeOK
<1>2. ASSUME NEW h \in Threads, IssueSession(h)
      PROVE  Unborn'
  <2>1. PICK s \in Sessions :
          session' = session \/ session' = [session EXCEPT ![s].user = thread[h].user]
    BY <1>2 DEF IssueSession
  <2>2. \A x \in Sessions : session'[x].revoked = session[x].revoked
    BY <1>1, <2>1
  <2>3. (thread[h].user # Null /\ session[s].user = Null) \/ session' = session
    BY <1>1, <1>2, <2>1, IdsAssumption
       DEF IssueSession, IInv, Handler, Locals, IssuingPCs, At
  <2>4. \A x \in Sessions : session'[x].user = Null => session[x].user = Null
    BY <1>1, <2>1, <2>3
  <2>5. QED
    BY <2>2, <2>4 DEF Unborn
<1>3. ASSUME NEW h \in Threads, NEW s \in Sessions, LogoutSession(h, s)
      PROVE  Unborn'
  <2>1. /\ session[s].user # Null
        /\ session' = session \/ session' = [session EXCEPT ![s].revoked = TRUE]
    BY <1>3 DEF LogoutSession, IInv, Records
  <2>2. \A x \in Sessions : /\ session'[x].user = session[x].user
                            /\ x # s => session'[x].revoked = session[x].revoked
    BY <1>1, <2>1
  <2>3. QED
    BY <2>1, <2>2 DEF Unborn
<1>4. CASE session' = session
  BY <1>4 DEF Unborn
<1>5. session' = session \/ (\E h \in Threads : IssueSession(h))
      \/ \E h \in Threads, s \in Sessions : LogoutSession(h, s)
  BY DEF Next, LoginStep, IssueStep, RefreshStep, LogoutStep, ResetStep, Login, IssueTouch,
         IssueToken, IssueFinish, RefreshLookup, RefreshSession, RefreshUser,
         RefreshRotate, LogoutTokens, LogoutFinish, ResetLookup, ResetUser, ResetMark,
         ResetRevoke, ResetFinish, ForgotPassword, AdminUpdate, Crash, db, vars
<1>6. QED
  BY <1>2, <1>3, <1>4, <1>5

LEMMA StepImplements ==
    ASSUME IInv, Unborn, "error" \notin Faults, [Next]_vars
    PROVE  [RT!Next]_(RT!vars)
<1>1. ASSUME NEW h \in Threads, LoginStep(h) \/ IssueStep(h)
      PROVE  [RT!Next]_(RT!vars)
  BY <1>1, QuietSteps, IssueSessionStep, IssueTouchStep, IssueTokenStep
     DEF LoginStep, IssueStep
<1>2. ASSUME NEW h \in Threads, RefreshStep(h)
      PROVE  [RT!Next]_(RT!vars)
  BY <1>2, RefreshLookupStep, RefreshSessionStep, RefreshUserStep, RefreshRotateStep
     DEF RefreshStep
<1>3. ASSUME NEW h \in Threads, LogoutStep(h) \/ ResetStep(h)
      PROVE  [RT!Next]_(RT!vars)
  BY <1>3, QuietSteps, LogoutSessionStep, KillStep DEF LogoutStep, ResetStep
<1>4. CASE UNCHANGED vars
  BY <1>4, StutterStep DEF vars, db, AbsRequest
<1>5. QED
  BY <1>1, <1>2, <1>3, <1>4, OtherSteps DEF Next

\* The refresh tokens of AuthController are rotating tokens: every behaviour of
\* its handlers, with calls lost and unanswered, crashes and any interleaving,
\* is one of RotatingTokens - if the database refuses no statement in silence.
THEOREM Refinement ==
    ASSUME "error" \notin Faults
    PROVE  Spec => ImplementsRotatingTokens
<1>1. Init => Unborn
  BY DEF Init, NoSession, Unborn
<1>2. IInv /\ Unborn /\ [Next]_vars => Unborn'
  BY UnbornNext
<1>3. IInv /\ Unborn /\ [Next]_vars => [RT!Next]_(RT!vars)
  BY StepImplements
<1>4. Spec => []IInv
  BY Invariance
<1>5. QED
  BY <1>1, <1>2, <1>3, <1>4, InitImplements, PTL DEF Spec, ImplementsRotatingTokens, RT!Spec

=============================================================================
