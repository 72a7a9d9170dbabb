---------------------------- MODULE AuthSessions ----------------------------
(***************************************************************************)
(* Sessions and rotating refresh tokens: login, refresh, logout,           *)
(* forgotPassword and resetPassword of AuthController, updateUser and      *)
(* deleteUser of UserController, run by the request threads of one server  *)
(* against one SurrealDB.                                                  *)
(*                                                                         *)
(* A handler is a sequence of blocking database calls; the calls of        *)
(* different handlers interleave, so each call is an action, and a         *)
(* handler's program counter names the call it makes next.  The arguments  *)
(* of a handler are read before its first call and belong to it.           *)
(*                                                                         *)
(* Data.  Users exist from the start (registerUser is not here).  Whether  *)
(* a password, a TOTP code or an expiry date admits a request is left to   *)
(* chance: what they refuse changes nothing, and a refused request is a    *)
(* request never made.  Ids are taken from finite sets, which bound the    *)
(* number of sessions, refresh tokens and reset tokens ever created.       *)
(***************************************************************************)
EXTENDS SurrealCalls

CONSTANTS Threads,   \* the threads that run handlers
          Users,
          Sessions,  \* ids of session records
          Tokens,    \* ids of refresh_token records
          Resets,    \* ids of password_reset records
          Null       \* no id: the "" that asString() makes of a missing one

ASSUME IdsAssumption ==
    /\ Null \notin Threads \cup Users \cup Sessions \cup Tokens \cup Resets
    /\ Users \cap (Sessions \cup Tokens \cup Resets) = {}
    /\ Sessions \cap (Tokens \cup Resets) = {}
    /\ Tokens \cap Resets = {}

VARIABLES
    status,   \* user records: "active", or "disabled" for anything else
    session,  \* session records; user = Null until created
    token,    \* refresh_token records; user = Null until created
    reset,    \* password_reset records; user = Null until created
    thread,   \* what each thread is doing
    issued,   \* ids of which a client holds the secret: sessions (by an access
              \* token's sid), refresh tokens, reset tokens
    alive     \* history: what was valid when the request in hand arrived

db == <<status, session, token, reset>>
vars == <<status, session, token, reset, thread, issued, alive>>

PCs == {"idle", "issue.session", "issue.touch", "issue.token", "issue.finish",
        "refresh.session", "refresh.user", "refresh.rotate",
        "logout.tokens", "logout.finish",
        "reset.user", "reset.mark", "reset.revoke", "reset.finish"}

\* The locals of a handler: user_id, session_id, the refresh or reset record it
\* looked up, and the refresh token it has minted.
Idle == [pc |-> "idle", user |-> Null, sess |-> Null, tok |-> Null,
         rst |-> Null, new |-> Null]

NoSession == [user |-> Null, revoked |-> FALSE]

\* parent, by and late are history: the token spent on this one, the thread
\* that minted it, and whether its session was revoked by then.
NoToken == [user |-> Null, session |-> Null, active |-> FALSE,
            parent |-> Null, by |-> Null, late |-> FALSE]

NoReset == [user |-> Null, used |-> FALSE]

At(h, pc) == thread[h].pc = pc

SessionLive(s) == s \in Sessions /\ session[s].user # Null /\ ~session[s].revoked

ResetLive(r) == reset[r].user # Null /\ ~reset[r].used

AliveNow ==
    {u \in Users : status[u] = "active"} \cup {s \in Sessions : SessionLive(s)}
        \cup {t \in Tokens : token[t].active} \cup {r \in Resets : ResetLive(r)}

-----------------------------------------------------------------------------
(* How a handler moves from one call to the next.                          *)

\* An idle thread takes a request: its first call and what it found are in rec.
Begin(h, rec) ==
    /\ At(h, "idle")
    /\ thread' = [thread EXCEPT ![h] = rec]
    /\ alive' = [alive EXCEPT ![h] = AliveNow]

\* The handler answers, by a return or by its catch block.
End(h) ==
    /\ thread' = [thread EXCEPT ![h] = Idle]
    /\ alive' = [alive EXCEPT ![h] = {}]

Goto(h, rec) ==
    /\ thread' = [thread EXCEPT ![h] = rec]
    /\ UNCHANGED alive

\* After a write that ended with o: the catch block, or the next call.
Continue(h, o, rec) == \/ Throws(o) /\ End(h)
                       \/ ~Throws(o) /\ Goto(h, rec)

\* After a read on which fact depends.  A failed read throws or yields no row:
\* either way the request is refused and nothing has changed.
Check(h, fact, rec) ==
    \E o \in Outcomes : \/ o = "ok" /\ fact /\ Goto(h, rec)
                        \/ ~(o = "ok" /\ fact) /\ End(h)

-----------------------------------------------------------------------------
(* login: the user record is read once; credentials and status are checked *)
(* on that copy.                                                           *)

Login(h, u) ==
    /\ status[u] = "active"
    /\ Begin(h, [Idle EXCEPT !.pc = "issue.session", !.user = u])
    /\ UNCHANGED <<db, issued>>

(* issueTokens: a new session or a touch of the old one, the refresh token *)
(* record, and the answer that carries both secrets.                       *)

\* The created record's id is read without looking whether there is one: a
\* refused CREATE leaves sid "" and the login goes on.
IssueSession(h) ==
    /\ At(h, "issue.session")
    /\ \E o \in Outcomes, s \in Sessions :
          /\ session[s].user = Null
          /\ session' = IF Applied(o)
                        THEN [session EXCEPT ![s].user = thread[h].user]
                        ELSE session
          /\ Continue(h, o, [thread[h] EXCEPT !.pc = "issue.token",
                                !.sess = IF Applied(o) THEN s ELSE Null])
    /\ UNCHANGED <<status, token, reset, issued>>

IssueTouch(h) ==
    /\ At(h, "issue.touch")
    /\ \E o \in Outcomes : Continue(h, o, [thread[h] EXCEPT !.pc = "issue.token"])
    /\ UNCHANGED <<db, issued>>

Minted(h) == [user    |-> thread[h].user,
              session |-> thread[h].sess,
              active  |-> TRUE,
              parent  |-> thread[h].tok,
              by      |-> h,
              late    |-> thread[h].sess # Null /\ session[thread[h].sess].revoked]

IssueToken(h) ==
    /\ At(h, "issue.token")
    /\ \E o \in Outcomes, t \in Tokens :
          /\ token[t].user = Null
          /\ token' = IF Applied(o) THEN [token EXCEPT ![t] = Minted(h)] ELSE token
          /\ Continue(h, o, [thread[h] EXCEPT !.pc = "issue.finish",
                                !.new = IF Applied(o) THEN t ELSE Null])
    /\ UNCHANGED <<status, session, reset, issued>>

\* last_login_at, the audit row and the answer.  When one of the two calls
\* throws, what was minted stays in the database and nobody holds it.
IssueFinish(h) ==
    /\ At(h, "issue.finish")
    /\ \E o \in Outcomes :
          issued' = IF Throws(o) THEN issued
                    ELSE issued \cup ({thread[h].sess, thread[h].new} \ {Null})
    /\ End(h)
    /\ UNCHANGED db

-----------------------------------------------------------------------------
(* refresh: four reads and writes between the lookup of the token and the  *)
(* creation of the next one.                                               *)

RefreshLookup(h, t) ==
    /\ t \in issued
    /\ token[t].active
    /\ Begin(h, [Idle EXCEPT !.pc = "refresh.session", !.tok = t,
                    !.user = token[t].user, !.sess = token[t].session])
    /\ UNCHANGED <<db, issued>>

\* Mutant: any session that exists will do.
RefreshSessionExists(h) ==
    /\ At(h, "refresh.session")
    /\ Check(h, thread[h].sess # Null, [thread[h] EXCEPT !.pc = "refresh.user"])
    /\ UNCHANGED <<db, issued>>

RefreshSession(h) ==
    /\ At(h, "refresh.session")
    /\ Check(h, SessionLive(thread[h].sess),
             [thread[h] EXCEPT !.pc = "refresh.user"])
    /\ UNCHANGED <<db, issued>>

\* Mutant: any user that exists will do.
RefreshUserExists(h) ==
    /\ At(h, "refresh.user")
    /\ Check(h, TRUE, [thread[h] EXCEPT !.pc = "refresh.rotate"])
    /\ UNCHANGED <<db, issued>>

RefreshUser(h) ==
    /\ At(h, "refresh.user")
    /\ Check(h, status[thread[h].user] = "active",
             [thread[h] EXCEPT !.pc = "refresh.rotate"])
    /\ UNCHANGED <<db, issued>>

\* Mutant: a rotation that throws is logged and forgotten.
RefreshRotateSwallows(h) ==
    /\ At(h, "refresh.rotate")
    /\ \E o \in Outcomes :
          token' = IF Applied(o)
                   THEN [token EXCEPT ![thread[h].tok].active = FALSE]
                   ELSE token
    /\ Goto(h, [thread[h] EXCEPT !.pc = "issue.touch"])
    /\ UNCHANGED <<status, session, reset, issued>>

\* The record is written by id: nothing asks whether it is still active.
RefreshRotate(h) ==
    /\ At(h, "refresh.rotate")
    /\ \E o \in Outcomes :
          /\ token' = IF Applied(o)
                      THEN [token EXCEPT ![thread[h].tok].active = FALSE]
                      ELSE token
          /\ Continue(h, o, [thread[h] EXCEPT !.pc = "issue.touch"])
    /\ UNCHANGED <<status, session, reset, issued>>

-----------------------------------------------------------------------------
(* logout: its database part.  The Redis part is in AccessTokens.  An      *)
(* access token without a sid skips these calls and changes nothing here.  *)

LogoutSession(h, s) ==
    /\ s \in issued
    /\ At(h, "idle")
    /\ \E o \in Outcomes :
          /\ session' = IF Applied(o) THEN [session EXCEPT ![s].revoked = TRUE]
                        ELSE session
          /\ \/ Throws(o) /\ UNCHANGED <<thread, alive>>
             \/ ~Throws(o) /\ Begin(h, [Idle EXCEPT !.pc = "logout.tokens", !.sess = s])
    /\ UNCHANGED <<status, token, reset, issued>>

\* UPDATE refresh_token SET active = false WHERE ...
Deactivate(ts) ==
    [t \in Tokens |-> IF t \in ts THEN [token[t] EXCEPT !.active = FALSE]
                                ELSE token[t]]

\* Mutant: only tokens that refresh has minted.
LogoutTokensRefreshed(h) ==
    /\ At(h, "logout.tokens")
    /\ token' = Deactivate({t \in Tokens : /\ token[t].session = thread[h].sess
                                          /\ token[t].parent # Null})
    /\ Goto(h, [thread[h] EXCEPT !.pc = "logout.finish"])
    /\ UNCHANGED <<status, session, reset, issued>>

LogoutTokens(h) ==
    /\ At(h, "logout.tokens")
    /\ \E o \in Outcomes :
          /\ token' = IF Applied(o)
                      THEN Deactivate({t \in Tokens :
                                         token[t].session = thread[h].sess})
                      ELSE token
          /\ Continue(h, o, [thread[h] EXCEPT !.pc = "logout.finish"])
    /\ UNCHANGED <<status, session, reset, issued>>

LogoutFinish(h) ==
    /\ At(h, "logout.finish")
    /\ End(h)
    /\ UNCHANGED <<db, issued>>

-----------------------------------------------------------------------------
(* forgotPassword is one write, the audit row and the answer; no other     *)
(* handler can see the record before the answer is out.                    *)

ForgotPassword(u) ==
    /\ \E o, audit \in Outcomes, r \in Resets :
          /\ reset[r].user = Null
          /\ Applied(o)
          /\ reset' = [reset EXCEPT ![r].user = u]
          /\ issued' = IF Throws(o) \/ Throws(audit) THEN issued
                       ELSE issued \cup {r}
    /\ UNCHANGED <<status, session, token, thread, alive>>

(* resetPassword.                                                          *)

ResetLookup(h, r) ==
    /\ r \in issued
    /\ ResetLive(r)
    /\ Begin(h, [Idle EXCEPT !.pc = "reset.user", !.user = reset[r].user,
                    !.rst = r])
    /\ UNCHANGED <<db, issued>>

\* The new password_hash; passwords are not told apart here.
ResetUser(h) ==
    /\ At(h, "reset.user")
    /\ \E o \in Outcomes : Continue(h, o, [thread[h] EXCEPT !.pc = "reset.mark"])
    /\ UNCHANGED <<db, issued>>

\* Mutant: a mark that throws is logged and forgotten.
ResetMarkSwallows(h) ==
    /\ At(h, "reset.mark")
    /\ \E o \in Outcomes :
          reset' = IF Applied(o) THEN [reset EXCEPT ![thread[h].rst].used = TRUE]
                   ELSE reset
    /\ Goto(h, [thread[h] EXCEPT !.pc = "reset.revoke"])
    /\ UNCHANGED <<status, session, token, issued>>

ResetMark(h) ==
    /\ At(h, "reset.mark")
    /\ \E o \in Outcomes :
          /\ reset' = IF Applied(o)
                      THEN [reset EXCEPT ![thread[h].rst].used = TRUE]
                      ELSE reset
          /\ Continue(h, o, [thread[h] EXCEPT !.pc = "reset.revoke"])
    /\ UNCHANGED <<status, session, token, issued>>

\* All refresh tokens of the user; the sessions stay as they are.
ResetRevoke(h) ==
    /\ At(h, "reset.revoke")
    /\ \E o \in Outcomes :
          /\ token' = IF Applied(o)
                      THEN Deactivate({t \in Tokens :
                                         token[t].user = thread[h].user})
                      ELSE token
          /\ Continue(h, o, [thread[h] EXCEPT !.pc = "reset.finish"])
    /\ UNCHANGED <<status, session, reset, issued>>

ResetFinish(h) ==
    /\ At(h, "reset.finish")
    /\ End(h)
    /\ UNCHANGED <<db, issued>>

-----------------------------------------------------------------------------
(* updateUser and deleteUser write the record once.  For a request in      *)
(* flight, a user enabled meanwhile counts as valid on arrival.            *)

AdminUpdate(u, st) ==
    /\ status' = [status EXCEPT ![u] = st]
    /\ alive' = IF st = "active"
                THEN [h \in Threads |-> IF At(h, "idle") THEN {} ELSE alive[h] \cup {u}]
                ELSE alive
    /\ UNCHANGED <<session, token, reset, thread, issued>>

\* The process dies and starts again: only the handlers are forgotten.
Crash ==
    /\ "crash" \in Faults
    /\ thread' = [h \in Threads |-> Idle]
    /\ alive' = [h \in Threads |-> {}]
    /\ UNCHANGED <<db, issued>>

-----------------------------------------------------------------------------
Init ==
    /\ status = [u \in Users |-> "active"]
    /\ session = [s \in Sessions |-> NoSession]
    /\ token = [t \in Tokens |-> NoToken]
    /\ reset = [r \in Resets |-> NoReset]
    /\ thread = [h \in Threads |-> Idle]
    /\ issued = {}
    /\ alive = [h \in Threads |-> {}]

LoginStep(h) == (\E u \in Users : Login(h, u)) \/ IssueSession(h)

IssueStep(h) == IssueTouch(h) \/ IssueToken(h) \/ IssueFinish(h)

RefreshStep(h) == \/ \E t \in Tokens : RefreshLookup(h, t)
                  \/ RefreshSession(h) \/ RefreshUser(h) \/ RefreshRotate(h)

LogoutStep(h) == \/ \E s \in Sessions : LogoutSession(h, s)
                 \/ LogoutTokens(h) \/ LogoutFinish(h)

ResetStep(h) == \/ \E r \in Resets : ResetLookup(h, r)
                \/ ResetUser(h) \/ ResetMark(h) \/ ResetRevoke(h) \/ ResetFinish(h)

Next ==
    \/ \E h \in Threads : \/ LoginStep(h) \/ IssueStep(h) \/ RefreshStep(h)
                          \/ LogoutStep(h) \/ ResetStep(h)
    \/ \E u \in Users : ForgotPassword(u)
    \/ \E u \in Users, st \in {"active", "disabled"} : AdminUpdate(u, st)
    \/ Crash

Spec == Init /\ [][Next]_vars

-----------------------------------------------------------------------------
(* Properties.                                                             *)

ThreadRecords ==
    [pc : PCs, user : Users \cup {Null}, sess : Sessions \cup {Null},
     tok : Tokens \cup {Null}, rst : Resets \cup {Null}, new : Tokens \cup {Null}]

TokenRecords ==
    [user : Users \cup {Null}, session : Sessions \cup {Null}, active : BOOLEAN,
     parent : Tokens \cup {Null}, by : Threads \cup {Null}, late : BOOLEAN]

\* Every record has its shape; in particular a client is only ever handed the
\* ids of records, never the "" of a session or token whose creation failed.
TypeOK ==
    /\ status \in [Users -> {"active", "disabled"}]
    /\ session \in [Sessions -> [user : Users \cup {Null}, revoked : BOOLEAN]]
    /\ token \in [Tokens -> TokenRecords]
    /\ reset \in [Resets -> [user : Users \cup {Null}, used : BOOLEAN]]
    /\ thread \in [Threads -> ThreadRecords]
    /\ issued \subseteq Sessions \cup Tokens \cup Resets
    /\ alive \in [Threads -> SUBSET (Users \cup Sessions \cup Tokens \cup Resets)]

\* How far a refresh or a login has come: which of its checks are behind it.
SessionChecked == {"refresh.user", "refresh.rotate", "issue.touch"}

UserChecked == {"refresh.rotate", "issue.session", "issue.touch", "issue.token"}

\* Real-time order of revocation.  What a request goes on with was valid at
\* some time since it arrived: a refresh that arrives after its token was
\* rotated, after its session was logged out, or while its user is disabled
\* (and stays so), mints nothing, and a reset token already marked used resets
\* nothing - although refresh makes its three checks in three separate calls.
OnlyLiveCredentials ==
    \A h \in Threads :
        /\ thread[h].tok # Null => thread[h].tok \in alive[h]
        /\ thread[h].rst # Null => thread[h].rst \in alive[h]
        /\ thread[h].pc \in SessionChecked => thread[h].sess \in alive[h]
        /\ thread[h].pc \in UserChecked => thread[h].user \in alive[h]

\* Rotation has no compare-and-swap, so concurrent refreshes with one token
\* each mint a successor.  They are no more than the threads in flight at the
\* first rotation: a thread never spends the same token twice, through crashes
\* and lost answers, unless the database silently refuses the rotation.
OneChildPerThread ==
    "error" \notin Faults =>
        \A a, b \in Tokens :
            (/\ token[a].parent # Null
             /\ token[a].parent = token[b].parent
             /\ token[a].by = token[b].by) => a = b

\* What logout does not catch.  A refresh past its session check still mints
\* a token of the revoked session, but each thread at most once, whatever
\* fails: the session cannot be kept going by refreshing such a token.
OneLateTokenPerThread ==
    \A a, b \in Tokens :
        (/\ token[a].late /\ token[b].late
         /\ token[a].session = token[b].session
         /\ token[a].by = token[b].by) => a = b

\* A logout that comes to its end has revoked the session, and every refresh
\* token of it that was active when the logout arrived is dead.  A throwing
\* call never lets it come to its end; a statement that is refused in silence
\* does, although SurrealClient.h:10-11 says that every failure throws.
LogoutComplete ==
    \A h \in Threads : At(h, "logout.finish") =>
        /\ session[thread[h].sess].revoked
        /\ \A t \in Tokens \cap alive[h] :
              token[t].session = thread[h].sess => ~token[t].active

\* The same where failures do throw.
LogoutCompleteIfErrorsThrow == "error" \notin Faults => LogoutComplete

\* A password reset that comes to its end has used up its reset token, and
\* every refresh token the user had when it arrived is dead, unless the
\* database refuses a statement in silence.
ResetComplete ==
    "error" \notin Faults =>
        \A h \in Threads : At(h, "reset.finish") =>
            /\ reset[thread[h].rst].used
            /\ \A t \in Tokens \cap alive[h] :
                  token[t].user = thread[h].user => ~token[t].active

\* Nobody is locked out for nothing.  While no call fails, the client of a
\* session that nobody revoked, and whose user did not reset the password,
\* holds an active refresh token whenever no request on the session is in
\* flight: a refresh that is refused (user disabled) has not spent its token.
NeverStranded ==
    Faults = {} =>
        \A s \in Sessions \cap issued :
            \/ session[s].revoked
            \/ \E h \in Threads : thread[h].sess = s
            \/ \E r \in Resets : reset[r].used /\ reset[r].user = session[s].user
            \/ \E t \in Tokens \cap issued : token[t].active /\ token[t].session = s

=============================================================================
