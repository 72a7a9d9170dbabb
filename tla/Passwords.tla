----------------------------- MODULE Passwords -----------------------------
(***************************************************************************)
(* The password of one user: changePassword of UserController, and login,  *)
(* forgotPassword and resetPassword of AuthController, run by the request  *)
(* threads.  A password is checked on a record that was read in an earlier *)
(* call; nothing asks again when a new one is written or a token minted.   *)
(*                                                                         *)
(* A password stands for itself and its hash.  Clients never choose one    *)
(* twice, so that a password tells who set it and when.  A request with a  *)
(* wrong password, an expired reset token or for a disabled user changes   *)
(* nothing and is not here; refresh is the subject of AuthSessions.        *)
(***************************************************************************)
EXTENDS SurrealCalls

CONSTANTS Threads, Passwords,
          Tokens,  \* ids of refresh_token records
          Resets,  \* ids of password_reset records, and their tokens
          Null

ASSUME NullAssumption == Null \notin Threads \cup Passwords \cup Tokens \cup Resets

VARIABLES
    password,  \* the user's password_hash
    token,     \* refresh_token records of the user
    reset,     \* password_reset records of the user
    thread,    \* what each thread is doing
    told,      \* reset tokens a client was told
    chosen,    \* passwords that were chosen, the bound on new ones
    changed,   \* history: the writes of changePassword
    resets     \* history: the resets that were answered with ok

db == <<password, token, reset>>
vars == <<password, token, reset, thread, told, chosen, changed, resets>>

\* under is the password a login was checked against, late whether it had been
\* replaced by the time the token was created.
NoToken == [under |-> Null, by |-> Null, active |-> FALSE, late |-> FALSE]

NoReset == [made |-> FALSE, used |-> FALSE]

\* under is the password that was checked, or that a reset replaced.
Idle == [pc |-> "idle", under |-> Null, next |-> Null, rst |-> Null]

At(h, pc) == thread[h].pc = pc

Goto(h, rec) == thread' = [thread EXCEPT ![h] = rec]

End(h) == Goto(h, Idle)

Continue(h, o, rec) == IF Throws(o) THEN End(h) ELSE Goto(h, rec)

-----------------------------------------------------------------------------
(* login.                                                                  *)

\* The record is read and the password presented is the one it holds.
Login(h) ==
    /\ At(h, "idle")
    /\ Goto(h, [Idle EXCEPT !.pc = "mint", !.under = password])
    /\ UNCHANGED <<db, told, chosen, changed, resets>>

\* issueTokens, of which only the refresh token matters here.
Mint(h) ==
    /\ At(h, "mint")
    /\ \E o \in Outcomes, t \in Tokens :
          /\ token[t].by = Null
          /\ token' = IF Applied(o)
                      THEN [token EXCEPT ![t] =
                              [under |-> thread[h].under, by |-> h, active |-> TRUE,
                               late |-> thread[h].under # password]]
                      ELSE token
    /\ End(h)
    /\ UNCHANGED <<password, reset, told, chosen, changed, resets>>

-----------------------------------------------------------------------------
(* changePassword.                                                         *)

\* Mutant: the password is checked on a cached record.
ChangeCached(h, next) ==
    /\ At(h, "idle")
    /\ next \notin chosen
    /\ chosen' = chosen \cup {next}
    /\ \E p \in chosen :
          Goto(h, [Idle EXCEPT !.pc = "change", !.under = p, !.next = next])
    /\ UNCHANGED <<db, told, changed, resets>>

Change(h, next) ==
    /\ At(h, "idle")
    /\ next \notin chosen
    /\ chosen' = chosen \cup {next}
    /\ Goto(h, [Idle EXCEPT !.pc = "change", !.under = password, !.next = next])
    /\ UNCHANGED <<db, told, changed, resets>>

\* The record is written by its id.  The invalidation, the audit row and the
\* answer change nothing here; no token and no session is revoked.
ChangeWrite(h) ==
    /\ At(h, "change")
    /\ \E o \in Outcomes :
          IF Applied(o)
          THEN /\ password' = thread[h].next
               /\ changed' = changed \cup {[under |-> thread[h].under, by |-> h,
                                            next |-> thread[h].next]}
          ELSE UNCHANGED <<password, changed>>
    /\ End(h)
    /\ UNCHANGED <<token, reset, told, chosen, resets>>

-----------------------------------------------------------------------------
(* forgotPassword and resetPassword.                                       *)

\* Earlier reset tokens stay good.
ForgotPassword ==
    /\ \E o, audit \in Outcomes, r \in Resets :
          /\ ~reset[r].made
          /\ Applied(o)
          /\ reset' = [reset EXCEPT ![r].made = TRUE]
          /\ told' = IF Throws(o) \/ Throws(audit) THEN told ELSE told \cup {r}
    /\ UNCHANGED <<password, token, thread, chosen, changed, resets>>

ResetLookup(h, r, next) ==
    /\ r \in told
    /\ ~reset[r].used
    /\ At(h, "idle")
    /\ next \notin chosen
    /\ chosen' = chosen \cup {next}
    /\ Goto(h, [pc |-> "reset.user", under |-> Null, next |-> next, rst |-> r])
    /\ UNCHANGED <<db, told, changed, resets>>

ResetUser(h) ==
    /\ At(h, "reset.user")
    /\ \E o \in Outcomes :
          /\ password' = IF Applied(o) THEN thread[h].next ELSE password
          /\ Continue(h, o, [thread[h] EXCEPT !.pc = "reset.mark", !.under = password])
    /\ UNCHANGED <<token, reset, told, chosen, changed, resets>>

\* Mutant: a mark that throws is logged and forgotten.
ResetMarkSwallows(h) ==
    /\ At(h, "reset.mark")
    /\ \E o \in Outcomes :
          reset' = IF Applied(o) THEN [reset EXCEPT ![thread[h].rst].used = TRUE]
                   ELSE reset
    /\ Goto(h, [thread[h] EXCEPT !.pc = "reset.revoke"])
    /\ UNCHANGED <<password, token, told, chosen, changed, resets>>

ResetMark(h) ==
    /\ At(h, "reset.mark")
    /\ \E o \in Outcomes :
          /\ reset' = IF Applied(o) THEN [reset EXCEPT ![thread[h].rst].used = TRUE]
                      ELSE reset
          /\ Continue(h, o, [thread[h] EXCEPT !.pc = "reset.revoke"])
    /\ UNCHANGED <<password, token, told, chosen, changed, resets>>

\* Mutant: a revocation that throws is logged and forgotten.
ResetRevokeSwallows(h) ==
    /\ At(h, "reset.revoke")
    /\ \E o \in Outcomes :
          token' = IF Applied(o)
                   THEN [t \in Tokens |-> [token[t] EXCEPT !.active = FALSE]]
                   ELSE token
    /\ Goto(h, [thread[h] EXCEPT !.pc = "reset.finish"])
    /\ UNCHANGED <<password, reset, told, chosen, changed, resets>>

\* All refresh tokens of the user.
ResetRevoke(h) ==
    /\ At(h, "reset.revoke")
    /\ \E o \in Outcomes :
          /\ token' = IF Applied(o)
                      THEN [t \in Tokens |-> [token[t] EXCEPT !.active = FALSE]]
                      ELSE token
          /\ Continue(h, o, [thread[h] EXCEPT !.pc = "reset.finish"])
    /\ UNCHANGED <<password, reset, told, chosen, changed, resets>>

\* The audit row and the answer.
ResetFinish(h) ==
    /\ At(h, "reset.finish")
    /\ \E o \in Outcomes :
          resets' = IF Throws(o) THEN resets
                    ELSE resets \cup {[under |-> thread[h].under, by |-> h,
                                       next |-> thread[h].next, rst |-> thread[h].rst]}
    /\ End(h)
    /\ UNCHANGED <<db, told, chosen, changed>>

-----------------------------------------------------------------------------
Crash ==
    /\ "crash" \in Faults
    /\ thread' = [h \in Threads |-> Idle]
    /\ UNCHANGED <<db, told, chosen, changed, resets>>

Init ==
    /\ password \in Passwords
    /\ token = [t \in Tokens |-> NoToken]
    /\ reset = [r \in Resets |-> NoReset]
    /\ thread = [h \in Threads |-> Idle]
    /\ told = {}
    /\ chosen = {password}
    /\ changed = {}
    /\ resets = {}

PasswordStep(h) ==
    \/ Login(h) \/ Mint(h)
    \/ \E p \in Passwords : Change(h, p)
    \/ ChangeWrite(h)

ResetStep(h) ==
    \/ \E r \in Resets, p \in Passwords : ResetLookup(h, r, p)
    \/ ResetUser(h) \/ ResetMark(h) \/ ResetRevoke(h) \/ ResetFinish(h)

Next == \/ \E h \in Threads : PasswordStep(h) \/ ResetStep(h)
        \/ ForgotPassword \/ Crash

Spec == Init /\ [][Next]_vars

-----------------------------------------------------------------------------
(* Properties.                                                             *)

ThreadRecords ==
    [pc : {"idle", "mint", "change"}, under : Passwords \cup {Null},
     next : Passwords \cup {Null}, rst : {Null}]
    \cup [pc : {"reset.user", "reset.mark", "reset.revoke", "reset.finish"},
          under : Passwords \cup {Null}, next : Passwords, rst : Resets]

\* Types; a reset that has begun has a reset token to mark used at its end.
TypeOK ==
    /\ password \in chosen
    /\ token \in [Tokens -> [under : Passwords \cup {Null}, by : Threads \cup {Null},
                             active : BOOLEAN, late : BOOLEAN]]
    /\ reset \in [Resets -> [made : BOOLEAN, used : BOOLEAN]]
    /\ thread \in [Threads -> ThreadRecords]
    /\ told \subseteq Resets
    /\ chosen \subseteq Passwords
    /\ changed \subseteq [under : Passwords, by : Threads, next : Passwords]
    /\ resets \subseteq [under : Passwords, by : Threads, next : Passwords, rst : Resets]

\* What a password is still good for when it has been replaced: requests in
\* flight.  Each thread sets a new password by it at most once, and creates at
\* most one refresh token by it after it was replaced - so that neither a change
\* nor a reset can be followed by a series of changes and logins under the
\* password it took away.
OneUsePerThread ==
    /\ \A a, b \in changed : (a.under = b.under /\ a.by = b.by) => a = b
    /\ \A s, t \in Tokens :
          (/\ token[s].late /\ token[t].late
           /\ token[s].under = token[t].under /\ token[s].by = token[t].by) => s = t

\* Where failures throw, a reset that was answered leaves no refresh token of
\* the password it replaced, but those of logins that were past their check of
\* that password when it went.  changePassword promises no such thing.
ResetLeavesOnlyLate ==
    "error" \notin Faults =>
        \A a \in resets, t \in Tokens :
            (token[t].active /\ token[t].under = a.under) => token[t].late

\* Where failures throw, a reset token serves for one answered reset per
\* thread: mark and lookup are separate calls, so concurrent requests may both
\* succeed, but afterwards the token is used up.
OneResetPerThread ==
    "error" \notin Faults =>
        \A a, b \in resets : (a.rst = b.rst /\ a.by = b.by) => a = b

=============================================================================
