---------------------------- MODULE Registration ----------------------------
(***************************************************************************)
(* registerUser and verifyEmail of AuthController, run by the request      *)
(* threads against the tables user and email_verification.                 *)
(*                                                                         *)
(* registerUser asks whether the address is free, counts the users to see  *)
(* whether this is the first, and then creates and reads records, one call *)
(* after the other.  It ends in issueTokens, whose records are the subject *)
(* of AuthSessions; here its calls are one step that succeeds or throws.   *)
(* A code is good for 24 hours, which are over at any time (Lapse).  Ids   *)
(* are taken from finite sets, which bound the records ever created.       *)
(***************************************************************************)
EXTENDS SurrealCalls, FiniteSets

CONSTANTS Threads,
          Emails,  \* addresses, normalised
          Users,   \* ids of user records
          Codes,   \* ids of email_verification records, and their codes
          Null,    \* no id: "" for the id of a user that is not there
          GroupsCount  \* whether count() gives one total for the whole table

ASSUME IdsAssumption == Null \notin Threads \cup Emails \cup Users \cup Codes

ASSUME CountAssumption == GroupsCount \in BOOLEAN

VARIABLES
    user,       \* user records; email = Null until created
    code,       \* email_verification records; made = FALSE until created
    thread,     \* what each thread is doing
    issued,     \* codes a client was told
    registered  \* history: users whose registration was answered with 201

vars == <<user, code, thread, issued, registered>>

\* by is history: the thread that created the user.
NoUser == [email |-> Null, role |-> "user", verified |-> FALSE, by |-> Null]

\* user_id of a code is "" when registerUser lost the user it had created.
NoCode == [made |-> FALSE, user |-> Null, used |-> FALSE, expired |-> FALSE]

Idle == [pc |-> "idle", email |-> Null, first |-> FALSE, user |-> Null,
         code |-> Null]

At(h, pc) == thread[h].pc = pc

Goto(h, rec) == thread' = [thread EXCEPT ![h] = rec]

End(h) == Goto(h, Idle)

\* A write, and any read whose empty result is not looked at, that ended with o.
Continue(h, o, rec) == IF Throws(o) THEN End(h) ELSE Goto(h, rec)

Exists(u) == user[u].email # Null

Taken(e) == \E u \in Users : user[u].email = e

-----------------------------------------------------------------------------
(* registerUser.                                                           *)

\* An address that is taken is answered with 409, one whose lookup throws with
\* 500; when the lookup is refused, the address passes for free.
Register(h, e) ==
    /\ At(h, "idle")
    /\ \E o \in Outcomes : ~Throws(o) /\ (o = "ok" => ~Taken(e))
    /\ Goto(h, [Idle EXCEPT !.pc = "count", !.email = e])
    /\ UNCHANGED <<user, code, issued, registered>>

\* SELECT count() AS total FROM user, and whether the first row's total is 0.
\* The code takes it that there is one row with the number of users.  Without
\* GROUP ALL, SurrealDB answers with a row of total 1 for each user, and with
\* none for no user: then no total is ever 0.
CountIsZero == GroupsCount /\ \A u \in Users : ~Exists(u)

\* Mutant: a count that throws passes for a count of 0.
CountThrowsFirst(h) ==
    /\ At(h, "count")
    /\ \E o \in Outcomes :
          Goto(h, [thread[h] EXCEPT !.pc = "create",
                      !.first = Throws(o) \/ (o = "ok" /\ CountIsZero)])
    /\ UNCHANGED <<user, code, issued, registered>>

\* Without a row, or when the call throws, this is not the first user.
Count(h) ==
    /\ At(h, "count")
    /\ \E o \in Outcomes :
          Goto(h, [thread[h] EXCEPT !.pc = "create", !.first = o = "ok" /\ CountIsZero])
    /\ UNCHANGED <<user, code, issued, registered>>

\* Mutant: the table has no unique index.
CreateNoIndex(h) ==
    /\ At(h, "create")
    /\ \E u \in Users :
          /\ ~Exists(u)
          /\ user' = [user EXCEPT ![u].email = thread[h].email, ![u].by = h]
          /\ Goto(h, [thread[h] EXCEPT !.pc = "activate", !.user = u])
    /\ UNCHANGED <<code, issued, registered>>

\* createUser.  The unique index idx_user_email_norm refuses a second user of
\* an address; createUser throws unless it gets the new row.
Create(h) ==
    /\ At(h, "create")
    /\ \/ \E o \in Outcomes, u \in Users :
             /\ ~Taken(thread[h].email) /\ ~Exists(u)
             /\ user' = IF Applied(o)
                        THEN [user EXCEPT ![u].email = thread[h].email,
                                 ![u].role = IF thread[h].first THEN "admin" ELSE "user",
                                 ![u].by = h]
                        ELSE user
             /\ IF o = "ok" THEN Goto(h, [thread[h] EXCEPT !.pc = "activate", !.user = u])
                            ELSE End(h)
       \/ Taken(thread[h].email) /\ End(h) /\ UNCHANGED user
    /\ UNCHANGED <<code, issued, registered>>

\* email_verified = false, status = "active".
Activate(h) ==
    /\ At(h, "activate")
    /\ \E o \in Outcomes :
          /\ user' = IF Applied(o) THEN [user EXCEPT ![thread[h].user].verified = FALSE]
                     ELSE user
          /\ Continue(h, o, [thread[h] EXCEPT !.pc = "reload"])
    /\ UNCHANGED <<code, issued, registered>>

\* selectById.  When it is refused, the user is null and its id is "".
Reload(h) ==
    /\ At(h, "reload")
    /\ \E o \in Outcomes :
          Continue(h, o, [thread[h] EXCEPT !.pc = "code",
                             !.user = IF Applied(o) THEN @ ELSE Null])
    /\ UNCHANGED <<user, code, issued, registered>>

\* Mutant: the code is made out to whoever has the first free id.
CreateCodeAnyUser(h) ==
    /\ At(h, "code")
    /\ \E c \in Codes, u \in Users :
          /\ ~code[c].made
          /\ code' = [code EXCEPT ![c] = [NoCode EXCEPT !.made = TRUE, !.user = u]]
          /\ Goto(h, [thread[h] EXCEPT !.pc = "finish", !.code = c])
    /\ UNCHANGED <<user, issued, registered>>

\* The code is drawn at random, so no one else has it; and it is told to the
\* client whether its record exists or not.
CreateCode(h) ==
    /\ At(h, "code")
    /\ \E o \in Outcomes, c \in Codes :
          /\ ~code[c].made /\ c \notin issued
          /\ \A g \in Threads : thread[g].code # c
          /\ code' = IF Applied(o)
                     THEN [code EXCEPT ![c] = [NoCode EXCEPT !.made = TRUE,
                                                             !.user = thread[h].user]]
                     ELSE code
          /\ Continue(h, o, [thread[h] EXCEPT !.pc = "finish", !.code = c])
    /\ UNCHANGED <<user, issued, registered>>

\* issueTokens, the audit row, and the answer: tokens and the code, or a 500.
Finish(h) ==
    /\ At(h, "finish")
    /\ \E o \in Outcomes :
          IF Throws(o) THEN UNCHANGED <<issued, registered>>
          ELSE /\ issued' = issued \cup {thread[h].code}
               /\ registered' = registered \cup ({thread[h].user} \ {Null})
    /\ End(h)
    /\ UNCHANGED <<user, code>>

-----------------------------------------------------------------------------
(* verifyEmail.                                                            *)

\* WHERE used = false AND expires_at > time::now().
Good(c) == code[c].made /\ ~code[c].used /\ ~code[c].expired

\* The code's 24 hours are over.  Nobody makes another for its user.
Lapse(c) ==
    /\ code[c].made /\ ~code[c].expired
    /\ code' = [code EXCEPT ![c].expired = TRUE]
    /\ UNCHANGED <<user, thread, issued, registered>>

\* Only here is expires_at looked at: a code may lapse before it is marked.
Verify(h, c) ==
    /\ c \in issued
    /\ At(h, "idle")
    /\ Good(c)
    /\ Goto(h, [Idle EXCEPT !.pc = "verify", !.user = code[c].user, !.code = c])
    /\ UNCHANGED <<user, code, issued, registered>>

\* Mutant: the code is marked used before the user is verified.
VerifyUserLast(h) ==
    /\ At(h, "verify")
    /\ code' = [code EXCEPT ![thread[h].code].used = TRUE]
    /\ \E o \in Outcomes :
          /\ user' = IF Applied(o) /\ thread[h].user # Null
                     THEN [user EXCEPT ![thread[h].user].verified = TRUE] ELSE user
          /\ Continue(h, o, [thread[h] EXCEPT !.pc = "mark"])
    /\ UNCHANGED <<issued, registered>>

\* UPDATE user: without an id is refused, without an exception.
VerifyUser(h) ==
    /\ At(h, "verify")
    /\ \E o \in Outcomes :
          /\ user' = IF Applied(o) /\ thread[h].user # Null
                     THEN [user EXCEPT ![thread[h].user].verified = TRUE] ELSE user
          /\ Continue(h, o, [thread[h] EXCEPT !.pc = "mark"])
    /\ UNCHANGED <<code, issued, registered>>

\* used = true, the audit row and the answer.
MarkCode(h) ==
    /\ At(h, "mark")
    /\ \E o \in Outcomes :
          code' = IF Applied(o) THEN [code EXCEPT ![thread[h].code].used = TRUE] ELSE code
    /\ End(h)
    /\ UNCHANGED <<user, issued, registered>>

-----------------------------------------------------------------------------
Crash ==
    /\ "crash" \in Faults
    /\ thread' = [h \in Threads |-> Idle]
    /\ UNCHANGED <<user, code, issued, registered>>

Init ==
    /\ user = [u \in Users |-> NoUser]
    /\ code = [c \in Codes |-> NoCode]
    /\ thread = [h \in Threads |-> Idle]
    /\ issued = {}
    /\ registered = {}

RegisterStep(h) == \/ \E e \in Emails : Register(h, e)
                   \/ Count(h) \/ Create(h) \/ Activate(h) \/ Reload(h)
                   \/ CreateCode(h) \/ Finish(h)

VerifyStep(h) == (\E c \in Codes : Verify(h, c)) \/ VerifyUser(h) \/ MarkCode(h)

Next == \/ \E h \in Threads : RegisterStep(h) \/ VerifyStep(h)
        \/ \E c \in Codes : Lapse(c)
        \/ Crash

Spec == Init /\ [][Next]_vars

-----------------------------------------------------------------------------
(* Properties.                                                             *)

ThreadRecords ==
    [pc : {"idle", "count", "create", "activate", "reload", "code", "finish",
           "verify", "mark"},
     email : Emails \cup {Null}, first : BOOLEAN, user : Users \cup {Null},
     code : Codes \cup {Null}]

\* Types; registerUser goes on only with a user that is there, and at first
\* knows its id.
TypeOK ==
    /\ user \in [Users -> [email : Emails \cup {Null}, role : {"admin", "user"},
                           verified : BOOLEAN, by : Threads \cup {Null}]]
    /\ code \in [Codes -> [made : BOOLEAN, user : Users \cup {Null}, used : BOOLEAN,
                           expired : BOOLEAN]]
    /\ thread \in [Threads -> ThreadRecords]
    /\ \A h \in Threads : thread[h].pc \in {"activate", "reload"} =>
                             thread[h].user \in Users /\ Exists(thread[h].user)
    /\ issued \subseteq Codes
    /\ registered \subseteq Users

\* An address has one user, although registrations look and create in separate
\* calls, the lookup may be refused, and a client repeats what got no answer.
OneUserPerEmail ==
    \A u, v \in Users : Exists(u) /\ user[u].email = user[v].email => u = v

\* registerUser counts the users in one call and creates the administrator in
\* a later one, with nothing to keep the two together, so that registrations
\* that start on the empty table may all become administrators.  The leak is one
\* for each thread: nobody who registers once a thread has made its
\* administrator gets to be one by that thread, whatever fails or crashes.
OneAdminPerThread ==
    \A u, v \in Users :
        user[u].role = "admin" /\ user[v].role = "admin" /\ user[u].by = user[v].by => u = v

\* Only the holder of an address's own code can have verified it: the user of a
\* verified record was registered under it and was told a code made for it.
VerifiedByOwnCode ==
    \A u \in Users : user[u].verified =>
        /\ u \in registered
        /\ \E c \in issued : code[c].made /\ code[c].user = u

\* Told, and never used: only its date can have made it useless.
Lapsed(c) == code[c].made /\ ~code[c].used /\ code[c].expired

\* Where failures throw, a registration that was answered with 201 is lost by
\* the passing of a day alone, whatever fails and crashes in verifyEmail: its
\* user is verified, or a code it was told still verifies it, or that code was
\* left unused for 24 hours.  Then nothing verifies the user any more, as no
\* handler makes a second code and the address stays taken.
OnlyTimeLocksOut ==
    "error" \notin Faults =>
        \A u \in registered :
            user[u].verified \/ \E c \in issued : code[c].user = u /\ (Good(c) \/ Lapsed(c))

=============================================================================
