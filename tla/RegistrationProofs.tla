------------------------- MODULE RegistrationProofs -------------------------
(***************************************************************************)
(* The properties of Registration, proved for every number of threads,     *)
(* addresses, users and codes, and every set of faults.                    *)
(*                                                                         *)
(* IInv follows a user and a code from their creation to the answer: until *)
(* then they belong to one thread, and the code is the user's own.         *)
(***************************************************************************)
EXTENDS Registration, TLAPS

\* registerUser has created its user and has not answered.
Creating == {"activate", "reload", "code", "finish"}

Verifying == {"verify", "mark"}

\* What a thread may rely on.
Handler(rec) ==
    /\ rec.pc \in {"count", "create"} => rec.email \in Emails
    /\ rec.pc \in Creating /\ rec.user # Null => Exists(rec.user) /\ rec.user \notin registered
    /\ rec.pc \in {"activate", "reload"} => rec.user # Null
    /\ rec.pc = "finish" =>
          /\ rec.code \in Codes \ issued
          /\ code[rec.code].made => code[rec.code].user = rec.user /\ ~code[rec.code].used
    /\ rec.pc \in {"code", "finish"} /\ "error" \notin Faults => rec.user # Null
    /\ rec.pc = "finish" /\ "error" \notin Faults => code[rec.code].made
    /\ rec.pc \in Verifying =>
          rec.code \in issued /\ code[rec.code].made /\ code[rec.code].user = rec.user
    /\ rec.pc = "mark" /\ "error" \notin Faults /\ rec.user # Null => user[rec.user].verified

\* A user, and a code, in the making is in the hands of one thread.
Apart(g, h) ==
    /\ g.pc \in Creating /\ h.pc \in Creating /\ g.user # Null => g.user # h.user
    /\ g.pc = "finish" /\ h.pc = "finish" => g.code # h.code

IssuedRegistered ==
    \A c \in issued : code[c].made /\ code[c].user # Null => code[c].user \in registered

RegisteredExist == \A u \in registered : Exists(u)

\* A thread that has found the table empty has created nobody who is in it.
CountedInv ==
    \A h \in Threads : thread[h].pc = "create" /\ thread[h].first =>
        \A u \in Users : Exists(u) => user[u].by # h

\* A right is given together with the address.
AdminsExist == \A u \in Users : user[u].role = "admin" => Exists(u)

ThreadsInv ==
    /\ \A h \in Threads : Handler(thread[h])
    /\ \A g, h \in Threads : g # h => Apart(thread[g], thread[h])

UserRecords == [email : Emails \cup {Null}, role : {"admin", "user"}, verified : BOOLEAN,
                by : Threads \cup {Null}]

CodeRecords == [made : BOOLEAN, user : Users \cup {Null}, used : BOOLEAN, expired : BOOLEAN]

\* What OnlyTimeLocksOut says of a code, on whichever side of its date it is.
CodeLeft ==
    "error" \notin Faults =>
        \A u \in registered :
            \/ user[u].verified
            \/ \E c \in issued : code[c].made /\ code[c].user = u /\ ~code[c].used

Typed ==
    /\ user \in [Users -> UserRecords]
    /\ code \in [Codes -> CodeRecords]
    /\ thread \in [Threads -> ThreadRecords]
    /\ issued \subseteq Codes
    /\ registered \subseteq Users

DataInv ==
    /\ OneUserPerEmail /\ OneAdminPerThread /\ AdminsExist /\ VerifiedByOwnCode /\ CodeLeft
    /\ IssuedRegistered /\ RegisteredExist

IInv == Typed /\ DataInv /\ ThreadsInv /\ CountedInv

-----------------------------------------------------------------------------
LEMMA IdleHandler ==
    /\ Idle \in ThreadRecords /\ Handler(Idle)
    /\ \A rec : Apart(Idle, rec) /\ Apart(rec, Idle)
BY DEF Idle, ThreadRecords, Handler, Apart, Creating, Verifying

\* Who has counted is not concerned by what others create.
LEMMA CountedKept ==
    ASSUME IInv, NEW h \in Threads, NEW rec,
           \A k \in Threads : thread'[k] = IF k = h THEN rec ELSE thread[k],
           rec.pc # "create",
           \A u \in Users : Exists(u)' =>
               (Exists(u) /\ user'[u].by = user[u].by) \/ user'[u].by = h
    PROVE  CountedInv'
<1> SUFFICES ASSUME NEW k \in Threads, thread'[k].pc = "create", thread'[k].first,
                    NEW u \in Users, Exists(u)'
             PROVE  user'[u].by # k
  BY DEF CountedInv
<1>1. k # h /\ thread'[k] = thread[k]
  OBVIOUS
<1>2. Exists(u) => user[u].by # k
  BY <1>1 DEF IInv, CountedInv
<1>3. QED
  BY <1>1, <1>2

\* A thread goes on with rec, in which nothing is held that it did not hold.
LEMMA ThreadStep ==
    ASSUME IInv, NEW h \in Threads, NEW rec \in ThreadRecords, Goto(h, rec), Handler(rec),
           rec.pc # "finish",
           rec.pc \in Creating =>
               thread[h].pc \in Creating /\ (rec.user = thread[h].user \/ rec.user = Null),
           rec.pc = "create" /\ rec.first => \A u \in Users : ~Exists(u),
           UNCHANGED <<user, code, issued, registered>>
    PROVE  IInv'
<1>1. thread \in [Threads -> ThreadRecords]
  BY DEF IInv, Typed
<1>2. \A k \in Threads : thread'[k] = IF k = h THEN rec ELSE thread[k]
  BY <1>1 DEF Goto
<1>3. thread' \in [Threads -> ThreadRecords]
  BY <1>1 DEF Goto
<1>4. Typed'
  BY <1>3 DEF IInv, Typed
<1>5. DataInv'
  BY DEF IInv, DataInv, OneUserPerEmail, OneAdminPerThread, AdminsExist, VerifiedByOwnCode,
         CodeLeft, IssuedRegistered, RegisteredExist, Exists
<1>6. \A k \in Threads : Handler(thread[k])' <=> Handler(thread'[k])
  BY DEF Handler, Exists
<1>7. \A k \in Threads : Handler(thread'[k])
  BY <1>2 DEF IInv, ThreadsInv
<1>8. ASSUME NEW k \in Threads, k # h
      PROVE  Apart(rec, thread[k]) /\ Apart(thread[k], rec)
  <2>1. Apart(thread[h], thread[k]) /\ Apart(thread[k], thread[h])
    BY <1>8 DEF IInv, ThreadsInv
  <2>2. QED
    BY <2>1 DEF Apart
<1>9. \A j, k \in Threads : j # k => Apart(thread'[j], thread'[k])
  BY <1>2, <1>8 DEF IInv, ThreadsInv
<1>10. ThreadsInv'
  BY <1>6, <1>7, <1>9 DEF ThreadsInv, Apart
<1>11. CountedInv'
  <2> SUFFICES ASSUME NEW k \in Threads, thread'[k].pc = "create", thread'[k].first,
                      NEW u \in Users, Exists(u)
               PROVE  user[u].by # k
    BY DEF CountedInv, Exists
  <2>1. k # h /\ thread'[k] = thread[k]
    BY <1>2
  <2>2. QED
    BY <2>1 DEF IInv, CountedInv
<1>12. QED
  BY <1>4, <1>5, <1>10, <1>11 DEF IInv
-----------------------------------------------------------------------------
(* registerUser.                                                           *)

\* Where the record is written and nothing else is known of the user.
LEMMA CreateInv == ASSUME IInv, NEW h \in Threads, Create(h) PROVE IInv'
<1>1. /\ thread \in [Threads -> ThreadRecords] /\ thread[h] \in ThreadRecords
      /\ user \in [Users -> UserRecords] /\ Handler(thread[h]) /\ At(h, "create")
      /\ thread[h].email \in Emails
  BY DEF IInv, Typed, ThreadsInv, Create, Handler, At
<1>2. CASE UNCHANGED user /\ End(h)
  BY <1>2, IdleHandler, ThreadStep DEF Create, End, Creating, Idle
<1>3. ASSUME NEW o \in Outcomes, NEW u \in Users, ~Taken(thread[h].email), ~Exists(u),
             user' = [user EXCEPT ![u].email = thread[h].email,
                                  ![u].role = IF thread[h].first THEN "admin" ELSE "user",
                                  ![u].by = h],
             \/ Goto(h, [thread[h] EXCEPT !.pc = "activate", !.user = u])
             \/ End(h)
      PROVE  IInv'
  <2>1. UNCHANGED code /\ UNCHANGED issued /\ UNCHANGED registered
    BY DEF Create
  <2>2. user'[u] = [user[u] EXCEPT !.email = thread[h].email,
                       !.role = IF thread[h].first THEN "admin" ELSE "user", !.by = h]
    BY <1>1, <1>3
  <2>3. /\ user' \in [Users -> UserRecords]
        /\ \A v \in Users : v # u => user'[v] = user[v]
    <3>1. user'[u] \in UserRecords
      BY <1>1, <2>2 DEF UserRecords
    <3>2. user' = [user EXCEPT ![u] = user'[u]]
      BY <1>1, <1>3
    <3>3. QED
      BY <1>1, <3>1, <3>2
  <2>4. /\ user'[u].email = thread[h].email /\ user'[u].verified = user[u].verified
        /\ user'[u].role = (IF thread[h].first THEN "admin" ELSE "user") /\ user'[u].by = h
    BY <1>1, <2>2 DEF UserRecords
  <2>5. thread[h].email # Null /\ u # Null
    BY <1>1, IdsAssumption
  <2>6. u \notin registered
    BY <1>3 DEF IInv, DataInv, RegisteredExist
  <2>7. OneUserPerEmail'
    BY <1>3, <2>3, <2>4, <2>5 DEF IInv, DataInv, OneUserPerEmail, Exists, Taken
  <2>8. (VerifiedByOwnCode /\ CodeLeft /\ IssuedRegistered)'
    BY <2>1, <2>3, <2>4 DEF IInv, DataInv, VerifiedByOwnCode, CodeLeft, IssuedRegistered, Typed
  <2>9. (OneAdminPerThread /\ AdminsExist)'
    <3>1. thread[h].first => \A v \in Users : Exists(v) => user[v].by # h
      BY <1>1 DEF IInv, CountedInv, At
    <3>2. ASSUME NEW v \in Users, v # u, user'[v].role = "admin", user'[u].role = "admin"
          PROVE  user'[v].by # user'[u].by
      <4>1. Exists(v) /\ thread[h].first
        BY <2>3, <2>4, <3>2 DEF IInv, DataInv, AdminsExist
      <4>2. QED
        BY <2>3, <2>4, <3>1, <3>2, <4>1
    <3>3. OneAdminPerThread'
      BY <2>3, <3>2 DEF IInv, DataInv, OneAdminPerThread
    <3>4. AdminsExist'
      BY <2>3, <2>4, <2>5 DEF IInv, DataInv, AdminsExist, Exists
    <3>5. QED
      BY <3>3, <3>4
  <2>10. RegisteredExist'
    BY <2>1, <2>3, <2>4, <2>5 DEF IInv, DataInv, RegisteredExist, Exists, Typed
  <2>11. \A v \in Users : /\ Exists(v) => Exists(v)'
                          /\ user'[v].verified = user[v].verified
    BY <2>3, <2>4, <2>5 DEF Exists
  <2>12. PICK rec \in ThreadRecords :
             /\ thread' = [thread EXCEPT ![h] = rec]
             /\ rec = Idle \/ rec = [thread[h] EXCEPT !.pc = "activate", !.user = u]
    <3>1. [thread[h] EXCEPT !.pc = "activate", !.user = u] \in ThreadRecords
      BY <1>1 DEF ThreadRecords
    <3>2. QED
      BY <1>3, <3>1, IdleHandler DEF Goto, End
  <2>13. \A k \in Threads : thread'[k] = IF k = h THEN rec ELSE thread[k]
    BY <1>1, <2>12
  <2>14. rec = Idle \/ (/\ rec.pc = "activate" /\ rec.user = u /\ rec.code = thread[h].code
                        /\ rec.email = thread[h].email)
    BY <1>1, <2>12 DEF ThreadRecords
  <2>15. Typed'
    BY <1>1, <2>1, <2>3, <2>12 DEF IInv, Typed
  <2>16. ASSUME NEW k \in Threads PROVE Handler(thread[k])'
    <3>1. CASE k = h
      BY <3>1, <2>1, <2>4, <2>5, <2>6, <2>13, <2>14
         DEF Handler, Creating, Verifying, Exists, Idle
    <3>2. CASE k # h
      <4>1. thread'[k] = thread[k] /\ thread[k] \in ThreadRecords /\ Handler(thread[k])
        BY <1>1, <2>13, <3>2 DEF IInv, ThreadsInv
      <4>2. thread[k].user = Null \/ thread[k].user \in Users
        BY <4>1 DEF ThreadRecords
      <4>3. QED
        BY <2>1, <2>11, <4>1, <4>2 DEF Handler
    <3>3. QED
      BY <3>1, <3>2
  <2>17. ASSUME NEW k \in Threads, k # h PROVE Apart(rec, thread[k]) /\ Apart(thread[k], rec)
    <3>1. thread[k].pc \in Creating /\ thread[k].user # Null => thread[k].user # u
      BY <1>3 DEF IInv, ThreadsInv, Handler
    <3>2. QED
      BY <2>14, <3>1, IdleHandler, IdsAssumption DEF Apart, Creating
  <2>18. ThreadsInv'
    BY <2>13, <2>16, <2>17 DEF IInv, ThreadsInv, Apart
  <2>19. CountedInv'
    <3>1. rec.pc # "create"
      BY <2>14 DEF Idle
    <3>2. \A v \in Users : Exists(v)' =>
              (Exists(v) /\ user'[v].by = user[v].by) \/ user'[v].by = h
      BY <2>3, <2>4 DEF Exists
    <3>3. QED
      BY <2>13, <3>1, <3>2, CountedKept
  <2>20. QED
    BY <2>7, <2>8, <2>9, <2>10, <2>15, <2>18, <2>19 DEF IInv, DataInv
<1>4. ASSUME NEW o \in Outcomes, NEW u \in Users, ~Taken(thread[h].email), ~Exists(u),
             user' = IF Applied(o)
                     THEN [user EXCEPT ![u].email = thread[h].email,
                                       ![u].role = IF thread[h].first THEN "admin" ELSE "user",
                                       ![u].by = h]
                     ELSE user,
             IF o = "ok" THEN Goto(h, [thread[h] EXCEPT !.pc = "activate", !.user = u])
                         ELSE End(h)
      PROVE  IInv'
  <2>1. CASE Applied(o)
    <3>1. \/ Goto(h, [thread[h] EXCEPT !.pc = "activate", !.user = u])
          \/ End(h)
      BY <1>4
    <3>2. QED
      BY <1>3, <1>4, <2>1, <3>1
  <2>2. CASE ~Applied(o)
    <3>1. user' = user /\ o # "ok"
      BY <1>4, <2>2 DEF Applied
    <3>2. QED
      BY <1>2, <1>4, <3>1
  <2>3. QED
    BY <2>1, <2>2
<1>5. QED
  BY <1>2, <1>4 DEF Create

LEMMA ActivateInv == ASSUME IInv, NEW h \in Threads, Activate(h) PROVE IInv'
<1> DEFINE u == thread[h].user
<1>1. /\ thread \in [Threads -> ThreadRecords] /\ thread[h] \in ThreadRecords
      /\ user \in [Users -> UserRecords] /\ Handler(thread[h]) /\ thread[h].pc = "activate"
  BY DEF IInv, Typed, ThreadsInv, Activate, At
<1>2. u \in Users /\ u # Null /\ Exists(u) /\ u \notin registered
  BY <1>1 DEF Handler, Creating, ThreadRecords
<1>3. UNCHANGED code /\ UNCHANGED issued /\ UNCHANGED registered
  BY DEF Activate
<1>4. /\ user' \in [Users -> UserRecords]
      /\ \A v \in Users : /\ user'[v].email = user[v].email /\ user'[v].role = user[v].role
                          /\ user'[v].by = user[v].by
                          /\ user'[v].verified => user[v].verified
                          /\ v # u => user'[v] = user[v]
  <2>1. PICK o \in Outcomes :
            user' = IF Applied(o) THEN [user EXCEPT ![u].verified = FALSE] ELSE user
    BY DEF Activate
  <2>2. CASE user' = user
    BY <1>1, <2>2
  <2>3. CASE user' = [user EXCEPT ![u].verified = FALSE]
    <3>1. user'[u] = [user[u] EXCEPT !.verified = FALSE]
      BY <1>1, <1>2, <2>3
    <3>2. /\ user'[u].email = user[u].email /\ user'[u].role = user[u].role
          /\ user'[u].by = user[u].by /\ ~user'[u].verified
      BY <1>1, <1>2, <3>1 DEF UserRecords
    <3>3. QED
      BY <1>1, <1>2, <2>3, <3>2 DEF UserRecords
  <2>4. QED
    BY <2>1, <2>2, <2>3
<1>5. \A v : v \in Users => (Exists(v)' <=> Exists(v))
  BY <1>4 DEF Exists
<1>6. (OneUserPerEmail /\ OneAdminPerThread /\ AdminsExist /\ VerifiedByOwnCode)'
  BY <1>3, <1>4, <1>5 DEF IInv, DataInv, OneUserPerEmail, OneAdminPerThread, AdminsExist,
                          VerifiedByOwnCode
<1>7. (CodeLeft /\ IssuedRegistered /\ RegisteredExist)'
  BY <1>2, <1>3, <1>4, <1>5 DEF IInv, Typed, DataInv, CodeLeft, IssuedRegistered,
                                RegisteredExist
<1>8. PICK rec \in ThreadRecords :
          /\ thread' = [thread EXCEPT ![h] = rec]
          /\ rec = Idle \/ rec = [thread[h] EXCEPT !.pc = "reload"]
  <2>1. [thread[h] EXCEPT !.pc = "reload"] \in ThreadRecords
    BY <1>1 DEF ThreadRecords
  <2>2. QED
    BY <2>1, IdleHandler DEF Activate, Continue, Goto, End
<1>9. \A k \in Threads : thread'[k] = IF k = h THEN rec ELSE thread[k]
  BY <1>1, <1>8
<1>10. rec = Idle \/ (/\ rec.pc = "reload" /\ rec.user = u /\ rec.code = thread[h].code
                      /\ rec.email = thread[h].email)
  BY <1>1, <1>2, <1>8 DEF ThreadRecords
<1>11. Typed'
  BY <1>1, <1>3, <1>4, <1>8 DEF IInv, Typed
<1>12. ASSUME NEW k \in Threads PROVE Handler(thread[k])'
  <2>1. CASE k = h
    BY <2>1, <1>2, <1>3, <1>5, <1>9, <1>10 DEF Handler, Creating, Verifying, Idle
  <2>2. CASE k # h
    <3>1. thread'[k] = thread[k] /\ thread[k] \in ThreadRecords /\ Handler(thread[k])
      BY <1>1, <1>9, <2>2 DEF IInv, ThreadsInv
    <3>2. thread[k].user = Null \/ thread[k].user \in Users
      BY <3>1 DEF ThreadRecords
    <3>3. thread[k].pc = "mark" /\ thread[k].user # Null => thread[k].user \in registered
      BY <3>1 DEF Handler, Verifying, IInv, DataInv, IssuedRegistered
    <3>4. QED
      BY <1>2, <1>3, <1>4, <1>5, <3>1, <3>2, <3>3 DEF Handler
  <2>3. QED
    BY <2>1, <2>2
<1>13. ASSUME NEW k \in Threads, k # h PROVE Apart(rec, thread[k]) /\ Apart(thread[k], rec)
  <2>1. Apart(thread[h], thread[k]) /\ Apart(thread[k], thread[h])
    BY <1>13 DEF IInv, ThreadsInv
  <2>2. QED
    BY <1>1, <1>10, <2>1, IdleHandler DEF Apart, Creating
<1>14. ThreadsInv'
  BY <1>9, <1>12, <1>13 DEF IInv, ThreadsInv, Apart
<1>15. CountedInv'
  <2>1. rec.pc # "create"
    BY <1>10 DEF Idle
  <2>2. QED
    BY <1>4, <1>5, <1>9, <2>1, CountedKept
<1>16. QED
  BY <1>6, <1>7, <1>11, <1>14, <1>15 DEF IInv, DataInv

\* A code that nobody has is made out to the thread's user, and may come to be
\* without a record.
LEMMA CreateCodeInv == ASSUME IInv, NEW h \in Threads, CreateCode(h) PROVE IInv'
<1>1. /\ thread \in [Threads -> ThreadRecords] /\ thread[h] \in ThreadRecords
      /\ code \in [Codes -> CodeRecords] /\ Handler(thread[h]) /\ thread[h].pc = "code"
      /\ thread[h].user \in Users \cup {Null}
  BY DEF IInv, Typed, ThreadsInv, CreateCode, At, Handler, ThreadRecords
<1>2. UNCHANGED user /\ UNCHANGED issued /\ UNCHANGED registered
  BY DEF CreateCode
<1>3. PICK o \in Outcomes, c \in Codes :
          /\ ~code[c].made /\ c \notin issued
          /\ \A g \in Threads : thread[g].code # c
          /\ code' = IF Applied(o)
                     THEN [code EXCEPT ![c] = [NoCode EXCEPT !.made = TRUE,
                                                             !.user = thread[h].user]]
                     ELSE code
          /\ Continue(h, o, [thread[h] EXCEPT !.pc = "finish", !.code = c])
  BY DEF CreateCode
<1>4. /\ code' \in [Codes -> CodeRecords]
      /\ \A d \in Codes : d # c => code'[d] = code[d]
      /\ code'[c].made => code'[c].user = thread[h].user /\ ~code'[c].used
      /\ Applied(o) => code'[c].made
  <2> DEFINE new == [NoCode EXCEPT !.made = TRUE, !.user = thread[h].user]
  <2>1. new \in CodeRecords /\ new.made /\ new.user = thread[h].user /\ ~new.used
    BY <1>1 DEF CodeRecords, NoCode
  <2>2. code' = IF Applied(o) THEN [code EXCEPT ![c] = new] ELSE code
    BY <1>3
  <2> HIDE DEF new
  <2>3. QED
    BY <1>1, <1>3, <2>1, <2>2
<1>5. DataInv'
  <2>1. issued \subseteq Codes /\ c \notin issued
    BY <1>3 DEF IInv, Typed
  <2>2. \A d \in issued : code'[d] = code[d]
    BY <1>4, <2>1
  <2>3. (OneUserPerEmail /\ OneAdminPerThread /\ AdminsExist /\ RegisteredExist)'
    BY <1>2 DEF IInv, DataInv, OneUserPerEmail, OneAdminPerThread, AdminsExist,
                RegisteredExist, Exists
  <2>4. (VerifiedByOwnCode /\ CodeLeft /\ IssuedRegistered)'
    BY <1>2, <2>2 DEF IInv, DataInv, VerifiedByOwnCode, CodeLeft, IssuedRegistered
  <2>5. QED
    BY <2>3, <2>4 DEF DataInv
<1>6. PICK rec \in ThreadRecords :
          /\ thread' = [thread EXCEPT ![h] = rec]
          /\ \/ rec = Idle
             \/ ~Throws(o) /\ rec = [thread[h] EXCEPT !.pc = "finish", !.code = c]
  <2>1. [thread[h] EXCEPT !.pc = "finish", !.code = c] \in ThreadRecords
    BY <1>1 DEF ThreadRecords
  <2>2. QED
    BY <1>3, <2>1, IdleHandler DEF Continue, Goto, End
<1>7. \A k \in Threads : thread'[k] = IF k = h THEN rec ELSE thread[k]
  BY <1>1, <1>6
<1>8. \/ rec = Idle
      \/ rec.pc = "finish" /\ rec.user = thread[h].user /\ rec.code = c /\ ~Throws(o)
  BY <1>1, <1>6 DEF ThreadRecords
<1>9. Typed'
  BY <1>1, <1>2, <1>4, <1>6 DEF IInv, Typed
<1>10. ~Throws(o) /\ "error" \notin Faults => Applied(o)
  BY FaultsAssumption DEF Throws, Applied, Outcomes
<1>11. ASSUME NEW k \in Threads PROVE Handler(thread[k])'
  <2>1. CASE k = h
    <3>1. CASE rec = Idle
      BY <2>1, <3>1, <1>7 DEF Handler, Creating, Verifying, Idle
    <3>2. CASE rec # Idle
      BY <2>1, <3>2, <1>1, <1>2, <1>3, <1>4, <1>7, <1>8, <1>10
         DEF Handler, Creating, Verifying, Exists
    <3>3. QED
      BY <3>1, <3>2
  <2>2. CASE k # h
    <3>1. thread'[k] = thread[k] /\ thread[k] \in ThreadRecords /\ Handler(thread[k])
      BY <1>1, <1>7, <2>2 DEF IInv, ThreadsInv
    <3>2. thread[k].code \in Codes => code'[thread[k].code] = code[thread[k].code]
      BY <1>3, <1>4
    <3>3. thread[k].pc \in Verifying => thread[k].code \in Codes
      BY <3>1 DEF Handler, IInv, Typed
    <3>4. QED
      BY <1>2, <3>1, <3>2, <3>3 DEF Handler, Exists
  <2>3. QED
    BY <2>1, <2>2
<1>12. ASSUME NEW k \in Threads, k # h PROVE Apart(rec, thread[k]) /\ Apart(thread[k], rec)
  <2>1. Apart(thread[h], thread[k]) /\ Apart(thread[k], thread[h]) /\ thread[k].code # c
    BY <1>3, <1>12 DEF IInv, ThreadsInv
  <2>2. QED
    BY <1>1, <1>8, <2>1, IdleHandler DEF Apart, Creating
<1>13. ThreadsInv'
  BY <1>7, <1>11, <1>12 DEF IInv, ThreadsInv, Apart
<1>14. CountedInv'
  <2>1. rec.pc # "create"
    BY <1>8 DEF Idle
  <2>2. \A v \in Users : Exists(v)' => Exists(v) /\ user'[v].by = user[v].by
    BY <1>2 DEF Exists
  <2>3. QED
    BY <1>7, <2>1, <2>2, CountedKept
<1>15. QED
  BY <1>5, <1>9, <1>13, <1>14 DEF IInv

\* The user and the code leave the thread's hands together.
LEMMA FinishInv == ASSUME IInv, NEW h \in Threads, Finish(h) PROVE IInv'
<1> DEFINE u == thread[h].user
           c == thread[h].code
<1>1. /\ thread \in [Threads -> ThreadRecords] /\ thread[h] \in ThreadRecords
      /\ Handler(thread[h]) /\ thread[h].pc = "finish" /\ u \in Users \cup {Null}
  BY DEF IInv, Typed, ThreadsInv, Finish, At, ThreadRecords
<1>2. UNCHANGED user /\ UNCHANGED code /\ End(h)
  BY DEF Finish
<1>3. CASE UNCHANGED <<issued, registered>>
  BY <1>2, <1>3, IdleHandler, ThreadStep DEF End, Creating, Idle
<1>4. CASE issued' = issued \cup {c} /\ registered' = registered \cup ({u} \ {Null})
  <2>1. /\ c \in Codes \ issued
        /\ code[c].made => code[c].user = u /\ ~code[c].used
        /\ "error" \notin Faults => u # Null /\ code[c].made
        /\ u # Null => Exists(u)
    BY <1>1 DEF Handler, Creating
  <2>2. Typed'
    BY <1>1, <1>2, <1>4, <2>1, IdleHandler DEF IInv, Typed, End, Goto
  <2>3. (OneUserPerEmail /\ OneAdminPerThread /\ AdminsExist)'
    BY <1>2 DEF IInv, DataInv, OneUserPerEmail, OneAdminPerThread, AdminsExist, Exists
  <2>4. VerifiedByOwnCode'
    BY <1>2, <1>4 DEF IInv, DataInv, VerifiedByOwnCode
  <2>5. IssuedRegistered'
    BY <1>1, <1>2, <1>4, <2>1 DEF IInv, DataInv, IssuedRegistered
  <2>6. RegisteredExist'
    BY <1>2, <1>4, <2>1 DEF IInv, DataInv, RegisteredExist, Exists
  <2>7. CodeLeft'
    BY <1>2, <1>4, <2>1 DEF IInv, DataInv, CodeLeft
  <2>8. \A k \in Threads : thread'[k] = IF k = h THEN Idle ELSE thread[k]
    BY <1>1, <1>2 DEF End, Goto
  <2>9. ASSUME NEW k \in Threads PROVE Handler(thread[k])'
    <3>1. CASE k = h
      BY <3>1, <2>8 DEF Handler, Creating, Verifying, Idle
    <3>2. CASE k # h
      <4>1. thread'[k] = thread[k] /\ Handler(thread[k])
        BY <2>8, <3>2 DEF IInv, ThreadsInv
      <4>2. Apart(thread[h], thread[k]) /\ Apart(thread[k], thread[h])
        BY <3>2 DEF IInv, ThreadsInv
      <4>3. thread[k].pc = "finish" => thread[k].code # c
        BY <1>1, <4>2 DEF Apart
      <4>4. thread[k].pc \in Creating /\ thread[k].user # Null => thread[k].user # u
        BY <1>1, <4>2 DEF Apart, Creating
      <4>5. QED
        BY <1>2, <1>4, <4>1, <4>3, <4>4 DEF Handler, Exists
    <3>3. QED
      BY <3>1, <3>2
  <2>10. ThreadsInv'
    BY <2>8, <2>9, IdleHandler DEF IInv, ThreadsInv, Apart
  <2>11. CountedInv'
    <3>1. Idle.pc # "create" /\ \A v \in Users : Exists(v)' => Exists(v) /\ user'[v].by = user[v].by
      BY <1>2 DEF Exists, Idle
    <3>2. QED
      BY <2>8, <3>1, CountedKept
  <2>12. QED
    BY <2>2, <2>3, <2>4, <2>5, <2>6, <2>7, <2>10, <2>11 DEF IInv, DataInv
<1>5. QED
  BY <1>3, <1>4 DEF Finish

-----------------------------------------------------------------------------
(* verifyEmail.                                                            *)

LEMMA VerifyUserInv == ASSUME IInv, NEW h \in Threads, VerifyUser(h) PROVE IInv'
<1> DEFINE u == thread[h].user
           c == thread[h].code
<1>1. /\ thread \in [Threads -> ThreadRecords] /\ thread[h] \in ThreadRecords
      /\ user \in [Users -> UserRecords] /\ Handler(thread[h]) /\ thread[h].pc = "verify"
      /\ u \in Users \cup {Null}
  BY DEF IInv, Typed, ThreadsInv, VerifyUser, At, ThreadRecords, Handler
<1>2. /\ c \in issued /\ code[c].made /\ code[c].user = u
      /\ u # Null => u \in registered
  BY <1>1 DEF Handler, Verifying, IInv, DataInv, IssuedRegistered
<1>3. UNCHANGED code /\ UNCHANGED issued /\ UNCHANGED registered
  BY DEF VerifyUser
<1>4. PICK o \in Outcomes :
          /\ user' = IF Applied(o) /\ u # Null THEN [user EXCEPT ![u].verified = TRUE] ELSE user
          /\ Continue(h, o, [thread[h] EXCEPT !.pc = "mark"])
  BY DEF VerifyUser
<1>5. /\ user' \in [Users -> UserRecords]
      /\ \A v \in Users : /\ user'[v].email = user[v].email /\ user'[v].role = user[v].role
                          /\ user'[v].by = user[v].by
                          /\ user[v].verified => user'[v].verified
                          /\ v # u => user'[v] = user[v]
      /\ Applied(o) /\ u # Null => user'[u].verified
  <2>1. CASE user' = user /\ ~(Applied(o) /\ u # Null)
    BY <1>1, <2>1
  <2>2. CASE user' = [user EXCEPT ![u].verified = TRUE] /\ u # Null
    <3>1. u \in Users /\ user'[u] = [user[u] EXCEPT !.verified = TRUE]
      BY <1>1, <2>2
    <3>2. /\ user'[u].email = user[u].email /\ user'[u].role = user[u].role
          /\ user'[u].by = user[u].by /\ user'[u].verified
      BY <1>1, <3>1 DEF UserRecords
    <3>3. QED
      BY <1>1, <2>2, <3>1, <3>2 DEF UserRecords
  <2>3. QED
    BY <1>4, <2>1, <2>2
<1>6. \A v : v \in Users => (Exists(v)' <=> Exists(v))
  BY <1>5 DEF Exists
<1>7. (OneUserPerEmail /\ OneAdminPerThread /\ AdminsExist /\ CodeLeft)'
  BY <1>3, <1>5, <1>6 DEF IInv, Typed, DataInv, OneUserPerEmail, OneAdminPerThread, AdminsExist,
                          CodeLeft
<1>8. (VerifiedByOwnCode /\ IssuedRegistered /\ RegisteredExist)'
  <2>1. ASSUME NEW v \in Users, user'[v].verified
        PROVE  v \in registered /\ \E d \in issued : code[d].made /\ code[d].user = v
    <3>1. CASE v = u
      BY <3>1, <1>2, IdsAssumption
    <3>2. CASE v # u
      BY <2>1, <3>2, <1>5 DEF IInv, DataInv, VerifiedByOwnCode
    <3>3. QED
      BY <3>1, <3>2
  <2>2. VerifiedByOwnCode'
    BY <1>3, <2>1 DEF VerifiedByOwnCode
  <2>3. (IssuedRegistered /\ RegisteredExist)'
    BY <1>3, <1>6 DEF IInv, Typed, DataInv, IssuedRegistered, RegisteredExist
  <2>4. QED
    BY <2>2, <2>3
<1>9. PICK rec \in ThreadRecords :
          /\ thread' = [thread EXCEPT ![h] = rec]
          /\ \/ rec = Idle
             \/ ~Throws(o) /\ rec = [thread[h] EXCEPT !.pc = "mark"]
  <2>1. [thread[h] EXCEPT !.pc = "mark"] \in ThreadRecords
    BY <1>1 DEF ThreadRecords
  <2>2. QED
    BY <1>4, <2>1, IdleHandler DEF Continue, Goto, End
<1>10. \A k \in Threads : thread'[k] = IF k = h THEN rec ELSE thread[k]
  BY <1>1, <1>9
<1>11. \/ rec = Idle
       \/ rec.pc = "mark" /\ rec.user = u /\ rec.code = c /\ ~Throws(o)
  BY <1>1, <1>9 DEF ThreadRecords
<1>12. ~Throws(o) /\ "error" \notin Faults => Applied(o)
  BY FaultsAssumption DEF Throws, Applied, Outcomes
<1>13. Typed'
  BY <1>1, <1>3, <1>5, <1>9 DEF IInv, Typed
<1>14. ASSUME NEW k \in Threads PROVE Handler(thread[k])'
  <2>1. CASE k = h
    BY <2>1, <1>2, <1>3, <1>5, <1>10, <1>11, <1>12 DEF Handler, Creating, Verifying, Idle
  <2>2. CASE k # h
    <3>1. thread'[k] = thread[k] /\ thread[k] \in ThreadRecords /\ Handler(thread[k])
      BY <1>1, <1>10, <2>2 DEF IInv, ThreadsInv
    <3>2. thread[k].user = Null \/ thread[k].user \in Users
      BY <3>1 DEF ThreadRecords
    <3>3. QED
      BY <1>3, <1>5, <1>6, <3>1, <3>2 DEF Handler
  <2>3. QED
    BY <2>1, <2>2
<1>15. ASSUME NEW k \in Threads, k # h PROVE Apart(rec, thread[k]) /\ Apart(thread[k], rec)
  BY <1>11, IdleHandler DEF Apart, Creating
<1>16. ThreadsInv'
  BY <1>10, <1>14, <1>15 DEF IInv, ThreadsInv, Apart
<1>17. CountedInv'
  <2>1. rec.pc # "create"
    BY <1>11 DEF Idle
  <2>2. QED
    BY <1>5, <1>6, <1>10, <2>1, CountedKept
<1>18. QED
  BY <1>7, <1>8, <1>13, <1>16, <1>17 DEF IInv, DataInv

\* A code is used up only when its user has been verified by it.
LEMMA MarkCodeInv == ASSUME IInv, NEW h \in Threads, MarkCode(h) PROVE IInv'
<1> DEFINE c == thread[h].code
<1>1. /\ thread \in [Threads -> ThreadRecords] /\ code \in [Codes -> CodeRecords]
      /\ Handler(thread[h]) /\ thread[h].pc = "mark" /\ issued \subseteq Codes
  BY DEF IInv, Typed, ThreadsInv, MarkCode, At
<1>2. /\ c \in issued /\ code[c].made /\ code[c].user = thread[h].user
      /\ "error" \notin Faults /\ code[c].user # Null => user[code[c].user].verified
  BY <1>1 DEF Handler, Verifying
<1>3. UNCHANGED user /\ UNCHANGED issued /\ UNCHANGED registered /\ End(h)
  BY DEF MarkCode
<1>4. /\ code' \in [Codes -> CodeRecords]
      /\ \A d \in Codes : /\ code'[d].made = code[d].made /\ code'[d].user = code[d].user
                          /\ d # c => code'[d] = code[d]
  <2>1. PICK o \in Outcomes : code' = IF Applied(o) THEN [code EXCEPT ![c].used = TRUE] ELSE code
    BY DEF MarkCode
  <2>2. CASE code' = code
    BY <1>1, <2>2
  <2>3. CASE code' = [code EXCEPT ![c].used = TRUE]
    <3>1. code'[c] = [code[c] EXCEPT !.used = TRUE] /\ code[c] \in CodeRecords
      BY <1>1, <1>2, <2>3
    <3>2. code'[c].made = code[c].made /\ code'[c].user = code[c].user
      BY <3>1 DEF CodeRecords
    <3>3. QED
      BY <1>1, <1>2, <2>3, <3>1, <3>2 DEF CodeRecords
  <2>4. QED
    BY <2>1, <2>2, <2>3
<1>5. CodeLeft'
  <2>1. SUFFICES ASSUME "error" \notin Faults, NEW u \in registered, ~user[u].verified
                 PROVE  \E d \in issued : code'[d].made /\ code'[d].user = u /\ ~code'[d].used
    BY <1>3 DEF CodeLeft
  <2>2. u # Null
    BY IdsAssumption DEF IInv, Typed
  <2>3. PICK d \in issued : code[d].made /\ code[d].user = u /\ ~code[d].used
    BY <2>1 DEF IInv, DataInv, CodeLeft
  <2>4. d # c
    BY <1>2, <2>1, <2>2, <2>3
  <2>5. QED
    BY <1>1, <1>4, <2>3, <2>4
<1>6. (VerifiedByOwnCode /\ IssuedRegistered)'
  BY <1>1, <1>3, <1>4 DEF IInv, DataInv, VerifiedByOwnCode, IssuedRegistered
<1>7. (OneUserPerEmail /\ OneAdminPerThread /\ AdminsExist /\ RegisteredExist)'
  BY <1>3 DEF IInv, DataInv, OneUserPerEmail, OneAdminPerThread, AdminsExist,
              RegisteredExist, Exists
<1>8. \A k \in Threads : thread'[k] = IF k = h THEN Idle ELSE thread[k]
  BY <1>1, <1>3 DEF End, Goto
<1>9. Typed'
  BY <1>1, <1>3, <1>4, IdleHandler DEF IInv, Typed, End, Goto
<1>10. ASSUME NEW k \in Threads PROVE Handler(thread[k])'
  <2>1. CASE k = h
    BY <2>1, <1>8 DEF Handler, Creating, Verifying, Idle
  <2>2. CASE k # h
    <3>1. thread'[k] = thread[k] /\ Handler(thread[k])
      BY <1>8, <2>2 DEF IInv, ThreadsInv
    <3>2. /\ thread[k].pc = "finish" => thread[k].code \in Codes /\ thread[k].code # c
          /\ thread[k].pc \in Verifying => thread[k].code \in Codes
      BY <1>1, <1>2, <3>1 DEF Handler
    <3>3. QED
      BY <1>3, <1>4, <3>1, <3>2 DEF Handler, Exists
  <2>3. QED
    BY <2>1, <2>2
<1>11. ThreadsInv'
  BY <1>8, <1>10, IdleHandler DEF IInv, ThreadsInv, Apart
<1>12. CountedInv'
  <2>1. Idle.pc # "create" /\ \A v \in Users : Exists(v)' => Exists(v) /\ user'[v].by = user[v].by
    BY <1>3 DEF Exists, Idle
  <2>2. QED
    BY <1>8, <2>1, CountedKept
<1>13. QED
  BY <1>5, <1>6, <1>7, <1>9, <1>11, <1>12 DEF IInv, DataInv

\* What anyone knows of a code does not depend on its date.
LEMMA LapseInv == ASSUME IInv, NEW c \in Codes, Lapse(c) PROVE IInv'
<1>1. code \in [Codes -> CodeRecords] /\ issued \subseteq Codes
  BY DEF IInv, Typed
<1>2. UNCHANGED user /\ UNCHANGED thread /\ UNCHANGED issued /\ UNCHANGED registered
  BY DEF Lapse
<1>3. /\ code' \in [Codes -> CodeRecords]
      /\ \A d \in Codes : /\ code'[d].made = code[d].made /\ code'[d].user = code[d].user
                          /\ code'[d].used = code[d].used
  <2>1. code' = [code EXCEPT ![c].expired = TRUE]
    BY DEF Lapse
  <2>2. code'[c] = [code[c] EXCEPT !.expired = TRUE] /\ code[c] \in CodeRecords
    BY <1>1, <2>1
  <2>3. /\ code'[c] \in CodeRecords /\ code'[c].made = code[c].made
        /\ code'[c].user = code[c].user /\ code'[c].used = code[c].used
    BY <2>2 DEF CodeRecords
  <2>4. QED
    BY <1>1, <2>1, <2>3
<1>4. Typed'
  BY <1>2, <1>3 DEF IInv, Typed
<1>5. DataInv'
  <2>1. (OneUserPerEmail /\ OneAdminPerThread /\ AdminsExist /\ RegisteredExist)'
    BY <1>2 DEF IInv, DataInv, OneUserPerEmail, OneAdminPerThread, AdminsExist,
                RegisteredExist, Exists
  <2>2. (VerifiedByOwnCode /\ CodeLeft /\ IssuedRegistered)'
    BY <1>1, <1>2, <1>3 DEF IInv, DataInv, VerifiedByOwnCode, CodeLeft, IssuedRegistered
  <2>3. QED
    BY <2>1, <2>2 DEF DataInv
<1>6. ASSUME NEW k \in Threads PROVE Handler(thread[k])'
  <2>1. thread'[k] = thread[k] /\ Handler(thread[k])
    BY <1>2 DEF IInv, ThreadsInv
  <2>2. thread[k].pc \in Verifying \cup {"finish"} => thread[k].code \in Codes
    BY <1>1, <2>1 DEF Handler
  <2>3. QED
    BY <1>2, <1>3, <2>1, <2>2 DEF Handler, Exists
<1>7. ThreadsInv'
  BY <1>2, <1>6 DEF IInv, ThreadsInv, Apart
<1>8. CountedInv'
  BY <1>2 DEF IInv, CountedInv, Exists
<1>9. QED
  BY <1>4, <1>5, <1>7, <1>8 DEF IInv

-----------------------------------------------------------------------------
(* The steps that only read, and the specification.                        *)

LEMMA RegisterInv ==
    ASSUME IInv, NEW h \in Threads, NEW e \in Emails, Register(h, e) PROVE IInv'
<1> DEFINE rec == [Idle EXCEPT !.pc = "count", !.email = e]
<1>1. rec \in ThreadRecords /\ rec.pc = "count" /\ rec.email = e
  BY DEF Idle, ThreadRecords
<1>2. rec \in ThreadRecords /\ Handler(rec)
  BY <1>1 DEF Handler, Creating, Verifying
<1>3. rec.pc # "finish" /\ rec.pc \notin Creating
  BY <1>1 DEF Creating
<1>4. QED
  BY <1>1, <1>2, <1>3, ThreadStep DEF Register

LEMMA CountInv == ASSUME IInv, NEW h \in Threads, Count(h) PROVE IInv'
<1>1. PICK o \in Outcomes :
          Goto(h, [thread[h] EXCEPT !.pc = "create", !.first = o = "ok" /\ CountIsZero])
  BY DEF Count
<1> DEFINE zero == o = "ok" /\ CountIsZero
           rec == [thread[h] EXCEPT !.pc = "create", !.first = zero]
<1>2. zero \in BOOLEAN /\ (zero => \A u \in Users : ~Exists(u))
  BY CountAssumption DEF CountIsZero
<1>3. Goto(h, rec)
  BY <1>1
<1>4. thread[h] \in ThreadRecords /\ Handler(thread[h]) /\ thread[h].pc = "count"
  BY DEF Count, At, IInv, Typed, ThreadsInv
<1> HIDE DEF zero
<1>5. /\ rec \in ThreadRecords /\ rec.pc = "create" /\ rec.first = zero
      /\ rec.email = thread[h].email
  BY <1>2, <1>4 DEF ThreadRecords
<1>6. Handler(rec) /\ rec.pc \notin Creating
  BY <1>4, <1>5 DEF Handler, Creating, Verifying
<1>7. rec.first => \A u \in Users : ~Exists(u)
  BY <1>2, <1>5
<1> HIDE DEF rec
<1>8. QED
  BY <1>3, <1>5, <1>6, <1>7, ThreadStep DEF Count

LEMMA ReloadInv == ASSUME IInv, NEW h \in Threads, Reload(h) PROVE IInv'
<1>1. PICK o \in Outcomes :
          Continue(h, o, [thread[h] EXCEPT !.pc = "code",
                             !.user = IF Applied(o) THEN @ ELSE Null])
  BY DEF Reload
<1>2. CASE End(h)
  BY <1>2, IdleHandler, ThreadStep DEF Reload, End, Creating, Idle
<1>3. CASE ~Throws(o)
  <2> DEFINE u == IF Applied(o) THEN thread[h].user ELSE Null
             rec == [thread[h] EXCEPT !.pc = "code", !.user = u]
  <2>1. thread[h] \in ThreadRecords /\ Handler(thread[h]) /\ thread[h].pc = "reload"
    BY DEF Reload, At, IInv, Typed, ThreadsInv
  <2>2. Goto(h, rec)
    BY <1>1, <1>3 DEF Continue
  <2>3. u \in Users \cup {Null} /\ (u = thread[h].user \/ u = Null)
    BY <2>1 DEF ThreadRecords
  <2>4. rec \in ThreadRecords /\ rec.pc = "code" /\ rec.user = u
    BY <2>1, <2>3 DEF ThreadRecords
  <2>5. "error" \notin Faults => u # Null
    BY <1>3, <2>1, FaultsAssumption DEF Throws, Applied, Outcomes, Handler
  <2>6. Handler(rec)
    BY <2>1, <2>3, <2>4, <2>5 DEF Handler, Creating, Verifying
  <2>7. QED
    BY <2>1, <2>2, <2>3, <2>4, <2>6, ThreadStep DEF Reload, Creating
<1>4. QED
  BY <1>1, <1>2, <1>3 DEF Continue

LEMMA VerifyInv ==
    ASSUME IInv, NEW h \in Threads, NEW c \in Codes, Verify(h, c) PROVE IInv'
<1> DEFINE rec == [Idle EXCEPT !.pc = "verify", !.user = code[c].user, !.code = c]
<1>1. code[c] \in CodeRecords
  BY DEF IInv, Typed
<1>2. code[c].user \in Users \cup {Null}
  BY <1>1 DEF CodeRecords
<1>3. /\ rec \in ThreadRecords /\ rec.pc = "verify"
      /\ rec.user = code[c].user /\ rec.code = c
  BY <1>2 DEF Idle, ThreadRecords
<1>4. Handler(rec)
  BY <1>3 DEF Verify, Good, Handler, Creating, Verifying
<1>5. QED
  BY <1>3, <1>4, ThreadStep DEF Verify, Creating

LEMMA CrashInv == ASSUME IInv, Crash PROVE IInv'
<1>1. Typed'
  BY IdleHandler DEF Crash, IInv, Typed
<1>2. DataInv'
  BY DEF Crash, IInv, DataInv, OneUserPerEmail, OneAdminPerThread, AdminsExist, VerifiedByOwnCode,
         CodeLeft, IssuedRegistered, RegisteredExist, Exists
<1>3. Handler(Idle)'
  BY DEF Handler, Idle, Creating, Verifying
<1>4. ThreadsInv'
  BY <1>3, IdleHandler DEF Crash, ThreadsInv, Apart
<1>5. CountedInv'
  BY DEF Crash, CountedInv, Idle
<1>6. QED
  BY <1>1, <1>2, <1>4, <1>5 DEF IInv

LEMMA InitInv == Init => IInv
<1> SUFFICES ASSUME Init PROVE IInv
  OBVIOUS
<1>1. NoUser \in UserRecords /\ NoUser.email = Null /\ NoUser.role = "user" /\ ~NoUser.verified
  BY DEF NoUser, UserRecords
<1>2. NoCode \in CodeRecords
  BY DEF NoCode, CodeRecords
<1>3. Typed
  BY <1>1, <1>2, IdleHandler DEF Init, Typed
<1>4. DataInv
  BY <1>1 DEF Init, DataInv, OneUserPerEmail, OneAdminPerThread, AdminsExist, VerifiedByOwnCode,
              CodeLeft, IssuedRegistered, RegisteredExist, Exists
<1>5. ThreadsInv
  BY IdleHandler DEF Init, ThreadsInv
<1>6. CountedInv
  BY DEF Init, CountedInv, Idle
<1>7. QED
  BY <1>3, <1>4, <1>5, <1>6 DEF IInv

LEMMA NextInv == IInv /\ [Next]_vars => IInv'
<1> SUFFICES ASSUME IInv, [Next]_vars PROVE IInv'
  OBVIOUS
<1>1. ASSUME NEW h \in Threads, RegisterStep(h) PROVE IInv'
  BY <1>1, RegisterInv, CountInv, CreateInv, ActivateInv, ReloadInv, CreateCodeInv, FinishInv
     DEF RegisterStep
<1>2. ASSUME NEW h \in Threads, VerifyStep(h) PROVE IInv'
  BY <1>2, VerifyInv, VerifyUserInv, MarkCodeInv DEF VerifyStep
<1>3. CASE Crash
  BY <1>3, CrashInv
<1>4. CASE \E c \in Codes : Lapse(c)
  BY <1>4, LapseInv
<1>5. CASE UNCHANGED vars
  BY <1>5 DEF vars, IInv, Typed, DataInv, ThreadsInv, CountedInv, OneUserPerEmail,
              OneAdminPerThread, AdminsExist, VerifiedByOwnCode, CodeLeft, IssuedRegistered,
              RegisteredExist, Exists, Handler, Apart
<1>6. QED
  BY <1>1, <1>2, <1>3, <1>4, <1>5 DEF Next

\* The invariant holds in every state that registrations, verifications and
\* crashes lead to, whichever calls fail.
THEOREM Invariance == Spec => []IInv
BY InitInv, NextInv, PTL DEF Spec

\* Every record and every thread keeps its shape, and a handler that activates
\* or reads back its new user has one.
THEOREM TypeCorrect == Spec => []TypeOK
<1>1. IInv => TypeOK
  BY DEF IInv, Typed, ThreadsInv, TypeOK, Handler, Creating, ThreadRecords, UserRecords,
         CodeRecords
<1>2. QED
  BY <1>1, Invariance, PTL

\* However many registrations of one address run at once, and whatever their
\* clients repeat, the address gets one user.
THEOREM OneUser == Spec => []OneUserPerEmail
<1>1. IInv => OneUserPerEmail
  BY DEF IInv, DataInv
<1>2. QED
  BY <1>1, Invariance, PTL

\* The race between the count and the creation makes no more administrators than
\* there are threads, for any number of registrations at once and whichever way
\* the database counts.
THEOREM AdminPerThread == Spec => []OneAdminPerThread
<1>1. IInv => OneAdminPerThread
  BY DEF IInv, DataInv
<1>2. QED
  BY <1>1, Invariance, PTL

\* verifyEmail verifies a user only by a code its own registration answered.
THEOREM OwnCodeOnly == Spec => []VerifiedByOwnCode
<1>1. IInv => VerifiedByOwnCode
  BY DEF IInv, DataInv
<1>2. QED
  BY <1>1, Invariance, PTL

\* The order of verifyEmail's writes, user first and code second, leaves every
\* answered registration a code that was never used: what stops it then is the
\* date of the code, or a failed statement that passes for one that was run.
THEOREM LockedOutByTimeOnly == Spec => []OnlyTimeLocksOut
<1>1. IInv => OnlyTimeLocksOut
  <2>1. IInv => (\A c \in issued : code[c].expired \in BOOLEAN)
    BY DEF IInv, Typed, CodeRecords
  <2>2. QED
    BY <2>1 DEF IInv, DataInv, CodeLeft, OnlyTimeLocksOut, Good, Lapsed
<1>2. QED
  BY <1>1, Invariance, PTL

=============================================================================
