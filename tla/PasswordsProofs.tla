--------------------------- MODULE PasswordsProofs ---------------------------
(***************************************************************************)
(* The properties of Passwords, proved for every number of threads,        *)
(* passwords, tokens and resets, and every set of faults.                  *)
(*                                                                         *)
(* The argument is that a password that was replaced never comes back: a   *)
(* new one, from its choice to its writing, is nowhere the password that   *)
(* a thread, a token or a past change was checked against.                 *)
(***************************************************************************)
EXTENDS Passwords, TLAPS

\* A new password is chosen and not written.
Pending == {"change", "reset.user"}

\* A reset has written its password and is not answered.
After == {"reset.mark", "reset.revoke", "reset.finish"}

NoError == "error" \notin Faults

\* A chosen password that is not in use yet.
Fresh(p) ==
    /\ p \in chosen /\ p # password
    /\ \A t \in Tokens : token[t].under # p
    /\ \A a \in changed : a.under # p
    /\ \A a \in resets : a.under # p

\* No refresh token of p is left but those created after p was replaced.
OnlyLate(p) == \A t \in Tokens : token[t].active /\ token[t].under = p => token[t].late

\* What thread h may rely on.
Handler(h, rec) ==
    /\ rec.under # Null => rec.under \in chosen
    /\ rec.pc \in {"mint", "change"} \cup After => rec.under # Null
    /\ rec.pc \in Pending => Fresh(rec.next)
    /\ rec.pc = "change" => \A a \in changed : a.by = h => a.under # rec.under
    /\ rec.pc = "mint" =>
          \A t \in Tokens : token[t].late /\ token[t].by = h => token[t].under # rec.under
    /\ NoError /\ rec.pc \in After => rec.under # password
    /\ NoError /\ (rec.pc \in After \/ rec.pc = "reset.user") =>
          \A a \in resets : a.by = h => a.rst # rec.rst
    /\ NoError /\ rec.pc \in {"reset.revoke", "reset.finish"} => reset[rec.rst].used
    /\ NoError /\ rec.pc = "reset.finish" => OnlyLate(rec.under)

Handlers == \A h \in Threads : Handler(h, thread[h])

\* A password in the making is one thread's, and nothing was checked against it.
Apart ==
    \A g, h \in Threads : thread[g].pc \in Pending =>
        /\ thread[h].under # thread[g].next
        /\ g # h /\ thread[h].pc \in Pending => thread[g].next # thread[h].next

TokenRecords == [under : Passwords \cup {Null}, by : Threads \cup {Null},
                 active : BOOLEAN, late : BOOLEAN]

\* What was replaced is not the password.
Replaced ==
    /\ \A a \in changed : a.under \in chosen /\ a.under # password
    /\ \A a \in resets : a.under \in chosen /\ (NoError => a.under # password)
    /\ \A t \in Tokens : /\ token[t].under # Null => token[t].under \in chosen
                         /\ token[t].late => token[t].under # password

ResetsUsed == NoError => \A a \in resets : reset[a.rst].used

DataInv == /\ Replaced /\ ResetsUsed
           /\ OneUsePerThread /\ ResetLeavesOnlyLate /\ OneResetPerThread

IInv == TypeOK /\ DataInv /\ Handlers /\ Apart

-----------------------------------------------------------------------------
LEMMA IdleThread ==
    /\ Idle \in ThreadRecords /\ Idle.pc = "idle" /\ Idle.under = Null
    /\ \A h : Handler(h, Idle) /\ Handler(h, Idle)'
<1>1. Idle \in ThreadRecords /\ Idle.pc = "idle" /\ Idle.under = Null
  BY DEF Idle, ThreadRecords
<1>2. QED
  BY <1>1 DEF Handler, Pending, After

LEMMA Facts ==
    ASSUME IInv
    PROVE  /\ thread \in [Threads -> ThreadRecords] /\ token \in [Tokens -> TokenRecords]
           /\ chosen \subseteq Passwords /\ password \in chosen /\ Null \notin chosen
           /\ \A h \in Threads : /\ thread[h] \in ThreadRecords
                                 /\ Handler(h, thread[h])
                                 /\ thread[h].pc \in Pending \cup After => thread[h].next # Null
BY NullAssumption DEF IInv, TypeOK, TokenRecords, Handlers, Handler, Fresh, Pending, After,
                      ThreadRecords

\* A step after which the thread has no password in the making keeps the
\* others' apart.
LEMMA ApartStep ==
    ASSUME IInv, NEW h \in Threads, NEW rec, thread' = [thread EXCEPT ![h] = rec],
           rec.pc \notin Pending, rec.under \in {Null, password, thread[h].under}
    PROVE  Apart'
<1>1. \A k \in Threads : thread'[k] = IF k = h THEN rec ELSE thread[k]
  BY Facts
<1>2. ASSUME NEW g \in Threads, thread[g].pc \in Pending
      PROVE  /\ thread[g].next # Null /\ thread[g].next # password
             /\ thread[g].next # thread[h].under
  BY <1>2, Facts DEF Handler, Fresh, IInv, Apart
<1>3. QED
  BY <1>1, <1>2 DEF IInv, Apart

\* The thread begins with a password in the making that was not chosen before.
LEMMA BeginChange ==
    ASSUME IInv, NEW h \in Threads, NEW rec \in ThreadRecords, rec.next \in Passwords \ chosen,
           rec.pc \in Pending, rec.under \in {Null, password}, Goto(h, rec),
           chosen' = chosen \cup {rec.next},
           NoError /\ rec.pc = "reset.user" => ~reset[rec.rst].used,
           rec.pc = "change" => rec.under = password,
           UNCHANGED <<db, told, changed, resets>>
    PROVE  IInv'
<1>1. \A k \in Threads : thread'[k] = IF k = h THEN rec ELSE thread[k]
  BY Facts DEF Goto
<1>2. /\ UNCHANGED password /\ UNCHANGED token /\ UNCHANGED reset /\ UNCHANGED told
      /\ UNCHANGED changed /\ UNCHANGED resets
  BY DEF db
<1>3. TypeOK'
  BY <1>2 DEF IInv, TypeOK, Goto
<1>4. DataInv'
  BY <1>2 DEF IInv, DataInv, Replaced, ResetsUsed, OneUsePerThread, ResetLeavesOnlyLate,
              OneResetPerThread
<1>5. Fresh(rec.next)'
  BY <1>2, Facts, NullAssumption DEF IInv, DataInv, Replaced, Fresh
<1>6. Handler(h, rec)'
  <2>1. rec.pc = "change" => \A a \in changed : a.under # rec.under
    BY DEF IInv, DataInv, Replaced
  <2>2. NoError /\ rec.pc = "reset.user" => \A a \in resets : a.rst # rec.rst
    BY DEF IInv, DataInv, ResetsUsed
  <2>3. QED
    BY <1>2, <1>5, <2>1, <2>2, Facts DEF Handler, Pending, After, NoError
<1>7. ASSUME NEW k \in Threads, k # h PROVE Handler(k, thread[k])'
  <2>1. thread'[k] = thread[k] /\ Handler(k, thread[k])
    BY <1>1, <1>7, Facts
  <2>2. QED
    BY <1>2, <2>1 DEF Handler, Fresh, OnlyLate, NoError
<1>8. Handlers'
  BY <1>1, <1>6, <1>7 DEF Handlers
<1>9. ASSUME NEW g \in Threads
      PROVE  /\ thread[g].under # rec.next /\ rec.under # rec.next
             /\ thread[g].pc \in Pending =>
                   thread[g].next # rec.next /\ rec.under # thread[g].next
  BY Facts, NullAssumption DEF Handler, Fresh
<1>10. Apart'
  BY <1>1, <1>9 DEF IInv, Apart
<1>11. QED
  BY <1>3, <1>4, <1>8, <1>10 DEF IInv

\* The thread ends its request, or goes on with rec, and leaves all else alone.
LEMMA ThreadStep ==
    ASSUME IInv, NEW h \in Threads, NEW rec \in ThreadRecords, Goto(h, rec), Handler(h, rec),
           rec.pc \notin Pending, rec.under \in {Null, password, thread[h].under},
           UNCHANGED <<db, told, chosen, changed, resets>>
    PROVE  IInv'
<1>1. \A k \in Threads : thread'[k] = IF k = h THEN rec ELSE thread[k]
  BY Facts DEF Goto
<1>2. /\ UNCHANGED password /\ UNCHANGED token /\ UNCHANGED reset /\ UNCHANGED told
      /\ UNCHANGED changed /\ UNCHANGED resets /\ UNCHANGED chosen
  BY DEF db
<1>3. TypeOK'
  BY <1>2 DEF IInv, TypeOK, Goto
<1>4. DataInv'
  BY <1>2 DEF IInv, DataInv, Replaced, ResetsUsed, OneUsePerThread, ResetLeavesOnlyLate,
              OneResetPerThread
<1>5. \A k \in Threads : Handler(k, thread'[k])
  BY <1>1, Facts
<1>6. Handlers'
  BY <1>2, <1>5 DEF Handlers, Handler, Fresh, OnlyLate, NoError
<1>7. Apart'
  BY ApartStep DEF Goto
<1>8. QED
  BY <1>3, <1>4, <1>6, <1>7 DEF IInv

LEMMA EndStep ==
    ASSUME IInv, NEW h \in Threads, End(h), UNCHANGED <<db, told, chosen, changed, resets>>
    PROVE  IInv'
BY IdleThread, ThreadStep DEF End, Pending

-----------------------------------------------------------------------------
(* login and changePassword.                                               *)

LEMMA LoginInv == ASSUME IInv, NEW h \in Threads, Login(h) PROVE IInv'
<1> DEFINE rec == [Idle EXCEPT !.pc = "mint", !.under = password]
<1>1. rec \in ThreadRecords /\ rec.pc = "mint" /\ rec.under = password
  BY Facts DEF Idle, ThreadRecords
<1>2. Handler(h, rec)
  BY <1>1, Facts DEF Handler, Pending, After, IInv, DataInv, Replaced
<1>3. QED
  BY <1>1, <1>2, ThreadStep DEF Login, Pending

\* A token that comes late is the first of its thread under that password.
LEMMA MintInv == ASSUME IInv, NEW h \in Threads, Mint(h) PROVE IInv'
<1> DEFINE p == thread[h].under
<1>1. PICK o \in Outcomes, t \in Tokens :
          /\ token[t].by = Null
          /\ token' = IF Applied(o)
                      THEN [token EXCEPT ![t] = [under |-> p, by |-> h, active |-> TRUE,
                                                 late |-> p # password]]
                      ELSE token
  BY DEF Mint
<1>2. /\ thread[h].pc = "mint" /\ Handler(h, thread[h]) /\ p \in chosen /\ p # Null
      /\ End(h)
  BY Facts DEF Mint, At, Handler
<1>3. /\ UNCHANGED password /\ UNCHANGED reset /\ UNCHANGED told
      /\ UNCHANGED changed /\ UNCHANGED resets /\ UNCHANGED chosen
  BY DEF Mint
<1>4. CASE token' = token
  BY <1>2, <1>3, <1>4, EndStep DEF db
<1>5. CASE token' = [token EXCEPT ![t] = [under |-> p, by |-> h, active |-> TRUE,
                                          late |-> p # password]]
  <2>1. [under |-> p, by |-> h, active |-> TRUE, late |-> p # password] \in TokenRecords
    BY <1>2, Facts DEF TokenRecords
  <2>2. /\ token' \in [Tokens -> TokenRecords]
        /\ \A s \in Tokens : s # t => token'[s] = token[s]
        /\ token'[t].under = p /\ token'[t].by = h /\ token'[t].active
        /\ token'[t].late <=> p # password
    BY <1>5, <2>1, Facts
  <2>3. TypeOK'
    BY <1>2, <1>3, <2>2, IdleThread DEF IInv, TypeOK, TokenRecords, End, Goto
  <2>4. (Replaced /\ ResetsUsed /\ OneResetPerThread)'
    BY <1>2, <1>3, <2>2 DEF IInv, DataInv, Replaced, ResetsUsed, OneResetPerThread
  <2>5. OneUsePerThread'
    <3>1. ASSUME NEW s \in Tokens, token[s].late, token[s].by = h PROVE token[s].under # p
      BY <1>2, <3>1 DEF Handler
    <3>2. QED
      BY <1>3, <2>2, <3>1 DEF IInv, DataInv, OneUsePerThread
  <2>6. ResetLeavesOnlyLate'
    BY <1>3, <2>2 DEF IInv, DataInv, Replaced, ResetLeavesOnlyLate, NoError
  <2>7. \A k \in Threads : thread'[k] = IF k = h THEN Idle ELSE thread[k]
    BY <1>2, Facts DEF End, Goto
  <2>8. ASSUME NEW k \in Threads, k # h PROVE Handler(k, thread[k])'
    <3>1. thread'[k] = thread[k] /\ Handler(k, thread[k])
      BY <2>7, <2>8, Facts
    <3>2. thread[k].pc \in Pending => p # thread[k].next
      BY DEF IInv, Apart
    <3>3. thread[k].pc \in Pending => Fresh(thread[k].next)'
      BY <1>3, <2>2, <3>1, <3>2 DEF Handler, Fresh
    <3>4. thread[k].pc = "mint" => \A s \in Tokens : token'[s].late /\ token'[s].by = k =>
                                                 token'[s].under # thread[k].under
      BY <2>2, <2>8, <3>1 DEF Handler
    <3>5. NoError /\ thread[k].pc = "reset.finish" => OnlyLate(thread[k].under)'
      BY <1>3, <2>2, <3>1 DEF Handler, OnlyLate, After
    <3>6. QED
      BY <1>3, <3>1, <3>3, <3>4, <3>5 DEF Handler, NoError
  <2>9. Handlers'
    BY <2>7, <2>8, IdleThread DEF Handlers
  <2>10. Apart'
    BY <1>2, IdleThread, ApartStep DEF End, Goto, Pending
  <2>11. QED
    BY <2>3, <2>4, <2>5, <2>6, <2>9, <2>10 DEF IInv, DataInv
<1>6. QED
  BY <1>1, <1>4, <1>5

LEMMA ChangeInv ==
    ASSUME IInv, NEW h \in Threads, NEW p \in Passwords, Change(h, p) PROVE IInv'
<1> DEFINE rec == [Idle EXCEPT !.pc = "change", !.under = password, !.next = p]
<1>1. rec \in ThreadRecords /\ rec.pc = "change" /\ rec.under = password /\ rec.next = p
  BY Facts DEF Idle, ThreadRecords
<1>2. QED
  BY <1>1, BeginChange DEF Change, Pending

\* What a new password does when it is written by thread h, which goes on with
\* rec: what was fresh elsewhere stays so, and the old one is gone for good.
LEMMA Written ==
    ASSUME IInv, NEW h \in Threads, thread[h].pc \in Pending,
           NEW rec, thread' = [thread EXCEPT ![h] = rec],
           password' = thread[h].next, UNCHANGED <<token, reset, told, chosen, resets>>,
           \A a \in changed' : a \in changed \/ (a.under = thread[h].under /\ a.by = h),
           thread[h].pc = "change" \/ UNCHANGED changed
    PROVE  /\ Replaced'
           /\ \A k \in Threads : k # h => Handler(k, thread[k])'
<1> DEFINE p == thread[h].next
<1>1. Fresh(p) /\ thread[h].under # p /\ thread[h] \in ThreadRecords
  BY Facts DEF Handler, IInv, Apart
<1>2. /\ UNCHANGED token /\ UNCHANGED reset /\ UNCHANGED chosen /\ UNCHANGED resets
  OBVIOUS
<1>3. thread[h].pc = "change" => thread[h].under \in chosen
  BY Facts DEF Handler
<1>4. Replaced'
  BY <1>1, <1>2, <1>3 DEF IInv, DataInv, Replaced, Fresh
<1>5. ASSUME NEW k \in Threads, k # h PROVE Handler(k, thread[k])'
  <2>1. thread'[k] = thread[k] /\ Handler(k, thread[k])
    BY <1>5, Facts
  <2>2. thread[k].under # p /\ (thread[k].pc \in Pending => /\ thread[k].next # p
                                                            /\ thread[h].under # thread[k].next)
    BY <1>5 DEF IInv, Apart
  <2>3. thread[k].pc \in Pending => Fresh(thread[k].next)'
    BY <1>2, <2>1, <2>2 DEF Handler, Fresh
  <2>4. thread[k].pc = "change" =>
            \A a \in changed' : a.by = k => a.under # thread[k].under
    BY <1>5, <2>1 DEF Handler
  <2>5. QED
    BY <1>2, <2>1, <2>2, <2>3, <2>4 DEF Handler, OnlyLate, NoError
<1>6. QED
  BY <1>4, <1>5

LEMMA ChangeWriteInv == ASSUME IInv, NEW h \in Threads, ChangeWrite(h) PROVE IInv'
<1> DEFINE a == [under |-> thread[h].under, by |-> h, next |-> thread[h].next]
<1>1. /\ thread[h].pc = "change" /\ Handler(h, thread[h]) /\ thread[h].under \in chosen
      /\ Fresh(thread[h].next) /\ End(h)
  BY Facts DEF ChangeWrite, At, Handler, Pending
<1>2. UNCHANGED <<token, reset, told, chosen, resets>>
  BY DEF ChangeWrite
<1>3. CASE UNCHANGED <<password, changed>>
  BY <1>1, <1>2, <1>3, EndStep DEF db
<1>4. CASE password' = thread[h].next /\ changed' = changed \cup {a}
  <2>1. a.under = thread[h].under /\ a.by = h
    OBVIOUS
  <2>2. /\ thread' = [thread EXCEPT ![h] = Idle]
        /\ \A k \in Threads : thread'[k] = IF k = h THEN Idle ELSE thread[k]
    BY <1>1, Facts DEF End, Goto
  <2>3. /\ Replaced'
        /\ \A k \in Threads : k # h => Handler(k, thread[k])'
    BY <1>1, <1>2, <1>4, <2>1, <2>2, Written DEF Pending
  <2>4. a \in [under : Passwords, by : Threads, next : Passwords]
    BY <1>1, Facts DEF Fresh
  <2>5. TypeOK'
    BY <1>1, <1>2, <1>4, <2>2, <2>4, IdleThread DEF IInv, TypeOK, Fresh
  <2>6. (ResetsUsed /\ ResetLeavesOnlyLate /\ OneResetPerThread)'
    BY <1>2 DEF IInv, DataInv, ResetsUsed, ResetLeavesOnlyLate, OneResetPerThread
  <2>7. OneUsePerThread'
    <3>1. \A b \in changed : b.by = h => b.under # thread[h].under
      BY <1>1 DEF Handler
    <3>2. QED
      BY <1>2, <1>4, <2>1, <3>1 DEF IInv, DataInv, OneUsePerThread
  <2>8. Handlers'
    BY <2>2, <2>3, IdleThread DEF Handlers
  <2>9. Apart'
    BY <2>2, IdleThread, ApartStep DEF Pending
  <2>10. QED
    BY <2>3, <2>5, <2>6, <2>7, <2>8, <2>9 DEF IInv, DataInv
<1>5. QED
  BY <1>3, <1>4 DEF ChangeWrite

-----------------------------------------------------------------------------
(* forgotPassword and resetPassword.                                       *)

LEMMA ForgotInv == ASSUME IInv, ForgotPassword PROVE IInv'
<1>1. PICK r \in Resets : /\ ~reset[r].made
                          /\ reset' = [reset EXCEPT ![r].made = TRUE]
                          /\ told' = told \/ told' = told \cup {r}
  BY DEF ForgotPassword
<1>2. /\ UNCHANGED password /\ UNCHANGED token /\ UNCHANGED thread
      /\ UNCHANGED changed /\ UNCHANGED resets /\ UNCHANGED chosen
  BY DEF ForgotPassword
<1>3. /\ reset' \in [Resets -> [made : BOOLEAN, used : BOOLEAN]]
      /\ \A q : q \in Resets => reset'[q].used = reset[q].used
  <2>1. reset \in [Resets -> [made : BOOLEAN, used : BOOLEAN]]
    BY DEF IInv, TypeOK
  <2>2. reset'[r] = [reset[r] EXCEPT !.made = TRUE] /\ reset'[r].used = reset[r].used
    BY <1>1, <2>1
  <2>3. QED
    BY <1>1, <2>1, <2>2
<1>4. TypeOK'
  BY <1>1, <1>2, <1>3 DEF IInv, TypeOK
<1>5. \A a \in resets : a.rst \in Resets
  BY DEF IInv, TypeOK
<1>6. DataInv'
  BY <1>2, <1>3, <1>5 DEF IInv, DataInv, Replaced, ResetsUsed, OneUsePerThread,
                          ResetLeavesOnlyLate, OneResetPerThread
<1>7. ASSUME NEW k \in Threads PROVE Handler(k, thread[k])'
  <2>1. thread[k].pc \in {"reset.revoke", "reset.finish"} => thread[k].rst \in Resets
    BY Facts DEF ThreadRecords
  <2>2. QED
    BY <1>2, <1>3, <2>1, Facts DEF Handler, Fresh, OnlyLate, NoError
<1>8. QED
  BY <1>2, <1>4, <1>6, <1>7 DEF IInv, Handlers, Apart

LEMMA ResetLookupInv ==
    ASSUME IInv, NEW h \in Threads, NEW r \in Resets, NEW p \in Passwords,
           ResetLookup(h, r, p)
    PROVE  IInv'
<1> DEFINE rec == [pc |-> "reset.user", under |-> Null, next |-> p, rst |-> r]
<1>1. rec \in ThreadRecords /\ rec.pc = "reset.user" /\ rec.under = Null /\ rec.next = p
      /\ rec.rst = r
  BY DEF ThreadRecords
<1>2. QED
  BY <1>1, BeginChange DEF ResetLookup, Pending

\* The password that is replaced is remembered, and is not the new one.
LEMMA ResetUserInv == ASSUME IInv, NEW h \in Threads, ResetUser(h) PROVE IInv'
<1> DEFINE rec == [thread[h] EXCEPT !.pc = "reset.mark", !.under = password]
<1>1. PICK o \in Outcomes :
          /\ password' = IF Applied(o) THEN thread[h].next ELSE password
          /\ Continue(h, o, rec)
  BY DEF ResetUser
<1>2. /\ thread[h].pc = "reset.user" /\ thread[h] \in ThreadRecords
      /\ Handler(h, thread[h]) /\ Fresh(thread[h].next)
  BY Facts DEF ResetUser, At, Handler, Pending
<1>3. UNCHANGED <<token, reset, told, chosen, changed, resets>>
  BY DEF ResetUser
<1>4. PICK next : /\ next \in ThreadRecords /\ thread' = [thread EXCEPT ![h] = next]
                  /\ next.pc \notin Pending
                  /\ \/ next = Idle
                     \/ /\ ~Throws(o) /\ next.pc = "reset.mark" /\ next.under = password
                        /\ next.rst = thread[h].rst
  <2>1. /\ rec \in ThreadRecords /\ rec.pc = "reset.mark" /\ rec.under = password
        /\ rec.rst = thread[h].rst
    BY <1>2, Facts DEF ThreadRecords
  <2>2. QED
    BY <1>1, <2>1, IdleThread DEF Continue, Goto, End, Pending
<1>5. \A k \in Threads : thread'[k] = IF k = h THEN next ELSE thread[k]
  BY <1>4, Facts
<1>6. Replaced' /\ \A k \in Threads : k # h => Handler(k, thread[k])'
  <2>1. CASE password' = thread[h].next
    BY <1>2, <1>3, <1>4, <2>1, Written DEF Pending
  <2>2. CASE UNCHANGED password
    <3>1. Replaced'
      BY <1>3, <2>2 DEF IInv, DataInv, Replaced
    <3>2. QED
      BY <1>3, <1>5, <2>2, <3>1, Facts DEF Handler, Fresh, OnlyLate, NoError
  <2>3. QED
    BY <1>1, <2>1, <2>2
<1>7. TypeOK'
  BY <1>1, <1>2, <1>3, <1>4 DEF IInv, TypeOK, Fresh
<1>8. (ResetsUsed /\ OneUsePerThread /\ ResetLeavesOnlyLate /\ OneResetPerThread)'
  BY <1>3 DEF IInv, DataInv, ResetsUsed, OneUsePerThread, ResetLeavesOnlyLate,
              OneResetPerThread
<1>9. Handler(h, next)'
  <2>1. CASE next = Idle
    BY <2>1, IdleThread
  <2>2. CASE next # Idle
    <3>1. NoError => \A a \in resets : a.by = h => a.rst # next.rst
      BY <1>2, <1>4, <2>2 DEF Handler
    <3>2. \/ password' # password
          \/ ~NoError /\ UNCHANGED password
      BY <1>1, <1>2, <1>4, <2>2, FaultsAssumption
         DEF Fresh, Throws, Applied, Outcomes, NoError
    <3>3. password \in chosen /\ password # Null
      BY Facts
    <3>4. QED
      BY <1>3, <1>4, <2>2, <3>1, <3>2, <3>3 DEF Handler, Pending, After, NoError
  <2>3. QED
    BY <2>1, <2>2
<1>10. Handlers'
  BY <1>5, <1>6, <1>9 DEF Handlers
<1>11. Apart'
  BY <1>4, IdleThread, ApartStep
<1>12. QED
  BY <1>6, <1>7, <1>8, <1>10, <1>11 DEF IInv, DataInv

\* A reset goes on only with its token marked, where failures throw.
LEMMA ResetMarkInv == ASSUME IInv, NEW h \in Threads, ResetMark(h) PROVE IInv'
<1> DEFINE r == thread[h].rst
           rec == [thread[h] EXCEPT !.pc = "reset.revoke"]
<1>1. PICK o \in Outcomes :
          /\ reset' = IF Applied(o) THEN [reset EXCEPT ![r].used = TRUE] ELSE reset
          /\ Continue(h, o, rec)
  BY DEF ResetMark
<1>2. /\ thread[h].pc = "reset.mark" /\ thread[h] \in ThreadRecords /\ r \in Resets
      /\ Handler(h, thread[h])
  BY Facts DEF ResetMark, At, ThreadRecords
<1>3. /\ UNCHANGED password /\ UNCHANGED token /\ UNCHANGED told
      /\ UNCHANGED changed /\ UNCHANGED resets /\ UNCHANGED chosen
  BY DEF ResetMark
<1>4. /\ reset' \in [Resets -> [made : BOOLEAN, used : BOOLEAN]]
      /\ \A q : q \in Resets => (reset[q].used => reset'[q].used)
      /\ Applied(o) => reset'[r].used
  <2>1. reset \in [Resets -> [made : BOOLEAN, used : BOOLEAN]]
    BY DEF IInv, TypeOK
  <2>2. CASE reset' = reset /\ ~Applied(o)
    BY <2>1, <2>2
  <2>3. CASE reset' = [reset EXCEPT ![r].used = TRUE]
    <3>1. reset'[r] = [reset[r] EXCEPT !.used = TRUE] /\ reset'[r].used
      BY <1>2, <2>1, <2>3
    <3>2. QED
      BY <1>2, <2>1, <2>3, <3>1
  <2>4. QED
    BY <1>1, <2>2, <2>3
<1>5. PICK next : /\ next \in ThreadRecords /\ thread' = [thread EXCEPT ![h] = next]
                  /\ next.pc \notin Pending
                  /\ next.under = Null \/ next.under = thread[h].under
                  /\ \/ next = Idle
                     \/ /\ ~Throws(o) /\ next.pc = "reset.revoke"
                        /\ next.under = thread[h].under /\ next.rst = r
  <2>1. /\ rec \in ThreadRecords /\ rec.pc = "reset.revoke" /\ rec.under = thread[h].under
        /\ rec.rst = r
    BY <1>2 DEF ThreadRecords
  <2>2. QED
    BY <1>1, <2>1, IdleThread DEF Continue, Goto, End, Pending
<1>6. \A k \in Threads : thread'[k] = IF k = h THEN next ELSE thread[k]
  BY <1>5, Facts
<1>7. TypeOK'
  BY <1>3, <1>4, <1>5 DEF IInv, TypeOK
<1>8. \A a \in resets : a.rst \in Resets
  BY DEF IInv, TypeOK
<1>9. DataInv'
  BY <1>3, <1>4, <1>8 DEF IInv, DataInv, Replaced, ResetsUsed, OneUsePerThread,
                          ResetLeavesOnlyLate, OneResetPerThread
<1>10. Handler(h, next)'
  <2>1. CASE next = Idle
    BY <2>1, IdleThread
  <2>2. CASE next # Idle
    <3>1. NoError => reset'[r].used
      BY <1>4, <1>5, <2>2, FaultsAssumption DEF Throws, Applied, Outcomes, NoError
    <3>2. QED
      BY <1>2, <1>3, <1>5, <2>2, <3>1 DEF Handler, Pending, After, NoError
  <2>3. QED
    BY <2>1, <2>2
<1>11. ASSUME NEW k \in Threads, k # h PROVE Handler(k, thread[k])'
  <2>1. thread'[k] = thread[k] /\ Handler(k, thread[k])
    BY <1>6, <1>11, Facts
  <2>2. thread[k].pc \in {"reset.revoke", "reset.finish"} => thread[k].rst \in Resets
    BY Facts DEF ThreadRecords
  <2>3. QED
    BY <1>3, <1>4, <2>1, <2>2 DEF Handler, Fresh, OnlyLate, NoError
<1>12. Handlers'
  BY <1>6, <1>10, <1>11 DEF Handlers
<1>13. Apart'
  BY <1>5, ApartStep
<1>14. QED
  BY <1>7, <1>9, <1>12, <1>13 DEF IInv

\* A reset goes on only with every token revoked, where failures throw.
LEMMA ResetRevokeInv == ASSUME IInv, NEW h \in Threads, ResetRevoke(h) PROVE IInv'
<1> DEFINE rec == [thread[h] EXCEPT !.pc = "reset.finish"]
<1>1. PICK o \in Outcomes :
          /\ token' = IF Applied(o) THEN [t \in Tokens |-> [token[t] EXCEPT !.active = FALSE]]
                      ELSE token
          /\ Continue(h, o, rec)
  BY DEF ResetRevoke
<1>2. /\ thread[h].pc = "reset.revoke" /\ thread[h] \in ThreadRecords
      /\ Handler(h, thread[h])
  BY Facts DEF ResetRevoke, At
<1>3. /\ UNCHANGED password /\ UNCHANGED reset /\ UNCHANGED told
      /\ UNCHANGED changed /\ UNCHANGED resets /\ UNCHANGED chosen
  BY DEF ResetRevoke
<1>4. /\ token' \in [Tokens -> TokenRecords]
      /\ \A t : t \in Tokens => /\ token'[t].under = token[t].under /\ token'[t].by = token[t].by
                                /\ token'[t].late = token[t].late
                                /\ token'[t].active => token[t].active
      /\ Applied(o) => \A t \in Tokens : ~token'[t].active
  <2>1. CASE token' = token /\ ~Applied(o)
    BY <2>1, Facts
  <2>2. CASE token' = [t \in Tokens |-> [token[t] EXCEPT !.active = FALSE]]
    <3>1. ASSUME NEW t \in Tokens
          PROVE  /\ token'[t] \in TokenRecords /\ ~token'[t].active
                 /\ token'[t].under = token[t].under /\ token'[t].by = token[t].by
                 /\ token'[t].late = token[t].late
      <4>1. token[t] \in TokenRecords /\ token'[t] = [token[t] EXCEPT !.active = FALSE]
        BY <2>2, Facts
      <4>2. QED
        BY <4>1 DEF TokenRecords
    <3>2. QED
      BY <2>2, <3>1
  <2>3. QED
    BY <1>1, <2>1, <2>2
<1>5. PICK next : /\ next \in ThreadRecords /\ thread' = [thread EXCEPT ![h] = next]
                  /\ next.pc \notin Pending
                  /\ next.under = Null \/ next.under = thread[h].under
                  /\ \/ next = Idle
                     \/ /\ ~Throws(o) /\ next.pc = "reset.finish"
                        /\ next.under = thread[h].under /\ next.rst = thread[h].rst
  <2>1. /\ rec \in ThreadRecords /\ rec.pc = "reset.finish" /\ rec.under = thread[h].under
        /\ rec.rst = thread[h].rst
    BY <1>2 DEF ThreadRecords
  <2>2. QED
    BY <1>1, <2>1, IdleThread DEF Continue, Goto, End, Pending
<1>6. \A k \in Threads : thread'[k] = IF k = h THEN next ELSE thread[k]
  BY <1>5, Facts
<1>7. TypeOK'
  BY <1>3, <1>4, <1>5 DEF IInv, TypeOK, TokenRecords
<1>8. DataInv'
  BY <1>3, <1>4 DEF IInv, DataInv, Replaced, ResetsUsed, OneUsePerThread,
                    ResetLeavesOnlyLate, OneResetPerThread
<1>9. Handler(h, next)'
  <2>1. CASE next = Idle
    BY <2>1, IdleThread
  <2>2. CASE next # Idle
    <3>1. NoError => OnlyLate(next.under)'
      BY <1>4, <1>5, <2>2, FaultsAssumption
         DEF Throws, Applied, Outcomes, NoError, OnlyLate
    <3>2. QED
      BY <1>2, <1>3, <1>5, <2>2, <3>1 DEF Handler, Pending, After, NoError
  <2>3. QED
    BY <2>1, <2>2
<1>10. ASSUME NEW k \in Threads, k # h PROVE Handler(k, thread[k])'
  <2>1. thread'[k] = thread[k] /\ Handler(k, thread[k])
    BY <1>6, <1>10, Facts
  <2>2. QED
    BY <1>3, <1>4, <2>1 DEF Handler, Fresh, OnlyLate, NoError
<1>11. Handlers'
  BY <1>6, <1>9, <1>10 DEF Handlers
<1>12. Apart'
  BY <1>5, ApartStep
<1>13. QED
  BY <1>7, <1>8, <1>11, <1>12 DEF IInv

LEMMA ResetFinishInv == ASSUME IInv, NEW h \in Threads, ResetFinish(h) PROVE IInv'
<1> DEFINE a == [under |-> thread[h].under, by |-> h, next |-> thread[h].next,
                 rst |-> thread[h].rst]
<1>1. /\ thread[h].pc = "reset.finish" /\ thread[h] \in ThreadRecords
      /\ Handler(h, thread[h]) /\ thread[h].under \in chosen /\ End(h)
  BY Facts DEF ResetFinish, At, Handler, After
<1>2. UNCHANGED <<db, told, chosen, changed>>
  BY DEF ResetFinish
<1>3. CASE resets' = resets
  BY <1>1, <1>2, <1>3, EndStep
<1>4. CASE resets' = resets \cup {a}
  <2>1. /\ a.under = thread[h].under /\ a.by = h /\ a.rst = thread[h].rst
        /\ a \in [under : Passwords, by : Threads, next : Passwords, rst : Resets]
    BY <1>1, Facts DEF ThreadRecords
  <2>2. /\ UNCHANGED password /\ UNCHANGED token /\ UNCHANGED reset /\ UNCHANGED told
        /\ UNCHANGED changed /\ UNCHANGED chosen
    BY <1>2 DEF db
  <2>3. /\ thread' = [thread EXCEPT ![h] = Idle]
        /\ \A k \in Threads : thread'[k] = IF k = h THEN Idle ELSE thread[k]
    BY <1>1, Facts DEF End, Goto
  <2>4. TypeOK'
    BY <1>4, <2>1, <2>2, <2>3, IdleThread DEF IInv, TypeOK
  <2>5. /\ NoError => thread[h].under # password /\ reset[thread[h].rst].used
                      /\ OnlyLate(thread[h].under)
        /\ NoError => \A b \in resets : b.by = h => b.rst # thread[h].rst
    BY <1>1 DEF Handler, After
  <2>6. (Replaced /\ ResetsUsed)'
    BY <1>1, <1>4, <2>1, <2>2, <2>5 DEF IInv, DataInv, Replaced, ResetsUsed, NoError
  <2>7. (OneUsePerThread /\ ResetLeavesOnlyLate)'
    BY <1>4, <2>1, <2>2, <2>5 DEF IInv, DataInv, OneUsePerThread, ResetLeavesOnlyLate,
                                  OnlyLate, NoError
  <2>8. OneResetPerThread'
    BY <1>4, <2>1, <2>5 DEF IInv, DataInv, OneResetPerThread, NoError
  <2>9. ASSUME NEW k \in Threads, k # h PROVE Handler(k, thread[k])'
    <3>1. thread'[k] = thread[k] /\ Handler(k, thread[k])
      BY <2>3, <2>9, Facts
    <3>2. thread[k].pc \in Pending => thread[k].next # thread[h].under
      BY DEF IInv, Apart
    <3>3. thread[k].pc \in Pending => Fresh(thread[k].next)'
      BY <1>4, <2>1, <2>2, <3>1, <3>2 DEF Handler, Fresh
    <3>4. QED
      BY <1>4, <2>1, <2>2, <2>9, <3>1, <3>3 DEF Handler, OnlyLate, NoError
  <2>10. Handlers'
    BY <2>3, <2>9, IdleThread DEF Handlers
  <2>11. Apart'
    BY <2>3, IdleThread, ApartStep DEF Pending
  <2>12. QED
    BY <2>4, <2>6, <2>7, <2>8, <2>10, <2>11 DEF IInv, DataInv
<1>5. QED
  BY <1>3, <1>4 DEF ResetFinish

-----------------------------------------------------------------------------
(* The specification.                                                      *)

LEMMA CrashInv == ASSUME IInv, Crash PROVE IInv'
<1>1. /\ UNCHANGED password /\ UNCHANGED token /\ UNCHANGED reset /\ UNCHANGED told
      /\ UNCHANGED changed /\ UNCHANGED resets /\ UNCHANGED chosen
      /\ \A k \in Threads : thread'[k] = Idle
  BY DEF Crash, db
<1>2. TypeOK'
  BY <1>1, IdleThread DEF Crash, IInv, TypeOK
<1>3. DataInv'
  BY <1>1 DEF IInv, DataInv, Replaced, ResetsUsed, OneUsePerThread, ResetLeavesOnlyLate,
              OneResetPerThread
<1>4. Handlers' /\ Apart'
  BY <1>1, IdleThread DEF Handlers, Apart, Pending
<1>5. QED
  BY <1>2, <1>3, <1>4 DEF IInv

LEMMA InitInv == Init => IInv
<1> SUFFICES ASSUME Init PROVE IInv
  OBVIOUS
<1>1. NoToken \in TokenRecords /\ NoToken.under = Null /\ ~NoToken.late
  BY DEF NoToken, TokenRecords
<1>2. NoReset \in [made : BOOLEAN, used : BOOLEAN]
  BY DEF NoReset
<1>3. TypeOK
  BY <1>1, <1>2, IdleThread DEF Init, TypeOK, TokenRecords
<1>4. DataInv
  BY <1>1 DEF Init, DataInv, Replaced, ResetsUsed, OneUsePerThread, ResetLeavesOnlyLate,
              OneResetPerThread
<1>5. Handlers /\ Apart
  BY IdleThread DEF Init, Handlers, Apart, Pending
<1>6. QED
  BY <1>3, <1>4, <1>5 DEF IInv

LEMMA NextInv == IInv /\ [Next]_vars => IInv'
<1> SUFFICES ASSUME IInv, [Next]_vars PROVE IInv'
  OBVIOUS
<1>1. ASSUME NEW h \in Threads, PasswordStep(h) PROVE IInv'
  BY <1>1, LoginInv, MintInv, ChangeInv, ChangeWriteInv DEF PasswordStep
<1>2. ASSUME NEW h \in Threads, ResetStep(h) PROVE IInv'
  BY <1>2, ResetLookupInv, ResetUserInv, ResetMarkInv, ResetRevokeInv, ResetFinishInv
     DEF ResetStep
<1>3. CASE ForgotPassword \/ Crash
  BY <1>3, ForgotInv, CrashInv
<1>4. CASE UNCHANGED vars
  BY <1>4 DEF vars, db, IInv, TypeOK, DataInv, Replaced, ResetsUsed, OneUsePerThread,
              ResetLeavesOnlyLate, OneResetPerThread, Handlers, Handler, Fresh, OnlyLate,
              Apart, NoError
<1>5. QED
  BY <1>1, <1>2, <1>3, <1>4 DEF Next

\* The invariant holds however logins, changes and resets interleave, and
\* whichever of their calls fail.
THEOREM Invariance == Spec => []IInv
BY InitInv, NextInv, PTL DEF Spec

\* Every record and every thread keeps its shape; a reset always has the reset
\* token it must mark.
THEOREM TypeCorrect == Spec => []TypeOK
BY Invariance, PTL DEF IInv

\* A password that was replaced is of use only to requests that had read it
\* before: one more change, or one more refresh token, for each thread.
THEOREM OneUse == Spec => []OneUsePerThread
<1>1. IInv => OneUsePerThread
  BY DEF IInv, DataInv
<1>2. QED
  BY <1>1, Invariance, PTL

\* An answered reset has revoked every refresh token of the password it
\* replaced, but those of logins it overtook.
THEOREM OnlyLateLeft == Spec => []ResetLeavesOnlyLate
<1>1. IInv => ResetLeavesOnlyLate
  BY DEF IInv, DataInv
<1>2. QED
  BY <1>1, Invariance, PTL

\* A reset token is answered with ok at most once per thread.
THEOREM OneReset == Spec => []OneResetPerThread
<1>1. IInv => OneResetPerThread
  BY DEF IInv, DataInv
<1>2. QED
  BY <1>1, Invariance, PTL

=============================================================================
