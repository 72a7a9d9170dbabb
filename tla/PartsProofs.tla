---------------------------- MODULE PartsProofs ----------------------------
(***************************************************************************)
(* Theorems about the smaller parts of the program: bulkInvite's invites,  *)
(* the life of the process, the time window of TOTP, the lookups, the      *)
(* base64 loop, and the encodings: JWT segments, password hashes, Base32.  *)
(***************************************************************************)
EXTENDS Invites, ServerLifecycle, Totp, SurrealClient, Codecs,
        FiniteSetTheorems, SequenceTheorems, WellFoundedInduction, TLAPS

-----------------------------------------------------------------------------
(* The invites.  A request's spent tokens are those of its answer so far,  *)
(* and nobody else has them; how far it has come in the addresses says     *)
(* which invites it has created.                                           *)

Items == [email : Emails, token : Tokens]

Batches == [pc : {"idle", "loop"}, emails : Seq(Emails \cup {Empty}), next : Nat,
            created : Seq(Items), spent : SUBSET Tokens]

\* What the answer so far says of the tokens spent.
Accounted(b) ==
    /\ b.spent = {b.created[n].token : n \in DOMAIN b.created}
    /\ \A m, n \in DOMAIN b.created : b.created[m].token = b.created[n].token => m = n

\* The places of addresses before the loop's position.
Done(b) == {i \in 1..(b.next - 1) : b.emails[i] # Empty}

BatchInv(b) ==
    /\ b.pc = "idle" => b = Idle
    /\ b.next \in 1..(Len(b.emails) + 1)
    /\ Accounted(b)
    /\ InOrder(b.created, b.emails, Done(b))

\* The table has what a request or an answer says of it.
Recorded == 
    "error" \notin Faults =>
        \A h \in Threads : \A n \in DOMAIN batch[h].created :
            invite[batch[h].created[n].token] = batch[h].created[n].email

\* A token has one holder: a request, an answer or the failed.
OneHolder ==
    /\ \A h, k \in Threads : h # k => batch[h].spent \cap batch[k].spent = {}
    /\ \A h \in Threads : batch[h].spent \cap failed = {}
    /\ \A h \in Threads : \A i \in told : i.token \notin batch[h].spent

InvitesInv ==
    /\ invite \in [Tokens -> Emails \cup {Empty}]
    /\ batch \in [Threads -> Batches]
    /\ told \subseteq Items
    /\ \A i, j \in told : i.token = j.token => i = j
    /\ failed \subseteq Tokens
    /\ \A h \in Threads : BatchInv(batch[h])
    /\ Recorded /\ OneHolder
    /\ AnsweredExist /\ AllOrNothing

-----------------------------------------------------------------------------

LEMMA IdleBatch == Idle \in Batches /\ BatchInv(Idle)
<1>1. Idle \in Batches
  BY DEF Idle, Batches
<1>2. Accounted(Idle)
  BY DEF Idle, Accounted
<1>3. InOrder(Idle.created, Idle.emails, Done(Idle))
  <2>1. Done(Idle) = {} /\ DOMAIN Idle.created = {}
    BY DEF Idle, Done
  <2>2. [n \in {} |-> 0] \in [DOMAIN Idle.created -> Done(Idle)]
    BY <2>1
  <2>3. QED
    BY <2>1, <2>2 DEF InOrder, Range
<1>4. QED
  BY <1>1, <1>2, <1>3 DEF BatchInv, Idle

\* A request begins with nothing created.
LEMMA BeginBatch ==
    ASSUME NEW n \in 0..MaxEmails, NEW emails \in [1..n -> Emails \cup {Empty}]
    PROVE  LET b == [Idle EXCEPT !.pc = "loop", !.emails = emails]
           IN  b \in Batches /\ BatchInv(b) /\ b.spent = {} /\ b.created = <<>>
<1> DEFINE b == [Idle EXCEPT !.pc = "loop", !.emails = emails]
<1>0. n \in Nat
  BY InvitesAssumption
<1>1. emails \in Seq(Emails \cup {Empty}) /\ Len(emails) = n
  BY <1>0
<1>2. /\ b.pc = "loop" /\ b.emails = emails /\ b.next = 1
      /\ b.created = <<>> /\ b.spent = {}
  BY DEF Idle
<1>3. b \in Batches
  BY <1>1, IdleBatch DEF Batches
<1> HIDE DEF b
<1>4. Accounted(b)
  BY <1>2 DEF Accounted
<1>5. InOrder(b.created, b.emails, Done(b))
  <2>1. Done(b) = {} /\ DOMAIN b.created = {}
    BY <1>2 DEF Done
  <2>2. [m \in {} |-> 0] \in [DOMAIN b.created -> Done(b)]
    BY <2>1
  <2>3. QED
    BY <2>1, <2>2 DEF InOrder, Range
<1>6. QED
  BY <1>0, <1>1, <1>2, <1>3, <1>4, <1>5 DEF BatchInv, b

\* What a turn of the loop makes of a batch is again one.
LEMMA TurnBatch ==
    ASSUME NEW b \in Batches, NEW next \in Nat, NEW created \in Seq(Items),
           NEW spent \in SUBSET Tokens
    PROVE  [b EXCEPT !.next = next, !.spent = spent, !.created = created] \in Batches
BY DEF Batches

\* A turn of the loop that creates an invite.
LEMMA GrowBatch ==
    ASSUME NEW b \in Batches, BatchInv(b), b.next <= Len(b.emails),
           b.emails[b.next] # Empty, NEW t \in Tokens, t \notin b.spent, b.pc = "loop"
    PROVE  LET item == [email |-> b.emails[b.next], token |-> t]
               c == [b EXCEPT !.next = @ + 1, !.spent = @ \cup {t},
                              !.created = Append(@, item)]
           IN  c \in Batches /\ BatchInv(c)
<1> DEFINE item == [email |-> b.emails[b.next], token |-> t]
           c == [b EXCEPT !.next = @ + 1, !.spent = @ \cup {t}, !.created = Append(@, item)]
           N == Len(b.created)
<1>1. /\ b.emails \in Seq(Emails \cup {Empty}) /\ b.next \in Nat /\ b.next >= 1
      /\ b.created \in Seq(Items) /\ b.spent \in SUBSET Tokens
      /\ b.next \in DOMAIN b.emails /\ Len(b.emails) \in Nat
  BY DEF Batches, BatchInv
<1>2. item \in Items
  BY <1>1 DEF Items
<1>3. /\ c.pc = "loop" /\ c.emails = b.emails /\ c.next = b.next + 1
      /\ c.spent = b.spent \cup {t} /\ c.created = Append(b.created, item)
  BY DEF Batches
<1>5. c \in Batches
  <2>1. Append(b.created, item) \in Seq(Items) /\ b.spent \cup {t} \in SUBSET Tokens
    BY <1>1, <1>2
  <2>2. b.next + 1 \in Nat
    BY <1>1
  <2>3. QED
    BY <2>1, <2>2, TurnBatch
<1> HIDE DEF c, item
<1>4. /\ N \in Nat /\ DOMAIN b.created = 1..N /\ DOMAIN c.created = 1..(N + 1)
      /\ \A n \in 1..N : c.created[n] = b.created[n]
      /\ c.created[N + 1] = item
      /\ c.created \in Seq(Items)
  BY <1>1, <1>2, <1>3
<1>6. Accounted(c)
  <2>0. item.token = t
    BY DEF item
  <2>1. {c.created[n].token : n \in 1..(N + 1)} = {c.created[n].token : n \in 1..N} \cup {t}
    BY <2>0, <1>4
  <2>2. \A n \in 1..N : c.created[n].token \in b.spent
    BY <1>4 DEF BatchInv, Accounted
  <2>3. c.spent = {c.created[n].token : n \in DOMAIN c.created}
    <3>1. b.spent = {b.created[n].token : n \in 1..N}
      BY <1>4 DEF BatchInv, Accounted
    <3>2. {c.created[n].token : n \in 1..N} = {b.created[n].token : n \in 1..N}
      BY <1>4
    <3>3. c.spent = b.spent \cup {t}
      BY <1>3
    <3>4. QED
      BY <3>1, <3>2, <3>3, <2>1, <1>4
  <2>4. ASSUME NEW m \in 1..(N + 1), NEW n \in 1..(N + 1),
               c.created[m].token = c.created[n].token
        PROVE  m = n
    <3>1. CASE m \in 1..N /\ n \in 1..N
      BY <3>1, <2>4, <1>4 DEF BatchInv, Accounted
    <3>2. CASE m \in 1..N /\ n = N + 1
      BY <3>2, <2>0, <2>2, <2>4, <1>4
    <3>3. CASE m = N + 1 /\ n \in 1..N
      BY <3>3, <2>0, <2>2, <2>4, <1>4
    <3>4. CASE m = N + 1 /\ n = N + 1
      BY <3>4
    <3>5. QED
      BY <3>1, <3>2, <3>3, <3>4, <1>4
  <2>5. QED
    BY <2>3, <2>4, <1>4 DEF Accounted
<1>7. InOrder(c.created, c.emails, Done(c))
  <2>1. Done(c) = Done(b) \cup {b.next}
    BY <1>1, <1>3 DEF Done
  <2>2. PICK place \in [DOMAIN b.created -> Done(b)] :
           /\ Range(place) = Done(b)
           /\ \A n \in DOMAIN b.created : b.created[n].email = b.emails[place[n]]
           /\ \A m, n \in DOMAIN b.created : m < n => place[m] < place[n]
    BY DEF BatchInv, InOrder
  <2> DEFINE further == [n \in 1..(N + 1) |-> IF n \in 1..N THEN place[n] ELSE b.next]
  <2>3. \A n \in 1..N : place[n] \in Done(b) /\ further[n] = place[n] /\ place[n] < b.next
    <3>1. ASSUME NEW i \in Done(b) PROVE i < b.next
      BY <3>1, <1>1 DEF Done
    <3>2. \A n \in 1..N : place[n] \in Done(b)
      BY <1>4
    <3>3. \A n \in 1..N : further[n] = place[n]
      BY <1>4
    <3>4. QED
      BY <3>1, <3>2, <3>3
  <2>4. further[N + 1] = b.next
    BY <1>4
  <2>0. DOMAIN further = 1..(N + 1)
    OBVIOUS
  <2>5. further \in [DOMAIN c.created -> Done(c)]
    BY <1>4, <2>1, <2>3
  <2> HIDE DEF further
  <2>6. Range(further) = Done(c)
    <3>1. Range(further) = {further[n] : n \in 1..N} \cup {b.next}
      BY <1>4, <2>0, <2>4 DEF Range
    <3>2. {further[n] : n \in 1..N} = {place[n] : n \in 1..N}
      BY <2>3
    <3>3. Done(b) = {place[n] : n \in 1..N}
      BY <1>4, <2>2 DEF Range
    <3>4. QED
      BY <3>1, <3>2, <3>3, <2>1
  <2>7. \A n \in DOMAIN c.created : c.created[n].email = c.emails[further[n]]
    BY <1>3, <1>4, <2>2, <2>3, <2>4 DEF item
  <2>8. ASSUME NEW m \in DOMAIN c.created, NEW n \in DOMAIN c.created, m < n
        PROVE  further[m] < further[n]
    <3>1. m \in 1..N
      BY <1>4, <2>8
    <3>2. CASE n \in 1..N
      BY <3>1, <3>2, <1>4, <2>2, <2>3, <2>8
    <3>3. CASE n = N + 1
      BY <3>1, <3>3, <2>3, <2>4
    <3>4. QED
      BY <3>2, <3>3, <1>4
  <2>9. QED
    BY <2>5, <2>6, <2>7, <2>8 DEF InOrder
<1>8. QED
  BY <1>1, <1>3, <1>5, <1>6, <1>7 DEF BatchInv, c, item

\* A turn that meets an empty address.
LEMMA SkipBatch ==
    ASSUME NEW b \in Batches, BatchInv(b), b.next <= Len(b.emails),
           b.emails[b.next] = Empty, b.pc = "loop"
    PROVE  LET c == [b EXCEPT !.next = @ + 1]
           IN  c \in Batches /\ BatchInv(c) /\ c.spent = b.spent /\ c.created = b.created
<1> DEFINE c == [b EXCEPT !.next = @ + 1]
<1>1. /\ b.next \in Nat /\ b.next >= 1 /\ Len(b.emails) \in Nat
      /\ c.pc = "loop" /\ c.emails = b.emails /\ c.next = b.next + 1
      /\ c.spent = b.spent /\ c.created = b.created
  BY DEF Batches, BatchInv
<1>2. c \in Batches
  BY DEF Batches
<1> HIDE DEF c
<1>3. Done(c) = Done(b)
  BY <1>1 DEF Done
<1>4. Accounted(c) /\ InOrder(c.created, c.emails, Done(c))
  BY <1>1, <1>3 DEF BatchInv, Accounted
<1>5. QED
  BY <1>1, <1>2, <1>4 DEF BatchInv, c

-----------------------------------------------------------------------------
(* Steps.                                                                  *)

LEMMA PutBatch ==
    ASSUME InvitesInv, NEW h \in Threads, NEW rec \in Batches, BatchInv(rec), Goto(h, rec)
    PROVE  /\ batch' \in [Threads -> Batches]
           /\ batch'[h] = rec
           /\ \A k \in Threads \ {h} : batch'[k] = batch[k]
           /\ \A k \in Threads : BatchInv(batch'[k])
<1>1. batch' = [batch EXCEPT ![h] = rec] /\ batch \in [Threads -> Batches]
  BY DEF InvitesInv, Goto
<1>2. /\ batch' \in [Threads -> Batches] /\ batch'[h] = rec
      /\ \A k \in Threads \ {h} : batch'[k] = batch[k]
  BY <1>1
<1>3. QED
  BY <1>2 DEF InvitesInv

\* A step that moves the loop and creates nothing.
LEMMA LoopMoves ==
    ASSUME InvitesInv, NEW h \in Threads, NEW rec \in Batches, BatchInv(rec), Goto(h, rec),
           rec.spent = batch[h].spent, rec.created = batch[h].created,
           UNCHANGED <<invite, told, failed>>
    PROVE  InvitesInv'
<1>1. /\ batch' \in [Threads -> Batches]
      /\ \A k \in Threads : BatchInv(batch'[k])
      /\ \A k \in Threads : batch'[k].spent = batch[k].spent
                            /\ batch'[k].created = batch[k].created
  BY PutBatch
<1>2. Recorded' /\ OneHolder'
  BY <1>1 DEF InvitesInv, Recorded, OneHolder
<1>3. AnsweredExist' /\ AllOrNothing'
  BY <1>1 DEF InvitesInv, AnsweredExist, AllOrNothing
<1>4. QED
  BY <1>1, <1>2, <1>3 DEF InvitesInv

LEMMA BulkInviteKeeps ==
    ASSUME InvitesInv, NEW h \in Threads, BulkInvite(h) PROVE InvitesInv'
<1>1. batch[h] = Idle
  BY DEF InvitesInv, BatchInv, BulkInvite, At
<1>2. PICK n \in 0..MaxEmails : \E emails \in [1..n -> Emails \cup {Empty}] :
         Goto(h, [Idle EXCEPT !.pc = "loop", !.emails = emails])
  BY DEF BulkInvite
<1>3. PICK emails \in [1..n -> Emails \cup {Empty}] :
         Goto(h, [Idle EXCEPT !.pc = "loop", !.emails = emails])
  BY <1>2
<1> DEFINE b == [Idle EXCEPT !.pc = "loop", !.emails = emails]
<1>4. b \in Batches /\ BatchInv(b) /\ b.spent = {} /\ b.created = <<>>
  BY BeginBatch
<1>5. Idle.spent = {} /\ Idle.created = <<>>
  BY DEF Idle
<1>6. UNCHANGED <<invite, told, failed>>
  BY DEF BulkInvite
<1> HIDE DEF b
<1>7. QED
  BY <1>1, <1>3, <1>4, <1>5, <1>6, LoopMoves DEF b

LEMMA SkipKeeps ==
    ASSUME InvitesInv, NEW h \in Threads, Skip(h) PROVE InvitesInv'
<1> DEFINE b == batch[h]
           c == [b EXCEPT !.next = @ + 1]
<1>1. /\ b \in Batches /\ BatchInv(b) /\ b.next <= Len(b.emails)
      /\ b.emails[b.next] = Empty /\ b.pc = "loop"
  BY DEF InvitesInv, Skip, At
<1>2. c \in Batches /\ BatchInv(c) /\ c.spent = b.spent /\ c.created = b.created
  BY <1>1, SkipBatch
<1>3. Goto(h, c) /\ UNCHANGED <<invite, told, failed>>
  BY DEF Skip
<1> HIDE DEF c
<1>4. QED
  BY <1>2, <1>3, LoopMoves

\* A request that fails gives its tokens, and what it had in hand, to the failed.
LEMMA RequestFails ==
    ASSUME InvitesInv, NEW h \in Threads, Goto(h, Idle), NEW more \in SUBSET Tokens,
           \A t \in more : Fresh(t),
           \A t \in Tokens \ more : invite'[t] = invite[t],
           invite' \in [Tokens -> Emails \cup {Empty}],
           failed' = failed \cup batch[h].spent \cup more, UNCHANGED told
    PROVE  InvitesInv'
<1>1. /\ batch' \in [Threads -> Batches] /\ batch'[h] = Idle
      /\ \A k \in Threads \ {h} : batch'[k] = batch[k]
      /\ \A k \in Threads : BatchInv(batch'[k])
  BY PutBatch, IdleBatch
<1>2. Idle.spent = {} /\ Idle.created = <<>>
  BY DEF Idle
<1>3. /\ \A k \in Threads : batch[k].spent \subseteq Tokens
      /\ \A k \in Threads : \A n \in DOMAIN batch[k].created :
            batch[k].created[n].token \in batch[k].spent
  BY DEF InvitesInv, BatchInv, Accounted, Batches
<1>4. failed' \subseteq Tokens
  BY <1>3 DEF InvitesInv
<1>5. Recorded'
  BY <1>1, <1>2, <1>3 DEF InvitesInv, Recorded, Fresh
<1>6. OneHolder'
  BY <1>1, <1>2 DEF InvitesInv, OneHolder, Fresh
<1>7. AnsweredExist'
  BY DEF InvitesInv, AnsweredExist, Fresh, Items
<1>8. AllOrNothing'
  <2>1. \A i \in told : i.token \notin failed'
    BY DEF InvitesInv, AllOrNothing, OneHolder, Fresh
  <2>2. ASSUME NEW t \in Tokens, invite'[t] # Empty
        PROVE  (\E i \in told : i.token = t) \/ t \in failed'
                 \/ \E k \in Threads : t \in batch'[k].spent
    BY <2>2, <1>1 DEF InvitesInv, AllOrNothing
  <2>3. QED
    BY <2>1, <2>2 DEF AllOrNothing
<1>9. QED
  BY <1>1, <1>4, <1>5, <1>6, <1>7, <1>8 DEF InvitesInv

LEMMA AnswerKeeps ==
    ASSUME InvitesInv, NEW h \in Threads, Answer(h) PROVE InvitesInv'
<1>1. CASE Fail(h) /\ UNCHANGED told
  <2>1. failed' = failed \cup batch[h].spent \cup {} /\ Goto(h, Idle) /\ invite' = invite
    BY <1>1 DEF Answer, Fail
  <2>2. /\ {} \in SUBSET Tokens /\ \A t \in {} : Fresh(t)
        /\ \A t \in Tokens \ {} : invite'[t] = invite[t]
        /\ invite' \in [Tokens -> Emails \cup {Empty}]
    BY <2>1 DEF InvitesInv
  <2>3. QED
    BY <1>1, <2>1, <2>2, RequestFails
<1>2. CASE Goto(h, Idle) /\ told' = told \cup ToSet(batch[h].created) /\ UNCHANGED failed
  <2>1. /\ batch' \in [Threads -> Batches] /\ batch'[h] = Idle
        /\ \A k \in Threads \ {h} : batch'[k] = batch[k]
        /\ \A k \in Threads : BatchInv(batch'[k])
    BY <1>2, PutBatch, IdleBatch
  <2>2. Idle.spent = {} /\ Idle.created = <<>> /\ invite' = invite
    BY DEF Idle, Answer
  <2> DEFINE N == DOMAIN batch[h].created
             item(n) == batch[h].created[n]
  <2>3. /\ batch[h].spent = {item(n).token : n \in N}
        /\ \A m, n \in N : item(m).token = item(n).token => m = n
        /\ \A n \in N : item(n) \in Items
    BY DEF InvitesInv, BatchInv, Accounted, Batches
  <2>4. told' = told \cup {item(n) : n \in N}
    BY <1>2 DEF ToSet
  <2> HIDE DEF N, item
  <2>5. told' \subseteq Items
    BY <2>3, <2>4 DEF InvitesInv
  <2>6. \A i, j \in told' : i.token = j.token => i = j
    BY <2>3, <2>4 DEF InvitesInv, OneHolder
  <2>7. Recorded' /\ OneHolder'
    <3>1. Recorded'
      BY <2>1, <2>2 DEF InvitesInv, Recorded
    <3>2. OneHolder'
      BY <1>2, <2>1, <2>2, <2>3, <2>4 DEF InvitesInv, OneHolder
    <3>3. QED
      BY <3>1, <3>2
  <2>8. AnsweredExist'
    BY <2>2, <2>4 DEF InvitesInv, AnsweredExist, Recorded, N, item
  <2>9. AllOrNothing'
    BY <1>2, <2>1, <2>2, <2>3, <2>4 DEF InvitesInv, AllOrNothing, OneHolder
  <2>10. QED
    BY <1>2, <2>1, <2>2, <2>5, <2>6, <2>7, <2>8, <2>9 DEF InvitesInv
<1>3. QED
  BY <1>1, <1>2 DEF Answer

\* A token whose CREATE throws is spent, one whose CREATE returns is the request's.
LEMMA InviteKeeps ==
    ASSUME InvitesInv, NEW h \in Threads, Invite(h) PROVE InvitesInv'
<1> DEFINE b == batch[h]
           item(t) == [email |-> b.emails[b.next], token |-> t]
           c(t) == [b EXCEPT !.next = @ + 1, !.spent = @ \cup {t},
                             !.created = Append(@, item(t))]
<1>1. /\ b \in Batches /\ BatchInv(b) /\ b.next <= Len(b.emails)
      /\ b.emails[b.next] # Empty /\ b.pc = "loop" /\ UNCHANGED told
  BY DEF InvitesInv, Invite, At
<1>2. PICK t \in Tokens, o \in Outcomes :
         /\ Fresh(t)
         /\ invite' = IF Applied(o) THEN [invite EXCEPT ![t] = b.emails[b.next]] ELSE invite
         /\ IF Throws(o) THEN Goto(h, Idle) /\ failed' = failed \cup b.spent \cup {t}
            ELSE Goto(h, c(t)) /\ UNCHANGED failed
  BY DEF Invite
<1>3. b.emails[b.next] \in Emails
  BY <1>1 DEF Batches, BatchInv
<1>4. /\ invite' \in [Tokens -> Emails \cup {Empty}]
      /\ \A s \in Tokens \ {t} : invite'[s] = invite[s]
      /\ Applied(o) => invite'[t] = b.emails[b.next]
  BY <1>2, <1>3 DEF InvitesInv
<1>5. CASE Throws(o)
  <2>1. {t} \in SUBSET Tokens /\ \A s \in {t} : Fresh(s)
    BY <1>2
  <2>2. Goto(h, Idle) /\ failed' = failed \cup b.spent \cup {t}
    BY <1>2, <1>5
  <2>3. QED
    BY <1>1, <1>4, <2>1, <2>2, RequestFails
<1>6. CASE ~Throws(o)
  <2>1. t \notin b.spent
    BY <1>2 DEF Fresh
  <2>2. c(t) \in Batches /\ BatchInv(c(t))
    BY <1>1, <2>1, GrowBatch
  <2>3. c(t).spent = b.spent \cup {t} /\ c(t).created = Append(b.created, item(t))
    BY <1>1 DEF Batches
  <2>4. Goto(h, c(t)) /\ UNCHANGED failed
    BY <1>2, <1>6
  <2> DEFINE d == c(t)
             N == Len(b.created)
  <2>5. /\ N \in Nat /\ DOMAIN b.created = 1..N /\ DOMAIN d.created = 1..(N + 1)
        /\ \A n \in 1..N : d.created[n] = b.created[n]
        /\ d.created[N + 1] = item(t)
    <3>1. b.created \in Seq(Items) /\ item(t) \in Items
      BY <1>1, <1>3 DEF Batches, Items
    <3>2. QED
      BY <2>3, <3>1
  <2>6. d.spent = b.spent \cup {t}
    BY <2>3
  <2> HIDE DEF c
  <2>7. /\ batch' \in [Threads -> Batches] /\ batch'[h] = d
        /\ \A k \in Threads \ {h} : batch'[k] = batch[k]
        /\ \A k \in Threads : BatchInv(batch'[k])
    BY <2>2, <2>4, PutBatch
  <2> HIDE DEF d, N
  <2>8. \A k \in Threads : \A n \in DOMAIN batch[k].created :
            batch[k].created[n].token \in batch[k].spent
    BY DEF InvitesInv, BatchInv, Accounted
  <2>9. \A k \in Threads : \A n \in DOMAIN batch[k].created :
            batch[k].created[n].token \in Tokens \ {t}
    BY <1>2, <2>8 DEF InvitesInv, Fresh, Batches
  <2>10. Recorded'
    <3>1. SUFFICES ASSUME "error" \notin Faults, NEW k \in Threads,
                          NEW n \in DOMAIN batch'[k].created
                   PROVE  invite'[batch'[k].created[n].token] = batch'[k].created[n].email
      BY DEF Recorded
    <3>2. o = "ok"
      BY <1>6, <3>1, FaultsAssumption DEF Outcomes, Throws
    <3>3. CASE k = h /\ n = N + 1
      BY <3>2, <3>3, <1>4, <2>5, <2>7 DEF Applied
    <3>4. CASE k = h /\ n # N + 1
      <4>1. n \in 1..N
        BY <3>1, <3>4, <2>5, <2>7
      <4>2. invite[b.created[n].token] = b.created[n].email
        BY <3>1, <4>1, <2>5 DEF InvitesInv, Recorded
      <4>3. QED
        BY <3>4, <4>1, <4>2, <1>4, <2>5, <2>7, <2>9
    <3>5. CASE k # h
      BY <3>1, <3>5, <1>4, <2>7, <2>9 DEF InvitesInv, Recorded
    <3>6. QED
      BY <3>3, <3>4, <3>5
  <2>11. OneHolder'
    BY <1>1, <1>2, <2>4, <2>6, <2>7 DEF InvitesInv, OneHolder, Fresh
  <2>12. AnsweredExist'
    BY <1>1, <1>2, <1>4 DEF InvitesInv, AnsweredExist, Fresh, Items
  <2>13. AllOrNothing'
    <3>1. \A i \in told' : i.token \notin failed'
      BY <1>1, <2>4 DEF InvitesInv, AllOrNothing
    <3>2. ASSUME NEW s \in Tokens, invite'[s] # Empty
          PROVE  (\E i \in told' : i.token = s) \/ s \in failed'
                   \/ \E k \in Threads : s \in batch'[k].spent
      <4>1. CASE s = t
        BY <4>1, <2>6, <2>7
      <4>2. CASE s # t
        <5>1. invite[s] # Empty
          BY <3>2, <4>2, <1>4
        <5>2. \A k \in Threads : batch[k].spent \subseteq batch'[k].spent
          BY <2>6, <2>7
        <5>3. QED
          BY <5>1, <5>2, <1>1, <2>4 DEF InvitesInv, AllOrNothing
      <4>3. QED
        BY <4>1, <4>2
    <3>3. QED
      BY <3>1, <3>2 DEF AllOrNothing
  <2>14. QED
    BY <1>1, <1>4, <2>4, <2>7, <2>10, <2>11, <2>12, <2>13 DEF InvitesInv
<1>7. QED
  BY <1>5, <1>6

\* The tokens of every request in work are lost.
LEMMA CrashKeeps ==
    ASSUME InvitesInv, Crash PROVE InvitesInv'
<1>1. /\ batch' = [h \in Threads |-> Idle]
      /\ failed' = failed \cup UNION {batch[h].spent : h \in Threads}
      /\ UNCHANGED <<invite, told>>
  BY DEF Crash
<1>2. /\ batch' \in [Threads -> Batches]
      /\ \A h \in Threads : batch'[h] = Idle /\ BatchInv(batch'[h])
      /\ Idle.spent = {} /\ Idle.created = <<>>
  BY <1>1, IdleBatch DEF Idle
<1>3. failed' \subseteq Tokens
  BY <1>1 DEF InvitesInv, Batches
<1>4. Recorded' /\ OneHolder'
  BY <1>2 DEF Recorded, OneHolder
<1>5. AnsweredExist'
  BY <1>1 DEF InvitesInv, AnsweredExist
<1>6. AllOrNothing'
  BY <1>1 DEF InvitesInv, AllOrNothing, OneHolder
<1>7. QED
  BY <1>1, <1>2, <1>3, <1>4, <1>5, <1>6 DEF InvitesInv

LEMMA InvitesNext == InvitesInv /\ [Next]_vars => InvitesInv'
<1> SUFFICES ASSUME InvitesInv, [Next]_vars PROVE InvitesInv'
  OBVIOUS
<1>1. CASE UNCHANGED vars
  BY <1>1 DEF vars, InvitesInv, Recorded, OneHolder, AnsweredExist, AllOrNothing
<1>2. QED
  BY <1>1, BulkInviteKeeps, InviteKeeps, SkipKeeps, AnswerKeeps, CrashKeeps DEF Next

LEMMA InvitesInit == Init => InvitesInv
<1> SUFFICES ASSUME Init PROVE InvitesInv
  OBVIOUS
<1>1. /\ batch \in [Threads -> Batches]
      /\ \A h \in Threads : batch[h] = Idle /\ BatchInv(batch[h])
      /\ Idle.spent = {} /\ Idle.created = <<>>
  BY IdleBatch DEF Init, Idle
<1>2. Recorded /\ OneHolder
  BY <1>1 DEF Init, Recorded, OneHolder
<1>3. AnsweredExist /\ AllOrNothing
  BY DEF Init, AnsweredExist, AllOrNothing
<1>4. QED
  BY <1>1, <1>2, <1>3 DEF Init, InvitesInv

THEOREM InvitesInvariant == Spec => []InvitesInv
BY InvitesInit, InvitesNext, PTL DEF Spec

\* The types are right, and no token is answered twice.
THEOREM InvitesTyped == Spec => []TypeOK
<1>1. InvitesInv => TypeOK
  <2> SUFFICES ASSUME InvitesInv PROVE TypeOK
    OBVIOUS
  <2>1. \A h \in Threads : /\ batch[h].pc \in {"idle", "loop"}
                           /\ Range(batch[h].emails) \subseteq Emails \cup {Empty}
                           /\ batch[h].next \in 1..(Len(batch[h].emails) + 1)
                           /\ batch[h].spent \subseteq Tokens
    BY DEF InvitesInv, Batches, BatchInv, Range
  <2>2. QED
    BY <2>1 DEF InvitesInv, TypeOK, Items
<1>2. QED
  BY <1>1, InvitesInvariant, PTL

\* An invite that was answered is in the table, if failures throw.
THEOREM AnsweredInvitesExist == Spec => []AnsweredExist
<1>1. InvitesInv => AnsweredExist
  BY DEF InvitesInv
<1>2. QED
  BY <1>1, InvitesInvariant, PTL

\* A request that comes to its audit row has the invites of its addresses.
THEOREM RequestsWhole == Spec => []WholeRequest
<1>1. InvitesInv => WholeRequest
  <2> SUFFICES ASSUME InvitesInv, NEW h \in Threads,
                      batch[h].next > Len(batch[h].emails)
               PROVE  InOrder(batch[h].created, batch[h].emails, Named(batch[h].emails))
    BY DEF WholeRequest
  <2> DEFINE b == batch[h]
  <2>1. BatchInv(b) /\ b \in Batches
    BY DEF InvitesInv
  <2>2. /\ Len(b.emails) \in Nat /\ DOMAIN b.emails = 1..Len(b.emails)
        /\ b.next = Len(b.emails) + 1
    BY <2>1 DEF Batches, BatchInv
  <2>3. Done(b) = Named(b.emails)
    BY <2>2 DEF Done, Named
  <2>4. QED
    BY <2>1, <2>3 DEF BatchInv
<1>2. QED
  BY <1>1, InvitesInvariant, PTL

\* The client is told all invites of a request or none.
THEOREM ToldAllOrNothing == Spec => []AllOrNothing
<1>1. InvitesInv => AllOrNothing
  BY DEF InvitesInv
<1>2. QED
  BY <1>1, InvitesInvariant, PTL

-----------------------------------------------------------------------------
(* The life of the process.  Until the server is built and after it has    *)
(* stopped no call is in hand, which is why join and the return from main  *)
(* find none.                                                              *)

LifeInv ==
    /\ EndsClean
    /\ call \in [Calls -> {"none", "entered", "query"}]
    /\ main \in {"build", "failed", "join", "exited"} => \A c \in Calls : call[c] = "none"

LEMMA LifeKeeps ==
    ASSUME LifeInv, [LifeNext]_life PROVE LifeInv'
<1> USE DEF LifeInv, EndsClean
<1>1. CASE BuildAndStart
  BY <1>1 DEF BuildAndStart
<1>2. CASE Run \/ RunReturns \/ Shutdown
  BY <1>2 DEF Run, RunReturns, Shutdown
<1>3. CASE ShutdownReturns
  BY <1>3 DEF ShutdownReturns
<1>4. CASE Join
  BY <1>4 DEF Join
<1>5. CASE WaitReturns \/ Signal
  BY <1>5 DEF WaitReturns, Signal
<1>6. ASSUME NEW c \in Calls, Receive(c) \/ Query(c) \/ Reply(c) PROVE LifeInv'
  BY <1>6 DEF Receive, Query, Reply
<1>7. CASE UNCHANGED life
  BY <1>7 DEF life
<1>8. QED
  BY <1>1, <1>2, <1>3, <1>4, <1>5, <1>6, <1>7 DEF LifeNext, Main

\* Where main is fixes the server; main never ends with a call in hand or with
\* grpcThread alive, whenever the signal comes.
THEOREM ProcessEndsClean == LifeSpec => []EndsClean
<1>1. LifeInit => LifeInv
  BY DEF LifeInit, LifeInv, EndsClean
<1>2. LifeInv /\ [LifeNext]_life => LifeInv'
  BY LifeKeeps
<1>3. LifeInv => EndsClean
  BY DEF LifeInv
<1>4. QED
  BY <1>1, <1>2, <1>3, PTL DEF LifeSpec

-----------------------------------------------------------------------------
(* The time window of TOTP.                                                *)

\* Quotients and remainders, where the provers need them.
LEMMA Quotient ==
    ASSUME NEW p \in Nat \ {0}, NEW n \in Nat
    PROVE  /\ n \div p \in Nat /\ n % p \in 0..(p - 1)
           /\ n = p * (n \div p) + (n % p)
BY SMT

\* A counter past the modulus, or before 0, wraps around once.
LEMMA Wraps ==
    ASSUME NEW m \in Nat \ {0}, NEW n \in (-m)..(m - 1)
    PROVE  n % m = IF n < 0 THEN n + m ELSE n
<1>1. CASE n \in 0..(m - 1)
  BY <1>1, SMT
<1>2. CASE n \in (-m)..(-1)
  BY <1>2, SMT
<1>3. QED
  BY <1>1, <1>2

\* Times that are within k periods have counters within k.
LEMMA CountersNear ==
    ASSUME NEW p \in Nat \ {0}, NEW k \in Nat, NEW s \in Nat, NEW t \in Nat, s - t <= k * p
    PROVE  (s \div p) - (t \div p) <= k
<1>1. ASSUME NEW a \in Nat, NEW b \in Nat, NEW q \in 0..(p - 1), NEW r \in 0..(p - 1),
             (p * a + q) - (p * b + r) <= k * p
      PROVE  a - b <= k
  BY <1>1, SMT
<1>2. QED
  BY <1>1, Quotient

\* Counters within k belong to times less than k + 1 periods apart.
LEMMA TimesNear ==
    ASSUME NEW p \in Nat \ {0}, NEW k \in Nat, NEW s \in Nat, NEW t \in Nat,
           (s \div p) - (t \div p) <= k
    PROVE  s - t <= (k + 1) * p - 1
<1>1. ASSUME NEW a \in Nat, NEW b \in Nat, NEW q \in 0..(p - 1), NEW r \in 0..(p - 1), a - b <= k
      PROVE  (p * a + q) - (p * b + r) <= (k + 1) * p - 1
  BY <1>1, SMT
<1>2. QED
  BY <1>1, Quotient

\* std::stoul reads back what std::setw(6) and std::setfill('0') have written.
LEMMA FormatRead ==
    ASSUME NEW n \in Nat, n < 1000000
    PROVE  Len(Format(n)) = 6 /\ Value(Format(n)) = n
<1> DEFINE a == n \div 10
           b == a \div 10
           c == b \div 10
           d == c \div 10
           e == d \div 10
<1>1. /\ a \in Nat /\ n = 10 * a + (n % 10) /\ n % 10 \in 0..9
      /\ b \in Nat /\ a = 10 * b + (a % 10) /\ a % 10 \in 0..9
      /\ c \in Nat /\ b = 10 * c + (b % 10) /\ b % 10 \in 0..9
      /\ d \in Nat /\ c = 10 * d + (c % 10) /\ c % 10 \in 0..9
      /\ e \in Nat /\ d = 10 * e + (d % 10) /\ d % 10 \in 0..9
  BY SMT
<1>2. b = n \div 100 /\ c = n \div 1000 /\ d = n \div 10000 /\ e = n \div 100000
  BY SMT
<1> HIDE DEF a, b, c, d, e
<1>3. e < 10
  BY <1>1, SMT
<1>4. e % 10 = e
  BY <1>1, <1>3, SMT
<1>5. Format(n) = << e, d % 10, c % 10, b % 10, a % 10, n % 10 >>
  BY <1>2, <1>4, SMT DEF Format, a
<1> HIDE DEF Format
<1>6. Value(Format(n)) = 100000 * e + 10000 * (d % 10) + 1000 * (c % 10) + 100 * (b % 10)
                           + 10 * (a % 10) + (n % 10)
  BY <1>5, SMT DEF Value
<1>7. QED
  BY <1>1, <1>5, <1>6, SMT

LEMMA CounterOf ==
    ASSUME NEW s \in 0..MaxClock
    PROVE  /\ s \in Nat /\ s \div Period \in 0..LastPeriod /\ LastPeriod \in Nat
           /\ s \div Period \in InPlay
<1>1. /\ Period \in Nat \ {0} /\ Window \in Nat /\ MaxClock \in Nat /\ s \in Nat
      /\ s - MaxClock <= 0 * Period
  BY TotpAssumption, SMT
<1>2. s \div Period \in Nat /\ MaxClock \div Period \in Nat
  BY <1>1, Quotient
<1>3. (s \div Period) - (MaxClock \div Period) <= 0
  BY <1>1, CountersNear
<1>4. QED
  BY <1>1, <1>2, <1>3, SMT DEF LastPeriod, InPlay

\* The counters that verify_code looks at.
LEMMA WindowCounters ==
    ASSUME NEW s \in 0..MaxClock, NEW i \in (-Window)..Window
    PROVE  LET c == ((s \div Period) + i) % CounterModulus
           IN  /\ c \in InPlay
               /\ c = IF (s \div Period) + i < 0
                      THEN (s \div Period) + i + CounterModulus ELSE (s \div Period) + i
<1>0. s \div Period \in 0..LastPeriod /\ LastPeriod \in Nat
  BY CounterOf
<1>1. /\ Window \in Nat /\ CounterModulus \in Nat \ {0}
      /\ LastPeriod + Window < CounterModulus
      /\ s \div Period \in 0..LastPeriod /\ LastPeriod \in Nat
  BY <1>0, TotpAssumption
<1>2. (s \div Period) + i \in (-CounterModulus)..(CounterModulus - 1)
  BY <1>1, SMT
<1>3. ((s \div Period) + i) % CounterModulus =
         IF (s \div Period) + i < 0 THEN (s \div Period) + i + CounterModulus
                                    ELSE (s \div Period) + i
  BY <1>1, <1>2, Wraps
<1>4. QED
  BY <1>1, <1>3, SMT DEF InPlay

\* What verify_code accepts is the code of a counter in the window, and that is a
\* matter of the distance alone.
LEMMA AcceptedWhen ==
    ASSUME NEW shown \in 0..MaxClock, NEW now \in 0..MaxClock
    PROVE  Accepted(shown, now) <=>
               (shown \div Period) - (now \div Period) \in (-Window)..Window
<1> DEFINE q == shown \div Period
           c == now \div Period
<1>1. /\ q \in 0..LastPeriod /\ c \in 0..LastPeriod /\ LastPeriod \in Nat /\ q \in InPlay
      /\ Window \in Nat /\ LastPeriod + Window < CounterModulus /\ CounterModulus \in Nat
  BY CounterOf, TotpAssumption
<1>2. ComputeCode(q) \in Nat /\ ComputeCode(q) < 1000000
  <2>1. q \in 0..(CounterModulus - 1)
    BY <1>1, SMT
  <2>2. Truncated[q] \in Nat
    BY <2>1, TotpAssumption
  <2> HIDE DEF q
  <2>3. QED
    BY <2>2, SMT DEF ComputeCode
<1>3. Len(GenerateCodeNow(shown)) = 6 /\ Value(GenerateCodeNow(shown)) = ComputeCode(q)
  BY <1>2, FormatRead DEF GenerateCodeNow
<1>4. Accepted(shown, now) <=>
         \E i \in (-Window)..Window : ComputeCode((c + i) % CounterModulus) = ComputeCode(q)
  BY <1>3 DEF Accepted, VerifyCode, Counters
<1>5. ASSUME NEW i \in (-Window)..Window,
             ComputeCode((c + i) % CounterModulus) = ComputeCode(q)
      PROVE  q - c \in (-Window)..Window
  <2>1. /\ (c + i) % CounterModulus \in InPlay
        /\ (c + i) % CounterModulus = IF c + i < 0 THEN c + i + CounterModulus ELSE c + i
    BY WindowCounters
  <2>2. (c + i) % CounterModulus = q
    BY <1>1, <1>5, <2>1, NoCollision
  <2> HIDE DEF q, c
  <2>3. c + i = q
    BY <1>1, <2>1, <2>2, SMT
  <2>4. QED
    BY <1>1, <2>3, SMT
<1>6. ASSUME q - c \in (-Window)..Window
      PROVE  \E i \in (-Window)..Window :
                ComputeCode((c + i) % CounterModulus) = ComputeCode(q)
  <2>1. (c + (q - c)) % CounterModulus
           = IF c + (q - c) < 0 THEN c + (q - c) + CounterModulus ELSE c + (q - c)
    BY <1>6, WindowCounters
  <2> HIDE DEF q, c
  <2>2. (c + (q - c)) % CounterModulus = q
    BY <1>1, <2>1, SMT
  <2>3. QED
    BY <1>6, <2>2
<1>7. QED
  BY <1>4, <1>5, <1>6

LEMMA WindowHolds == clock \in 0..MaxClock => CodeWindow
<1> SUFFICES ASSUME clock \in 0..MaxClock PROVE CodeWindow
  OBVIOUS
<1>0. /\ Period \in Nat \ {0} /\ Window \in Nat /\ MaxClock \in Nat /\ clock \in Nat
      /\ \A s \in 0..MaxClock : s \in Nat /\ s \div Period \in Nat
      /\ clock \div Period \in Nat
  <2>1. ASSUME NEW s \in 0..MaxClock PROVE s \in Nat /\ s \div Period \in Nat
    <3>1. s \in Nat /\ s \div Period \in 0..LastPeriod /\ LastPeriod \in Nat
      BY CounterOf
    <3>2. QED
      BY <3>1
  <2>2. QED
    BY <2>1, TotpAssumption
<1>1. PunctualAccepted
  <2> SUFFICES ASSUME NEW shown \in 0..MaxClock,
                      clock - shown \in (-(Window * Period))..(Window * Period)
               PROVE  Accepted(shown, clock)
    BY DEF PunctualAccepted
  <2>1. clock - shown <= Window * Period /\ shown - clock <= Window * Period
    BY <1>0, SMT
  <2>2. /\ (clock \div Period) - (shown \div Period) <= Window
        /\ (shown \div Period) - (clock \div Period) <= Window
    BY <1>0, <2>1, CountersNear
  <2>3. (shown \div Period) - (clock \div Period) \in (-Window)..Window
    BY <1>0, <2>2
  <2>4. QED
    BY <2>3, AcceptedWhen
<1>2. LateRefused
  <2> SUFFICES ASSUME NEW shown \in 0..MaxClock, Accepted(shown, clock)
               PROVE  clock - shown \in (1 - (Window + 1) * Period)..((Window + 1) * Period - 1)
    BY DEF LateRefused
  <2>1. (shown \div Period) - (clock \div Period) \in (-Window)..Window
    BY AcceptedWhen
  <2>2. /\ (shown \div Period) - (clock \div Period) <= Window
        /\ (clock \div Period) - (shown \div Period) <= Window
    BY <1>0, <2>1
  <2>3. /\ shown - clock <= (Window + 1) * Period - 1
        /\ clock - shown <= (Window + 1) * Period - 1
    BY <1>0, <2>2, TimesNear
  <2>4. (Window + 1) * Period \in Int
    BY <1>0
  <2>5. QED
    BY <1>0, <2>3, <2>4
<1>3. ReusedWithinWindow
  <2> SUFFICES ASSUME NEW shown \in 0..MaxClock, NEW first \in 0..clock,
                      Accepted(shown, first), Accepted(shown, clock)
               PROVE  clock - first < (2 * Window + 1) * Period
    BY DEF ReusedWithinWindow
  <2>0. first \in 0..MaxClock /\ 2 * Window \in Nat
    BY <1>0
  <2>1. /\ (shown \div Period) - (clock \div Period) \in (-Window)..Window
        /\ (shown \div Period) - (first \div Period) \in (-Window)..Window
    BY <2>0, AcceptedWhen
  <2>2. (clock \div Period) - (first \div Period) <= 2 * Window
    BY <1>0, <2>0, <2>1
  <2>3. clock - first <= (2 * Window + 1) * Period - 1
    BY <1>0, <2>0, <2>2, TimesNear
  <2>4. (2 * Window + 1) * Period \in Int
    BY <1>0
  <2>5. QED
    BY <1>0, <2>0, <2>3, <2>4
<1>4. QED
  BY <1>1, <1>2, <1>3 DEF CodeWindow

\* The window of verify_code is what RFC 6238 asks for: for every period, window,
\* clock and width of the counter, wrapping included, as long as no two counters
\* in play have the same code.
THEOREM CodesInWindow == TotpSpec => []CodeWindow
<1> DEFINE Inv == clock \in 0..MaxClock
<1>1. TotpInit => Inv
  BY TotpAssumption DEF TotpInit
<1>2. Inv /\ [Tick]_clock => Inv'
  BY TotpAssumption DEF Tick
<1>3. QED
  BY <1>1, <1>2, WindowHolds, PTL DEF TotpSpec

-----------------------------------------------------------------------------
(* The lookups.  An address is stored in lower case and in one record, so  *)
(* a query has at most one row.                                            *)

Stored == [name : Names, case : {"lower"}]

TableInv ==
    /\ user \in [Keys -> Stored \cup {Null}]
    /\ \A k, l \in Keys : user[k] # Null /\ user[k] = user[l] => k = l

\* Of none or one element there is one sequence.
LEMMA SequenceOfNone == SetToSeq({}) = <<>>
<1>1. Cardinality({}) = 0
  BY FS_EmptySet
<1>2. \A f \in [1..0 -> {}] : f = <<>>
  OBVIOUS
<1>3. <<>> \in [1..0 -> {}] /\ IsInjective(<<>>)
  BY DEF IsInjective
<1>4. QED
  BY <1>1, <1>2, <1>3 DEF SetToSeq

LEMMA SequenceOfOne ==
    ASSUME NEW k PROVE SetToSeq({k}) = <<k>>
<1>1. Cardinality({k}) = 1
  BY FS_Singleton
<1>2. \A f \in [1..1 -> {k}] : f = <<k>>
  OBVIOUS
<1>3. <<k>> \in [1..1 -> {k}] /\ IsInjective(<<k>>)
  BY DEF IsInjective
<1>4. QED
  BY <1>1, <1>2, <1>3 DEF SetToSeq

LEMMA OneRow ==
    ASSUME NEW k PROVE FirstResult(Array(<< <<k>> >>)) = k
<1> DEFINE sets == << <<k>> >>
<1>1. sets # <<>> /\ sets[1] = <<k>> /\ <<k>> # <<>> /\ <<k>>[1] = k
  OBVIOUS
<1> HIDE DEF sets
<1>2. Array(sets).array /\ Array(sets).sets = sets
  BY DEF Array
<1>3. FirstResult(Array(sets)) = sets[1][1]
  BY <1>1, <1>2 DEF FirstResult
<1>4. QED
  BY <1>1, <1>3 DEF sets

\* An address is its name and its case.
LEMMA LowerStored ==
    ASSUME NEW e \in Spellings
    PROVE  Lower(e) \in Stored /\ \A a \in Stored : a = Lower(e) <=> a.name = e.name
<1>1. Lower(e) \in Stored /\ Lower(e).name = e.name
  BY DEF Lower, Spellings, Stored
<1>2. \A a, b \in Stored : a.name = b.name => a = b
  BY DEF Stored
<1>3. QED
  BY <1>1, <1>2

LEMMA StoredNotNull == Null \notin Stored
BY NullAssumption DEF Stored, Spellings

LEMMA TableKeeps == TableInv /\ [\E e \in Spellings : CreateUser(e)]_user => TableInv'
<1> SUFFICES ASSUME TableInv, NEW e \in Spellings, CreateUser(e) PROVE TableInv'
  BY DEF TableInv
<1>1. PICK k \in Keys : user[k] = Null /\ user' = [user EXCEPT ![k] = Lower(e)]
  BY DEF CreateUser
<1>2. Lower(e) \in Stored /\ \A l \in Keys : user[l] # Lower(e)
  BY LowerStored DEF CreateUser
<1>3. QED
  BY <1>1, <1>2 DEF TableInv

LEMMA LookupsRight ==
    ASSUME TableInv PROVE LookupFindsUser
<1>1. ASSUME NEW e \in Spellings
      PROVE  LET owners == {k \in Records : user[k].name = e.name}
             IN  IF owners = {} THEN SelectOneByEmail(FALSE, e) = Null
                 ELSE owners = {SelectOneByEmail(FALSE, e)}
  <2> DEFINE owners == {k \in Records : user[k].name = e.name}
             rows == {k \in Records : user[k] = Lower(e)}
  <2>1. rows = owners
    BY LowerStored DEF Records, TableInv
  <2>2. SelectOneByEmail(FALSE, e) = FirstResult(Array(<< SetToSeq(rows) >>))
    BY DEF SelectOneByEmail, Let
  <2>3. CASE owners = {}
    BY <2>1, <2>2, <2>3, SequenceOfNone DEF FirstResult, Array
  <2>4. CASE owners # {}
    <3>1. PICK k \in rows : TRUE
      BY <2>1, <2>4
    <3>2. rows = {k}
      BY <3>1 DEF Records, TableInv
    <3>3. SelectOneByEmail(FALSE, e) = k
      BY <2>2, <3>2, SequenceOfOne, OneRow
    <3>4. QED
      BY <2>1, <2>4, <3>2, <3>3
  <2>5. QED
    BY <2>3, <2>4
<1>2. ASSUME NEW k \in Records PROVE SelectById(RecordIdPart(RecordId(k))) = k
  <2> DEFINE id == RecordIdPart(RecordId(k))
  <2>1. id.table = FALSE /\ id.key = k
    BY DEF RecordId, RecordIdPart
  <2>2. {k} \cap Records = {k}
    OBVIOUS
  <2>3. SelectById(id) = FirstResult(Array(<< SetToSeq({k}) >>))
    BY <2>1, <2>2 DEF SelectById, Parses
  <2>4. QED
    BY <2>3, SequenceOfOne, OneRow
<1>3. QED
  BY <1>1, <1>2 DEF LookupFindsUser

LEMMA TableInvariant == TableSpec => []TableInv
<1>1. TableInit => TableInv
  BY DEF TableInit, TableInv
<1>2. QED
  BY <1>1, TableKeeps, PTL DEF TableSpec

\* Where LET has no result, a login finds the user of its address, whatever the
\* case of either, or nobody; and the id of an answer finds its user when cut.
THEOREM LookupsFindUsers == TableSpec => []LookupFindsUser
<1>1. TableInv => LookupFindsUser
  BY LookupsRight
<1>2. QED
  BY <1>1, TableInvariant, PTL

-----------------------------------------------------------------------------
(* Bit strings: the bits of a byte, two by two, and the digits of Base64,  *)
(* which begin and end at an even bit.                                     *)

Octet == 0..255

\* Two bits of a byte.
LEMMA PairsOfBits ==
    ASSUME NEW b \in Octet
    PROVE  /\ 2 * ((b \div 128) % 2) + ((b \div 64) % 2) = b \div 64
           /\ 2 * ((b \div 32) % 2) + ((b \div 16) % 2) = (b \div 16) % 4
           /\ 2 * ((b \div 8) % 2) + ((b \div 4) % 2) = (b \div 4) % 4
           /\ 2 * ((b \div 2) % 2) + ((b \div 1) % 2) = b % 4
<1>1. b \in 0..255 /\ b \div 1 = b
  BY DEF Octet
<1> QED
  BY <1>1

\* Three pairs of bits, of one byte or two.
LEMMA ThreePairs ==
    ASSUME NEW b \in Octet, NEW c \in Octet
    PROVE  /\ 16 * (b \div 64) + 4 * ((b \div 16) % 4) + ((b \div 4) % 4) = b \div 4
           /\ 16 * ((b \div 16) % 4) + 4 * ((b \div 4) % 4) + (b % 4) = b % 64
           /\ 16 * ((b \div 4) % 4) + 4 * (b % 4) + 0 = (b % 16) * 4
           /\ 16 * (b % 4) + 4 * 0 + 0 = (b % 4) * 16
           /\ 16 * ((b \div 4) % 4) + 4 * (b % 4) + (c \div 64) = (b % 16) * 4 + (c \div 64)
           /\ 16 * (b % 4) + 4 * (c \div 64) + ((c \div 16) % 4) = (b % 4) * 16 + (c \div 16)
BY DEF Octet

\* The bits from 8 * (p - 1) on are those of the p-th byte.
LEMMA PairsOfByte ==
    ASSUME NEW bytes \in Seq(Octet), NEW p \in 1..Len(bytes), NEW k \in Int, k = 8 * (p - 1),
           NEW b \in Octet, b = bytes[p]
    PROVE  /\ Pair(bytes, k) = b \div 64
           /\ Pair(bytes, k + 2) = (b \div 16) % 4
           /\ Pair(bytes, k + 4) = (b \div 4) % 4
           /\ Pair(bytes, k + 6) = b % 4
<1>0. p \in Nat /\ Len(bytes) \in Nat /\ p >= 1 /\ p <= Len(bytes) /\ k \in Int
  BY LenProperties
<1>1. ASSUME NEW j \in 0..7
      PROVE  Bit(bytes, k + j) = (b \div 2^(7 - j)) % 2
  <2>1. (k + j) \div 8 = p - 1 /\ (k + j) % 8 = j
    BY <1>0
  <2>2. ((k + j) \div 8) < Len(bytes) /\ ((k + j) \div 8) + 1 = p
    BY <1>0, <2>1
  <2>3. Bit(bytes, k + j) = (bytes[((k + j) \div 8) + 1] \div 2^(7 - ((k + j) % 8))) % 2
    BY <2>2 DEF Bit
  <2> QED
    BY <2>1, <2>2, <2>3
<1>2. /\ 2^(7 - 0) = 128 /\ 2^(7 - 1) = 64 /\ 2^(7 - 2) = 32 /\ 2^(7 - 3) = 16
      /\ 2^(7 - 4) = 8 /\ 2^(7 - 5) = 4 /\ 2^(7 - 6) = 2 /\ 2^(7 - 7) = 1
  OBVIOUS
<1>3. k + 0 = k
  BY <1>0
<1>4. Bit(bytes, k) = (b \div 128) % 2 /\ Bit(bytes, k + 1) = (b \div 64) % 2
  BY <1>1, <1>2, <1>3
<1>5. Bit(bytes, k + 2) = (b \div 32) % 2 /\ Bit(bytes, (k + 2) + 1) = (b \div 16) % 2
  <2>1. (k + 2) + 1 = k + 3
    BY <1>0
  <2> QED
    BY <1>1, <1>2, <2>1
<1>6. Bit(bytes, k + 4) = (b \div 8) % 2 /\ Bit(bytes, (k + 4) + 1) = (b \div 4) % 2
  <2>1. (k + 4) + 1 = k + 5
    BY <1>0
  <2> QED
    BY <1>1, <1>2, <2>1
<1>7. Bit(bytes, k + 6) = (b \div 2) % 2 /\ Bit(bytes, (k + 6) + 1) = (b \div 1) % 2
  <2>1. (k + 6) + 1 = k + 7
    BY <1>0
  <2> QED
    BY <1>1, <1>2, <2>1
<1>8. /\ 2 * ((b \div 128) % 2) + ((b \div 64) % 2) = b \div 64
      /\ 2 * ((b \div 32) % 2) + ((b \div 16) % 2) = (b \div 16) % 4
      /\ 2 * ((b \div 8) % 2) + ((b \div 4) % 2) = (b \div 4) % 4
      /\ 2 * ((b \div 2) % 2) + ((b \div 1) % 2) = b % 4
  BY PairsOfBits
<1>9. Pair(bytes, k) = b \div 64
  BY ONLY <1>4, <1>8, Zenon DEF Pair
<1>10. Pair(bytes, k + 2) = (b \div 16) % 4
  BY ONLY <1>5, <1>8, Zenon DEF Pair
<1>11. Pair(bytes, k + 4) = (b \div 4) % 4
  BY ONLY <1>6, <1>8, Zenon DEF Pair
<1>12. Pair(bytes, k + 6) = b % 4
  BY ONLY <1>7, <1>8, Zenon DEF Pair
<1> QED
  BY <1>9, <1>10, <1>11, <1>12

\* Behind the last byte there are zeros.
LEMMA PairsBeyond ==
    ASSUME NEW bytes \in Seq(Octet), NEW k \in Nat, k >= 8 * Len(bytes)
    PROVE  Pair(bytes, k) = 0
<1>1. /\ Len(bytes) \in Nat /\ k \div 8 >= Len(bytes) /\ (k + 1) \div 8 >= Len(bytes)
      /\ k \div 8 \in Int /\ (k + 1) \div 8 \in Int
  BY LenProperties
<1>2. ~((k \div 8) < Len(bytes)) /\ ~(((k + 1) \div 8) < Len(bytes))
  BY <1>1
<1>3. Bit(bytes, k) = 0 /\ Bit(bytes, k + 1) = 0
  BY <1>2, Zenon DEF Bit
<1> QED
  BY <1>3 DEF Pair

\* The digits inside a byte, at either end of it.
LEMMA DigitOfOneByte ==
    ASSUME NEW bytes \in Seq(Octet), NEW p \in 1..Len(bytes), NEW k \in Int,
           NEW b \in Octet, b = bytes[p]
    PROVE  /\ k = 8 * (p - 1) => Sextet(bytes, k) = b \div 4
           /\ k = 8 * (p - 1) + 2 => Sextet(bytes, k) = b % 64
<1>1. PICK a \in Int : a = 8 * (p - 1)
  OBVIOUS
<1>2. /\ Pair(bytes, a) = b \div 64 /\ Pair(bytes, a + 2) = (b \div 16) % 4
      /\ Pair(bytes, a + 4) = (b \div 4) % 4 /\ Pair(bytes, a + 6) = b % 4
  BY <1>1, PairsOfByte
<1>3. Sextet(bytes, a) = b \div 4
  <2>1. 16 * (b \div 64) + 4 * ((b \div 16) % 4) + ((b \div 4) % 4) = b \div 4
    BY ThreePairs
  <2> QED
    BY ONLY <1>2, <2>1, Zenon DEF Sextet
<1>4. Sextet(bytes, a + 2) = b % 64
  <2>1. 16 * ((b \div 16) % 4) + 4 * ((b \div 4) % 4) + (b % 4) = b % 64
    BY ThreePairs
  <2>2. (a + 2) + 2 = a + 4 /\ (a + 2) + 4 = a + 6
    OBVIOUS
  <2> QED
    BY ONLY <1>2, <2>1, <2>2, Zenon DEF Sextet
<1> QED
  BY ONLY <1>1, <1>3, <1>4, Zenon

\* The last digit of the last byte.
LEMMA DigitOfLastByte ==
    ASSUME NEW bytes \in Seq(Octet), NEW p \in 1..Len(bytes), p = Len(bytes), NEW k \in Int,
           NEW b \in Octet, b = bytes[p]
    PROVE  /\ k = 8 * (p - 1) + 4 => Sextet(bytes, k) = (b % 16) * 4
           /\ k = 8 * (p - 1) + 6 => Sextet(bytes, k) = (b % 4) * 16
<1>1. PICK a \in Int : a = 8 * (p - 1)
  OBVIOUS
<1>2. Pair(bytes, a + 4) = (b \div 4) % 4 /\ Pair(bytes, a + 6) = b % 4
  <2>1. bytes \in Seq(Octet) /\ p \in 1..Len(bytes) /\ b \in Octet /\ b = bytes[p]
    OBVIOUS
  <2> QED
    BY ONLY <1>1, <2>1, PairsOfByte
<1>3. Pair(bytes, a + 8) = 0 /\ Pair(bytes, a + 10) = 0
  <2>1. a + 8 \in Nat /\ a + 10 \in Nat /\ a + 8 >= 8 * Len(bytes) /\ a + 10 >= 8 * Len(bytes)
    BY <1>1
  <2> QED
    BY <2>1, PairsBeyond
<1>4. Sextet(bytes, a + 4) = (b % 16) * 4
  <2>1. 16 * ((b \div 4) % 4) + 4 * (b % 4) + 0 = (b % 16) * 4
    BY ThreePairs
  <2>2. (a + 4) + 2 = a + 6 /\ (a + 4) + 4 = a + 8
    OBVIOUS
  <2> QED
    BY ONLY <1>2, <1>3, <2>1, <2>2, Zenon DEF Sextet
<1>5. Sextet(bytes, a + 6) = (b % 4) * 16
  <2>1. 16 * (b % 4) + 4 * 0 + 0 = (b % 4) * 16
    BY ThreePairs
  <2>2. (a + 6) + 2 = a + 8 /\ (a + 6) + 4 = a + 10
    OBVIOUS
  <2> QED
    BY ONLY <1>2, <1>3, <2>1, <2>2, Zenon DEF Sextet
<1> QED
  BY ONLY <1>1, <1>4, <1>5, Zenon

\* The digits across the boundary of two bytes.
LEMMA DigitOfTwoBytes ==
    ASSUME NEW bytes \in Seq(Octet), NEW p \in 1..Len(bytes), NEW q \in 1..Len(bytes), q = p + 1,
           NEW k \in Int, NEW b \in Octet, b = bytes[p], NEW c \in Octet, c = bytes[q]
    PROVE  /\ k = 8 * (p - 1) + 4 => Sextet(bytes, k) = (b % 16) * 4 + (c \div 64)
           /\ k = 8 * (p - 1) + 6 => Sextet(bytes, k) = (b % 4) * 16 + (c \div 16)
<1>1. PICK a \in Int : a = 8 * (p - 1)
  OBVIOUS
<1>2. PICK d \in Int : d = 8 * (q - 1)
  OBVIOUS
<1>3. Pair(bytes, a + 4) = (b \div 4) % 4 /\ Pair(bytes, a + 6) = b % 4
  BY <1>1, PairsOfByte
<1>4. Pair(bytes, d) = c \div 64 /\ Pair(bytes, d + 2) = (c \div 16) % 4
  BY <1>2, PairsOfByte
<1>5. Sextet(bytes, a + 4) = (b % 16) * 4 + (c \div 64)
  <2>1. 16 * ((b \div 4) % 4) + 4 * (b % 4) + (c \div 64) = (b % 16) * 4 + (c \div 64)
    BY ThreePairs
  <2>2. (a + 4) + 2 = a + 6 /\ (a + 4) + 4 = d
    BY <1>1, <1>2
  <2> QED
    BY ONLY <1>3, <1>4, <2>1, <2>2, Zenon DEF Sextet
<1>6. Sextet(bytes, a + 6) = (b % 4) * 16 + (c \div 16)
  <2>1. 16 * (b % 4) + 4 * (c \div 64) + ((c \div 16) % 4) = (b % 4) * 16 + (c \div 16)
    BY ThreePairs
  <2>2. (a + 6) + 2 = d /\ (a + 6) + 4 = d + 2
    BY <1>1, <1>2
  <2> QED
    BY ONLY <1>3, <1>4, <2>1, <2>2, Zenon DEF Sextet
<1> QED
  BY ONLY <1>1, <1>5, <1>6, Zenon

-----------------------------------------------------------------------------
(* The base64 loop of jwt.hpp.  What it has put out are the digits so far; *)
(* valb says how many bits it has taken and not put out, and they are the  *)
(* lowest of val.                                                          *)

EncodeInv ==
    /\ IntTypeOK
    /\ pc # "done" =>
          /\ valb = 8 * pos - 6 * Len(out) - 6
          /\ pc = "byte" => valb < 0
          /\ \A i \in 1..Len(out) : out[i] = Sextet(input, 6 * (i - 1))
          /\ pos >= 1 => val % 256 = input[pos]
          /\ pos >= 2 => val % 4096 = (input[pos - 1] % 16) * 256 + input[pos]
    /\ pc = "done" => out = Base64Of(input)

\* The inputs are byte strings.
LEMMA InputsAreBytes ==
    ASSUME NEW s \in BoundedSeq(Bytes, MaxLength)
    PROVE  s \in Seq(Octet) /\ Len(s) \in Nat
<1>1. PICK n \in 0..MaxLength : s \in [1..n -> Bytes]
  BY BoundsAssumption DEF BoundedSeq, SeqOf
<1>2. n \in Nat
  BY BoundsAssumption
<1>3. s \in [1..n -> Octet]
  BY <1>1, BoundsAssumption DEF Octet
<1>4. s \in Seq(Octet)
  BY <1>2, <1>3, SeqDef
<1> QED
  BY <1>4, LenProperties

\* An integer of the type has the lower twelve bits of what it is computed from.
LEMMA LowBits ==
    ASSUME NEW x \in Nat
    PROVE  x % 2^Width \in 0..(2^Width - 1) /\ (x % 2^Width) % 4096 = x % 4096
<1>1. PICK m \in Nat : m = 2^Width
  BY PowerAssumption
<1>2. m > 0 /\ m % 4096 = 0
  BY <1>1, PowerAssumption
<1>3. /\ x % m \in 0..(m - 1) /\ x \div m \in Int
      /\ x = m * (x \div m) + (x % m)
  BY <1>2
<1>4. m = 4096 * (m \div 4096) /\ m \div 4096 \in Int
  BY <1>2
<1>5. PICK q \in Int : q = m \div 4096
  BY <1>4
<1>6. PICK r \in Int : r = x \div m
  BY <1>3
<1>7. PICK y \in Int : y = x % m
  BY <1>3
<1>8. m * r = 4096 * (q * r) /\ q * r \in Int
  BY <1>4, <1>5
<1>9. x = 4096 * (q * r) + y
  BY <1>3, <1>6, <1>7, <1>8
<1>10. x % 4096 = y % 4096
  BY <1>8, <1>9
<1> QED
  BY <1>1, <1>3, <1>7, <1>10

\* A byte shifted in.
ShiftedIn(v, c) == (v * 256 + c) % 2^Width

LastAre(w, v, c) ==
    /\ w \in 0..(2^Width - 1)
    /\ w % 256 = c
    /\ \A b \in Octet : v % 256 = b => w % 4096 = (b % 16) * 256 + c

LEMMA ByteShiftedIn ==
    ASSUME NEW v \in Nat, NEW c \in Octet
    PROVE  LastAre(ShiftedIn(v, c), v, c)
<1>1. PICK x \in Nat : x = v * 256 + c
  BY DEF Octet
<1>2. x % 2^Width \in 0..(2^Width - 1) /\ (x % 2^Width) % 4096 = x % 4096
  BY LowBits
<1>3. x % 2^Width \in Nat
  BY <1>2, PowerAssumption
<1>4. PICK w \in Nat : w = x % 2^Width
  BY <1>3
<1>5. w % 4096 = x % 4096
  BY <1>2, <1>4
<1>6. w % 256 = c
  BY <1>1, <1>5 DEF Octet
<1>7. \A b \in Octet : v % 256 = b => w % 4096 = (b % 16) * 256 + c
  BY <1>1, <1>5 DEF Octet
<1> QED
  BY <1>1, <1>2, <1>4, <1>6, <1>7 DEF ShiftedIn, LastAre

\* The lowest six bits, and the bits that are put out.
LEMMA SixLowest ==
    ASSUME NEW y \in Int, NEW q \in Int, NEW r \in 0..63, y = 64 * q + r
    PROVE  y % 64 = r
  OBVIOUS

LEMMA BitsOfLastTwo ==
    ASSUME NEW v \in Nat, NEW b \in Octet, NEW c \in Octet, v % 4096 = (b % 16) * 256 + c
    PROVE  /\ (v \div 16) % 64 = (b % 4) * 16 + (c \div 16)
           /\ (v \div 64) % 64 = (b % 16) * 4 + (c \div 64)
<1>1. PICK q \in Int : v = 4096 * q + ((b % 16) * 256 + c)
  <2>1. v = 4096 * (v \div 4096) + (v % 4096) /\ v \div 4096 \in Int
    OBVIOUS
  <2> QED
    BY <2>1
<1>2. PICK l \in 0..15 : l = b % 16 /\ l % 4 = b % 4
  BY DEF Octet
<1>3. v \in Nat /\ v = 4096 * q + (l * 256 + c) /\ c \in 0..255
  BY <1>1, <1>2 DEF Octet
<1>4. v \div 64 = 64 * q + (l * 4 + (c \div 64)) /\ l * 4 + (c \div 64) \in 0..63
  BY ONLY <1>3
<1>5. /\ v \div 16 = 64 * (4 * q + (l \div 4)) + ((l % 4) * 16 + (c \div 16))
      /\ (l % 4) * 16 + (c \div 16) \in 0..63
  BY ONLY <1>3
<1>6. (v \div 64) % 64 = l * 4 + (c \div 64)
  <2>1. v \div 64 \in Int
    OBVIOUS
  <2> QED
    BY ONLY <1>4, <2>1, SixLowest
<1>7. (v \div 16) % 64 = (l % 4) * 16 + (c \div 16)
  <2>1. v \div 16 \in Int /\ 4 * q + (l \div 4) \in Int
    OBVIOUS
  <2> QED
    BY ONLY <1>5, <2>1, SixLowest
<1> QED
  BY ONLY <1>2, <1>6, <1>7

\* The digits that are put out when the last byte is c, and those for what is left over.
DigitsAre(v, c) ==
    /\ Digit6(v, 0) = c % 64
    /\ Digit6(v, 2) = c \div 4
    /\ Digit6(v * 256, 4) = (c % 4) * 16
    /\ Digit6(v * 256, 6) = (c % 16) * 4
    /\ \A b \in Octet : v % 4096 = (b % 16) * 256 + c =>
          /\ Digit6(v, 4) = (b % 4) * 16 + (c \div 16)
          /\ Digit6(v, 6) = (b % 16) * 4 + (c \div 64)

LEMMA DigitsOfVal ==
    ASSUME NEW v \in Nat, NEW c \in Octet, v % 256 = c
    PROVE  DigitsAre(v, c)
<1>1. 0 < Width /\ 2 < Width /\ 4 < Width /\ 6 < Width
  BY BoundsAssumption
<1>2. 2^0 = 1 /\ 2^2 = 4 /\ 2^4 = 16 /\ 2^6 = 64
  OBVIOUS
<1>3. /\ Digit6(v, 0) = (v \div 1) % 64 /\ Digit6(v, 2) = (v \div 4) % 64
      /\ Digit6(v, 4) = (v \div 16) % 64 /\ Digit6(v, 6) = (v \div 64) % 64
      /\ Digit6(v * 256, 4) = ((v * 256) \div 16) % 64
      /\ Digit6(v * 256, 6) = ((v * 256) \div 64) % 64
  BY ONLY <1>1, <1>2, Zenon DEF Digit6
<1>4. /\ (v \div 1) % 64 = c % 64
      /\ (v \div 4) % 64 = c \div 4
      /\ ((v * 256) \div 16) % 64 = (c % 4) * 16
      /\ ((v * 256) \div 64) % 64 = (c % 16) * 4
  BY DEF Octet
<1>5. ASSUME NEW b \in Octet, v % 4096 = (b % 16) * 256 + c
      PROVE  /\ Digit6(v, 4) = (b % 4) * 16 + (c \div 16)
             /\ Digit6(v, 6) = (b % 16) * 4 + (c \div 64)
  <2>1. /\ (v \div 16) % 64 = (b % 4) * 16 + (c \div 16)
        /\ (v \div 64) % 64 = (b % 16) * 4 + (c \div 64)
    BY <1>5, BitsOfLastTwo
  <2> QED
    BY ONLY <1>3, <2>1, Zenon
<1> QED
  BY <1>3, <1>4, <1>5 DEF DigitsAre

\* The types of what the invariant is about.
LEMMA EncodeTypes ==
    ASSUME EncodeInv
    PROVE  /\ input \in Seq(Octet) /\ Len(input) \in Nat
           /\ pos \in Nat /\ pos <= Len(input)
           /\ val \in Nat
           /\ out \in Seq(0..64) /\ Len(out) \in Nat
           /\ pos >= 1 => pos \in 1..Len(input) /\ input[pos] \in Octet
           /\ pos >= 2 => pos - 1 \in 1..Len(input) /\ input[pos - 1] \in Octet
<1>1. input \in Seq(Octet) /\ Len(input) \in Nat
  BY InputsAreBytes DEF EncodeInv, IntTypeOK
<1>2. pos \in Nat /\ pos <= Len(input)
  BY <1>1 DEF EncodeInv, IntTypeOK
<1>3. val \in Nat
  BY PowerAssumption DEF EncodeInv, IntTypeOK
<1>4. out \in Seq(0..64) /\ Len(out) \in Nat
  BY LenProperties DEF EncodeInv, IntTypeOK, Pad
<1>5. \A p \in 1..Len(input) : input[p] \in Octet
  BY <1>1, ElementOfSeq
<1>6. (pos >= 1 => pos \in 1..Len(input)) /\ (pos >= 2 => pos - 1 \in 1..Len(input))
  BY <1>1, <1>2
<1> QED
  BY <1>1, <1>2, <1>3, <1>4, <1>5, <1>6

\* A sequence with one element more.
LEMMA Appended ==
    ASSUME NEW s \in Seq(0..64), NEW e \in 0..64
    PROVE  /\ Append(s, e) \in Seq(0..64) /\ Len(Append(s, e)) = Len(s) + 1
           /\ \A i \in 1..Len(s) : Append(s, e)[i] = s[i]
           /\ Append(s, e)[Len(s) + 1] = e
BY AppendProperties

LEMMA EncodeInitInv ==
    ASSUME Signed, EncodeInit
    PROVE  EncodeInv
<1>1. input \in Seq(Octet) /\ Len(input) \in Nat
  BY InputsAreBytes DEF EncodeInit
<1>2. out = <<>> /\ out \in Seq(0..64) /\ Len(out) = 0
  BY EmptySeq DEF EncodeInit
<1>3. Modular(-6) = -6
  BY DEF Modular
<1>4. IntTypeOK
  BY <1>1, <1>2, <1>3, PowerAssumption DEF EncodeInit, IntTypeOK, Pad
<1> QED
  BY <1>1, <1>2, <1>3, <1>4 DEF EncodeInit, EncodeInv

\* The bits taken and not put out: valb, after p bytes and n digits.
Left(p, n, v) == v \in -6..6 /\ v = 8 * p - 6 * n - 6

LEMMA BitsLeft ==
    ASSUME NEW p \in Nat, NEW n \in Nat, NEW v \in Int, Left(p, n, v)
    PROVE  /\ v < 0 => v \in {-6, -4, -2} /\ v + 8 \in -6..6 /\ v + 8 = 8 * (p + 1) - 6 * n - 6
           /\ v >= 0 => /\ p >= 1 /\ v \in {0, 2, 4, 6}
                       /\ v - 6 \in -6..6 /\ v - 6 = 8 * p - 6 * (n + 1) - 6
           /\ v = -6 => 6 * n = 8 * p
           /\ v = -4 => p >= 1 /\ 6 * n = 8 * (p - 1) + 6
           /\ v = -2 => p >= 1 /\ 6 * n = 8 * (p - 1) + 4
           /\ v = 0 => 6 * n = 8 * (p - 1) + 2
           /\ v = 2 => 6 * n = 8 * (p - 1)
           /\ v = 4 => p >= 2 /\ 6 * n = 8 * ((p - 1) - 1) + 6
           /\ v = 6 => p >= 2 /\ 6 * n = 8 * ((p - 1) - 1) + 4
<1>0. v \in -6..6 /\ v = 8 * p - 6 * n - 6
  BY DEF Left
<1>1. 2 * (v \div 2) = v
  BY <1>0
<1>2. v \in {-6, -4, -2, 0, 2, 4, 6}
  BY <1>0, <1>1
<1> QED
  BY <1>0, <1>2

LEMMA ByteKeepsInv ==
    ASSUME Signed, EncodeInv, Byte
    PROVE  EncodeInv'
<1>1. /\ input \in Seq(Octet) /\ Len(input) \in Nat
      /\ pos \in Nat /\ pos <= Len(input)
      /\ val \in Nat
      /\ out \in Seq(0..64) /\ Len(out) \in Nat
      /\ pos >= 1 => pos \in 1..Len(input) /\ input[pos] \in Octet
  BY EncodeTypes
<1>2. pos < Len(input) /\ pos + 1 \in 1..Len(input) /\ (pos + 1) - 1 = pos
      /\ pos + 1 >= 1 /\ (pos + 1 >= 2 => pos >= 1)
  BY <1>1 DEF Byte
<1>3. PICK c \in Octet : c = input[pos + 1]
  BY <1>1, <1>2, ElementOfSeq
<1>4. /\ val' \in 0..(2^Width - 1)
      /\ val' % 256 = c
      /\ \A b \in Octet : val % 256 = b => val' % 4096 = (b % 16) * 256 + c
  <2>1. val' = ShiftedIn(val, c)
    BY <1>3 DEF Byte, ShiftedIn
  <2>2. val \in Nat /\ c \in Octet
    BY <1>1
  <2>3. LastAre(ShiftedIn(val, c), val, c)
    BY ONLY <2>2, ByteShiftedIn
  <2> QED
    BY ONLY <2>1, <2>3 DEF LastAre
<1>5. valb' = valb + 8 /\ valb = 8 * pos - 6 * Len(out) - 6 /\ valb < 0 /\ valb \in -6..6
  BY DEF Byte, Modular, EncodeInv, IntTypeOK
<1>6. valb + 8 \in -6..6 /\ valb + 8 = 8 * (pos + 1) - 6 * Len(out) - 6
  <2>1. Left(pos, Len(out), valb)
    BY <1>5 DEF Left
  <2>2. pos \in Nat /\ Len(out) \in Nat /\ valb \in Int /\ valb < 0
    BY <1>1, <1>5
  <2> QED
    BY <2>1, <2>2, BitsLeft
<1>7. valb' \in -6..6 /\ valb' = 8 * (pos + 1) - 6 * Len(out) - 6
  BY <1>5, <1>6
<1>8. pos' = pos + 1 /\ input' = input /\ out' = out /\ pc' = "digits"
  BY DEF Byte
<1>9. IntTypeOK'
  <2>1. /\ input' \in BoundedSeq(Bytes, MaxLength) /\ out' \in Seq(0..Pad)
        /\ pc' \in {"byte", "digits", "done", "threw"}
    BY <1>8 DEF EncodeInv, IntTypeOK
  <2>2. pos' \in 0..Len(input')
    BY <1>1, <1>2, <1>8
  <2> QED
    BY <1>4, <1>7, <2>1, <2>2 DEF IntTypeOK
<1>10. pos + 1 >= 2 => val' % 4096 = (input[pos] % 16) * 256 + input[pos + 1]
  <2> HAVE pos + 1 >= 2
  <2>1. pos >= 1 /\ val % 256 = input[pos] /\ input[pos] \in Octet
    BY <1>1, <1>2 DEF EncodeInv, Byte
  <2> QED
    BY <1>3, <1>4, <2>1
<1>11. /\ valb' = 8 * pos' - 6 * Len(out') - 6
       /\ pos' >= 1 => val' % 256 = input'[pos']
       /\ pos' >= 2 => val' % 4096 = (input'[pos' - 1] % 16) * 256 + input'[pos']
  BY <1>2, <1>3, <1>4, <1>7, <1>8, <1>10
<1>12. \A i \in 1..Len(out') : out'[i] = Sextet(input', 6 * (i - 1))
  BY <1>8 DEF EncodeInv, Byte
<1> QED
  BY <1>8, <1>9, <1>11, <1>12 DEF EncodeInv

\* What is put out are digits.
LEMMA DigitRanges ==
    ASSUME NEW c \in Octet
    PROVE  /\ c % 64 \in 0..63 /\ c \div 4 \in 0..63
           /\ (c % 4) * 16 \in 0..63 /\ (c % 16) * 4 \in 0..63
           /\ \A b \in Octet : /\ (b % 4) * 16 + (c \div 16) \in 0..63
                               /\ (b % 16) * 4 + (c \div 64) \in 0..63
<1>1. c \in 0..255
  BY DEF Octet
<1>2. /\ c % 64 \in 0..63 /\ c \div 4 \in 0..63
      /\ c % 4 \in 0..3 /\ c % 16 \in 0..15
      /\ c \div 16 \in 0..15 /\ c \div 64 \in 0..3
  BY ONLY <1>1
<1>3. ASSUME NEW b \in Octet
      PROVE  /\ (b % 4) * 16 + (c \div 16) \in 0..63
             /\ (b % 16) * 4 + (c \div 64) \in 0..63
  <2>1. b % 4 \in 0..3 /\ b % 16 \in 0..15
    BY DEF Octet
  <2> QED
    BY ONLY <1>2, <2>1
<1> QED
  BY <1>2, <1>3

\* The digit that comes next, when there are enough bits.
LEMMA NextDigit ==
    ASSUME EncodeInv, pc = "digits", MoreDigits
    PROVE  /\ valb - 6 \in -6..6 /\ valb - 6 = 8 * pos - 6 * (Len(out) + 1) - 6
           /\ Digit6(val, valb) = Sextet(input, 6 * Len(out))
           /\ Digit6(val, valb) \in 0..63
<1>1. /\ input \in Seq(Octet) /\ Len(input) \in Nat
      /\ pos \in Nat /\ pos <= Len(input)
      /\ val \in Nat /\ Len(out) \in Nat
      /\ pos >= 1 => pos \in 1..Len(input) /\ input[pos] \in Octet
      /\ pos >= 2 => pos - 1 \in 1..Len(input) /\ input[pos - 1] \in Octet
  BY EncodeTypes
<1>2. valb = 8 * pos - 6 * Len(out) - 6 /\ valb >= 0 /\ valb \in -6..6
  BY DEF EncodeInv, IntTypeOK, MoreDigits
<1>3. /\ pos >= 1 /\ valb \in {0, 2, 4, 6}
      /\ valb - 6 \in -6..6 /\ valb - 6 = 8 * pos - 6 * (Len(out) + 1) - 6
      /\ valb = 0 => 6 * Len(out) = 8 * (pos - 1) + 2
      /\ valb = 2 => 6 * Len(out) = 8 * (pos - 1)
      /\ valb = 4 => pos >= 2 /\ 6 * Len(out) = 8 * ((pos - 1) - 1) + 6
      /\ valb = 6 => pos >= 2 /\ 6 * Len(out) = 8 * ((pos - 1) - 1) + 4
  <2>1. Left(pos, Len(out), valb)
    BY <1>2 DEF Left
  <2>2. pos \in Nat /\ Len(out) \in Nat /\ valb \in Int /\ valb >= 0
    BY <1>1, <1>2
  <2> QED
    BY <2>1, <2>2, BitsLeft
<1>4. pos \in 1..Len(input) /\ input[pos] \in Octet /\ val % 256 = input[pos]
  BY <1>1, <1>3 DEF EncodeInv
<1>5. PICK k \in Int : k = 6 * Len(out)
  BY <1>1
<1>6. PICK c \in Octet : c = input[pos]
  BY <1>4
<1>7. val % 256 = c
  BY <1>4, <1>6
<1>8. /\ Digit6(val, 0) = c % 64 /\ Digit6(val, 2) = c \div 4
      /\ \A b \in Octet : val % 4096 = (b % 16) * 256 + c =>
            /\ Digit6(val, 4) = (b % 4) * 16 + (c \div 16)
            /\ Digit6(val, 6) = (b % 16) * 4 + (c \div 64)
  <2>1. val \in Nat /\ c \in Octet /\ val % 256 = c
    BY <1>1, <1>7
  <2>2. DigitsAre(val, c)
    BY ONLY <2>1, DigitsOfVal
  <2> QED
    BY ONLY <2>2 DEF DigitsAre
<1>9. /\ c % 64 \in 0..63 /\ c \div 4 \in 0..63
      /\ \A b \in Octet : /\ (b % 4) * 16 + (c \div 16) \in 0..63
                          /\ (b % 16) * 4 + (c \div 64) \in 0..63
  BY DigitRanges
<1>10. /\ k = 8 * (pos - 1) => Sextet(input, k) = c \div 4
       /\ k = 8 * (pos - 1) + 2 => Sextet(input, k) = c % 64
  <2>1. input \in Seq(Octet) /\ pos \in 1..Len(input)
    BY <1>1, <1>4
  <2> QED
    BY <1>6, <2>1, DigitOfOneByte
<1>11. ASSUME pos >= 2
       PROVE  \E b \in Octet :
                 /\ Digit6(val, 4) = (b % 4) * 16 + (c \div 16)
                 /\ Digit6(val, 6) = (b % 16) * 4 + (c \div 64)
                 /\ k = 8 * ((pos - 1) - 1) + 4 => Sextet(input, k) = (b % 16) * 4 + (c \div 64)
                 /\ k = 8 * ((pos - 1) - 1) + 6 => Sextet(input, k) = (b % 4) * 16 + (c \div 16)
  <2>1. pos - 1 \in 1..Len(input) /\ (pos - 1) + 1 = pos
    BY <1>1, <1>11
  <2>2. PICK b \in Octet : b = input[pos - 1]
    BY <1>1, <1>11
  <2>3. val % 4096 = (b % 16) * 256 + c
    BY <1>6, <1>11, <2>2 DEF EncodeInv
  <2>5. /\ Digit6(val, 4) = (b % 4) * 16 + (c \div 16)
        /\ Digit6(val, 6) = (b % 16) * 4 + (c \div 64)
    BY <1>8, <2>3
  <2>6. /\ k = 8 * ((pos - 1) - 1) + 4 => Sextet(input, k) = (b % 16) * 4 + (c \div 64)
        /\ k = 8 * ((pos - 1) - 1) + 6 => Sextet(input, k) = (b % 4) * 16 + (c \div 16)
    <3>1. PICK p \in 1..Len(input) : p = pos - 1 /\ pos = p + 1
      BY <2>1
    <3>2. b = input[p] /\ c = input[pos]
      BY <1>6, <2>2, <3>1
    <3>3. /\ k = 8 * (p - 1) + 4 => Sextet(input, k) = (b % 16) * 4 + (c \div 64)
          /\ k = 8 * (p - 1) + 6 => Sextet(input, k) = (b % 4) * 16 + (c \div 16)
      <4>1. input \in Seq(Octet) /\ pos \in 1..Len(input) /\ pos = p + 1
        BY <1>1, <1>4, <3>1
      <4> QED
        BY <3>2, <4>1, DigitOfTwoBytes
    <3> QED
      BY <3>1, <3>3
  <2> QED
    BY <2>5, <2>6
<1>12. Digit6(val, valb) = Sextet(input, k) /\ Digit6(val, valb) \in 0..63
  <2>1. CASE valb = 0
    BY <1>3, <1>5, <1>8, <1>9, <1>10, <2>1
  <2>2. CASE valb = 2
    BY <1>3, <1>5, <1>8, <1>9, <1>10, <2>2
  <2>3. CASE valb = 4
    <3>1. PICK b \in Octet :
             /\ Digit6(val, 4) = (b % 4) * 16 + (c \div 16)
             /\ k = 8 * ((pos - 1) - 1) + 6 => Sextet(input, k) = (b % 4) * 16 + (c \div 16)
      BY <1>3, <1>11, <2>3
    <3> QED
      BY <1>3, <1>5, <1>9, <2>3, <3>1
  <2>4. CASE valb = 6
    <3>1. PICK b \in Octet :
             /\ Digit6(val, 6) = (b % 16) * 4 + (c \div 64)
             /\ k = 8 * ((pos - 1) - 1) + 4 => Sextet(input, k) = (b % 16) * 4 + (c \div 64)
      BY <1>3, <1>11, <2>4
    <3> QED
      BY <1>3, <1>5, <1>9, <2>4, <3>1
  <2> QED
    BY <1>3, <2>1, <2>2, <2>3, <2>4
<1> QED
  BY <1>3, <1>5, <1>12

LEMMA EmitKeepsInv ==
    ASSUME Signed, EncodeInv, Emit
    PROVE  EncodeInv'
<1>1. /\ input \in Seq(Octet) /\ Len(input) \in Nat
      /\ pos \in Nat /\ pos <= Len(input)
      /\ out \in Seq(0..64) /\ Len(out) \in Nat
  BY EncodeTypes
<1>2. pc = "digits" /\ MoreDigits /\ UNCHANGED <<input, pos, val>>
  BY DEF Emit
<1>3. IntTypeOK /\ valb \in -6..6
  BY DEF EncodeInv, IntTypeOK
<1>4. CASE Len(out) < MaxOut
  <2> DEFINE d == Digit6(val, valb)
  <2>1. out' = Append(out, d) /\ valb' = valb - 6 /\ pc' = "digits"
    BY <1>2, <1>4 DEF Emit, Modular
  <2>2. /\ valb - 6 \in -6..6 /\ valb - 6 = 8 * pos - 6 * (Len(out) + 1) - 6
        /\ d = Sextet(input, 6 * Len(out)) /\ d \in 0..63
    BY <1>2, NextDigit
  <2> HIDE DEF d
  <2>3. d \in 0..64
    BY <2>2
  <2>4. /\ Append(out, d) \in Seq(0..64) /\ Len(Append(out, d)) = Len(out) + 1
        /\ \A i \in 1..Len(out) : Append(out, d)[i] = out[i]
        /\ Append(out, d)[Len(out) + 1] = d
    BY <1>1, <2>3, Appended
  <2>5. /\ out' \in Seq(0..64) /\ Len(out') = Len(out) + 1
        /\ \A i \in 1..Len(out) : out'[i] = out[i]
        /\ out'[Len(out) + 1] = d
    BY <2>1, <2>4
  <2>6. IntTypeOK'
    BY <1>2, <1>3, <2>1, <2>2, <2>5 DEF IntTypeOK, Pad
  <2>7. ASSUME NEW i \in 1..Len(out') PROVE out'[i] = Sextet(input', 6 * (i - 1))
    <3>1. CASE i \in 1..Len(out)
      BY <1>2, <2>5, <3>1 DEF EncodeInv
    <3>2. CASE i = Len(out) + 1
      <4>1. i - 1 = Len(out)
        BY <1>1, <3>2
      <4> QED
        BY <1>2, <2>2, <2>5, <3>2, <4>1
    <3> QED
      BY <1>1, <2>5, <3>1, <3>2
  <2>8. valb' = 8 * pos' - 6 * Len(out') - 6
    BY <1>2, <2>1, <2>2, <2>5
  <2>9. /\ pos' >= 1 => val' % 256 = input'[pos']
        /\ pos' >= 2 => val' % 4096 = (input'[pos' - 1] % 16) * 256 + input'[pos']
    BY <1>2 DEF EncodeInv
  <2> QED
    BY <2>1, <2>6, <2>7, <2>8, <2>9 DEF EncodeInv
<1>5. CASE ~(Len(out) < MaxOut)
  <2>1. pc' = "threw" /\ UNCHANGED <<input, pos, val, valb, out>>
    BY <1>2, <1>5 DEF Emit
  <2>2. IntTypeOK'
    BY <1>3, <2>1 DEF IntTypeOK
  <2> QED
    BY <1>2, <2>1, <2>2 DEF EncodeInv
<1> QED
  BY <1>4, <1>5

LEMMA NextByteKeepsInv ==
    ASSUME EncodeInv, NextByte
    PROVE  EncodeInv'
<1>1. pc = "digits" /\ pc' = "byte" /\ UNCHANGED <<input, pos, val, valb, out>>
  BY DEF NextByte
<1>2. valb < 0
  BY DEF NextByte, MoreDigits, EncodeInv, IntTypeOK
<1>3. IntTypeOK'
  BY <1>1 DEF EncodeInv, IntTypeOK
<1> QED
  BY <1>1, <1>2, <1>3 DEF EncodeInv

-----------------------------------------------------------------------------
(* The end of the loop: what is left over, the padding, and the whole.     *)

\* How many digits there are.
DigitCount(bytes) == (8 * Len(bytes) + 5) \div 6

\* The digits of a byte string, and what comes behind them.
Symbols(bytes) == {Sextet(bytes, k) : k \in Int} \union {Pad}

LEMMA DigitsAreSymbols ==
    ASSUME NEW bytes \in Seq(Octet)
    PROVE  /\ DigitCount(bytes) \in Nat
           /\ Base64Digits(bytes) \in Seq(Symbols(bytes))
           /\ Len(Base64Digits(bytes)) = DigitCount(bytes)
           /\ \A i \in 1..DigitCount(bytes) :
                 Base64Digits(bytes)[i] = Sextet(bytes, 6 * (i - 1))
<1>1. Len(bytes) \in Nat
  BY LenProperties
<1>2. DigitCount(bytes) \in Nat
  BY <1>1 DEF DigitCount
<1>3. PICK n \in Nat : n = DigitCount(bytes)
  BY <1>2
<1>4. Base64Digits(bytes) = [i \in 1..n |-> Sextet(bytes, 6 * (i - 1))]
  BY <1>3 DEF Base64Digits, DigitCount
<1>5. \A i \in 1..n : Sextet(bytes, 6 * (i - 1)) \in Symbols(bytes)
  <2> TAKE i \in 1..n
  <2>1. 6 * (i - 1) \in Int
    OBVIOUS
  <2> QED
    BY <2>1 DEF Symbols
<1>6. Base64Digits(bytes) \in [1..n -> Symbols(bytes)]
  BY <1>4, <1>5
<1>7. Base64Digits(bytes) \in Seq(Symbols(bytes))
  BY <1>6, SeqDef
<1>8. Len(Base64Digits(bytes)) = n
  BY <1>6, <1>7, LenProperties
<1> QED
  BY <1>2, <1>3, <1>4, <1>7, <1>8

\* The padding.
LEMMA PaddingIsSequence ==
    ASSUME NEW n \in Nat, NEW S, Pad \in S
    PROVE  Pads(n) \in Seq(S)
<1>1. PICK m \in Nat : m = (-n) % 4
  OBVIOUS
<1>2. Pads(n) \in [1..m -> S]
  BY <1>1 DEF Pads
<1> QED
  BY <1>2, SeqDef

LEMMA PaddedDigits ==
    ASSUME NEW bytes \in Seq(Octet)
    PROVE  /\ Base64Of(bytes) = Base64Digits(bytes) \o Pads(DigitCount(bytes))
           /\ Base64Of(bytes) \in Seq(Symbols(bytes))
           /\ DigitCount(bytes) <= Len(Base64Of(bytes))
           /\ \A i \in 1..DigitCount(bytes) : Base64Of(bytes)[i] = Sextet(bytes, 6 * (i - 1))
<1>1. /\ DigitCount(bytes) \in Nat
      /\ Base64Digits(bytes) \in Seq(Symbols(bytes))
      /\ Len(Base64Digits(bytes)) = DigitCount(bytes)
      /\ \A i \in 1..DigitCount(bytes) :
            Base64Digits(bytes)[i] = Sextet(bytes, 6 * (i - 1))
  BY DigitsAreSymbols
<1>2. Base64Of(bytes) = Base64Digits(bytes) \o Pads(DigitCount(bytes))
  BY <1>1 DEF Base64Of, Pads, Pad
<1>3. Pads(DigitCount(bytes)) \in Seq(Symbols(bytes))
  BY <1>1, PaddingIsSequence DEF Symbols
<1>4. Len(Pads(DigitCount(bytes))) \in Nat
  BY <1>3, LenProperties
<1>5. /\ Base64Of(bytes) \in Seq(Symbols(bytes))
      /\ Len(Base64Of(bytes)) = DigitCount(bytes) + Len(Pads(DigitCount(bytes)))
      /\ \A i \in 1..DigitCount(bytes) + Len(Pads(DigitCount(bytes))) :
            Base64Of(bytes)[i] = IF i <= DigitCount(bytes) THEN Base64Digits(bytes)[i]
                                 ELSE Pads(DigitCount(bytes))[i - DigitCount(bytes)]
  <2> DEFINE s1 == Base64Digits(bytes)
             s2 == Pads(DigitCount(bytes))
             S  == Symbols(bytes)
  <2>1. s1 \in Seq(S) /\ s2 \in Seq(S) /\ Len(s1) = DigitCount(bytes)
    BY <1>1, <1>3
  <2> HIDE DEF s1, s2, S
  <2>2. /\ s1 \o s2 \in Seq(S)
        /\ Len(s1 \o s2) = Len(s1) + Len(s2)
        /\ \A i \in 1..Len(s1) + Len(s2) :
              (s1 \o s2)[i] = IF i <= Len(s1) THEN s1[i] ELSE s2[i - Len(s1)]
    BY <2>1, ConcatProperties
  <2> QED
    BY <1>2, <2>1, <2>2 DEF s1, s2, S
<1> QED
  BY <1>1, <1>2, <1>4, <1>5

\* All the digits, with the padding, are the encoding.
LEMMA AllDigits ==
    ASSUME NEW bytes \in Seq(Octet), NEW s \in Seq(0..64), Len(s) = DigitCount(bytes),
           \A i \in 1..Len(s) : s[i] = Sextet(bytes, 6 * (i - 1))
    PROVE  s \o Pads(Len(s)) = Base64Of(bytes) /\ s \o Pads(Len(s)) \in Seq(0..Pad)
<1>1. /\ DigitCount(bytes) \in Nat
      /\ Base64Digits(bytes) \in Seq(Symbols(bytes))
      /\ Len(Base64Digits(bytes)) = DigitCount(bytes)
      /\ \A i \in 1..DigitCount(bytes) :
            Base64Digits(bytes)[i] = Sextet(bytes, 6 * (i - 1))
  BY DigitsAreSymbols
<1>2. s = Base64Digits(bytes)
  <2> DEFINE S == Symbols(bytes) \union (0..64)
  <2>1. s \in Seq(S) /\ Base64Digits(bytes) \in Seq(S)
    BY <1>1, SeqMonotonic
  <2> QED
    BY <1>1, <2>1, SeqEqual
<1>3. s \o Pads(Len(s)) = Base64Of(bytes)
  BY <1>1, <1>2, PaddedDigits
<1>4. Pads(Len(s)) \in Seq(0..64)
  BY <1>1, PaddingIsSequence DEF Pad
<1> QED
  BY <1>3, <1>4, ConcatProperties DEF Pad

\* How many digits there are when all bytes have been taken.
LEMMA DigitsAtEnd ==
    ASSUME NEW l \in Nat, NEW n \in Nat, NEW v \in Int, Left(l, n, v)
    PROVE  /\ v = -6 => n = (8 * l + 5) \div 6
           /\ v = -4 \/ v = -2 => n + 1 = (8 * l + 5) \div 6
           /\ \A k \in Nat : k >= l => n <= (8 * k + 5) \div 6
BY DEF Left

\* What is left over: two or four bits, or none.
LEMMA LastDigit ==
    ASSUME EncodeInv, pc = "byte", pos = Len(input), valb > -6
    PROVE  /\ Len(out) + 1 = DigitCount(input)
           /\ Digit6(val * 256, valb + 8) = Sextet(input, 6 * Len(out))
           /\ Digit6(val * 256, valb + 8) \in 0..63
<1>1. /\ input \in Seq(Octet) /\ Len(input) \in Nat
      /\ pos \in Nat /\ val \in Nat /\ Len(out) \in Nat
      /\ pos >= 1 => pos \in 1..Len(input) /\ input[pos] \in Octet
  BY EncodeTypes
<1>2. valb = 8 * pos - 6 * Len(out) - 6 /\ valb < 0 /\ valb \in -6..6
  BY DEF EncodeInv, IntTypeOK
<1>3. Left(pos, Len(out), valb) /\ valb \in Int
  BY <1>2 DEF Left
<1>4. /\ valb \in {-4, -2} /\ pos >= 1
      /\ valb = -4 => 6 * Len(out) = 8 * (pos - 1) + 6
      /\ valb = -2 => 6 * Len(out) = 8 * (pos - 1) + 4
  <2>1. pos \in Nat /\ Len(out) \in Nat /\ valb \in Int /\ valb < 0 /\ valb > -6
    BY <1>1, <1>2, <1>3
  <2> QED
    BY ONLY <1>3, <2>1, BitsLeft
<1>5. Len(out) + 1 = DigitCount(input)
  BY <1>1, <1>3, <1>4, DigitsAtEnd DEF DigitCount
<1>6. pos \in 1..Len(input) /\ input[pos] \in Octet /\ val % 256 = input[pos]
  BY <1>1, <1>4 DEF EncodeInv
<1>7. PICK k \in Int : k = 6 * Len(out)
  BY <1>1
<1>8. PICK c \in Octet : c = input[pos]
  BY <1>6
<1>9. Digit6(val * 256, 4) = (c % 4) * 16 /\ Digit6(val * 256, 6) = (c % 16) * 4
  <2>1. val \in Nat /\ c \in Octet /\ val % 256 = c
    BY <1>1, <1>6, <1>8
  <2>2. DigitsAre(val, c)
    BY ONLY <2>1, DigitsOfVal
  <2> QED
    BY ONLY <2>2 DEF DigitsAre
<1>10. /\ k = 8 * (pos - 1) + 4 => Sextet(input, k) = (c % 16) * 4
       /\ k = 8 * (pos - 1) + 6 => Sextet(input, k) = (c % 4) * 16
  <2>1. input \in Seq(Octet) /\ pos \in 1..Len(input) /\ pos = Len(input)
    BY <1>1, <1>6
  <2> QED
    BY <1>8, <2>1, DigitOfLastByte
<1>11. (c % 4) * 16 \in 0..63 /\ (c % 16) * 4 \in 0..63
  BY DigitRanges
<1>12. Digit6(val * 256, valb + 8) = Sextet(input, k) /\ Digit6(val * 256, valb + 8) \in 0..63
  <2>1. CASE valb = -4
    <3>1. valb + 8 = 4
      BY <2>1
    <3> QED
      BY <1>4, <1>7, <1>9, <1>10, <1>11, <2>1, <3>1
  <2>2. CASE valb = -2
    <3>1. valb + 8 = 6
      BY <2>2
    <3> QED
      BY <1>4, <1>7, <1>9, <1>10, <1>11, <2>2, <3>1
  <2> QED
    BY <1>4, <2>1, <2>2
<1> QED
  BY <1>5, <1>7, <1>12

LEMMA TailKeepsInv ==
    ASSUME Signed, EncodeInv, Tail6
    PROVE  EncodeInv'
<1>1. /\ input \in Seq(Octet) /\ Len(input) \in Nat
      /\ pos \in Nat
      /\ out \in Seq(0..64) /\ Len(out) \in Nat
  BY EncodeTypes
<1>2. /\ pc = "byte" /\ pos = Len(input) /\ pc' = "done"
      /\ UNCHANGED <<input, pos, val, valb>>
  BY DEF Tail6
<1>3. /\ IntTypeOK /\ valb = 8 * pos - 6 * Len(out) - 6 /\ valb \in -6..6
      /\ \A i \in 1..Len(out) : out[i] = Sextet(input, 6 * (i - 1))
  BY <1>2 DEF EncodeInv, IntTypeOK
<1>4. PICK digits \in Seq(0..64) :
         /\ out' = digits \o Pads(Len(digits))
         /\ Len(digits) = DigitCount(input)
         /\ \A i \in 1..Len(digits) : digits[i] = Sextet(input, 6 * (i - 1))
  <2>1. CASE valb > -6
    <3> DEFINE d == Digit6(val * 256, valb + 8)
    <3>1. out' = Append(out, d) \o Pads(Len(Append(out, d)))
      BY <2>1 DEF Tail6, Modular
    <3>2. /\ Len(out) + 1 = DigitCount(input)
          /\ d = Sextet(input, 6 * Len(out)) /\ d \in 0..63
      BY <1>2, <2>1, LastDigit
    <3> HIDE DEF d
    <3>3. d \in 0..64
      BY <3>2
    <3>4. /\ Append(out, d) \in Seq(0..64) /\ Len(Append(out, d)) = Len(out) + 1
          /\ \A i \in 1..Len(out) : Append(out, d)[i] = out[i]
          /\ Append(out, d)[Len(out) + 1] = d
      BY <1>1, <3>3, Appended
    <3>5. ASSUME NEW i \in 1..Len(Append(out, d))
          PROVE  Append(out, d)[i] = Sextet(input, 6 * (i - 1))
      <4>1. CASE i \in 1..Len(out)
        BY <1>3, <3>4, <4>1
      <4>2. CASE i = Len(out) + 1
        <5>1. i - 1 = Len(out)
          BY <1>1, <4>2
        <5> QED
          BY <3>2, <3>4, <4>2, <5>1
      <4> QED
        BY <1>1, <3>4, <4>1, <4>2
    <3> QED
      BY <3>1, <3>2, <3>4, <3>5
  <2>2. CASE valb = -6
    <3>1. out' = out \o Pads(Len(out))
      BY <2>2 DEF Tail6, Modular
    <3>2. Len(out) = DigitCount(input)
      <4>1. Left(pos, Len(out), valb) /\ valb \in Int
        BY <1>3 DEF Left
      <4> QED
        BY <1>1, <1>2, <2>2, <4>1, DigitsAtEnd DEF DigitCount
    <3> QED
      BY <1>1, <1>3, <3>1, <3>2
  <2>3. valb > -6 \/ valb = -6
    BY <1>3
  <2> QED
    BY ONLY <2>1, <2>2, <2>3, Zenon
<1>5. out' = Base64Of(input) /\ out' \in Seq(0..Pad)
  BY <1>1, <1>4, AllDigits
<1>6. IntTypeOK'
  BY <1>2, <1>3, <1>5 DEF IntTypeOK
<1> QED
  BY <1>2, <1>5, <1>6 DEF EncodeInv

\* So the digits so far are the beginning of the encoding, and it is complete in the end.
LEMMA InvIsBase64 ==
    ASSUME EncodeInv
    PROVE  IsBase64
<1>1. /\ input \in Seq(Octet) /\ Len(input) \in Nat
      /\ pos \in Nat /\ pos <= Len(input)
      /\ out \in Seq(0..64) /\ Len(out) \in Nat
  BY EncodeTypes
<1>2. /\ DigitCount(input) \in Nat
      /\ Base64Of(input) \in Seq(Symbols(input))
      /\ DigitCount(input) <= Len(Base64Of(input))
      /\ \A i \in 1..DigitCount(input) : Base64Of(input)[i] = Sextet(input, 6 * (i - 1))
  BY <1>1, DigitsAreSymbols, PaddedDigits
<1>3. Len(Base64Of(input)) \in Nat
  BY <1>2, LenProperties
<1>4. CASE pc = "done"
  <2>1. out = Base64Of(input)
    BY <1>4 DEF EncodeInv
  <2> QED
    BY <1>1, <2>1 DEF EncodeInv, IsBase64, IsPrefix
<1>5. CASE pc # "done"
  <2>1. /\ Left(pos, Len(out), valb) /\ valb \in Int
        /\ \A i \in 1..Len(out) : out[i] = Sextet(input, 6 * (i - 1))
    BY <1>5 DEF EncodeInv, IntTypeOK, Left
  <2>2. Len(out) <= DigitCount(input)
    BY <1>1, <2>1, DigitsAtEnd DEF DigitCount
  <2>3. Len(out) <= Len(Base64Of(input))
    BY <1>1, <1>2, <1>3, <2>2
  <2>4. \A i \in 1..Len(out) : out[i] = Base64Of(input)[i]
    BY <1>1, <1>2, <2>1, <2>2
  <2>5. SubSeq(out, 1, Len(out)) = SubSeq(Base64Of(input), 1, Len(out))
    <3>1. \A i \in 1..Len(out) : out[i] \in 0..64 /\ Base64Of(input)[i] \in 0..64
      BY <1>1, <2>4, ElementOfSeq
    <3>2. PICK n \in Nat : n = Len(out)
      BY <1>1
    <3>3. /\ SubSeq(out, 1, n) \in Seq(0..64)
          /\ Len(SubSeq(out, 1, n)) = IF 1 <= n THEN n - 1 + 1 ELSE 0
          /\ \A i \in 1..(n - 1 + 1) : SubSeq(out, 1, n)[i] = out[1 + i - 1]
      BY <3>1, <3>2, SubSeqProperties
    <3>4. /\ SubSeq(Base64Of(input), 1, n) \in Seq(0..64)
          /\ Len(SubSeq(Base64Of(input), 1, n)) = IF 1 <= n THEN n - 1 + 1 ELSE 0
          /\ \A i \in 1..(n - 1 + 1) : SubSeq(Base64Of(input), 1, n)[i] = Base64Of(input)[1 + i - 1]
      BY <3>1, <3>2, SubSeqProperties
    <3>5. /\ Len(SubSeq(out, 1, n)) = n /\ Len(SubSeq(Base64Of(input), 1, n)) = n
          /\ \A i \in 1..n : /\ SubSeq(out, 1, n)[i] = out[i]
                             /\ SubSeq(Base64Of(input), 1, n)[i] = Base64Of(input)[i]
      BY <3>3, <3>4
    <3>6. SubSeq(out, 1, n) = SubSeq(Base64Of(input), 1, n)
      BY <2>4, <3>2, <3>3, <3>4, <3>5, SeqEqual
    <3> QED
      BY <3>2, <3>6
  <2> QED
    BY <1>5, <2>3, <2>5 DEF EncodeInv, IsBase64, IsPrefix
<1> QED
  BY <1>4, <1>5

\* The version with int keeps the digits so far, whatever the input.
THEOREM EncoderInvariant ==
    ASSUME Signed
    PROVE  EncodeSpec => []EncodeInv
<1>1. EncodeInit => EncodeInv
  BY EncodeInitInv
<1>2. EncodeInv /\ [EncodeNext]_encoder => EncodeInv'
  <2> SUFFICES ASSUME EncodeInv, [EncodeNext]_encoder
               PROVE  EncodeInv'
    OBVIOUS
  <2>1. CASE Byte
    BY <2>1, ByteKeepsInv
  <2>2. CASE Emit
    BY <2>2, EmitKeepsInv
  <2>3. CASE NextByte
    BY <2>3, NextByteKeepsInv
  <2>4. CASE Tail6
    BY <2>4, TailKeepsInv
  <2>5. CASE UNCHANGED encoder
    BY <2>5 DEF encoder, EncodeInv, IntTypeOK
  <2> QED
    BY <2>1, <2>2, <2>3, <2>4, <2>5 DEF EncodeNext
<1> QED
  BY <1>1, <1>2, PTL DEF EncodeSpec

\* The base64 loop with int (jwt.hpp, b64url_encode) computes Base64: at every turn what
\* it has put out is the beginning of the encoding of RFC 4648, and in the end all of it.
THEOREM EncoderIsBase64 ==
    ASSUME Signed
    PROVE  EncodeSpec => []IsBase64
<1>1. EncodeInv => IsBase64
  BY InvIsBase64
<1> QED
  BY <1>1, EncoderInvariant, PTL

-----------------------------------------------------------------------------
(* base64url: what the decoder appends is what the encoder has dropped,    *)
(* and three bytes of a group are those that its four digits were cut from.*)

\* Two bits that begin at an even place, inside the string or behind it.
LEMMA PairRange ==
    ASSUME NEW bytes \in Seq(Octet), NEW k \in Nat, k % 2 = 0
    PROVE  Pair(bytes, k) \in 0..3
<1>1. Len(bytes) \in Nat
  BY LenProperties
<1>2. CASE k >= 8 * Len(bytes)
  BY <1>2, PairsBeyond
<1>3. CASE k < 8 * Len(bytes)
  <2>1. PICK p \in 1..Len(bytes) : p = (k \div 8) + 1
    BY <1>1, <1>3
  <2>2. PICK a \in Int : a = 8 * (p - 1)
    BY <2>1
  <2>3. PICK b \in Octet : b = bytes[p]
    BY ElementOfSeq
  <2>4. /\ Pair(bytes, a) = b \div 64 /\ Pair(bytes, a + 2) = (b \div 16) % 4
        /\ Pair(bytes, a + 4) = (b \div 4) % 4 /\ Pair(bytes, a + 6) = b % 4
    BY <2>2, <2>3, PairsOfByte
  <2>5. /\ b \div 64 \in 0..3 /\ (b \div 16) % 4 \in 0..3
        /\ (b \div 4) % 4 \in 0..3 /\ b % 4 \in 0..3
    BY DEF Octet
  <2>6. k = a \/ k = a + 2 \/ k = a + 4 \/ k = a + 6
    BY <2>1, <2>2
  <2> QED
    BY ONLY <2>4, <2>5, <2>6
<1> QED
  BY <1>1, <1>2, <1>3

LEMMA SextetRange ==
    ASSUME NEW bytes \in Seq(Octet), NEW k \in Nat, k % 2 = 0
    PROVE  Sextet(bytes, k) \in 0..63
<1>1. /\ k + 2 \in Nat /\ k + 4 \in Nat
      /\ (k + 2) % 2 = 0 /\ (k + 4) % 2 = 0
  OBVIOUS
<1>2. /\ Pair(bytes, k) \in 0..3 /\ Pair(bytes, k + 2) \in 0..3
      /\ Pair(bytes, k + 4) \in 0..3
  BY <1>1, PairRange
<1>3. PICK x \in 0..3, y \in 0..3, z \in 0..3 :
         x = Pair(bytes, k) /\ y = Pair(bytes, k + 2) /\ z = Pair(bytes, k + 4)
  BY <1>2
<1>4. 16 * x + 4 * y + z \in 0..63
  OBVIOUS
<1> QED
  BY ONLY <1>3, <1>4, Zenon DEF Sextet

\* What of two bytes in a digit is of the one, and of the other.
LEMMA TwoBytesInDigit ==
    ASSUME NEW b \in Octet, NEW c \in Octet
    PROVE  /\ ((b % 4) * 16 + (c \div 16)) \div 16 = b % 4
           /\ ((b % 4) * 16 + (c \div 16)) % 16 = c \div 16
           /\ ((b % 16) * 4 + (c \div 64)) \div 4 = b % 16
           /\ ((b % 16) * 4 + (c \div 64)) % 4 = c \div 64
<1>1. PICK x \in 0..3 : x = b % 4
  BY DEF Octet
<1>2. PICK y \in 0..15 : y = b % 16
  BY DEF Octet
<1>3. PICK z \in 0..15 : z = c \div 16
  BY DEF Octet
<1>4. PICK w \in 0..3 : w = c \div 64
  BY DEF Octet
<1>5. (x * 16 + z) \div 16 = x /\ (x * 16 + z) % 16 = z
  OBVIOUS
<1>6. (y * 4 + w) \div 4 = y /\ (y * 4 + w) % 4 = w
  OBVIOUS
<1> QED
  BY ONLY <1>1, <1>2, <1>3, <1>4, <1>5, <1>6, Zenon

\* The digits that have bits of the i-th byte, which the j-th place of group q has.
LEMMA ByteOfDigits ==
    ASSUME NEW bytes \in Seq(Octet), NEW i \in 1..Len(bytes), NEW q \in Nat,
           NEW b \in Octet, b = bytes[i]
    PROVE  /\ i = 3 * q + 1 => /\ Sextet(bytes, 24 * q) = b \div 4
                               /\ Sextet(bytes, 24 * q + 6) \div 16 = b % 4
           /\ i = 3 * q + 2 => /\ Sextet(bytes, 24 * q + 6) % 16 = b \div 16
                               /\ Sextet(bytes, 24 * q + 12) \div 4 = b % 16
           /\ i = 3 * q + 3 => /\ Sextet(bytes, 24 * q + 12) % 4 = b \div 64
                               /\ Sextet(bytes, 24 * q + 18) = b % 64
<1>0. i \in Nat /\ Len(bytes) \in Nat /\ i >= 1 /\ i <= Len(bytes)
  BY LenProperties
\* The digit that ends in the byte behind, if there is one.
<1>1. \E c \in Octet :
         /\ \A k \in Int : k = 8 * (i - 1) + 4 => Sextet(bytes, k) = (b % 16) * 4 + (c \div 64)
         /\ \A k \in Int : k = 8 * (i - 1) + 6 => Sextet(bytes, k) = (b % 4) * 16 + (c \div 16)
  <2>1. CASE i = Len(bytes)
    <3>1. 0 \in Octet /\ 0 \div 64 = 0 /\ 0 \div 16 = 0
      BY DEF Octet
    <3>2. ASSUME NEW k \in Int
          PROVE  /\ k = 8 * (i - 1) + 4 => Sextet(bytes, k) = (b % 16) * 4
                 /\ k = 8 * (i - 1) + 6 => Sextet(bytes, k) = (b % 4) * 16
      BY <2>1, DigitOfLastByte
    <3>3. (b % 16) * 4 = (b % 16) * 4 + (0 \div 64) /\ (b % 4) * 16 = (b % 4) * 16 + (0 \div 16)
      BY <3>1 DEF Octet
    <3> QED
      BY <3>1, <3>2, <3>3
  <2>2. CASE i < Len(bytes)
    <3>1. PICK r \in 1..Len(bytes) : r = i + 1
      BY <1>0, <2>2
    <3>2. PICK c \in Octet : c = bytes[r]
      BY ElementOfSeq
    <3>3. ASSUME NEW k \in Int
          PROVE  /\ k = 8 * (i - 1) + 4 => Sextet(bytes, k) = (b % 16) * 4 + (c \div 64)
                 /\ k = 8 * (i - 1) + 6 => Sextet(bytes, k) = (b % 4) * 16 + (c \div 16)
      BY <3>1, <3>2, DigitOfTwoBytes
    <3> QED
      BY <3>3
  <2> QED
    BY <1>0, <2>1, <2>2
<1>2. PICK c \in Octet :
         /\ \A k \in Int : k = 8 * (i - 1) + 4 => Sextet(bytes, k) = (b % 16) * 4 + (c \div 64)
         /\ \A k \in Int : k = 8 * (i - 1) + 6 => Sextet(bytes, k) = (b % 4) * 16 + (c \div 16)
  BY <1>1
<1>3. /\ ((b % 4) * 16 + (c \div 16)) \div 16 = b % 4
      /\ ((b % 16) * 4 + (c \div 64)) \div 4 = b % 16
  BY TwoBytesInDigit
<1>4. ASSUME NEW k \in Int
      PROVE  /\ k = 8 * (i - 1) => Sextet(bytes, k) = b \div 4
             /\ k = 8 * (i - 1) + 2 => Sextet(bytes, k) = b % 64
  BY DigitOfOneByte
<1>5. CASE i = 3 * q + 1
  <2>1. PICK k \in Int : k = 24 * q /\ k = 8 * (i - 1)
    BY <1>5
  <2>2. PICK l \in Int : l = 24 * q + 6 /\ l = 8 * (i - 1) + 6
    BY <1>5
  <2>3. Sextet(bytes, k) = b \div 4 /\ Sextet(bytes, l) \div 16 = b % 4
    BY <1>2, <1>3, <1>4, <2>1, <2>2
  <2> QED
    BY <1>0, <1>5, <2>1, <2>2, <2>3
<1>6. ASSUME i # 1
      PROVE  \E a \in Octet :
         /\ \A k \in Int : k = 8 * ((i - 1) - 1) + 4 => Sextet(bytes, k) = (a % 16) * 4 + (b \div 64)
         /\ \A k \in Int : k = 8 * ((i - 1) - 1) + 6 => Sextet(bytes, k) = (a % 4) * 16 + (b \div 16)
  <2>1. PICK r \in 1..Len(bytes) : r = i - 1 /\ i = r + 1
    BY <1>0, <1>6
  <2>2. PICK a \in Octet : a = bytes[r]
    BY ElementOfSeq
  <2>3. ASSUME NEW k \in Int
        PROVE  /\ k = 8 * (r - 1) + 4 => Sextet(bytes, k) = (a % 16) * 4 + (b \div 64)
               /\ k = 8 * (r - 1) + 6 => Sextet(bytes, k) = (a % 4) * 16 + (b \div 16)
    BY <2>1, <2>2, DigitOfTwoBytes
  <2> QED
    BY <2>1, <2>3
<1>7. \A a \in Octet : /\ ((a % 4) * 16 + (b \div 16)) % 16 = b \div 16
                       /\ ((a % 16) * 4 + (b \div 64)) % 4 = b \div 64
  BY TwoBytesInDigit
<1>8. CASE i = 3 * q + 2
  <2>1. PICK k \in Int : k = 24 * q + 6 /\ k = 8 * ((i - 1) - 1) + 6
    BY <1>8
  <2>2. PICK l \in Int : l = 24 * q + 12 /\ l = 8 * (i - 1) + 4
    BY <1>8
  <2>3. Sextet(bytes, k) % 16 = b \div 16
    <3>1. i # 1
      BY <1>8
    <3> QED
      BY <1>6, <1>7, <2>1, <3>1
  <2>4. Sextet(bytes, l) \div 4 = b % 16
    BY <1>2, <1>3, <2>2
  <2> QED
    BY <1>0, <1>8, <2>1, <2>2, <2>3, <2>4
<1>9. CASE i = 3 * q + 3
  <2>1. PICK k \in Int : k = 24 * q + 12 /\ k = 8 * ((i - 1) - 1) + 4
    BY <1>9
  <2>2. PICK l \in Int : l = 24 * q + 18 /\ l = 8 * (i - 1) + 2
    BY <1>9
  <2>3. Sextet(bytes, k) % 4 = b \div 64
    <3>1. i # 1
      BY <1>9
    <3> QED
      BY <1>6, <1>7, <2>1, <3>1
  <2>4. Sextet(bytes, l) = b % 64
    BY <1>4, <2>2
  <2> QED
    BY <1>0, <1>9, <2>1, <2>2, <2>3, <2>4
<1> QED
  BY <1>5, <1>8, <1>9

LEMMA DigitIsNoPad == \A x \in 0..63 : x # Pad
BY DEF Pad

\* The encoding as the decoder sees it: digits below 64, and the padding.
Places(bytes, s, n, p) ==
    /\ n = (8 * Len(bytes) + 5) \div 6 /\ p = (-n) % 4
    /\ s \in Seq(Symbols(bytes)) /\ Len(s) = n + p
    /\ \A i \in 1..n : s[i] = Sextet(bytes, 6 * (i - 1)) /\ s[i] \in 0..63
    /\ \A i \in (n + 1)..(n + p) : s[i] = Pad
    /\ Base64Digits(bytes) \in Seq(Symbols(bytes)) /\ Len(Base64Digits(bytes)) = n
    /\ \A i \in 1..n : Base64Digits(bytes)[i] = s[i]

LEMMA EncodedPlaces ==
    ASSUME NEW bytes \in Seq(Octet), NEW s, s = Base64Of(bytes)
    PROVE  \E n, p \in Nat : Places(bytes, s, n, p)
<1>1. Len(bytes) \in Nat
  BY LenProperties
<1>2. PICK n \in Nat : n = (8 * Len(bytes) + 5) \div 6
  BY <1>1
<1>3. PICK p \in Nat : p = (-n) % 4
  OBVIOUS
<1>4. n = DigitCount(bytes)
  BY <1>2 DEF DigitCount
<1>5. /\ Base64Digits(bytes) \in Seq(Symbols(bytes)) /\ Len(Base64Digits(bytes)) = n
      /\ \A i \in 1..n : Base64Digits(bytes)[i] = Sextet(bytes, 6 * (i - 1))
  BY <1>4, DigitsAreSymbols
<1>6. /\ s = Base64Digits(bytes) \o Pads(n) /\ s \in Seq(Symbols(bytes))
      /\ \A i \in 1..n : s[i] = Sextet(bytes, 6 * (i - 1))
  BY <1>4, PaddedDigits
<1>7. Pads(n) \in Seq({Pad}) /\ Len(Pads(n)) = p
  <2>1. Pads(n) \in [1..p -> {Pad}]
    BY <1>3 DEF Pads
  <2>2. Pads(n) \in Seq({Pad})
    BY <2>1, SeqDef
  <2> QED
    BY <2>1, <2>2, LenProperties
<1>8. ASSUME NEW i \in 1..n PROVE s[i] \in 0..63
  <2>1. PICK k \in Nat : k = 6 * (i - 1) /\ k % 2 = 0
    OBVIOUS
  <2>2. Sextet(bytes, k) \in 0..63
    BY <2>1, SextetRange
  <2> QED
    BY ONLY <1>6, <2>1, <2>2, i \in 1..n
<1>9. /\ Len(s) = n + p
      /\ \A i \in 1..n + p :
            s[i] = IF i <= n THEN Base64Digits(bytes)[i] ELSE Pads(n)[i - n]
  <2> DEFINE s1 == Base64Digits(bytes)
             s2 == Pads(n)
             S  == Symbols(bytes)
  <2>1. s1 \in Seq(S) /\ s2 \in Seq(S) /\ Len(s1) = n /\ Len(s2) = p
    BY <1>5, <1>7, SeqMonotonic DEF Symbols
  <2> HIDE DEF s1, s2, S
  <2>2. /\ Len(s1 \o s2) = Len(s1) + Len(s2)
        /\ \A i \in 1..Len(s1) + Len(s2) :
              (s1 \o s2)[i] = IF i <= Len(s1) THEN s1[i] ELSE s2[i - Len(s1)]
    BY <2>1, ConcatProperties
  <2> QED
    BY <1>6, <2>1, <2>2 DEF s1, s2
<1>10. ASSUME NEW i \in (n + 1)..(n + p) PROVE s[i] = Pad
  <2>1. i \in 1..n + p /\ ~(i <= n) /\ i - n \in 1..Len(Pads(n))
    BY <1>7
  <2>2. Pads(n)[i - n] \in {Pad}
    BY <1>7, <2>1, ElementOfSeq
  <2> QED
    BY <1>9, <2>1, <2>2
<1> QED
  BY <1>2, <1>3, <1>5, <1>6, <1>8, <1>9, <1>10 DEF Places

\* The end of a sequence whose last elements are dropped.
LEMMA MaxOfPrefix ==
    ASSUME NEW n \in Nat
    PROVE  Max({0} \cup 1..n) = n
<1>1. n \in {0} \cup 1..n /\ \A y \in {0} \cup 1..n : n >= y
  OBVIOUS
<1>2. \A x \in {0} \cup 1..n : (\A y \in {0} \cup 1..n : x >= y) => x = n
  OBVIOUS
<1> QED
  BY <1>1, <1>2 DEF Max

\* What is kept of the encoding are its digits.
LEMMA PaddingDropped ==
    ASSUME NEW bytes \in Seq(Octet), NEW s, s = Base64Of(bytes)
    PROVE  /\ SubSeq(s, 1, Max({0} \cup {i \in 1..Len(s) : s[i] # Pad})) = Base64Digits(bytes)
           /\ Pad \notin ToSet(Base64Digits(bytes))
<1>0. PICK n, p \in Nat : Places(bytes, s, n, p)
  BY EncodedPlaces
<1>1. /\ s \in Seq(Symbols(bytes)) /\ Len(s) = n + p
      /\ \A i \in 1..n : s[i] \in 0..63
      /\ \A i \in (n + 1)..(n + p) : s[i] = Pad
      /\ Base64Digits(bytes) \in Seq(Symbols(bytes)) /\ Len(Base64Digits(bytes)) = n
      /\ \A i \in 1..n : Base64Digits(bytes)[i] = s[i]
  BY <1>0 DEF Places
<1>2. \A i \in 1..n : s[i] # Pad
  <2> TAKE i \in 1..n
  <2>1. s[i] \in 0..63
    BY <1>1
  <2> QED
    BY <2>1, DigitIsNoPad, Zenon
<1>3. {i \in 1..Len(s) : s[i] # Pad} = 1..n
  <2>1. \A i \in 1..(n + p) : i \in 1..n \/ i \in (n + 1)..(n + p)
    OBVIOUS
  <2>2. 1..n \subseteq 1..(n + p)
    OBVIOUS
  <2> QED
    BY <1>1, <1>2, <2>1, <2>2
<1>4. Max({0} \cup {i \in 1..Len(s) : s[i] # Pad}) = n
  BY <1>3, MaxOfPrefix
<1>5. SubSeq(s, 1, n) = Base64Digits(bytes)
  <2> DEFINE S == Symbols(bytes)
             d == Base64Digits(bytes)
  <2>1. \A i \in 1..n : s[i] \in S
    <3>1. 1..n \subseteq 1..Len(s)
      BY <1>1
    <3> QED
      BY <1>1, <3>1, ElementOfSeq
  <2>2. d \in Seq(S) /\ Len(d) = n /\ \A i \in 1..n : d[i] = s[i]
    BY <1>1
  <2> HIDE DEF S, d
  <2>3. /\ SubSeq(s, 1, n) \in Seq(S)
        /\ Len(SubSeq(s, 1, n)) = IF 1 <= n THEN n - 1 + 1 ELSE 0
        /\ \A i \in 1..(n - 1 + 1) : SubSeq(s, 1, n)[i] = s[1 + i - 1]
    BY <2>1, SubSeqProperties
  <2>4. Len(SubSeq(s, 1, n)) = n /\ \A i \in 1..n : SubSeq(s, 1, n)[i] = s[i]
    BY <2>3
  <2>5. SubSeq(s, 1, n) = d
    BY <2>2, <2>3, <2>4, SeqEqual
  <2> QED
    BY <2>5 DEF d
<1>6. Pad \notin ToSet(Base64Digits(bytes))
  <2>1. DOMAIN Base64Digits(bytes) = 1..n
    BY <1>1, LenProperties
  <2> QED
    BY <1>1, <1>2, <2>1 DEF ToSet
<1> QED
  BY <1>4, <1>5, <1>6

\* The sizes of bytes, digits and padding, by groups.
LEMMA SizesOfGroups ==
    ASSUME NEW l \in Nat, NEW n \in Nat, NEW p \in Nat,
           n = (8 * l + 5) \div 6, p = (-n) % 4
    PROVE  3 * ((n + p) \div 4) - p = l
<1>1. PICK q \in Nat, r \in 0..2 : l = 3 * q + r
  <2>1. l = 3 * (l \div 3) + (l % 3) /\ l \div 3 \in Nat /\ l % 3 \in 0..2
    OBVIOUS
  <2> QED
    BY <2>1
<1>2. CASE r = 0
  <2>1. n = 4 * q
    BY <1>1, <1>2
  <2> QED
    BY <1>1, <1>2, <2>1
<1>3. CASE r = 1
  <2>1. n = 4 * q + 2
    BY <1>1, <1>3
  <2> QED
    BY <1>1, <1>3, <2>1
<1>4. CASE r = 2
  <2>1. n = 4 * q + 3
    BY <1>1, <1>4
  <2> QED
    BY <1>1, <1>4, <2>1
<1> QED
  BY <1>2, <1>3, <1>4

\* A byte put together from the digits that have its bits.
LEMMA ByteOfGroup ==
    ASSUME NEW b \in Octet, NEW c
    PROVE  /\ (c[1] = b \div 4 /\ c[2] \in 0..63 /\ c[2] \div 16 = b % 4) => Group(c)[1] = b
           /\ (/\ c[2] \in 0..63 /\ c[2] % 16 = b \div 16
               /\ c[3] \in 0..63 /\ c[3] \div 4 = b % 16) => Group(c)[2] = b
           /\ (c[3] \in 0..63 /\ c[3] % 4 = b \div 64 /\ c[4] = b % 64) => Group(c)[3] = b
<1>1. /\ Group(c)[1] = (c[1] % 64) * 4 + ((c[2] % 64) \div 16)
      /\ Group(c)[2] = ((c[2] % 64) % 16) * 16 + ((c[3] % 64) \div 4)
      /\ Group(c)[3] = ((c[3] % 64) % 4) * 64 + (c[4] % 64)
  BY DEF Group
<1>2. ASSUME NEW x \in 0..63 PROVE x % 64 = x
  OBVIOUS
<1>3. b \div 4 \in 0..63 /\ b % 64 \in 0..63
  BY DEF Octet
<1>4. /\ (b \div 4) * 4 + (b % 4) = b
      /\ (b \div 16) * 16 + (b % 16) = b
      /\ (b \div 64) * 64 + (b % 64) = b
  BY DEF Octet
<1>5. ASSUME c[1] = b \div 4, c[2] \in 0..63, c[2] \div 16 = b % 4
      PROVE  Group(c)[1] = b
  <2>1. c[1] % 64 = b \div 4 /\ c[2] % 64 = c[2]
    BY <1>2, <1>3, <1>5
  <2> QED
    BY ONLY <1>1, <1>4, <1>5, <2>1
<1>6. ASSUME c[2] \in 0..63, c[2] % 16 = b \div 16, c[3] \in 0..63, c[3] \div 4 = b % 16
      PROVE  Group(c)[2] = b
  <2>1. c[2] % 64 = c[2] /\ c[3] % 64 = c[3]
    BY <1>2, <1>6
  <2> QED
    BY ONLY <1>1, <1>4, <1>6, <2>1
<1>7. ASSUME c[3] \in 0..63, c[3] % 4 = b \div 64, c[4] = b % 64
      PROVE  Group(c)[3] = b
  <2>1. c[4] % 64 = b % 64 /\ c[3] % 64 = c[3]
    BY <1>2, <1>3, <1>7
  <2> QED
    BY ONLY <1>1, <1>4, <1>7, <2>1
<1> QED
  BY <1>5, <1>6, <1>7

\* The decoder of OpenSSL reads it back.
LEMMA DecodedBytes ==
    ASSUME NEW bytes \in Seq(Octet), NEW s, s = Base64Of(bytes)
    PROVE  BioRead(s) = bytes
<1>1. PICK n, p \in Nat : Places(bytes, s, n, p)
  BY EncodedPlaces
<1>2. PICK l \in Nat : l = Len(bytes)
  BY LenProperties
<1>3. n = (8 * l + 5) \div 6 /\ p = (-n) % 4 /\ Len(s) = n + p
  BY <1>1, <1>2 DEF Places
<1>4. \A i \in 1..n : s[i] = Sextet(bytes, 6 * (i - 1)) /\ s[i] \in 0..63
  BY <1>1 DEF Places
<1>5. Cardinality({i \in 1..Len(s) : s[i] = Pad}) = p
  <2>1. ASSUME NEW i \in 1..n PROVE s[i] # Pad
    <3>1. s[i] \in 0..63
      BY <1>4
    <3> QED
      BY <3>1, DigitIsNoPad, Zenon
  <2>2. \A i \in (n + 1)..(n + p) : s[i] = Pad
    BY <1>1 DEF Places
  <2>3. \A i \in 1..(n + p) : i \in 1..n \/ i \in (n + 1)..(n + p)
    OBVIOUS
  <2>4. (n + 1)..(n + p) \subseteq 1..(n + p)
    OBVIOUS
  <2>5. {i \in 1..Len(s) : s[i] = Pad} = (n + 1)..(n + p)
    BY <1>3, <2>1, <2>2, <2>3, <2>4
  <2>6. Cardinality((n + 1)..(n + p)) = IF n + 1 > n + p THEN 0 ELSE (n + p) - (n + 1) + 1
    BY FS_Interval
  <2>7. Cardinality((n + 1)..(n + p)) = p
    BY <2>6
  <2> QED
    BY ONLY <2>5, <2>7, Zenon
<1>6. 3 * (Len(s) \div 4) - p = l
  BY <1>3, SizesOfGroups
<1> DEFINE group(g) == Group([i \in 1..4 |-> s[4 * g + i]])
<1>7. BioRead(s) = [k \in 1..l |-> group((k - 1) \div 3)[((k - 1) % 3) + 1]]
  BY <1>5, <1>6 DEF BioRead
<1>8. ASSUME NEW k \in 1..l
      PROVE  group((k - 1) \div 3)[((k - 1) % 3) + 1] = bytes[k]
  <2>1. PICK q \in Nat : q = (k - 1) \div 3
    OBVIOUS
  <2>2. PICK b \in Octet : b = bytes[k]
    BY <1>2, ElementOfSeq
  <2> DEFINE c == [i \in 1..4 |-> s[4 * q + i]]
  <2>3. group((k - 1) \div 3) = Group(c)
    BY <2>1
  <2>4. c[1] = s[4 * q + 1] /\ c[2] = s[4 * q + 2] /\ c[3] = s[4 * q + 3] /\ c[4] = s[4 * q + 4]
    OBVIOUS
  <2> HIDE DEF group, c
  <2>5. ASSUME NEW m \in 1..4, 4 * q + m <= n
        PROVE  c[m] = Sextet(bytes, 24 * q + 6 * (m - 1)) /\ c[m] \in 0..63
    <3>1. 4 * q + m \in 1..n /\ 6 * ((4 * q + m) - 1) = 24 * q + 6 * (m - 1)
      BY <2>5
    <3>2. c[m] = s[4 * q + m]
      BY <2>4
    <3> QED
      BY <1>4, <3>1, <3>2
  <2>6. k \in 1..Len(bytes)
    BY <1>2
  <2>7. CASE (k - 1) % 3 = 0
    <3>1. k = 3 * q + 1
      BY <2>1, <2>7
    <3>2. 4 * q + 1 <= n /\ 4 * q + 2 <= n
      BY <1>3, <3>1
    <3>3. c[1] = Sextet(bytes, 24 * q) /\ c[2] = Sextet(bytes, 24 * q + 6) /\ c[2] \in 0..63
      BY <2>5, <3>2
    <3>4. Sextet(bytes, 24 * q) = b \div 4 /\ Sextet(bytes, 24 * q + 6) \div 16 = b % 4
      BY <2>2, <2>6, <3>1, ByteOfDigits
    <3>5. Group(c)[1] = b
      BY <3>3, <3>4, ByteOfGroup
    <3> QED
      BY <2>2, <2>3, <2>7, <3>5
  <2>8. CASE (k - 1) % 3 = 1
    <3>1. k = 3 * q + 2
      BY <2>1, <2>8
    <3>2. 4 * q + 2 <= n /\ 4 * q + 3 <= n
      BY <1>3, <3>1
    <3>3. /\ c[2] = Sextet(bytes, 24 * q + 6) /\ c[2] \in 0..63
          /\ c[3] = Sextet(bytes, 24 * q + 12) /\ c[3] \in 0..63
      BY <2>5, <3>2
    <3>4. Sextet(bytes, 24 * q + 6) % 16 = b \div 16 /\ Sextet(bytes, 24 * q + 12) \div 4 = b % 16
      BY <2>2, <2>6, <3>1, ByteOfDigits
    <3>5. Group(c)[2] = b
      BY <3>3, <3>4, ByteOfGroup
    <3> QED
      BY <2>2, <2>3, <2>8, <3>5
  <2>9. CASE (k - 1) % 3 = 2
    <3>1. k = 3 * q + 3
      BY <2>1, <2>9
    <3>2. 4 * q + 3 <= n /\ 4 * q + 4 <= n
      BY <1>3, <3>1
    <3>3. /\ c[3] = Sextet(bytes, 24 * q + 12) /\ c[3] \in 0..63
          /\ c[4] = Sextet(bytes, 24 * q + 18)
      BY <2>5, <3>2
    <3>4. Sextet(bytes, 24 * q + 12) % 4 = b \div 64 /\ Sextet(bytes, 24 * q + 18) = b % 64
      BY <2>2, <2>6, <3>1, ByteOfDigits
    <3>5. Group(c)[3] = b
      BY <3>3, <3>4, ByteOfGroup
    <3> QED
      BY <2>2, <2>3, <2>9, <3>5
  <2> QED
    BY <2>7, <2>8, <2>9
<1>9. bytes = [k \in 1..l |-> bytes[k]]
  BY <1>2, LenProperties
<1> HIDE DEF group
<1> QED
  BY <1>7, <1>8, <1>9

\* A JWT segment of any bytes is read as it was written, and has no '=' in it.
THEOREM SegmentsRoundTrip ==
    ASSUME Signed
    PROVE  EncodeSpec => []UrlRoundTrip
<1>1. EncodeInv => UrlRoundTrip
  <2> SUFFICES ASSUME EncodeInv, pc = "done"
               PROVE  UrlDecode(UrlEncoded) = input /\ Pad \notin ToSet(UrlEncoded)
    BY DEF UrlRoundTrip
  <2>1. input \in Seq(Octet) /\ out = Base64Of(input)
    BY EncodeTypes DEF EncodeInv
  <2>2. UrlEncoded = Base64Digits(input) /\ Pad \notin ToSet(Base64Digits(input))
    BY <2>1, PaddingDropped DEF UrlEncoded
  <2>3. Padded(Base64Digits(input)) = Base64Of(input)
    BY DEF Padded, Base64Of, Pad
  <2>4. BioRead(Base64Of(input)) = input
    BY <2>1, DecodedBytes
  <2> QED
    BY <2>2, <2>3, <2>4 DEF UrlDecode
<1> QED
  BY <1>1, EncoderInvariant, PTL

-----------------------------------------------------------------------------
(* Password hashes: where the parts of the stored form are, that the        *)
(* search for '$' comes to them, and that hexadecimal digits are read back. *)

LEMMA HexPlaces ==
    ASSUME NEW bytes \in Seq(Octet)
    PROVE  /\ ToHex(bytes) \in Seq(Nat) /\ Len(ToHex(bytes)) = 2 * Len(bytes)
           /\ \A i \in 1..(2 * Len(bytes)) : ToHex(bytes)[i] \in 0..15
           /\ \A j \in 1..Len(bytes) : /\ ToHex(bytes)[2 * j - 1] = bytes[j] \div 16
                                       /\ ToHex(bytes)[2 * j] = bytes[j] % 16
<1>1. PICK l \in Nat : l = Len(bytes)
  BY LenProperties
<1>2. PICK m \in Nat : m = 2 * l
  OBVIOUS
<1> DEFINE hex(i) == IF i % 2 = 1 THEN bytes[(i + 1) \div 2] \div 16 ELSE bytes[(i + 1) \div 2] % 16
<1>3. ToHex(bytes) = [i \in 1..m |-> hex(i)]
  BY <1>1, <1>2 DEF ToHex
<1>4. ASSUME NEW i \in 1..m PROVE hex(i) \in 0..15
  <2>1. (i + 1) \div 2 \in 1..Len(bytes)
    BY <1>1, <1>2
  <2>2. PICK b \in Octet : b = bytes[(i + 1) \div 2]
    BY <2>1, ElementOfSeq
  <2>3. b \div 16 \in 0..15 /\ b % 16 \in 0..15
    BY DEF Octet
  <2> QED
    BY <2>2, <2>3
<1>5. ASSUME NEW j \in 1..l
      PROVE  hex(2 * j - 1) = bytes[j] \div 16 /\ hex(2 * j) = bytes[j] % 16
  <2>1. ((2 * j - 1) + 1) \div 2 = j /\ (2 * j - 1) % 2 = 1
    OBVIOUS
  <2>2. ((2 * j) + 1) \div 2 = j /\ (2 * j) % 2 # 1
    OBVIOUS
  <2> QED
    BY <2>1, <2>2, Zenon
<1>6. \A j \in 1..l : 2 * j - 1 \in 1..m /\ 2 * j \in 1..m
  BY <1>2
<1> HIDE DEF hex
<1>7. ToHex(bytes) \in [1..m -> 0..15]
  BY <1>3, <1>4
<1>8. ToHex(bytes) \in Seq(0..15) /\ Len(ToHex(bytes)) = m
  BY <1>7, SeqDef, LenProperties
<1>9. ToHex(bytes) \in Seq(Nat)
  BY <1>8, 0..15 \subseteq Nat, SeqMonotonic
<1> QED
  BY <1>1, <1>2, <1>3, <1>4, <1>5, <1>6, <1>8, <1>9

LEMMA HexReadBack ==
    ASSUME NEW bytes \in Seq(Octet), NEW s, Len(s) = 2 * Len(bytes),
           \A i \in 1..Len(s) : s[i] = ToHex(bytes)[i]
    PROVE  FromHex(s) = bytes
<1>1. PICK l \in Nat : l = Len(bytes)
  BY LenProperties
<1>2. (Len(s) + 1) \div 2 = l /\ Len(s) = 2 * l
  BY <1>1
<1>3. ASSUME NEW j \in 1..l
      PROVE  (IF 2 * j <= Len(s) THEN s[2 * j - 1] * 16 + s[2 * j] ELSE s[2 * j - 1]) = bytes[j]
  <2>1. 2 * j - 1 \in 1..Len(s) /\ 2 * j \in 1..Len(s) /\ 2 * j <= Len(s)
    BY <1>2
  <2>2. s[2 * j - 1] = bytes[j] \div 16 /\ s[2 * j] = bytes[j] % 16
    BY <1>1, <2>1, HexPlaces
  <2>3. PICK b \in Octet : b = bytes[j]
    BY <1>1, ElementOfSeq
  <2>4. (b \div 16) * 16 + (b % 16) = b
    BY DEF Octet
  <2> QED
    BY <2>1, <2>2, <2>3, <2>4
<1>4. bytes = [j \in 1..l |-> bytes[j]]
  BY <1>1, LenProperties
<1> QED
  BY <1>2, <1>3, <1>4 DEF FromHex

LEMMA IterationsNat == Iterations \in Nat
BY SMT DEF Iterations

LEMMA DerivedBytes ==
    ASSUME NEW p \in Octet, NEW iterations \in Nat, NEW salt \in Seq(Octet)
    PROVE  /\ Derived(p, iterations, salt) \in Seq(Octet)
           /\ Len(Derived(p, iterations, salt)) = Len(salt) + 2
           /\ Derived(p, iterations, salt)[1] = p
<1> DEFINE head == <<p, iterations % 256>>
<1>1. iterations % 256 \in Octet
  BY DEF Octet
<1>2. head \in Seq(Octet) /\ Len(head) = 2 /\ head[1] = p
  BY <1>1
<1>3. Len(salt) \in Nat
  BY LenProperties
<1> HIDE DEF head
<1>4. /\ head \o salt \in Seq(Octet) /\ Len(head \o salt) = Len(head) + Len(salt)
      /\ \A i \in 1..Len(head) + Len(salt) :
            (head \o salt)[i] = IF i <= Len(head) THEN head[i] ELSE salt[i - Len(head)]
  BY <1>2, ConcatProperties
<1> QED
  BY <1>2, <1>3, <1>4 DEF head, Derived

\* u is s, of n characters, with t, of m characters, behind it.
Behind(s, n, t, m, u) ==
    /\ u \in Seq(Nat) /\ Len(u) = n + m
    /\ \A i \in 1..n : u[i] = s[i]
    /\ \A i \in 1..m : u[n + i] = t[i]

LEMMA Joined ==
    ASSUME NEW s \in Seq(Nat), NEW t \in Seq(Nat), NEW n, NEW m, n = Len(s), m = Len(t)
    PROVE  Behind(s, n, t, m, s \o t)
<1>1. n \in Nat /\ m \in Nat
  BY LenProperties
<1>2. /\ s \o t \in Seq(Nat) /\ Len(s \o t) = Len(s) + Len(t)
      /\ \A i \in 1..Len(s) + Len(t) : (s \o t)[i] = IF i <= Len(s) THEN s[i] ELSE t[i - Len(s)]
  BY ConcatProperties
<1> QED
  BY <1>1, <1>2 DEF Behind

\* The stored form: salt has l bytes, what was derived d.
StoredHash(st, l, salt, d) ==
    /\ st \in Seq(Nat) /\ Len(st) = 4 * l + 14
    /\ st[1] = Scheme /\ st[2] = Dollar /\ st[9] = Dollar /\ st[2 * l + 10] = Dollar
    /\ \A i \in 1..6 : st[2 + i] = Decimal[i]
    /\ \A i \in 1..(2 * l) : st[9 + i] = ToHex(salt)[i]
    /\ \A i \in 1..(2 * l + 4) : st[(2 * l + 10) + i] = ToHex(d)[i]

LEMMA LayoutIsStored ==
    ASSUME NEW l \in Nat, NEW salt, NEW d,
           NEW x1, NEW x2, NEW x3, NEW x4, NEW x5, NEW x6,
           x1[1] = Scheme, x1[2] = Dollar, Len(x6) = 4 * l + 14,
           Behind(x1, 2, Decimal, 6, x2), Behind(x2, 8, <<Dollar>>, 1, x3),
           Behind(x3, 9, ToHex(salt), 2 * l, x4), Behind(x4, 2 * l + 9, <<Dollar>>, 1, x5),
           Behind(x5, 2 * l + 10, ToHex(d), 2 * l + 4, x6)
    PROVE  StoredHash(x6, l, salt, d)
<1>1. (\A i \in 1..2 : x2[i] = x1[i]) /\ \A i \in 1..6 : x2[2 + i] = Decimal[i]
  BY ONLY Behind(x1, 2, Decimal, 6, x2) DEF Behind
<1>2. (\A i \in 1..8 : x3[i] = x2[i]) /\ x3[9] = Dollar
  <2>1. (\A i \in 1..8 : x3[i] = x2[i]) /\ \A i \in 1..1 : x3[8 + i] = <<Dollar>>[i]
    BY ONLY Behind(x2, 8, <<Dollar>>, 1, x3) DEF Behind
  <2> QED
    BY ONLY <2>1
<1>3. (\A i \in 1..9 : x4[i] = x3[i]) /\ \A i \in 1..(2 * l) : x4[9 + i] = ToHex(salt)[i]
  BY ONLY Behind(x3, 9, ToHex(salt), 2 * l, x4) DEF Behind
<1>4. (\A i \in 1..(2 * l + 9) : x5[i] = x4[i]) /\ x5[2 * l + 10] = Dollar
  <2>1. /\ \A i \in 1..(2 * l + 9) : x5[i] = x4[i]
        /\ \A i \in 1..1 : x5[(2 * l + 9) + i] = <<Dollar>>[i]
    BY ONLY Behind(x4, 2 * l + 9, <<Dollar>>, 1, x5) DEF Behind
  <2>2. (2 * l + 9) + 1 = 2 * l + 10 /\ <<Dollar>>[1] = Dollar
    OBVIOUS
  <2> QED
    BY ONLY <2>1, <2>2
<1>5. /\ x6 \in Seq(Nat) /\ \A i \in 1..(2 * l + 10) : x6[i] = x5[i]
      /\ \A i \in 1..(2 * l + 4) : x6[(2 * l + 10) + i] = ToHex(d)[i]
  BY ONLY Behind(x5, 2 * l + 10, ToHex(d), 2 * l + 4, x6) DEF Behind
<1>6. \A i \in 1..(2 * l + 9) : x6[i] = x4[i]
  <2>1. 1..(2 * l + 9) \subseteq 1..(2 * l + 10)
    OBVIOUS
  <2> QED
    BY ONLY <1>4, <1>5, <2>1
<1>7. \A i \in 1..9 : x6[i] = x3[i]
  <2>1. 1..9 \subseteq 1..(2 * l + 9)
    OBVIOUS
  <2> QED
    BY ONLY <1>3, <1>6, <2>1
<1>8. \A i \in 1..8 : x6[i] = x2[i]
  BY ONLY <1>2, <1>7
<1>9. x6[1] = Scheme /\ x6[2] = Dollar /\ x6[9] = Dollar /\ x6[2 * l + 10] = Dollar
  <2>1. x1[1] = Scheme /\ x1[2] = Dollar
    OBVIOUS
  <2>2. x6[1] = Scheme /\ x6[2] = Dollar /\ x6[9] = Dollar
    BY ONLY <1>1, <1>2, <1>7, <1>8, <2>1
  <2>3. 2 * l + 10 \in 1..(2 * l + 10)
    OBVIOUS
  <2> QED
    BY ONLY <1>4, <1>5, <2>2, <2>3, Zenon
<1>10. \A i \in 1..6 : x6[2 + i] = Decimal[i]
  BY ONLY <1>1, <1>8
<1>11. \A i \in 1..(2 * l) : x6[9 + i] = ToHex(salt)[i]
  <2>1. \A i \in 1..(2 * l) : 9 + i \in 1..(2 * l + 9)
    OBVIOUS
  <2> QED
    BY ONLY <1>3, <1>6, <2>1
<1> QED
  BY ONLY <1>5, <1>9, <1>10, <1>11, Len(x6) = 4 * l + 14 DEF StoredHash

LEMMA HashIsStored ==
    ASSUME NEW p \in Octet, NEW salt \in Seq(Octet), NEW l \in Nat, l = Len(salt)
    PROVE  StoredHash(HashPassword(p, salt), l, salt, Derived(p, Iterations, salt))
<1>1. PICK d : d = Derived(p, Iterations, salt)
  OBVIOUS
<1>2. d \in Seq(Octet) /\ Len(d) = l + 2
  BY <1>1, IterationsNat, DerivedBytes
<1>3. PICK x1 : x1 = <<Scheme, Dollar>>
  OBVIOUS
<1>4. PICK x2 : x2 = x1 \o Decimal
  OBVIOUS
<1>5. PICK x3 : x3 = x2 \o <<Dollar>>
  OBVIOUS
<1>6. PICK x4 : x4 = x3 \o ToHex(salt)
  OBVIOUS
<1>7. PICK x5 : x5 = x4 \o <<Dollar>>
  OBVIOUS
<1>8. PICK x6 : x6 = x5 \o ToHex(d)
  OBVIOUS
<1>9. HashPassword(p, salt) = x6
  BY <1>1, <1>3, <1>4, <1>5, <1>6, <1>7, <1>8, Zenon DEF HashPassword
<1>10. ToHex(salt) \in Seq(Nat) /\ Len(ToHex(salt)) = 2 * l
  BY HexPlaces
<1>11. ToHex(d) \in Seq(Nat) /\ Len(ToHex(d)) = 2 * l + 4
  <2>1. ToHex(d) \in Seq(Nat) /\ Len(ToHex(d)) = 2 * Len(d)
    BY ONLY <1>2, HexPlaces
  <2> QED
    BY ONLY <1>2, <2>1, l \in Nat
<1>12. x1 \in Seq(Nat) /\ Len(x1) = 2 /\ x1[1] = Scheme /\ x1[2] = Dollar
  BY ONLY <1>3 DEF Scheme, Dollar
<1>13. Decimal \in Seq(Nat) /\ Len(Decimal) = 6
  BY ONLY DEF Decimal
<1>14. <<Dollar>> \in Seq(Nat) /\ Len(<<Dollar>>) = 1
  BY ONLY DEF Dollar
<1>15. Behind(x1, 2, Decimal, 6, x2)
  BY ONLY <1>4, <1>12, <1>13, Joined
<1>16. x2 \in Seq(Nat) /\ Len(x2) = 8
  BY ONLY <1>15 DEF Behind
<1>17. Behind(x2, 8, <<Dollar>>, 1, x3)
  BY ONLY <1>5, <1>14, <1>16, Joined
<1>18. x3 \in Seq(Nat) /\ Len(x3) = 9
  BY ONLY <1>17 DEF Behind
<1>19. Behind(x3, 9, ToHex(salt), 2 * l, x4)
  BY ONLY <1>6, <1>10, <1>18, Joined
<1>20. x4 \in Seq(Nat) /\ Len(x4) = 2 * l + 9
  BY ONLY <1>19, l \in Nat DEF Behind
<1>21. Behind(x4, 2 * l + 9, <<Dollar>>, 1, x5)
  BY ONLY <1>7, <1>14, <1>20, Joined
<1>22. x5 \in Seq(Nat) /\ Len(x5) = 2 * l + 10
  BY ONLY <1>21, l \in Nat DEF Behind
<1>23. Behind(x5, 2 * l + 10, ToHex(d), 2 * l + 4, x6)
  BY ONLY <1>8, <1>11, <1>22, Joined
<1>24. Len(x6) = 4 * l + 14
  BY ONLY <1>23, l \in Nat DEF Behind
<1>25. StoredHash(x6, l, salt, d)
  BY ONLY l \in Nat, <1>12, <1>15, <1>17, <1>19, <1>21, <1>23, <1>24, LayoutIsStored, Zenon
<1> QED
  BY <1>1, <1>9, <1>25

\* There are three '$' in it.
LEMMA Dollars ==
    ASSUME NEW l \in Nat, NEW salt \in Seq(Octet), Len(salt) = l,
           NEW d \in Seq(Octet), Len(d) = l + 2, NEW st, StoredHash(st, l, salt, d),
           NEW i \in 1..(4 * l + 14)
    PROVE  st[i] = Dollar <=> i \in {2, 9, 2 * l + 10}
<1>1. st[1] = Scheme /\ st[2] = Dollar /\ st[9] = Dollar /\ st[2 * l + 10] = Dollar
  BY ONLY StoredHash(st, l, salt, d) DEF StoredHash
<1>2. CASE i \in {2, 9, 2 * l + 10}
  BY ONLY <1>1, <1>2
<1>3. CASE i = 1
  <2>1. Scheme # Dollar /\ i \notin {2, 9, 2 * l + 10}
    BY <1>3 DEF Scheme, Dollar
  <2> QED
    BY ONLY <1>1, <1>3, <2>1, Zenon
<1>4. CASE i \in 3..8
  <2>1. PICK j \in 1..6 : i = 2 + j
    BY ONLY <1>4
  <2>2. st[2 + j] = Decimal[j]
    BY ONLY StoredHash(st, l, salt, d), j \in 1..6 DEF StoredHash
  <2>3. Decimal[j] # Dollar
    BY ONLY j \in 1..6 DEF Decimal, Dollar
  <2>4. i \notin {2, 9, 2 * l + 10}
    BY ONLY <1>4, l \in Nat
  <2> QED
    BY ONLY <2>1, <2>2, <2>3, <2>4
<1>5. \A h \in 0..15 : h # Dollar
  BY ONLY DEF Dollar
<1>6. CASE i \in 10..(2 * l + 9)
  <2>1. PICK j \in 1..(2 * l) : i = 9 + j
    BY ONLY <1>6, l \in Nat
  <2>2. st[9 + j] = ToHex(salt)[j]
    BY ONLY StoredHash(st, l, salt, d), j \in 1..(2 * l) DEF StoredHash
  <2>3. ToHex(salt)[j] \in 0..15
    BY HexPlaces
  <2>4. i \notin {2, 9, 2 * l + 10}
    BY ONLY <1>6, l \in Nat
  <2> QED
    BY ONLY <1>5, <2>1, <2>2, <2>3, <2>4
<1>7. CASE i \in (2 * l + 11)..(4 * l + 14)
  <2>1. PICK j \in 1..(2 * l + 4) : i = (2 * l + 10) + j
    BY ONLY <1>7, l \in Nat
  <2>2. st[(2 * l + 10) + j] = ToHex(d)[j]
    BY ONLY StoredHash(st, l, salt, d), j \in 1..(2 * l + 4) DEF StoredHash
  <2>3. j \in 1..(2 * Len(d))
    BY ONLY Len(d) = l + 2, l \in Nat, j \in 1..(2 * l + 4)
  <2>4. ToHex(d)[j] \in 0..15
    BY ONLY <2>3, d \in Seq(Octet), HexPlaces
  <2>5. i \notin {2, 9, 2 * l + 10}
    BY ONLY <1>7, l \in Nat
  <2> QED
    BY ONLY <1>5, <2>1, <2>2, <2>4, <2>5
<1>8. i \in {2, 9, 2 * l + 10} \/ i = 1 \/ i \in 3..8 \/ i \in 10..(2 * l + 9)
        \/ i \in (2 * l + 11)..(4 * l + 14)
  BY ONLY l \in Nat, i \in 1..(4 * l + 14)
<1> QED
  BY ONLY <1>2, <1>3, <1>4, <1>6, <1>7, <1>8, Zenon

\* What find finds.
LEMMA FindIs ==
    ASSUME NEW s, NEW n \in Nat, Len(s) = n, NEW from \in Nat, NEW at \in from..n, s[at] = Dollar,
           \A i \in from..(at - 1) : s[i] # Dollar
    PROVE  Find(s, from) = at
<1> DEFINE found == {i \in from..n : s[i] = Dollar}
<1>1. at \in found
  OBVIOUS
<1>2. \A y \in found : at <= y
  OBVIOUS
<1>3. found \subseteq Int
  OBVIOUS
<1>4. Find(s, from) = IF found = {} THEN 0 ELSE Min(found)
  BY DEF Find
<1> HIDE DEF found
<1>5. \A x \in found : (\A y \in found : x <= y) => x = at
  BY ONLY <1>1, <1>2, <1>3
<1>6. Min(found) = at
  BY ONLY <1>1, <1>2, <1>5 DEF Min
<1> QED
  BY ONLY <1>1, <1>4, <1>6

LEMMA FindNone ==
    ASSUME NEW s, NEW n \in Nat, Len(s) = n, NEW from \in Nat, \A i \in from..n : s[i] # Dollar
    PROVE  Find(s, from) = 0
BY DEF Find

\* A part of a string.
LEMMA Part ==
    ASSUME NEW t \in Seq(Nat), NEW m \in Nat \ {0}, NEW n \in Nat, n <= Len(t), m <= n + 1
    PROVE  /\ SubSeq(t, m, n) \in Seq(Nat)
           /\ Len(SubSeq(t, m, n)) = n - m + 1
           /\ \A i \in 1..(n - m + 1) : SubSeq(t, m, n)[i] = t[(m - 1) + i]
<1>1. Len(t) \in Nat
  BY LenProperties
<1>2. \A i \in m..n : t[i] \in Nat
  <2> TAKE i \in m..n
  <2>1. i \in 1..Len(t)
    BY <1>1
  <2> QED
    BY <2>1, ElementOfSeq
<1>3. /\ SubSeq(t, m, n) \in Seq(Nat)
      /\ Len(SubSeq(t, m, n)) = IF m <= n THEN n - m + 1 ELSE 0
      /\ \A i \in 1..(n - m + 1) : SubSeq(t, m, n)[i] = t[m + i - 1]
  BY <1>2, SubSeqProperties
<1> QED
  BY <1>3

\* t is what the first n characters of the stored form are.
Beginning(t, n, st) ==
    /\ t \in Seq(Nat) /\ Len(t) = n /\ \A i \in 1..n : t[i] = st[i]

LEMMA BeginningDollars ==
    ASSUME NEW l \in Nat, NEW salt \in Seq(Octet), Len(salt) = l,
           NEW d \in Seq(Octet), Len(d) = l + 2, NEW st, StoredHash(st, l, salt, d),
           NEW n \in 0..(4 * l + 14), NEW t, Beginning(t, n, st), NEW i \in 1..n
    PROVE  t[i] = Dollar <=> i \in {2, 9, 2 * l + 10}
<1>1. i \in 1..(4 * l + 14)
  BY ONLY l \in Nat, n \in 0..(4 * l + 14), i \in 1..n
<1>2. st[i] = Dollar <=> i \in {2, 9, 2 * l + 10}
  BY <1>1, Dollars
<1>3. t[i] = st[i]
  BY ONLY Beginning(t, n, st), i \in 1..n DEF Beginning
<1> QED
  BY ONLY <1>2, <1>3, Zenon

\* Cut short before its third '$', it is refused.
LEMMA TornRefused ==
    ASSUME NEW l \in Nat, NEW salt \in Seq(Octet), Len(salt) = l,
           NEW d \in Seq(Octet), Len(d) = l + 2, NEW st, StoredHash(st, l, salt, d),
           NEW n \in 0..(2 * l + 9), NEW t, Beginning(t, n, st), NEW q
    PROVE  ~VerifyPassword(q, t)
<1>1. \A i \in 1..n : t[i] = Dollar <=> i \in {2, 9, 2 * l + 10}
  <2>1. n \in 0..(4 * l + 14)
    BY ONLY l \in Nat, n \in 0..(2 * l + 9)
  <2> QED
    BY <2>1, BeginningDollars
<1>2. Len(t) = n /\ n \in Nat
  BY ONLY Beginning(t, n, st), n \in 0..(2 * l + 9), l \in Nat DEF Beginning
<1>3. \A i \in 10..n : t[i] # Dollar
  BY ONLY <1>1, l \in Nat, n \in 0..(2 * l + 9)
<1>4. Find(t, 10) = 0
  BY ONLY <1>2, <1>3, 10 \in Nat, FindNone
<1>5. Find(t, 1) = 0 \/ Find(t, 1) = 2
  <2>1. CASE n < 2
    <3>1. \A i \in 1..n : t[i] # Dollar
      BY ONLY <1>1, <1>2, <2>1, l \in Nat
    <3> QED
      BY ONLY <1>2, <3>1, 1 \in Nat, FindNone
  <2>2. CASE n >= 2
    <3>1. 2 \in 1..n /\ t[2] = Dollar /\ \A i \in 1..(2 - 1) : t[i] # Dollar
      BY ONLY <1>1, <1>2, <2>2, l \in Nat
    <3> QED
      BY ONLY <1>2, <3>1, 1 \in Nat, FindIs
  <2> QED
    BY <1>2, <2>1, <2>2
<1>6. Find(t, 3) = 0 \/ Find(t, 3) = 9
  <2>1. CASE n < 9
    <3>1. \A i \in 3..n : t[i] # Dollar
      BY ONLY <1>1, <1>2, <2>1, l \in Nat
    <3> QED
      BY ONLY <1>2, <3>1, 3 \in Nat, FindNone
  <2>2. CASE n >= 9
    <3>1. 9 \in 3..n /\ t[9] = Dollar /\ \A i \in 3..(9 - 1) : t[i] # Dollar
      BY ONLY <1>1, <1>2, <2>2, l \in Nat
    <3> QED
      BY ONLY <1>2, <3>1, 3 \in Nat, FindIs
  <2> QED
    BY <1>2, <2>1, <2>2
<1>7. \/ Find(t, 1) = 0
      \/ Find(t, 1) = 2 /\ Find(t, 2 + 1) = 0
      \/ Find(t, 1) = 2 /\ Find(t, 2 + 1) = 9 /\ Find(t, 9 + 1) = 0
  BY ONLY <1>4, <1>5, <1>6, 2 + 1 = 3, 9 + 1 = 10
<1> QED
  BY ONLY <1>7, Zenon DEF VerifyPassword

\* With all three it is taken apart where it was put together.
LEMMA TakenApart ==
    ASSUME NEW l \in Nat, NEW salt \in Seq(Octet), Len(salt) = l,
           NEW d \in Seq(Octet), Len(d) = l + 2, NEW st, StoredHash(st, l, salt, d),
           NEW n \in (2 * l + 10)..(4 * l + 14), NEW t, Beginning(t, n, st), NEW q
    PROVE  VerifyPassword(q, t)
              <=> Derived(q, Iterations, salt) = FromHex(SubSeq(t, (2 * l + 10) + 1, Len(t)))
<1>1. /\ t \in Seq(Nat) /\ Len(t) = n /\ n \in Nat /\ n >= 2 * l + 10
      /\ \A i \in 1..n : t[i] = st[i]
  BY ONLY Beginning(t, n, st), n \in (2 * l + 10)..(4 * l + 14), l \in Nat DEF Beginning
<1>2. \A i \in 1..n : t[i] = Dollar <=> i \in {2, 9, 2 * l + 10}
  <2>1. n \in 0..(4 * l + 14)
    BY ONLY l \in Nat, n \in (2 * l + 10)..(4 * l + 14)
  <2> QED
    BY <2>1, BeginningDollars
<1>3. Find(t, 1) = 2
  <2>1. 2 \in 1..n /\ t[2] = Dollar /\ \A i \in 1..(2 - 1) : t[i] # Dollar
    BY ONLY <1>1, <1>2, l \in Nat
  <2> QED
    BY ONLY <1>1, <2>1, 1 \in Nat, FindIs
<1>4. Find(t, 2 + 1) = 9
  <2>1. 9 \in (2 + 1)..n /\ t[9] = Dollar /\ \A i \in (2 + 1)..(9 - 1) : t[i] # Dollar
    BY ONLY <1>1, <1>2, l \in Nat
  <2> QED
    BY ONLY <1>1, <2>1, 2 + 1 \in Nat, FindIs
<1>5. Find(t, 9 + 1) = 2 * l + 10
  <2>1. /\ 2 * l + 10 \in (9 + 1)..n /\ t[2 * l + 10] = Dollar
        /\ \A i \in (9 + 1)..((2 * l + 10) - 1) : t[i] # Dollar
    <3>1. 2 * l + 10 \in 1..n /\ 2 * l + 10 \in (9 + 1)..n
      BY ONLY <1>1, l \in Nat
    <3>2. t[2 * l + 10] = Dollar
      BY ONLY <1>2, <3>1
    <3> SUFFICES ASSUME NEW i \in (9 + 1)..((2 * l + 10) - 1) PROVE t[i] # Dollar
      BY <3>1, <3>2
    <3>3. i \in 1..n /\ i \notin {2, 9, 2 * l + 10}
      BY ONLY <1>1, i \in (9 + 1)..((2 * l + 10) - 1), l \in Nat
    <3> QED
      BY ONLY <1>2, <3>3
  <2> QED
    BY ONLY <1>1, <2>1, 9 + 1 \in Nat, FindIs
<1>6. Stoi(SubSeq(t, 2 + 1, 9 - 1)) = Iterations
  <2>1. PICK x : x = SubSeq(t, 3, 8)
    OBVIOUS
  <2>2. /\ 3 \in Nat \ {0} /\ 8 \in Nat /\ 8 <= Len(t) /\ 3 <= 8 + 1
    BY ONLY <1>1, l \in Nat
  <2>3. \A i \in 1..(8 - 3 + 1) : SubSeq(t, 3, 8)[i] = t[(3 - 1) + i]
    BY ONLY <1>1, <2>2, Part
  <2>4. \A i \in 1..6 : x[i] = Decimal[i]
    <3> TAKE i \in 1..6
    <3>1. x[i] = t[2 + i] /\ 2 + i \in 1..n
      <4>1. i \in 1..(8 - 3 + 1) /\ (3 - 1) + i = 2 + i /\ 2 + i \in 1..n
        BY ONLY <1>1, l \in Nat, i \in 1..6
      <4>2. SubSeq(t, 3, 8)[i] = t[(3 - 1) + i]
        BY ONLY <2>3, <4>1
      <4> QED
        BY ONLY <2>1, <4>1, <4>2
    <3>2. st[2 + i] = Decimal[i]
      BY ONLY StoredHash(st, l, salt, d), i \in 1..6 DEF StoredHash
    <3> QED
      BY ONLY <1>1, <3>1, <3>2
  <2>5. x[1] = 1 /\ x[2] = 5 /\ x[3] = 0 /\ x[4] = 0 /\ x[5] = 0 /\ x[6] = 0
    BY ONLY <2>4 DEF Decimal
  <2>6. Stoi(x) = Iterations
    BY ONLY <2>5, SMT DEF Stoi, Iterations
  <2> QED
    BY ONLY <2>1, <2>6, 2 + 1 = 3, 9 - 1 = 8, Zenon
<1>7. FromHex(SubSeq(t, 9 + 1, (2 * l + 10) - 1)) = salt
  <2>1. PICK m \in Nat : m = 2 * l + 9 /\ m = (2 * l + 10) - 1
    BY ONLY l \in Nat
  <2>2. 10 \in Nat \ {0} /\ m <= Len(t) /\ 10 <= m + 1
    BY ONLY <1>1, <2>1, l \in Nat
  <2>3. /\ Len(SubSeq(t, 10, m)) = m - 10 + 1
        /\ \A i \in 1..(m - 10 + 1) : SubSeq(t, 10, m)[i] = t[(10 - 1) + i]
    BY ONLY <1>1, <2>1, <2>2, m \in Nat, Part
  <2>4. m - 10 + 1 = 2 * l /\ 10 - 1 = 9
    BY ONLY <2>1, l \in Nat
  <2>5. Len(SubSeq(t, 10, m)) = 2 * Len(salt)
    BY ONLY <2>3, <2>4, Len(salt) = l
  <2>6. \A i \in 1..Len(SubSeq(t, 10, m)) : SubSeq(t, 10, m)[i] = ToHex(salt)[i]
    <3>1. ASSUME NEW i \in 1..(2 * l) PROVE SubSeq(t, 10, m)[i] = ToHex(salt)[i]
      <4>1. SubSeq(t, 10, m)[i] = t[9 + i] /\ 9 + i \in 1..n
        BY ONLY <1>1, <2>3, <2>4, l \in Nat, i \in 1..(2 * l)
      <4>2. st[9 + i] = ToHex(salt)[i]
        BY ONLY StoredHash(st, l, salt, d), i \in 1..(2 * l) DEF StoredHash
      <4> QED
        BY ONLY <1>1, <4>1, <4>2
    <3> QED
      BY ONLY <2>3, <2>4, <3>1
  <2>7. FromHex(SubSeq(t, 10, m)) = salt
    BY ONLY <2>5, <2>6, salt \in Seq(Octet), HexReadBack
  <2> QED
    BY ONLY <2>1, <2>7, 9 + 1 = 10
<1>8. 2 # 0 /\ 9 # 0 /\ 2 * l + 10 # 0
  BY ONLY l \in Nat
<1> QED
  BY ONLY <1>3, <1>4, <1>5, <1>6, <1>7, <1>8, Zenon DEF VerifyPassword

\* So it admits whom it was made of, and cut short by more than one digit nobody.
LEMMA AdmittedByStored ==
    ASSUME NEW p \in Octet, NEW q \in Octet, NEW salt \in Seq(Octet), NEW n \in Nat,
           n <= Len(HashPassword(p, salt))
    PROVE  LET cut == SubSeq(HashPassword(p, salt), 1, n)
           IN  /\ n = Len(HashPassword(p, salt)) => (VerifyPassword(q, cut) <=> q = p)
               /\ n + 2 <= Len(HashPassword(p, salt)) => ~VerifyPassword(q, cut)
<1>1. PICK l \in Nat : l = Len(salt)
  BY LenProperties
<1>2. PICK st : st = HashPassword(p, salt)
  OBVIOUS
<1>3. PICK d : d = Derived(p, Iterations, salt)
  OBVIOUS
<1>4. d \in Seq(Octet) /\ Len(d) = l + 2 /\ d[1] = p
  BY <1>1, <1>3, IterationsNat, DerivedBytes
<1>5. StoredHash(st, l, salt, d)
  BY <1>1, <1>2, <1>3, HashIsStored
<1>6. st \in Seq(Nat) /\ Len(st) = 4 * l + 14
  BY ONLY <1>5 DEF StoredHash
<1>7. PICK t : t = SubSeq(st, 1, n)
  OBVIOUS
<1>8. n \in 0..(4 * l + 14)
  BY ONLY <1>2, <1>6, n \in Nat, l \in Nat, n <= Len(HashPassword(p, salt))
<1>9. Beginning(t, n, st)
  <2>1. 1 \in Nat \ {0} /\ n <= Len(st) /\ 1 <= n + 1
    BY ONLY <1>6, <1>8, n \in Nat, l \in Nat
  <2>2. /\ SubSeq(st, 1, n) \in Seq(Nat) /\ Len(SubSeq(st, 1, n)) = n - 1 + 1
        /\ \A i \in 1..(n - 1 + 1) : SubSeq(st, 1, n)[i] = st[(1 - 1) + i]
    BY ONLY <1>6, <2>1, n \in Nat, Part
  <2> QED
    BY ONLY <1>7, <2>2, n \in Nat DEF Beginning
<1>10. PICK e : e = Derived(q, Iterations, salt)
  OBVIOUS
<1>11. e \in Seq(Octet) /\ Len(e) = l + 2 /\ e[1] = q
  BY <1>1, <1>10, IterationsNat, DerivedBytes
<1>12. CASE n <= 2 * l + 9
  <2>1. n \in 0..(2 * l + 9)
    BY ONLY <1>12, n \in Nat, l \in Nat
  <2>2. ~VerifyPassword(q, t)
    BY ONLY <1>1, <1>4, <1>5, <1>9, <2>1, l \in Nat, salt \in Seq(Octet), TornRefused
  <2>3. n # Len(HashPassword(p, salt))
    BY ONLY <1>2, <1>6, <1>12, n \in Nat, l \in Nat
  <2> QED
    BY ONLY <1>2, <1>7, <2>2, <2>3, Zenon
<1>13. CASE n >= 2 * l + 10
  <2>1. n \in (2 * l + 10)..(4 * l + 14)
    BY ONLY <1>8, <1>13, l \in Nat
  <2>2. VerifyPassword(q, t) <=> e = FromHex(SubSeq(t, (2 * l + 10) + 1, Len(t)))
    BY ONLY <1>1, <1>4, <1>5, <1>9, <1>10, <2>1, l \in Nat, salt \in Seq(Octet), TakenApart
  <2>3. PICK u : u = SubSeq(t, (2 * l + 10) + 1, Len(t))
    OBVIOUS
  <2>4. /\ Len(u) = n - (2 * l + 10)
        /\ \A i \in 1..(n - (2 * l + 10)) : u[i] = t[(2 * l + 10) + i]
    <3>1. PICK m \in Nat \ {0} : m = (2 * l + 10) + 1
      BY ONLY l \in Nat
    <3>2. t \in Seq(Nat) /\ Len(t) = n /\ n <= Len(t) /\ m <= n + 1
      BY ONLY <1>9, <1>13, <3>1, n \in Nat, l \in Nat DEF Beginning
    <3>3. /\ Len(SubSeq(t, m, n)) = n - m + 1
          /\ \A i \in 1..(n - m + 1) : SubSeq(t, m, n)[i] = t[(m - 1) + i]
      BY ONLY <3>2, m \in Nat \ {0}, n \in Nat, Part
    <3>4. n - m + 1 = n - (2 * l + 10) /\ m - 1 = 2 * l + 10
      BY ONLY <3>1, n \in Nat, l \in Nat
    <3> QED
      BY ONLY <2>3, <3>1, <3>2, <3>3, <3>4
  <2>5. CASE n = 4 * l + 14
    <3>1. Len(u) = 2 * Len(d) /\ n - (2 * l + 10) = 2 * l + 4
      BY ONLY <1>4, <2>4, <2>5, l \in Nat
    <3>2. \A i \in 1..Len(u) : u[i] = ToHex(d)[i]
      <4>1. ASSUME NEW i \in 1..(2 * l + 4) PROVE u[i] = ToHex(d)[i]
        <5>1. u[i] = t[(2 * l + 10) + i] /\ (2 * l + 10) + i \in 1..n
          BY ONLY <2>4, <2>5, <3>1, l \in Nat, i \in 1..(2 * l + 4)
        <5>2. t[(2 * l + 10) + i] = st[(2 * l + 10) + i]
          BY ONLY <1>9, <5>1 DEF Beginning
        <5>3. st[(2 * l + 10) + i] = ToHex(d)[i]
          BY ONLY <1>5, i \in 1..(2 * l + 4) DEF StoredHash
        <5> QED
          BY ONLY <5>1, <5>2, <5>3
      <4> QED
        BY ONLY <2>4, <3>1, <4>1
    <3>3. FromHex(u) = d
      BY ONLY <1>4, <3>1, <3>2, HexReadBack
    <3>4. e = d <=> q = p
      BY ONLY <1>3, <1>4, <1>10, <1>11
    <3>5. ~(n + 2 <= Len(HashPassword(p, salt)))
      BY ONLY <1>2, <1>6, <2>5, l \in Nat
    <3> QED
      BY ONLY <1>2, <1>7, <2>2, <2>3, <3>3, <3>4, <3>5, Zenon
  <2>6. CASE n < 4 * l + 14
    <3>1. n # Len(HashPassword(p, salt))
      BY ONLY <1>2, <1>6, <2>6, n \in Nat, l \in Nat
    <3>2. ASSUME n + 2 <= Len(HashPassword(p, salt))
          PROVE  e # FromHex(u)
      <4>1. l + 2 \notin 1..((Len(u) + 1) \div 2)
        BY ONLY <1>2, <1>6, <2>4, <3>2, n \in Nat, l \in Nat
      <4>2. DOMAIN FromHex(u) = 1..((Len(u) + 1) \div 2)
        BY ONLY DEF FromHex
      <4>3. DOMAIN e = 1..(l + 2)
        BY ONLY <1>11, LenProperties
      <4>4. l + 2 \in 1..(l + 2)
        BY ONLY l \in Nat
      <4> QED
        BY ONLY <4>1, <4>2, <4>3, <4>4, Zenon
    <3> QED
      BY ONLY <1>2, <1>7, <2>2, <2>3, <3>1, <3>2, Zenon
  <2> QED
    BY ONLY <1>8, <2>5, <2>6, n \in Nat, l \in Nat
<1> QED
  BY ONLY <1>12, <1>13, n \in Nat, l \in Nat

\* The stored hash admits the password it was made of and no other, whatever the salt,
\* and none when a byte or more is missing.
THEOREM HashesAdmit == EncodeSpec => []PasswordAdmitted
<1> DEFINE Same == input \in BoundedSeq(Bytes, MaxLength)
<1>1. EncodeInit => Same
  BY DEF EncodeInit
<1>2. Same /\ [EncodeNext]_encoder => Same'
  BY DEF EncodeNext, encoder, Byte, Emit, NextByte, Tail6
<1>3. Same => PasswordAdmitted
  <2> SUFFICES ASSUME Same, NEW p \in Bytes, NEW q \in Bytes, NEW stored,
                      stored = HashPassword(p, input)
               PROVE  /\ VerifyPassword(q, stored) <=> q = p
                      /\ \A n \in 0..(Len(stored) - 2) : ~VerifyPassword(p, SubSeq(stored, 1, n))
    BY DEF PasswordAdmitted
  <2>1. input \in Seq(Octet) /\ Len(input) \in Nat
    BY InputsAreBytes
  <2>2. p \in Octet /\ q \in Octet
    BY BoundsAssumption DEF Octet
  <2>3. stored \in Seq(Nat) /\ Len(stored) \in Nat
    <3>1. StoredHash(stored, Len(input), input, Derived(p, Iterations, input))
      BY <2>1, <2>2, HashIsStored
    <3>2. stored \in Seq(Nat)
      BY ONLY <3>1 DEF StoredHash
    <3> QED
      BY ONLY <3>2, LenProperties
  <2>4. VerifyPassword(q, stored) <=> q = p
    <3>1. SubSeq(stored, 1, Len(stored)) = stored
      BY ONLY <2>3, SubSeqFull
    <3>2. Len(stored) <= Len(stored)
      BY ONLY <2>3
    <3>3. VerifyPassword(q, SubSeq(stored, 1, Len(stored))) <=> q = p
      BY ONLY <2>1, <2>2, <2>3, <3>2, stored = HashPassword(p, input), AdmittedByStored
    <3> QED
      BY ONLY <3>1, <3>3, Zenon
  <2>5. ASSUME NEW n \in 0..(Len(stored) - 2)
        PROVE  ~VerifyPassword(p, SubSeq(stored, 1, n))
    <3>1. n \in Nat /\ n <= Len(stored) /\ n + 2 <= Len(stored)
      BY ONLY <2>3, n \in 0..(Len(stored) - 2)
    <3> QED
      BY ONLY <2>1, <2>2, <3>1, stored = HashPassword(p, input), AdmittedByStored
  <2> QED
    BY <2>4, <2>5
<1> QED
  BY <1>1, <1>2, <1>3, PTL DEF EncodeSpec

-----------------------------------------------------------------------------
(* Induction over the natural numbers, of a set.                           *)

\* A set of numbers has a least one.
LEMMA LeastNumber ==
    ASSUME NEW T, T \subseteq Nat, T # {}
    PROVE  \E m \in T : \A n \in T : m <= n
<1>1. PICK R : R = OpToRel(<, Nat)
  BY Zenon
<1>2. \E m \in T : \A n \in T : ~(<<n, m>> \in R)
  BY <1>1, NatLessThanWellFounded, WFMin, Zenon
<1>3. \A m, n \in Nat : n < m => <<n, m>> \in R
  BY <1>1, Zenon DEF OpToRel
<1>4. PICK m \in T : \A n \in T : ~(<<n, m>> \in R)
  BY <1>2
<1>5. \A n \in T : m <= n
  <2> TAKE n \in T
  <2>1. m \in Nat /\ n \in Nat /\ ~(n < m)
    BY <1>3, <1>4
  <2> QED
    BY <2>1
<1> QED
  BY <1>5

\* A set has all numbers up to N that has 0 and with each below N the next one.
LEMMA UpTo ==
    ASSUME NEW N \in Nat, NEW S, 0 \in S, \A n \in 0..(N - 1) : n \in S => n + 1 \in S
    PROVE  0..N \subseteq S
<1> SUFFICES ASSUME ~(0..N \subseteq S) PROVE FALSE
  OBVIOUS
<1>1. PICK T : T = {n \in 0..N : n \notin S}
  OBVIOUS
<1>2. T \subseteq Nat /\ T # {}
  BY <1>1
<1>3. PICK m \in T : \A n \in T : m <= n
  BY <1>2, LeastNumber
<1>4. m \in 1..N /\ m \notin S
  <2>1. m \in 0..N /\ m \notin S
    BY <1>1
  <2>2. m # 0
    BY <2>1
  <2> QED
    BY <2>1, <2>2
<1>5. m - 1 \in 0..(N - 1) /\ m - 1 \in 0..N /\ (m - 1) + 1 = m
  BY <1>4
<1>6. m - 1 \in S
  <2>1. m - 1 \notin T
    BY <1>3, <1>4
  <2> QED
    BY <1>1, <1>5, <2>1
<1> QED
  BY <1>4, <1>5, <1>6

\* The encoder's loop has a state after every byte.
LEMMA EncodeTurns ==
    ASSUME NEW bytes, NEW N \in Nat, Len(bytes) = N
    PROVE  \E f : /\ f[0] = [current |-> 0, bits |-> 0, out |-> <<>>]
                  /\ \A n \in 1..N : f[n] = Encode32Step(f[n - 1], bytes[n])
                  /\ Encode32Turns(bytes) = f[N]
<1> DEFINE Turn(f, n) == IF n = 0 THEN [current |-> 0, bits |-> 0, out |-> <<>>]
                                  ELSE Encode32Step(f[n - 1], bytes[n])
           S == {n \in 0..N : \E f : f = [m \in 0..n |-> Turn(f, m)]}
<1>1. 0 \in S
  <2>1. PICK f : f = [m \in 0..0 |-> [current |-> 0, bits |-> 0, out |-> <<>>]]
    OBVIOUS
  <2>2. f = [m \in 0..0 |-> Turn(f, m)]
    BY <2>1
  <2> QED
    BY <2>2
<1>2. ASSUME NEW n \in 0..(N - 1), n \in S
      PROVE  n + 1 \in S
  <2>1. PICK f : f = [m \in 0..n |-> Turn(f, m)]
    BY <1>2
  <2>2. PICK g : g = [m \in 0..(n + 1) |-> IF m = n + 1 THEN Turn(f, n + 1) ELSE f[m]]
    OBVIOUS
  <2>3. \A m \in 0..(n + 1) : g[m] = Turn(g, m)
    <3> TAKE m \in 0..(n + 1)
    <3>1. CASE m = 0
      BY <2>1, <2>2, <3>1
    <3>2. CASE m \in 1..n
      <4>1. g[m] = f[m] /\ g[m - 1] = f[m - 1]
        BY <2>2, <3>2
      <4>2. f[m] = Turn(f, m) /\ m # 0
        BY <2>1, <3>2
      <4> QED
        BY <4>1, <4>2
    <3>3. CASE m = n + 1
      <4>1. g[m] = Turn(f, m) /\ g[m - 1] = f[m - 1] /\ m # 0
        BY <2>2, <3>3
      <4> QED
        BY <4>1
    <3> QED
      BY <3>1, <3>2, <3>3
  <2>4. g = [m \in 0..(n + 1) |-> Turn(g, m)]
    BY <2>2, <2>3
  <2> QED
    BY <2>4
<1>3. N \in S
  <2>1. 0..N \subseteq S
    BY <1>1, <1>2, UpTo
  <2> QED
    BY <2>1
<1>4. PICK f : f = [n \in 0..N |-> Turn(f, n)] /\ Encode32Turns(bytes) = f[N]
  <2>1. \E f : f = [n \in 0..N |-> Turn(f, n)]
    BY <1>3
  <2>2. PICK f : f = CHOOSE h : h = [n \in 0..N |-> Turn(h, n)]
    OBVIOUS
  <2>3. f = [n \in 0..N |-> Turn(f, n)]
    BY <2>1, <2>2
  <2>4. Encode32Turns(bytes) = f[N]
    BY <2>2 DEF Encode32Turns
  <2> QED
    BY <2>3, <2>4
<1>5. f[0] = [current |-> 0, bits |-> 0, out |-> <<>>]
  BY <1>4
<1>6. ASSUME NEW n \in 1..N
      PROVE  f[n] = Encode32Step(f[n - 1], bytes[n])
  BY <1>4
<1> QED
  BY <1>4, <1>5, <1>6

\* So has the decoder's after every digit.
LEMMA DecodeTurns ==
    ASSUME NEW digits, NEW N \in Nat, Len(digits) = N
    PROVE  \E f : /\ f[0] = [buffer |-> 0, bits |-> 0, out |-> <<>>]
                  /\ \A n \in 1..N : f[n] = Decode32Step(f[n - 1], digits[n])
                  /\ Decode32Turns(digits) = f[N]
<1> DEFINE Turn(f, n) == IF n = 0 THEN [buffer |-> 0, bits |-> 0, out |-> <<>>]
                                  ELSE Decode32Step(f[n - 1], digits[n])
           S == {n \in 0..N : \E f : f = [m \in 0..n |-> Turn(f, m)]}
<1>1. 0 \in S
  <2>1. PICK f : f = [m \in 0..0 |-> [buffer |-> 0, bits |-> 0, out |-> <<>>]]
    OBVIOUS
  <2>2. f = [m \in 0..0 |-> Turn(f, m)]
    BY <2>1
  <2> QED
    BY <2>2
<1>2. ASSUME NEW n \in 0..(N - 1), n \in S
      PROVE  n + 1 \in S
  <2>1. PICK f : f = [m \in 0..n |-> Turn(f, m)]
    BY <1>2
  <2>2. PICK g : g = [m \in 0..(n + 1) |-> IF m = n + 1 THEN Turn(f, n + 1) ELSE f[m]]
    OBVIOUS
  <2>3. \A m \in 0..(n + 1) : g[m] = Turn(g, m)
    <3> TAKE m \in 0..(n + 1)
    <3>1. CASE m = 0
      BY <2>1, <2>2, <3>1
    <3>2. CASE m \in 1..n
      <4>1. g[m] = f[m] /\ g[m - 1] = f[m - 1]
        BY <2>2, <3>2
      <4>2. f[m] = Turn(f, m) /\ m # 0
        BY <2>1, <3>2
      <4> QED
        BY <4>1, <4>2
    <3>3. CASE m = n + 1
      <4>1. g[m] = Turn(f, m) /\ g[m - 1] = f[m - 1] /\ m # 0
        BY <2>2, <3>3
      <4> QED
        BY <4>1
    <3> QED
      BY <3>1, <3>2, <3>3
  <2>4. g = [m \in 0..(n + 1) |-> Turn(g, m)]
    BY <2>2, <2>3
  <2> QED
    BY <2>4
<1>3. N \in S
  <2>1. 0..N \subseteq S
    BY <1>1, <1>2, UpTo
  <2> QED
    BY <2>1
<1>4. PICK f : f = [n \in 0..N |-> Turn(f, n)] /\ Decode32Turns(digits) = f[N]
  <2>1. \E f : f = [n \in 0..N |-> Turn(f, n)]
    BY <1>3
  <2>2. PICK f : f = CHOOSE h : h = [n \in 0..N |-> Turn(h, n)]
    OBVIOUS
  <2>3. f = [n \in 0..N |-> Turn(f, n)]
    BY <2>1, <2>2
  <2>4. Decode32Turns(digits) = f[N]
    BY <2>2 DEF Decode32Turns
  <2> QED
    BY <2>3, <2>4
<1>5. f[0] = [buffer |-> 0, bits |-> 0, out |-> <<>>]
  BY <1>4
<1>6. ASSUME NEW n \in 1..N
      PROVE  f[n] = Decode32Step(f[n - 1], digits[n])
  BY <1>4
<1> QED
  BY <1>4, <1>5, <1>6

-----------------------------------------------------------------------------
(* Base32.  A digit at bit r of a byte is made of that byte and the next;  *)
(* behind the last byte there are zeros.                                   *)

ByteAt(bytes, p) == IF p \in 1..Len(bytes) THEN bytes[p] ELSE 0

\* The digit at bit r of byte b, when c is the next one.
DigitAt(r, b, c) ==
    CASE r = 0 -> b \div 8
      [] r = 1 -> (b \div 4) % 32
      [] r = 2 -> (b \div 2) % 32
      [] r = 3 -> b % 32
      [] r = 4 -> (b % 16) * 2 + (c \div 128)
      [] r = 5 -> (b % 8) * 4 + (c \div 64)
      [] r = 6 -> (b % 4) * 8 + (c \div 32)
      [] r = 7 -> (b % 2) * 16 + (c \div 16)

LEMMA ByteAtType ==
    ASSUME NEW bytes \in Seq(Octet), NEW p PROVE ByteAt(bytes, p) \in Octet
<1>1. CASE p \in 1..Len(bytes)
  BY <1>1, ElementOfSeq DEF ByteAt
<1>2. CASE p \notin 1..Len(bytes)
  BY <1>2 DEF ByteAt, Octet
<1> QED
  BY <1>1, <1>2

LEMMA PowersOfTwo ==
    /\ 2^0 = 1 /\ 2^1 = 2 /\ 2^2 = 4 /\ 2^3 = 8
    /\ 2^4 = 16 /\ 2^5 = 32 /\ 2^6 = 64 /\ 2^7 = 128
    /\ \A n \in 0..7 : 2^n \in {1, 2, 4, 8, 16, 32, 64, 128}
<1>1. /\ 2^0 = 1 /\ 2^1 = 2 /\ 2^2 = 4 /\ 2^3 = 8
      /\ 2^4 = 16 /\ 2^5 = 32 /\ 2^6 = 64 /\ 2^7 = 128
  OBVIOUS
<1>2. ASSUME NEW n \in 0..7
      PROVE  2^n \in {1, 2, 4, 8, 16, 32, 64, 128}
  <2>1. n = 0 \/ n = 1 \/ n = 2 \/ n = 3 \/ n = 4 \/ n = 5 \/ n = 6 \/ n = 7
    OBVIOUS
  <2>2. /\ n = 0 => 2^n = 1
        /\ n = 1 => 2^n = 2
        /\ n = 2 => 2^n = 4
        /\ n = 3 => 2^n = 8
        /\ n = 4 => 2^n = 16
        /\ n = 5 => 2^n = 32
        /\ n = 6 => 2^n = 64
        /\ n = 7 => 2^n = 128
    BY ONLY <1>1, Zenon
  <2> QED
    BY ONLY <2>1, <2>2
<1> QED
  BY ONLY <1>1, <1>2, Zenon

LEMMA FiveBits ==
    ASSUME NEW b \in Octet
    PROVE  /\ 16 * ((b \div 128) % 2) + 8 * ((b \div 64) % 2) + 4 * ((b \div 32) % 2)
                  + 2 * ((b \div 16) % 2) + ((b \div 8) % 2) = b \div 8
           /\ 16 * ((b \div 64) % 2) + 8 * ((b \div 32) % 2) + 4 * ((b \div 16) % 2)
                  + 2 * ((b \div 8) % 2) + ((b \div 4) % 2) = (b \div 4) % 32
           /\ 16 * ((b \div 32) % 2) + 8 * ((b \div 16) % 2) + 4 * ((b \div 8) % 2)
                  + 2 * ((b \div 4) % 2) + ((b \div 2) % 2) = (b \div 2) % 32
           /\ 16 * ((b \div 16) % 2) + 8 * ((b \div 8) % 2) + 4 * ((b \div 4) % 2)
                  + 2 * ((b \div 2) % 2) + (b % 2) = b % 32
<1>1. b \in 0..255
  BY DEF Octet
<1>2. /\ 2 * ((b \div 128) % 2) + ((b \div 64) % 2) = b \div 64
      /\ 2 * ((b \div 64) % 2) + ((b \div 32) % 2) = (b \div 32) % 4
      /\ 2 * ((b \div 32) % 2) + ((b \div 16) % 2) = (b \div 16) % 4
      /\ 2 * ((b \div 16) % 2) + ((b \div 8) % 2) = (b \div 8) % 4
      /\ 2 * ((b \div 8) % 2) + ((b \div 4) % 2) = (b \div 4) % 4
      /\ 2 * ((b \div 4) % 2) + ((b \div 2) % 2) = (b \div 2) % 4
      /\ 2 * ((b \div 2) % 2) + (b % 2) = b % 4
  BY ONLY <1>1
<1>3. 8 * (b \div 64) + 2 * ((b \div 16) % 4) + ((b \div 8) % 2) = b \div 8
  BY ONLY <1>1
<1>4. 8 * ((b \div 32) % 4) + 2 * ((b \div 8) % 4) + ((b \div 4) % 2) = (b \div 4) % 32
  BY ONLY <1>1
<1>5. 8 * ((b \div 16) % 4) + 2 * ((b \div 4) % 4) + ((b \div 2) % 2) = (b \div 2) % 32
  BY ONLY <1>1
<1>6. 8 * ((b \div 8) % 4) + 2 * ((b \div 2) % 4) + (b % 2) = b % 32
  BY ONLY <1>1
<1> QED
  BY ONLY <1>1, <1>2, <1>3, <1>4, <1>5, <1>6

\* The lowest bits of a byte and its highest.
LEMMA BitsAtTheEnds ==
    ASSUME NEW b \in Octet
    PROVE  /\ 8 * ((b \div 8) % 2) + 4 * ((b \div 4) % 2) + 2 * ((b \div 2) % 2) + (b % 2) = b % 16
           /\ 4 * ((b \div 4) % 2) + 2 * ((b \div 2) % 2) + (b % 2) = b % 8
           /\ 2 * ((b \div 2) % 2) + (b % 2) = b % 4
           /\ (b \div 128) % 2 = b \div 128
           /\ 2 * ((b \div 128) % 2) + ((b \div 64) % 2) = b \div 64
           /\ 4 * ((b \div 128) % 2) + 2 * ((b \div 64) % 2) + ((b \div 32) % 2) = b \div 32
           /\ 8 * ((b \div 128) % 2) + 4 * ((b \div 64) % 2) + 2 * ((b \div 32) % 2)
                  + ((b \div 16) % 2) = b \div 16
<1>1. b \in 0..255
  BY DEF Octet
<1> QED
  BY ONLY <1>1

\* A bit is one of its byte.
LEMMA BitOfByte ==
    ASSUME NEW bytes \in Seq(Octet), NEW q \in Nat, NEW j \in 0..7
    PROVE  Bit(bytes, 8 * q + j) = (ByteAt(bytes, q + 1) \div 2^(7 - j)) % 2
<1> PICK b : b = ByteAt(bytes, q + 1)
  OBVIOUS
<1> SUFFICES Bit(bytes, 8 * q + j) = (b \div 2^(7 - j)) % 2
  BY Zenon
<1>0. Len(bytes) \in Nat /\ (8 * q + j) \div 8 = q /\ (8 * q + j) % 8 = j
  BY LenProperties
<1>1. CASE q < Len(bytes)
  <2>1. Bit(bytes, 8 * q + j) = (bytes[q + 1] \div 2^(7 - j)) % 2
    BY <1>0, <1>1 DEF Bit
  <2>2. q + 1 \in 1..Len(bytes)
    BY <1>0, <1>1
  <2>3. b = bytes[q + 1]
    BY <2>2 DEF ByteAt
  <2> QED
    BY ONLY <2>1, <2>3
<1>2. CASE ~(q < Len(bytes))
  <2>1. Bit(bytes, 8 * q + j) = 0
    BY <1>0, <1>2 DEF Bit
  <2>2. b = 0
    <3>1. q + 1 \notin 1..Len(bytes)
      BY <1>0, <1>2
    <3> QED
      BY <3>1 DEF ByteAt
  <2>3. 2^(7 - j) \in Nat /\ 2^(7 - j) > 0
    <3>1. 7 - j \in 0..7
      OBVIOUS
    <3>2. 2^(7 - j) \in {1, 2, 4, 8, 16, 32, 64, 128}
      BY <3>1, PowersOfTwo, Zenon
    <3> QED
      BY <3>2
  <2>4. (0 \div 2^(7 - j)) % 2 = 0
    BY <2>3
  <2> QED
    BY <2>1, <2>2, <2>4
<1> QED
  BY <1>1, <1>2

\* The bits of a byte.
BitsAre(bytes, k, b) ==
    /\ Bit(bytes, k) = (b \div 128) % 2
    /\ Bit(bytes, k + 1) = (b \div 64) % 2
    /\ Bit(bytes, k + 2) = (b \div 32) % 2
    /\ Bit(bytes, k + 3) = (b \div 16) % 2
    /\ Bit(bytes, k + 4) = (b \div 8) % 2
    /\ Bit(bytes, k + 5) = (b \div 4) % 2
    /\ Bit(bytes, k + 6) = (b \div 2) % 2
    /\ Bit(bytes, k + 7) = b % 2

LEMMA BitsOfByte ==
    ASSUME NEW bytes \in Seq(Octet), NEW q \in Nat, NEW b, b = ByteAt(bytes, q + 1)
    PROVE  BitsAre(bytes, 8 * q, b)
<1>1. PICK k \in Nat : k = 8 * q
  OBVIOUS
<1>2. ASSUME NEW j \in 0..7
      PROVE  Bit(bytes, k + j) = (b \div 2^(7 - j)) % 2
  <2>1. Bit(bytes, 8 * q + j) = (ByteAt(bytes, q + 1) \div 2^(7 - j)) % 2
    BY BitOfByte
  <2> QED
    BY ONLY <1>1, <2>1, b = ByteAt(bytes, q + 1), Zenon
<1>3. /\ 2^(7 - 0) = 128 /\ 2^(7 - 1) = 64 /\ 2^(7 - 2) = 32 /\ 2^(7 - 3) = 16
      /\ 2^(7 - 4) = 8 /\ 2^(7 - 5) = 4 /\ 2^(7 - 6) = 2 /\ 2^(7 - 7) = 1
  OBVIOUS
<1>4. b \in Octet
  BY ByteAtType
<1>5. b \div 1 = b /\ k + 0 = k
  BY <1>1, <1>4 DEF Octet
<1>6. Bit(bytes, k) = (b \div 128) % 2 /\ Bit(bytes, k + 1) = (b \div 64) % 2
  BY <1>2, <1>3, <1>5
<1>7. Bit(bytes, k + 2) = (b \div 32) % 2 /\ Bit(bytes, k + 3) = (b \div 16) % 2
  BY <1>2, <1>3
<1>8. Bit(bytes, k + 4) = (b \div 8) % 2 /\ Bit(bytes, k + 5) = (b \div 4) % 2
  BY <1>2, <1>3
<1>9. Bit(bytes, k + 6) = (b \div 2) % 2 /\ Bit(bytes, k + 7) = b % 2
  BY <1>2, <1>3, <1>5
<1> QED
  BY ONLY <1>1, <1>6, <1>7, <1>8, <1>9, Zenon DEF BitsAre

\* The digit at bit r of the byte at q + 1.
LEMMA QuintetIs ==
    ASSUME NEW bytes \in Seq(Octet), NEW q \in Nat, NEW r \in 0..7
    PROVE  Quintet(bytes, 8 * q + r) = DigitAt(r, ByteAt(bytes, q + 1), ByteAt(bytes, q + 2))
<1> PICK b, c : b = ByteAt(bytes, q + 1) /\ c = ByteAt(bytes, q + 2)
  OBVIOUS
<1> SUFFICES Quintet(bytes, 8 * q + r) = DigitAt(r, b, c)
  BY Zenon
<1>1. b \in Octet /\ c \in Octet
  BY ByteAtType
<1>2. PICK k \in Nat : k = 8 * q
  OBVIOUS
<1>3. BitsAre(bytes, k, b)
  BY <1>2, BitsOfByte
<1>4. BitsAre(bytes, k + 8, c)
  <2>1. 8 * (q + 1) = k + 8 /\ q + 1 \in Nat /\ (q + 1) + 1 = q + 2
    BY <1>2
  <2> QED
    BY <2>1, BitsOfByte
<1>5. /\ (k + 8) + 1 = k + 9 /\ (k + 8) + 2 = k + 10 /\ (k + 8) + 3 = k + 11
      /\ (k + 8) + 4 = k + 12 /\ (k + 8) + 5 = k + 13 /\ (k + 8) + 6 = k + 14
  OBVIOUS
<1>6. \A x \in Octet : /\ (x \div 128) % 2 \in Int /\ (x \div 64) % 2 \in Int
                       /\ (x \div 32) % 2 \in Int /\ (x \div 16) % 2 \in Int
                       /\ (x \div 8) % 2 \in Int /\ (x \div 4) % 2 \in Int
                       /\ (x \div 2) % 2 \in Int /\ x % 2 \in Int
  BY DEF Octet
<1>7. PICK b0 \in Int, b1 \in Int, b2 \in Int, b3 \in Int, b4 \in Int, b5 \in Int, b6 \in Int, b7 \in Int :
         /\ b0 = (b \div 128) % 2 /\ b1 = (b \div 64) % 2 /\ b2 = (b \div 32) % 2
         /\ b3 = (b \div 16) % 2 /\ b4 = (b \div 8) % 2 /\ b5 = (b \div 4) % 2
         /\ b6 = (b \div 2) % 2 /\ b7 = b % 2
  BY ONLY <1>1, <1>6
<1>8. PICK c0 \in Int, c1 \in Int, c2 \in Int, c3 \in Int :
         /\ c0 = (c \div 128) % 2 /\ c1 = (c \div 64) % 2
         /\ c2 = (c \div 32) % 2 /\ c3 = (c \div 16) % 2
  BY ONLY <1>1, <1>6
<1>9. /\ Bit(bytes, k) = b0 /\ Bit(bytes, k + 1) = b1 /\ Bit(bytes, k + 2) = b2
      /\ Bit(bytes, k + 3) = b3 /\ Bit(bytes, k + 4) = b4 /\ Bit(bytes, k + 5) = b5
      /\ Bit(bytes, k + 6) = b6 /\ Bit(bytes, k + 7) = b7
  BY ONLY <1>3, <1>7, Zenon DEF BitsAre
<1>10. /\ Bit(bytes, k + 8) = c0 /\ Bit(bytes, k + 9) = c1
       /\ Bit(bytes, k + 10) = c2 /\ Bit(bytes, k + 11) = c3
  BY ONLY <1>4, <1>5, <1>8, Zenon DEF BitsAre
<1>11. CASE r = 0
  <2>1. Quintet(bytes, k + r) = 8 * (2 * b0 + b1) + 2 * (2 * b2 + b3) + b4
    <3>1. /\ (k + r) + 1 = k + 1 /\ (k + r) + 2 = k + 2 /\ ((k + r) + 2) + 1 = k + 3
          /\ (k + r) + 4 = k + 4 /\ k + r = k
      BY <1>11
    <3> QED
      BY ONLY <1>9, <1>10, <3>1, Zenon DEF Quintet, Pair
  <2>2. 16 * b0 + 8 * b1 + 4 * b2 + 2 * b3 + b4 = b \div 8
    BY ONLY <1>1, <1>7, FiveBits, Zenon
  <2>3. DigitAt(r, b, c) = b \div 8
    BY ONLY <1>11 DEF DigitAt
  <2> QED
    BY ONLY <1>2, <2>1, <2>2, <2>3
<1>12. CASE r = 1
  <2>1. Quintet(bytes, k + r) = 8 * (2 * b1 + b2) + 2 * (2 * b3 + b4) + b5
    <3>1. /\ (k + r) + 1 = k + 2 /\ (k + r) + 2 = k + 3 /\ ((k + r) + 2) + 1 = k + 4
          /\ (k + r) + 4 = k + 5 /\ k + r = k + 1
      BY <1>12
    <3> QED
      BY ONLY <1>9, <1>10, <3>1, Zenon DEF Quintet, Pair
  <2>2. 16 * b1 + 8 * b2 + 4 * b3 + 2 * b4 + b5 = (b \div 4) % 32
    BY ONLY <1>1, <1>7, FiveBits, Zenon
  <2>3. DigitAt(r, b, c) = (b \div 4) % 32
    BY ONLY <1>12 DEF DigitAt
  <2> QED
    BY ONLY <1>2, <2>1, <2>2, <2>3
<1>13. CASE r = 2
  <2>1. Quintet(bytes, k + r) = 8 * (2 * b2 + b3) + 2 * (2 * b4 + b5) + b6
    <3>1. /\ (k + r) + 1 = k + 3 /\ (k + r) + 2 = k + 4 /\ ((k + r) + 2) + 1 = k + 5
          /\ (k + r) + 4 = k + 6 /\ k + r = k + 2
      BY <1>13
    <3> QED
      BY ONLY <1>9, <1>10, <3>1, Zenon DEF Quintet, Pair
  <2>2. 16 * b2 + 8 * b3 + 4 * b4 + 2 * b5 + b6 = (b \div 2) % 32
    BY ONLY <1>1, <1>7, FiveBits, Zenon
  <2>3. DigitAt(r, b, c) = (b \div 2) % 32
    BY ONLY <1>13 DEF DigitAt
  <2> QED
    BY ONLY <1>2, <2>1, <2>2, <2>3
<1>14. CASE r = 3
  <2>1. Quintet(bytes, k + r) = 8 * (2 * b3 + b4) + 2 * (2 * b5 + b6) + b7
    <3>1. /\ (k + r) + 1 = k + 4 /\ (k + r) + 2 = k + 5 /\ ((k + r) + 2) + 1 = k + 6
          /\ (k + r) + 4 = k + 7 /\ k + r = k + 3
      BY <1>14
    <3> QED
      BY ONLY <1>9, <1>10, <3>1, Zenon DEF Quintet, Pair
  <2>2. 16 * b3 + 8 * b4 + 4 * b5 + 2 * b6 + b7 = b % 32
    BY ONLY <1>1, <1>7, FiveBits, Zenon
  <2>3. DigitAt(r, b, c) = b % 32
    BY ONLY <1>14 DEF DigitAt
  <2> QED
    BY ONLY <1>2, <2>1, <2>2, <2>3
<1>15. CASE r = 4
  <2>1. Quintet(bytes, k + r) = 8 * (2 * b4 + b5) + 2 * (2 * b6 + b7) + c0
    <3>1. /\ (k + r) + 1 = k + 5 /\ (k + r) + 2 = k + 6 /\ ((k + r) + 2) + 1 = k + 7
          /\ (k + r) + 4 = k + 8 /\ k + r = k + 4
      BY <1>15
    <3> QED
      BY ONLY <1>9, <1>10, <3>1, Zenon DEF Quintet, Pair
  <2>2. 8 * b4 + 4 * b5 + 2 * b6 + b7 = b % 16 /\ c0 = c \div 128
    BY ONLY <1>1, <1>7, <1>8, BitsAtTheEnds, Zenon
  <2>3. DigitAt(r, b, c) = (b % 16) * 2 + (c \div 128)
    BY ONLY <1>15 DEF DigitAt
  <2>4. DigitAt(r, b, c) = (8 * b4 + 4 * b5 + 2 * b6 + b7) * 2 + (c0)
    BY ONLY <2>2, <2>3, Zenon
  <2> QED
    BY ONLY <1>2, <2>1, <2>4
<1>16. CASE r = 5
  <2>1. Quintet(bytes, k + r) = 8 * (2 * b5 + b6) + 2 * (2 * b7 + c0) + c1
    <3>1. /\ (k + r) + 1 = k + 6 /\ (k + r) + 2 = k + 7 /\ ((k + r) + 2) + 1 = k + 8
          /\ (k + r) + 4 = k + 9 /\ k + r = k + 5
      BY <1>16
    <3> QED
      BY ONLY <1>9, <1>10, <3>1, Zenon DEF Quintet, Pair
  <2>2. 4 * b5 + 2 * b6 + b7 = b % 8 /\ 2 * c0 + c1 = c \div 64
    BY ONLY <1>1, <1>7, <1>8, BitsAtTheEnds, Zenon
  <2>3. DigitAt(r, b, c) = (b % 8) * 4 + (c \div 64)
    BY ONLY <1>16 DEF DigitAt
  <2>4. DigitAt(r, b, c) = (4 * b5 + 2 * b6 + b7) * 4 + (2 * c0 + c1)
    BY ONLY <2>2, <2>3, Zenon
  <2> QED
    BY ONLY <1>2, <2>1, <2>4
<1>17. CASE r = 6
  <2>1. Quintet(bytes, k + r) = 8 * (2 * b6 + b7) + 2 * (2 * c0 + c1) + c2
    <3>1. /\ (k + r) + 1 = k + 7 /\ (k + r) + 2 = k + 8 /\ ((k + r) + 2) + 1 = k + 9
          /\ (k + r) + 4 = k + 10 /\ k + r = k + 6
      BY <1>17
    <3> QED
      BY ONLY <1>9, <1>10, <3>1, Zenon DEF Quintet, Pair
  <2>2. 2 * b6 + b7 = b % 4 /\ 4 * c0 + 2 * c1 + c2 = c \div 32
    BY ONLY <1>1, <1>7, <1>8, BitsAtTheEnds, Zenon
  <2>3. DigitAt(r, b, c) = (b % 4) * 8 + (c \div 32)
    BY ONLY <1>17 DEF DigitAt
  <2>4. DigitAt(r, b, c) = (2 * b6 + b7) * 8 + (4 * c0 + 2 * c1 + c2)
    BY ONLY <2>2, <2>3, Zenon
  <2> QED
    BY ONLY <1>2, <2>1, <2>4
<1>18. CASE r = 7
  <2>1. Quintet(bytes, k + r) = 8 * (2 * b7 + c0) + 2 * (2 * c1 + c2) + c3
    <3>1. /\ (k + r) + 1 = k + 8 /\ (k + r) + 2 = k + 9 /\ ((k + r) + 2) + 1 = k + 10
          /\ (k + r) + 4 = k + 11 /\ k + r = k + 7
      BY <1>18
    <3> QED
      BY ONLY <1>9, <1>10, <3>1, Zenon DEF Quintet, Pair
  <2>2. b7 = b % 2 /\ 8 * c0 + 4 * c1 + 2 * c2 + c3 = c \div 16
    BY ONLY <1>1, <1>7, <1>8, BitsAtTheEnds, Zenon
  <2>3. DigitAt(r, b, c) = (b % 2) * 16 + (c \div 16)
    BY ONLY <1>18 DEF DigitAt
  <2>4. DigitAt(r, b, c) = (b7) * 16 + (8 * c0 + 4 * c1 + 2 * c2 + c3)
    BY ONLY <2>2, <2>3, Zenon
  <2> QED
    BY ONLY <1>2, <2>1, <2>4
<1> QED
  BY ONLY r \in 0..7, <1>11, <1>12, <1>13, <1>14, <1>15, <1>16, <1>17, <1>18

\* A digit is less than 32.
LEMMA QuintetType ==
    ASSUME NEW bytes \in Seq(Octet), NEW k \in Nat
    PROVE  Quintet(bytes, k) \in 0..31
<1>1. PICK q \in Nat, r \in 0..7 : k = 8 * q + r
  <2>1. k = 8 * (k \div 8) + (k % 8) /\ k \div 8 \in Nat /\ k % 8 \in 0..7
    OBVIOUS
  <2> QED
    BY <2>1
<1>2. PICK b, c : b = ByteAt(bytes, q + 1) /\ c = ByteAt(bytes, q + 2)
  OBVIOUS
<1>3. b \in 0..255 /\ c \in 0..255
  BY <1>2, ByteAtType DEF Octet
<1>4. Quintet(bytes, k) = DigitAt(r, b, c)
  <2>1. Quintet(bytes, 8 * q + r) = DigitAt(r, ByteAt(bytes, q + 1), ByteAt(bytes, q + 2))
    BY QuintetIs
  <2> QED
    BY ONLY <1>1, <1>2, <2>1, Zenon
<1>5. DigitAt(r, b, c) \in 0..31
  <2>1. /\ b \div 8 \in 0..31 /\ (b \div 4) % 32 \in 0..31
        /\ (b \div 2) % 32 \in 0..31 /\ b % 32 \in 0..31
        /\ (b % 16) * 2 + (c \div 128) \in 0..31
        /\ (b % 8) * 4 + (c \div 64) \in 0..31
        /\ (b % 4) * 8 + (c \div 32) \in 0..31
        /\ (b % 2) * 16 + (c \div 16) \in 0..31
    BY <1>3
  <2>2. r = 0 \/ r = 1 \/ r = 2 \/ r = 3 \/ r = 4 \/ r = 5 \/ r = 6 \/ r = 7
    OBVIOUS
  <2> QED
    BY ONLY <2>1, <2>2 DEF DigitAt
<1> QED
  BY <1>4, <1>5

LEMMA FiveLowest ==
    ASSUME NEW y \in Int, NEW q \in Int, NEW r \in 0..31, y = 32 * q + r
    PROVE  y % 32 = r
  OBVIOUS

\* Five bits of the last byte.
LEMMA BitsOfLast ==
    ASSUME NEW w \in Nat
    PROVE  /\ (w \div 8) % 32 = (w % 256) \div 8
           /\ (w \div 4) % 32 = ((w % 256) \div 4) % 32
           /\ (w \div 2) % 32 = ((w % 256) \div 2) % 32
           /\ w % 32 = (w % 256) % 32
<1>1. PICK q \in Int, c \in 0..255 : w = 256 * q + c /\ w % 256 = c
  <2>1. w = 256 * (w \div 256) + (w % 256) /\ w \div 256 \in Int /\ w % 256 \in 0..255
    OBVIOUS
  <2> QED
    BY <2>1
<1>2. c \in 0..255
  OBVIOUS
<1>3. w \div 8 = 32 * q + (c \div 8)
  BY ONLY <1>1, <1>2, w \in Nat
<1>4. w \div 4 = 64 * q + (c \div 4)
  BY ONLY <1>1, <1>2, w \in Nat
<1>5. w \div 2 = 128 * q + (c \div 2)
  BY ONLY <1>1, <1>2, w \in Nat
<1>6. /\ (32 * q + (c \div 8)) % 32 = c \div 8
      /\ (64 * q + (c \div 4)) % 32 = (c \div 4) % 32
      /\ (128 * q + (c \div 2)) % 32 = (c \div 2) % 32
      /\ (256 * q + c) % 32 = c % 32
  BY ONLY <1>2
<1> QED
  BY ONLY <1>1, <1>3, <1>4, <1>5, <1>6

\* Five bits of the last two, p and c.
LEMMA BitsOfTwo ==
    ASSUME NEW w \in Nat, NEW p \in Octet, NEW c \in Octet, w % 4096 = (p % 16) * 256 + c
    PROVE  /\ (w \div 128) % 32 = (p % 16) * 2 + (c \div 128)
           /\ (w \div 64) % 32 = (p % 8) * 4 + (c \div 64)
           /\ (w \div 32) % 32 = (p % 4) * 8 + (c \div 32)
           /\ (w \div 16) % 32 = (p % 2) * 16 + (c \div 16)
<1>1. PICK q \in Int : w = 4096 * q + ((p % 16) * 256 + c)
  <2>1. w = 4096 * (w \div 4096) + (w % 4096) /\ w \div 4096 \in Int
    OBVIOUS
  <2> QED
    BY <2>1
<1>2. PICK l \in 0..15 : l = p % 16 /\ l % 8 = p % 8 /\ l % 4 = p % 4 /\ l % 2 = p % 2
  <2>1. p \in 0..255
    BY ONLY p \in Octet DEF Octet
  <2>2. /\ p % 16 \in 0..15 /\ (p % 16) % 8 = p % 8
        /\ (p % 16) % 4 = p % 4 /\ (p % 16) % 2 = p % 2
    BY ONLY <2>1
  <2> QED
    BY ONLY <2>2
<1>3. w \in Nat /\ w = 4096 * q + (l * 256 + c) /\ c \in 0..255
  BY <1>1, <1>2 DEF Octet
<1>4. w \div 128 = 32 * q + (l * 2 + (c \div 128)) /\ l * 2 + (c \div 128) \in 0..31
  BY ONLY <1>3
<1>5. /\ w \div 64 = 32 * (2 * q + (l \div 8)) + ((l % 8) * 4 + (c \div 64))
      /\ (l % 8) * 4 + (c \div 64) \in 0..31
  BY ONLY <1>3
<1>6. /\ w \div 32 = 32 * (4 * q + (l \div 4)) + ((l % 4) * 8 + (c \div 32))
      /\ (l % 4) * 8 + (c \div 32) \in 0..31
  BY ONLY <1>3
<1>7. /\ w \div 16 = 32 * (8 * q + (l \div 2)) + ((l % 2) * 16 + (c \div 16))
      /\ (l % 2) * 16 + (c \div 16) \in 0..31
  BY ONLY <1>3
<1>8. /\ w \div 128 \in Int /\ w \div 64 \in Int /\ w \div 32 \in Int /\ w \div 16 \in Int
      /\ 2 * q + (l \div 8) \in Int /\ 4 * q + (l \div 4) \in Int /\ 8 * q + (l \div 2) \in Int
  OBVIOUS
<1>9. (w \div 128) % 32 = l * 2 + (c \div 128)
  BY ONLY <1>4, <1>8, q \in Int, FiveLowest
<1>10. (w \div 64) % 32 = (l % 8) * 4 + (c \div 64)
  BY ONLY <1>5, <1>8, FiveLowest
<1>11. (w \div 32) % 32 = (l % 4) * 8 + (c \div 32)
  BY ONLY <1>6, <1>8, FiveLowest
<1>12. (w \div 16) % 32 = (l % 2) * 16 + (c \div 16)
  BY ONLY <1>7, <1>8, FiveLowest
<1> QED
  BY ONLY <1>2, <1>9, <1>10, <1>11, <1>12

\* The integer that ends in the last byte, and in half of the one before.
EndsIn(w, bytes, n) ==
    /\ w \in Nat
    /\ n >= 1 => w % 256 = bytes[n]
    /\ n >= 2 => w % 4096 = (bytes[n - 1] % 16) * 256 + bytes[n]

\* Shifted by k it ends in the digit that has k bits behind it.
LEMMA DigitOfWord ==
    ASSUME NEW bytes \in Seq(Octet), NEW n \in 1..Len(bytes), NEW w, EndsIn(w, bytes, n),
           NEW k \in 0..7, n >= 2 \/ k <= 3
    PROVE  (w \div 2^k) % 32 = Quintet(bytes, 8 * n - 5 - k)
<1> PICK at \in Int : at = 8 * n - 5 - k
  OBVIOUS
<1> SUFFICES (w \div 2^k) % 32 = Quintet(bytes, at)
  BY Zenon
<1>0. n \in Nat /\ n >= 1 /\ n <= Len(bytes) /\ w \in Nat /\ Len(bytes) \in Nat
  BY LenProperties DEF EndsIn
<1>1. PICK c \in Octet : c = bytes[n]
  BY ElementOfSeq
<1>2. c = ByteAt(bytes, n) /\ w % 256 = c
  BY <1>0, <1>1 DEF ByteAt, EndsIn
<1>3. CASE k <= 3
  <2>1. PICK q \in Nat, r \in 0..3 : q = n - 1 /\ r = 3 - k /\ at = 8 * q + r
    BY <1>0, <1>3
  <2>2. Quintet(bytes, at) = DigitAt(r, c, ByteAt(bytes, q + 2))
    <3>1. q + 1 = n /\ r \in 0..7
      BY <1>0, <2>1
    <3>2. Quintet(bytes, 8 * q + r) = DigitAt(r, ByteAt(bytes, q + 1), ByteAt(bytes, q + 2))
      BY ONLY <3>1, bytes \in Seq(Octet), q \in Nat, QuintetIs
    <3> QED
      BY ONLY <1>2, <2>1, <3>1, <3>2, Zenon
  <2> w \in Nat /\ w % 256 = c
    BY <1>0, <1>2
  <2>3. /\ (w \div 8) % 32 = c \div 8 /\ (w \div 4) % 32 = (c \div 4) % 32
        /\ (w \div 2) % 32 = (c \div 2) % 32 /\ w % 32 = c % 32
    <3>1. /\ (w \div 8) % 32 = (w % 256) \div 8 /\ (w \div 4) % 32 = ((w % 256) \div 4) % 32
          /\ (w \div 2) % 32 = ((w % 256) \div 2) % 32 /\ w % 32 = (w % 256) % 32
      BY ONLY w \in Nat, BitsOfLast
    <3> QED
      BY ONLY <3>1, w % 256 = c, Zenon
  <2>4. w \div 1 = w
    BY <1>0
  <2>5. CASE k = 0
    <3>1. r = 3
      BY <2>1, <2>5
    <3> QED
      BY ONLY <2>2, <2>3, <2>4, <2>5, <3>1, PowersOfTwo DEF DigitAt
  <2>6. CASE k = 1
    <3>1. r = 2
      BY <2>1, <2>6
    <3> QED
      BY ONLY <2>2, <2>3, <2>6, <3>1, PowersOfTwo DEF DigitAt
  <2>7. CASE k = 2
    <3>1. r = 1
      BY <2>1, <2>7
    <3> QED
      BY ONLY <2>2, <2>3, <2>7, <3>1, PowersOfTwo DEF DigitAt
  <2>8. CASE k = 3
    <3>1. r = 0
      BY <2>1, <2>8
    <3> QED
      BY ONLY <2>2, <2>3, <2>8, <3>1, PowersOfTwo DEF DigitAt
  <2> QED
    BY <1>3, <2>5, <2>6, <2>7, <2>8
<1>4. CASE k > 3
  <2>1. PICK q \in Nat, r \in 4..7 : q = n - 2 /\ r = 11 - k /\ at = 8 * q + r
    BY <1>0, <1>4
  <2>2. PICK p \in Octet : p = bytes[n - 1]
    <3>1. n - 1 \in 1..Len(bytes)
      BY <1>0, <1>4
    <3> QED
      BY <3>1, ElementOfSeq
  <2>3. p = ByteAt(bytes, n - 1) /\ w % 4096 = (p % 16) * 256 + c
    BY <1>0, <1>1, <1>4, <2>2 DEF ByteAt, EndsIn
  <2> w \in Nat /\ w % 4096 = (p % 16) * 256 + c
    BY <1>0, <2>3
  <2>4. Quintet(bytes, at) = DigitAt(r, p, c)
    <3>1. q + 1 = n - 1 /\ q + 2 = n /\ r \in 0..7
      BY <1>0, <2>1
    <3>2. Quintet(bytes, 8 * q + r) = DigitAt(r, ByteAt(bytes, q + 1), ByteAt(bytes, q + 2))
      BY ONLY <3>1, bytes \in Seq(Octet), q \in Nat, QuintetIs
    <3>3. ByteAt(bytes, q + 1) = p /\ ByteAt(bytes, q + 2) = c
      BY ONLY <1>2, <2>3, <3>1
    <3>4. at = 8 * q + r
      BY <2>1
    <3> QED
      BY ONLY <3>2, <3>3, <3>4, Zenon
  <2>5. /\ (w \div 128) % 32 = (p % 16) * 2 + (c \div 128)
        /\ (w \div 64) % 32 = (p % 8) * 4 + (c \div 64)
        /\ (w \div 32) % 32 = (p % 4) * 8 + (c \div 32)
        /\ (w \div 16) % 32 = (p % 2) * 16 + (c \div 16)
    BY ONLY w \in Nat, p \in Octet, c \in Octet, w % 4096 = (p % 16) * 256 + c, BitsOfTwo
  <2>6. CASE k = 4
    <3>1. r = 7
      BY <2>1, <2>6
    <3> QED
      BY ONLY <2>4, <2>5, <2>6, <3>1, PowersOfTwo DEF DigitAt
  <2>7. CASE k = 5
    <3>1. r = 6
      BY <2>1, <2>7
    <3> QED
      BY ONLY <2>4, <2>5, <2>7, <3>1, PowersOfTwo DEF DigitAt
  <2>8. CASE k = 6
    <3>1. r = 5
      BY <2>1, <2>8
    <3> QED
      BY ONLY <2>4, <2>5, <2>8, <3>1, PowersOfTwo DEF DigitAt
  <2>9. CASE k = 7
    <3>1. r = 4
      BY <2>1, <2>9
    <3> QED
      BY ONLY <2>4, <2>5, <2>9, <3>1, PowersOfTwo DEF DigitAt
  <2> QED
    BY <1>4, <2>6, <2>7, <2>8, <2>9
<1> QED
  BY <1>3, <1>4

\* What the encoder's loop has done after n bytes.
EncodedTo(bytes, n, st) ==
    /\ EndsIn(st.current, bytes, n)
    /\ st.bits = (8 * n) % 5
    /\ st.out \in Seq(0..31)
    /\ Len(st.out) = (8 * n) \div 5
    /\ \A i \in 1..((8 * n) \div 5) : st.out[i] = Quintet(bytes, 5 * (i - 1))

LEMMA WordGrows ==
    ASSUME NEW bytes \in Seq(Octet), NEW n \in 0..(Len(bytes) - 1), NEW v, EndsIn(v, bytes, n)
    PROVE  EndsIn(ShiftedIn(v, bytes[n + 1]), bytes, n + 1)
<1>0. Len(bytes) \in Nat /\ n \in Nat /\ n + 1 \in 1..Len(bytes) /\ (n + 1) - 1 = n /\ v \in Nat
  BY LenProperties DEF EndsIn
<1>1. PICK c \in Octet : c = bytes[n + 1]
  BY <1>0, ElementOfSeq
<1>2. PICK w : w = ShiftedIn(v, c)
  OBVIOUS
<1>3. LastAre(w, v, c)
  BY <1>0, <1>2, ByteShiftedIn
<1>4. w \in Nat /\ w % 256 = c
  <2>1. w \in 0..(2^Width - 1) /\ w % 256 = c
    BY ONLY <1>3, Zenon DEF LastAre
  <2> QED
    BY <2>1, PowerAssumption
<1>5. n >= 1 => w % 4096 = (bytes[n] % 16) * 256 + c
  <2> SUFFICES ASSUME n >= 1 PROVE w % 4096 = (bytes[n] % 16) * 256 + c
    OBVIOUS
  <2>1. PICK b \in Octet : b = bytes[n]
    <3>1. n \in 1..Len(bytes)
      BY <1>0
    <3> QED
      BY <3>1, ElementOfSeq
  <2>2. v % 256 = b
    BY <1>0, <2>1 DEF EndsIn
  <2>3. w % 4096 = (b % 16) * 256 + c
    BY ONLY <1>3, <2>2, b \in Octet DEF LastAre
  <2> QED
    BY ONLY <2>1, <2>3
<1>6. n + 1 >= 2 => w % 4096 = (bytes[(n + 1) - 1] % 16) * 256 + bytes[n + 1]
  <2> SUFFICES ASSUME n + 1 >= 2
               PROVE  w % 4096 = (bytes[(n + 1) - 1] % 16) * 256 + bytes[n + 1]
    OBVIOUS
  <2>1. n >= 1 /\ (n + 1) - 1 = n
    BY <1>0
  <2> QED
    BY ONLY <1>1, <1>5, <2>1
<1>7. EndsIn(w, bytes, n + 1)
  BY ONLY <1>1, <1>4, <1>6 DEF EndsIn
<1> QED
  BY ONLY <1>1, <1>2, <1>7, Zenon

\* A turn takes a byte and puts out one digit or two.
LEMMA EncodeTurn ==
    ASSUME NEW bytes \in Seq(Octet), NEW n \in 0..(Len(bytes) - 1),
           NEW st, EncodedTo(bytes, n, st)
    PROVE  EncodedTo(bytes, n + 1, Encode32Step(st, bytes[n + 1]))
<1>0. Len(bytes) \in Nat /\ n \in Nat /\ n + 1 \in 1..Len(bytes)
  BY LenProperties
<1>1. PICK k : k = st.bits
  OBVIOUS
<1>2. PICK o : o = st.out
  OBVIOUS
<1>3. PICK w : w = ShiftedIn(st.current, bytes[n + 1])
  OBVIOUS
<1>4. PICK m : m = (8 * n) \div 5
  OBVIOUS
<1>5. /\ EndsIn(st.current, bytes, n) /\ k = (8 * n) % 5
      /\ o \in Seq(0..31) /\ Len(o) = m
      /\ \A i \in 1..m : o[i] = Quintet(bytes, 5 * (i - 1))
  BY <1>1, <1>2, <1>4 DEF EncodedTo
<1>6. EndsIn(w, bytes, n + 1) /\ w \in Nat
  <2>1. EndsIn(w, bytes, n + 1)
    BY <1>3, <1>5, WordGrows
  <2> QED
    BY <2>1 DEF EndsIn
<1>7. /\ m \in Nat /\ k \in 0..4 /\ 8 * n = 5 * m + k /\ (k + 8) \div 5 \in 1..2
      /\ (8 * (n + 1)) % 5 = (k + 8) % 5 /\ (8 * (n + 1)) \div 5 = m + ((k + 8) \div 5)
  <2>1. m = (8 * n) \div 5 /\ k = (8 * n) % 5 /\ n \in Nat
    BY <1>0, <1>4, <1>5
  <2>2. m \in Nat /\ k \in 0..4 /\ 8 * n = 5 * m + k
    BY ONLY <2>1
  <2>3. (k + 8) \div 5 \in 1..2 /\ 8 * (n + 1) = 5 * m + (k + 8)
    BY ONLY <2>1, <2>2
  <2> QED
    BY ONLY <2>2, <2>3
<1>8. PICK e : e = [i \in 1..((k + 8) \div 5) |-> (w \div 2^((k + 8) - 5 * i)) % 32]
  OBVIOUS
<1>9. ASSUME NEW i \in 1..((k + 8) \div 5)
      PROVE  e[i] = Quintet(bytes, 5 * ((m + i) - 1)) /\ e[i] \in 0..31
  <2>1. PICK j \in 0..7 : j = (k + 8) - 5 * i
    BY <1>7
  <2>2. PICK at \in Nat : at = 5 * ((m + i) - 1)
    BY <1>7
  <2>3. (n + 1 >= 2 \/ j <= 3) /\ at = 8 * (n + 1) - 5 - j
    BY <1>0, <1>7, <2>1, <2>2
  <2>4. (w \div 2^j) % 32 = Quintet(bytes, at)
    <3>1. (w \div 2^j) % 32 = Quintet(bytes, 8 * (n + 1) - 5 - j)
      BY ONLY <1>0, <1>6, <2>3, bytes \in Seq(Octet), j \in 0..7, DigitOfWord
    <3> QED
      BY ONLY <2>3, <3>1
  <2>5. e[i] = (w \div 2^j) % 32
    BY ONLY <1>8, <2>1, i \in 1..((k + 8) \div 5)
  <2>6. Quintet(bytes, at) \in 0..31
    BY QuintetType
  <2> QED
    BY ONLY <2>2, <2>4, <2>5, <2>6, Zenon
<1>10. e \in Seq(0..31) /\ Len(e) = (k + 8) \div 5
  <2>1. (k + 8) \div 5 \in Nat
    BY <1>7
  <2>2. e \in [1..((k + 8) \div 5) -> 0..31]
    BY ONLY <1>8, <1>9
  <2> QED
    <3>1. PICK l \in Nat : l = (k + 8) \div 5
      BY ONLY <2>1
    <3>2. e \in [1..l -> 0..31]
      BY ONLY <2>2, <3>1
    <3>3. e \in Seq(0..31)
      <4>1. PICK D : D = 0..31
        OBVIOUS
      <4>2. e \in [1..l -> D]
        BY ONLY <3>2, <4>1
      <4>3. e \in Seq(D)
        BY <4>2, SeqDef
      <4> QED
        BY ONLY <4>1, <4>3
    <3>4. Len(e) = l
      BY <3>1, <3>2, <3>3, LenProperties
    <3> QED
      BY ONLY <3>1, <3>3, <3>4
<1>11. PICK t : t = Encode32Step(st, bytes[n + 1])
  OBVIOUS
<1>12. /\ t.current = w /\ t.bits = (k + 8) % 5 /\ t.out = o \o e
  BY <1>1, <1>2, <1>3, <1>8, <1>11 DEF Encode32Step, ShiftedIn
<1>13. /\ o \o e \in Seq(0..31) /\ Len(o \o e) = m + ((k + 8) \div 5)
       /\ \A i \in 1..(m + ((k + 8) \div 5)) : (o \o e)[i] = IF i <= m THEN o[i] ELSE e[i - m]
  <2>1. /\ o \o e \in Seq(0..31) /\ Len(o \o e) = Len(o) + Len(e)
        /\ \A i \in 1..(Len(o) + Len(e)) :
              (o \o e)[i] = IF i <= Len(o) THEN o[i] ELSE e[i - Len(o)]
    BY <1>5, <1>10, ConcatProperties
  <2> QED
    BY ONLY <1>5, <1>10, <2>1
<1>14. ASSUME NEW i \in 1..(m + ((k + 8) \div 5))
       PROVE  (o \o e)[i] = Quintet(bytes, 5 * (i - 1))
  <2>1. CASE i <= m
    <3>1. i \in 1..m
      BY <1>7, <2>1
    <3> QED
      BY ONLY <1>5, <1>13, <2>1, <3>1, i \in 1..(m + ((k + 8) \div 5))
  <2>2. CASE ~(i <= m)
    <3>1. i - m \in 1..((k + 8) \div 5) /\ m + (i - m) = i
      BY <1>7, <2>2
    <3>2. e[i - m] = Quintet(bytes, 5 * ((m + (i - m)) - 1))
      BY <1>9, <3>1
    <3> QED
      BY ONLY <1>13, <2>2, <3>1, <3>2, i \in 1..(m + ((k + 8) \div 5))
  <2> QED
    BY <2>1, <2>2
<1>15. EncodedTo(bytes, n + 1, t)
  BY ONLY <1>6, <1>7, <1>12, <1>13, <1>14 DEF EncodedTo
<1> QED
  BY ONLY <1>11, <1>15, Zenon

LEMMA EncodeLoop ==
    ASSUME NEW bytes \in Seq(Octet)
    PROVE  EncodedTo(bytes, Len(bytes), Encode32Turns(bytes))
<1>1. PICK N \in Nat : N = Len(bytes)
  BY LenProperties
<1>2. PICK f : /\ f[0] = [current |-> 0, bits |-> 0, out |-> <<>>]
               /\ \A n \in 1..N : f[n] = Encode32Step(f[n - 1], bytes[n])
               /\ Encode32Turns(bytes) = f[N]
  BY <1>1, EncodeTurns
<1>3. PICK S : S = {n \in 0..N : EncodedTo(bytes, n, f[n])}
  OBVIOUS
<1>4. 0 \in S
  <2>1. f[0].current = 0 /\ f[0].bits = 0 /\ f[0].out = <<>>
    BY <1>2
  <2>2. 0 \in Nat /\ ~(0 >= 1) /\ ~(0 >= 2) /\ 8 * 0 = 0 /\ 0 % 5 = 0 /\ 0 \div 5 = 0 /\ 1..0 = {}
    OBVIOUS
  <2>3. <<>> \in Seq(0..31) /\ Len(<<>>) = 0
    OBVIOUS
  <2>4. EndsIn(0, bytes, 0)
    BY <2>2 DEF EndsIn
  <2>5. EncodedTo(bytes, 0, f[0])
    BY ONLY <2>1, <2>2, <2>3, <2>4 DEF EncodedTo
  <2> QED
    BY <1>1, <1>3, <2>5
<1>5. ASSUME NEW n \in 0..(N - 1), n \in S
      PROVE  n + 1 \in S
  <2>1. EncodedTo(bytes, n, f[n])
    BY <1>3, <1>5
  <2>2. n \in 0..(Len(bytes) - 1) /\ n + 1 \in 1..N /\ n + 1 \in 0..N /\ (n + 1) - 1 = n
    BY <1>1
  <2>3. EncodedTo(bytes, n + 1, Encode32Step(f[n], bytes[n + 1]))
    BY <2>1, <2>2, EncodeTurn
  <2>4. f[n + 1] = Encode32Step(f[n], bytes[n + 1])
    BY ONLY <1>2, <2>2
  <2>5. EncodedTo(bytes, n + 1, f[n + 1])
    BY ONLY <2>3, <2>4, Zenon
  <2> QED
    BY ONLY <1>3, <2>2, <2>5, Zenon
<1>6. 0..N \subseteq S
  BY <1>4, <1>5, UpTo
<1>7. EncodedTo(bytes, N, f[N])
  BY <1>3, <1>6
<1> QED
  BY ONLY <1>1, <1>2, <1>7, Zenon

\* What is left of the last byte, with zeros behind it.
LEMMA TailBits ==
    ASSUME NEW v \in Nat
    PROVE  /\ (v * 2) % 32 = ((v % 256) % 16) * 2
           /\ (v * 4) % 32 = ((v % 256) % 8) * 4
           /\ (v * 8) % 32 = ((v % 256) % 4) * 8
           /\ (v * 16) % 32 = ((v % 256) % 2) * 16
<1>1. PICK q \in Int, c \in 0..255 : v = 256 * q + c /\ v % 256 = c
  <2>1. v = 256 * (v \div 256) + (v % 256) /\ v \div 256 \in Int /\ v % 256 \in 0..255
    OBVIOUS
  <2> QED
    BY <2>1
<1>2. (v * 2) % 32 = (c % 16) * 2
  BY ONLY <1>1
<1>3. (v * 4) % 32 = (c % 8) * 4
  BY ONLY <1>1
<1>4. (v * 8) % 32 = (c % 4) * 8
  BY ONLY <1>1
<1>5. (v * 16) % 32 = (c % 2) * 16
  BY ONLY <1>1
<1> QED
  BY ONLY <1>1, <1>2, <1>3, <1>4, <1>5

LEMMA TailDigit ==
    ASSUME NEW bytes \in Seq(Octet), Len(bytes) >= 1, NEW v, EndsIn(v, bytes, Len(bytes)),
           NEW k \in 1..4
    PROVE  (v * 2^(5 - k)) % 32 = Quintet(bytes, 8 * Len(bytes) - k)
<1>1. PICK n \in Nat : n = Len(bytes) /\ n >= 1
  BY LenProperties
<1>2. PICK q \in Nat, r \in 4..7 : q = n - 1 /\ r = 8 - k
  BY <1>1
<1>3. PICK p \in Octet : p = bytes[n]
  BY <1>1, ElementOfSeq
<1>4. v \in Nat /\ v % 256 = p
  BY <1>1, <1>3 DEF EndsIn
<1>5. ByteAt(bytes, q + 1) = p /\ ByteAt(bytes, q + 2) = 0
  <2>1. q + 1 = n /\ n \in 1..Len(bytes) /\ q + 2 \notin 1..Len(bytes)
    BY ONLY <1>1, <1>2
  <2> QED
    BY ONLY <1>3, <2>1 DEF ByteAt
<1>6. Quintet(bytes, 8 * n - k) = DigitAt(r, p, 0)
  <2>1. r \in 0..7 /\ 8 * q + r = 8 * n - k
    BY ONLY <1>1, <1>2, k \in 1..4
  <2>2. Quintet(bytes, 8 * q + r) = DigitAt(r, ByteAt(bytes, q + 1), ByteAt(bytes, q + 2))
    BY ONLY <2>1, bytes \in Seq(Octet), q \in Nat, QuintetIs
  <2> QED
    BY ONLY <1>5, <2>1, <2>2
<1>7. /\ (v * 2) % 32 = (p % 16) * 2 /\ (v * 4) % 32 = (p % 8) * 4
      /\ (v * 8) % 32 = (p % 4) * 8 /\ (v * 16) % 32 = (p % 2) * 16
  <2>1. /\ (v * 2) % 32 = ((v % 256) % 16) * 2 /\ (v * 4) % 32 = ((v % 256) % 8) * 4
        /\ (v * 8) % 32 = ((v % 256) % 4) * 8 /\ (v * 16) % 32 = ((v % 256) % 2) * 16
    BY ONLY <1>4, TailBits
  <2> QED
    BY ONLY <1>4, <2>1, Zenon
<1>8. /\ DigitAt(4, p, 0) = (p % 16) * 2 /\ DigitAt(5, p, 0) = (p % 8) * 4
      /\ DigitAt(6, p, 0) = (p % 4) * 8 /\ DigitAt(7, p, 0) = (p % 2) * 16
  <2>1. /\ 0 \div 128 = 0 /\ 0 \div 64 = 0 /\ 0 \div 32 = 0 /\ 0 \div 16 = 0
        /\ p % 16 \in Int /\ p % 8 \in Int /\ p % 4 \in Int /\ p % 2 \in Int
    BY DEF Octet
  <2>2. /\ DigitAt(4, p, 0) = (p % 16) * 2 + (0 \div 128)
        /\ DigitAt(5, p, 0) = (p % 8) * 4 + (0 \div 64)
        /\ DigitAt(6, p, 0) = (p % 4) * 8 + (0 \div 32)
        /\ DigitAt(7, p, 0) = (p % 2) * 16 + (0 \div 16)
    BY ONLY DEF DigitAt
  <2> QED
    BY ONLY <2>1, <2>2
<1>9. CASE k = 1
  <2>1. r = 7 /\ 5 - k = 4
    BY <1>2, <1>9
  <2> QED
    BY ONLY <1>1, <1>6, <1>7, <1>8, <2>1, PowersOfTwo, Zenon
<1>10. CASE k = 2
  <2>1. r = 6 /\ 5 - k = 3
    BY <1>2, <1>10
  <2> QED
    BY ONLY <1>1, <1>6, <1>7, <1>8, <2>1, PowersOfTwo, Zenon
<1>11. CASE k = 3
  <2>1. r = 5 /\ 5 - k = 2
    BY <1>2, <1>11
  <2> QED
    BY ONLY <1>1, <1>6, <1>7, <1>8, <2>1, PowersOfTwo, Zenon
<1>12. CASE k = 4
  <2>1. r = 4 /\ 5 - k = 1
    BY <1>2, <1>12
  <2> QED
    BY ONLY <1>1, <1>6, <1>7, <1>8, <2>1, PowersOfTwo, Zenon
<1> QED
  BY ONLY k \in 1..4, <1>9, <1>10, <1>11, <1>12

\* s has the first n digits of bytes.
HasDigits(s, n, bytes) ==
    /\ s \in Seq(0..31) /\ Len(s) = n
    /\ \A i \in 1..n : s[i] = Quintet(bytes, 5 * (i - 1))

LEMMA EncodedDigits ==
    ASSUME NEW bytes \in Seq(Octet)
    PROVE  HasDigits(Encode32Tail(Encode32Turns(bytes)), (8 * Len(bytes) + 4) \div 5, bytes)
<1>1. PICK n \in Nat : n = Len(bytes)
  BY LenProperties
<1>2. PICK st : st = Encode32Turns(bytes)
  OBVIOUS
<1>3. EncodedTo(bytes, n, st)
  BY <1>1, <1>2, EncodeLoop
<1>4. PICK k \in 0..4, m \in Nat : k = (8 * n) % 5 /\ m = (8 * n) \div 5 /\ 8 * n = 5 * m + k
  OBVIOUS
<1>5. PICK o \in Seq(0..31) : o = st.out
  BY <1>3 DEF EncodedTo
<1>6. /\ EndsIn(st.current, bytes, n) /\ st.bits = k /\ Len(o) = m
      /\ \A i \in 1..m : o[i] = Quintet(bytes, 5 * (i - 1))
  BY <1>3, <1>4, <1>5 DEF EncodedTo
<1>7. CASE k = 0
  <2>1. Encode32Tail(st) = o
    BY <1>5, <1>6, <1>7 DEF Encode32Tail
  <2>2. (8 * n + 4) \div 5 = m
    BY ONLY <1>4, <1>7
  <2>3. HasDigits(o, m, bytes)
    BY ONLY <1>6, o \in Seq(0..31) DEF HasDigits
  <2> QED
    BY ONLY <1>1, <1>2, <2>1, <2>2, <2>3, Zenon
<1>8. CASE k > 0
  <2>1. PICK x : x = (st.current * 2^(5 - k)) % 32
    OBVIOUS
  <2>2. x = Quintet(bytes, 5 * m)
    <3>1. n >= 1 /\ k \in 1..4 /\ 8 * n - k = 5 * m
      BY ONLY <1>4, <1>8, n \in Nat
    <3>2. (st.current * 2^(5 - k)) % 32 = Quintet(bytes, 8 * Len(bytes) - k)
      BY ONLY <1>1, <1>6, <3>1, bytes \in Seq(Octet), TailDigit
    <3> QED
      BY ONLY <1>1, <2>1, <3>1, <3>2, Zenon
  <2>3. x \in 0..31
    <3>1. 5 * m \in Nat
      OBVIOUS
    <3>2. Quintet(bytes, 5 * m) \in 0..31
      BY ONLY <3>1, bytes \in Seq(Octet), QuintetType
    <3> QED
      BY ONLY <2>2, <3>2
  <2>4. Encode32Tail(st) = Append(o, x)
    BY <1>5, <1>6, <1>8, <2>1 DEF Encode32Tail
  <2>5. (8 * n + 4) \div 5 = m + 1
    BY ONLY <1>4, <1>8
  <2>6. /\ Append(o, x) \in Seq(0..31) /\ Len(Append(o, x)) = m + 1
        /\ \A i \in 1..m : Append(o, x)[i] = o[i]
        /\ Append(o, x)[m + 1] = x
    BY <1>6, <2>3, AppendProperties
  <2>7. ASSUME NEW i \in 1..(m + 1)
        PROVE  Append(o, x)[i] = Quintet(bytes, 5 * (i - 1))
    <3>1. CASE i = m + 1
      <4>1. i - 1 = m
        BY <3>1
      <4> QED
        BY ONLY <2>2, <2>6, <3>1, <4>1, Zenon
    <3>2. CASE i \in 1..m
      BY ONLY <1>6, <2>6, <3>2, Zenon
    <3>3. i = m + 1 \/ i \in 1..m
      OBVIOUS
    <3> QED
      BY ONLY <3>1, <3>2, <3>3
  <2>8. HasDigits(Append(o, x), m + 1, bytes)
    BY ONLY <2>6, <2>7, Zenon DEF HasDigits
  <2> QED
    BY ONLY <1>1, <1>2, <2>4, <2>5, <2>8, Zenon
<1> QED
  BY <1>7, <1>8

\* The encoder computes Base32.
LEMMA EncodesBase32 ==
    ASSUME NEW bytes \in Seq(Octet)
    PROVE  Base32Encode(bytes) = Base32Of(bytes)
<1>1. PICK s : s = Encode32Tail(Encode32Turns(bytes))
  OBVIOUS
<1>2. PICK n : n = (8 * Len(bytes) + 4) \div 5
  OBVIOUS
<1>3. HasDigits(s, n, bytes)
  BY ONLY <1>1, <1>2, bytes \in Seq(Octet), EncodedDigits, Zenon
<1>4. s = [i \in 1..n |-> Quintet(bytes, 5 * (i - 1))]
  <2>1. s \in Seq(0..31) /\ Len(s) = n /\ \A i \in 1..n : s[i] = Quintet(bytes, 5 * (i - 1))
    BY <1>3 DEF HasDigits
  <2>2. s = [i \in 1..Len(s) |-> s[i]]
    BY <2>1, LenProperties
  <2> QED
    BY ONLY <2>1, <2>2
<1>5. Len(s) = n
  BY <1>3 DEF HasDigits
<1> QED
  BY ONLY <1>1, <1>2, <1>4, <1>5, Zenon DEF Base32Encode, Base32Of, Pad32

-----------------------------------------------------------------------------
(* The decoder of Base32.  Between two digits its buffer has the highest   *)
(* bits of a byte, as many as there are in the digits so far.              *)

Highest(b, r) ==
    CASE r = 0 -> 0
      [] r = 1 -> b \div 128
      [] r = 2 -> b \div 64
      [] r = 3 -> b \div 32
      [] r = 4 -> b \div 16
      [] r = 5 -> b \div 8
      [] r = 6 -> b \div 4
      [] r = 7 -> b \div 2

\* A digit is put behind them.
LEMMA DigitCompletesNone ==
    ASSUME NEW b \in Octet, NEW c \in Octet, NEW r \in 0..2
    PROVE  Highest(b, r) * 32 + DigitAt(r, b, c) = Highest(b, r + 5)
<1>1. b \in 0..255
  BY DEF Octet
<1>2. /\ 0 * 32 + (b \div 8) = b \div 8
      /\ (b \div 128) * 32 + ((b \div 4) % 32) = b \div 4
      /\ (b \div 64) * 32 + ((b \div 2) % 32) = b \div 2
  BY ONLY <1>1
<1>3. CASE r = 0
  <2>1. Highest(b, r) = 0 /\ DigitAt(r, b, c) = b \div 8 /\ Highest(b, r + 5) = b \div 8
    BY ONLY <1>3 DEF Highest, DigitAt
  <2> QED
    BY ONLY <1>2, <2>1
<1>4. CASE r = 1
  <2>1. /\ Highest(b, r) = b \div 128 /\ DigitAt(r, b, c) = (b \div 4) % 32
        /\ Highest(b, r + 5) = b \div 4
    BY ONLY <1>4 DEF Highest, DigitAt
  <2> QED
    BY ONLY <1>2, <2>1
<1>5. CASE r = 2
  <2>1. /\ Highest(b, r) = b \div 64 /\ DigitAt(r, b, c) = (b \div 2) % 32
        /\ Highest(b, r + 5) = b \div 2
    BY ONLY <1>5 DEF Highest, DigitAt
  <2> QED
    BY ONLY <1>2, <2>1
<1> QED
  BY ONLY r \in 0..2, <1>3, <1>4, <1>5

\* Above the lowest k bits of x is b, and they are the highest of c.
Completes(x, k, b, c) == (x \div 2^k) % 256 = b /\ x % 2^k = Highest(c, k)

LEMMA DigitCompletesByte ==
    ASSUME NEW b \in Octet, NEW c \in Octet, NEW r \in 3..7
    PROVE  Completes(Highest(b, r) * 32 + DigitAt(r, b, c), r - 3, b, c)
<1> PICK x : x = Highest(b, r) * 32 + DigitAt(r, b, c)
  OBVIOUS
<1> SUFFICES (x \div 2^(r - 3)) % 256 = b /\ x % 2^(r - 3) = Highest(c, r - 3)
  BY Zenon DEF Completes
<1>1. b \in 0..255 /\ c \in 0..255
  BY DEF Octet
<1>2. CASE r = 3
  <2>1. x = (b \div 32) * 32 + (b % 32)
    BY ONLY <1>2, x = Highest(b, r) * 32 + DigitAt(r, b, c) DEF Highest, DigitAt
  <2>2. (x \div 1) % 256 = b /\ x % 1 = 0
    BY ONLY <1>1, <2>1
  <2>3. r - 3 = 0 /\ Highest(c, r - 3) = 0
    BY ONLY <1>2 DEF Highest
  <2> QED
    BY ONLY <2>2, <2>3, PowersOfTwo, Zenon
<1>3. CASE r = 4
  <2>1. x = (b \div 16) * 32 + ((b % 16) * 2 + (c \div 128))
    BY ONLY <1>3, x = Highest(b, r) * 32 + DigitAt(r, b, c) DEF Highest, DigitAt
  <2>2. x = 2 * b + (c \div 128) /\ c \div 128 \in 0..1
    BY ONLY <1>1, <2>1
  <2>3. (x \div 2) % 256 = b /\ x % 2 = c \div 128
    BY ONLY <1>1, <2>2
  <2>4. r - 3 = 1 /\ Highest(c, r - 3) = c \div 128
    BY ONLY <1>3 DEF Highest
  <2> QED
    BY ONLY <2>3, <2>4, PowersOfTwo, Zenon
<1>4. CASE r = 5
  <2>1. x = (b \div 8) * 32 + ((b % 8) * 4 + (c \div 64))
    BY ONLY <1>4, x = Highest(b, r) * 32 + DigitAt(r, b, c) DEF Highest, DigitAt
  <2>2. x = 4 * b + (c \div 64) /\ c \div 64 \in 0..3
    BY ONLY <1>1, <2>1
  <2>3. (x \div 4) % 256 = b /\ x % 4 = c \div 64
    BY ONLY <1>1, <2>2
  <2>4. r - 3 = 2 /\ Highest(c, r - 3) = c \div 64
    BY ONLY <1>4 DEF Highest
  <2> QED
    BY ONLY <2>3, <2>4, PowersOfTwo, Zenon
<1>5. CASE r = 6
  <2>1. x = (b \div 4) * 32 + ((b % 4) * 8 + (c \div 32))
    BY ONLY <1>5, x = Highest(b, r) * 32 + DigitAt(r, b, c) DEF Highest, DigitAt
  <2>2. x = 8 * b + (c \div 32) /\ c \div 32 \in 0..7
    BY ONLY <1>1, <2>1
  <2>3. (x \div 8) % 256 = b /\ x % 8 = c \div 32
    BY ONLY <1>1, <2>2
  <2>4. r - 3 = 3 /\ Highest(c, r - 3) = c \div 32
    BY ONLY <1>5 DEF Highest
  <2> QED
    BY ONLY <2>3, <2>4, PowersOfTwo, Zenon
<1>6. CASE r = 7
  <2>1. x = (b \div 2) * 32 + ((b % 2) * 16 + (c \div 16))
    BY ONLY <1>6, x = Highest(b, r) * 32 + DigitAt(r, b, c) DEF Highest, DigitAt
  <2>2. x = 16 * b + (c \div 16) /\ c \div 16 \in 0..15
    BY ONLY <1>1, <2>1
  <2>3. (x \div 16) % 256 = b /\ x % 16 = c \div 16
    BY ONLY <1>1, <2>2
  <2>4. r - 3 = 4 /\ Highest(c, r - 3) = c \div 16
    BY ONLY <1>6 DEF Highest
  <2> QED
    BY ONLY <2>3, <2>4, PowersOfTwo, Zenon
<1> QED
  BY ONLY r \in 3..7, <1>2, <1>3, <1>4, <1>5, <1>6

LEMMA HighestType ==
    ASSUME NEW b \in Octet, NEW r \in 0..7 PROVE Highest(b, r) \in Nat
<1>1. /\ b \div 128 \in Nat /\ b \div 64 \in Nat /\ b \div 32 \in Nat /\ b \div 16 \in Nat
      /\ b \div 8 \in Nat /\ b \div 4 \in Nat /\ b \div 2 \in Nat
  BY DEF Octet
<1>2. r = 0 \/ r = 1 \/ r = 2 \/ r = 3 \/ r = 4 \/ r = 5 \/ r = 6 \/ r = 7
  OBVIOUS
<1> QED
  BY ONLY <1>1, <1>2 DEF Highest

\* What the decoder's loop has done after n digits.
DecodedTo(bytes, n, st) ==
    /\ st \in [buffer : Nat, bits : Nat, out : Seq(Octet)]
    /\ st.bits = (5 * n) % 8
    /\ st.buffer = Highest(ByteAt(bytes, ((5 * n) \div 8) + 1), (5 * n) % 8)
    /\ Len(st.out) = (5 * n) \div 8
    /\ \A i \in 1..((5 * n) \div 8) : st.out[i] = bytes[i]

LEMMA DecodeTurn ==
    ASSUME NEW bytes \in Seq(Octet), NEW n \in 0..(((8 * Len(bytes) + 4) \div 5) - 1),
           NEW st, DecodedTo(bytes, n, st)
    PROVE  DecodedTo(bytes, n + 1, Decode32Step(st, Quintet(bytes, 5 * n)))
<1>1. PICK l \in Nat : l = Len(bytes)
  BY LenProperties
<1>2. n \in Nat /\ 5 * (n + 1) <= 8 * l + 4
  <2>1. PICK m \in Int : m = (8 * l + 4) \div 5
    OBVIOUS
  <2>2. n \in 0..(m - 1)
    BY <1>1, <2>1
  <2>3. 5 * m <= 8 * l + 4
    BY ONLY <2>1, l \in Nat
  <2> QED
    BY ONLY <2>2, <2>3, m \in Int
<1>3. PICK q \in Nat, r \in 0..7 : q = (5 * n) \div 8 /\ r = (5 * n) % 8 /\ 5 * n = 8 * q + r
  BY <1>2
<1>4. PICK b \in Octet, c \in Octet : b = ByteAt(bytes, q + 1) /\ c = ByteAt(bytes, q + 2)
  BY ByteAtType
<1>5. PICK o \in Seq(Octet), v \in Nat : o = st.out /\ v = st.buffer
  BY DEF DecodedTo
<1>6. /\ st \in [buffer : Nat, bits : Nat, out : Seq(Octet)]
      /\ st.bits = r /\ v = Highest(b, r) /\ Len(o) = q
      /\ \A i \in 1..q : o[i] = bytes[i]
  BY <1>3, <1>4, <1>5 DEF DecodedTo
<1>7. PICK d \in 0..31 : d = Quintet(bytes, 5 * n)
  <2>1. 5 * n \in Nat
    BY <1>2
  <2> QED
    BY ONLY <2>1, bytes \in Seq(Octet), QuintetType
<1>8. d = DigitAt(r, b, c)
  <2>1. Quintet(bytes, 8 * q + r) = DigitAt(r, ByteAt(bytes, q + 1), ByteAt(bytes, q + 2))
    BY ONLY bytes \in Seq(Octet), q \in Nat, r \in 0..7, QuintetIs
  <2> QED
    BY ONLY <1>3, <1>4, <1>7, <2>1
<1>9. PICK x \in Nat : x = v * 32 + d
  OBVIOUS
<1>10. PICK t : t = Decode32Step(st, d)
  OBVIOUS
<1>11. CASE r \in 0..2
  <2>1. t = [st EXCEPT !.buffer = x, !.bits = r + 5]
    <3>1. st.buffer * 32 + d = x /\ st.bits + 5 = r + 5 /\ ~(r + 5 >= 8)
      BY ONLY <1>5, <1>6, <1>9, <1>11
    <3> QED
      BY ONLY <1>10, <3>1, Zenon DEF Decode32Step
  <2>2. t \in [buffer : Nat, bits : Nat, out : Seq(Octet)] /\ t.buffer = x /\ t.bits = r + 5 /\ t.out = o
    <3>1. r + 5 \in Nat
      OBVIOUS
    <3> QED
      BY ONLY <1>5, <1>6, <2>1, <3>1, x \in Nat, o \in Seq(Octet)
  <2>3. (5 * (n + 1)) \div 8 = q /\ (5 * (n + 1)) % 8 = r + 5
    <3>1. 5 * (n + 1) = 8 * q + (r + 5) /\ r + 5 \in 0..7
      BY ONLY <1>2, <1>3, <1>11
    <3> QED
      BY ONLY <3>1, q \in Nat
  <2>4. x = Highest(b, r + 5)
    <3>1. Highest(b, r) * 32 + DigitAt(r, b, c) = Highest(b, r + 5)
      BY ONLY <1>11, b \in Octet, c \in Octet, DigitCompletesNone
    <3> QED
      BY ONLY <1>6, <1>8, <1>9, <3>1
  <2>5. DecodedTo(bytes, n + 1, t)
    BY ONLY <1>4, <1>6, <2>2, <2>3, <2>4 DEF DecodedTo
  <2> QED
    BY ONLY <1>7, <1>10, <2>5
<1>12. CASE r \in 3..7
  <2>1. PICK k \in 0..4 : k = r - 3 /\ (r + 5) - 8 = k
    BY <1>12
  <2>2. (x \div 2^k) % 256 = b /\ x % 2^k = Highest(c, k)
    <3>1. x = Highest(b, r) * 32 + DigitAt(r, b, c) /\ x \in Int
      BY ONLY <1>6, <1>8, <1>9, x \in Nat
    <3>2. Completes(Highest(b, r) * 32 + DigitAt(r, b, c), r - 3, b, c)
      BY ONLY <1>12, b \in Octet, c \in Octet, DigitCompletesByte
    <3>3. Completes(x, k, b, c)
      BY ONLY <2>1, <3>1, <3>2
    <3> QED
      BY ONLY <3>3, Zenon DEF Completes
  <2>3. t = [buffer |-> x % 2^k, bits |-> k, out |-> Append(o, (x \div 2^k) % 256)]
    <3>1. st.buffer * 32 + d = x /\ st.bits + 5 = r + 5 /\ r + 5 >= 8
      BY ONLY <1>5, <1>6, <1>9, <1>12
    <3> QED
      BY ONLY <1>5, <1>10, <2>1, <3>1, Zenon DEF Decode32Step
  <2>4. t = [buffer |-> Highest(c, k), bits |-> k, out |-> Append(o, b)]
    BY ONLY <2>2, <2>3, Zenon
  <2>5. Highest(c, k) \in Nat
    <3>1. k \in 0..7
      OBVIOUS
    <3> QED
      BY ONLY <3>1, c \in Octet, HighestType
  <2>6. /\ Append(o, b) \in Seq(Octet) /\ Len(Append(o, b)) = q + 1
        /\ \A i \in 1..q : Append(o, b)[i] = o[i]
        /\ Append(o, b)[q + 1] = b
    BY <1>6, AppendProperties
  <2>7. /\ t \in [buffer : Nat, bits : Nat, out : Seq(Octet)] /\ t.buffer = Highest(c, k)
        /\ t.bits = k /\ t.out = Append(o, b)
    BY ONLY <2>4, <2>5, <2>6, k \in 0..4
  <2>8. /\ (5 * (n + 1)) \div 8 = q + 1 /\ (5 * (n + 1)) % 8 = k /\ q + 1 \in 1..l
        /\ (q + 1) + 1 = q + 2
    <3>1. 5 * (n + 1) = 8 * (q + 1) + k
      BY ONLY <1>2, <1>3, <2>1
    <3>2. q + 1 \in 1..l
      BY ONLY <1>2, <3>1, q \in Nat, k \in 0..4, l \in Nat
    <3> QED
      BY ONLY <3>1, <3>2, q \in Nat, k \in 0..4
  <2>9. b = bytes[q + 1]
    BY ONLY <1>1, <1>4, <2>8 DEF ByteAt
  <2>10. ASSUME NEW i \in 1..(q + 1)
         PROVE  Append(o, b)[i] = bytes[i]
    <3>1. CASE i = q + 1
      BY ONLY <2>6, <2>9, <3>1
    <3>2. CASE i \in 1..q
      BY ONLY <1>6, <2>6, <3>2
    <3>3. i = q + 1 \/ i \in 1..q
      OBVIOUS
    <3> QED
      BY ONLY <3>1, <3>2, <3>3
  <2>11. DecodedTo(bytes, n + 1, t)
    BY ONLY <1>4, <2>6, <2>7, <2>8, <2>10 DEF DecodedTo
  <2> QED
    BY ONLY <1>7, <1>10, <2>11
<1> QED
  BY ONLY r \in 0..7, <1>11, <1>12

\* The digits of bytes, and no others, are decoded to bytes.
LEMMA DecodeLoop ==
    ASSUME NEW bytes \in Seq(Octet), NEW s, HasDigits(s, (8 * Len(bytes) + 4) \div 5, bytes)
    PROVE  Decode32Turns(s).out = bytes
<1>1. PICK l \in Nat : l = Len(bytes)
  BY LenProperties
<1>2. PICK N \in Nat : N = (8 * l + 4) \div 5 /\ (5 * N) \div 8 = l
  OBVIOUS
<1>3. s \in Seq(0..31) /\ Len(s) = N /\ \A i \in 1..N : s[i] = Quintet(bytes, 5 * (i - 1))
  BY ONLY <1>1, <1>2, HasDigits(s, (8 * Len(bytes) + 4) \div 5, bytes) DEF HasDigits
<1>4. PICK f : /\ f[0] = [buffer |-> 0, bits |-> 0, out |-> <<>>]
               /\ \A n \in 1..N : f[n] = Decode32Step(f[n - 1], s[n])
               /\ Decode32Turns(s) = f[N]
  BY <1>3, DecodeTurns
<1>5. PICK S : S = {n \in 0..N : DecodedTo(bytes, n, f[n])}
  OBVIOUS
<1>6. 0 \in S
  <2>1. f[0].buffer = 0 /\ f[0].bits = 0 /\ f[0].out = <<>>
    BY <1>4
  <2>2. 5 * 0 = 0 /\ 0 % 8 = 0 /\ 0 \div 8 = 0 /\ 1..0 = {} /\ 0 \in Nat
    OBVIOUS
  <2>3. <<>> \in Seq(Octet) /\ Len(<<>>) = 0
    OBVIOUS
  <2>4. f[0] \in [buffer : Nat, bits : Nat, out : Seq(Octet)]
    BY ONLY <1>4, <2>2, <2>3
  <2>5. Highest(ByteAt(bytes, 0 + 1), 0) = 0
    BY ONLY DEF Highest
  <2>6. DecodedTo(bytes, 0, f[0])
    BY ONLY <2>1, <2>2, <2>3, <2>4, <2>5 DEF DecodedTo
  <2> QED
    BY <1>5, <2>6
<1>7. ASSUME NEW n \in 0..(N - 1), n \in S
      PROVE  n + 1 \in S
  <2>1. DecodedTo(bytes, n, f[n])
    BY <1>5, <1>7
  <2>2. n + 1 \in 1..N /\ n + 1 \in 0..N /\ (n + 1) - 1 = n
    OBVIOUS
  <2>3. n \in 0..(((8 * Len(bytes) + 4) \div 5) - 1)
    BY ONLY <1>1, <1>2, n \in 0..(N - 1)
  <2>4. DecodedTo(bytes, n + 1, Decode32Step(f[n], Quintet(bytes, 5 * n)))
    BY ONLY <2>1, <2>3, bytes \in Seq(Octet), DecodeTurn
  <2>5. f[n + 1] = Decode32Step(f[n], s[n + 1]) /\ s[n + 1] = Quintet(bytes, 5 * n)
    BY ONLY <1>3, <1>4, <2>2
  <2>6. DecodedTo(bytes, n + 1, f[n + 1])
    BY ONLY <2>4, <2>5, Zenon
  <2> QED
    BY ONLY <1>5, <2>2, <2>6, Zenon
<1>8. 0..N \subseteq S
  BY <1>6, <1>7, UpTo
<1>9. DecodedTo(bytes, N, f[N])
  BY <1>5, <1>8
<1>10. /\ f[N].out \in Seq(Octet) /\ Len(f[N].out) = l
       /\ \A i \in 1..l : f[N].out[i] = bytes[i]
  BY ONLY <1>2, <1>9 DEF DecodedTo
<1>11. f[N].out = bytes
  BY ONLY <1>1, <1>10, bytes \in Seq(Octet), SeqEqual
<1> QED
  BY ONLY <1>4, <1>11, Zenon

\* The decoder finds the digits of what the encoder has put out: none is a '='.
LEMMA DecodesWhatIsEncoded ==
    ASSUME NEW bytes \in Seq(Octet)
    PROVE  Base32Decode(Base32Encode(bytes)) = bytes
<1>1. PICK s : s = Encode32Tail(Encode32Turns(bytes))
  OBVIOUS
<1>2. HasDigits(s, (8 * Len(bytes) + 4) \div 5, bytes)
  BY ONLY <1>1, bytes \in Seq(Octet), EncodedDigits, Zenon
<1>3. PICK n \in Nat : n = (8 * Len(bytes) + 4) \div 5
  <2>1. Len(bytes) \in Nat
    BY LenProperties
  <2> QED
    BY <2>1
<1>4. s \in Seq(0..31) /\ Len(s) = n
  BY ONLY <1>2, <1>3 DEF HasDigits
<1>5. PICK m \in Nat : m = (-n) % 8
  OBVIOUS
<1>6. PICK e : e = [i \in 1..m |-> Pad32]
  OBVIOUS
<1>7. PICK t : t = Base32Encode(bytes)
  OBVIOUS
<1>8. t = s \o e
  BY ONLY <1>1, <1>4, <1>5, <1>6, <1>7, Zenon DEF Base32Encode
<1>9. s \in Seq(Nat) /\ e \in Seq(Nat) /\ Len(e) = m
  <2>1. s \in Seq(Nat)
    <3>1. 0..31 \subseteq Nat
      OBVIOUS
    <3> QED
      BY ONLY <1>4, <3>1, SeqMonotonic
  <2>2. e \in [1..m -> Nat]
    BY <1>6 DEF Pad32
  <2>3. e \in Seq(Nat)
    BY <2>2, SeqDef
  <2>4. Len(e) = m
    BY <2>2, <2>3, LenProperties
  <2> QED
    BY <2>1, <2>3, <2>4
<1>10. /\ t \in Seq(Nat) /\ Len(t) = n + m
       /\ \A i \in 1..(n + m) : t[i] = IF i <= n THEN s[i] ELSE e[i - n]
  <2>1. /\ s \o e \in Seq(Nat) /\ Len(s \o e) = Len(s) + Len(e)
        /\ \A i \in 1..(Len(s) + Len(e)) :
              (s \o e)[i] = IF i <= Len(s) THEN s[i] ELSE e[i - Len(s)]
    BY <1>9, ConcatProperties
  <2> QED
    BY ONLY <1>4, <1>8, <1>9, <2>1
<1>11. \A i \in 1..n : t[i] = s[i] /\ t[i] # Pad32
  <2> TAKE i \in 1..n
  <2>1. i \in 1..(n + m) /\ i <= n
    OBVIOUS
  <2>2. t[i] = s[i]
    BY ONLY <1>10, <2>1
  <2>3. s[i] \in 0..31
    <3>1. i \in 1..Len(s)
      BY ONLY <1>4, i \in 1..n
    <3> QED
      BY ONLY <1>4, <3>1, ElementOfSeq
  <2>4. s[i] # 32
    <3>1. 32 \notin 0..31
      OBVIOUS
    <3> QED
      BY ONLY <2>3, <3>1, Zenon
  <2> QED
    BY ONLY <2>2, <2>4, Zenon DEF Pad32
<1>12. PICK E : E = {i \in 1..Len(t) : t[i] = Pad32} \cup {Len(t) + 1}
  OBVIOUS
<1>13. n + 1 \in E
  <2>1. CASE m = 0
    BY ONLY <1>10, <1>12, <2>1, n \in Nat
  <2>2. CASE m > 0
    <3>1. n + 1 \in 1..(n + m) /\ ~(n + 1 <= n) /\ (n + 1) - n = 1 /\ 1 \in 1..m
      BY ONLY <2>2, n \in Nat, m \in Nat
    <3>2. t[n + 1] = Pad32
      BY ONLY <1>6, <1>10, <3>1
    <3> QED
      BY ONLY <1>10, <1>12, <3>1, <3>2
  <2> QED
    BY ONLY <2>1, <2>2, m \in Nat
<1>14. \A i \in E : n + 1 <= i /\ i \in Nat
  BY ONLY <1>10, <1>11, <1>12, n \in Nat, m \in Nat
<1>15. Min(E) = n + 1
  <2>1. \A x \in E : (\A y \in E : x <= y) => x = n + 1
    BY ONLY <1>13, <1>14, n \in Nat
  <2>2. \E x \in E : \A y \in E : x <= y
    BY ONLY <1>13, <1>14
  <2> QED
    BY ONLY <2>1, <2>2 DEF Min
<1>16. SubSeq(t, 1, (n + 1) - 1) = s
  <2>1. (n + 1) - 1 = n
    OBVIOUS
  <2>2. /\ SubSeq(t, 1, n) \in Seq(Nat) /\ Len(SubSeq(t, 1, n)) = n
        /\ \A i \in 1..n : SubSeq(t, 1, n)[i] = t[i]
    <3>1. 1 \in Nat \ {0} /\ n <= Len(t) /\ 1 <= n + 1 /\ (n - 1) + 1 = n
      BY ONLY <1>10, n \in Nat, m \in Nat
    <3>2. /\ SubSeq(t, 1, n) \in Seq(Nat) /\ Len(SubSeq(t, 1, n)) = n - 1 + 1
          /\ \A i \in 1..(n - 1 + 1) : SubSeq(t, 1, n)[i] = t[(1 - 1) + i]
      BY ONLY <1>10, <3>1, n \in Nat, Part
    <3>3. \A i \in 1..n : (1 - 1) + i = i
      OBVIOUS
    <3> QED
      BY ONLY <3>1, <3>2, <3>3
  <2>3. SubSeq(t, 1, n) = s
    BY <1>4, <1>9, <1>11, <2>2, SeqEqual
  <2> QED
    BY ONLY <2>1, <2>3
<1>17. Base32Decode(t) = Decode32Turns(s).out
  BY ONLY <1>12, <1>15, <1>16, Zenon DEF Base32Decode
<1>18. Decode32Turns(s).out = bytes
  BY ONLY <1>2, bytes \in Seq(Octet), DecodeLoop
<1> QED
  BY ONLY <1>7, <1>17, <1>18, Zenon

\* A secret of any length is Base32, and the server reads it back.
THEOREM SecretsReadBack == EncodeSpec => []SecretReadBack
<1> DEFINE Same == input \in BoundedSeq(Bytes, MaxLength)
<1>1. EncodeInit => Same
  BY DEF EncodeInit
<1>2. Same /\ [EncodeNext]_encoder => Same'
  BY DEF EncodeNext, encoder, Byte, Emit, NextByte, Tail6
<1>3. Same => SecretReadBack
  <2> SUFFICES ASSUME Same
               PROVE  /\ Base32Encode(input) = Base32Of(input)
                      /\ Base32Decode(Base32Encode(input)) = input
    BY DEF SecretReadBack
  <2>1. input \in Seq(Octet)
    BY InputsAreBytes
  <2> QED
    BY <2>1, EncodesBase32, DecodesWhatIsEncoded
<1> QED
  BY <1>1, <1>2, <1>3, PTL DEF EncodeSpec

=============================================================================
