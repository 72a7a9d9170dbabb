------------------------------- MODULE Invites -------------------------------
(***************************************************************************)
(* bulkInvite: one record of the table invite for each address of a        *)
(* request, one call after the other, and one answer with all the tokens   *)
(* at the end.  The records keep only hashes, so a token that is not       *)
(* answered is lost; no other handler reads or writes the table.           *)
(*                                                                         *)
(* Requests come from administrators and may repeat an address, or leave   *)
(* one empty; a failed one may be sent again.                              *)
(***************************************************************************)
EXTENDS SurrealCalls, SequencesExt, FiniteSets

CONSTANTS Threads, Emails,
          Tokens,     \* bounds the records ever created
          MaxEmails,  \* bounds the addresses of a request
          Empty       \* the address "", and no address

ASSUME InvitesAssumption == Empty \notin Emails /\ MaxEmails \in Nat

VARIABLES
    invite,  \* the address of each pending record, by token
    batch,   \* what each thread is doing
    told,    \* the invites of every answer
    failed   \* history: the invites whose requests were not answered with 200

vars == <<invite, batch, told, failed>>

\* emails are the request's, created the answer's so far, spent the tokens used.
Idle == [pc |-> "idle", emails |-> <<>>, next |-> 1, created |-> <<>>, spent |-> {}]

At(h, pc) == batch[h].pc = pc

Goto(h, rec) == batch' = [batch EXCEPT ![h] = rec]

\* The catch block, or the end of the process.
Fail(h) ==
    /\ Goto(h, Idle)
    /\ failed' = failed \cup batch[h].spent

\* random_token_hex yields tokens that nobody has.
Fresh(t) ==
    /\ invite[t] = Empty
    /\ \A h \in Threads : t \notin batch[h].spent
    /\ t \notin failed
    /\ \A i \in told : i.token # t

-----------------------------------------------------------------------------
BulkInvite(h) ==
    /\ At(h, "idle")
    /\ \E n \in 0..MaxEmails : \E emails \in [1..n -> Emails \cup {Empty}] :
          Goto(h, [Idle EXCEPT !.pc = "loop", !.emails = emails])
    /\ UNCHANGED <<invite, told, failed>>

\* Mutant: a failed call ends the loop, not the request.
InviteSwallows(h) ==
    LET b == batch[h] IN
    /\ At(h, "loop") /\ b.next <= Len(b.emails) /\ b.emails[b.next] # Empty
    /\ \E t \in Tokens, o \in Outcomes :
          /\ Fresh(t)
          /\ invite' = IF Applied(o) THEN [invite EXCEPT ![t] = b.emails[b.next]] ELSE invite
          /\ Goto(h, [b EXCEPT !.next = IF Throws(o) THEN Len(b.emails) + 1 ELSE @ + 1,
                         !.created = IF Throws(o) THEN @
                                     ELSE Append(@, [email |-> b.emails[b.next], token |-> t]),
                         !.spent = @ \cup {t}])
    /\ UNCHANGED <<told, failed>>

\* Mutant: the item is put into the answer before its record is created.
InviteEarly(h) ==
    LET b == batch[h] IN
    /\ At(h, "loop") /\ b.next <= Len(b.emails) /\ b.emails[b.next] # Empty
    /\ \E t \in Tokens, o \in Outcomes :
          /\ Fresh(t)
          /\ invite' = IF Applied(o) THEN [invite EXCEPT ![t] = b.emails[b.next]] ELSE invite
          /\ Goto(h, [b EXCEPT !.next = @ + 1,
                         !.created = Append(@, [email |-> b.emails[b.next], token |-> t]),
                         !.spent = @ \cup {t}])
    /\ UNCHANGED <<told, failed>>

\* One turn of the loop.  A token whose CREATE throws is spent: its record may
\* exist.  One whose CREATE is refused goes into the answer without a record.
Invite(h) ==
    LET b == batch[h] IN
    /\ At(h, "loop") /\ b.next <= Len(b.emails) /\ b.emails[b.next] # Empty
    /\ \E t \in Tokens, o \in Outcomes :
          /\ Fresh(t)
          /\ invite' = IF Applied(o) THEN [invite EXCEPT ![t] = b.emails[b.next]] ELSE invite
          /\ IF Throws(o)
             THEN Goto(h, Idle) /\ failed' = failed \cup b.spent \cup {t}
             ELSE /\ Goto(h, [b EXCEPT !.next = @ + 1, !.spent = @ \cup {t},
                                 !.created = Append(@, [email |-> b.emails[b.next], token |-> t])])
                  /\ UNCHANGED failed
    /\ UNCHANGED told

\* Mutant: the skipped address takes the next one with it.
SkipTwo(h) ==
    /\ At(h, "loop") /\ batch[h].next <= Len(batch[h].emails)
    /\ batch[h].emails[batch[h].next] = Empty
    /\ Goto(h, [batch[h] EXCEPT !.next = @ + 2])
    /\ UNCHANGED <<invite, told, failed>>

\* if (email.empty()) continue.
Skip(h) ==
    /\ At(h, "loop") /\ batch[h].next <= Len(batch[h].emails)
    /\ batch[h].emails[batch[h].next] = Empty
    /\ Goto(h, [batch[h] EXCEPT !.next = @ + 1])
    /\ UNCHANGED <<invite, told, failed>>

\* Mutant: the answer is sent before the audit row is written.
AnswerPartly(h) ==
    /\ At(h, "loop") /\ batch[h].next > Len(batch[h].emails)
    /\ told' = told \cup ToSet(batch[h].created)
    /\ \E o \in Outcomes : IF Throws(o) THEN Fail(h) ELSE Goto(h, Idle) /\ UNCHANGED failed
    /\ UNCHANGED invite

\* The audit row, and the answer unless that throws.
Answer(h) ==
    /\ At(h, "loop") /\ batch[h].next > Len(batch[h].emails)
    /\ \E o \in Outcomes :
          IF Throws(o) THEN Fail(h) /\ UNCHANGED told
          ELSE /\ Goto(h, Idle)
               /\ told' = told \cup ToSet(batch[h].created)
               /\ UNCHANGED failed
    /\ UNCHANGED invite

Crash ==
    /\ "crash" \in Faults
    /\ batch' = [h \in Threads |-> Idle]
    /\ failed' = failed \cup UNION {batch[h].spent : h \in Threads}
    /\ UNCHANGED <<invite, told>>

-----------------------------------------------------------------------------
Init ==
    /\ invite = [t \in Tokens |-> Empty]
    /\ batch = [h \in Threads |-> Idle]
    /\ told = {}
    /\ failed = {}

Next ==
    \/ \E h \in Threads : BulkInvite(h) \/ Invite(h) \/ Skip(h) \/ Answer(h)
    \/ Crash

Spec == Init /\ [][Next]_vars
-----------------------------------------------------------------------------
(* Properties.                                                             *)

\* Also: no token is answered twice.
TypeOK ==
    /\ invite \in [Tokens -> Emails \cup {Empty}]
    /\ \A h \in Threads :
          /\ batch[h].pc \in {"idle", "loop"}
          /\ Range(batch[h].emails) \subseteq Emails \cup {Empty}
          /\ batch[h].next \in 1..(Len(batch[h].emails) + 1)
          /\ batch[h].spent \subseteq Tokens
    /\ told \subseteq [email : Emails, token : Tokens]
    /\ \A i, j \in told : i.token = j.token => i = j
    /\ failed \subseteq Tokens

\* An invite that was answered is in the table, for its address, unless the
\* database refuses statements (which bulkInvite does not notice).
AnsweredExist ==
    "error" \notin Faults => \A i \in told : invite[i.token] = i.email

Named(emails) == {i \in DOMAIN emails : emails[i] # Empty}

\* The created invites are those of the places in the request, in their order.
InOrder(created, emails, places) ==
    \E place \in [DOMAIN created -> places] :
        /\ Range(place) = places
        /\ \A n \in DOMAIN created : created[n].email = emails[place[n]]
        /\ \A m, n \in DOMAIN created : m < n => place[m] < place[n]

\* A request that comes to its audit row has an invite for each address it named,
\* in that order, however often it named it.
WholeRequest ==
    \A h \in Threads :
        batch[h].next > Len(batch[h].emails) =>
            InOrder(batch[h].created, batch[h].emails, Named(batch[h].emails))

\* The client is told all invites of a request or none: a pending invite whose
\* token nobody was told is of a request in work or of one that failed.
AllOrNothing ==
    /\ \A i \in told : i.token \notin failed
    /\ \A t \in Tokens :
          invite[t] # Empty => \/ \E i \in told : i.token = t
                              \/ t \in failed
                              \/ \E h \in Threads : t \in batch[h].spent

=============================================================================
