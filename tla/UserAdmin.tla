------------------------------ MODULE UserAdmin ------------------------------
(***************************************************************************)
(* Roles: login and refresh put the role of the record they read into the  *)
(* token's claims; listUsers, getUser, updateUser, deleteUser and          *)
(* bulkInvite ask nothing but those claims, and updateUser and deleteUser  *)
(* change the records.  So rights outlive the role that gave them.         *)
(*                                                                         *)
(* Tokens that do not say "admin" open nothing here and are left out, and  *)
(* of those that do the youngest is enough.  That refresh and logout end   *)
(* a token's family is in AuthSessions, blacklisting in AccessTokens.      *)
(* The first administrators are there at the start: registration makes at  *)
(* most its first users administrators, and none in SurrealDB as it is     *)
(* (see Registration).                                                     *)
(*                                                                         *)
(* Bounds: MaxDelay ticks from a handler's reading of the record, or of    *)
(* the claims, to the end of its last call.  The clock has no end.         *)
(***************************************************************************)
EXTENDS SurrealCalls, Naturals

CONSTANTS Users, Threads,
          Lifetime,  \* 12 hours, in ticks
          MaxDelay,
          Null       \* no user

ASSUME NullAssumption == Null \notin Users

ASSUME BoundsAssumption == Lifetime \in Nat /\ MaxDelay \in Nat

VARIABLES
    user,    \* the records
    grant,   \* ticks for which each user's youngest admin token is accepted
    thread,  \* what each handler is doing
    lost     \* history: ticks since the user was an active administrator

vars == <<user, grant, thread, lost>>

Idle == [pc |-> "idle", by |-> Null, age |-> 0, role |-> "user"]

At(h, pc) == thread[h].pc = pc

Busy == {h \in Threads : ~At(h, "idle")}

\* updateUser takes any string.  "user" stands for every role but "admin", and
\* "other" for every status but these two: it bars from login and refresh as
\* "disabled" does, and is not looked at otherwise.
Roles == {"user", "admin"}
Statuses == {"active", "disabled", "other"}

IsAdministrator(rec) == rec.role = "admin" /\ rec.status = "active"

\* The most that a right outlives the role, and one more.
MaxLost == Lifetime + 2 * MaxDelay + 1

-----------------------------------------------------------------------------
(* Handlers.                                                               *)

\* login and refresh read the record and look at the status.
ReadUser(h, u) ==
    /\ At(h, "idle")
    /\ user[u].status = "active"
    /\ thread' = [thread EXCEPT ![h] =
                      [pc |-> "mint", by |-> u, age |-> 0, role |-> user[u].role]]
    /\ UNCHANGED <<user, grant, lost>>

\* Mutant: refresh copies the role from the claims of the old token.
MintKeepsRole(h) ==
    /\ At(h, "mint")
    /\ grant' = [grant EXCEPT ![thread[h].by] =
                     IF thread[h].role = "admin" \/ @ > 0 THEN Lifetime + 1 ELSE @]
    /\ thread' = [thread EXCEPT ![h] = Idle]
    /\ UNCHANGED <<user, lost>>

\* issueTokens.  The token is accepted through the second of its exp.
Mint(h) ==
    /\ At(h, "mint")
    /\ grant' = [grant EXCEPT ![thread[h].by] =
                     IF thread[h].role = "admin" THEN Lifetime + 1 ELSE @]
    /\ thread' = [thread EXCEPT ![h] = Idle]
    /\ UNCHANGED <<user, lost>>

\* AuthFilter lets the token through, and isAdminClaims the request.
AdminRequest(h, u) ==
    /\ At(h, "idle")
    /\ grant[u] > 0
    /\ thread' = [thread EXCEPT ![h] = [pc |-> "admin", by |-> u, age |-> 0, role |-> "admin"]]
    /\ UNCHANGED <<user, grant, lost>>

\* One MERGE; then the handler ends, whether or not the call throws.
Write(h, u, rec) ==
    /\ At(h, "admin")
    /\ \E o \in Outcomes :
          /\ user' = IF Applied(o) THEN [user EXCEPT ![u] = rec] ELSE user
          /\ lost' = IF Applied(o) /\ IsAdministrator(rec) THEN [lost EXCEPT ![u] = 0] ELSE lost
    /\ thread' = [thread EXCEPT ![h] = Idle]
    /\ UNCHANGED grant

\* The request sets a role, a status, or both.
UpdateUser(h, u) ==
    \E role \in Roles, status \in Statuses :
        /\ role # user[u].role \/ status # user[u].status
        /\ Write(h, u, [role |-> role, status |-> status,
                        deleted |-> user[u].deleted \/ status = "disabled"])

\* Mutant: the user is only disabled.
DeleteUserStatus(h, u) == Write(h, u, [user[u] EXCEPT !.status = "disabled"])

DeleteUser(h, u) == Write(h, u, [user[u] EXCEPT !.status = "disabled", !.deleted = TRUE])

\* The users of listUsers' answer (the first 200 of them).
Listed == {u \in Users : ~user[u].deleted}

\* listUsers, getUser and bulkInvite leave the user records alone; a handler
\* also ends early when a call throws, or with the process.
End(h) ==
    /\ ~At(h, "idle")
    /\ thread' = [thread EXCEPT ![h] = Idle]
    /\ UNCHANGED <<user, grant, lost>>

Tick ==
    /\ \A h \in Busy : thread[h].age < MaxDelay
    /\ grant' = [u \in Users |-> IF grant[u] > 0 THEN grant[u] - 1 ELSE 0]
    /\ lost' = [u \in Users |-> IF IsAdministrator(user[u]) THEN 0
                                ELSE IF lost[u] < MaxLost THEN lost[u] + 1 ELSE MaxLost]
    /\ thread' = [h \in Threads |-> IF h \in Busy THEN [thread[h] EXCEPT !.age = @ + 1] ELSE Idle]
    /\ UNCHANGED user

-----------------------------------------------------------------------------
Init ==
    /\ \E admins \in SUBSET Users :
          /\ user = [u \in Users |-> [role |-> IF u \in admins THEN "admin" ELSE "user",
                                      status |-> "active", deleted |-> FALSE]]
          /\ lost = [u \in Users |-> IF u \in admins THEN 0 ELSE MaxLost]
    /\ grant = [u \in Users |-> 0]
    /\ thread = [h \in Threads |-> Idle]

Next ==
    \/ \E h \in Threads :
          \/ \E u \in Users : ReadUser(h, u) \/ AdminRequest(h, u) \/ UpdateUser(h, u) \/ DeleteUser(h, u)
          \/ Mint(h)
          \/ End(h)
    \/ Tick

Spec == Init /\ [][Next]_vars

-----------------------------------------------------------------------------
(* Properties.                                                             *)

\* Also: a token is accepted no longer than its lifetime.
TypeOK ==
    /\ user \in [Users -> [role : Roles, status : Statuses, deleted : BOOLEAN]]
    /\ grant \in [Users -> 0..(Lifetime + 1)]
    /\ thread \in [Threads -> [pc : {"idle", "mint", "admin"}, by : Users \cup {Null},
                               age : 0..MaxDelay, role : Roles]]
    /\ \A h \in Busy : thread[h].by \in Users
    /\ lost \in [Users -> 0..MaxLost]

\* Nobody writes as an administrator who never was one, or for longer than the
\* lifetime of a token, and the time of the two requests, after the role was
\* taken away or the user disabled; however often the token is refreshed.
RightsExpire ==
    \A h \in Threads : At(h, "admin") => lost[thread[h].by] < MaxLost

\* Who has been disabled or deleted is not in the list, whatever was written
\* before or after: a user in it may be barred by a status of another name only.
DisabledHidden == \A u \in Listed : user[u].status # "disabled"

=============================================================================
