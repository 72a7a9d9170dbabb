-------------------------- MODULE UserAdminProofs --------------------------
(***************************************************************************)
(* The properties of UserAdmin, proved for every number of users and       *)
(* threads, every lifetime and every delay.  RightsExpire is not inductive *)
(* by itself: IInv says what the age of a token and of a request has to do *)
(* with the time since the role was lost.                                  *)
(***************************************************************************)
EXTENDS UserAdmin, TLAPS

Records == [pc : {"idle", "mint", "admin"}, by : Users \cup {Null},
            age : 0..MaxDelay, role : Roles]

\* Who is an administrator has lost nothing yet.
HeldNotLost == \A u \in Users : IsAdministrator(user[u]) => lost[u] = 0

\* A token was minted at most MaxDelay after the role was read.
GrantDated ==
    \A u \in Users : grant[u] > 0 => lost[u] + grant[u] <= MaxDelay + Lifetime + 1

\* A handler about to mint read the role when it began; one that acts for an
\* administrator had a token then.
Dated(rec, since) ==
    /\ rec.pc # "idle" => rec.by \in Users
    /\ rec.pc = "mint" /\ rec.role = "admin" => since[rec.by] <= rec.age
    /\ rec.pc = "admin" => since[rec.by] <= MaxDelay + Lifetime + rec.age

IInv ==
    /\ TypeOK /\ HeldNotLost /\ GrantDated /\ DisabledHidden
    /\ \A h \in Threads : Dated(thread[h], lost)

-----------------------------------------------------------------------------
LEMMA IdleRecord == Idle \in Records /\ \A since : Dated(Idle, since)
BY BoundsAssumption DEF Idle, Records, Roles, Dated

LEMMA MaxLostNat == MaxLost \in Nat
BY BoundsAssumption DEF MaxLost

\* A handler's step that touches no record, no token and no history.
LEMMA ThreadStep ==
    ASSUME IInv, NEW h \in Threads, NEW rec \in Records, Dated(rec, lost),
           thread' = [thread EXCEPT ![h] = rec], UNCHANGED <<user, grant, lost>>
    PROVE  IInv'
<1>1. thread \in [Threads -> Records]
  BY DEF IInv, TypeOK, Records
<1>2. \A k \in Threads : thread'[k] = IF k = h THEN rec ELSE thread[k]
  BY <1>1
<1>3. thread' \in [Threads -> Records] /\ \A k \in Threads : Dated(thread'[k], lost')
  BY <1>1, <1>2 DEF IInv
<1>4. TypeOK'
  BY <1>3 DEF IInv, TypeOK, Records, Dated, Busy, At
<1>5. (HeldNotLost /\ GrantDated /\ DisabledHidden)'
  BY DEF IInv, HeldNotLost, GrantDated, DisabledHidden, Listed
<1>6. QED
  BY <1>3, <1>4, <1>5 DEF IInv

-----------------------------------------------------------------------------
LEMMA InitInv == Init => IInv
<1> SUFFICES ASSUME Init PROVE IInv
  OBVIOUS
<1>1. \A h \in Threads : thread[h] = Idle
  BY DEF Init
<1>2. PICK admins \in SUBSET Users :
          /\ user = [u \in Users |-> [role |-> IF u \in admins THEN "admin" ELSE "user",
                                      status |-> "active", deleted |-> FALSE]]
          /\ lost = [u \in Users |-> IF u \in admins THEN 0 ELSE MaxLost]
  BY DEF Init
<1>3. user \in [Users -> [role : Roles, status : Statuses, deleted : BOOLEAN]]
  BY <1>2 DEF Roles, Statuses
<1>4. lost \in [Users -> 0..MaxLost] /\ HeldNotLost
  BY <1>2, MaxLostNat DEF HeldNotLost, IsAdministrator
<1>5. grant \in [Users -> 0..(Lifetime + 1)] /\ GrantDated
  BY BoundsAssumption DEF Init, GrantDated
<1>6. thread \in [Threads -> Records] /\ \A h \in Threads : Dated(thread[h], lost)
  BY <1>1, IdleRecord DEF Init
<1>7. TypeOK
  BY <1>1, <1>3, <1>4, <1>5, <1>6 DEF TypeOK, Records, Busy, At, Idle
<1>8. DisabledHidden
  BY <1>2 DEF DisabledHidden, Listed
<1>9. QED
  BY <1>4, <1>5, <1>6, <1>7, <1>8 DEF IInv

LEMMA ReadUserInv ==
    ASSUME IInv, NEW h \in Threads, NEW u \in Users, ReadUser(h, u) PROVE IInv'
<1> DEFINE rec == [pc |-> "mint", by |-> u, age |-> 0, role |-> user[u].role]
<1>1. user[u].role \in Roles /\ rec \in Records
  BY BoundsAssumption DEF IInv, TypeOK, Records
<1>2. user[u].role = "admin" => lost[u] = 0
  BY DEF ReadUser, IInv, HeldNotLost, IsAdministrator
<1>3. Dated(rec, lost)
  BY <1>2 DEF Dated
<1>4. QED
  BY <1>1, <1>3, ThreadStep DEF ReadUser

LEMMA AdminRequestInv ==
    ASSUME IInv, NEW h \in Threads, NEW u \in Users, AdminRequest(h, u) PROVE IInv'
<1> DEFINE rec == [pc |-> "admin", by |-> u, age |-> 0, role |-> "admin"]
<1>1. rec \in Records
  BY BoundsAssumption DEF Records, Roles
<1>2. grant[u] \in 0..(Lifetime + 1) /\ lost[u] \in 0..MaxLost
  BY DEF IInv, TypeOK
<1>3. grant[u] > 0 /\ lost[u] + grant[u] <= MaxDelay + Lifetime + 1
  BY DEF AdminRequest, IInv, GrantDated
<1>4. lost[u] <= MaxDelay + Lifetime + 0
  BY <1>2, <1>3, BoundsAssumption, MaxLostNat
<1>5. Dated(rec, lost)
  BY <1>4 DEF Dated
<1>6. QED
  BY <1>1, <1>5, ThreadStep DEF AdminRequest

LEMMA MintInv == ASSUME IInv, NEW h \in Threads, Mint(h) PROVE IInv'
<1> DEFINE by == thread[h].by
<1>1. by \in Users /\ thread[h].age \in 0..MaxDelay /\ Dated(thread[h], lost)
  BY DEF Mint, At, IInv, TypeOK, Dated
<1>2. /\ grant \in [Users -> 0..(Lifetime + 1)] /\ lost \in [Users -> 0..MaxLost]
      /\ thread \in [Threads -> Records] /\ Lifetime \in Nat /\ MaxDelay \in Nat
  BY BoundsAssumption DEF IInv, TypeOK, Records
<1>3. \A u \in Users : grant'[u] = IF u = by /\ thread[h].role = "admin"
                                   THEN Lifetime + 1 ELSE grant[u]
  BY <1>2 DEF Mint
<1>4. grant' \in [Users -> 0..(Lifetime + 1)]
  <2>1. (IF thread[h].role = "admin" THEN Lifetime + 1 ELSE grant[by]) \in 0..(Lifetime + 1)
    BY <1>1, <1>2
  <2>2. QED
    BY <1>2, <2>1 DEF Mint
<1>5. thread[h].role = "admin" => lost[by] + (Lifetime + 1) <= MaxDelay + Lifetime + 1
  BY <1>1, <1>2, MaxLostNat DEF Dated, Mint, At
<1>6. GrantDated'
  BY <1>3, <1>5 DEF GrantDated, IInv, Mint
<1>7. \A k \in Threads : thread'[k] = IF k = h THEN Idle ELSE thread[k]
  BY <1>2 DEF Mint
<1>8. thread' \in [Threads -> Records] /\ \A k \in Threads : Dated(thread'[k], lost')
  BY <1>2, <1>7, IdleRecord DEF IInv, Mint
<1>9. TypeOK'
  BY <1>4, <1>8 DEF IInv, TypeOK, Records, Mint, Dated, Busy, At
<1>10. (HeldNotLost /\ DisabledHidden)'
  BY DEF IInv, HeldNotLost, DisabledHidden, Listed, Mint
<1>11. QED
  BY <1>6, <1>8, <1>9, <1>10 DEF IInv

\* updateUser and deleteUser write a record that is deleted when it is disabled.
LEMMA WriteInv ==
    ASSUME IInv, NEW h \in Threads, NEW u \in Users,
           NEW rec \in [role : Roles, status : Statuses, deleted : BOOLEAN],
           rec.status = "disabled" => rec.deleted,
           Write(h, u, rec)
    PROVE  IInv'
<1>1. PICK o \in Outcomes :
          /\ user' = IF Applied(o) THEN [user EXCEPT ![u] = rec] ELSE user
          /\ lost' = IF Applied(o) /\ IsAdministrator(rec) THEN [lost EXCEPT ![u] = 0] ELSE lost
  BY DEF Write
<1>2. /\ user \in [Users -> [role : Roles, status : Statuses, deleted : BOOLEAN]]
      /\ grant \in [Users -> 0..(Lifetime + 1)] /\ lost \in [Users -> 0..MaxLost]
      /\ thread \in [Threads -> Records] /\ Lifetime \in Nat /\ MaxDelay \in Nat
      /\ MaxLost \in Nat
  BY BoundsAssumption, MaxLostNat DEF IInv, TypeOK, Records
<1>3. \A v \in Users :
          user'[v] = user[v] \/ (user'[v] = rec /\ (IsAdministrator(rec) => lost'[v] = 0))
  BY <1>1, <1>2
<1>4. user' \in [Users -> [role : Roles, status : Statuses, deleted : BOOLEAN]]
  BY <1>1, <1>2
<1>5. lost' \in [Users -> 0..MaxLost]
  BY <1>1, <1>2
<1>6. \A v \in Users : lost'[v] = lost[v] \/ lost'[v] = 0
  BY <1>1, <1>2
<1>7. \A v \in Users : lost'[v] <= lost[v]
  BY <1>2, <1>6
<1>8. \A k \in Threads : thread'[k] = IF k = h THEN Idle ELSE thread[k]
  BY <1>2 DEF Write
<1>9. thread' \in [Threads -> Records]
  BY <1>2, <1>8, IdleRecord DEF Write
<1>10. ASSUME NEW k \in Threads PROVE Dated(thread'[k], lost')
  <2>1. Dated(thread[k], lost) /\ thread[k] \in Records
    BY <1>2 DEF IInv
  <2>2. Dated(thread[k], lost')
    BY <2>1, <1>2, <1>5, <1>7 DEF Dated, Records
  <2>3. QED
    BY <2>2, <1>8, IdleRecord
<1>11. TypeOK'
  BY <1>2, <1>4, <1>5, <1>9, <1>10 DEF TypeOK, Records, Write, Dated, Busy, At
<1>12. HeldNotLost'
  BY <1>3, <1>6 DEF HeldNotLost, IInv
<1>13. GrantDated'
  BY <1>2, <1>5, <1>7 DEF GrantDated, IInv, Write
<1>14. DisabledHidden'
  BY <1>2, <1>3 DEF DisabledHidden, Listed, IInv, Statuses
<1>15. QED
  BY <1>10, <1>11, <1>12, <1>13, <1>14 DEF IInv

LEMMA TickInv == ASSUME IInv, Tick PROVE IInv'
<1>1. /\ grant \in [Users -> 0..(Lifetime + 1)] /\ lost \in [Users -> 0..MaxLost]
      /\ thread \in [Threads -> Records] /\ Lifetime \in Nat /\ MaxDelay \in Nat
      /\ MaxLost \in Nat
  BY BoundsAssumption, MaxLostNat DEF IInv, TypeOK, Records
<1>2. \A u \in Users : lost'[u] <= lost[u] + 1 /\ lost'[u] \in 0..MaxLost
  BY <1>1 DEF Tick
<1>3. \A u \in Users : grant'[u] = IF grant[u] > 0 THEN grant[u] - 1 ELSE 0
  BY DEF Tick
<1>4. grant' \in [Users -> 0..(Lifetime + 1)]
  BY <1>1 DEF Tick
<1>5. GrantDated'
  BY <1>1, <1>2, <1>3 DEF GrantDated, IInv
<1>6. HeldNotLost'
  BY DEF HeldNotLost, Tick
<1>7. DisabledHidden'
  BY DEF DisabledHidden, Listed, Tick, IInv
<1>8. ASSUME NEW k \in Threads PROVE thread'[k] \in Records /\ Dated(thread'[k], lost')
  <2>1. CASE k \notin Busy
    BY <2>1, IdleRecord DEF Tick
  <2>2. CASE k \in Busy
    <3>1. /\ thread[k] \in Records /\ Dated(thread[k], lost) /\ thread[k].by \in Users
      BY <1>1, <2>2 DEF IInv, TypeOK
    <3>2. thread[k].age < MaxDelay /\ thread'[k] = [thread[k] EXCEPT !.age = @ + 1]
      BY <2>2 DEF Tick
    <3>3. lost[thread[k].by] \in 0..MaxLost /\ lost'[thread[k].by] \in 0..MaxLost
          /\ lost'[thread[k].by] <= lost[thread[k].by] + 1
      BY <1>1, <1>2, <3>1
    <3>4. QED
      BY <1>1, <3>1, <3>2, <3>3 DEF Records, Dated
  <2>3. QED
    BY <2>1, <2>2
<1>9. thread' \in [Threads -> Records] /\ lost' \in [Users -> 0..MaxLost]
  BY <1>2, <1>8 DEF Tick
<1>10. TypeOK'
  BY <1>4, <1>8, <1>9 DEF IInv, TypeOK, Records, Tick, Dated, Busy, At
<1>11. QED
  BY <1>5, <1>6, <1>7, <1>8, <1>10 DEF IInv

LEMMA NextInv == IInv /\ [Next]_vars => IInv'
<1> SUFFICES ASSUME IInv, [Next]_vars PROVE IInv'
  OBVIOUS
<1>1. CASE \E h \in Threads, u \in Users : ReadUser(h, u) \/ AdminRequest(h, u)
  BY <1>1, ReadUserInv, AdminRequestInv
<1>2. ASSUME NEW h \in Threads, NEW u \in Users, UpdateUser(h, u) PROVE IInv'
  <2>1. PICK role \in Roles, status \in Statuses :
            Write(h, u, [role |-> role, status |-> status,
                         deleted |-> user[u].deleted \/ status = "disabled"])
    BY <1>2 DEF UpdateUser
  <2>2. user[u].deleted \in BOOLEAN
    BY DEF IInv, TypeOK
  <2>3. QED
    BY <2>1, <2>2, WriteInv
<1>3. ASSUME NEW h \in Threads, NEW u \in Users, DeleteUser(h, u) PROVE IInv'
  <2>1. user[u] \in [role : Roles, status : Statuses, deleted : BOOLEAN]
    BY DEF IInv, TypeOK
  <2> DEFINE rec == [user[u] EXCEPT !.status = "disabled", !.deleted = TRUE]
  <2>2. rec \in [role : Roles, status : Statuses, deleted : BOOLEAN] /\ rec.deleted
    BY <2>1 DEF Statuses
  <2>3. Write(h, u, rec)
    BY <1>3 DEF DeleteUser
  <2>4. QED
    BY <2>2, <2>3, WriteInv
<1>4. CASE \E h \in Threads : Mint(h)
  BY <1>4, MintInv
<1>5. CASE \E h \in Threads : End(h)
  BY <1>5, IdleRecord, ThreadStep DEF End
<1>6. CASE Tick
  BY <1>6, TickInv
<1>7. CASE UNCHANGED vars
  <2>1. UNCHANGED user /\ UNCHANGED grant /\ UNCHANGED thread /\ UNCHANGED lost
    BY <1>7 DEF vars
  <2>2. QED
    BY <2>1 DEF IInv, TypeOK, HeldNotLost, GrantDated, DisabledHidden, Listed, Busy, At
<1>8. QED
  BY <1>1, <1>2, <1>3, <1>4, <1>5, <1>6, <1>7 DEF Next

-----------------------------------------------------------------------------
\* IInv is an inductive invariant of roles, tokens and administrators' requests.
THEOREM Invariance == Spec => []IInv
BY InitInv, NextInv, PTL DEF Spec

\* Records, tokens and handlers keep their types; no token is good for longer
\* than its lifetime.
THEOREM TypeCorrect == Spec => []TypeOK
<1>1. IInv => TypeOK
  BY DEF IInv
<1>2. QED
  BY <1>1, Invariance, PTL

\* Whoever writes as an administrator was an active one no longer ago than the
\* lifetime of a token and twice the time of a request.
THEOREM RightsBound == Spec => []RightsExpire
<1>1. ASSUME IInv PROVE RightsExpire
  <2>1. ASSUME NEW h \in Threads, At(h, "admin") PROVE lost[thread[h].by] < MaxLost
    <3>1. /\ Dated(thread[h], lost) /\ thread[h].age \in 0..MaxDelay
          /\ lost \in [Users -> 0..MaxLost]
      BY <1>1 DEF IInv, TypeOK
    <3>2. /\ lost[thread[h].by] <= MaxDelay + Lifetime + thread[h].age
          /\ lost[thread[h].by] \in 0..MaxLost
      BY <2>1, <3>1 DEF Dated, At
    <3>3. QED
      BY <3>1, <3>2, BoundsAssumption DEF MaxLost
  <2>2. QED
    BY <2>1 DEF RightsExpire
<1>2. QED
  BY <1>1, Invariance, PTL

\* Disabling and deleting a user takes it from the list, whatever updates follow
\* that do not enable it.
THEOREM DisabledNotListed == Spec => []DisabledHidden
<1>1. IInv => DisabledHidden
  BY DEF IInv
<1>2. QED
  BY <1>1, Invariance, PTL

=============================================================================
