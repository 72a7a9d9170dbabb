-------------------------- MODULE UserCacheProofs --------------------------
(***************************************************************************)
(* The safety of the profile cache, proved for every number of readers,    *)
(* writes and commands in flight, and every time to live and delay.  The   *)
(* three invariants together are inductive: how old a filled profile is    *)
(* comes from the type of a reader's age.                                  *)
(***************************************************************************)
EXTENDS UserCache, TLAPS

IInv == TypeOK /\ StaleOnlyByEscape /\ AnswersRecent

Keys == [val : Profiles, ttl : 0..TTL, age : Nat]

Requests == [pc : {"idle", "get", "read", "fill"}, val : Profiles, age : 0..MaxDelay]

-----------------------------------------------------------------------------
LEMMA NothingTyped ==
    /\ NoKey \in Keys /\ NoKey.ttl = 0
    /\ NoRequest \in Requests
    /\ TTL \in Nat \ {0} /\ MaxDelay \in Nat /\ MaxVersion \in Nat /\ MaxDels \in Nat
BY BoundsAssumption DEF NoKey, NoRequest, Keys, Requests, Profiles

\* A reader that turns to another request leaves everything else alone.
LEMMA ReaderStep ==
    ASSUME IInv, NEW r \in Readers, NEW rec \in Requests, Goto(r, rec),
           UNCHANGED <<version, key, dels, escaped>>
    PROVE  IInv'
<1>1. me \in [Readers -> Requests]
  BY DEF IInv, TypeOK, Requests
<1>2. me' \in [Readers -> Requests]
  BY <1>1 DEF Goto
<1>3. QED
  BY <1>2 DEF IInv, TypeOK, Requests, StaleOnlyByEscape, AnswersRecent, Stale

LEMMA MeReadInv == ASSUME IInv, NEW r \in Readers, MeRead(r) PROVE IInv'
<1>1. version \in 0..MaxVersion
  BY DEF IInv, TypeOK
<1>2. PICK o \in Outcomes :
          \/ Throws(o) /\ Goto(r, NoRequest)
          \/ ~Throws(o) /\ Goto(r, [pc |-> "fill", age |-> 0,
                                    val |-> IF Applied(o) THEN version ELSE Null])
  BY DEF MeRead
<1> DEFINE rec == [pc |-> "fill", age |-> 0, val |-> IF Applied(o) THEN version ELSE Null]
<1>3. rec \in Requests
  BY <1>1, NothingTyped DEF Requests, Profiles
<1>4. QED
  BY <1>2, <1>3, NothingTyped, ReaderStep DEF MeRead

LEMMA SetexInv == ASSUME IInv, NEW r \in Readers, Setex(r) PROVE IInv'
<1>1. /\ me \in [Readers -> Requests] /\ me[r] \in Requests
      /\ me[r].val \in Profiles /\ me[r].age \in 0..MaxDelay
  BY DEF IInv, TypeOK, Requests
<1>2. key' = [val |-> me[r].val, ttl |-> TTL, age |-> me[r].age]
  BY DEF Setex
<1>3. key' \in Keys
  BY <1>1, <1>2, NothingTyped DEF Keys
<1>4. me' \in [Readers -> Requests]
  BY <1>1, NothingTyped DEF Setex, Goto
<1>5. escaped' \subseteq Escapes
  BY DEF Setex, Escapes
<1>6. TypeOK'
  BY <1>3, <1>4, <1>5 DEF IInv, TypeOK, Setex, Keys, Requests
<1>7. AnswersRecent'
  BY <1>1, <1>2, NothingTyped DEF AnswersRecent
<1>8. key'.val # version => dels > 0 \/ escaped' # {}
  <2>1. \/ me[r].val = version \/ dels > 0
        \/ "refused read" \in escaped' \/ "late fill" \in escaped'
    BY DEF Setex
  <2>2. QED
    BY <1>2, <2>1
<1>9. StaleOnlyByEscape'
  BY <1>8 DEF StaleOnlyByEscape, Stale, Setex
<1>10. QED
  BY <1>6, <1>7, <1>9 DEF IInv

LEMMA UpdateInv == ASSUME IInv, Update PROVE IInv'
<1>1. PICK o \in Outcomes :
          /\ version' = IF Applied(o) THEN version + 1 ELSE version
          /\ dels' = IF Throws(o) THEN dels ELSE dels + 1
          /\ escaped' = IF Throws(o) /\ Applied(o) /\ key.ttl > 0
                        THEN escaped \cup {"write without answer"} ELSE escaped
  BY DEF Update
<1>2. version \in 0..MaxVersion /\ dels \in 0..MaxDels /\ escaped \subseteq Escapes
  BY DEF IInv, TypeOK
<1>3. version' \in 0..MaxVersion /\ dels' \in 0..MaxDels /\ escaped' \subseteq Escapes
  <2>1. version < MaxVersion /\ dels < MaxDels
    BY DEF Update
  <2>2. /\ version' = version \/ version' = version + 1
        /\ dels' = dels \/ dels' = dels + 1
    BY <1>1
  <2>3. version' \in 0..MaxVersion /\ dels' \in 0..MaxDels
    BY <1>2, <2>1, <2>2, NothingTyped
  <2>4. escaped' \subseteq Escapes
    BY <1>1, <1>2 DEF Escapes
  <2>5. QED
    BY <2>3, <2>4
<1>4. TypeOK' /\ AnswersRecent'
  BY <1>3 DEF IInv, TypeOK, AnswersRecent, Update
<1>5. StaleOnlyByEscape'
  <2>1. CASE ~Throws(o)
    BY <1>1, <1>2, <2>1 DEF StaleOnlyByEscape
  <2>2. CASE Throws(o) /\ ~Applied(o)
    BY <1>1, <2>2 DEF StaleOnlyByEscape, Stale, IInv, Update
  <2>3. CASE Throws(o) /\ Applied(o)
    BY <1>1, <2>3 DEF StaleOnlyByEscape, Stale, Update
  <2>4. QED
    BY <2>1, <2>2, <2>3
<1>6. QED
  BY <1>4, <1>5 DEF IInv

LEMMA AuthUpdateInv == ASSUME IInv, AuthUpdate PROVE IInv'
<1>1. PICK o \in Outcomes :
          /\ version' = IF Applied(o) THEN version + 1 ELSE version
          /\ escaped' = IF Applied(o) /\ key.ttl > 0 THEN escaped \cup {"no DEL"} ELSE escaped
  BY DEF AuthUpdate
<1>2. version \in 0..MaxVersion /\ escaped \subseteq Escapes
  BY DEF IInv, TypeOK
<1>3. UNCHANGED <<key, me, dels>>
  BY DEF AuthUpdate
<1>4. version' \in 0..MaxVersion /\ escaped' \subseteq Escapes
  <2>1. version < MaxVersion /\ (version' = version \/ version' = version + 1)
    BY <1>1 DEF AuthUpdate
  <2>2. version' \in 0..MaxVersion
    BY <1>2, <2>1, NothingTyped
  <2>3. escaped' \subseteq Escapes
    BY <1>1, <1>2 DEF Escapes
  <2>4. QED
    BY <2>2, <2>3
<1>5. TypeOK' /\ AnswersRecent'
  BY <1>3, <1>4 DEF IInv, TypeOK, AnswersRecent
<1>6. StaleOnlyByEscape'
  <2>1. CASE Applied(o)
    BY <1>1, <1>3, <2>1 DEF StaleOnlyByEscape, Stale
  <2>2. CASE ~Applied(o)
    BY <1>1, <1>3, <2>2 DEF StaleOnlyByEscape, Stale, IInv
  <2>3. QED
    BY <2>1, <2>2
<1>7. QED
  BY <1>5, <1>6 DEF IInv

LEMMA DelInv == ASSUME IInv, Del \/ DelFails PROVE IInv'
<1>1. dels \in 0..MaxDels /\ escaped \subseteq Escapes
  BY DEF IInv, TypeOK
<1>2. dels' \in 0..MaxDels
  <2>1. dels > 0 /\ dels' = dels - 1
    BY DEF Del, DelFails
  <2>2. QED
    BY <1>1, <2>1, NothingTyped
<1>3. CASE Del
  <2>1. key' = NoKey /\ escaped' = {} /\ UNCHANGED <<version, me>>
    BY <1>3 DEF Del
  <2>2. QED
    BY <1>2, <2>1, NothingTyped
       DEF IInv, TypeOK, Keys, StaleOnlyByEscape, Stale, AnswersRecent
<1>4. CASE DelFails
  <2>1. /\ escaped' = IF key.ttl > 0 THEN escaped \cup {"failed DEL"} ELSE escaped
        /\ UNCHANGED <<version, key, me>>
    BY <1>4 DEF DelFails
  <2>2. escaped' \subseteq Escapes
    BY <1>1, <2>1 DEF Escapes
  <2>3. QED
    BY <1>2, <2>1, <2>2 DEF IInv, TypeOK, StaleOnlyByEscape, Stale, AnswersRecent
<1>5. QED
  BY <1>3, <1>4

LEMMA TickInv == ASSUME IInv, Tick PROVE IInv'
<1>1. me \in [Readers -> Requests] /\ key \in Keys
  BY DEF IInv, TypeOK, Keys, Requests
<1>2. ASSUME NEW r \in Readers PROVE me'[r] \in Requests
  <2>1. me'[r] = IF At(r, "fill") THEN [me[r] EXCEPT !.age = @ + 1] ELSE me[r]
    BY DEF Tick
  <2>2. At(r, "fill") => me[r].age < MaxDelay
    BY DEF Tick
  <2>3. QED
    BY <1>1, <2>1, <2>2, NothingTyped DEF Requests
<1>3. me' \in [Readers -> Requests]
  BY <1>2 DEF Tick
<1>4. CASE key.ttl > 1
  <2>1. /\ key' = [key EXCEPT !.ttl = @ - 1, !.age = @ + 1]
        /\ escaped' = escaped /\ UNCHANGED <<version, dels>>
    BY <1>4 DEF Tick
  <2>2. key.ttl \in 0..TTL /\ key.age \in Nat /\ key.val \in Profiles
    BY <1>1 DEF Keys
  <2>3. key' = [val |-> key.val, ttl |-> key.ttl - 1, age |-> key.age + 1]
    BY <1>1, <2>1 DEF Keys
  <2>4. /\ key' \in Keys /\ key'.val = key.val
        /\ key'.age + key'.ttl = key.age + key.ttl
    BY <1>4, <2>2, <2>3, NothingTyped DEF Keys
  <2>5. QED
    BY <1>1, <1>3, <1>4, <2>1, <2>4
       DEF IInv, TypeOK, Keys, Requests, StaleOnlyByEscape, Stale, AnswersRecent
<1>5. CASE ~(key.ttl > 1)
  <2>1. key' = NoKey /\ escaped' = {} /\ UNCHANGED <<version, dels>>
    BY <1>5 DEF Tick
  <2>2. QED
    BY <1>3, <2>1, NothingTyped
       DEF IInv, TypeOK, Keys, Requests, StaleOnlyByEscape, Stale, AnswersRecent
<1>6. QED
  BY <1>4, <1>5

LEMMA CrashInv == ASSUME IInv, Crash PROVE IInv'
<1>1. me' \in [Readers -> Requests]
  BY NothingTyped DEF Crash
<1>2. dels \in 0..MaxDels /\ escaped \subseteq Escapes
  BY DEF IInv, TypeOK
<1>3. dels' = 0 /\ 0 \in 0..MaxDels
  BY NothingTyped DEF Crash
<1>4. escaped' = IF dels > 0 /\ key.ttl > 0 THEN escaped \cup {"crash"} ELSE escaped
  BY DEF Crash
<1>5. escaped' \subseteq Escapes
  BY <1>2, <1>4 DEF Escapes
<1>6. TypeOK' /\ AnswersRecent'
  BY <1>1, <1>3, <1>5 DEF IInv, TypeOK, Requests, AnswersRecent, Crash
<1>7. StaleOnlyByEscape'
  BY <1>2, <1>4 DEF IInv, StaleOnlyByEscape, Stale, Crash
<1>8. QED
  BY <1>6, <1>7 DEF IInv

LEMMA InitInv == Init => IInv
<1> SUFFICES ASSUME Init PROVE IInv
  OBVIOUS
<1>1. me \in [Readers -> Requests] /\ key \in Keys /\ key.ttl = 0
  BY NothingTyped DEF Init
<1>2. version \in 0..MaxVersion /\ dels \in 0..MaxDels /\ escaped \subseteq Escapes
  BY NothingTyped DEF Init
<1>3. QED
  BY <1>1, <1>2
     DEF IInv, TypeOK, Keys, Requests, StaleOnlyByEscape, Stale, AnswersRecent

LEMMA NextInv == IInv /\ [Next]_vars => IInv'
<1> SUFFICES ASSUME IInv, [Next]_vars PROVE IInv'
  OBVIOUS
<1>1. ASSUME NEW r \in Readers, Me(r) \/ MeGet(r) \/ MeGetFails(r) \/ SetexFails(r)
      PROVE  IInv'
  <2>1. me[r] \in Requests
    BY DEF IInv, TypeOK, Requests
  <2>2. /\ [NoRequest EXCEPT !.pc = "get"] \in Requests
        /\ [me[r] EXCEPT !.pc = IF key.ttl > 0 THEN "idle" ELSE "read"] \in Requests
    BY <2>1, NothingTyped DEF Requests
  <2>3. QED
    BY <1>1, <2>2, NothingTyped, ReaderStep DEF Me, MeGet, MeGetFails, SetexFails
<1>2. CASE \E r \in Readers : MeRead(r) \/ Setex(r)
  BY <1>2, MeReadInv, SetexInv
<1>3. CASE Update \/ AuthUpdate \/ Del \/ DelFails \/ Tick \/ Crash
  BY <1>3, UpdateInv, AuthUpdateInv, DelInv, TickInv, CrashInv
<1>4. CASE UNCHANGED vars
  <2>1. UNCHANGED <<version, key, me, dels>> /\ UNCHANGED escaped
    BY <1>4 DEF vars
  <2>2. QED
    BY <2>1 DEF IInv, TypeOK, StaleOnlyByEscape, Stale, AnswersRecent
<1>5. QED
  BY <1>1, <1>2, <1>3, <1>4 DEF Next, Answer, Fill

-----------------------------------------------------------------------------
\* IInv is an inductive invariant of the profile cache.
THEOREM Invariance == Spec => []IInv
BY InitInv, NextInv, PTL DEF Spec

\* The key and the commands in flight keep their types; a key never has more
\* than its 300 seconds to live.
THEOREM TypeCorrect == Spec => []TypeOK
<1>1. IInv => TypeOK
  BY DEF IInv
<1>2. QED
  BY <1>1, Invariance, PTL

\* An outdated profile in the cache is about to be deleted, or got there, or was
\* left there, in one of the six ways that Escapes names, the missing DELs of
\* AuthController among them; there is no seventh.
THEOREM StaleAccounted == Spec => []StaleOnlyByEscape
<1>1. IInv => StaleOnlyByEscape
  BY DEF IInv
<1>2. QED
  BY <1>1, Invariance, PTL

\* me never answers with a profile older than the time to live and the delay of
\* a fill.
THEOREM AgeBound == Spec => []AnswersRecent
<1>1. IInv => AnswersRecent
  BY DEF IInv
<1>2. QED
  BY <1>1, Invariance, PTL

=============================================================================
