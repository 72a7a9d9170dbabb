----------------------------- MODULE UserCache -----------------------------
(***************************************************************************)
(* The cached profile of one user, cache:user:<id> in Redis: me, which     *)
(* reads through it; updateMe, changePassword, updateUser and deleteUser   *)
(* of UserController, which write the record and then send a DEL; and the  *)
(* handlers of AuthController, which write the same record and send none.  *)
(*                                                                         *)
(* Redis commands are sent and not waited for, over more than one          *)
(* connection: they are executed in any order, late, or not at all.  me    *)
(* answers first and fills the cache afterwards.  Keys of different users  *)
(* do not meet, so there is one record; its contents are a version number. *)
(*                                                                         *)
(* Bounds: MaxVersion writes, MaxDels commands DEL in flight, and          *)
(* MaxDelay ticks from the read of a profile to the execution of its       *)
(* SETEX.  Time is counted in ages, so it has no end.                      *)
(***************************************************************************)
EXTENDS SurrealCalls, Naturals

CONSTANTS Readers,     \* slots for a me request and the fill it leaves behind
          MaxVersion, MaxDels, MaxDelay,
          TTL,         \* 300 seconds, in ticks
          RedisFails,  \* may a Redis command end in its error callback?
          Null         \* the null of a lookup that yields no row

ASSUME BoundsAssumption ==
    /\ MaxVersion \in Nat /\ MaxDels \in Nat /\ MaxDelay \in Nat
    /\ TTL \in Nat \ {0}
    /\ RedisFails \in BOOLEAN

ASSUME NullAssumption == Null \notin Nat

VARIABLES
    version,  \* the user record
    key,      \* the cached profile; there is none when its ttl is 0
    me,       \* what each reader is doing
    dels,     \* DEL commands in flight
    escaped   \* history: how the cached profile got past invalidation

vars == <<version, key, me, dels, escaped>>

NoKey == [val |-> Null, ttl |-> 0, age |-> 0]

\* val is the profile read from the database, age the ticks since then.
NoRequest == [pc |-> "idle", val |-> Null, age |-> 0]

At(r, pc) == me[r].pc = pc

Goto(r, rec) == me' = [me EXCEPT ![r] = rec]

Stale == key.ttl > 0 /\ key.val # version

-----------------------------------------------------------------------------
(* me.                                                                     *)

\* GET cache:user:<id> is sent.
Me(r) ==
    /\ At(r, "idle")
    /\ Goto(r, [NoRequest EXCEPT !.pc = "get"])
    /\ UNCHANGED <<version, key, dels, escaped>>

\* Mutant: every hit gives the key its full time to live again (GETEX).
MeGetExtends(r) ==
    /\ At(r, "get")
    /\ Goto(r, [me[r] EXCEPT !.pc = IF key.ttl > 0 THEN "idle" ELSE "read"])
    /\ key' = IF key.ttl > 0 THEN [key EXCEPT !.ttl = TTL] ELSE key
    /\ UNCHANGED <<version, dels, escaped>>

\* A hit is answered from the key; after a miss the callback reads the record.
MeGet(r) ==
    /\ At(r, "get")
    /\ Goto(r, [me[r] EXCEPT !.pc = IF key.ttl > 0 THEN "idle" ELSE "read"])
    /\ UNCHANGED <<version, key, dels, escaped>>

\* Mutant: the error callback is left empty, as that of the DEL is.
MeGetFailsSilently(r) ==
    /\ RedisFails
    /\ At(r, "get")
    /\ Goto(r, [me[r] EXCEPT !.pc = "unanswered"])
    /\ UNCHANGED <<version, key, dels, escaped>>

MeGetFails(r) ==
    /\ RedisFails
    /\ At(r, "get")
    /\ Goto(r, NoRequest)
    /\ UNCHANGED <<version, key, dels, escaped>>

\* selectOneByEmail, the answer, and SETEX is sent.  A call that throws is
\* answered with 500; a refused one yields null, which is answered and cached.
MeRead(r) ==
    /\ At(r, "read")
    /\ \E o \in Outcomes :
          \/ Throws(o) /\ Goto(r, NoRequest)
          \/ ~Throws(o) /\ Goto(r, [pc |-> "fill", age |-> 0,
                                    val |-> IF Applied(o) THEN version ELSE Null])
    /\ UNCHANGED <<version, key, dels, escaped>>

\* Redis executes SETEX cache:user:<id> 300 <profile>.  A profile that is not
\* the record's, and that no DEL is on its way for, has escaped.
Setex(r) ==
    /\ At(r, "fill")
    /\ key' = [val |-> me[r].val, ttl |-> TTL, age |-> me[r].age]
    /\ escaped' = IF me[r].val = version \/ dels > 0 THEN {}
                  ELSE IF me[r].val = Null THEN {"refused read"} ELSE {"late fill"}
    /\ Goto(r, NoRequest)
    /\ UNCHANGED <<version, dels>>

SetexFails(r) ==
    /\ RedisFails
    /\ At(r, "fill")
    /\ Goto(r, NoRequest)
    /\ UNCHANGED <<version, key, dels, escaped>>

-----------------------------------------------------------------------------
(* updateMe, changePassword, updateUser, deleteUser: one write of the      *)
(* record, then invalidateCache unless the write threw.                    *)

\* Mutant: the handler forgets the cache.
UpdateForgets ==
    /\ version < MaxVersion
    /\ version' = version + 1
    /\ UNCHANGED <<key, me, dels, escaped>>

Update ==
    /\ version < MaxVersion
    /\ dels < MaxDels
    /\ \E o \in Outcomes :
          /\ version' = IF Applied(o) THEN version + 1 ELSE version
          /\ dels' = IF Throws(o) THEN dels ELSE dels + 1
          /\ escaped' = IF Throws(o) /\ Applied(o) /\ key.ttl > 0
                        THEN escaped \cup {"write without answer"} ELSE escaped
    /\ UNCHANGED <<key, me>>

\* AuthController's writes of the record: last_login_at (issueTokens),
\* email_verified and status (registerUser, verifyEmail), profile_updated_at
\* (resetPassword), totp_enabled (totpEnable, totpVerify, totpDisable), and the
\* codes of consumeBackupCode and backupCodes.  The profile has these fields, or
\* the updated_at that every write sets; none of the handlers invalidates it.
AuthUpdate ==
    /\ version < MaxVersion
    /\ \E o \in Outcomes :
          /\ version' = IF Applied(o) THEN version + 1 ELSE version
          /\ escaped' = IF Applied(o) /\ key.ttl > 0 THEN escaped \cup {"no DEL"} ELSE escaped
    /\ UNCHANGED <<key, me, dels>>

Del ==
    /\ dels > 0
    /\ dels' = dels - 1
    /\ key' = NoKey
    /\ escaped' = {}
    /\ UNCHANGED <<version, me>>

\* invalidateCache gives DEL an error callback that does nothing.
DelFails ==
    /\ RedisFails
    /\ dels > 0
    /\ dels' = dels - 1
    /\ escaped' = IF key.ttl > 0 THEN escaped \cup {"failed DEL"} ELSE escaped
    /\ UNCHANGED <<version, key, me>>

-----------------------------------------------------------------------------
\* Mutant: the key was stored by SET, without a time to live.
TickNoExpiry ==
    /\ \A r \in Readers : At(r, "fill") => me[r].age < MaxDelay
    /\ me' = [r \in Readers |-> IF At(r, "fill") THEN [me[r] EXCEPT !.age = @ + 1]
                                ELSE me[r]]
    /\ UNCHANGED <<version, key, dels, escaped>>

\* A second, or some fraction of the 300; Redis drops a key whose time is up.
Tick ==
    /\ \A r \in Readers : At(r, "fill") => me[r].age < MaxDelay
    /\ me' = [r \in Readers |-> IF At(r, "fill") THEN [me[r] EXCEPT !.age = @ + 1]
                                ELSE me[r]]
    /\ key' = IF key.ttl > 1 THEN [key EXCEPT !.ttl = @ - 1, !.age = @ + 1] ELSE NoKey
    /\ escaped' = IF key.ttl > 1 THEN escaped ELSE {}
    /\ UNCHANGED <<version, dels>>

\* The process dies with the commands it has not sent yet; Redis goes on.
Crash ==
    /\ "crash" \in Faults
    /\ me' = [r \in Readers |-> NoRequest]
    /\ dels' = 0
    /\ escaped' = IF dels > 0 /\ key.ttl > 0 THEN escaped \cup {"crash"} ELSE escaped
    /\ UNCHANGED <<version, key>>

Init ==
    /\ version = 0
    /\ key = NoKey
    /\ me = [r \in Readers |-> NoRequest]
    /\ dels = 0
    /\ escaped = {}

Answer(r) == MeGet(r) \/ MeGetFails(r) \/ MeRead(r)

Fill(r) == Setex(r) \/ SetexFails(r)

Next == \/ \E r \in Readers : Me(r) \/ Answer(r) \/ Fill(r)
        \/ Update \/ AuthUpdate \/ Del \/ DelFails \/ Tick \/ Crash

Spec == Init /\ [][Next]_vars

\* Commands in flight are executed or reported as failed, callbacks run,
\* database calls end, and time passes.  Clients need not send anything.
Fairness ==
    /\ \A r \in Readers : WF_vars(Answer(r)) /\ WF_vars(Fill(r))
    /\ WF_vars(Del \/ DelFails)
    /\ WF_vars(Tick)

FairSpec == Spec /\ Fairness

-----------------------------------------------------------------------------
(* Properties.                                                             *)

Profiles == 0..MaxVersion \cup {Null}

Escapes ==
    {"refused read", "late fill", "no DEL", "write without answer", "failed DEL", "crash"}

\* Types; a key never lives longer than the 300 seconds, whatever is sent.
TypeOK ==
    /\ version \in 0..MaxVersion
    /\ key \in [val : Profiles, ttl : 0..TTL, age : Nat]
    /\ me \in [Readers -> [pc : {"idle", "get", "read", "fill"},
                           val : Profiles, age : 0..MaxDelay]]
    /\ dels \in 0..MaxDels
    /\ escaped \subseteq Escapes

\* An outdated profile in the cache is about to be deleted, unless it was put
\* there too late for the DEL (a fill whose record was written after it was read),
\* or it is the null of a refused read, or the DEL that should have removed it
\* failed, or was never sent: because the process died, because the write threw
\* although it was executed, or because AuthController made it.  In every
\* other order a fill and the writes of UserController leave nothing behind.
StaleOnlyByEscape == Stale => dels > 0 \/ escaped # {}

\* The five minutes of README.md:79 ("5 min TTL") bound the age of what me answers, whatever
\* escapes, fails or crashes: a profile in the cache was read from the database
\* at most TTL, and the delay of its own fill, ago.  Hits do not prolong it.
AnswersRecent == key.ttl > 0 => key.age + key.ttl <= MaxDelay + TTL

\* Every me request is answered, whichever of Redis and the database fails.
EveryMeAnswered ==
    \A r \in Readers : me[r].pc \in {"get", "read"} ~> me[r].pc \in {"idle", "fill"}

\* Once the record is written no more, the cache holds no older version of it,
\* and stays so: late fills and lost invalidations heal by themselves.  Only the
\* null of a refused read can come back, for as long as reads are refused.
EventuallyFresh == <>[](key.ttl > 0 => key.val \in {version, Null})

=============================================================================
