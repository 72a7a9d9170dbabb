------------------------- MODULE SecondFactorProofs -------------------------
(***************************************************************************)
(* The properties of SecondFactor, proved for every number of threads,     *)
(* secrets and codes and every batch size.  Each of the three guarantees   *)
(* is kept by the handlers that write on a copy still current, and IInv    *)
(* says so under the history variable that rules the others out.           *)
(***************************************************************************)
EXTENDS SecondFactor, FiniteSetTheorems, TLAPS

ConsumePCs == {"login.consume", "disable.consume"}

\* A handler's copy and input: codes out of those generated, no more than a
\* batch; the input of consumeBackupCode is one of them.
Handler(rec, codes) ==
    /\ rec.read.codes \subseteq codes
    /\ Cardinality(rec.read.codes) <= BatchSize
    /\ rec.pc \in ConsumePCs => rec.code \in rec.read.codes
    /\ rec.pc = "verify.write" => rec.read.secret \in Secrets

\* What was ever valid was generated, so that a new batch is none of it.
Generated == user.codes \cup spent \cup retired \subseteq made

\* BackupCodeOnce is kept because a code that was spent is not valid.
SpentIsGone ==
    "consume" \notin outdated /\ "error" \notin Faults
        => again = {} /\ user.codes \cap spent = {}

IInv == /\ TypeOK
        /\ Generated /\ SpentIsGone /\ EnabledIsProven /\ RetiredCodesDead
        /\ \A h \in Threads : Handler(thread[h], made)

ThreadRecords == [pc : PCs, read : FactorRecords, code : Codes \cup {Null}]

-----------------------------------------------------------------------------
(* Facts about the data.                                                   *)

LEMMA NoFactorType ==
    NoFactor \in FactorRecords /\ NoFactor.codes = {} /\ Cardinality({}) = 0
BY FS_EmptySet DEF NoFactor, FactorRecords

LEMMA IdleHandler ==
    /\ Idle \in ThreadRecords
    /\ \A m : Handler(Idle, m)
<1>1. /\ Idle.pc = "idle" /\ Idle.read = NoFactor /\ Idle.code = Null
      /\ Idle = [pc |-> "idle", read |-> NoFactor, code |-> Null]
  BY DEF Idle
<1>2. BatchSize \in Nat /\ Cardinality({}) <= BatchSize
  BY NoFactorType, FactorAssumption
<1>3. Idle \in ThreadRecords
  BY <1>1, NoFactorType DEF ThreadRecords, PCs
<1>4. ASSUME NEW m PROVE Handler(Idle, m)
  BY <1>1, <1>2, NoFactorType DEF Handler, ConsumePCs
<1>5. QED
  BY <1>3, <1>4

\* A part of at most a batch is at most a batch.
LEMMA PartOfBatch ==
    ASSUME NEW S \in SUBSET Codes, NEW T \in SUBSET S, Cardinality(S) <= BatchSize
    PROVE  Cardinality(T) <= BatchSize
<1>1. IsFiniteSet(S) /\ BatchSize \in Nat
  BY FS_Subset, FactorAssumption
<1>2. Cardinality(T) <= Cardinality(S) /\ Cardinality(T) \in Nat /\ Cardinality(S) \in Nat
  BY <1>1, FS_Subset, FS_CardinalityType
<1>3. QED
  BY <1>1, <1>2

-----------------------------------------------------------------------------
(* Threads: a step changes one of them, or none, and made only grows.      *)

Grows == made \subseteq made'

\* What a handler that puts rec in the place of its locals has to show.
LEMMA ThreadStep ==
    ASSUME IInv, Grows, NEW h \in Threads, NEW rec \in ThreadRecords,
           thread' = [thread EXCEPT ![h] = rec], Handler(rec, made')
    PROVE  /\ thread' \in [Threads -> ThreadRecords]
           /\ \A k \in Threads : Handler(thread'[k], made')
<1>1. thread \in [Threads -> ThreadRecords]
  BY DEF IInv, TypeOK, ThreadRecords
<1>2. ASSUME NEW k \in Threads
      PROVE  Handler(thread'[k], made')
  <2>1. CASE k = h
    BY <1>1, <2>1
  <2>2. CASE k # h
    <3>1. thread'[k] = thread[k] /\ Handler(thread[k], made) /\ made \subseteq made'
      BY <1>1, <2>2 DEF IInv, Grows
    <3>2. QED
      BY <3>1 DEF Handler
  <2>3. QED
    BY <2>1, <2>2
<1>3. thread' \in [Threads -> ThreadRecords]
  BY <1>1
<1>4. QED
  BY <1>2, <1>3

LEMMA EndStep ==
    ASSUME IInv, Grows, NEW h \in Threads, End(h)
    PROVE  /\ thread' \in [Threads -> ThreadRecords]
           /\ \A k \in Threads : Handler(thread'[k], made')
BY ThreadStep, IdleHandler DEF End

\* The invariant after a step, put together again.
LEMMA Together ==
    ASSUME thread' \in [Threads -> ThreadRecords],
           \A k \in Threads : Handler(thread'[k], made'),
           user' \in FactorRecords, Cardinality(user'.codes) <= BatchSize,
           known' \subseteq made', made' \subseteq Secrets \cup Codes,
           spent' \subseteq Codes, again' \subseteq spent', proven' \subseteq Secrets,
           retired' \subseteq Codes, outdated' \subseteq {"verify", "consume"},
           Generated', SpentIsGone', EnabledIsProven', RetiredCodesDead'
    PROVE  IInv'
BY DEF IInv, TypeOK, ThreadRecords

LEMMA Types ==
    ASSUME IInv, NEW h \in Threads
    PROVE  /\ user \in FactorRecords /\ user.codes \subseteq made
           /\ user.codes \in SUBSET Codes /\ user.secret \in Secrets \cup {Null}
           /\ Cardinality(user.codes) <= BatchSize
           /\ known \subseteq made /\ made \subseteq Secrets \cup Codes
           /\ spent \subseteq Codes /\ again \subseteq spent /\ proven \subseteq Secrets
           /\ retired \subseteq Codes /\ outdated \subseteq {"verify", "consume"}
           /\ thread[h] \in ThreadRecords /\ Handler(thread[h], made)
           /\ thread[h].read \in FactorRecords
           /\ thread[h].read.codes \in SUBSET Codes
           /\ thread[h].code \in Codes \cup {Null}
<1>1. user \in FactorRecords /\ thread[h] \in ThreadRecords
  BY DEF IInv, TypeOK, ThreadRecords
<1>2. /\ user.codes \in SUBSET Codes /\ user.secret \in Secrets \cup {Null}
      /\ thread[h].read \in FactorRecords /\ thread[h].code \in Codes \cup {Null}
  BY <1>1 DEF ThreadRecords, FactorRecords
<1>3. thread[h].read.codes \in SUBSET Codes
  BY <1>2 DEF FactorRecords
<1>4. QED
  BY <1>1, <1>2, <1>3 DEF IInv, TypeOK, Generated

-----------------------------------------------------------------------------
(* The reads.                                                              *)

LEMMA ReadInv ==
    ASSUME IInv, NEW h \in Threads, NEW pc \in PCs, NEW c \in Codes \cup {Null},
           Read(h, pc, c),
           pc \in ConsumePCs => c \in user.codes,
           pc = "verify.write" => user.secret \in Secrets
    PROVE  IInv'
<1> DEFINE rec == [pc |-> pc, read |-> user, code |-> c]
<1>1. rec \in ThreadRecords /\ rec.pc = pc /\ rec.read = user /\ rec.code = c
  BY Types DEF ThreadRecords
<1>2. /\ UNCHANGED <<user, known, made, spent, again, proven, retired, outdated>>
      /\ thread' = [thread EXCEPT ![h] = rec]
      /\ Grows
  BY DEF Read, factor, Grows
<1> HIDE DEF rec
<1>3. Handler(rec, made')
  BY <1>1, <1>2, Types DEF Handler
<1>4. /\ thread' \in [Threads -> ThreadRecords]
      /\ \A k \in Threads : Handler(thread'[k], made')
  BY <1>1, <1>2, <1>3, ThreadStep
<1>5. /\ Generated' /\ SpentIsGone' /\ EnabledIsProven' /\ RetiredCodesDead'
  BY <1>2 DEF IInv, Generated, SpentIsGone, EnabledIsProven, RetiredCodesDead
<1>6. QED
  BY <1>2, <1>4, <1>5, Types, Together

\* A secret that the user was told is a secret.
LEMMA KnownSecret ==
    ASSUME IInv, user.secret \in known
    PROVE  user.secret \in Secrets
BY FactorAssumption DEF IInv, TypeOK, FactorRecords

LEMMA ReadsInv ==
    ASSUME IInv, NEW h \in Threads,
           \/ TotpEnable(h) \/ TotpVerify(h) \/ TotpDisable(h) \/ BackupCodes(h)
           \/ \E c \in Codes : LoginWithCode(h, c)
    PROVE  IInv'
<1>1. CASE TotpEnable(h)
  BY <1>1, ReadInv DEF TotpEnable, PCs, ConsumePCs
<1>2. CASE TotpVerify(h)
  BY <1>2, ReadInv, KnownSecret DEF TotpVerify, PCs, ConsumePCs
<1>3. CASE TotpDisable(h)
  <2>1. CASE Read(h, "disable.write", Null)
    BY <2>1, ReadInv DEF PCs, ConsumePCs
  <2>2. CASE \E c \in known \cap user.codes : Read(h, "disable.consume", c)
    BY <2>2, Types, ReadInv DEF PCs, ConsumePCs
  <2>3. QED
    BY <1>3, <2>1, <2>2 DEF TotpDisable
<1>4. CASE BackupCodes(h)
  BY <1>4, ReadInv DEF BackupCodes, PCs, ConsumePCs
<1>5. CASE \E c \in Codes : LoginWithCode(h, c)
  BY <1>5, ReadInv DEF LoginWithCode, PCs, ConsumePCs
<1>6. QED
  BY <1>1, <1>2, <1>3, <1>4, <1>5

-----------------------------------------------------------------------------
(* The writes.                                                             *)

LEMMA EnableWriteInv ==
    ASSUME IInv, NEW h \in Threads, EnableWrite(h)
    PROVE  IInv'
<1>1. PICK o \in Outcomes, audit \in Outcomes, s \in Secrets \ made :
        /\ Merge(o, [user EXCEPT !.secret = s, !.enabled = FALSE])
        /\ made' = made \cup {s}
        /\ known' = IF Answered(o, audit) THEN known \cup {s} ELSE known
  BY DEF EnableWrite
<1>2. UNCHANGED <<spent, again, proven, retired, outdated>> /\ End(h) /\ Grows
  BY <1>1 DEF EnableWrite, Grows
<1>3. /\ user' \in FactorRecords /\ user'.codes = user.codes
      /\ user' = user \/ user'.enabled = FALSE
  BY <1>1, Types DEF Merge, FactorRecords
<1>4. /\ Generated' /\ SpentIsGone' /\ RetiredCodesDead'
  BY <1>1, <1>2, <1>3
     DEF IInv, Generated, SpentIsGone, RetiredCodesDead
<1>5. EnabledIsProven'
  BY <1>2, <1>3 DEF IInv, EnabledIsProven
<1>6. known' \subseteq made' /\ made' \subseteq Secrets \cup Codes
  BY <1>1, Types
<1>7. QED
  BY <1>2, <1>3, <1>4, <1>5, <1>6, Types, EndStep, Together

LEMMA VerifyWriteInv ==
    ASSUME IInv, NEW h \in Threads, VerifyWrite(h)
    PROVE  IInv'
<1>1. PICK o \in Outcomes :
        /\ Merge(o, [user EXCEPT !.enabled = TRUE])
        /\ Note(o, "verify", thread[h].read.secret = user.secret)
  BY DEF VerifyWrite
<1>2. /\ UNCHANGED <<known, made, spent, again, retired>> /\ End(h) /\ Grows
      /\ proven' = proven \cup {thread[h].read.secret}
      /\ thread[h].read.secret \in Secrets
  BY Types DEF VerifyWrite, Grows, At, Handler
<1>3. /\ user' \in FactorRecords /\ user'.codes = user.codes
      /\ user'.secret = user.secret
      /\ user' = user \/ Applied(o)
  BY <1>1, Types DEF Merge, FactorRecords
<1>4. /\ outdated \subseteq outdated' /\ outdated' \subseteq outdated \cup {"verify"}
      /\ "verify" \notin outdated' /\ Applied(o)
            => thread[h].read.secret = user.secret
  BY <1>1 DEF Note
<1>5. /\ Generated' /\ SpentIsGone' /\ RetiredCodesDead'
  BY <1>2, <1>3, <1>4 DEF IInv, Generated, SpentIsGone, RetiredCodesDead
<1>6. EnabledIsProven'
  BY <1>2, <1>3, <1>4 DEF IInv, EnabledIsProven
<1>7. QED
  BY <1>2, <1>3, <1>4, <1>5, <1>6, Types, EndStep, Together

\* What consumeBackupCode does to everything but the thread: the code that is
\* accepted was not spent if the copy was current, and is gone now.
LEMMA ConsumeStep ==
    ASSUME IInv, NEW h \in Threads, thread[h].pc \in ConsumePCs,
           NEW o \in Outcomes, ConsumeBackupCode(h, o)
    PROVE  /\ user' \in FactorRecords /\ Cardinality(user'.codes) <= BatchSize
           /\ UNCHANGED <<known, made, proven, retired>> /\ Grows
           /\ spent' \subseteq Codes /\ again' \subseteq spent'
           /\ outdated' \subseteq {"verify", "consume"}
           /\ Remaining(h) \in SUBSET Codes /\ Remaining(h) \subseteq made
           /\ Cardinality(Remaining(h)) <= BatchSize
           /\ Generated' /\ SpentIsGone' /\ EnabledIsProven' /\ RetiredCodesDead'
<1> DEFINE rest == thread[h].read.codes \ {thread[h].code}
<1>1. /\ thread[h].code \in thread[h].read.codes
      /\ rest \in SUBSET thread[h].read.codes /\ rest \subseteq made
      /\ rest \in SUBSET Codes /\ Cardinality(rest) <= BatchSize
      /\ thread[h].code \in Codes /\ thread[h].code \in made
  <2>1. /\ thread[h].code \in thread[h].read.codes
        /\ thread[h].read.codes \subseteq made
        /\ thread[h].read.codes \in SUBSET Codes
        /\ Cardinality(thread[h].read.codes) <= BatchSize
    BY Types DEF Handler
  <2>2. rest \in SUBSET thread[h].read.codes
    OBVIOUS
  <2>3. Cardinality(rest) <= BatchSize
    BY <2>1, <2>2, PartOfBatch
  <2>4. QED
    BY <2>1, <2>2, <2>3
<1>2. Remaining(h) = rest
  BY DEF Remaining
<1>3. /\ user' = IF Applied(o) THEN [user EXCEPT !.codes = rest] ELSE user
      /\ outdated' = IF Applied(o) /\ ~(thread[h].read.codes = user.codes)
                     THEN outdated \cup {"consume"} ELSE outdated
      /\ UNCHANGED <<known, made, proven, retired>> /\ Grows
      /\ \/ Throws(o) /\ UNCHANGED <<spent, again>>
         \/ /\ ~Throws(o)
            /\ spent' = spent \cup {thread[h].code}
            /\ again' = again \cup (spent \cap {thread[h].code})
  BY <1>2 DEF ConsumeBackupCode, Merge, Note, Grows
<1> HIDE DEF rest
<1>4. /\ user' \in FactorRecords
      /\ user'.codes = IF Applied(o) THEN rest ELSE user.codes
      /\ user'.secret = user.secret /\ user'.enabled = user.enabled
  BY <1>1, <1>3, Types DEF FactorRecords
<1>5. Cardinality(user'.codes) <= BatchSize /\ user'.codes \subseteq made
  BY <1>1, <1>4, Types
<1>6. /\ spent' \subseteq Codes /\ again' \subseteq spent'
      /\ spent' \subseteq spent \cup {thread[h].code}
      /\ outdated' \subseteq {"verify", "consume"} /\ outdated \subseteq outdated'
  BY <1>1, <1>3, Types
<1>7. "consume" \notin outdated'
        => /\ "consume" \notin outdated
           /\ Applied(o) => user.codes = thread[h].read.codes
  BY <1>3
<1>8. "consume" \notin outdated' => user'.codes \subseteq user.codes
  BY <1>1, <1>4, <1>7
<1>9. Generated'
  BY <1>1, <1>3, <1>5, <1>6 DEF IInv, Generated
<1>10. RetiredCodesDead'
  BY <1>3, <1>7, <1>8 DEF IInv, RetiredCodesDead
<1>11. EnabledIsProven'
  BY <1>3, <1>4, <1>6 DEF IInv, EnabledIsProven
<1>12. SpentIsGone'
  <2>1. SUFFICES ASSUME "consume" \notin outdated', "error" \notin Faults
                 PROVE  again' = {} /\ user'.codes \cap spent' = {}
    BY DEF SpentIsGone
  <2>2. again = {} /\ user.codes \cap spent = {}
    BY <1>7, <2>1 DEF IInv, SpentIsGone
  <2>3. CASE Throws(o)
    BY <1>3, <1>8, <2>1, <2>2, <2>3
  <2>4. CASE ~Throws(o)
    <3>1. Applied(o)
      BY <2>1, <2>4, FaultsAssumption DEF Outcomes, Throws, Applied
    <3>2. thread[h].code \in user.codes /\ user'.codes = rest
      BY <1>1, <1>4, <1>7, <2>1, <3>1
    <3>3. QED
      BY <1>3, <1>8, <2>1, <2>2, <2>4, <3>2 DEF rest
  <2>5. QED
    BY <2>3, <2>4
<1>13. QED
  BY <1>1, <1>2, <1>3, <1>4, <1>5, <1>6, <1>9, <1>10, <1>11, <1>12

LEMMA LoginConsumeInv ==
    ASSUME IInv, NEW h \in Threads, LoginConsume(h)
    PROVE  IInv'
<1>1. PICK o \in Outcomes : ConsumeBackupCode(h, o)
  BY DEF LoginConsume
<1>2. End(h) /\ thread[h].pc \in ConsumePCs
  BY DEF LoginConsume, At, ConsumePCs
<1>3. QED
  BY <1>1, <1>2, ConsumeStep, EndStep, Types, Together

LEMMA DisableConsumeInv ==
    ASSUME IInv, NEW h \in Threads, DisableConsume(h)
    PROVE  IInv'
<1> DEFINE copy == [thread[h].read EXCEPT !.codes = Remaining(h)]
           rec == [thread[h] EXCEPT !.pc = "disable.write", !.read = copy]
<1>1. PICK o \in Outcomes :
        /\ ConsumeBackupCode(h, o)
        /\ End(h) \/ thread' = [thread EXCEPT ![h] = rec]
  <2>1. thread \in [Threads -> ThreadRecords] /\ thread[h] \in ThreadRecords
    BY Types DEF IInv, TypeOK, ThreadRecords
  <2>2. PICK o \in Outcomes :
          /\ ConsumeBackupCode(h, o)
          /\ IF Throws(o) THEN End(h)
             ELSE thread' = [thread EXCEPT ![h].pc = "disable.write",
                                           ![h].read.codes = Remaining(h)]
    BY DEF DisableConsume
  <2>3. [thread EXCEPT ![h].pc = "disable.write",
                       ![h].read.codes = Remaining(h)]
          = [thread EXCEPT ![h] = rec]
    BY <2>1 DEF ThreadRecords
  <2>4. QED
    BY <2>2, <2>3
<1>2. thread[h].pc \in ConsumePCs
  BY DEF DisableConsume, At, ConsumePCs
<1>3. /\ Remaining(h) \in SUBSET Codes /\ Remaining(h) \subseteq made
      /\ Cardinality(Remaining(h)) <= BatchSize /\ made' = made /\ Grows
  BY <1>1, <1>2, ConsumeStep
<1>4. copy \in FactorRecords /\ copy.codes = Remaining(h)
  BY <1>3, Types DEF FactorRecords
<1> HIDE DEF copy
<1>5. rec \in ThreadRecords /\ rec.read = copy /\ rec.pc = "disable.write"
  BY <1>4, Types DEF ThreadRecords, PCs
<1> HIDE DEF rec
<1>6. Handler(rec, made')
  BY <1>3, <1>4, <1>5 DEF Handler, ConsumePCs
<1>7. /\ thread' \in [Threads -> ThreadRecords]
      /\ \A k \in Threads : Handler(thread'[k], made')
  BY <1>1, <1>3, <1>5, <1>6, EndStep, ThreadStep
<1>8. QED
  BY <1>1, <1>2, <1>7, ConsumeStep, Types, Together

LEMMA DisableWriteInv ==
    ASSUME IInv, NEW h \in Threads, DisableWrite(h)
    PROVE  IInv'
<1>1. PICK o \in Outcomes :
        /\ Merge(o, NoFactor)
        /\ retired' = IF Applied(o) THEN retired \cup user.codes ELSE retired
  BY DEF DisableWrite
<1>2. /\ UNCHANGED <<known, made, spent, again, proven, outdated>> /\ End(h) /\ Grows
  BY DEF DisableWrite, Grows
<1>3. /\ user' = IF Applied(o) THEN NoFactor ELSE user
      /\ NoFactor \in FactorRecords /\ NoFactor.codes = {}
      /\ NoFactor.enabled = FALSE /\ Cardinality({}) <= BatchSize
  BY <1>1, NoFactorType, FactorAssumption DEF Merge, NoFactor
<1>4. /\ user' \in FactorRecords /\ Cardinality(user'.codes) <= BatchSize
      /\ retired' \subseteq Codes
  BY <1>1, <1>3, Types
<1>5. /\ Generated' /\ SpentIsGone' /\ RetiredCodesDead'
  BY <1>1, <1>2, <1>3 DEF IInv, Generated, SpentIsGone, RetiredCodesDead
<1>6. EnabledIsProven'
  BY <1>2, <1>3 DEF IInv, EnabledIsProven
<1>7. QED
  BY <1>2, <1>4, <1>5, <1>6, Types, EndStep, Together

LEMMA CodesWriteInv ==
    ASSUME IInv, NEW h \in Threads, CodesWrite(h)
    PROVE  IInv'
<1>1. PICK o \in Outcomes, audit \in Outcomes, batch \in SUBSET (Codes \ made) :
        /\ Cardinality(batch) = BatchSize
        /\ Merge(o, [user EXCEPT !.codes = batch])
        /\ made' = made \cup batch
        /\ known' = IF Answered(o, audit) THEN known \cup batch ELSE known
        /\ retired' = IF Applied(o) THEN retired \cup user.codes ELSE retired
  BY DEF CodesWrite
<1>2. UNCHANGED <<spent, again, proven, outdated>> /\ End(h) /\ Grows
  BY <1>1 DEF CodesWrite, Grows
<1>3. /\ user' \in FactorRecords
      /\ user'.codes = IF Applied(o) THEN batch ELSE user.codes
      /\ user'.secret = user.secret /\ user'.enabled = user.enabled
  BY <1>1, Types DEF Merge, FactorRecords
<1>4. /\ Cardinality(user'.codes) <= BatchSize /\ retired' \subseteq Codes
      /\ known' \subseteq made' /\ made' \subseteq Secrets \cup Codes
  BY <1>1, <1>3, Types, FactorAssumption
<1>5. Generated'
  BY <1>1, <1>2, <1>3 DEF IInv, Generated
<1>6. batch \cap (spent \cup retired \cup user.codes) = {}
  BY <1>1 DEF IInv, Generated
<1>7. SpentIsGone' /\ RetiredCodesDead'
  BY <1>1, <1>2, <1>3, <1>6 DEF IInv, SpentIsGone, RetiredCodesDead
<1>8. EnabledIsProven'
  BY <1>2, <1>3 DEF IInv, EnabledIsProven
<1>9. QED
  BY <1>2, <1>3, <1>4, <1>5, <1>7, <1>8, Types, EndStep, Together

-----------------------------------------------------------------------------
(* The theorems.                                                           *)

LEMMA SameData ==
    ASSUME IInv, UNCHANGED <<user, factor, outdated>>,
           thread' \in [Threads -> ThreadRecords],
           \A k \in Threads : Handler(thread'[k], made')
    PROVE  IInv'
<1>1. UNCHANGED <<user, known, made, spent, again, proven, retired, outdated>>
  BY DEF factor
<1>2. /\ Generated' /\ SpentIsGone' /\ EnabledIsProven' /\ RetiredCodesDead'
  BY <1>1 DEF IInv, Generated, SpentIsGone, EnabledIsProven, RetiredCodesDead
<1>3. /\ user' \in FactorRecords /\ Cardinality(user'.codes) <= BatchSize
      /\ known' \subseteq made' /\ made' \subseteq Secrets \cup Codes
      /\ spent' \subseteq Codes /\ again' \subseteq spent'
      /\ proven' \subseteq Secrets /\ retired' \subseteq Codes
      /\ outdated' \subseteq {"verify", "consume"}
  BY <1>1 DEF IInv, TypeOK
<1>4. QED
  BY <1>2, <1>3, Together

LEMMA InitInv == Init => IInv
<1> SUFFICES ASSUME Init PROVE IInv
  OBVIOUS
<1>1. /\ user = NoFactor /\ thread = [h \in Threads |-> Idle]
      /\ known = {} /\ made = {} /\ spent = {} /\ again = {}
      /\ proven = {} /\ retired = {} /\ outdated = {}
  BY DEF Init
<1>2. /\ NoFactor \in FactorRecords /\ NoFactor.codes = {}
      /\ NoFactor.enabled = FALSE /\ Cardinality({}) <= BatchSize
  BY NoFactorType, FactorAssumption DEF NoFactor
<1>3. TypeOK
  BY <1>1, <1>2, IdleHandler DEF TypeOK, ThreadRecords
<1>4. Generated /\ SpentIsGone /\ EnabledIsProven /\ RetiredCodesDead
  BY <1>1, <1>2 DEF Generated, SpentIsGone, EnabledIsProven, RetiredCodesDead
<1>5. QED
  BY <1>1, <1>3, <1>4, IdleHandler DEF IInv

LEMMA NextInv == IInv /\ [Next]_vars => IInv'
<1> SUFFICES ASSUME IInv, [Next]_vars PROVE IInv'
  OBVIOUS
<1>1. CASE \E h \in Threads : EnrolStep(h)
  BY <1>1, ReadsInv, EnableWriteInv, VerifyWriteInv DEF EnrolStep
<1>2. CASE \E h \in Threads : CodeStep(h)
  BY <1>2, ReadsInv, LoginConsumeInv, CodesWriteInv DEF CodeStep
<1>3. CASE \E h \in Threads : DisableStep(h)
  BY <1>3, ReadsInv, DisableConsumeInv, DisableWriteInv DEF DisableStep
<1>4. CASE Crash
  BY <1>4, IdleHandler, SameData DEF Crash
<1>5. CASE UNCHANGED vars
  <2>1. UNCHANGED <<user, factor, outdated>> /\ UNCHANGED <<thread, made>>
    BY <1>5 DEF vars, factor
  <2>2. QED
    BY <2>1, SameData DEF IInv, TypeOK, ThreadRecords
<1>6. QED
  BY <1>1, <1>2, <1>3, <1>4, <1>5 DEF Next

\* IInv is an inductive invariant of the second factor's handlers.
THEOREM Invariance == Spec => []IInv
BY InitInv, NextInv, PTL DEF Spec

\* The record and the handlers keep their types, and the backup codes valid
\* at a time are never more than one call of backupCodes makes.
THEOREM TypeCorrect == Spec => []TypeOK
<1>1. IInv => TypeOK
  BY DEF IInv
<1>2. QED
  BY <1>1, Invariance, PTL

\* While every consumeBackupCode writes on current codes and failures throw,
\* no backup code is accepted twice.
THEOREM AcceptedOnce == Spec => []BackupCodeOnce
<1>1. IInv => BackupCodeOnce
  BY DEF IInv, SpentIsGone, BackupCodeOnce
<1>2. QED
  BY <1>1, Invariance, PTL

\* While every totpVerify writes on the secret it checked, the secret that
\* login asks for is one the user has shown to have.
THEOREM NoLockout == Spec => []EnabledIsProven
<1>1. IInv => EnabledIsProven
  BY DEF IInv
<1>2. QED
  BY <1>1, Invariance, PTL

\* While every consumeBackupCode writes on current codes, codes replaced by
\* backupCodes or dropped by totpDisable do not come back.
THEOREM RetiredStayDead == Spec => []RetiredCodesDead
<1>1. IInv => RetiredCodesDead
  BY DEF IInv
<1>2. QED
  BY <1>1, Invariance, PTL

=============================================================================
