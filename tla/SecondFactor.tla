---------------------------- MODULE SecondFactor ----------------------------
(***************************************************************************)
(* The second factor of one user: totpEnable, totpVerify, totpDisable and  *)
(* backupCodes of AuthController, and the part of login that accepts a     *)
(* backup code.                                                            *)
(*                                                                         *)
(* Every handler reads the user record, decides on that copy, and then     *)
(* writes with UPDATE ... MERGE, which replaces the fields it names and    *)
(* asks nothing of their old values.  Calls of different handlers          *)
(* interleave, so the read is one action and each write another.           *)
(*                                                                         *)
(* Data.  A TOTP code is right if it is of the secret in the copy; its     *)
(* time window is not modelled.  Requests that are refused, and login with *)
(* a TOTP code, write nothing and are left out.  A call fails as           *)
(* SurrealCalls says; a read that fails is a refused request.              *)
(***************************************************************************)
EXTENDS SurrealCalls, FiniteSets, Naturals

CONSTANTS Threads,
          Secrets,    \* the TOTP secrets ever generated
          Codes,      \* the backup codes ever generated
          BatchSize,  \* how many backupCodes makes at once: 8 in the code
          Null

ASSUME FactorAssumption ==
    /\ Null \notin Secrets \cup Codes
    /\ Secrets \cap Codes = {}
    /\ IsFiniteSet(Codes)
    /\ BatchSize \in Nat

VARIABLES
    user,     \* totp_secret, totp_enabled and backup_codes of the user record
    thread,   \* per thread: its next call, its copy of the record, its input
    known,    \* the secrets and codes that the user was told
    made,     \* the secrets and codes that were generated
    spent,    \* history: backup codes accepted once
    again,    \* history: backup codes accepted more than once
    proven,   \* history: secrets of which totpVerify has seen a code
    retired,  \* history: codes valid when they were replaced or disabled
    outdated  \* history: which of "verify" and "consume" has written on a copy
              \* whose secret, whose codes were no longer those of the record

factor == <<known, made, spent, again, proven, retired>>
vars == <<user, thread, factor, outdated>>

PCs == {"idle", "enable.write", "verify.write", "disable.consume",
        "disable.write", "codes.write", "login.consume"}

NoFactor == [secret |-> Null, enabled |-> FALSE, codes |-> {}]

Idle == [pc |-> "idle", read |-> NoFactor, code |-> Null]

At(h, pc) == thread[h].pc = pc

\* An idle thread reads the record; pc names the write it goes on to.
Read(h, pc, code) ==
    /\ At(h, "idle")
    /\ thread' = [thread EXCEPT ![h] = [pc |-> pc, read |-> user, code |-> code]]
    /\ UNCHANGED <<user, factor, outdated>>

End(h) == thread' = [thread EXCEPT ![h] = Idle]

Goto(h, pc) == thread' = [thread EXCEPT ![h].pc = pc]

\* updateRecord with the fields of the user record that rec changes.
Merge(o, rec) == user' = IF Applied(o) THEN rec ELSE user

\* A write of that name relied on a part of the copy that has changed.
Note(o, name, same) ==
    outdated' = IF Applied(o) /\ ~same THEN outdated \cup {name} ELSE outdated

\* The write ended with o: does the answer, after the audit row, go out?
Answered(o, audit) == ~Throws(o) /\ ~Throws(audit)

-----------------------------------------------------------------------------
(* totpEnable: a new secret, not enabled yet.  backup_codes stay.          *)

TotpEnable(h) == Read(h, "enable.write", Null)

\* Mutant: totp_enabled is left as it is.
EnableWriteKeeps(h) ==
    /\ At(h, "enable.write")
    /\ \E o, audit \in Outcomes, s \in Secrets \ made :
          /\ Merge(o, [user EXCEPT !.secret = s])
          /\ made' = made \cup {s}
          /\ known' = IF Answered(o, audit) THEN known \cup {s} ELSE known
    /\ End(h)
    /\ UNCHANGED <<spent, again, proven, retired, outdated>>

EnableWrite(h) ==
    /\ At(h, "enable.write")
    /\ \E o, audit \in Outcomes, s \in Secrets \ made :
          /\ Merge(o, [user EXCEPT !.secret = s, !.enabled = FALSE])
          /\ made' = made \cup {s}
          /\ known' = IF Answered(o, audit) THEN known \cup {s} ELSE known
    /\ End(h)
    /\ UNCHANGED <<spent, again, proven, retired, outdated>>

(* totpVerify: only totp_enabled is written.                               *)

TotpVerify(h) ==
    /\ user.secret \in known
    /\ Read(h, "verify.write", Null)

VerifyWrite(h) ==
    /\ At(h, "verify.write")
    /\ \E o \in Outcomes :
          /\ Merge(o, [user EXCEPT !.enabled = TRUE])
          /\ Note(o, "verify", thread[h].read.secret = user.secret)
    /\ proven' = proven \cup {thread[h].read.secret}
    /\ End(h)
    /\ UNCHANGED <<known, made, spent, again, retired>>

-----------------------------------------------------------------------------
(* consumeBackupCode: the codes of the copy without the one that matched.  *)

\* Mutant: the code that matched is kept with the others.
RemainingAll(h) == thread[h].read.codes

Remaining(h) == thread[h].read.codes \ {thread[h].code}

ConsumeBackupCode(h, o) ==
    /\ Merge(o, [user EXCEPT !.codes = Remaining(h)])
    /\ Note(o, "consume", thread[h].read.codes = user.codes)
    /\ IF Throws(o) THEN UNCHANGED <<spent, again>>
       ELSE /\ spent' = spent \cup {thread[h].code}
            /\ again' = again \cup (spent \cap {thread[h].code})
    /\ UNCHANGED <<known, made, proven, retired>>

\* login with a backup code.
LoginWithCode(h, c) ==
    /\ user.enabled
    /\ c \in known \cap user.codes
    /\ Read(h, "login.consume", c)

LoginConsume(h) ==
    /\ At(h, "login.consume")
    /\ \E o \in Outcomes : ConsumeBackupCode(h, o)
    /\ End(h)

(* totpDisable, with a TOTP code or with a backup code.                    *)

TotpDisable(h) ==
    /\ user.enabled
    /\ \/ user.secret \in known /\ Read(h, "disable.write", Null)
       \/ \E c \in known \cap user.codes : Read(h, "disable.consume", c)

\* The copy in memory loses the code too: user["backup_codes"] = remaining.
DisableConsume(h) ==
    /\ At(h, "disable.consume")
    /\ \E o \in Outcomes :
          /\ ConsumeBackupCode(h, o)
          /\ IF Throws(o) THEN End(h)
             ELSE thread' = [thread EXCEPT ![h].pc = "disable.write",
                                           ![h].read.codes = Remaining(h)]

\* Mutant: backup_codes are forgotten.
DisableWriteKeeps(h) ==
    /\ At(h, "disable.write")
    /\ \E o \in Outcomes :
          /\ Merge(o, [user EXCEPT !.secret = Null, !.enabled = FALSE])
          /\ retired' = IF Applied(o) THEN retired \cup user.codes ELSE retired
    /\ End(h)
    /\ UNCHANGED <<known, made, spent, again, proven, outdated>>

DisableWrite(h) ==
    /\ At(h, "disable.write")
    /\ \E o \in Outcomes :
          /\ Merge(o, NoFactor)
          /\ retired' = IF Applied(o) THEN retired \cup user.codes ELSE retired
    /\ End(h)
    /\ UNCHANGED <<known, made, spent, again, proven, outdated>>

-----------------------------------------------------------------------------
(* backupCodes: a new batch replaces the old one.                          *)

BackupCodes(h) ==
    /\ user.enabled
    /\ user.secret \in known
    /\ Read(h, "codes.write", Null)

CodesWrite(h) ==
    /\ At(h, "codes.write")
    /\ \E o, audit \in Outcomes, batch \in SUBSET (Codes \ made) :
          /\ Cardinality(batch) = BatchSize
          /\ Merge(o, [user EXCEPT !.codes = batch])
          /\ made' = made \cup batch
          /\ known' = IF Answered(o, audit) THEN known \cup batch ELSE known
          /\ retired' = IF Applied(o) THEN retired \cup user.codes ELSE retired
    /\ End(h)
    /\ UNCHANGED <<spent, again, proven, outdated>>

-----------------------------------------------------------------------------
Crash ==
    /\ "crash" \in Faults
    /\ thread' = [h \in Threads |-> Idle]
    /\ UNCHANGED <<user, factor, outdated>>

Init ==
    /\ user = NoFactor
    /\ thread = [h \in Threads |-> Idle]
    /\ known = {} /\ made = {}
    /\ spent = {} /\ again = {} /\ proven = {} /\ retired = {}
    /\ outdated = {}

EnrolStep(h) == \/ TotpEnable(h) \/ EnableWrite(h)
                \/ TotpVerify(h) \/ VerifyWrite(h)

CodeStep(h) == \/ \E c \in Codes : LoginWithCode(h, c)
               \/ LoginConsume(h) \/ BackupCodes(h) \/ CodesWrite(h)

DisableStep(h) == TotpDisable(h) \/ DisableConsume(h) \/ DisableWrite(h)

Next == \/ \E h \in Threads : EnrolStep(h) \/ CodeStep(h) \/ DisableStep(h)
        \/ Crash

Spec == Init /\ [][Next]_vars

-----------------------------------------------------------------------------
(* Properties.                                                             *)

FactorRecords ==
    [secret : Secrets \cup {Null}, enabled : BOOLEAN, codes : SUBSET Codes]

\* Types; and however the writes of handlers overlap, no more than one batch
\* of backup codes is valid at a time.
TypeOK ==
    /\ user \in FactorRecords
    /\ Cardinality(user.codes) <= BatchSize
    /\ thread \in [Threads -> [pc : PCs, read : FactorRecords,
                               code : Codes \cup {Null}]]
    /\ known \subseteq made
    /\ made \subseteq Secrets \cup Codes
    /\ spent \subseteq Codes /\ again \subseteq spent
    /\ proven \subseteq Secrets
    /\ retired \subseteq Codes
    /\ outdated \subseteq {"verify", "consume"}

\* A backup code is accepted once, through crashes, lost requests and lost
\* answers, as long as no consumeBackupCode writes over a change of the codes
\* and the database refuses no statement in silence.
BackupCodeOnce ==
    "consume" \notin outdated /\ "error" \notin Faults => again = {}

\* Nobody is locked out: the second factor that login asks for is one the user
\* has shown to have, unless an outdated totpVerify was the one to enable it.
EnabledIsProven ==
    "verify" \notin outdated /\ user.enabled => user.secret \in proven

\* A code that a new batch or totpDisable made invalid stays invalid, unless
\* an outdated consumeBackupCode writes it back.
RetiredCodesDead == "consume" \notin outdated => user.codes \cap retired = {}

=============================================================================
