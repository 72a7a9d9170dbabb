---------------------------- MODULE SurrealClient ----------------------------
(***************************************************************************)
(* How SurrealClient.cc puts its lookups together and reads their answers, *)
(* for every state of the table user that createUser can bring about, and  *)
(* without failures, which are in the modules that use SurrealCalls.       *)
(*                                                                         *)
(* The database answers with a result per statement; whether a LET counts  *)
(* as one of them is its own affair, and an argument here (letAnswers):    *)
(* the code takes it that it does not, SurrealClient.h and SurrealDB say   *)
(* that it does.  A text that the database cannot parse it answers with a  *)
(* JSON object instead of an array.                                        *)
(***************************************************************************)
EXTENDS SequencesExt, FiniteSets

CONSTANTS Keys,   \* what stands behind "user:" in a record's id
          Names,  \* addresses, but for the case of their letters
          Null

\* A client spells an address as it likes.
Spellings == [name : Names, case : {"lower", "mixed"}]

ASSUME NullAssumption == Null \notin Keys /\ Null \notin Spellings

VARIABLE user  \* the table: a key's address, normalised, or Null

Lower(e) == [e EXCEPT !.case = "lower"]

\* "user:01H" and "01H".
RecordId(k) == [table |-> TRUE, key |-> k]

RecordIdPart(id) == [id EXCEPT !.table = FALSE]

-----------------------------------------------------------------------------
(* Answers of the database, and the client's reading of them.              *)

\* The keys that have a record; the rows of a SELECT come in any order.
Records == {k \in Keys : user[k] # Null}

Array(sets) == [array |-> TRUE, sets |-> sets]

Object == [array |-> FALSE, sets |-> <<>>]

\* A LET has no rows: its result, if it has one, is null.
Let(letAnswers) == IF letAnswers THEN << <<>> >> ELSE <<>>

\* The first row of the first result.
FirstResult(res) ==
    IF res.array /\ res.sets # <<>> /\ res.sets[1] # <<>> THEN res.sets[1][1] ELSE Null

\* Mutant: the address goes into the query as the client spelled it.
SelectOneByEmailAsTyped(letAnswers, e) ==
    FirstResult(Array(Let(letAnswers) \o <<SetToSeq({k \in Records : user[k] = e})>>))

\* LET $email := ...; SELECT * FROM user WHERE email_norm = $email LIMIT 1;
SelectOneByEmail(letAnswers, e) ==
    FirstResult(Array(Let(letAnswers) \o <<SetToSeq({k \in Records : user[k] = Lower(e)})>>))

\* "user:" is put in front of the id, whether it has one or not.
Parses(id) == ~id.table

SelectById(id) ==
    FirstResult(IF Parses(id) THEN Array(<<SetToSeq({id.key} \cap Records)>>) ELSE Object)

\* GetUser of the gRPC service passes the id of its request on as it is.
GetUser(id) == SelectById(id)

-----------------------------------------------------------------------------
TableInit == user = [k \in Keys |-> Null]

\* The table's unique index refuses an address that is taken.
CreateUser(e) ==
    /\ \A k \in Keys : user[k] # Lower(e)
    /\ \E k \in Keys : user[k] = Null /\ user' = [user EXCEPT ![k] = Lower(e)]

TableSpec == TableInit /\ [][\E e \in Spellings : CreateUser(e)]_user

-----------------------------------------------------------------------------
(* Properties.                                                             *)

\* Where a LET has no result of its own, as the lookups take it, a login finds
\* the user of its address, whatever the case of either, or nobody if there is
\* none; and an id of an answer, "user:01H", cut as the handlers cut it, finds the
\* user it is of.
LookupFindsUser ==
    /\ \A e \in Spellings :
          LET owners == {k \in Records : user[k].name = e.name}
          IN  IF owners = {} THEN SelectOneByEmail(FALSE, e) = Null
              ELSE owners = {SelectOneByEmail(FALSE, e)}
    /\ \A k \in Records : SelectById(RecordIdPart(RecordId(k))) = k

-----------------------------------------------------------------------------
(* What the documentation says and the code does not do.                   *)

\* "POST /api/auth/login -> { token, user }" (README.md:40): a registered address
\* is found.  exec returns an array of "result sets" for "multiple statements"
\* (SurrealClient.h:10-11), the first of which is the LET's.
LoginFindsUser == \A k \in Records : SelectOneByEmail(TRUE, user[k]) = k

\* "returns a sanitized user profile" for {"id":"user:01H..."} (README.md:60, 64):
\* GetUser finds the user of a record id.
DocumentedIdFound == \A k \in Records : GetUser(RecordId(k)) = k

=============================================================================
