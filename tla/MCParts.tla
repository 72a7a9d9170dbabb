------------------------------ MODULE MCParts ------------------------------
(* One instance for TLC of the smaller parts of the program: the encodings,  *)
(* along the base64 loop of every input; the TOTP window, at every time; the *)
(* lookups, in every table; and the life of the process.  They share         *)
(* nothing, so one is followed while the others are at their beginning: time *)
(* passes and users are created beside the empty input only, and the process *)
(* is started when neither has happened.                                     *)
EXTENDS Codecs, Totp, SurrealClient, ServerLifecycle

CONSTANT CounterBits  \* for 64

MCCounterModulus == 2^CounterBits

\* Told apart by their code, from 3 on, with leading zeros and without.
MCTruncated == [c \in 0..(MCCounterModulus - 1) |-> 11000003 + 77777 * c]

parts == <<encoder, clock, user, life>>

\* main takes its first step before any other part of the process does.
NotStarted == input = <<>> /\ main = "build"

Encode == EncodeNext /\ UNCHANGED <<clock, user, life>>

PassTime == NotStarted /\ Tick /\ UNCHANGED <<encoder, user, life>>

AddUser ==
    /\ NotStarted
    /\ \E e \in Spellings : CreateUser(e)
    /\ UNCHANGED <<encoder, clock, life>>

\* The process is all that moves.
Alone == input = <<>> /\ TotpInit /\ TableInit /\ UNCHANGED <<encoder, clock, user>>

Live == LifeNext /\ Alone

PartsInit == EncodeInit /\ TotpInit /\ TableInit /\ LifeInit

\* Fairness is that of FairEncodeSpec and FairLifeSpec.
PartsSpec ==
    /\ PartsInit
    /\ [][Encode \/ PassTime \/ AddUser \/ Live]_parts
    /\ WF_parts(Encode)
    /\ WF_parts(Main /\ Alone) /\ WF_parts(WaitReturns /\ Alone)
    /\ \A c \in Calls : WF_parts(Query(c) /\ Alone) /\ WF_parts(Reply(c) /\ Alone)

=============================================================================
