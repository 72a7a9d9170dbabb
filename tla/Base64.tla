------------------------------- MODULE Base64 -------------------------------
(***************************************************************************)
(* The base64 loop that jwt.hpp (b64url_encode) and SurrealClient.cc (b64) *)
(* have in common, one action per turn of a loop.  The two differ in the   *)
(* type of val and valb: int in the first, size_t in the second, where     *)
(* valb starts at -6, which is 2^64 - 6, and is never below 0.             *)
(*                                                                         *)
(* A digit is a number below 64, its place in the table; Pad is '='.       *)
(*                                                                         *)
(* Bounds: inputs of up to MaxLength bytes from Bytes; integers of Width   *)
(* bits, of which the encoding looks at the lower 12 of val; and memory    *)
(* for MaxOut digits, after which push_back throws.                        *)
(***************************************************************************)
EXTENDS BitStrings

CONSTANTS Bytes, MaxLength, MaxOut, Width,
          Signed  \* are val and valb int, or size_t?

ASSUME BoundsAssumption ==
    /\ Bytes \subseteq 0..255
    /\ MaxLength \in Nat /\ MaxOut \in Nat
    /\ Width \in Nat /\ Width > 12
    /\ Signed \in BOOLEAN

\* Arithmetic that the provers do not do themselves, of every Width from 12 on.
ASSUME PowerAssumption == 2^Width \in Nat /\ 2^Width > 0 /\ 2^Width % 4096 = 0

VARIABLES
    input,
    pos,        \* how many bytes of it have been taken
    val, valb,
    out,
    pc          \* "byte" before a turn of the for loop, "digits" in its while loop,
                \* "done" or "threw" in the end

encoder == <<input, pos, val, valb, out, pc>>

Pad == 64

\* The digit that a shift by as many bits as the type has, or more, may yield.
Garbage == 65

\* valb is an int in no danger of overflow, or wraps.
Modular(x) == IF Signed THEN x ELSE x % 2^Width

\* (x >> n) & 0x3F.
Digit6(x, n) == IF n < Width THEN (x \div 2^n) % 64 ELSE Garbage

Pads(n) == [i \in 1..((-n) % 4) |-> Pad]

-----------------------------------------------------------------------------
EncodeInit ==
    /\ input \in BoundedSeq(Bytes, MaxLength)
    /\ pos = 0
    /\ val = 0
    /\ valb = Modular(-6)
    /\ out = <<>>
    /\ pc = "byte"

Byte ==
    /\ pc = "byte"
    /\ pos < Len(input)
    /\ val' = (val * 256 + input[pos + 1]) % 2^Width
    /\ valb' = Modular(valb + 8)
    /\ pos' = pos + 1
    /\ pc' = "digits"
    /\ UNCHANGED <<input, out>>

MoreDigits == valb >= 0

\* Mutant: the shift count is not counted down.
EmitStuck ==
    /\ pc = "digits"
    /\ MoreDigits
    /\ IF Len(out) < MaxOut THEN out' = Append(out, Digit6(val, valb)) /\ pc' = pc
                            ELSE pc' = "threw" /\ out' = out
    /\ UNCHANGED <<input, pos, val, valb>>

\* push_back, which throws when there is no memory.
Emit ==
    /\ pc = "digits"
    /\ MoreDigits
    /\ IF Len(out) < MaxOut
       THEN out' = Append(out, Digit6(val, valb)) /\ valb' = Modular(valb - 6) /\ pc' = pc
       ELSE pc' = "threw" /\ UNCHANGED <<out, valb>>
    /\ UNCHANGED <<input, pos, val>>

NextByte ==
    /\ pc = "digits"
    /\ ~MoreDigits
    /\ pc' = "byte"
    /\ UNCHANGED <<input, pos, val, valb, out>>

\* Mutant: bits are left over only when there are four of them.
TailOfFour ==
    /\ pc = "byte"
    /\ pos = Len(input)
    /\ LET digits == IF valb > Modular(-4) THEN Append(out, Digit6(val * 256, valb + 8))
                     ELSE out
       IN  out' = digits \o Pads(Len(digits))
    /\ pc' = "done"
    /\ UNCHANGED <<input, pos, val, valb>>

\* The bits left over, and the padding.
Tail6 ==
    /\ pc = "byte"
    /\ pos = Len(input)
    /\ LET digits == IF valb > Modular(-6) THEN Append(out, Digit6(val * 256, valb + 8))
                     ELSE out
       IN  out' = digits \o Pads(Len(digits))
    /\ pc' = "done"
    /\ UNCHANGED <<input, pos, val, valb>>

EncodeNext == Byte \/ Emit \/ NextByte \/ Tail6

EncodeSpec == EncodeInit /\ [][EncodeNext]_encoder

\* The function runs on.
FairEncodeSpec == EncodeSpec /\ WF_encoder(EncodeNext)

-----------------------------------------------------------------------------
(* Properties.                                                             *)

\* Types of the version with int: the shift counts, and all that val is looked
\* at for, stay far from the width of the type, whatever the input.
IntTypeOK ==
    /\ input \in BoundedSeq(Bytes, MaxLength)
    /\ pos \in 0..Len(input)
    /\ val \in 0..(2^Width - 1)
    /\ valb \in -6..6
    /\ out \in Seq(0..Pad)
    /\ pc \in {"byte", "digits", "done", "threw"}

\* What has been put out is right at every turn of the loops, and complete in
\* the end, and the types are right: the int version is Base64.
IsBase64 ==
    /\ IntTypeOK
    /\ IsPrefix(out, Base64Of(input))
    /\ pc = "done" => out = Base64Of(input)

\* The encoder returns.  SurrealClient's constructor needs it for the header of
\* the "Basic auth" that README.md:86 promises.
Returns == <>(pc = "done")

=============================================================================
