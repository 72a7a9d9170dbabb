-------------------------------- MODULE Totp --------------------------------
(***************************************************************************)
(* The time window of totp.hpp: an authenticator shows a code, the user    *)
(* types it in, and totpEnable's, totpVerify's or login's verify_code      *)
(* reads the clock when the request comes.  Nothing notes that a code has  *)
(* been used, so verify_code is a function of the code and the clock,      *)
(* which is the one variable.                                              *)
(*                                                                         *)
(* HMAC and the truncation of its digest are one function of the counter,  *)
(* a constant.  Two counters in a million have the same code, and then     *)
(* either's is accepted for the other's; an instance has none such among   *)
(* the counters that its clock comes to.  A code is the sequence of its    *)
(* six digits: one that loses a leading 0 has another size.                *)
(*                                                                         *)
(* Bound: MaxClock seconds.                                                *)
(***************************************************************************)
EXTENDS Integers, Sequences

CONSTANTS Period, Window,   \* 30 and 1 in the code
          CounterModulus,   \* 2^64: a counter is a uint64_t
          Truncated,        \* the four bytes of the digest, by counter
          MaxClock

LastPeriod == MaxClock \div Period

ASSUME TotpAssumption ==
    /\ Period \in Nat \ {0} /\ Window \in Nat /\ MaxClock \in Nat
    /\ CounterModulus \in Nat /\ LastPeriod + Window < CounterModulus
    /\ Truncated \in [0..(CounterModulus - 1) -> Nat]

VARIABLE clock  \* of the server, in seconds

\* The counter's bytes, HMAC, the truncation and % 1000000.
ComputeCode(counter) == Truncated[counter] % 1000000

\* The counters that the clock comes to, and those that wrap around before 0.
InPlay == 0..(LastPeriod + Window) \cup (CounterModulus - Window)..(CounterModulus - 1)

ASSUME NoCollision ==
    \A c, d \in InPlay : ComputeCode(c) = ComputeCode(d) => c = d

\* std::setw(6), std::setfill('0').
Format(n) ==
    << (n \div 100000) % 10, (n \div 10000) % 10, (n \div 1000) % 10,
       (n \div 100) % 10, (n \div 10) % 10, n % 10 >>

GenerateCodeNow(seconds) == Format(ComputeCode(seconds \div Period))

\* std::stoul.
Value(d) == 100000 * d[1] + 10000 * d[2] + 1000 * d[3] + 100 * d[4] + 10 * d[5] + d[6]

\* Mutant: one period too many on either side.
CountersWide(seconds) ==
    {((seconds \div Period) + i) % CounterModulus : i \in (-Window - 1)..(Window + 1)}

\* current_counter + i wraps around below 0.
Counters(seconds) ==
    {((seconds \div Period) + i) % CounterModulus : i \in (-Window)..Window}

VerifyCode(digits, seconds) ==
    /\ Len(digits) = 6
    /\ \E c \in Counters(seconds) : ComputeCode(c) = Value(digits)

\* What an authenticator whose own clock stands at shown shows is accepted by a
\* request that the server handles at now.
Accepted(shown, now) == VerifyCode(GenerateCodeNow(shown), now)

-----------------------------------------------------------------------------
TotpInit == clock = 0

Tick == clock < MaxClock /\ clock' = clock + 1

TotpSpec == TotpInit /\ [][Tick]_clock

-----------------------------------------------------------------------------
(* Properties.                                                             *)

\* An authenticator that is right to within a period, delay included, is never
\* refused: not for a leading 0, at a period's boundary, nor just after time 0,
\* where current_counter - 1 wraps.
PunctualAccepted ==
    \A shown \in 0..MaxClock :
        clock - shown \in (-(Window * Period))..(Window * Period) => Accepted(shown, clock)

\* A code that is off by two periods, early or late, is refused.
LateRefused ==
    \A shown \in 0..MaxClock :
        Accepted(shown, clock) =>
            clock - shown \in (1 - (Window + 1) * Period)..((Window + 1) * Period - 1)

\* A code can be used again, but its uses lie within three periods.
ReusedWithinWindow ==
    \A shown \in 0..MaxClock, first \in 0..clock :
        Accepted(shown, first) /\ Accepted(shown, clock)
            => clock - first < (2 * Window + 1) * Period

\* The window of verify_code: all three.
CodeWindow == PunctualAccepted /\ LateRefused /\ ReusedWithinWindow

=============================================================================
