------------------------------- MODULE Codecs -------------------------------
(***************************************************************************)
(* The encodings of jwt.hpp, totp.hpp and crypto.hpp, as functions of a    *)
(* byte string: a JWT segment, a TOTP secret, or the salt of a password    *)
(* hash.  The string is the input of Base64, whose runs have every string  *)
(* of up to MaxLength bytes.                                               *)
(*                                                                         *)
(* A character is its place in the encoder's table, so the two alphabets   *)
(* of Base64 are the same, and so are upper and lower case of Base32.  The *)
(* turns of the base64 loop are in Base64; integers have its Width.        *)
(***************************************************************************)
EXTENDS Base64

-----------------------------------------------------------------------------
(* jwt.hpp.                                                                *)

\* while (!out.empty() && out.back()=='=') out.pop_back().
UrlEncoded == SubSeq(out, 1, Max({0} \cup {i \in 1..Len(out) : out[i] # Pad}))

\* Mutant: one '=' at most.
PaddedOnce(s) == IF Len(s) % 4 = 0 THEN s ELSE Append(s, Pad)

\* while (s.size()%4) s.push_back('=').
Padded(s) == s \o [i \in 1..((-Len(s)) % 4) |-> Pad]

\* Three bytes of four digits; '=' counts as 0.
Group(c) ==
    LET d == [i \in 1..4 |-> c[i] % 64]
    IN  << d[1] * 4 + d[2] \div 16, (d[2] % 16) * 16 + d[3] \div 4, (d[3] % 4) * 64 + d[4] >>

\* OpenSSL's decoder takes groups of four characters and nothing else; the last
\* group has a byte less for every '='.
BioRead(s) ==
    LET pads == Cardinality({i \in 1..Len(s) : s[i] = Pad})
        group(g) == Group([i \in 1..4 |-> s[4 * g + i]])
    IN  [n \in 1..(3 * (Len(s) \div 4) - pads) |-> group((n - 1) \div 3)[((n - 1) % 3) + 1]]

UrlDecode(s) == BioRead(Padded(s))

-----------------------------------------------------------------------------
(* totp.hpp.                                                               *)

Pad32 == 32

\* One turn of the outer loop, with all of the inner one.
Encode32Step(st, byte) ==
    LET current == (st.current * 256 + byte) % 2^Width
        bits    == st.bits + 8
    IN  [current |-> current, bits |-> bits % 5,
         out |-> st.out \o [i \in 1..(bits \div 5) |-> (current \div 2^(bits - 5 * i)) % 32]]

Encode32Tail(st) ==
    IF st.bits > 0 THEN Append(st.out, (st.current * 2^(5 - st.bits)) % 32) ELSE st.out

\* The outer loop.
Encode32Turns(bytes) ==
    LET turn[n \in 0..Len(bytes)] ==
            IF n = 0 THEN [current |-> 0, bits |-> 0, out |-> <<>>]
                     ELSE Encode32Step(turn[n - 1], bytes[n])
    IN  turn[Len(bytes)]

Base32Encode(bytes) ==
    LET digits == Encode32Tail(Encode32Turns(bytes))
    IN  digits \o [i \in 1..((-Len(digits)) % 8) |-> Pad32]

\* Mutant: a byte is taken when there are more than eight bits.
Decode32StepLate(st, digit) ==
    LET buffer == st.buffer * 32 + digit
        bits   == st.bits + 5
    IN  IF bits > 8
        THEN [buffer |-> buffer % 2^(bits - 8), bits |-> bits - 8,
              out |-> Append(st.out, (buffer \div 2^(bits - 8)) % 256)]
        ELSE [st EXCEPT !.buffer = buffer, !.bits = bits]

Decode32Step(st, digit) ==
    LET buffer == st.buffer * 32 + digit
        bits   == st.bits + 5
    IN  IF bits >= 8
        THEN [buffer |-> buffer % 2^(bits - 8), bits |-> bits - 8,
              out |-> Append(st.out, (buffer \div 2^(bits - 8)) % 256)]
        ELSE [st EXCEPT !.buffer = buffer, !.bits = bits]

Decode32Turns(digits) ==
    LET turn[n \in 0..Len(digits)] ==
            IF n = 0 THEN [buffer |-> 0, bits |-> 0, out |-> <<>>]
                     ELSE Decode32Step(turn[n - 1], digits[n])
    IN  turn[Len(digits)]

\* It stops at the first '='.
Base32Decode(s) ==
    LET end == Min({i \in 1..Len(s) : s[i] = Pad32} \cup {Len(s) + 1})
    IN  Decode32Turns(SubSeq(s, 1, end - 1)).out

-----------------------------------------------------------------------------
(* crypto.hpp.                                                             *)

ToHex(bytes) ==
    [i \in 1..(2 * Len(bytes)) |->
        LET byte == bytes[(i + 1) \div 2] IN IF i % 2 = 1 THEN byte \div 16 ELSE byte % 16]

\* Mutant: one character is taken for a byte's second time.
FromHexOverlaps(s) == [i \in 1..(Len(s) \div 2) |-> s[2 * i - 1] * 16 + s[i]]

\* strtol of two characters at a time; a last one that is alone is a byte too.
FromHex(s) ==
    [i \in 1..((Len(s) + 1) \div 2) |->
        IF 2 * i <= Len(s) THEN s[2 * i - 1] * 16 + s[2 * i] ELSE s[2 * i - 1]]

Dollar == 36

Scheme == 112  \* "pbkdf2"; no '$' in it

Iterations == 150000

Decimal == <<1, 5, 0, 0, 0, 0>>

\* PBKDF2 of OpenSSL: some function of password, iterations and salt that tells
\* them apart.
Derived(password, iterations, salt) == <<password, iterations % 256>> \o salt

HashPassword(password, salt) ==
    <<Scheme, Dollar>> \o Decimal \o <<Dollar>> \o ToHex(salt) \o <<Dollar>>
        \o ToHex(Derived(password, Iterations, salt))

\* std::stoi, of as many digits as Decimal has.
Stoi(d) == 100000 * d[1] + 10000 * d[2] + 1000 * d[3] + 100 * d[4] + 10 * d[5] + d[6]

\* stored.find('$', from), or 0.
Find(s, from) ==
    LET found == {i \in from..Len(s) : s[i] = Dollar}
    IN  IF found = {} THEN 0 ELSE Min(found)

VerifyPassword(password, stored) ==
    LET a == Find(stored, 1)
        b == Find(stored, a + 1)
        c == Find(stored, b + 1)
        iterations == Stoi(SubSeq(stored, a + 1, b - 1))
        salt == FromHex(SubSeq(stored, b + 1, c - 1))
        expected == FromHex(SubSeq(stored, c + 1, Len(stored)))
    IN  /\ a # 0 /\ b # 0 /\ c # 0
        /\ Derived(password, iterations, salt) = expected

-----------------------------------------------------------------------------
(* Properties.                                                             *)

\* A JWT segment is read as it was written: the decoder gives back what the
\* encoder dropped, and the segment itself has no '=' in it.
UrlRoundTrip ==
    pc = "done" => UrlDecode(UrlEncoded) = input /\ Pad \notin ToSet(UrlEncoded)

\* A TOTP secret is Base32, as an authenticator reads it from the otpauth URI,
\* and the server itself reads from the record the key it has made.
SecretReadBack ==
    pc = "done" =>
        /\ Base32Encode(input) = Base32Of(input)
        /\ Base32Decode(Base32Encode(input)) = input

\* A stored hash is taken apart as it was put together, whatever bytes the salt
\* has: it admits the password it was made of and no other.  Cut short by a byte
\* or more it admits none; a last digit alone may be lost when it is 0.
PasswordAdmitted ==
    pc = "done" => \A p, q \in Bytes :
        LET stored == HashPassword(p, input)
        IN  /\ VerifyPassword(q, stored) <=> q = p
            /\ \A n \in 0..(Len(stored) - 2) : ~VerifyPassword(p, SubSeq(stored, 1, n))

=============================================================================
