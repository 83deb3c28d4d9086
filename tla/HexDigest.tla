------------------------------ MODULE HexDigest -----------------------------
(***************************************************************************)
(* The loop of sha256() that writes the digest's bytes as hexadecimal text *)
(* with String.format("%02x", b).  A Java byte is signed.                  *)
(*                                                                         *)
(* register() stores the text and login() compares another one with it, so *)
(* two calls of the loop are looked at together.  The digest itself is the *)
(* library's: any bytes.                                                   *)
(***************************************************************************)
EXTENDS Integers, Sequences

CONSTANTS
    Calls,     \* calls of sha256(), such as register()'s and login()'s
    Bytes,     \* the values of a byte, -128 .. 127 or some of them
    HashLen    \* bytes of a digest, 32 for SHA-256

ASSUME DigestAssumption ==
    HashLen \in Nat /\ Bytes \subseteq -128 .. 127

VARIABLES
    hash,   \* the digest of each call
    done,   \* how many of its bytes the loop has written
    sb      \* the StringBuilder: hexadecimal digits, as numbers

vars == <<hash, done, sb>>

Digits == 0 .. 15

Init ==
    /\ hash \in [Calls -> [1 .. HashLen -> Bytes]]
    /\ done = [c \in Calls |-> 0]
    /\ sb = [c \in Calls |-> <<>>]

\* Mutated: "%x", without the leading zero.
Format02xUnpadded(b) ==
    LET n == IF b < 0 THEN b + 256 ELSE b
    IN  IF n < 16 THEN <<n>> ELSE <<n \div 16, n % 16>>

\* Mutated: the sign is lost, as with Math.abs(b).
Format02xAbs(b) ==
    LET n == IF b < 0 THEN 0 - b ELSE b
    IN  <<n \div 16, n % 16>>

\* "%02x" of a Byte: a negative value is taken as its two's complement in eight
\* bits, and one digit is padded to two.
Format02x(b) ==
    LET n == IF b < 0 THEN b + 256 ELSE b
    IN  IF n < 16 THEN <<0, n>> ELSE <<n \div 16, n % 16>>

\* sb.append(...), for the next byte.
Append02x(c) ==
    /\ done[c] < HashLen
    /\ sb' = [sb EXCEPT ![c] = @ \o Format02x(hash[c][done[c] + 1])]
    /\ done' = [done EXCEPT ![c] = @ + 1]
    /\ UNCHANGED hash

Next == \E c \in Calls : Append02x(c)

Spec == Init /\ [][Next]_vars

-----------------------------------------------------------------------------

\* The byte that two hexadecimal digits stand for.
ByteOf(high, low) ==
    IF 16 * high + low > 127 THEN 16 * high + low - 256 ELSE 16 * high + low

\* "a fixed-length 64-character hex string": two digits for every byte, from
\* which the byte can be read back, negative and small ones included.
ReadsBack ==
    \A c \in Calls :
        /\ Len(sb[c]) = 2 * done[c]
        /\ \A k \in 1 .. done[c] :
              /\ sb[c][2 * k - 1] \in Digits /\ sb[c][2 * k] \in Digits
              /\ ByteOf(sb[c][2 * k - 1], sb[c][2 * k]) = hash[c][k]

\* The text login() looks for is the text register() stored exactly when the
\* digests are the same: no two digests share a text.
TextsCompareDigests ==
    \A c, d \in Calls :
        done[c] = HashLen /\ done[d] = HashLen => (sb[c] = sb[d] <=> hash[c] = hash[d])
=============================================================================
