--------------------------- MODULE HexDigestProofs --------------------------
(***************************************************************************)
(* Proofs about HexDigest, for digests of any length.                      *)
(***************************************************************************)
EXTENDS HexDigest, SequenceTheorems, TLAPS

TypeOK ==
    /\ hash \in [Calls -> [1 .. HashLen -> Bytes]]
    /\ done \in [Calls -> 0 .. HashLen]
    /\ sb \in [Calls -> Seq(Digits)]

\* Two digits for every byte, and the byte back from them.
LEMMA FormatReadsBack ==
    ASSUME NEW b \in -128 .. 127
    PROVE  /\ Format02x(b) \in Seq(Digits) /\ Len(Format02x(b)) = 2
           /\ ByteOf(Format02x(b)[1], Format02x(b)[2]) = b
<1> DEFINE n == IF b < 0 THEN b + 256 ELSE b
<1>1. n \in 0 .. 255 /\ (IF n > 127 THEN n - 256 ELSE n) = b
  OBVIOUS
<1>2. Format02x(b) = IF n < 16 THEN <<0, n>> ELSE <<n \div 16, n % 16>>
  BY DEF Format02x
<1> HIDE DEF n
<1>3. \A m \in 0 .. 255 : /\ m \div 16 \in Digits /\ m % 16 \in Digits
                           /\ 16 * (m \div 16) + (m % 16) = m
  BY DEF Digits
<1>4. PICK h \in Digits, l \in Digits : Format02x(b) = <<h, l>> /\ 16 * h + l = n
  <2>1. CASE n < 16
    BY <1>1, <1>2, <2>1 DEF Digits
  <2>2. CASE ~(n < 16)
    BY <1>1, <1>2, <1>3, <2>2
  <2>3. QED
    BY <2>1, <2>2
<1>5. ByteOf(h, l) = b
  BY <1>1, <1>4 DEF ByteOf, Digits
<1>6. QED
  BY <1>4, <1>5

\* What two more digits at the end of the text change, and what not.
LEMMA AppendTwo ==
    ASSUME NEW s \in Seq(Digits), NEW two \in Seq(Digits), NEW n \in Nat,
           Len(s) = 2 * n, Len(two) = 2
    PROVE  /\ s \o two \in Seq(Digits)
           /\ Len(s \o two) = 2 * (n + 1)
           /\ \A j \in 1 .. 2 * n : (s \o two)[j] = s[j]
           /\ (s \o two)[2 * (n + 1) - 1] = two[1]
           /\ (s \o two)[2 * (n + 1)] = two[2]
<1> DEFINE text == s \o two
<1>0. /\ text \in Seq(Digits) /\ Len(text) = Len(s) + Len(two)
      /\ \A j \in 1 .. Len(s) + Len(two) :
            text[j] = IF j <= Len(s) THEN s[j] ELSE two[j - Len(s)]
  BY ConcatProperties, Zenon
<1> HIDE DEF text
<1>1. /\ text \in Seq(Digits) /\ Len(text) = 2 * n + 2
      /\ \A j \in 1 .. 2 * n + 2 : text[j] = IF j <= 2 * n THEN s[j] ELSE two[j - 2 * n]
  BY <1>0
<1>2. \A j \in 1 .. 2 * n : text[j] = s[j]
  BY <1>1
<1>3. text[2 * n + 1] = two[1] /\ text[2 * n + 2] = two[2]
  BY <1>1
<1>4. 2 * (n + 1) = 2 * n + 2 /\ 2 * (n + 1) - 1 = 2 * n + 1
  OBVIOUS
<1>5. QED
  BY <1>1, <1>2, <1>3, <1>4 DEF text

LEMMA DigestStep ==
    ASSUME TypeOK, ReadsBack, [Next]_vars
    PROVE  TypeOK' /\ ReadsBack'
<1>1. CASE UNCHANGED vars
  BY <1>1 DEF TypeOK, ReadsBack, vars
<1>2. ASSUME NEW c \in Calls, Append02x(c) PROVE TypeOK' /\ ReadsBack'
  <2> DEFINE k == done[c] + 1
             b == hash[c][k]
             two == Format02x(b)
  <2>1. /\ done[c] \in 0 .. HashLen /\ k \in 1 .. HashLen /\ b \in -128 .. 127
        /\ sb[c] \in Seq(Digits) /\ Len(sb[c]) = 2 * done[c]
    <3>1. /\ done[c] \in 0 .. HashLen /\ done[c] < HashLen
          /\ sb[c] \in Seq(Digits) /\ Len(sb[c]) = 2 * done[c]
          /\ hash[c] \in [1 .. HashLen -> Bytes]
      BY <1>2 DEF TypeOK, ReadsBack, Append02x
    <3>2. k \in 1 .. HashLen
      BY <3>1, DigestAssumption
    <3>3. QED
      BY <3>1, <3>2, DigestAssumption
  <2>2. /\ two \in Seq(Digits) /\ Len(two) = 2 /\ ByteOf(two[1], two[2]) = b
    BY <2>1, FormatReadsBack
  <2>3. /\ sb' = [sb EXCEPT ![c] = @ \o two] /\ done' = [done EXCEPT ![c] = k]
        /\ hash' = hash
    BY <1>2 DEF Append02x, TypeOK
  <2> HIDE DEF two, b
  <2>4. TypeOK'
    BY <2>1, <2>2, <2>3, DigestAssumption DEF TypeOK
  <2>5. /\ sb'[c] = sb[c] \o two /\ done'[c] = k
        /\ \A d \in Calls \ {c} : sb'[d] = sb[d] /\ done'[d] = done[d]
    BY <2>3 DEF TypeOK
  <2>6. /\ Len(sb[c] \o two) = 2 * k
        /\ \A j \in 1 .. 2 * done[c] : (sb[c] \o two)[j] = sb[c][j]
        /\ (sb[c] \o two)[2 * k - 1] = two[1] /\ (sb[c] \o two)[2 * k] = two[2]
    <3>1. done[c] \in Nat
      BY <2>1
    <3>2. QED
      BY <2>1, <2>2, <3>1, AppendTwo
  <2>7. ASSUME NEW j \in 1 .. k
        PROVE  /\ sb'[c][2 * j - 1] \in Digits /\ sb'[c][2 * j] \in Digits
               /\ ByteOf(sb'[c][2 * j - 1], sb'[c][2 * j]) = hash[c][j]
    <3>1. CASE j = k
      <4>1. two[1] \in Digits /\ two[2] \in Digits
        BY <2>2
      <4>2. QED
        BY <2>2, <2>5, <2>6, <3>1, <4>1 DEF b
    <3>2. CASE j # k
      <4>1. /\ j \in 1 .. done[c] /\ 2 * j - 1 \in 1 .. 2 * done[c]
            /\ 2 * j \in 1 .. 2 * done[c]
        BY <2>1, <3>2, DigestAssumption
      <4>2. sb'[c][2 * j - 1] = sb[c][2 * j - 1] /\ sb'[c][2 * j] = sb[c][2 * j]
        BY <2>5, <2>6, <4>1
      <4>3. QED
        BY <4>1, <4>2 DEF ReadsBack
    <3>3. QED
      BY <3>1, <3>2
  <2>8. ReadsBack'
    <3>1. ASSUME NEW d \in Calls
          PROVE  /\ Len(sb'[d]) = 2 * done'[d]
                 /\ \A j \in 1 .. done'[d] :
                       /\ sb'[d][2 * j - 1] \in Digits /\ sb'[d][2 * j] \in Digits
                       /\ ByteOf(sb'[d][2 * j - 1], sb'[d][2 * j]) = hash'[d][j]
      <4>1. CASE d = c
        BY <2>3, <2>5, <2>6, <2>7, <4>1
      <4>2. CASE d # c
        BY <2>3, <2>5, <4>2 DEF ReadsBack
      <4>3. QED
        BY <4>1, <4>2
    <3>2. QED
      BY <3>1 DEF ReadsBack, ByteOf
  <2>9. QED
    BY <2>4, <2>8
<1>3. QED
  BY <1>1, <1>2 DEF Next

LEMMA DigestInductive == Spec => [](TypeOK /\ ReadsBack)
<1>1. Init => TypeOK /\ ReadsBack
  BY DigestAssumption DEF Init, TypeOK, ReadsBack
<1>2. TypeOK /\ ReadsBack /\ [Next]_vars => TypeOK' /\ ReadsBack'
  BY DigestStep
<1>3. QED
  BY <1>1, <1>2, PTL DEF Spec

\* The text sha256() returns has two digits for every byte of the digest and the
\* byte can be read back from them.
THEOREM DigestReadsBack == Spec => []ReadsBack
BY DigestInductive, PTL

\* Two texts are equal exactly when the digests are, so a login succeeds with
\* the stored digest and with no other.
THEOREM TextsTellDigests == Spec => []TextsCompareDigests
<1>1. TypeOK /\ ReadsBack => TextsCompareDigests
  <2> SUFFICES ASSUME TypeOK, ReadsBack, NEW c \in Calls, NEW d \in Calls,
                      done[c] = HashLen, done[d] = HashLen
               PROVE  sb[c] = sb[d] <=> hash[c] = hash[d]
    BY DEF TextsCompareDigests
  <2>1. ASSUME sb[c] = sb[d] PROVE hash[c] = hash[d]
    <3>1. \A k \in 1 .. HashLen : hash[c][k] = hash[d][k]
      BY <2>1 DEF ReadsBack
    <3>2. QED
      BY <3>1 DEF TypeOK
  <2>2. ASSUME hash[c] = hash[d] PROVE sb[c] = sb[d]
    <3>1. ASSUME NEW j \in 1 .. 2 * HashLen PROVE sb[c][j] = sb[d][j]
      <4>1. PICK k \in 1 .. HashLen : j = 2 * k - 1 \/ j = 2 * k
        <5> DEFINE half == (j + 1) \div 2
        <5>1. half \in Int /\ (j + 1 = 2 * half \/ j + 1 = 2 * half + 1)
          OBVIOUS
        <5>2. half \in 1 .. HashLen
          BY <5>1, DigestAssumption
        <5>3. QED
          BY <5>1, <5>2
      <4>2. /\ sb[c][2 * k - 1] \in Digits /\ sb[c][2 * k] \in Digits
            /\ sb[d][2 * k - 1] \in Digits /\ sb[d][2 * k] \in Digits
            /\ ByteOf(sb[c][2 * k - 1], sb[c][2 * k]) = ByteOf(sb[d][2 * k - 1], sb[d][2 * k])
        BY <2>2 DEF ReadsBack
      <4>3. \A h, l, m, n \in Digits : ByteOf(h, l) = ByteOf(m, n) => h = m /\ l = n
        BY DEF ByteOf, Digits
      <4>4. QED
        BY <4>1, <4>2, <4>3
    <3>2. /\ sb[c] \in Seq(Digits) /\ sb[d] \in Seq(Digits)
          /\ Len(sb[c]) = 2 * HashLen /\ Len(sb[d]) = 2 * HashLen
      BY DEF TypeOK, ReadsBack
    <3>3. QED
      BY <3>1, <3>2
  <2>3. QED
    BY <2>1, <2>2
<1>2. QED
  BY <1>1, DigestInductive, PTL
=============================================================================
