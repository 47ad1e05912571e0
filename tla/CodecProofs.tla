---------------------------- MODULE CodecProofs -----------------------------
(***************************************************************************)
(* Two programs that encode what they hand over, and that it can be        *)
(* decoded again.  The SMTP client, which sends its attachment in base64:  *)
(* for any files and any buffer size.  ZooKeeperWrapper, which takes and   *)
(* gives the password of a session in hexadecimal: for a program that      *)
(* calls init once, with any descriptors, calls and methods.               *)
(***************************************************************************)
EXTENDS ZkWrapper, Senders, TLAPS

-----------------------------------------------------------------------------
(* Facts about joining lists and parts of them that the steps below use. *)
LEMMA ConcatProperties ==
    ASSUME NEW S, NEW s \in Seq(S), NEW t \in Seq(S)
    PROVE  s \o t \in Seq(S) /\ Len(s \o t) = Len(s) + Len(t)
  OBVIOUS

LEMMA ConcatEmpty ==
    ASSUME NEW S, NEW s \in Seq(S)
    PROVE  s \o <<>> = s /\ <<>> \o s = s
  OBVIOUS

LEMMA PrefixAndRest ==
    ASSUME NEW S, NEW s \in Seq(S), NEW k \in 0..Len(s), NEW z \in k..Len(s)
    PROVE  /\ SubSeq(s, 1, k) \o SubSeq(s, k + 1, z) = SubSeq(s, 1, z)
           /\ SubSeq(s, 1, k) \in Seq(S) /\ SubSeq(s, k + 1, z) \in Seq(S)
           /\ Len(SubSeq(s, k + 1, z)) = z - k
  OBVIOUS

LEMMA WholeList ==
    ASSUME NEW S, NEW s \in Seq(S)
    PROVE  SubSeq(s, 1, Len(s)) = s /\ SubSeq(s, 1, 0) = <<>> /\ SubSeq(s, Len(s) + 1, Len(s)) = <<>>
  OBVIOUS

LEMMA SomePart ==
    ASSUME NEW S, NEW s \in Seq(S), NEW k \in Nat, NEW z \in 0..Len(s)
    PROVE  SubSeq(s, k + 1, z) \in Seq(S) /\ Len(SubSeq(s, k + 1, z)) \in Nat
  OBVIOUS

LEMMA EmptyList ==
    ASSUME NEW S
    PROVE  <<>> \in Seq(S) /\ \A s \in Seq(S) : Len(s) = 0 <=> s = <<>>
  OBVIOUS

-----------------------------------------------------------------------------
(* The SMTP client.  First base64_encode: the characters that hold a group *)
(* of bytes, group by group.                                               *)

(* Where the bytes of a group are. *)
LEMMA GroupOf ==
    ASSUME NEW in \in Seq(Mail!Byte), NEW g \in Nat, 3 * g < Len(in)
    PROVE  /\ Len(Mail!Group(in, g)) = IF Len(in) < 3 * g + 3 THEN Len(in) - 3 * g ELSE 3
           /\ \A t \in 1..Len(Mail!Group(in, g)) : Mail!Group(in, g)[t] = in[3 * g + t]
  <1> DEFINE N == Len(in)
             a == 3 * g + 1
             z == IF N < 3 * g + 3 THEN N ELSE 3 * g + 3
  <1>1. N \in Nat /\ a \in Nat /\ z \in Nat /\ a <= z /\ z <= N /\ a >= 1
    OBVIOUS
  <1>2. z - a + 1 = IF N < 3 * g + 3 THEN N - 3 * g ELSE 3
    <2>1. CASE N < 3 * g + 3
      BY <1>1, <2>1
    <2>2. CASE ~(N < 3 * g + 3)
      BY <1>1, <2>2
    <2> QED
      BY <2>1, <2>2, Zenon
  <1>3. Mail!Group(in, g) = SubSeq(in, a, z)
    BY DEF Mail!Group
  <1>4. \A t \in 1..(z - a + 1) : a + t - 1 = 3 * g + t
    OBVIOUS
  <1> HIDE DEF a, z
  <1>5. Len(SubSeq(in, a, z)) = z - a + 1 /\ \A t \in 1..(z - a + 1) : SubSeq(in, a, z)[t] = in[a + t - 1]
    BY <1>1
  <1> QED
    BY <1>2, <1>3, <1>4, <1>5, Zenon

(* Cutting and joining bits. *)
LEMMA Cut4 ==
    ASSUME NEW b \in Mail!Byte
    PROVE  b \div 4 \in 0..63 /\ b % 4 \in 0..3 /\ (b \div 4) * 4 + (b % 4) = b
  <1> DEFINE d == b \div 4
             m == b - d * 4
  <1>1. b \in Int /\ d \in 0..63 /\ m \in 0..3 /\ d * 4 + m = b
    BY DEF Mail!Byte
  <1> HIDE DEF m, d
  <1>2. (d * 4 + m) % 4 = m
    BY <1>1
  <1> QED
    BY <1>1, <1>2, Zenon DEF d

LEMMA Cut16 ==
    ASSUME NEW b \in Mail!Byte
    PROVE  b \div 16 \in 0..15 /\ b % 16 \in 0..15 /\ (b \div 16) * 16 + (b % 16) = b
  <1> DEFINE d == b \div 16
             m == b - d * 16
  <1>1. b \in Int /\ d \in 0..15 /\ m \in 0..15 /\ d * 16 + m = b
    BY DEF Mail!Byte
  <1> HIDE DEF m, d
  <1>2. (d * 16 + m) % 16 = m
    BY <1>1
  <1> QED
    BY <1>1, <1>2, Zenon DEF d

LEMMA Cut64 ==
    ASSUME NEW b \in Mail!Byte
    PROVE  b \div 64 \in 0..3 /\ b % 64 \in 0..63 /\ (b \div 64) * 64 + (b % 64) = b
  <1> DEFINE d == b \div 64
             m == b - d * 64
  <1>1. b \in Int /\ d \in 0..3 /\ m \in 0..63 /\ d * 64 + m = b
    BY DEF Mail!Byte
  <1> HIDE DEF m, d
  <1>2. (d * 64 + m) % 64 = m
    BY <1>1
  <1> QED
    BY <1>1, <1>2, Zenon DEF d

LEMMA Join16 ==
    ASSUME NEW p \in 0..3, NEW q \in 0..15
    PROVE  /\ p * 16 + q \in 0..63
           /\ (p * 16 + q) \div 16 = p /\ (p * 16 + q) % 16 = q
  OBVIOUS

LEMMA Join4 ==
    ASSUME NEW p \in 0..15, NEW q \in 0..3
    PROVE  /\ p * 4 + q \in 0..63
           /\ (p * 4 + q) \div 4 = p /\ (p * 4 + q) % 4 = q
  OBVIOUS

(* The bytes of a group, in the characters of Quad and back. *)
LEMMA QuadOf ==
    ASSUME NEW b \in Seq(Mail!Byte), Len(b) \in 1..3
    PROVE  LET c == Mail!Quad(b) IN
           /\ c[1] \in 0..63 /\ c[2] \in 0..63 /\ c[1] * 4 + c[2] \div 16 = b[1]
           /\ Len(b) = 1 => c[3] = Mail!PAD /\ c[4] = Mail!PAD
           /\ Len(b) > 1 => c[3] \in 0..63 /\ (c[2] % 16) * 16 + c[3] \div 4 = b[2]
           /\ Len(b) = 2 => c[4] = Mail!PAD
           /\ Len(b) = 3 => c[4] \in 0..63 /\ (c[3] % 4) * 64 + c[4] = b[3]
  <1> DEFINE c == Mail!Quad(b)
             y == IF Len(b) > 1 THEN b[2] \div 16 ELSE 0
             z == IF Len(b) > 2 THEN b[3] \div 64 ELSE 0
  <1>1. /\ c[1] = b[1] \div 4 /\ c[2] = (b[1] % 4) * 16 + y
        /\ c[3] = IF Len(b) = 1 THEN Mail!PAD ELSE (b[2] % 16) * 4 + z
        /\ c[4] = IF Len(b) < 3 THEN Mail!PAD ELSE b[3] % 64
    BY Zenon DEF Mail!Quad
  <1>2. b[1] \in Mail!Byte /\ (Len(b) > 1 => b[2] \in Mail!Byte) /\ (Len(b) > 2 => b[3] \in Mail!Byte)
    OBVIOUS
  <1>3. 0 \in 0..15 /\ 0 \in 0..3 /\ (Len(b) = 3 => Len(b) > 1 /\ Len(b) > 2 /\ ~(Len(b) < 3) /\ Len(b) # 1)
        /\ (Len(b) = 2 => Len(b) > 1 /\ ~(Len(b) > 2) /\ Len(b) < 3)
        /\ (Len(b) = 1 => ~(Len(b) > 1) /\ Len(b) < 3)
        /\ (Len(b) > 1 => Len(b) # 1)
    <2> DEFINE L == Len(b)
    <2> HIDE DEF L
    <2>1. L \in 1..3
      BY DEF L
    <2>2. 0 \in 0..15 /\ 0 \in 0..3 /\ (L = 3 => L > 1 /\ L > 2 /\ ~(L < 3) /\ L # 1)
          /\ (L = 2 => L > 1 /\ ~(L > 2) /\ L < 3) /\ (L = 1 => ~(L > 1) /\ L < 3)
          /\ (L > 1 => L # 1)
      BY <2>1
    <2> QED
      BY <2>2, Zenon DEF L
  <1>4. y \in 0..15 /\ z \in 0..3
    BY <1>2, <1>3, Cut16, Cut64, Zenon
  <1>5. c[1] \in 0..63 /\ c[2] \in 0..63 /\ c[1] * 4 + c[2] \div 16 = b[1] /\ c[2] % 16 = y
    <2>1. b[1] \div 4 \in 0..63 /\ b[1] % 4 \in 0..3 /\ (b[1] \div 4) * 4 + (b[1] % 4) = b[1]
      BY <1>2, Cut4, Zenon
    <2> HIDE DEF c, y, z
    <2>2. /\ ((b[1] % 4) * 16 + y) \div 16 = b[1] % 4
          /\ ((b[1] % 4) * 16 + y) % 16 = y /\ (b[1] % 4) * 16 + y \in 0..63
      BY <2>1, <1>4, Join16, Zenon
    <2> QED
      BY <1>1, <2>1, <2>2, Zenon
  <1>6. ASSUME Len(b) > 1
        PROVE  c[3] \in 0..63 /\ c[3] % 4 = z /\ (c[2] % 16) * 16 + c[3] \div 4 = b[2]
    <2>1. b[2] % 16 \in 0..15 /\ y = b[2] \div 16 /\ (b[2] \div 16) * 16 + (b[2] % 16) = b[2]
      BY <1>2, <1>6, Cut16, Zenon
    <2>2. c[3] = (b[2] % 16) * 4 + z
      BY <1>1, <1>3, <1>6, Zenon
    <2> HIDE DEF c, y, z
    <2>3. /\ ((b[2] % 16) * 4 + z) \div 4 = b[2] % 16
          /\ ((b[2] % 16) * 4 + z) % 4 = z /\ (b[2] % 16) * 4 + z \in 0..63
      BY <2>1, <1>4, Join4, Zenon
    <2> QED
      BY <1>5, <2>1, <2>2, <2>3, Zenon
  <1>7. ASSUME Len(b) = 3
        PROVE  c[4] \in 0..63 /\ (c[3] % 4) * 64 + c[4] = b[3]
    <2>1. z = b[3] \div 64 /\ c[4] = b[3] % 64
      BY <1>1, <1>3, <1>7, Zenon
    <2>2. c[3] % 4 = z
      BY <1>3, <1>6, <1>7, Zenon
    <2>3. b[3] % 64 \in 0..63 /\ (b[3] \div 64) * 64 + (b[3] % 64) = b[3]
      BY <1>2, <1>3, <1>7, Cut64, Zenon
    <2> HIDE DEF c, y, z
    <2> QED
      BY <2>1, <2>2, <2>3, Zenon
  <1>8. (Len(b) = 1 => c[3] = Mail!PAD /\ c[4] = Mail!PAD) /\ (Len(b) = 2 => c[4] = Mail!PAD)
    BY <1>1, <1>3, Zenon
  <1> HIDE DEF c
  <1> QED
    BY <1>5, <1>6, <1>7, <1>8, Zenon DEF c

(* Characters are numbered by group and place. *)
LEMMA EncodedAt ==
    ASSUME NEW in \in Seq(Mail!Byte), NEW g \in Nat, 3 * g < Len(in), NEW j \in 1..4
    PROVE  /\ 4 * g + j \in 1..Mail!convlen(Len(in))
           /\ Mail!base64_encode(in)[4 * g + j] = Mail!Quad(Mail!Group(in, g))[j]
  <1> DEFINE N == Len(in)
             k == 4 * g + j
  <1>1. N \in Nat /\ 3 * g < N
    OBVIOUS
  <1> HIDE DEF N
  <1>2. k \in 1..Mail!convlen(N) /\ (k - 1) \div 4 = g /\ ((k - 1) % 4) + 1 = j
    <2>1. g + 1 <= (N + 2) \div 3 /\ (N + 2) \div 3 \in Nat
      BY <1>1
    <2>2. k <= ((N + 2) \div 3) * 4 /\ k \in Nat /\ k >= 1
      BY <2>1
    <2> QED
      BY <2>2 DEF Mail!convlen
  <1> HIDE DEF k
  <1> QED
    BY <1>2, Zenon DEF Mail!base64_encode, N, k

LEMMA GroupAt ==
    ASSUME NEW N \in Nat, NEW i \in 1..Mail!convlen(N)
    PROVE  \E g \in Nat : \E j \in 1..4 : i = 4 * g + j /\ 3 * g < N
  <1>1. (N + 2) \div 3 \in Nat /\ 3 * ((N + 2) \div 3) <= N + 2
    OBVIOUS
  <1>2. i \in Nat /\ i >= 1 /\ i <= ((N + 2) \div 3) * 4
    BY <1>1 DEF Mail!convlen
  <1> DEFINE g == (i - 1) \div 4
             j == ((i - 1) % 4) + 1
  <1>3. g \in Nat /\ j \in 1..4 /\ i = 4 * g + j
    BY <1>2
  <1>4. 3 * g < N
    BY <1>1, <1>2, <1>3
  <1> QED
    BY <1>3, <1>4, Zenon

(* The characters that carry the bits of n bytes. *)
DataChars(n) == 4 * (n \div 3) + (IF n % 3 = 0 THEN 0 ELSE (n % 3) + 1)

LEMMA PlacesOf ==
    ASSUME NEW N \in Nat, NEW g \in Nat, 3 * g < N
    PROVE  LET n == IF N < 3 * g + 3 THEN N - 3 * g ELSE 3
           IN /\ n \in 1..3
              /\ 4 * g + 1 <= DataChars(N) /\ 4 * g + 2 <= DataChars(N)
              /\ 4 * g + 3 <= DataChars(N) <=> n > 1
              /\ 4 * g + 4 <= DataChars(N) <=> n = 3
  <1> DEFINE n == IF N < 3 * g + 3 THEN N - 3 * g ELSE 3
  <1> DEFINE m == N \div 3
             r == N % 3
  <1>1. m \in Nat /\ r \in 0..2 /\ N = 3 * m + r
    OBVIOUS
  <1>2. DataChars(N) = 4 * m + (IF r = 0 THEN 0 ELSE r + 1)
    BY Zenon DEF DataChars
  <1> HIDE DEF m, r
  <1>3. n \in 1..3
    BY <1>1
  <1>4. CASE r = 0
    BY <1>1, <1>2, <1>4
  <1>5. CASE r = 1
    BY <1>1, <1>2, <1>5
  <1>6. CASE r = 2
    BY <1>1, <1>2, <1>6
  <1> QED
    BY <1>1, <1>3, <1>4, <1>5, <1>6

(* The groups of in, as its characters hold them. *)
LEMMA GroupHeld ==
    ASSUME NEW in \in Seq(Mail!Byte), NEW g \in Nat, 3 * g < Len(in)
    PROVE  LET e == Mail!base64_encode(in)
               n == IF Len(in) < 3 * g + 3 THEN Len(in) - 3 * g ELSE 3
           IN /\ n \in 1..3
              /\ e[4 * g + 1] \in 0..63 /\ e[4 * g + 2] \in 0..63
              /\ e[4 * g + 1] * 4 + e[4 * g + 2] \div 16 = in[3 * g + 1]
              /\ n = 1 => e[4 * g + 3] = Mail!PAD /\ e[4 * g + 4] = Mail!PAD
              /\ n > 1 => /\ e[4 * g + 3] \in 0..63
                          /\ (e[4 * g + 2] % 16) * 16 + e[4 * g + 3] \div 4 = in[3 * g + 2]
              /\ n = 2 => e[4 * g + 4] = Mail!PAD
              /\ n = 3 => /\ e[4 * g + 4] \in 0..63
                          /\ (e[4 * g + 3] % 4) * 64 + e[4 * g + 4] = in[3 * g + 3]
  <1> DEFINE b == Mail!Group(in, g)
             e == Mail!base64_encode(in)
             n == IF Len(in) < 3 * g + 3 THEN Len(in) - 3 * g ELSE 3
  <1>1. Len(b) = n /\ \A t \in 1..Len(b) : b[t] = in[3 * g + t]
    BY GroupOf, Zenon
  <1>2. Len(in) \in Nat
    OBVIOUS
  <1>3. n \in 1..3
    BY <1>2, PlacesOf, Zenon
  <1>4. b \in Seq(Mail!Byte)
    BY <1>2 DEF Mail!Group
  <1> HIDE DEF b, n
  <1>5. \A j \in 1..4 : e[4 * g + j] = Mail!Quad(b)[j]
    BY EncodedAt, Zenon DEF b
  <1>6. /\ 1 \in 1..4 /\ 2 \in 1..4 /\ 3 \in 1..4 /\ 4 \in 1..4
        /\ 1 \in 1..n /\ (n > 1 => 2 \in 1..n) /\ (n = 3 => 3 \in 1..n)
    BY <1>3
  <1> HIDE DEF e
  <1>7. /\ e[4 * g + 1] = Mail!Quad(b)[1] /\ e[4 * g + 2] = Mail!Quad(b)[2]
        /\ e[4 * g + 3] = Mail!Quad(b)[3] /\ e[4 * g + 4] = Mail!Quad(b)[4]
    BY <1>5, <1>6, Zenon
  <1>8. b[1] = in[3 * g + 1] /\ (n > 1 => b[2] = in[3 * g + 2]) /\ (n = 3 => b[3] = in[3 * g + 3])
    BY <1>1, <1>6, Zenon
  <1> DEFINE c == Mail!Quad(b)
  <1>9. /\ c[1] \in 0..63 /\ c[2] \in 0..63 /\ c[1] * 4 + c[2] \div 16 = b[1]
        /\ n = 1 => c[3] = Mail!PAD /\ c[4] = Mail!PAD
        /\ n > 1 => c[3] \in 0..63 /\ (c[2] % 16) * 16 + c[3] \div 4 = b[2]
        /\ n = 2 => c[4] = Mail!PAD
        /\ n = 3 => c[4] \in 0..63 /\ (c[3] % 4) * 64 + c[4] = b[3]
    BY <1>1, <1>3, <1>4, QuadOf, Zenon
  <1> HIDE DEF c
  <1>10. e[4 * g + 1] = c[1] /\ e[4 * g + 2] = c[2] /\ e[4 * g + 3] = c[3] /\ e[4 * g + 4] = c[4]
    BY <1>7, Zenon DEF c
  <1>11. /\ n \in 1..3
         /\ e[4 * g + 1] \in 0..63 /\ e[4 * g + 2] \in 0..63
         /\ e[4 * g + 1] * 4 + e[4 * g + 2] \div 16 = in[3 * g + 1]
         /\ n = 1 => e[4 * g + 3] = Mail!PAD /\ e[4 * g + 4] = Mail!PAD
         /\ n > 1 => /\ e[4 * g + 3] \in 0..63
                     /\ (e[4 * g + 2] % 16) * 16 + e[4 * g + 3] \div 4 = in[3 * g + 2]
         /\ n = 2 => e[4 * g + 4] = Mail!PAD
         /\ n = 3 => /\ e[4 * g + 4] \in 0..63
                     /\ (e[4 * g + 3] % 4) * 64 + e[4 * g + 4] = in[3 * g + 3]
    BY <1>3, <1>8, <1>9, <1>10, Zenon
  <1> QED
    BY <1>11, Zenon DEF e, n

LEMMA DataCharsType ==
    ASSUME NEW n \in Nat
    PROVE  Mail!convlen(n) \in Nat /\ DataChars(n) \in 0..Mail!convlen(n)
  <1> DEFINE m == n \div 3
             r == n % 3
  <1>1. m \in Nat /\ r \in 0..2 /\ n = 3 * m + r
    OBVIOUS
  <1>2. (n + 2) \div 3 = IF r = 0 THEN m ELSE m + 1
    BY <1>1
  <1>3. /\ DataChars(n) = 4 * m + (IF r = 0 THEN 0 ELSE r + 1)
        /\ Mail!convlen(n) = (IF r = 0 THEN m ELSE m + 1) * 4
    BY <1>2, Zenon DEF DataChars, Mail!convlen
  <1> HIDE DEF m, r
  <1> QED
    BY <1>1, <1>3

(* Padding comes after all data. *)
LEMMA PadsAtEnd ==
    ASSUME NEW in \in Seq(Mail!Byte), NEW i \in 1..Mail!convlen(Len(in))
    PROVE  /\ Mail!base64_encode(in)[i] \in 0..Mail!PAD
           /\ Mail!base64_encode(in)[i] = Mail!PAD <=> i > DataChars(Len(in))
  <1> DEFINE N == Len(in)
             e == Mail!base64_encode(in)
             K == DataChars(N)
  <1>1. N \in Nat
    OBVIOUS
  <1>2. i \in 1..Mail!convlen(N)
    OBVIOUS
  <1> HIDE DEF N
  <1>3. PICK g \in Nat, j \in 1..4 : i = 4 * g + j /\ 3 * g < N
    BY <1>1, <1>2, GroupAt, Zenon
  <1> DEFINE n == IF N < 3 * g + 3 THEN N - 3 * g ELSE 3
  <1>4. /\ n \in 1..3
        /\ 4 * g + 1 <= K /\ 4 * g + 2 <= K
        /\ 4 * g + 3 <= K <=> n > 1
        /\ 4 * g + 4 <= K <=> n = 3
    BY <1>1, <1>3, PlacesOf, Zenon
  <1>5. /\ e[4 * g + 1] \in 0..63 /\ e[4 * g + 2] \in 0..63
        /\ n = 1 => e[4 * g + 3] = Mail!PAD /\ e[4 * g + 4] = Mail!PAD
        /\ n > 1 => e[4 * g + 3] \in 0..63
        /\ n = 2 => e[4 * g + 4] = Mail!PAD
        /\ n = 3 => e[4 * g + 4] \in 0..63
    BY <1>3, GroupHeld, Zenon DEF N
  <1>6. K \in Nat
    <2>1. Mail!convlen(N) \in Nat /\ K \in 0..Mail!convlen(N)
      BY <1>1, DataCharsType, Zenon
    <2> HIDE DEF K
    <2> QED
      BY <2>1
  <1> HIDE DEF n, e, K
  <1>7. j = 1 \/ j = 2 \/ j = 3 \/ j = 4
    OBVIOUS
  <1>8. e[i] \in 0..Mail!PAD /\ (e[i] = Mail!PAD <=> i > K)
    <2> DEFINE c == e[i]
    <2>1. /\ j \in {1, 2} => i <= K /\ c \in 0..63
          /\ j = 3 => (i <= K <=> n > 1) /\ (n > 1 => c \in 0..63) /\ (n = 1 => c = Mail!PAD)
          /\ j = 4 => (i <= K <=> n = 3) /\ (n = 3 => c \in 0..63) /\ (n \in {1, 2} => c = Mail!PAD)
      BY <1>3, <1>4, <1>5, Zenon
    <2> HIDE DEF c
    <2>2. n = 1 \/ n = 2 \/ n = 3
      BY <1>4
    <2>3. n > 1 <=> n = 2 \/ n = 3
      BY <1>4
    <2>4. (i <= K /\ c \in 0..63) \/ (~(i <= K) /\ c = Mail!PAD)
      BY <1>7, <2>1, <2>2, <2>3, Zenon
    <2>5. i \in Nat
      BY <1>3
    <2>6. c \in 0..Mail!PAD /\ (c = Mail!PAD <=> i > K)
      <3>1. CASE i <= K /\ c \in 0..63
        <4>1. c \in 0..64 /\ c # 64
          BY <3>1
        <4>2. ~(i > K)
          BY <1>6, <2>5, <3>1
        <4> QED
          BY <4>1, <4>2, Zenon DEF Mail!PAD
      <3>2. CASE ~(i <= K) /\ c = Mail!PAD
        <4>1. 64 \in 0..64 /\ i > K
          BY <1>6, <2>5, <3>2
        <4> QED
          BY <3>2, <4>1, Zenon DEF Mail!PAD
      <3> QED
        BY <2>4, <3>1, <3>2, Zenon
    <2> QED
      BY <2>6, Zenon DEF c
  <1> QED
    BY <1>8, Zenon DEF e, K, N

LEMMA FunctionIsSequence ==
    ASSUME NEW S, NEW n \in Nat, NEW f \in [1..n -> S]
    PROVE  f \in Seq(S) /\ Len(f) = n
  OBVIOUS

LEMMA EncodeType ==
    ASSUME NEW in \in Seq(Mail!Byte)
    PROVE  /\ Mail!base64_encode(in) \in Seq(0..Mail!PAD)
           /\ Len(Mail!base64_encode(in)) = Mail!convlen(Len(in))
           /\ Mail!convlen(Len(in)) \in Nat /\ DataChars(Len(in)) \in 0..Mail!convlen(Len(in))
  <1> DEFINE e == Mail!base64_encode(in)
             n == Mail!convlen(Len(in))
  <1>1. n \in Nat /\ DataChars(Len(in)) \in 0..n
    <2>1. Len(in) \in Nat
      OBVIOUS
    <2> QED
      BY <2>1, DataCharsType, Zenon
  <1>2. \A i \in 1..n : e[i] \in 0..Mail!PAD
    BY PadsAtEnd, Zenon
  <1>3. e = [i \in 1..n |-> e[i]]
    BY Zenon DEF Mail!base64_encode
  <1> HIDE DEF e, n
  <1>4. e \in [1..n -> 0..Mail!PAD]
    BY <1>2, <1>3, Zenon
  <1>5. e \in Seq(0..Mail!PAD) /\ Len(e) = n
    BY <1>1, <1>4, FunctionIsSequence, Zenon
  <1> QED
    BY <1>1, <1>5, Zenon DEF e, n

LEMMA DataOf ==
    ASSUME NEW in \in Seq(Mail!Byte)
    PROVE  LET c == Mail!Data(Mail!base64_encode(in)) IN
           /\ Len(c) = DataChars(Len(in))
           /\ \A i \in 1..Len(c) : c[i] = Mail!base64_encode(in)[i]
  <1> DEFINE e == Mail!base64_encode(in)
             n == Mail!convlen(Len(in))
             K == DataChars(Len(in))
             pads == {i \in 1..Len(e) : e[i] = Mail!PAD}
  <1>1. e \in Seq(0..Mail!PAD) /\ Len(e) = n /\ n \in Nat /\ K \in 0..n
    BY EncodeType, Zenon
  <1>2. \A i \in 1..n : e[i] = Mail!PAD <=> i > K
    BY PadsAtEnd, Zenon
  <1>3. Mail!Data(e) = IF pads = {} THEN e
                  ELSE SubSeq(e, 1, (CHOOSE i \in pads : \A j \in pads : i <= j) - 1)
    BY Zenon DEF Mail!Data
  <1> HIDE DEF e, n, K
  <1>4. \A i : i \in pads <=> i \in 1..n /\ i > K
    BY <1>1, <1>2, Zenon
  <1> HIDE DEF pads
  <1>5. CASE pads = {}
    <2>1. n = K
      <3>1. ~(n \in 1..n /\ n > K)
        BY <1>4, <1>5, Zenon
      <3> QED
        BY <1>1, <3>1
    <2>2. Mail!Data(e) = e
      BY <1>3, <1>5, Zenon
    <2> QED
      BY <1>1, <2>1, <2>2, Zenon DEF e, K
  <1>6. CASE pads # {}
    <2>1. PICK x : x \in pads
      BY <1>6, Zenon
    <2>2. x \in 1..n /\ x > K
      BY <1>4, <2>1, Zenon
    <2>3. K + 1 \in 1..n /\ K + 1 > K
      BY <1>1, <2>2
    <2>4. K + 1 \in pads
      BY <1>4, <2>3, Zenon
    <2>5. \A j \in pads : j \in Int /\ K + 1 <= j
      BY <1>1, <1>4
    <2> DEFINE f == CHOOSE i \in pads : \A j \in pads : i <= j
    <2>6. f \in pads /\ \A j \in pads : f <= j
      BY <2>4, <2>5, Zenon
    <2> HIDE DEF f
    <2>7. f - 1 = K
      <3>1. f <= K + 1 /\ f \in Int /\ K + 1 <= f
        BY <2>4, <2>5, <2>6, Zenon
      <3> QED
        BY <1>1, <3>1
    <2>8. Mail!Data(e) = SubSeq(e, 1, K)
      BY <1>3, <1>6, <2>7, Zenon DEF f
    <2>9. Len(SubSeq(e, 1, K)) = K /\ \A i \in 1..K : SubSeq(e, 1, K)[i] = e[i]
      BY <1>1
    <2> QED
      BY <2>8, <2>9, Zenon DEF e, K
  <1> QED
    BY <1>5, <1>6, Zenon

(* send_email.c: what base64_encode makes of any bytes decodes to them. *)
THEOREM Base64RoundTrip ==
    ASSUME NEW in \in Seq(Mail!Byte)
    PROVE  Mail!Decode(Mail!base64_encode(in)) = in
  <1> DEFINE N == Len(in)
             e == Mail!base64_encode(in)
             c == Mail!Data(e)
             K == DataChars(N)
             byte(i) == LET q == (8 * (i - 1)) \div 6 + 1
                            r == (8 * (i - 1)) % 6
                        IN CASE r = 0 -> c[q] * 4 + c[q + 1] \div 16
                             [] r = 2 -> (c[q] % 16) * 16 + c[q + 1] \div 4
                             [] r = 4 -> (c[q] % 4) * 64 + c[q + 1]
  <1>1. N \in Nat
    OBVIOUS
  <1>2. Len(c) = K /\ \A i \in 1..K : c[i] = e[i]
    BY DataOf, Zenon
  <1>3. (K * 6) \div 8 = N
    <2> DEFINE m == N \div 3
               r == N % 3
    <2> HIDE DEF N
    <2>1. m \in Nat /\ r \in 0..2 /\ N = 3 * m + r
      BY <1>1
    <2>2. K = 4 * m + (IF r = 0 THEN 0 ELSE r + 1)
      BY Zenon DEF DataChars
    <2> HIDE DEF m, r, K
    <2>3. CASE r = 0
      BY <2>1, <2>2, <2>3
    <2>4. CASE r = 1
      BY <2>1, <2>2, <2>4
    <2>5. CASE r = 2
      BY <2>1, <2>2, <2>5
    <2> QED
      BY <2>1, <2>3, <2>4, <2>5
  <1>4. Mail!Decode(e) = [i \in 1..N |-> byte(i)]
    <2>1. Mail!Decode(e) = [i \in 1..((Len(c) * 6) \div 8) |-> byte(i)]
      BY Zenon DEF Mail!Decode
    <2> HIDE DEF c, K, N, byte
    <2> QED
      BY <1>2, <1>3, <2>1, Zenon
  <1>5. ASSUME NEW i \in 1..N PROVE byte(i) = in[i]
    <2> DEFINE g == (i - 1) \div 3
               t == ((i - 1) % 3) + 1
    <2> HIDE DEF N, c, K, e
    <2>1. g \in Nat /\ t \in 1..3 /\ i = 3 * g + t
      BY <1>1
    <2> HIDE DEF g, t
    <2>2. 3 * g < N
      BY <1>1, <2>1
    <2> DEFINE n == IF N < 3 * g + 3 THEN N - 3 * g ELSE 3
    <2>3. n \in 1..3 /\ t <= n
      BY <1>1, <2>1, <2>2
    <2>4. /\ e[4 * g + 1] * 4 + e[4 * g + 2] \div 16 = in[3 * g + 1]
          /\ n > 1 => (e[4 * g + 2] % 16) * 16 + e[4 * g + 3] \div 4 = in[3 * g + 2]
          /\ n = 3 => (e[4 * g + 3] % 4) * 64 + e[4 * g + 4] = in[3 * g + 3]
      BY <2>1, <2>2, GroupHeld, Zenon DEF N, e
    <2>5. /\ 4 * g + 1 <= K /\ 4 * g + 2 <= K
          /\ 4 * g + 3 <= K <=> n > 1
          /\ 4 * g + 4 <= K <=> n = 3
      BY <1>1, <2>1, <2>2, PlacesOf, Zenon DEF K
    <2> HIDE DEF n
    <2>6. K \in Int
      <3>1. Mail!convlen(N) \in Nat /\ K \in 0..Mail!convlen(N)
        BY <1>1, DataCharsType, Zenon DEF K
      <3> QED
        BY <3>1
    <2>7. /\ c[4 * g + 1] = e[4 * g + 1] /\ c[4 * g + 2] = e[4 * g + 2]
          /\ n > 1 => c[4 * g + 3] = e[4 * g + 3]
          /\ n = 3 => c[4 * g + 4] = e[4 * g + 4]
      <3>1. /\ 4 * g + 1 \in 1..K /\ 4 * g + 2 \in 1..K
            /\ n > 1 => 4 * g + 3 \in 1..K
            /\ n = 3 => 4 * g + 4 \in 1..K
        BY <2>1, <2>5, <2>6
      <3> QED
        BY <1>2, <3>1, Zenon
    <2>8. CASE t = 1
      <3>1. (8 * (i - 1)) \div 6 + 1 = 4 * g + 1 /\ (8 * (i - 1)) % 6 = 0 /\ (4 * g + 1) + 1 = 4 * g + 2
        BY <2>1, <2>8
      <3>2. byte(i) = c[4 * g + 1] * 4 + c[4 * g + 2] \div 16
        BY <3>1
      <3> QED
        BY <2>1, <2>4, <2>7, <2>8, <3>2, Zenon
    <2>9. CASE t = 2
      <3>1. /\ (8 * (i - 1)) \div 6 + 1 = 4 * g + 2 /\ (8 * (i - 1)) % 6 = 2 /\ (4 * g + 2) + 1 = 4 * g + 3
            /\ n > 1
        BY <2>1, <2>3, <2>9
      <3>2. byte(i) = (c[4 * g + 2] % 16) * 16 + c[4 * g + 3] \div 4
        BY <3>1
      <3> QED
        BY <2>1, <2>4, <2>7, <2>9, <3>1, <3>2, Zenon
    <2>10. CASE t = 3
      <3>1. /\ (8 * (i - 1)) \div 6 + 1 = 4 * g + 3 /\ (8 * (i - 1)) % 6 = 4 /\ (4 * g + 3) + 1 = 4 * g + 4
            /\ n = 3 /\ n > 1
        BY <2>1, <2>3, <2>10
      <3>2. byte(i) = (c[4 * g + 3] % 4) * 64 + c[4 * g + 4]
        BY <3>1
      <3> QED
        BY <2>1, <2>4, <2>7, <2>10, <3>1, <3>2, Zenon
    <2>11. t = 1 \/ t = 2 \/ t = 3
      BY <2>1
    <2> QED
      BY <2>8, <2>9, <2>10, <2>11, Zenon
  <1>6. in = [i \in 1..N |-> in[i]]
    OBVIOUS
  <1> HIDE DEF N, byte
  <1> QED
    BY <1>4, <1>5, <1>6, Zenon DEF e

LEMMA WiderList ==
    ASSUME NEW s \in Seq(0..Mail!PAD)
    PROVE  s \in Seq(Mail!Byte)
  BY SMTT(30) DEF Mail!PAD, Mail!Byte

LEMMA EncodeEmpty == Mail!base64_encode(<<>>) = <<>>
  <1>1. Len(<<>>) = 0 /\ <<>> \in Seq(Mail!Byte) /\ (0 + 2) \div 3 = 0 /\ 0 * 4 = 0
    OBVIOUS
  <1>2. Len(Mail!base64_encode(<<>>)) = 0 /\ Mail!base64_encode(<<>>) \in Seq(0..Mail!PAD)
    BY <1>1, EncodeType, Zenon DEF Mail!convlen
  <1> QED
    BY <1>2, EmptyList, Zenon

-----------------------------------------------------------------------------
(* What has been written of the body and of the attachment, at each place  *)
(* of the dialogue.                                                        *)

MailTypes ==
    /\ cmd \in Nat /\ count \in Nat
    /\ content \in [Mail!Parts -> Seq(Mail!Byte)] /\ length \in [Mail!Parts -> Nat]
    /\ \A p \in Mail!Parts : length[p] >= Len(content[p])
    /\ out_buf \in Seq(Mail!Byte) /\ body \in Seq(Mail!Byte) /\ attachment \in Seq(Mail!Byte)
    /\ part \in {"none", "html", "doc"}

BeforeParts ==
    /\ cmd <= Mail!DATA /\ pc \notin {"fread", "send"}
    /\ pc = "command" => cmd < Mail!DATA
    /\ pc = "fopen" => cmd = Mail!DATA
    /\ body = <<>> /\ attachment = <<>>

InHtml ==
    /\ cmd = Mail!DATA /\ pc \in {"fopen", "fread", "send", "failed"} /\ attachment = <<>>
    /\ pc = "fopen" => body = content["html"]
    /\ pc \in {"fread", "send"} => count <= Len(content["html"])
    /\ pc = "fread" => body = SubSeq(content["html"], 1, count)
    /\ pc = "send" => body \o out_buf = SubSeq(content["html"], 1, count)

Encoded == Mail!base64_encode(content["doc"])

(* An attachment that fits the buffer is read at once. *)
OneRead ==
    /\ pc = "fread" => \/ count = 0 /\ attachment = <<>>
                       \/ count = Len(content["doc"]) /\ attachment = Encoded
    /\ pc = "send" => count = Len(content["doc"]) /\ attachment \o out_buf = Encoded
    /\ Mail!Sent => attachment = Encoded

InDoc ==
    /\ cmd >= Mail!DATA /\ pc \notin {"connect", "fopen"}
    /\ pc \in {"fread", "send"} => cmd = Mail!DATA
    /\ pc = "read" => cmd > Mail!DATA
    /\ body = content["html"]
    /\ Len(content["doc"]) <= IN_BUF_SIZE => OneRead

MailInv ==
    /\ MailTypes
    /\ part = "none" => BeforeParts
    /\ part = "html" => InHtml
    /\ part = "doc" => InDoc

(* The steps that send no part of a file. *)
LEMMA MailDialogue ==
    ASSUME MailInv, Mail!connect \/ Mail!read_socket \/ Mail!command \/ Mail!Answer \/ Mail!HangUp
    PROVE  MailInv'
  <1>1. /\ UNCHANGED <<part, content, length, count, out_buf, body, attachment>>
        /\ pc \in {"connect", "read", "command"} \/ UNCHANGED <<pc, cmd>>
    BY DEF Mail!connect, Mail!read_socket, Mail!command, Mail!Answer, Mail!HangUp, Mail!wire,
           Mail!server
  <1>2. Encoded' = Encoded
    BY <1>1, Zenon DEF Encoded
  <1>3. CASE UNCHANGED <<pc, cmd>>
    <2>1. MailTypes' /\ Mail!Sent' = Mail!Sent
      BY <1>1, <1>3, Zenon DEF MailInv, MailTypes, Mail!Sent
    <2>2. (BeforeParts => BeforeParts') /\ (InHtml => InHtml') /\ (OneRead => OneRead')
      BY <1>1, <1>2, <1>3, <2>1, Zenon DEF BeforeParts, InHtml, OneRead
    <2>3. InDoc => InDoc'
      BY <1>1, <1>3, <2>2, Zenon DEF InDoc
    <2> QED
      BY <1>1, <2>1, <2>2, <2>3, Zenon DEF MailInv
  <1>4. CASE pc \in {"connect", "read", "command"} /\ ~UNCHANGED <<pc, cmd>>
    <2>1. \/ pc = "connect" /\ pc' \in {"read", "failed"} /\ cmd' = cmd
          \/ /\ pc = "read" /\ cmd' = cmd
             /\ pc' = CASE cmd = Mail!QUIT -> "closed" [] cmd = Mail!DATA -> "fopen" [] OTHER -> "command"
          \/ pc = "command" /\ cmd' = cmd + 1 /\ pc' = "read"
          \/ pc = "command" /\ pc' = "failed" /\ cmd' = cmd
      BY <1>4 DEF Mail!connect, Mail!read_socket, Mail!command, Mail!Answer, Mail!HangUp
    <2>2. MailTypes'
      BY <1>1, <2>1 DEF MailInv, MailTypes
    <2>3. ASSUME part = "none" PROVE BeforeParts'
      BY <1>1, <2>1, <2>3 DEF MailInv, MailTypes, BeforeParts, Mail!DATA, Mail!QUIT
    <2>4. part # "html"
      BY <1>4 DEF MailInv, InHtml
    <2>5. ASSUME part = "doc" PROVE InDoc'
      <3>1. InDoc /\ cmd \in Nat
        BY <2>5, Zenon DEF MailInv, MailTypes
      <3>2. /\ cmd' >= Mail!DATA /\ pc' \notin {"connect", "fopen", "fread", "send"}
            /\ pc' = "read" => cmd' > Mail!DATA
        BY <2>1, <3>1 DEF InDoc, Mail!DATA, Mail!QUIT
      <3>3. Mail!Sent
        BY <1>4, <3>1 DEF InDoc, Mail!Sent, Mail!DATA
      <3>4. OneRead => OneRead'
        BY <1>1, <1>2, <3>2, <3>3, Zenon DEF OneRead
      <3> QED
        BY <1>1, <3>1, <3>2, <3>4, Zenon DEF InDoc
    <2> QED
      BY <1>1, <2>2, <2>3, <2>4, <2>5, Zenon DEF MailInv
  <1> QED
    BY <1>1, <1>3, <1>4, Zenon

LEMMA MailFopen ==
    ASSUME MailInv, Mail!fopen
    PROVE  MailInv'
  <1>1. /\ UNCHANGED <<cmd, content, length, out_buf, body, attachment>> /\ pc = "fopen"
        /\ \/ pc' = "fread" /\ count' = 0 /\ part' = IF part = "none" THEN "html" ELSE "doc"
           \/ pc' = "failed" /\ UNCHANGED <<part, count>>
    BY Zenon DEF Mail!fopen, Mail!wire
  <1>2. MailTypes /\ content["html"] \in Seq(Mail!Byte) /\ content["doc"] \in Seq(Mail!Byte)
    BY DEF MailInv, MailTypes, Mail!Parts
  <1>3. MailTypes'
    BY <1>1, <1>2 DEF MailTypes
  <1>4. cmd <= Mail!DATA /\ cmd \in Nat /\ part # "doc"
    BY <1>1, <1>2 DEF MailInv, MailTypes, BeforeParts, InHtml, InDoc, Mail!DATA
  <1>5. CASE part = "none"
    <2>1. BeforeParts
      BY <1>5, Zenon DEF MailInv
    <2>2. CASE pc' = "failed"
      BY <1>1, <1>5, <1>3, <2>1, <2>2 DEF MailInv, BeforeParts
    <2>3. CASE pc' = "fread"
      <3>1. part' = "html" /\ count' = 0 /\ body' = <<>> /\ attachment' = <<>>
        BY <1>1, <1>5, <2>1, <2>3, Zenon DEF BeforeParts
      <3>2. 0 <= Len(content'["html"]) /\ SubSeq(content'["html"], 1, 0) = <<>>
        BY <1>1, <1>2
      <3>3. cmd = Mail!DATA
        BY <1>1, <2>1, Zenon DEF BeforeParts
      <3>4. InHtml'
        BY <1>1, <2>3, <3>1, <3>2, <3>3 DEF InHtml
      <3> QED
        BY <1>3, <3>1, <3>4 DEF MailInv
    <2> QED
      BY <1>1, <2>2, <2>3, Zenon
  <1>6. CASE part = "html"
    <2>1. InHtml
      BY <1>6, Zenon DEF MailInv
    <2>2. CASE pc' = "failed"
      BY <1>1, <1>3, <1>6, <2>1, <2>2 DEF MailInv, InHtml
    <2>3. CASE pc' = "fread"
      <3>1. part' = "doc" /\ count' = 0 /\ body' = content'["html"] /\ attachment' = <<>> /\ cmd' = Mail!DATA
        BY <1>1, <1>6, <2>1, <2>3, Zenon DEF InHtml
      <3>2. OneRead'
        BY <2>3, <3>1 DEF OneRead, Mail!Sent, Mail!DATA
      <3>3. InDoc'
        BY <2>3, <3>1, <3>2 DEF InDoc, Mail!DATA
      <3> QED
        BY <1>3, <3>1, <3>3 DEF MailInv
    <2> QED
      BY <1>1, <2>2, <2>3, Zenon
  <1> QED
    BY <1>2, <1>4, <1>5, <1>6, Zenon DEF MailTypes

(* What fread reads. *)
LEMMA ChunkOf ==
    ASSUME MailTypes, part \in Mail!Parts, IN_BUF_SIZE \in Nat \ {0}
    PROVE  LET f == content[part] IN
           /\ f \in Seq(Mail!Byte) /\ Mail!Chunk \in Seq(Mail!Byte)
           /\ Mail!base64_encode(Mail!Chunk) \in Seq(Mail!Byte)
           /\ count <= Len(f) =>
                 /\ count + Len(Mail!Chunk) <= Len(f)
                 /\ SubSeq(f, 1, count) \o Mail!Chunk = SubSeq(f, 1, count + Len(Mail!Chunk))
           /\ count = 0 /\ Len(f) <= IN_BUF_SIZE => Mail!Chunk = f
           /\ count = Len(f) => Mail!Chunk = <<>>
  <1> DEFINE f == content[part]
             z == IF count + IN_BUF_SIZE < Len(f) THEN count + IN_BUF_SIZE ELSE Len(f)
             ch == Mail!Chunk
  <1>1. f \in Seq(Mail!Byte) /\ count \in Nat
    BY Zenon DEF MailTypes
  <1>2. ch = SubSeq(f, count + 1, z)
    BY Zenon DEF Mail!Chunk
  <1> HIDE DEF f, ch
  <1>3. Len(f) \in Nat
    BY <1>1
  <1>4. /\ z \in 0..Len(f)
        /\ count <= Len(f) => z \in count..Len(f) /\ count \in 0..Len(f) /\ count + (z - count) = z
        /\ count = 0 /\ Len(f) <= IN_BUF_SIZE => z = Len(f) /\ count + 1 = 1
        /\ count = Len(f) => z = Len(f)
        /\ \A n \in 0..Len(f) : n <= Len(f)
    BY <1>1, <1>3
  <1> HIDE DEF z
  <1>5. ch \in Seq(Mail!Byte)
    BY <1>1, <1>2, <1>4, SomePart, Zenon
  <1>6. Mail!base64_encode(ch) \in Seq(Mail!Byte)
    BY <1>5, EncodeType, WiderList, Zenon
  <1>7. ASSUME count <= Len(f)
        PROVE  count + Len(ch) <= Len(f) /\ SubSeq(f, 1, count) \o ch = SubSeq(f, 1, count + Len(ch))
    <2> HIDE DEF z
    <2>1. Len(ch) = z - count /\ SubSeq(f, 1, count) \o ch = SubSeq(f, 1, z)
      <3>1. count \in 0..Len(f) /\ z \in count..Len(f)
        BY <1>4, <1>7, Zenon
      <3> QED
        BY <1>1, <1>2, <3>1, PrefixAndRest, Zenon
    <2>2. count + Len(ch) = z
      BY <1>4, <1>7, <2>1, Zenon
    <2> QED
      BY <1>4, <2>1, <2>2, Zenon
  <1>8. count = 0 /\ Len(f) <= IN_BUF_SIZE => ch = f
    BY <1>1, <1>2, <1>4, WholeList, Zenon
  <1>9. count = Len(f) => ch = <<>>
    BY <1>1, <1>2, <1>4, WholeList, Zenon
  <1> QED
    BY <1>1, <1>5, <1>6, <1>7, <1>8, <1>9, Zenon DEF f, ch

LEMMA MailFread ==
    ASSUME MailInv, Mail!MailAssumption, Mail!fread
    PROVE  MailInv'
  <1> DEFINE f == content[part]
             ch == Mail!Chunk
  <1>1. /\ UNCHANGED <<cmd, part, content, length, body, attachment>> /\ pc = "fread"
        /\ \/ /\ part = "html" /\ ch = <<>> /\ pc' = "failed" /\ UNCHANGED <<out_buf, count>>
           \/ /\ ch = <<>> => part # "html" /\ pc' = "fread"
              /\ ch # <<>> => pc' \in {"send", "failed"}
              /\ part = "html" => pc' = "send"
              /\ out_buf' = (IF part = "html" THEN ch ELSE Mail!base64_encode(ch))
              /\ count' = count + Len(ch)
    BY DEF Mail!fread, Mail!wire
  <1>2. MailTypes /\ part \in Mail!Parts /\ IN_BUF_SIZE \in Nat \ {0} /\ cmd \in Nat /\ count \in Nat
    BY <1>1 DEF MailInv, MailTypes, BeforeParts, Mail!Parts, Mail!MailAssumption
  <1>3. /\ f \in Seq(Mail!Byte) /\ ch \in Seq(Mail!Byte)
        /\ Mail!base64_encode(ch) \in Seq(Mail!Byte)
        /\ count <= Len(f) =>
              /\ count + Len(ch) <= Len(f)
              /\ SubSeq(f, 1, count) \o ch = SubSeq(f, 1, count + Len(ch))
        /\ count = 0 /\ Len(f) <= IN_BUF_SIZE => ch = f
        /\ count = Len(f) => ch = <<>>
    BY <1>2, ChunkOf, Zenon
  <1> HIDE DEF ch, f
  <1>4. Len(ch) \in Nat /\ count + Len(ch) \in Nat /\ 0 + Len(ch) = Len(ch) /\ Len(<<>>) = 0
    BY <1>2, <1>3
  <1>5. MailTypes'
    BY <1>1, <1>2, <1>3, <1>4, Zenon DEF MailTypes
  <1>6. Encoded' = Encoded
    BY <1>1, Zenon DEF Encoded
  <1>7. CASE part = "html"
    <2>1. InHtml /\ count <= Len(f) /\ body = SubSeq(f, 1, count) /\ f = content["html"]
      BY <1>1, <1>7, Zenon DEF MailInv, InHtml, f
    <2>2. CASE pc' = "failed"
      BY <1>1, <1>5, <1>7, <2>1, <2>2 DEF MailInv, InHtml
    <2>3. CASE pc' # "failed"
      <3>1. pc' = "send" /\ count' = count + Len(ch) /\ out_buf' = ch
        BY <1>1, <1>7, <2>3, Zenon
      <3>2. body' \o out_buf' = SubSeq(f, 1, count') /\ count' <= Len(f)
        BY <1>1, <1>3, <2>1, <3>1, Zenon
      <3>3. InHtml'
        BY <1>1, <2>1, <3>1, <3>2, Zenon DEF InHtml
      <3> QED
        BY <1>1, <1>5, <1>7, <3>3 DEF MailInv
    <2> QED
      BY <2>2, <2>3
  <1>8. CASE part = "doc"
    <2>1. InDoc /\ f = content["doc"]
      BY <1>8, Zenon DEF MailInv, f
    <2>2. pc' \in {"fread", "send", "failed"} /\ count' = count + Len(ch) /\ out_buf' = Mail!base64_encode(ch)
      BY <1>1, <1>8
    <2>3. ASSUME Len(f) <= IN_BUF_SIZE PROVE OneRead'
      <3>1. OneRead
        BY <2>1, <2>3, Zenon DEF InDoc
      <3>2. ~Mail!Sent'
        BY <1>1, <1>2, <2>1, <2>2 DEF InDoc, Mail!Sent, Mail!DATA
      <3>3. CASE count = 0 /\ attachment = <<>>
        <4>1. ch = f /\ count' = Len(f) /\ out_buf' = Encoded
          BY <1>3, <1>4, <2>1, <2>2, <2>3, <3>3, Zenon DEF Encoded
        <4>2. attachment' \o out_buf' = Encoded
          BY <1>1, <1>5, <3>3, <4>1, ConcatEmpty, Zenon DEF MailTypes
        <4>3. pc' = "fread" => attachment' = Encoded
          BY <1>1, <2>1, <3>3, <4>1, EncodeEmpty DEF Encoded
        <4> QED
          BY <1>1, <1>6, <2>1, <3>2, <4>1, <4>2, <4>3, Zenon DEF OneRead
      <3>4. CASE count = Len(f) /\ attachment = Encoded
        <4>1. ch = <<>> /\ pc' = "fread" /\ count' = count
          BY <1>1, <1>2, <1>3, <1>4, <1>8, <3>4
        <4> QED
          BY <1>1, <1>6, <2>1, <3>2, <3>4, <4>1 DEF OneRead
      <3> QED
        BY <1>1, <2>1, <3>1, <3>3, <3>4, Zenon DEF OneRead
    <2>4. InDoc'
      BY <1>1, <2>1, <2>2, <2>3 DEF InDoc
    <2> QED
      BY <1>1, <1>5, <1>8, <2>4 DEF MailInv
  <1> QED
    BY <1>2, <1>7, <1>8, Zenon DEF Mail!Parts

(* However write splits what it is given, what is written and what is left *)
(* is what there was.                                                      *)
LEMMA MailSend ==
    ASSUME MailInv, Mail!send_socket
    PROVE  MailInv'
  <1>1. UNCHANGED <<cmd, part, content, length, count>> /\ pc = "send"
    BY Zenon DEF Mail!send_socket
  <1>2. MailTypes /\ part \in {"html", "doc"} /\ cmd \in Nat
    BY <1>1 DEF MailInv, MailTypes, BeforeParts
  <1>3. Encoded' = Encoded
    BY <1>1, Zenon DEF Encoded
  <1>4. CASE pc' = "failed" /\ UNCHANGED <<body, attachment, out_buf>>
    <2>1. MailTypes'
      BY <1>1, <1>2, <1>4, Zenon DEF MailTypes
    <2>2. part = "html" => InHtml'
      BY <1>1, <1>4 DEF MailInv, InHtml
    <2>3. part = "doc" => InDoc'
      BY <1>1, <1>2, <1>3, <1>4 DEF MailInv, InDoc, OneRead, Mail!Sent, Mail!DATA
    <2> QED
      BY <1>1, <1>2, <2>1, <2>2, <2>3 DEF MailInv
  <1>5. CASE ~(pc' = "failed" /\ UNCHANGED <<body, attachment, out_buf>>)
    <2>1. PICK n \in 1..Len(out_buf) :
             /\ body' = IF part = "html" THEN body \o SubSeq(out_buf, 1, n) ELSE body
             /\ attachment' = IF part = "doc" THEN attachment \o SubSeq(out_buf, 1, n) ELSE attachment
             /\ out_buf' = SubSeq(out_buf, n + 1, Len(out_buf))
             /\ pc' = IF n = Len(out_buf) THEN "fread" ELSE "send"
      BY <1>5, Zenon DEF Mail!send_socket
    <2> DEFINE w == SubSeq(out_buf, 1, n)
               l == SubSeq(out_buf, n + 1, Len(out_buf))
    <2>2. out_buf \in Seq(Mail!Byte) /\ body \in Seq(Mail!Byte) /\ attachment \in Seq(Mail!Byte)
      BY <1>2, Zenon DEF MailTypes
    <2>3. n \in 0..Len(out_buf) /\ Len(out_buf) \in n..Len(out_buf)
      BY <2>1, <2>2
    <2>4. w \o l = out_buf /\ w \in Seq(Mail!Byte) /\ l \in Seq(Mail!Byte)
      <3>1. /\ w \o l = SubSeq(out_buf, 1, Len(out_buf))
            /\ w \in Seq(Mail!Byte) /\ l \in Seq(Mail!Byte)
        BY <2>2, <2>3, PrefixAndRest, Zenon
      <3> QED
        BY <2>2, <3>1, WholeList, Zenon
    <2>5. n = Len(out_buf) => l = <<>>
      BY <2>2, WholeList, Zenon
    <2> HIDE DEF w, l
    <2>6. /\ body \o w \in Seq(Mail!Byte) /\ (body \o w) \o l = body \o out_buf
          /\ attachment \o w \in Seq(Mail!Byte) /\ (attachment \o w) \o l = attachment \o out_buf
      <3>1. ASSUME NEW s \in Seq(Mail!Byte)
            PROVE  s \o w \in Seq(Mail!Byte) /\ (s \o w) \o l = s \o out_buf
        <4>1. (s \o w) \o l = s \o (w \o l)
          <5>1. w \in Seq(Mail!Byte) /\ l \in Seq(Mail!Byte)
            BY <2>4, Zenon
          <5> QED
            BY <5>1, SMTT(30)
        <4>2. s \o w \in Seq(Mail!Byte)
          BY <2>4, ConcatProperties, Zenon
        <4> QED
          BY <2>4, <4>1, <4>2, Zenon
      <3> QED
        BY <2>2, <3>1, Zenon
    <2>7. /\ body' = IF part = "html" THEN body \o w ELSE body
          /\ attachment' = IF part = "doc" THEN attachment \o w ELSE attachment
          /\ out_buf' = l /\ pc' \in {"fread", "send"} /\ (pc' = "fread" => l = <<>>)
      BY <2>1, <2>5 DEF w, l
    <2>8. MailTypes'
      BY <1>1, <1>2, <2>2, <2>4, <2>6, <2>7, Zenon DEF MailTypes
    <2>9. (body \o w) \o <<>> = body \o w /\ (attachment \o w) \o <<>> = attachment \o w
      BY <2>6, ConcatEmpty, Zenon
    <2>10. ASSUME part = "html" PROVE InHtml'
      <3>1. InHtml
        BY <2>10, Zenon DEF MailInv
      <3>2. body' \o out_buf' = SubSeq(content["html"], 1, count) /\ attachment' = <<>>
        BY <1>1, <2>6, <2>7, <2>10, <3>1, Zenon DEF InHtml
      <3>3. pc' = "fread" => body' = SubSeq(content["html"], 1, count)
        BY <2>7, <2>9, <2>10, <3>2, Zenon
      <3> QED
        BY <1>1, <2>7, <3>1, <3>2, <3>3, Zenon DEF InHtml
    <2>11. ASSUME part = "doc" PROVE InDoc'
      <3>1. InDoc
        BY <2>11, Zenon DEF MailInv
      <3>2. ~Mail!Sent'
        BY <1>1, <1>2, <2>7, <3>1 DEF InDoc, Mail!Sent, Mail!DATA
      <3>3. attachment' = attachment \o w /\ body' = body
        BY <2>7, <2>11
      <3>4. OneRead => OneRead'
        <4>1. SUFFICES ASSUME OneRead PROVE OneRead'
          OBVIOUS
        <4>2. count = Len(content["doc"]) /\ attachment' \o out_buf' = Encoded
          BY <1>1, <2>6, <2>7, <3>3, <4>1, Zenon DEF OneRead
        <4>3. pc' = "fread" => attachment' = Encoded
          BY <2>7, <2>9, <3>3, <4>2, Zenon
        <4> QED
          BY <1>1, <1>3, <2>7, <3>2, <4>2, <4>3, Zenon DEF OneRead
      <3> QED
        BY <1>1, <2>7, <3>1, <3>3, <3>4, Zenon DEF InDoc
    <2> QED
      BY <1>1, <1>2, <2>8, <2>10, <2>11 DEF MailInv
  <1> QED
    BY <1>4, <1>5, Zenon

LEMMA MailFclose ==
    ASSUME MailInv, Mail!fclose
    PROVE  MailInv'
  <1>1. /\ UNCHANGED <<cmd, part, content, length, count, out_buf, body, attachment>>
        /\ pc = "fread" /\ count >= length[part]
        /\ pc' = IF part = "html" THEN "fopen" ELSE "command"
    BY Zenon DEF Mail!fclose, Mail!wire
  <1>2. MailTypes /\ part \in {"html", "doc"}
    BY <1>1 DEF MailInv, MailTypes, BeforeParts
  <1>3. MailTypes'
    BY <1>1, <1>2, Zenon DEF MailTypes
  <1>4. content[part] \in Seq(Mail!Byte) /\ count \in Nat /\ length[part] \in Nat /\ cmd \in Nat
        /\ length[part] >= Len(content[part])
    BY <1>2 DEF MailTypes, Mail!Parts
  <1>5. count >= Len(content[part]) /\ Len(content[part]) \in Nat
    BY <1>1, <1>4
  <1>6. CASE part = "html"
    <2>1. InHtml
      BY <1>6, Zenon DEF MailInv
    <2>2. count = Len(content["html"])
      BY <1>1, <1>4, <1>5, <1>6, <2>1 DEF InHtml
    <2>3. body = content["html"]
      BY <1>1, <1>4, <1>6, <2>1, <2>2, WholeList, Zenon DEF InHtml
    <2>4. InHtml'
      BY <1>1, <1>6, <2>1, <2>3 DEF InHtml
    <2> QED
      BY <1>1, <1>3, <1>6, <2>4 DEF MailInv
  <1>7. CASE part = "doc"
    <2>1. InDoc
      BY <1>7, Zenon DEF MailInv
    <2>2. ASSUME OneRead PROVE OneRead'
      <3>1. attachment = Encoded
        <4>1. CASE count = 0 /\ attachment = <<>>
          <5>1. Len(content["doc"]) = 0
            BY <1>5, <1>7, <4>1
          <5> QED
            BY <1>4, <1>7, <4>1, <5>1, EmptyList, EncodeEmpty, Zenon DEF Encoded
        <4> QED
          BY <1>1, <2>2, <4>1, Zenon DEF OneRead
      <3> QED
        BY <1>1, <1>7, <3>1 DEF OneRead, Encoded
    <2>3. InDoc'
      BY <1>1, <1>7, <2>1, <2>2 DEF InDoc, Mail!DATA
    <2> QED
      BY <1>1, <1>3, <1>7, <2>3 DEF MailInv
  <1> QED
    BY <1>2, <1>6, <1>7, Zenon

(* send_email.c: what main sends between DATA and the dot is what the      *)
(* files hold, however write splits it and wherever the connection fails:  *)
(* the body byte for byte, an attachment of at most one buffer once its    *)
(* base64 is decoded.                                                      *)
THEOREM FilesArrive ==
    ASSUME Mail!MailAssumption
    PROVE  Mail!Spec => []PartsArrive
  <1>1. Mail!Init => MailInv
    <2>1. SUFFICES ASSUME Mail!Init PROVE MailInv
      OBVIOUS
    <2>2. content \in [Mail!Parts -> Seq(Mail!Byte)]
      BY <2>1 DEF Mail!Init, Mail!MailAssumption
    <2>3. \A p \in Mail!Parts : Len(content[p]) \in Nat
      BY <2>2
    <2>4. PICK cut \in [Mail!Parts -> 0..1] : length = [p \in Mail!Parts |-> Len(content[p]) + cut[p]]
      BY <2>1, Zenon DEF Mail!Init
    <2>5. length \in [Mail!Parts -> Nat] /\ \A p \in Mail!Parts : length[p] >= Len(content[p])
      BY <2>3, <2>4
    <2>6. cmd = 0 /\ count = 0 /\ out_buf = <<>> /\ body = <<>> /\ attachment = <<>> /\ part = "none" /\ pc = "connect"
      BY <2>1, Zenon DEF Mail!Init
    <2>7. 0 \in Nat /\ <<>> \in Seq(Mail!Byte)
      OBVIOUS
    <2>8. MailTypes
      BY <2>2, <2>5, <2>6, <2>7, Zenon DEF MailTypes
    <2> QED
      BY <2>6, <2>8 DEF MailInv, BeforeParts, Mail!DATA
  <1>2. MailInv /\ [Mail!Next]_Mail!vars => MailInv'
    <2>1. SUFFICES ASSUME MailInv, [Mail!Next]_Mail!vars PROVE MailInv'
      OBVIOUS
    <2>2. CASE UNCHANGED Mail!vars
      <3>1. MailTypes' = MailTypes /\ BeforeParts' = BeforeParts /\ InHtml' = InHtml /\ InDoc' = InDoc /\ part' = part
        BY <2>2, Zenon DEF Mail!vars, MailTypes, BeforeParts, InHtml, InDoc, OneRead, Mail!Sent, Encoded
      <3> QED
        BY <2>1, <3>1, Zenon DEF MailInv
    <2> QED
      BY <2>1, <2>2, MailDialogue, MailFopen, MailFread, MailSend, MailFclose, Zenon DEF Mail!Next, Mail!Main
  <1>3. MailInv => PartsArrive
    <2>1. SUFFICES ASSUME MailInv, Mail!Sent
                   PROVE  /\ body = content["html"]
                          /\ Len(content["doc"]) <= IN_BUF_SIZE => Mail!Decode(attachment) = content["doc"]
      BY Zenon DEF PartsArrive, Mail!PartsArrive
    <2>2. part = "doc"
      BY <2>1 DEF MailInv, MailTypes, BeforeParts, InHtml, Mail!Sent, Mail!DATA
    <2>3. InDoc /\ content["doc"] \in Seq(Mail!Byte)
      BY <2>1, <2>2 DEF MailInv, MailTypes, Mail!Parts
    <2> QED
      BY <2>1, <2>3, Base64RoundTrip, Zenon DEF InDoc, OneRead, Encoded
  <1> QED
    BY <1>1, <1>2, <1>3, PTL DEF Mail!Spec

-----------------------------------------------------------------------------
(* The types of what the proof speaks of. *)
Types == /\ zhandle \in 0..MaxInits /\ inproc \in 0..MaxInits /\ inits \in 0..MaxInits
         /\ fd \in Fd /\ pollFd \in Fd
         /\ sock \in [Sessions -> Fd]
         /\ session \in [Sessions -> {"none", "open", "closing", "expired", "closed"}]
         /\ timer \in {"uninit", "stopped", "active", "closing", "closed"}
         /\ is_closed \in BOOLEAN /\ pollOn \in BOOLEAN /\ again \in BOOLEAN
         /\ started \in BOOLEAN /\ oom \in BOOLEAN
         /\ refs \in {0, 1}

(* The three lives of the object.  Before init has succeeded libuv knows   *)
(* nothing of it; ...                                                      *)
Fresh ==
    zhandle = 0 /\ ~is_closed =>
        /\ fd = -1 /\ pollFd = -1 /\ ~pollOn /\ timer = "uninit"
        /\ inproc = 0 /\ ~started

(* ... while it is open its timer can be stopped but not closed, and fd is *)
(* the socket of its session; ...                                          *)
Opened ==
    zhandle # 0 => /\ ~is_closed /\ inits > 0
                   /\ timer \in {"stopped", "active"}
                   /\ session[zhandle] = "open" /\ sock[zhandle] = fd

(* ... and once closed it has neither session nor handle, and its timer is *)
(* on its way out if it ever was in.                                       *)
Closed ==
    is_closed => /\ zhandle = 0 /\ pollFd = -1 /\ ~pollOn
                 /\ timer \in {"uninit", "closing", "closed"}

(* The object's reference is there exactly while libuv has the timer. *)
RefWithTimer == refs = (IF timer \in {"stopped", "active", "closing"} THEN 1 ELSE 0)

IInv == /\ Types /\ Fresh /\ Opened /\ Closed /\ RefWithTimer
        /\ PollMatchesFd /\ Driven

USE FdsAssumption, MaxInitsAssumption

-----------------------------------------------------------------------------
(* yield on an open object: given a timer t and a repeat a that drive it,  *)
(* and a socket sk that is the one it knows or none, it ends with a poll   *)
(* handle for the socket it is told to use, and still driven.              *)
LEMMA YieldOpenKeeps ==
    ASSUME Types, NEW s \in Sessions, NEW sk \in {-1, fd},
           NEW t \in {"stopped", "active"}, NEW a \in BOOLEAN,
           ~oom /\ fd # -1 => pollFd = fd,
           started => t = "active" \/ ~a,
           YieldOpen(s, sk, t, a)
    PROVE  /\ fd' \in Fd /\ pollFd' \in Fd
           /\ sock' \in [Sessions -> Fd] /\ sock'[s] = fd'
           /\ timer' \in {"stopped", "active"}
           /\ again' \in BOOLEAN /\ pollOn' \in BOOLEAN
           /\ started' \in BOOLEAN /\ oom' \in BOOLEAN
           /\ ~oom' /\ fd' # -1 => pollFd' = fd'
           /\ pollOn' /\ ~oom' => pollFd' # -1
           /\ started' => timer' = "active" \/ ~again'
  <1> DEFINE Goal == /\ pollFd' \in Fd
                     /\ timer' \in {"stopped", "active"}
                     /\ again' \in BOOLEAN /\ pollOn' \in BOOLEAN
                     /\ started' \in BOOLEAN /\ oom' \in BOOLEAN
                     /\ ~oom' /\ fd' # -1 => pollFd' = fd'
                     /\ pollOn' /\ ~oom' => pollFd' # -1
                     /\ started' => timer' = "active" \/ ~again'
  <1>1. PICK r \in Interest(s, sk) :
           /\ fd' = r.fd
           /\ sock' = IF s = 0 THEN sock ELSE [sock EXCEPT ![s] = r.fd]
           /\ \/ YieldError(r, t, a)
              \/ YieldNoSocket(r, t, a)
              \/ YieldSameSocket(r, t)
              \/ YieldNewSocket(r, t, a)
    BY Zenon DEF YieldOpen
  <1>2. s # 0
    BY DEF Sessions
  <1>3. /\ r.fd \in Fd /\ r.ok \in BOOLEAN /\ r.delay \in BOOLEAN
        /\ ~r.ok => r.fd \in {sk, -1}
    <2>1. CASE sk = -1
      <3> DEFINE free == Fds \ {sock[u] : u \in Sessions \ {s}}
      <3>1. \/ r \in [ok : {TRUE}, delay : BOOLEAN, fd : free \cup {-1}]
            \/ r = [ok |-> FALSE, fd |-> -1, delay |-> FALSE]
        BY <1>1, <1>2, <2>1, Zenon DEF Interest
      <3>2. free \subseteq Fds
        OBVIOUS
      <3> HIDE DEF free
      <3>3. CASE r \in [ok : {TRUE}, delay : BOOLEAN, fd : free \cup {-1}]
        BY <3>2, <3>3, Zenon DEF Fd
      <3>4. CASE r = [ok |-> FALSE, fd |-> -1, delay |-> FALSE]
        BY <3>4, Zenon DEF Fd
      <3> QED BY <3>1, <3>3, <3>4, Zenon
    <2>2. CASE sk # -1
      BY <1>1, <1>2, <2>2, Zenon DEF Interest, Fd, Types
    <2> QED BY <2>1, <2>2, Zenon
  <1>4. sock' \in [Sessions -> Fd] /\ sock'[s] = fd'
    BY <1>1, <1>2, <1>3, Zenon DEF Types
  <1>5. ASSUME YieldError(r, t, a) PROVE Goal
    <2>1. /\ timer' = t /\ again' = a /\ pollOn' = FALSE
          /\ started' = started /\ pollFd' = pollFd /\ oom' = oom
          /\ fd' \in {fd, -1}
      BY <1>1, <1>3, <1>5, Zenon DEF YieldError, KeepTimer
    <2> QED BY <2>1, Zenon DEF Types
  <1>6. ASSUME YieldNoSocket(r, t, a) PROVE Goal
    <2>1. /\ timer' = t /\ again' = a /\ pollOn' = FALSE
          /\ started' = started /\ pollFd' = -1 /\ oom' = oom /\ fd' = -1
      BY <1>1, <1>6, Zenon DEF YieldNoSocket, KeepTimer
    <2> QED BY <2>1, Zenon DEF Types, Fd
  <1>7. ASSUME YieldSameSocket(r, t) PROVE Goal
    <2>1. /\ timer' = "active" /\ again' = r.delay /\ pollOn' = TRUE
          /\ started' = TRUE /\ pollFd' = pollFd /\ oom' = oom
          /\ fd' = fd /\ fd # -1
      BY <1>1, <1>7, Zenon DEF YieldSameSocket, Arm
    <2> QED BY <2>1, <1>3, Zenon DEF Types
  <1>8. ASSUME YieldNewSocket(r, t, a) PROVE Goal
    <2>1. CASE pollFd' = r.fd /\ Arm(r, t) /\ UNCHANGED oom
      <3>1. /\ timer' = "active" /\ again' = r.delay /\ pollOn' = TRUE
            /\ started' = TRUE /\ pollFd' = fd' /\ fd' # -1 /\ oom' = oom
        BY <1>1, <1>8, <2>1, Zenon DEF YieldNewSocket, Arm
      <3> QED BY <3>1, <1>1, <1>3, Zenon DEF Types
    <2>2. CASE pollFd' = -1 /\ KeepTimer(t, a) /\ oom' = TRUE
      BY <2>2, Zenon DEF KeepTimer, Types, Fd
    <2> QED BY <1>8, <2>1, <2>2, Zenon DEF YieldNewSocket
  <1>9. Goal
    BY <1>1, <1>5, <1>6, <1>7, <1>8, Zenon
  <1> QED BY <1>1, <1>3, <1>4, <1>9, Zenon

(* realClose, nested in zookeeper_process or not. *)
LEMMA RealCloseKeeps ==
    ASSUME IInv, NEW nested \in BOOLEAN, NEW st \in {"closing", "expired"},
           RealClose(nested, st),
           inproc' \in {inproc, 0}, UNCHANGED <<started, oom, inits>>
    PROVE  IInv'
  <1> USE DEF IInv
  <1>1. CASE is_closed
    <2>1. UNCHANGED <<object, session, sock>>
      BY <1>1, Zenon DEF RealClose
    <2> QED
      BY <2>1 DEF object, Types, Fresh, Opened, Closed, RefWithTimer, PollMatchesFd, Driven
  <1>2. CASE ~is_closed /\ zhandle = 0
    <2>1. /\ is_closed' = TRUE /\ timer' = "uninit"
          /\ UNCHANGED <<zhandle, fd, pollFd, pollOn, again, refs, session, sock>>
      BY <1>2, Zenon DEF RealClose, Fresh
    <2> QED
      BY <1>2, <2>1, Zenon DEF Types, Fresh, Opened, Closed, RefWithTimer, PollMatchesFd, Driven
  <1>3. CASE ~is_closed /\ zhandle # 0
    <2>1. /\ is_closed' = TRUE /\ timer' = "closing" /\ zhandle' = 0
          /\ pollFd' = -1 /\ pollOn' = FALSE
          /\ UNCHANGED <<fd, again, refs>>
          /\ ZookeeperClose(zhandle, nested, st)
      BY <1>3, Zenon DEF RealClose
    <2>2. /\ sock' \in [Sessions -> Fd]
          /\ session' \in [Sessions -> {"none", "open", "closing", "expired", "closed"}]
      BY <2>1, Zenon DEF ZookeeperClose, DestroySession, Types, Fd
    <2>3. zhandle' \in 0..MaxInits /\ pollFd' \in Fd
      BY <2>1 DEF Fd
    <2>4. Types'
      BY <2>1, <2>2, <2>3, Zenon DEF Types
    <2>5. Fresh' /\ Opened' /\ Closed'
      BY <2>1, Zenon DEF Fresh, Opened, Closed
    <2>6. RefWithTimer'
      BY <1>3, <2>1, Zenon DEF RefWithTimer, Opened
    <2>7. PollMatchesFd' /\ Driven'
      BY <2>1, Zenon DEF PollMatchesFd, Driven
    <2> QED BY <2>4, <2>5, <2>6, <2>7, Zenon
  <1> QED BY <1>1, <1>2, <1>3, Zenon DEF Types

-----------------------------------------------------------------------------
(* The inductive invariant.  init, yield and realClose change the object;  *)
(* completions, watchers and calls leave it alone.                         *)
THEOREM Invariance == SpecOnce => []IInv
<1> USE DEF IInv
<1>1. Init => IInv
  <2> SUFFICES ASSUME Init PROVE IInv
    OBVIOUS
  <2>1. Types
    <3>1. zhandle \in 0..MaxInits /\ inproc \in 0..MaxInits /\ inits \in 0..MaxInits
      BY DEF Init
    <3>2. fd \in Fd /\ pollFd \in Fd /\ sock \in [Sessions -> Fd]
      BY Zenon DEF Init, Fd
    <3> QED BY <3>1, <3>2, Zenon DEF Init, Types
  <2> QED BY <2>1, Zenon DEF Init, Fresh, Opened, Closed, RefWithTimer, PollMatchesFd, Driven
<1>2. IInv /\ [NextOnce]_vars => IInv'
  <2> SUFFICES ASSUME IInv, [NextOnce]_vars PROVE IInv'
    OBVIOUS
  <2>1. CASE InitOnce
    <3>1. inits = 0 /\ ~is_closed /\ zhandle = 0 /\ inits' = 1 /\ 1 \in Sessions
      <4>1. inits = 0 /\ ~is_closed /\ inits < MaxInits /\ inits' = inits + 1
        BY <2>1, Zenon DEF InitOnce, RealInit, InitFails, InitSucceeds
      <4>2. zhandle = 0
        BY <4>1 DEF Opened
      <4> QED BY <4>1, <4>2 DEF Sessions
    <3>2. /\ fd = -1 /\ pollFd = -1 /\ ~pollOn /\ timer = "uninit" /\ inproc = 0
          /\ ~started /\ refs = 0
      BY <3>1, Zenon DEF Fresh, RefWithTimer
    <3>3. CASE InitFails
      <4>1. UNCHANGED <<zhandle, is_closed, fd, pollFd, pollOn, timer, again, refs, session, sock,
                        inproc, started, oom>>
        BY <3>1, <3>2, <3>3, Zenon DEF InitFails, library
      <4> QED
        BY <3>1, <4>1 DEF Types, Sessions, Fresh, Opened, Closed, RefWithTimer, PollMatchesFd, Driven
    <3>4. CASE InitSucceeds
      <4>1. /\ zhandle' = 1 /\ refs' = 1 /\ UNCHANGED <<is_closed, inproc>>
            /\ session' = [session EXCEPT ![1] = "open"]
            /\ YieldOpen(1, -1, "stopped", FALSE)
        BY <3>1, <3>2, <3>4, Zenon DEF InitSucceeds, Yield
      <4>2. /\ fd' \in Fd /\ pollFd' \in Fd
            /\ sock' \in [Sessions -> Fd] /\ sock'[1] = fd'
            /\ timer' \in {"stopped", "active"}
            /\ again' \in BOOLEAN /\ pollOn' \in BOOLEAN
            /\ started' \in BOOLEAN /\ oom' \in BOOLEAN
            /\ ~oom' /\ fd' # -1 => pollFd' = fd'
            /\ pollOn' /\ ~oom' => pollFd' # -1
            /\ started' => timer' = "active" \/ ~again'
        BY <3>1, <3>2, <4>1, YieldOpenKeeps, Zenon
      <4> QED
        BY <3>1, <3>2, <4>1, <4>2 DEF Types, Sessions, Fresh, Opened, Closed, RefWithTimer,
           PollMatchesFd, Driven
    <3> QED BY <2>1, <3>3, <3>4, Zenon DEF InitOnce, RealInit
  <2>2. ASSUME NEW sk \in {-1, fd}, NEW t \in {"stopped", "active"}, NEW a \in BOOLEAN,
               started => t = "active" \/ ~a,
               zhandle # 0, YieldOpen(zhandle, sk, t, a),
               inproc' \in {inproc, 0}, UNCHANGED <<zhandle, is_closed, refs, session, inits>>
        PROVE  IInv'
    <3>1. zhandle \in Sessions /\ ~is_closed /\ timer \in {"stopped", "active"} /\ refs = 1
      BY <2>2 DEF Types, Opened, Sessions, RefWithTimer
    <3>2. ~oom /\ fd # -1 => pollFd = fd
      BY <2>2, <3>1, Zenon DEF PollMatchesFd
    <3>3. /\ fd' \in Fd /\ pollFd' \in Fd
          /\ sock' \in [Sessions -> Fd] /\ sock'[zhandle] = fd'
          /\ timer' \in {"stopped", "active"}
          /\ again' \in BOOLEAN /\ pollOn' \in BOOLEAN
          /\ started' \in BOOLEAN /\ oom' \in BOOLEAN
          /\ ~oom' /\ fd' # -1 => pollFd' = fd'
          /\ pollOn' /\ ~oom' => pollFd' # -1
          /\ started' => timer' = "active" \/ ~again'
      BY <2>2, <3>1, <3>2, YieldOpenKeeps, Zenon
    <3> QED
      BY <2>2, <3>1, <3>3 DEF Types, Fresh, Opened, Closed, RefWithTimer, PollMatchesFd, Driven
  <2>3. CASE Close
    BY <2>3, RealCloseKeeps, Zenon DEF Close, history
  <2>4. CASE ZkIoCbEndsNothing
    BY <2>4, RealCloseKeeps, Zenon DEF ZkIoCbEndsNothing, history
  <2>5. CASE MainWatcher
    BY <2>5, RealCloseKeeps, Zenon DEF MainWatcher, history
  <2>6. CASE ZkTimerCb
    <3>1. timer = "active" /\ zhandle # 0 /\ ~is_closed /\ sock[zhandle] = fd
      BY <2>6, Zenon DEF ZkTimerCb, Fresh, Opened, Closed
    <3>2. CASE YieldOpen(zhandle, sock[zhandle], IF again THEN "active" ELSE "stopped", again)
      <4>1. CASE again
        BY <2>2, <2>6, <3>1, <3>2, <4>1, Zenon DEF ZkTimerCb, Types
      <4>2. CASE ~again
        BY <2>2, <2>6, <3>1, <3>2, <4>2, Zenon DEF ZkTimerCb, Types
      <4> QED BY <4>1, <4>2, Zenon
    <3>3. CASE /\ timer' = "active" /\ again' = TRUE
               /\ UNCHANGED <<fd, pollFd, pollOn, sock, started, oom>>
      BY Zenon, <2>6, <3>1, <3>3 DEF ZkTimerCb, Types, Fresh, Opened, Closed, RefWithTimer,
         PollMatchesFd, Driven
    <3> QED BY <2>6, <3>1, <3>2, <3>3, Zenon DEF ZkTimerCb, Yield
  <2>7. CASE ZkIoCbEndsYield
    <3>1. PICK lost \in BOOLEAN :
             Yield(zhandle, IF lost \/ zhandle = 0 THEN -1 ELSE sock[zhandle], timer, again)
      BY <2>7, Zenon DEF ZkIoCbEndsYield
    <3>2. CASE is_closed
      BY <2>7, <3>1, <3>2 DEF ZkIoCbEndsYield, Yield, Types, Fresh, Opened, Closed,
         RefWithTimer, PollMatchesFd, Driven
    <3>3. CASE ~is_closed
      <4>1. zhandle # 0 /\ sock[zhandle] = fd /\ timer \in {"stopped", "active"}
        BY <2>7, <3>3, Zenon DEF ZkIoCbEndsYield, Fresh, Opened
      <4>2. YieldOpen(zhandle, IF lost THEN -1 ELSE fd, timer, again)
        BY <3>1, <3>3, <4>1, Zenon DEF Yield
      <4> QED BY <2>2, <2>7, <3>3, <4>1, <4>2, Zenon DEF ZkIoCbEndsYield, Types, Driven
    <3> QED BY <3>2, <3>3, Zenon
  <2>8. CASE TimerClosed
    BY <2>8 DEF TimerClosed, library, history, Types, Fresh, Opened, Closed, RefWithTimer,
       PollMatchesFd, Driven
  <2>9. CASE ZkIoCb
    BY Zenon, <2>9 DEF ZkIoCb, object, history, Types, Fresh, Opened, Closed, RefWithTimer,
       PollMatchesFd, Driven
  <2>10. CASE ZkIoCbEndsClosed
    <3>1. /\ UNCHANGED <<object, history>> /\ inproc' = 0
          /\ inproc \in Sessions /\ session[inproc] # "open"
          /\ session' = [session EXCEPT ![inproc] = "closed"]
          /\ sock' = [sock EXCEPT ![inproc] = -1]
      BY <2>10 DEF ZkIoCbEndsClosed, DestroySession, Types, Sessions
    <3>2. Types'
      BY <3>1 DEF object, history, Types, Fd
    <3>3. Opened'
      BY <3>1 DEF object, history, Types, Opened, Sessions
    <3> QED
      BY <3>1, <3>2, <3>3, Zenon DEF object, history, Fresh, Closed, RefWithTimer, PollMatchesFd, Driven
  <2>11. ASSUME UNCHANGED <<object, session, sock, inproc, started, oom, inits>> PROVE IInv'
    BY <2>11, Zenon DEF object, Types, Fresh, Opened, Closed, RefWithTimer, PollMatchesFd, Driven
  <2>12. ASSUME NEW o \in Ops, Completion(o) \/ WatcherFn(o) PROVE IInv'
    BY <2>11, <2>12, Zenon DEF Completion, WatcherFn, library, history
  <2>13. ASSUME NEW o \in Ops, NEW m \in Methods, AMethod(o, m) PROVE IInv'
    BY <2>11, <2>13, Zenon DEF AMethod, library, history
  <2>14. CASE DeleteOnClose
    BY <2>11, <2>14, Zenon DEF DeleteOnClose, history
  <2>15. CASE UNCHANGED vars
    BY <2>11, <2>15, Zenon DEF vars, library, history
  <2> QED
    BY <2>1, <2>3, <2>4, <2>5, <2>6, <2>7, <2>8, <2>9, <2>10, <2>12, <2>13, <2>14, <2>15, Zenon
    DEF NextOnce, LoopStep, ClientCall
<1> QED BY <1>1, <1>2, PTL DEF SpecOnce

(* yield never polls through a NULL handle or the handle of another socket, *)
(* in whatever order errors, lost connections and reused numbers come.     *)
THEOREM PollsItsSocket == SpecOnce => []PollMatchesFd
BY Invariance, PTL DEF IInv

(* After realClose, whoever called it and from wherever, the yield that     *)
(* zk_io_cb still makes brings nothing back.                               *)
THEOREM StaysQuiet == SpecOnce => []QuietAfterClose
<1>1. IInv => QuietAfterClose
  BY Zenon DEF IInv, Closed, QuietAfterClose
<1> QED BY <1>1, Invariance, PTL

(* The object outlives every pointer libuv and the C client have to it, and *)
(* timer_closed gives up the last reference.                               *)
THEOREM ReferenceHeld == SpecOnce => []RefHeld
<1>1. IInv => RefHeld
  BY DEF IInv, Types, Fresh, Opened, Closed, RefWithTimer, RefHeld
<1> QED BY <1>1, Invariance, PTL

(* An object that got through its first yield is driven until it is closed. *)
THEOREM StaysDriven == SpecOnce => []Driven
BY Invariance, PTL DEF IInv

-----------------------------------------------------------------------------
(* Two hexadecimal digits stand for one byte: hexToUchar undoes ucharToHex *)
(* for every value of a byte.                                              *)
LEMMA ByteRoundTrip ==
    ASSUME NEW c \in Byte
    PROVE  hexToUchar(ucharToHex(c)) = c
<1>1. c \div 16 \in 0..15 /\ c % 16 \in 0..15 /\ c = 16 * (c \div 16) + (c % 16)
  BY SMT DEF Byte
<1>2. ASSUME NEW d \in 0..15 PROVE hexToFourBits(fourBitsToHex(d)) = d
  BY SMT DEF hexToFourBits, fourBitsToHex
<1>3. /\ hexToFourBits(fourBitsToHex(c \div 16)) = c \div 16
      /\ hexToFourBits(fourBitsToHex(c % 16)) = c % 16
  BY <1>1, <1>2, Zenon
<1>4. hexToUchar(ucharToHex(c)) = (c \div 16) * 16 + (c % 16)
  BY <1>3, Zenon DEF hexToUchar, ucharToHex
<1> QED
  BY <1>1, <1>4, SMT

(* A client that stores client_password and passes it to init continues    *)
(* with the password of its session, whatever bytes it consists of.        *)
THEOREM PasswordRoundTrip ==
    ASSUME NEW p \in [1..ZOOKEEPER_PASSWORD_BYTE_COUNT -> Byte]
    PROVE  HexStringToPassword(PasswordToHexString(p)) = p
<1> DEFINE a == PasswordToHexString(p)
           I == 1..ZOOKEEPER_PASSWORD_BYTE_COUNT
<1>1. ASSUME NEW i \in I
      PROVE  /\ a[2 * i - 1] = ucharToHex(p[i])[1]
             /\ a[2 * i] = ucharToHex(p[i])[2]
  <2>1. /\ 2 * i - 1 \in 1..32 /\ (2 * i - 1 + 1) \div 2 = i /\ (2 * i - 1) % 2 = 1
        /\ 2 * i \in 1..32 /\ (2 * i + 1) \div 2 = i /\ (2 * i) % 2 = 0
    BY SMT DEF ZOOKEEPER_PASSWORD_BYTE_COUNT
  <2> QED
    BY <2>1 DEF PasswordToHexString, ZOOKEEPER_PASSWORD_BYTE_COUNT
<1>2. ASSUME NEW i \in I PROVE HexStringToPassword(a)[i] = p[i]
  <2>1. HexStringToPassword(a)[i] = hexToUchar(<<a[2 * i - 1], a[2 * i]>>)
    BY Zenon DEF HexStringToPassword
  <2>2. <<a[2 * i - 1], a[2 * i]>> = ucharToHex(p[i])
    BY <1>1, Zenon DEF ucharToHex
  <2>3. p[i] \in Byte
    OBVIOUS
  <2> QED
    BY <2>1, <2>2, <2>3, ByteRoundTrip, Zenon
<1> QED
  BY <1>2, Zenon DEF HexStringToPassword
=============================================================================
