---------------------------- MODULE LoginProofs ----------------------------
(***************************************************************************)
(* Proofs about Login, for every configuration file and every header.      *)
(***************************************************************************)
EXTENDS StartupProofs

-----------------------------------------------------------------------------
(* What base64_decode does with the bits of val.                           *)

(* What a division by Word leaves differs by a multiple of 16384.          *)
LEMMA Overflow ==
    ASSUME NEW y \in Nat
    PROVE  /\ y % Word \in Nat
           /\ \E d \in Int : y = 16384 * d + (y % Word)
<1> DEFINE w == Word \div 16384
           c == y \div Word
           x == y % Word
<1>1. w \in Nat /\ Word = 16384 * w
  BY WordAssumption
<1>2. c \in Int /\ x \in Nat /\ y = Word * c + x
  BY WordAssumption
<1> HIDE DEF w, c, x
<1>3. w * c \in Int /\ (16384 * w) * c = 16384 * (w * c)
  BY <1>1, <1>2
<1>4. y = 16384 * (w * c) + x
  BY <1>1, <1>2, <1>3
<1> QED
  BY <1>2, <1>3, <1>4 DEF x

(* The lowest bits of x are those of v with six more, s, behind them.      *)
LowBits(v, s, x) ==
    /\ x % 64 = s
    /\ x % 16 = s % 16
    /\ x % 4 = s % 4
    /\ (x \div 16) % 256 = (v % 64) * 4 + s \div 16
    /\ (x \div 4) % 256 = (v % 16) * 16 + s \div 4
    /\ (x \div 1) % 256 = (v % 4) * 64 + s

(* So it is with val: an int that overflows loses multiples of 16384.      *)
LEMMA Shifted ==
    ASSUME NEW v \in Nat, NEW s \in 0 .. 63
    PROVE  /\ (v * 64 + s) % Word \in Nat
           /\ LowBits(v, s, (v * 64 + s) % Word)
<1> DEFINE x == (v * 64 + s) % Word
<1>1. v * 64 + s \in Nat
  OBVIOUS
<1>2. x \in Nat /\ \E d \in Int : v * 64 + s = 16384 * d + x
  BY <1>1, Overflow
<1> HIDE DEF x
<1>3. PICK d \in Int : v * 64 + s = 16384 * d + x
  BY <1>2
<1>4. x % 64 = s
  BY <1>2, <1>3
<1>5. x % 16 = s % 16 /\ x % 4 = s % 4
  BY <1>2, <1>4
<1>6. (x \div 16) % 256 = (v % 64) * 4 + s \div 16
  BY <1>2, <1>3
<1>7. (x \div 4) % 256 = (v % 16) * 16 + s \div 4
  BY <1>2, <1>3
<1>8. (x \div 1) % 256 = (v % 4) * 64 + s
  <2>1. x % 256 = (v % 4) * 64 + s
    BY <1>2, <1>3
  <2>2. x \div 1 = x
    BY <1>2
  <2> QED
    BY <2>1, <2>2
<1>9. LowBits(v, s, x)
  BY <1>4, <1>5, <1>6, <1>7, <1>8 DEF LowBits
<1> QED
  BY <1>2, <1>9 DEF x

LEMMA SextetRange == \A c \in 0 .. 255 : T(c) \in -1 .. 63
BY DEF T

-----------------------------------------------------------------------------
(* The invariant of the loop: valb says how many of the bits of the last   *)
(* character are not written yet, and they are the lowest of val.          *)

Pending ==
    LET n == at - 1
    IN  /\ n % 4 = 0 => valb = -8
        /\ n % 4 = 1 => valb = -2 /\ val % 64 = T(encoded[n])
        /\ n % 4 = 2 => valb = -4 /\ val % 16 = T(encoded[n]) % 16
        /\ n % 4 = 3 => valb = -6 /\ val % 4 = T(encoded[n]) % 4

DecodeInv ==
    /\ encoded \in Seq(0 .. 255)
    /\ at \in Nat \ {0}
    /\ at - 1 <= Len(encoded)
    /\ val \in Nat
    /\ \A i \in 1 .. at - 1 : T(encoded[i]) \in 0 .. 63
    /\ Pending
    /\ DecodesRFC

(* The bytes of a group, each from two characters.                         *)
LEMMA ByteOf ==
    ASSUME NEW t, NEW n \in Nat
    PROVE  /\ n % 4 = 1 => RFCByte(t, (6 * (n + 1)) \div 8)
                             = T(t[n]) * 4 + T(t[n + 1]) \div 16
           /\ n % 4 = 2 => RFCByte(t, (6 * (n + 1)) \div 8)
                             = (T(t[n]) % 16) * 16 + T(t[n + 1]) \div 4
           /\ n % 4 = 3 => RFCByte(t, (6 * (n + 1)) \div 8)
                             = (T(t[n]) % 4) * 64 + T(t[n + 1])
<1> DEFINE j == (6 * (n + 1)) \div 8
           k == 4 * ((j - 1) \div 3) + ((j - 1) % 3) + 1
<1>1. /\ n % 4 = 1 => j % 3 = 1 /\ k = n
      /\ n % 4 = 2 => j % 3 = 2 /\ k = n
      /\ n % 4 = 3 => j % 3 = 0 /\ k = n
  OBVIOUS
<1>2. RFCByte(t, j) =
        CASE j % 3 = 1 -> T(t[k]) * 4 + T(t[k + 1]) \div 16
          [] j % 3 = 2 -> (T(t[k]) % 16) * 16 + T(t[k + 1]) \div 4
          [] j % 3 = 0 -> (T(t[k]) % 4) * 64 + T(t[k + 1])
  BY Zenon DEF RFCByte, Sextet
<1> HIDE DEF j, k
<1>3. ASSUME n % 4 = 1
      PROVE  RFCByte(t, j) = T(t[n]) * 4 + T(t[n + 1]) \div 16
  BY <1>1, <1>2, <1>3
<1>4. ASSUME n % 4 = 2
      PROVE  RFCByte(t, j) = (T(t[n]) % 16) * 16 + T(t[n + 1]) \div 4
  BY <1>1, <1>2, <1>4
<1>5. ASSUME n % 4 = 3
      PROVE  RFCByte(t, j) = (T(t[n]) % 4) * 64 + T(t[n + 1])
  BY <1>1, <1>2, <1>5
<1> QED
  BY <1>3, <1>4, <1>5 DEF j

(* One byte more.                                                          *)
LEMMA Longer ==
    ASSUME NEW t, NEW m \in Nat, NEW b, b = RFCByte(t, m + 1)
    PROVE  Append([j \in 1 .. m |-> RFCByte(t, j)], b)
             = [j \in 1 .. m + 1 |-> RFCByte(t, j)]
OBVIOUS

LEMMA DecodeStep == DecodeInv /\ DecodeChar => DecodeInv'
<1> SUFFICES ASSUME DecodeInv, DecodeChar PROVE DecodeInv'
  OBVIOUS
<1> DEFINE n == at - 1
           s == T(encoded[at])
           t == encoded
<1>1. /\ at \in Nat /\ at >= 1 /\ at <= Len(t) /\ s # -1
      /\ val' = (val * 64 + s) % Word /\ at' = at + 1 /\ encoded' = t
  BY DEF DecodeInv, DecodeChar, Decoded
<1>2. t \in Seq(0 .. 255) /\ Len(t) \in Nat /\ val \in Nat
  BY LenProperties DEF DecodeInv
<1>3. s \in 0 .. 63
  <2>1. at \in 1 .. Len(t)
    BY <1>1, <1>2
  <2>2. t[at] \in 0 .. 255
    BY <1>2, <2>1, ElementOfSeq
  <2>3. s \in -1 .. 63
    BY <2>2, SextetRange
  <2> HIDE DEF s
  <2> QED
    BY <1>1, <2>3
<1>4. val' \in Nat /\ LowBits(val, s, val')
  <2> HIDE DEF s
  <2>1. val \in Nat /\ s \in 0 .. 63 /\ val' = (val * 64 + s) % Word
    BY <1>1, <1>2, <1>3
  <2> QED
    BY <2>1, Shifted
<1>5. /\ n \in Nat /\ at = n + 1 /\ n + 1 \in Nat /\ n <= Len(t)
      /\ at' - 1 = n + 1 /\ n % 4 \in 0 .. 3
  BY <1>1, <1>2
<1>6. /\ valb + 6 >= 0 => /\ out' = Append(out, (val' \div 2^(valb + 6)) % 256)
                          /\ valb' = valb + 6 - 8
      /\ ~ (valb + 6 >= 0) => valb' = valb + 6 /\ out' = out
  BY DEF DecodeChar
<1>7. \A i \in 1 .. n : T(t[i]) \in 0 .. 63
  BY DEF DecodeInv
<1>8. out = [j \in 1 .. (6 * n) \div 8 |-> RFCByte(t, j)]
  BY DEF DecodeInv, DecodesRFC
<1>9. /\ n % 4 = 0 => valb = -8
      /\ n % 4 = 1 => valb = -2 /\ val % 64 = T(t[n])
      /\ n % 4 = 2 => valb = -4 /\ val % 16 = T(t[n]) % 16
      /\ n % 4 = 3 => valb = -6 /\ val % 4 = T(t[n]) % 4
  BY DEF DecodeInv, Pending
<1>10. s = T(t[n + 1])
  BY <1>5
<1>11. \A i \in 1 .. n + 1 : T(t[i]) \in 0 .. 63
  <2> SUFFICES ASSUME NEW i \in 1 .. n + 1 PROVE T(t[i]) \in 0 .. 63
    OBVIOUS
  <2>1. i \in 1 .. n \/ i = n + 1
    BY <1>5
  <2> HIDE DEF s, n
  <2> QED
    BY <1>3, <1>7, <1>10, <2>1
<1> DEFINE next == [j \in 1 .. (6 * (n + 1)) \div 8 |-> RFCByte(t, j)]
           Goal == /\ out' = next
                   /\ (n + 1) % 4 = 0 => valb' = -8
                   /\ (n + 1) % 4 = 1 => valb' = -2 /\ val' % 64 = s
                   /\ (n + 1) % 4 = 2 => valb' = -4 /\ val' % 16 = s % 16
                   /\ (n + 1) % 4 = 3 => valb' = -6 /\ val' % 4 = s % 4
<1> HIDE DEF n, s
<1>12. ASSUME NEW b, b = RFCByte(t, (6 * (n + 1)) \div 8), n % 4 # 0
       PROVE  Append(out, b) = next
  <2> DEFINE m == (6 * n) \div 8
  <2>1. m \in Nat /\ (6 * (n + 1)) \div 8 = m + 1
    BY <1>5, <1>12
  <2> HIDE DEF m
  <2>2. b = RFCByte(t, m + 1)
    BY <1>12, <2>1
  <2>3. Append([j \in 1 .. m |-> RFCByte(t, j)], b)
          = [j \in 1 .. m + 1 |-> RFCByte(t, j)]
    BY <2>1, <2>2, Longer
  <2> QED
    BY <1>8, <2>1, <2>3, Zenon DEF m
<1>13. ASSUME n % 4 = 0 PROVE Goal
  <2>1. (6 * (n + 1)) \div 8 = (6 * n) \div 8 /\ (n + 1) % 4 = 1
    BY <1>5, <1>13
  <2>2. valb' = -2 /\ out' = out
    BY <1>6, <1>9, <1>13
  <2>3. out' = next
    BY <1>8, <2>1, <2>2, Zenon
  <2> HIDE DEF next
  <2> QED
    BY <1>4, <2>1, <2>2, <2>3 DEF LowBits
<1>14. ASSUME n % 4 = 1 PROVE Goal
  <2>1. (n + 1) % 4 = 2
    BY <1>5, <1>14
  <2>2. valb' = -4 /\ out' = Append(out, (val' \div 16) % 256)
    <3>1. valb = -2 /\ valb + 6 = 4 /\ 2^4 = 16
      BY <1>9, <1>14
    <3> QED
      BY <1>6, <3>1
  <2>3. (val' \div 16) % 256 = RFCByte(t, (6 * (n + 1)) \div 8)
    <3>1. RFCByte(t, (6 * (n + 1)) \div 8)
            = T(t[n]) * 4 + T(t[n + 1]) \div 16
      BY <1>5, <1>14, ByteOf, Zenon
    <3>2. (val' \div 16) % 256 = T(t[n]) * 4 + T(t[n + 1]) \div 16
      BY <1>4, <1>9, <1>10, <1>14, Zenon DEF LowBits
    <3> QED
      BY <3>1, <3>2, Zenon
  <2>4. out' = next
    <3>1. n % 4 # 0
      BY <1>14
    <3> QED
      BY <1>12, <2>2, <2>3, <3>1, Zenon
  <2> HIDE DEF next
  <2>5. val' % 16 = s % 16 /\ val' % 4 = s % 4
    BY <1>4 DEF LowBits
  <2> QED
    BY <2>1, <2>2, <2>4, <2>5
<1>15. ASSUME n % 4 = 2 PROVE Goal
  <2>1. (n + 1) % 4 = 3
    BY <1>5, <1>15
  <2>2. valb' = -6 /\ out' = Append(out, (val' \div 4) % 256)
    <3>1. valb = -4 /\ valb + 6 = 2 /\ 2^2 = 4
      BY <1>9, <1>15
    <3> QED
      BY <1>6, <3>1
  <2>3. (val' \div 4) % 256 = RFCByte(t, (6 * (n + 1)) \div 8)
    <3>1. RFCByte(t, (6 * (n + 1)) \div 8)
            = (T(t[n]) % 16) * 16 + T(t[n + 1]) \div 4
      BY <1>5, <1>15, ByteOf, Zenon
    <3>2. (val' \div 4) % 256 = (T(t[n]) % 16) * 16 + T(t[n + 1]) \div 4
      BY <1>4, <1>9, <1>10, <1>15, Zenon DEF LowBits
    <3> QED
      BY <3>1, <3>2, Zenon
  <2>4. out' = next
    <3>1. n % 4 # 0
      BY <1>15
    <3> QED
      BY <1>12, <2>2, <2>3, <3>1, Zenon
  <2> HIDE DEF next
  <2>5. val' % 16 = s % 16 /\ val' % 4 = s % 4
    BY <1>4 DEF LowBits
  <2> QED
    BY <2>1, <2>2, <2>4, <2>5
<1>16. ASSUME n % 4 = 3 PROVE Goal
  <2>1. (n + 1) % 4 = 0
    BY <1>5, <1>16
  <2>2. valb' = -8 /\ out' = Append(out, (val' \div 1) % 256)
    <3>1. valb = -6 /\ valb + 6 = 0 /\ 2^0 = 1
      BY <1>9, <1>16
    <3> QED
      BY <1>6, <3>1
  <2>3. (val' \div 1) % 256 = RFCByte(t, (6 * (n + 1)) \div 8)
    <3>1. RFCByte(t, (6 * (n + 1)) \div 8)
            = (T(t[n]) % 4) * 64 + T(t[n + 1])
      BY <1>5, <1>16, ByteOf, Zenon
    <3>2. (val' \div 1) % 256 = (T(t[n]) % 4) * 64 + T(t[n + 1])
      BY <1>4, <1>9, <1>10, <1>16, Zenon DEF LowBits
    <3> QED
      BY <3>1, <3>2, Zenon
  <2>4. out' = next
    <3>1. n % 4 # 0
      BY <1>16
    <3> QED
      BY <1>12, <2>2, <2>3, <3>1, Zenon
  <2> HIDE DEF next
  <2>5. val' % 16 = s % 16 /\ val' % 4 = s % 4
    BY <1>4 DEF LowBits
  <2> QED
    BY <2>1, <2>2, <2>4, <2>5
<1>17. Goal
  <2>1. n % 4 = 0 \/ n % 4 = 1 \/ n % 4 = 2 \/ n % 4 = 3
    BY <1>5
  <2> HIDE DEF Goal
  <2> QED
    BY <1>13, <1>14, <1>15, <1>16, <2>1
<1>18. Pending'
  BY <1>1, <1>5, <1>10, <1>17 DEF Pending, T
<1>19. DecodesRFC'
  BY <1>1, <1>5, <1>17 DEF DecodesRFC
<1>20. at' \in Nat \ {0} /\ at' - 1 <= Len(t)
  BY <1>1, <1>2
<1> QED
  BY <1>1, <1>2, <1>4, <1>5, <1>11, <1>18, <1>19, <1>20 DEF DecodeInv

LEMMA DecodeStarted ==
    ASSUME NEW text \in Seq(0 .. 255), DecodeStart(text)
    PROVE  DecodeInv'
<1>1. encoded' = text /\ at' = 1 /\ val' = 0 /\ valb' = -8 /\ out' = << >>
  BY DEF DecodeStart
<1>2. Len(text) \in Nat
  BY LenProperties
<1>3. Pending'
  BY <1>1 DEF Pending
<1>4. DecodesRFC'
  BY <1>1 DEF DecodesRFC
<1> QED
  BY <1>1, <1>2, <1>3, <1>4 DEF DecodeInv

LEMMA DecodeStays == DecodeInv /\ UNCHANGED decodeVars => DecodeInv'
<1> SUFFICES ASSUME DecodeInv, UNCHANGED decodeVars PROVE DecodeInv'
  OBVIOUS
<1>1. UNCHANGED <<encoded, at, val, valb, out>>
  BY DEF decodeVars
<1>2. Pending'
  BY <1>1 DEF DecodeInv, Pending, T
<1>3. DecodesRFC'
  BY <1>1 DEF DecodeInv, DecodesRFC
<1> QED
  BY <1>1, <1>2, <1>3 DEF DecodeInv, T

LEMMA DecodeInvStep == DecodeInv /\ [Next]_allVars => DecodeInv'
<1> SUFFICES ASSUME DecodeInv, [Next]_allVars PROVE DecodeInv'
  OBVIOUS
<1>1. ASSUME NEW h \in Headers, authenticate(h)
      PROVE  DecodeInv'
  <2>1. CASE h.basic
    <3>1. h.text \in Seq(0 .. 255)
      BY HeadersAssumption
    <3> QED
      BY <1>1, <2>1, <3>1, DecodeStarted DEF authenticate
  <2>2. CASE ~h.basic
    BY <1>1, <2>2, DecodeStays DEF authenticate
  <2> QED
    BY <2>1, <2>2
<1>2. CASE base64_decode
  BY <1>2, DecodeStep DEF base64_decode
<1>3. CASE UNCHANGED decodeVars
  BY <1>3, DecodeStays
<1> QED
  BY <1>1, <1>2, <1>3 DEF Next, Decide, loginVars, allVars

(* The decoder's invariant holds throughout.                               *)
THEOREM DecodeInvHolds == Spec => []DecodeInv
<1>1. Init => DecodeInv
  <2> SUFFICES ASSUME Init PROVE DecodeInv
    OBVIOUS
  <2>1. encoded = << >> /\ at = 1 /\ val = 0 /\ valb = -8 /\ out = << >>
    BY DEF Init
  <2>2. encoded \in Seq(0 .. 255) /\ Len(encoded) = 0
    BY <2>1, EmptySeq
  <2>3. Pending /\ DecodesRFC
    BY <2>1 DEF Pending, DecodesRFC
  <2> QED
    BY <2>1, <2>2, <2>3 DEF DecodeInv
<1> QED
  BY <1>1, DecodeInvStep, PTL DEF Spec

(* Whatever overflows out of val, and whatever the length: after each      *)
(* character out holds the whole bytes of what was read, and they are the  *)
(* bytes of RFC 4648 (DecodesRFC).                                         *)
THEOREM Decoding == Spec => []DecodesRFC
<1>1. DecodeInv => DecodesRFC
  BY DEF DecodeInv
<1> QED
  BY <1>1, DecodeInvHolds, PTL

-----------------------------------------------------------------------------
(* The texts user:password.                                                *)

LEMMA TextType ==
    ASSUME NEW w \in Words
    PROVE  Text(w) \in Seq(0 .. 255)
<1> DEFINE ss == [i \in DOMAIN w |-> Bytes[w[i]]]
<1>1. DOMAIN w = 1 .. Len(w) /\ Len(w) \in Nat
  BY LenProperties DEF Words
<1>2. ASSUME NEW i \in 1 .. Len(w)
      PROVE  Bytes[w[i]] \in Seq(0 .. 255)
  <2>1. w[i] \in DOMAIN Bytes
    BY ElementOfSeq DEF Words, Symbols
  <2> QED
    BY <2>1, SymbolsAssumption
<1>3. ss \in Seq(Seq(0 .. 255))
  <2>1. ss = [i \in 1 .. Len(w) |-> Bytes[w[i]]]
    BY <1>1
  <2> QED
    BY <1>1, <1>2, <2>1, IsASeq
<1> HIDE DEF ss
<1>4. FlattenSeq(ss) \in Seq(0 .. 255)
  BY <1>3, FlattenType
<1> QED
  BY <1>4 DEF Text, ss

(* The first ":" cuts a text in two.                                       *)
LEMMA Cut ==
    ASSUME NEW t \in Seq(0 .. 255), Delimiter(t) # {}
    PROVE  \E d \in 1 .. Len(t) :
              /\ t[d] = Colon
              /\ Len(User(t)) = d - 1
              /\ Len(Password(t)) = Len(t) - d
              /\ \A i \in 1 .. d - 1 : User(t)[i] = t[i]
              /\ \A i \in d + 1 .. Len(t) : Password(t)[i - d] = t[i]
<1> DEFINE d == Min(Delimiter(t))
           n == Len(t)
<1>1. DOMAIN t = 1 .. n /\ n \in Nat
  BY LenProperties
<1>2. d \in 1 .. n /\ t[d] = Colon
  <2>1. Delimiter(t) \subseteq 1 .. n
    BY <1>1 DEF Delimiter
  <2>2. Min(Delimiter(t)) \in Delimiter(t)
    BY <1>1, <2>1, MinLeast
  <2> QED
    BY <2>1, <2>2 DEF Delimiter
<1>3. User(t) = SubSeq(t, 1, d - 1) /\ Password(t) = SubSeq(t, d + 1, n)
  BY DEF User, Password
<1> HIDE DEF d, n
<1>4. /\ Len(SubSeq(t, 1, d - 1)) = d - 1
      /\ \A i \in 1 .. d - 1 : SubSeq(t, 1, d - 1)[i] = t[i]
  <2>1. 1 .. d - 1 \subseteq 1 .. n /\ 1 <= d
    BY <1>1, <1>2
  <2> QED
    BY <1>1, <1>2, <2>1, SubSeqProperties DEF n
<1>5. /\ Len(SubSeq(t, d + 1, n)) = n - d
      /\ \A i \in d + 1 .. n : SubSeq(t, d + 1, n)[i - d] = t[i]
  BY <1>1, <1>2, SubSeqProperties DEF n
<1> QED
  BY <1>2, <1>3, <1>4, <1>5 DEF n

(* The two parts say what the text was.                                    *)
LEMMA Whole ==
    ASSUME NEW t \in Seq(0 .. 255), Delimiter(t) # {},
           NEW u \in Seq(0 .. 255), Delimiter(u) # {},
           User(t) = User(u), Password(t) = Password(u)
    PROVE  t = u
<1>1. PICK d \in 1 .. Len(t) :
              /\ t[d] = Colon
              /\ Len(User(t)) = d - 1
              /\ Len(Password(t)) = Len(t) - d
              /\ \A i \in 1 .. d - 1 : User(t)[i] = t[i]
              /\ \A i \in d + 1 .. Len(t) : Password(t)[i - d] = t[i]
  BY Cut
<1>2. PICK e \in 1 .. Len(u) :
              /\ u[e] = Colon
              /\ Len(User(u)) = e - 1
              /\ Len(Password(u)) = Len(u) - e
              /\ \A i \in 1 .. e - 1 : User(u)[i] = u[i]
              /\ \A i \in e + 1 .. Len(u) : Password(u)[i - e] = u[i]
  BY Cut
<1>3. Len(t) \in Nat /\ Len(u) \in Nat
  BY LenProperties
<1>4. d = e /\ Len(t) = Len(u)
  <2>1. d - 1 = e - 1 /\ Len(t) - d = Len(u) - e
    BY <1>1, <1>2
  <2> QED
    BY <1>3, <2>1
<1>5. ASSUME NEW i \in 1 .. Len(t)
      PROVE  t[i] = u[i]
  <2>1. i \in 1 .. d - 1 \/ i = d \/ i \in d + 1 .. Len(t)
    BY <1>3
  <2> QED
    BY <1>1, <1>2, <1>4, <2>1
<1> QED
  BY <1>3, <1>4, <1>5, SeqEqual

-----------------------------------------------------------------------------
(* The door.                                                               *)

(* The block the credentials come from.                                    *)
Source == CredentialsStatement.child

CredentialsRead ==
    phase \in {"listen", "running"} =>
        IF CredentialsStatement = NoStatement THEN credentials = NoEntries
        ELSE /\ Source \in 1 .. Len(blocks)
             /\ credentials = Entries(Source)

(* A verdict is about the header it was asked for.                         *)
VerdictInv ==
    /\ verdict # "none" => phase = "running"
    /\ verdict \in {"decoding", "let in"} => encoded = header.text
    /\ verdict = "let in" => Authentic
    /\ verdict = "refused" /\ header.basic
          => encoded = header.text /\ Decoded /\ ~Authentic

LoginInv == CredentialsRead /\ VerdictInv

LEMMA CredentialsReadStep ==
    TreeInv /\ CredentialsRead /\ [Next]_allVars => CredentialsRead'
<1> SUFFICES ASSUME TreeInv, CredentialsRead, [Next]_allVars,
                    phase' \in {"listen", "running"}
             PROVE  CredentialsRead'
  BY DEF CredentialsRead
<1>1. CASE phase \in {"listen", "running"}
  <2>1. UNCHANGED <<blocks, credentials>>
    BY <1>1 DEF Next, Start, CheckArguments, ParseConfig, CheckPort,
                CheckTime, ReadCredentials, BuildServer, Exit, Crash,
                authenticate, base64_decode, Decide, allVars, parseVars,
                treeVars, mainVars
  <2>2. UNCHANGED <<CredentialsStatement, Source, Entries(Source)>>
    BY <2>1 DEF CredentialsStatement, Source, Entries, Named, Text, Delimiter,
                User, Password
  <2> QED
    BY <1>1, <2>1, <2>2 DEF CredentialsRead
<1>2. CASE phase \notin {"listen", "running"}
  <2>1. ReadCredentials /\ UNCHANGED blocks
    BY <1>2 DEF Next, Start, CheckArguments, ParseConfig, CheckPort,
                CheckTime, ReadCredentials, BuildServer, Exit, Crash,
                authenticate, base64_decode, Decide, allVars, parseVars,
                treeVars, mainVars
  <2>2. IF CredentialsStatement = NoStatement THEN credentials' = NoEntries
        ELSE Source # NoChild /\ credentials' = Entries(Source)
    BY <2>1 DEF ReadCredentials, Crash, Source
  <2>3. CredentialsStatement # NoStatement => Source \in 1 .. Len(blocks)
    <3> SUFFICES ASSUME CredentialsStatement # NoStatement
                 PROVE  Source \in 1 .. Len(blocks)
      OBVIOUS
    <3>1. PICK b \in 1 .. Len(blocks) : ChildOK(CredentialsStatement, b,
                                                Len(blocks))
      BY CredentialsFound DEF TreeInv
    <3>2. Source \in b + 1 .. Len(blocks)
      BY <2>2, <3>1 DEF ChildOK, Source
    <3> QED
      BY <3>2
  <2>4. UNCHANGED <<CredentialsStatement, Source, Entries(Source)>>
    BY <2>1 DEF CredentialsStatement, Source, Entries, Named, Text, Delimiter,
                User, Password
  <2> QED
    BY <2>1, <2>2, <2>3, <2>4 DEF CredentialsRead
<1> QED
  BY <1>1, <1>2

LEMMA VerdictStep == VerdictInv /\ [Next]_allVars => VerdictInv'
<1> SUFFICES ASSUME VerdictInv, [Next]_allVars PROVE VerdictInv'
  OBVIOUS
<1>1. CASE UNCHANGED <<phase, credentials, loginVars>>
  <2>1. UNCHANGED <<phase, credentials, header, encoded, at, val, valb, out,
                    verdict>>
    BY <1>1 DEF loginVars, decodeVars
  <2>2. UNCHANGED Authentic /\ UNCHANGED Decoded
    BY <2>1 DEF Authentic, Decoded, Delimiter, User, Password, T
  <2> QED
    BY <2>1, <2>2 DEF VerdictInv
<1>2. CASE Start /\ UNCHANGED loginVars
  <2>1. CASE verdict = "none"
    BY <1>2, <2>1 DEF loginVars, VerdictInv
  <2>2. CASE verdict # "none"
    <3>1. phase = "running"
      BY <2>2 DEF VerdictInv
    <3> QED
      BY <1>2, <3>1 DEF Start, CheckArguments, ParseConfig, CheckPort,
                        CheckTime, ReadCredentials, BuildServer
  <2> QED
    BY <2>1, <2>2
<1>3. ASSUME NEW h \in Headers, authenticate(h)
      PROVE  VerdictInv'
  BY <1>3 DEF authenticate, DecodeStart, mainVars, VerdictInv
<1>4. CASE base64_decode
  BY <1>4 DEF base64_decode, DecodeChar, mainVars, VerdictInv
<1>5. CASE Decide
  <2>1. /\ verdict = "decoding" /\ Decoded
        /\ verdict' = IF Authentic THEN "let in" ELSE "refused"
        /\ UNCHANGED <<phase, credentials, header, encoded, at, out>>
    BY <1>5 DEF Decide, mainVars, decodeVars
  <2>2. UNCHANGED Authentic /\ UNCHANGED Decoded
    BY <2>1 DEF Authentic, Decoded, Delimiter, User, Password, T
  <2> QED
    BY <2>1, <2>2 DEF VerdictInv
<1> QED
  BY <1>1, <1>2, <1>3, <1>4, <1>5 DEF Next, allVars, mainVars

(* The credentials are those of the tree, and a verdict is about them, in  *)
(* every state of the program.                                             *)
THEOREM LoginInvHolds == Spec => [](TreeInv /\ DecodeInv /\ LoginInv)
<1>1. Init => LoginInv
  BY DEF Init, StartInit, LoginInv, CredentialsRead, VerdictInv
<1>2. TreeInv /\ LoginInv /\ [Next]_allVars => LoginInv'
  BY CredentialsReadStep, VerdictStep DEF LoginInv
<1> QED
  BY <1>1, <1>2, TreeInvHolds, DecodeInvHolds, PTL DEF Spec

(* The texts of the block with the credentials, and where they are.        *)
Entry(i) == Text(blocks[Source][i].tokens[1])
Entered  == {i \in DOMAIN blocks[Source] :
                /\ Len(blocks[Source][i].tokens) = 1
                /\ Delimiter(Entry(i)) # {}}

LEMMA EntryType ==
    ASSUME TreeInv, Source \in 1 .. Len(blocks)
    PROVE  /\ DOMAIN blocks[Source] = 1 .. Len(blocks[Source])
           /\ Len(blocks[Source]) \in Nat
           /\ \A i \in DOMAIN blocks[Source] : Entry(i) \in Seq(0 .. 255)
<1>1. /\ DOMAIN blocks[Source] = 1 .. Len(blocks[Source])
      /\ blocks[Source] \in Seq(Statement)
      /\ \A i \in DOMAIN blocks[Source] : blocks[Source][i] \in Statement
  BY StatementAt DEF TreeInv
<1>2. ASSUME NEW i \in DOMAIN blocks[Source]
      PROVE  Entry(i) \in Seq(0 .. 255)
  <2> DEFINE w == blocks[Source][i].tokens
  <2>1. w \in Seq(Words) /\ w # << >>
    BY <1>1 DEF Statement
  <2>2. 1 \in 1 .. Len(w)
    BY <2>1, EmptySeq
  <2>3. w[1] \in Words
    BY <2>1, <2>2, ElementOfSeq
  <2> QED
    BY <2>3, TextType DEF Entry
<1> QED
  BY <1>1, <1>2, LenProperties

(* What Entries and Accounts make of them: the last text of every user.    *)
LEMMA EntriesOf ==
    ASSUME TreeInv, Source \in 1 .. Len(blocks)
    PROVE  /\ DOMAIN Entries(Source) = {User(Entry(i)) : i \in Entered}
           /\ \A u \in DOMAIN Entries(Source) :
                 \E m \in Entered :
                    /\ User(Entry(m)) = u
                    /\ Entries(Source)[u] = Password(Entry(m))
                    /\ \A k \in Entered : k > m => User(Entry(k)) # u
<1> DEFINE entry == [i \in DOMAIN blocks[Source] |->
                        Text(blocks[Source][i].tokens[1])]
           is == {i \in DOMAIN blocks[Source] :
                     /\ Len(blocks[Source][i].tokens) = 1
                     /\ Delimiter(entry[i]) # {}}
           Of(u) == {i \in is : User(entry[i]) = u}
<1>1. Entries(Source) = [u \in {User(entry[i]) : i \in is} |->
                            Password(entry[Max(Of(u))])]
  BY DEF Entries
<1>2. \A i \in DOMAIN blocks[Source] : entry[i] = Entry(i)
  BY DEF Entry
<1> HIDE DEF entry
<1>3. is = Entered
  BY <1>2 DEF Entered
<1>4. \A i \in is : i \in DOMAIN blocks[Source]
  OBVIOUS
<1> HIDE DEF is
<1>5. DOMAIN Entries(Source) = {User(Entry(i)) : i \in Entered}
  BY <1>1, <1>2, <1>3, <1>4
<1>6. ASSUME NEW u \in DOMAIN Entries(Source)
      PROVE  \E m \in Entered : /\ User(Entry(m)) = u
                                /\ Entries(Source)[u] = Password(Entry(m))
                                /\ \A k \in Entered :
                                      k > m => User(Entry(k)) # u
  <2> DEFINE n == Len(blocks[Source])
             m == Max(Of(u))
  <2>1. n \in Nat /\ Of(u) \subseteq 0 .. n
    BY <1>4, EntryType
  <2>2. Of(u) # {}
    BY <1>1
  <2>3. m \in Of(u) /\ \A k \in Of(u) : k <= m
    BY <2>1, <2>2, MaxGreatest
  <2>4. Entries(Source)[u] = Password(entry[m])
    BY <1>1
  <2> HIDE DEF m, n
  <2>5. m \in Entered /\ entry[m] = Entry(m) /\ User(Entry(m)) = u
    BY <1>2, <1>3, <1>4, <2>3
  <2>6. ASSUME NEW k \in Entered, k > m, User(Entry(k)) = u
        PROVE  FALSE
    <3>1. k \in Of(u) /\ m \in Of(u)
      BY <1>2, <1>3, <1>4, <2>3, <2>6
    <3>2. k \in 0 .. n /\ m \in 0 .. n /\ k <= m
      BY <2>1, <2>3, <3>1
    <3> QED
      BY <2>1, <2>6, <3>2
  <2> QED
    BY <2>4, <2>5, <2>6
<1> QED
  BY <1>5, <1>6

(* The blocks get_credentials goes through are headed by no credentials    *)
(* statement, and each lies in the one before it.                          *)
LEMMA GoneThrough ==
    ASSUME TreeInv, NEW c \in 1 .. Len(blocks),
           \A b \in 1 .. c - 1 : GoesOn(b)
    PROVE  \A d \in 2 .. c : Parent(d) = d - 1 /\ ~Heads(d, "credentials")
<1> SUFFICES ASSUME NEW d \in 2 .. c
             PROVE  Parent(d) = d - 1 /\ ~Heads(d, "credentials")
  OBVIOUS
<1> DEFINE b == d - 1
           m == Min(Stops(b))
<1>1. /\ b \in 1 .. c - 1 /\ b \in 1 .. Len(blocks) /\ b + 1 = d
      /\ d \in 2 .. Len(blocks)
  BY LenProperties DEF TreeInv, ParserType
<1>2. GoesOn(b) /\ Stops(b) # {}
  BY <1>1 DEF GoesOn
<1> HIDE DEF b
<1>3. Link(b, m, d)
  BY <1>1, <1>2, StopsAt
<1>4. Parent(d) = b
  BY <1>1, <1>3, ParentOf
<1>5. ASSUME NEW i \in DOMAIN blocks[b], blocks[b][i].child = d
      PROVE  ~Named(blocks[b][i], "credentials")
  <2>1. Link(b, i, d)
    BY <1>1, <1>5, StatementAt DEF Link, NoChild, TreeInv
  <2>2. i = m
    BY <1>3, <2>1 DEF TreeInv, InOrder, Ordered, OneLink
  <2> QED
    BY <1>2, <2>2 DEF GoesOn, Stop
<1> QED
  BY <1>4, <1>5 DEF Heads, b

LEMMA FirstRead ==
    ASSUME TreeInv, CredentialsRead
    PROVE  CredentialsComeFirst
<1> SUFFICES ASSUME phase \in {"listen", "running"}
             PROVE  CredentialsComeFirst
  BY DEF CredentialsComeFirst
<1> DEFINE n == Len(blocks)
           leads == {b \in DOMAIN blocks : /\ Heads(b, "credentials")
                                           /\ 1 .. b - 1 = Around(b)}
<1>1. PICK c \in 1 .. n :
          /\ ~GoesOn(c)
          /\ CredentialsStatement = IF Stops(c) = {} THEN NoStatement
                                    ELSE Stop(c)
          /\ \A b \in 1 .. c - 1 : GoesOn(b)
  BY GoesDown
<1>2. n \in Nat /\ DOMAIN blocks = 1 .. n
  BY LenProperties DEF TreeInv, ParserType
<1>3. \A d \in 2 .. c : Parent(d) = d - 1 /\ ~Heads(d, "credentials")
  BY <1>1, GoneThrough
<1>4. \A b \in leads : b \in 1 .. n /\ b > c
  <2> SUFFICES ASSUME NEW b \in leads, ~ (b > c)
               PROVE  FALSE
    BY <1>2
  <2>1. b \in 1 .. n /\ b > 1
    BY <1>2 DEF Heads
  <2>2. b \in 2 .. c
    BY <1>2, <2>1
  <2> QED
    BY <1>3, <2>2
<1>5. CASE Stops(c) = {}
  <2>1. leads = {}
    <3> SUFFICES ASSUME NEW b \in leads PROVE FALSE
      OBVIOUS
    <3>1. b \in 1 .. n /\ c \in 1 .. b - 1
      BY <1>2, <1>4
    <3>2. PICK d \in 2 .. b : c = Parent(d)
      BY <3>1, AroundOf
    <3>3. d \in 2 .. n
      BY <1>2, <3>1
    <3>4. PICK i : Link(c, i, d)
      BY <3>2, <3>3, ParentOf
    <3>5. i \in Stops(c)
      BY <3>4, StatementAt DEF Link, Stops, TreeInv
    <3> QED
      BY <1>5, <3>5
  <2>2. credentials = NoEntries
    BY <1>1, <1>5 DEF CredentialsRead
  <2> QED
    BY <2>1, <2>2 DEF CredentialsComeFirst
<1>6. CASE Stops(c) # {}
  <2> DEFINE d == c + 1
             m == Min(Stops(c))
  <2>1. CredentialsStatement = Stop(c) /\ Named(Stop(c), "credentials")
    BY <1>1, <1>6 DEF GoesOn
  <2>2. CredentialsStatement # NoStatement
    <3>1. Stop(c) \in Statement
      BY <1>6, StopsAt, StatementAt DEF Stop, TreeInv
    <3> QED
      BY <2>1, <3>1 DEF Statement, NoStatement
  <2>3. Source \in 1 .. n /\ credentials = Entries(Source)
    BY <2>2 DEF CredentialsRead
  <2>4. Stop(c).child # NoChild
    BY <2>1, <2>3 DEF Source, NoChild
  <2>5. Link(c, m, d)
    BY <1>6, <2>1, <2>4, StopsAt
  <2>6. Source = d
    BY <2>1, <2>5 DEF Source, Link, Stop
  <2>7. d \in 2 .. n /\ d - 1 = c /\ \A b \in 2 .. d : b \in 2 .. c \/ b = d
    BY <1>2, <2>3, <2>6
  <2> HIDE DEF d
  <2>8. Parent(d) = c
    BY <2>5, <2>7, ParentOf
  <2>9. d \in leads
    <3>1. Heads(d, "credentials")
      <4>1. /\ m \in DOMAIN blocks[c] /\ blocks[c][m].child = d
            /\ Named(blocks[c][m], "credentials")
        BY <1>6, <2>1, <2>5, StopsAt DEF Link, Stop
      <4>2. d > 1
        BY <2>7
      <4> QED
        BY <2>8, <4>1, <4>2 DEF Heads
    <3>2. \A b \in 2 .. d : Parent(b) = b - 1
      BY <1>3, <2>7, <2>8
    <3>3. d \in 1 .. n
      BY <2>7
    <3>4. Around(d) = 1 .. d - 1
      BY <3>2, <3>3, AroundOf
    <3> QED
      BY <1>2, <3>1, <3>3, <3>4
  <2> HIDE DEF leads
  <2>10. Min(leads) = d
    <3>1. leads \subseteq Nat /\ leads # {}
      BY <1>4, <2>9
    <3>2. Min(leads) \in leads /\ Min(leads) <= d
      BY <2>9, <3>1, MinLeast
    <3>3. Min(leads) \in 1 .. n /\ Min(leads) > c
      BY <1>4, <3>2
    <3> QED
      BY <1>2, <2>7, <3>2, <3>3
  <2>11. ASSUME NEW i \in DOMAIN blocks[d],
                Len(blocks[d][i].tokens) = 1,
                Delimiter(Text(blocks[d][i].tokens[1])) # {}
         PROVE  User(Text(blocks[d][i].tokens[1])) \in DOMAIN credentials
    <3>1. i \in Entered /\ Entry(i) = Text(blocks[d][i].tokens[1])
      BY <2>6, <2>11 DEF Entered, Entry
    <3>2. DOMAIN credentials = {User(Entry(j)) : j \in Entered}
      BY <2>3, EntriesOf
    <3> QED
      BY <3>1, <3>2
  <2> QED
    BY <2>9, <2>10, <2>11 DEF CredentialsComeFirst, leads
<1> QED
  BY <1>5, <1>6

(* The credentials are those of the first block of all, if that is a       *)
(* credentials block, and none of its entries is lost                      *)
(* (CredentialsComeFirst).                                                 *)
THEOREM CredentialsFirst == Spec => []CredentialsComeFirst
<1>1. TreeInv /\ LoginInv => CredentialsComeFirst
  BY FirstRead DEF LoginInv
<1> QED
  BY <1>1, LoginInvHolds, PTL

LEMMA AccountsOf ==
    ASSUME TreeInv, CredentialsStatement # NoStatement
    PROVE  Accounts = {Entry(i) : i \in {j \in Entered : \A k \in Entered :
                          k > j => User(Entry(k)) # User(Entry(j))}}
<1> DEFINE block == blocks[Source]
           text == [i \in DOMAIN block |-> Text(block[i].tokens[1])]
           is == {i \in DOMAIN block : /\ Len(block[i].tokens) = 1
                                       /\ Delimiter(text[i]) # {}}
<1>1. Accounts = {text[i] : i \in {j \in is : \A k \in is :
                     k > j => User(text[k]) # User(text[j])}}
  BY DEF Accounts, Source
<1>2. \A i \in DOMAIN block : text[i] = Entry(i)
  BY DEF Entry
<1> HIDE DEF text
<1>3. is = Entered /\ \A i \in is : i \in DOMAIN block
  BY <1>2 DEF Entered
<1> HIDE DEF is
<1>4. \A i \in Entered : text[i] = Entry(i)
  BY <1>2, <1>3
<1> QED
  BY <1>1, <1>3, <1>4

(* A byte is made of two characters.                                       *)
LEMMA ByteRange ==
    ASSUME NEW t, NEW n \in Nat, \A i \in 1 .. n : T(t[i]) \in 0 .. 63,
           NEW j \in 1 .. (6 * n) \div 8
    PROVE  RFCByte(t, j) \in 0 .. 255
<1> DEFINE k == 4 * ((j - 1) \div 3) + ((j - 1) % 3) + 1
<1>1. k \in 1 .. n /\ k + 1 \in 1 .. n
  OBVIOUS
<1>2. RFCByte(t, j) =
        CASE j % 3 = 1 -> T(t[k]) * 4 + T(t[k + 1]) \div 16
          [] j % 3 = 2 -> (T(t[k]) % 16) * 16 + T(t[k + 1]) \div 4
          [] j % 3 = 0 -> (T(t[k]) % 4) * 64 + T(t[k + 1])
  BY Zenon DEF RFCByte, Sextet
<1> DEFINE x == T(t[k])
           y == T(t[k + 1])
<1>3. x \in 0 .. 63 /\ y \in 0 .. 63
  BY <1>1
<1>4. j % 3 = 0 \/ j % 3 = 1 \/ j % 3 = 2
  OBVIOUS
<1> HIDE DEF x, y, k
<1>5. /\ x * 4 + y \div 16 \in 0 .. 255
      /\ (x % 16) * 16 + y \div 4 \in 0 .. 255
      /\ (x % 4) * 64 + y \in 0 .. 255
  BY <1>3
<1> QED
  BY <1>2, <1>4, <1>5 DEF x, y

LEMMA OutType == DecodeInv => out \in Seq(0 .. 255)
<1> SUFFICES ASSUME DecodeInv PROVE out \in Seq(0 .. 255)
  OBVIOUS
<1> DEFINE n == at - 1
           m == (6 * n) \div 8
<1>1. n \in Nat /\ m \in Nat
  BY DEF DecodeInv
<1>2. \A i \in 1 .. n : T(encoded[i]) \in 0 .. 63
  BY DEF DecodeInv
<1>3. out = [j \in 1 .. m |-> RFCByte(encoded, j)]
  BY DEF DecodeInv, DecodesRFC
<1> HIDE DEF n
<1>4. \A j \in 1 .. m : RFCByte(encoded, j) \in 0 .. 255
  BY <1>1, <1>2, ByteRange
<1> HIDE DEF m
<1> QED
  BY <1>1, <1>3, <1>4, IsASeq

(* The bytes that were let in are a configured text, the last one for its  *)
(* user.                                                                   *)
LEMMA OnlyAuthentic ==
    ASSUME TreeInv, DecodeInv, LoginInv, verdict = "let in"
    PROVE  out \in Accounts
<1>1. Authentic /\ phase = "running"
  BY DEF LoginInv, VerdictInv
<1>2. CredentialsStatement # NoStatement
  BY <1>1 DEF LoginInv, CredentialsRead, Authentic, NoEntries
<1>3. Source \in 1 .. Len(blocks) /\ credentials = Entries(Source)
  BY <1>1, <1>2 DEF LoginInv, CredentialsRead
<1>4. PICK m \in Entered :
              /\ User(Entry(m)) = User(out)
              /\ Entries(Source)[User(out)] = Password(Entry(m))
              /\ \A k \in Entered : k > m => User(Entry(k)) # User(out)
  BY <1>1, <1>3, EntriesOf DEF Authentic
<1>5. Entry(m) \in Seq(0 .. 255) /\ Delimiter(Entry(m)) # {}
  BY <1>3, EntryType DEF Entered
<1>6. Entry(m) = out
  <2>1. Password(Entry(m)) = Password(out) /\ Delimiter(out) # {}
    BY <1>1, <1>3, <1>4 DEF Authentic
  <2> QED
    BY <1>4, <1>5, <2>1, OutType, Whole
<1> QED
  BY <1>2, <1>4, <1>6, AccountsOf

(* Nobody is let in but who sends a configured text (OnlyAccountsOpen):    *)
(* through the tree get_credentials goes down, the map it fills, the       *)
(* characters decoded and the comparison in authenticate, for every file   *)
(* and every header.                                                       *)
THEOREM OnlyAccounts == Spec => []OnlyAccountsOpen
<1>1. TreeInv /\ DecodeInv /\ LoginInv => OnlyAccountsOpen
  <2> SUFFICES ASSUME TreeInv, DecodeInv, LoginInv, verdict = "let in"
               PROVE  out \in Accounts /\ encoded = header.text
                      /\ DecodesRFC
    BY DEF OnlyAccountsOpen, DecodesRFC
  <2> QED
    BY OnlyAuthentic DEF LoginInv, VerdictInv, DecodeInv
<1> QED
  BY <1>1, LoginInvHolds, PTL

-----------------------------------------------------------------------------
(* Encode, and that base64_decode undoes it.                               *)

LEMMA LetterOf ==
    ASSUME NEW n \in 0 .. 63
    PROVE  T(Letter(n)) = n
<1>1. \E c \in 0 .. 127 : T(c) = n
  <2>1. CASE n \in 0 .. 25
    <3>1. n + 65 \in 65 .. 90 /\ n + 65 \in 0 .. 127
      BY <2>1
    <3>2. T(n + 65) = n
      BY <3>1 DEF T
    <3> QED
      BY <3>1, <3>2
  <2>2. CASE n \in 26 .. 51
    <3>1. n + 71 \in 97 .. 122 /\ n + 71 \in 0 .. 127
      BY <2>2
    <3>2. T(n + 71) = n
      BY <3>1 DEF T
    <3> QED
      BY <3>1, <3>2
  <2>3. CASE n \in 52 .. 61
    <3>1. n - 4 \in 48 .. 57 /\ n - 4 \in 0 .. 127
      BY <2>3
    <3>2. T(n - 4) = n
      BY <3>1 DEF T
    <3> QED
      BY <3>1, <3>2
  <2>4. CASE n = 62 \/ n = 63
    <3>1. T(43) = 62 /\ T(47) = 63
      BY DEF T
    <3> QED
      BY <2>4, <3>1
  <2> QED
    BY <2>1, <2>2, <2>3, <2>4
<1> QED
  BY <1>1 DEF Letter

ByteAt(b, i) == IF i =< Len(b) THEN b[i] ELSE 0

SextetAt(b, k) ==
    LET i == 3 * ((k - 1) \div 4) + 1
    IN  CASE k % 4 = 1 -> ByteAt(b, i) \div 4
          [] k % 4 = 2 -> (ByteAt(b, i) % 4) * 16 + ByteAt(b, i + 1) \div 16
          [] k % 4 = 3 -> (ByteAt(b, i + 1) % 16) * 4
                            + ByteAt(b, i + 2) \div 64
          [] k % 4 = 0 -> ByteAt(b, i + 2) % 64

LEMMA EncodeOf ==
    ASSUME NEW b
    PROVE  Encode(b) = [k \in 1 .. 4 * ((Len(b) + 2) \div 3) |->
                           IF 6 * (k - 1) < 8 * Len(b)
                           THEN Letter(SextetAt(b, k)) ELSE Pad]
BY Zenon DEF Encode, SextetAt, ByteAt

LEMMA ByteAtType ==
    ASSUME NEW b \in Seq(0 .. 255), NEW i \in Nat \ {0}
    PROVE  ByteAt(b, i) \in 0 .. 255
<1>1. CASE i =< Len(b)
  <2>1. i \in 1 .. Len(b)
    BY <1>1, LenProperties
  <2> QED
    BY <1>1, <2>1, ElementOfSeq DEF ByteAt
<1>2. CASE ~ (i =< Len(b))
  BY <1>2 DEF ByteAt
<1> QED
  BY <1>1, <1>2

LEMMA SextetType ==
    ASSUME NEW b \in Seq(0 .. 255), NEW k \in Nat \ {0}
    PROVE  SextetAt(b, k) \in 0 .. 63
<1> DEFINE i == 3 * ((k - 1) \div 4) + 1
           x == ByteAt(b, i)
           y == ByteAt(b, i + 1)
           z == ByteAt(b, i + 2)
<1>1. i \in Nat \ {0} /\ i + 1 \in Nat \ {0} /\ i + 2 \in Nat \ {0}
  OBVIOUS
<1>2. SextetAt(b, k) = CASE k % 4 = 1 -> x \div 4
                         [] k % 4 = 2 -> (x % 4) * 16 + y \div 16
                         [] k % 4 = 3 -> (y % 16) * 4 + z \div 64
                         [] k % 4 = 0 -> z % 64
  BY Zenon DEF SextetAt
<1> HIDE DEF i
<1>3. x \in 0 .. 255 /\ y \in 0 .. 255 /\ z \in 0 .. 255
  BY <1>1, ByteAtType
<1> HIDE DEF x, y, z
<1>4. k % 4 = 0 \/ k % 4 = 1 \/ k % 4 = 2 \/ k % 4 = 3
  OBVIOUS
<1>5. /\ x \div 4 \in 0 .. 63
      /\ (x % 4) * 16 + y \div 16 \in 0 .. 63
      /\ (y % 16) * 4 + z \div 64 \in 0 .. 63
      /\ z % 64 \in 0 .. 63
  BY <1>3
<1> QED
  BY <1>2, <1>4, <1>5

(* Two neighbouring characters of a group hold the whole of a byte.        *)
WholeBytes(x, y, z) ==
    /\ (x \div 4) * 4 + ((x % 4) * 16 + y \div 16) \div 16 = x
    /\ (((x % 4) * 16 + y \div 16) % 16) * 16
          + ((y % 16) * 4 + z \div 64) \div 4 = y
    /\ (((y % 16) * 4 + z \div 64) % 4) * 64 + (z % 64) = z

LEMMA Undone ==
    ASSUME NEW x \in 0 .. 255, NEW y \in 0 .. 255, NEW z \in 0 .. 255
    PROVE  WholeBytes(x, y, z)
<1>1. PICK x1 \in 0 .. 63, x2 \in 0 .. 3 :
              x1 = x \div 4 /\ x2 = x % 4 /\ x = 4 * x1 + x2
  OBVIOUS
<1>2. PICK y1 \in 0 .. 15, y2 \in 0 .. 15 :
              y1 = y \div 16 /\ y2 = y % 16 /\ y = 16 * y1 + y2
  OBVIOUS
<1>3. PICK z1 \in 0 .. 3, z2 \in 0 .. 63 :
              z1 = z \div 64 /\ z2 = z % 64 /\ z = 64 * z1 + z2
  OBVIOUS
<1>4. (x2 * 16 + y1) \div 16 = x2 /\ (x2 * 16 + y1) % 16 = y1
  OBVIOUS
<1>5. (y2 * 4 + z1) \div 4 = y2 /\ (y2 * 4 + z1) % 4 = z1
  OBVIOUS
<1> QED
  BY <1>1, <1>2, <1>3, <1>4, <1>5 DEF WholeBytes

(* The characters of Encode(b): letters as far as there are bits, then     *)
(* padding, which ends the loop.                                           *)
LEMMA Characters ==
    ASSUME NEW b \in Seq(0 .. 255)
    PROVE  /\ Len(Encode(b)) = 4 * ((Len(b) + 2) \div 3)
           /\ Len(b) \in Nat
           /\ \A k \in 1 .. Len(Encode(b)) :
                 T(Encode(b)[k]) = IF 6 * (k - 1) < 8 * Len(b)
                                   THEN SextetAt(b, k) ELSE -1
<1> DEFINE n == Len(b)
           m == 4 * ((n + 2) \div 3)
<1>1. n \in Nat /\ m \in Nat
  BY LenProperties
<1>2. Encode(b) = [k \in 1 .. m |-> IF 6 * (k - 1) < 8 * n
                                    THEN Letter(SextetAt(b, k)) ELSE Pad]
  BY EncodeOf
<1> HIDE DEF m, n
<1>3. Len(Encode(b)) = m
  BY <1>1, <1>2
<1>4. ASSUME NEW k \in 1 .. m
      PROVE  T(Encode(b)[k]) = IF 6 * (k - 1) < 8 * n
                               THEN SextetAt(b, k) ELSE -1
  <2>1. T(Letter(SextetAt(b, k))) = SextetAt(b, k)
    <3>1. k \in Nat \ {0}
      BY <1>1
    <3>2. SextetAt(b, k) \in 0 .. 63
      BY <3>1, SextetType, Zenon
    <3> QED
      BY <3>2, LetterOf, Zenon
  <2>2. T(Pad) = -1
    BY DEF T, Pad
  <2> QED
    BY <1>2, <2>1, <2>2
<1> QED
  BY <1>1, <1>3, <1>4 DEF n, m

LEMMA RoundTrip ==
    ASSUME NEW b \in Seq(0 .. 255), NEW j \in 1 .. Len(b)
    PROVE  RFCByte(Encode(b), j) = b[j]
<1> DEFINE n == Len(b)
           t == Encode(b)
           g == (j - 1) \div 3
           r == (j - 1) % 3
           k == 4 * g + r + 1
           i == 3 * g + 1
           x == ByteAt(b, i)
           y == ByteAt(b, i + 1)
           z == ByteAt(b, i + 2)
<1>1. n \in Nat
  BY LenProperties
<1>2. g \in Nat /\ r \in 0 .. 2 /\ j = 3 * g + r + 1
  OBVIOUS
<1>3. RFCByte(t, j) =
        CASE j % 3 = 1 -> T(t[k]) * 4 + T(t[k + 1]) \div 16
          [] j % 3 = 2 -> (T(t[k]) % 16) * 16 + T(t[k + 1]) \div 4
          [] j % 3 = 0 -> (T(t[k]) % 4) * 64 + T(t[k + 1])
  BY Zenon DEF RFCByte, Sextet
<1> HIDE DEF g, r, n
<1>4. k \in Nat \ {0} /\ i \in Nat \ {0} /\ (k + 1) - 1 = k
  BY <1>2
<1>5. 6 * (k - 1) < 8 * n /\ 6 * k < 8 * n
  BY <1>1, <1>2 DEF n
<1>6. k \in 1 .. 4 * ((n + 2) \div 3) /\ k + 1 \in 1 .. 4 * ((n + 2) \div 3)
  BY <1>1, <1>2 DEF n
<1>7. T(t[k]) = SextetAt(b, k) /\ T(t[k + 1]) = SextetAt(b, k + 1)
  <2> HIDE DEF k, t
  <2>1. /\ Len(t) = 4 * ((n + 2) \div 3)
        /\ \A l \in 1 .. Len(t) : T(t[l]) = IF 6 * (l - 1) < 8 * n
                                            THEN SextetAt(b, l) ELSE -1
    BY Characters DEF t, n
  <2> QED
    BY <1>4, <1>5, <1>6, <2>1
<1>8. 3 * ((k - 1) \div 4) + 1 = i /\ 3 * (((k + 1) - 1) \div 4) + 1 = i
  BY <1>2
<1>9. /\ r = 0 => k % 4 = 1 /\ (k + 1) % 4 = 2 /\ j % 3 = 1 /\ j = i
      /\ r = 1 => k % 4 = 2 /\ (k + 1) % 4 = 3 /\ j % 3 = 2 /\ j = i + 1
      /\ r = 2 => k % 4 = 3 /\ (k + 1) % 4 = 0 /\ j % 3 = 0 /\ j = i + 2
  BY <1>2
<1>10. /\ x \in 0 .. 255 /\ y \in 0 .. 255 /\ z \in 0 .. 255
  <2>1. i + 1 \in Nat \ {0} /\ i + 2 \in Nat \ {0}
    BY <1>4
  <2> QED
    BY <1>4, <2>1, ByteAtType
<1>11. ByteAt(b, j) = b[j]
  BY <1>1 DEF ByteAt, n
<1>12. /\ SextetAt(b, k) = CASE k % 4 = 1 -> x \div 4
                             [] k % 4 = 2 -> (x % 4) * 16 + y \div 16
                             [] k % 4 = 3 -> (y % 16) * 4 + z \div 64
                             [] k % 4 = 0 -> z % 64
       /\ SextetAt(b, k + 1) = CASE (k + 1) % 4 = 1 -> x \div 4
                                 [] (k + 1) % 4 = 2 -> (x % 4) * 16
                                                         + y \div 16
                                 [] (k + 1) % 4 = 3 -> (y % 16) * 4
                                                         + z \div 64
                                 [] (k + 1) % 4 = 0 -> z % 64
  <2> HIDE DEF k, i
  <2> QED
    BY <1>8, Zenon DEF SextetAt
<1> HIDE DEF k, i, t
<1>13. WholeBytes(x, y, z)
  BY <1>10, Undone, Zenon
<1>14. CASE r = 0
  <2>1. RFCByte(t, j) = (x \div 4) * 4 + ((x % 4) * 16 + y \div 16) \div 16
    <3> HIDE DEF x, y, z
    <3> QED
      BY <1>3, <1>7, <1>9, <1>12, <1>14
  <2>2. b[j] = x
    BY <1>9, <1>11, <1>14
  <2> QED
    BY <1>13, <2>1, <2>2 DEF t, WholeBytes
<1>15. CASE r = 1
  <2>1. RFCByte(t, j) = (((x % 4) * 16 + y \div 16) % 16) * 16
                           + ((y % 16) * 4 + z \div 64) \div 4
    <3> HIDE DEF x, y, z
    <3> QED
      BY <1>3, <1>7, <1>9, <1>12, <1>15
  <2>2. b[j] = y
    BY <1>9, <1>11, <1>15
  <2> QED
    BY <1>13, <2>1, <2>2 DEF t, WholeBytes
<1>16. CASE r = 2
  <2>1. RFCByte(t, j) = (((y % 16) * 4 + z \div 64) % 4) * 64 + (z % 64)
    <3> HIDE DEF x, y, z
    <3> QED
      BY <1>3, <1>7, <1>9, <1>12, <1>16
  <2>2. b[j] = z
    BY <1>9, <1>11, <1>16
  <2> QED
    BY <1>13, <2>1, <2>2 DEF t, WholeBytes
<1> QED
  BY <1>2, <1>14, <1>15, <1>16

(* Where the loop ends on Encode(b), all of b has come out.                *)
LEMMA DecodesEncoded ==
    ASSUME DecodeInv, Decoded, NEW b \in Seq(0 .. 255), encoded = Encode(b)
    PROVE  out = b
<1> DEFINE n == Len(b)
           m == at - 1
<1>1. /\ n \in Nat
      /\ Len(encoded) = 4 * ((n + 2) \div 3)
      /\ \A k \in 1 .. Len(encoded) :
            T(encoded[k]) = IF 6 * (k - 1) < 8 * n THEN SextetAt(b, k) ELSE -1
  BY Characters
<1>2. /\ m \in Nat /\ m <= Len(encoded) /\ at = m + 1
      /\ \A k \in 1 .. m : T(encoded[k]) \in 0 .. 63
      /\ out = [j \in 1 .. (6 * m) \div 8 |-> RFCByte(encoded, j)]
  BY DEF DecodeInv, DecodesRFC
<1>3. m + 1 <= Len(encoded) => T(encoded[m + 1]) = -1
  BY <1>2 DEF Decoded
<1> HIDE DEF n, m
<1>4. m = 0 \/ 6 * (m - 1) < 8 * n
  <2> SUFFICES ASSUME m # 0, ~ (6 * (m - 1) < 8 * n) PROVE FALSE
    OBVIOUS
  <2>1. m \in 1 .. m /\ m \in 1 .. Len(encoded)
    BY <1>1, <1>2
  <2>2. T(encoded[m]) = -1 /\ T(encoded[m]) \in 0 .. 63
    BY <1>1, <1>2, <2>1
  <2> QED
    BY <2>2
<1>5. m = Len(encoded) \/ ~ (6 * m < 8 * n)
  <2> SUFFICES ASSUME m # Len(encoded), 6 * m < 8 * n PROVE FALSE
    OBVIOUS
  <2>1. m + 1 \in 1 .. Len(encoded) /\ (m + 1) - 1 = m
    BY <1>1, <1>2
  <2>2. T(encoded[m + 1]) = SextetAt(b, m + 1)
    BY <1>1, <2>1
  <2>3. m + 1 \in Nat \ {0} /\ m + 1 <= Len(encoded)
    BY <1>1, <1>2, <2>1
  <2>4. SextetAt(b, m + 1) \in 0 .. 63
    BY <2>3, SextetType, Zenon
  <2>5. T(encoded[m + 1]) = -1
    BY <1>3, <2>3
  <2>6. T(encoded[m + 1]) \in 0 .. 63
    BY <2>2, <2>4
  <2> QED
    BY <2>5, <2>6
<1>6. (6 * m) \div 8 = n
  BY <1>1, <1>2, <1>4, <1>5
<1>7. out = [j \in 1 .. n |-> RFCByte(encoded, j)]
  BY <1>2, <1>6
<1>8. \A j \in 1 .. n : RFCByte(encoded, j) = b[j]
  BY RoundTrip DEF n
<1>9. b = [j \in 1 .. n |-> b[j]]
  BY LenProperties DEF n
<1> QED
  BY <1>7, <1>8, <1>9

(* A configured text is what authenticate compares with.                   *)
LEMMA AccountAuthentic ==
    ASSUME TreeInv, LoginInv, phase = "running", out \in Accounts
    PROVE  Authentic
<1>1. CredentialsStatement # NoStatement
  BY DEF Accounts
<1>2. Source \in 1 .. Len(blocks) /\ credentials = Entries(Source)
  BY <1>1 DEF LoginInv, CredentialsRead
<1>3. PICK j \in Entered :
              /\ out = Entry(j)
              /\ \A k \in Entered : k > j => User(Entry(k)) # User(Entry(j))
  BY <1>1, AccountsOf
<1>4. User(out) \in DOMAIN credentials /\ Delimiter(out) # {}
  BY <1>2, <1>3, EntriesOf DEF Entered
<1>5. PICK m \in Entered :
              /\ User(Entry(m)) = User(out)
              /\ Entries(Source)[User(out)] = Password(Entry(m))
              /\ \A k \in Entered : k > m => User(Entry(k)) # User(out)
  BY <1>2, <1>4, EntriesOf
<1>6. j \in Nat /\ m \in Nat
  BY <1>2, EntryType DEF Entered
<1>7. ~ (j > m) /\ ~ (m > j)
  BY <1>3, <1>5
<1>8. j = m
  BY <1>6, <1>7
<1> QED
  BY <1>2, <1>3, <1>4, <1>5, <1>8 DEF Authentic

(* Whoever sends a configured text, encoded as RFC 4648 says, is let in    *)
(* (AccountsOpen): the loop reads on to the padding, no bit is lost, and   *)
(* the map holds the last text of every user.                              *)
THEOREM AccountsLetIn == Spec => []AccountsOpen
<1>1. TreeInv /\ DecodeInv /\ LoginInv => AccountsOpen
  <2> SUFFICES ASSUME TreeInv, DecodeInv, LoginInv, verdict = "refused",
                      header.basic, NEW a \in Accounts,
                      header.text = Encode(a)
               PROVE  FALSE
    BY DEF AccountsOpen
  <2>1. /\ phase = "running" /\ encoded = Encode(a)
        /\ Decoded /\ ~Authentic
    BY DEF LoginInv, VerdictInv
  <2>2. CredentialsStatement # NoStatement
    BY DEF Accounts
  <2>3. Source \in 1 .. Len(blocks)
    BY <2>1, <2>2 DEF LoginInv, CredentialsRead
  <2>4. PICK j \in Entered : a = Entry(j)
    BY <2>2, AccountsOf
  <2>5. a \in Seq(0 .. 255)
    BY <2>3, <2>4, EntryType DEF Entered
  <2>6. out = a
    BY <2>1, <2>5, DecodesEncoded
  <2> QED
    BY <2>1, <2>6, AccountAuthentic
<1> QED
  BY <1>1, LoginInvHolds, PTL
=============================================================================
