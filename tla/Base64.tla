------------------------------ MODULE Base64 ------------------------------
(***************************************************************************)
(* base64_decode (session.cc), one step per character: the bits read and   *)
(* not written yet are the low bits of val, an int, which takes six more   *)
(* with every character and is never masked; valb + 8 counts them.         *)
(***************************************************************************)
EXTENDS Integers, Sequences

CONSTANT Word   \* how many values an int has: 2^32 in the code

(* What of val is written are bits of the lowest fourteen.                 *)
ASSUME WordAssumption == Word \in Nat \ {0} /\ Word % 16384 = 0

VARIABLES
    encoded,    \* in: a sequence of characters
    at,         \* the character the loop looks at
    val,        \* val, taken as unsigned
    valb,       \* valb
    out         \* out

decodeVars == <<encoded, at, val, valb, out>>

(* T: the value of a character, -1 for one that is not of the alphabet.    *)
T(c) == CASE c \in 65 .. 90  -> c - 65      \* A .. Z
          [] c \in 97 .. 122 -> c - 71      \* a .. z
          [] c \in 48 .. 57  -> c + 4       \* 0 .. 9
          [] c = 43          -> 62          \* +
          [] c = 47          -> 63          \* /
          [] OTHER           -> -1

DecodeStart(text) ==
    /\ encoded' = text
    /\ at' = 1
    /\ val' = 0
    /\ valb' = -8
    /\ out' = << >>

(* The loop ends at the first character that is not of the alphabet.       *)
Decoded == at =< Len(encoded) => T(encoded[at]) = -1

(* Mutant: > for >=.                                                       *)
DecodeCharLate ==
    /\ ~Decoded
    /\ val' = (val * 64 + T(encoded[at])) % Word
    /\ at' = at + 1
    /\ IF valb + 6 > 0
       THEN /\ out' = Append(out, (val' \div 2^(valb + 6)) % 256)
            /\ valb' = valb + 6 - 8
       ELSE valb' = valb + 6 /\ UNCHANGED out
    /\ UNCHANGED encoded

DecodeChar ==
    /\ ~Decoded
    /\ val' = (val * 64 + T(encoded[at])) % Word
    /\ at' = at + 1
    /\ IF valb + 6 >= 0
       THEN /\ out' = Append(out, (val' \div 2^(valb + 6)) % 256)
            /\ valb' = valb + 6 - 8
       ELSE valb' = valb + 6 /\ UNCHANGED out
    /\ UNCHANGED encoded

-----------------------------------------------------------------------------
(* RFC 4648: the bytes of a group of four characters.                      *)

Sextet(t, i) == T(t[i])

RFCByte(t, j) ==
    LET k == 4 * ((j - 1) \div 3) + ((j - 1) % 3) + 1
    IN  CASE j % 3 = 1 -> Sextet(t, k) * 4 + Sextet(t, k + 1) \div 16
          [] j % 3 = 2 -> (Sextet(t, k) % 16) * 16 + Sextet(t, k + 1) \div 4
          [] j % 3 = 0 -> (Sextet(t, k) % 4) * 64 + Sextet(t, k + 1)

(* Whatever overflows out of val, and whatever the length: after each      *)
(* character out holds the whole bytes of what was read, no more and no    *)
(* less, and they are the bytes of RFC 4648.                               *)
DecodesRFC == out = [j \in 1 .. (6 * (at - 1)) \div 8 |-> RFCByte(encoded, j)]
===========================================================================
