------------------------------- MODULE Login -------------------------------
(***************************************************************************)
(* From the configuration file to the door: session::authenticate and      *)
(* base64_decode (session.cc) with the credentials main read (Startup).    *)
(* In Session this is the verdict on a request's Authorization header.     *)
(***************************************************************************)
EXTENDS Startup, Base64

CONSTANT Headers    \* the Authorization headers clients send

ASSUME HeadersAssumption ==
    \A h \in Headers : h.basic \in BOOLEAN /\ h.text \in Seq(0 .. 255)

VARIABLES
    header,     \* auth_header: does it begin with "Basic ", and the rest
    verdict     \* "none", "decoding", "let in" or "refused"

loginVars == <<header, decodeVars, verdict>>
allVars   == <<parseVars, mainVars, loginVars>>

Init ==
    /\ StartInit
    /\ header = [basic |-> FALSE, text |-> << >>]
    /\ encoded = << >> /\ at = 1 /\ val = 0 /\ valb = -8 /\ out = << >>
    /\ verdict = "none"

(* authenticate(h)                                                         *)
authenticate(h) ==
    /\ phase = "running"
    /\ verdict # "decoding"
    /\ header' = h
    /\ IF h.basic THEN verdict' = "decoding" /\ DecodeStart(h.text)
       ELSE verdict' = "refused" /\ UNCHANGED decodeVars
    /\ UNCHANGED <<parseVars, mainVars>>

base64_decode ==
    /\ verdict = "decoding"
    /\ DecodeChar
    /\ UNCHANGED <<parseVars, mainVars, header, verdict>>

(* Mutant: the user is known, the password is not looked at.               *)
AuthenticUser ==
    /\ Delimiter(out) # {}
    /\ User(out) \in DOMAIN credentials

(* The text before the first ":" is a user and the rest the password.      *)
Authentic ==
    /\ Delimiter(out) # {}
    /\ User(out) \in DOMAIN credentials
    /\ credentials[User(out)] = Password(out)

Decide ==
    /\ verdict = "decoding"
    /\ Decoded
    /\ verdict' = IF Authentic THEN "let in" ELSE "refused"
    /\ UNCHANGED <<parseVars, mainVars, header, decodeVars>>

Next ==
    \/ Start /\ UNCHANGED loginVars
    \/ \E h \in Headers : authenticate(h)
    \/ base64_decode
    \/ Decide

Spec == Init /\ [][Next]_allVars

-----------------------------------------------------------------------------
(* Properties.                                                             *)

(* RFC 4648 the other way: the characters, padded, that stand for bytes.   *)
Letter(n) == CHOOSE c \in 0 .. 127 : T(c) = n
Pad == 61
Encode(b) ==
    LET byte(i) == IF i =< Len(b) THEN b[i] ELSE 0
        sextet(k) == LET i == 3 * ((k - 1) \div 4) + 1
                     IN  CASE k % 4 = 1 -> byte(i) \div 4
                           [] k % 4 = 2 -> (byte(i) % 4) * 16
                                             + byte(i + 1) \div 16
                           [] k % 4 = 3 -> (byte(i + 1) % 16) * 4
                                             + byte(i + 2) \div 64
                           [] k % 4 = 0 -> byte(i + 2) % 64
    IN  [k \in 1 .. 4 * ((Len(b) + 2) \div 3) |->
            IF 6 * (k - 1) < 8 * Len(b) THEN Letter(sextet(k)) ELSE Pad]

(* The texts user:password of the block the credentials come from, that no *)
(* later one for the same user replaces.                                   *)
Accounts ==
    LET block == blocks[CredentialsStatement.child]
        text  == [i \in DOMAIN block |-> Text(block[i].tokens[1])]
        is    == {i \in DOMAIN block : /\ Len(block[i].tokens) = 1
                                       /\ Delimiter(text[i]) # {}}
    IN  IF CredentialsStatement = NoStatement THEN {}
        ELSE {text[i] : i \in {j \in is : \A k \in is :
                 k > j => User(text[k]) # User(text[j])}}

(* Whoever sends one of the configured texts, encoded as RFC 4648 says, is *)
(* let in: also if the password has a ":", and whatever came before.       *)
AccountsOpen ==
    verdict = "refused" /\ header.basic =>
        \A a \in Accounts : header.text # Encode(a)

(* Nobody else is: the bytes sent are those of a configured text.          *)
OnlyAccountsOpen ==
    verdict = "let in" =>
        \E a \in Accounts :
            a = [j \in 1 .. (6 * (at - 1)) \div 8 |-> RFCByte(header.text, j)]
=============================================================================
