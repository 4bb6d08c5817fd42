------------------------------ MODULE MCLogin ------------------------------
(***************************************************************************)
(* A small instance of Login for TLC.                                      *)
(***************************************************************************)
EXTENDS Login

UpTo(n, S) == UNION {[1 .. k -> S] : k \in 0 .. n}

(* All short files: for ParseToken over one symbol of every kind, for      *)
(* Parse, longer ones, over words, semicolons and braces.                  *)
Symbols    == {"w", " ", "\n", ";", "{", "}", "'", "\\", "#"}
ShortFiles == UpTo(5, Symbols) \cup UpTo(7, {"w", ";", "{", "}"})

(* Pieces of configurations.                                               *)
Setting(name, v) == <<name, " ", v, ";">>
Credentials == <<"credentials", "{", "u:p", ";", "v:p:q", "\n", ";", "v:p",
                 ";", "'", "u:p", "'", ";", "w", ";", "}">>
Location    == <<"location", " ", "/a", " ", "EchoHandler", "{", "}">>

Pieces == {Setting("port", "65535"), Setting("port", "70000"),
           Setting("timer", "9"), Setting("timer", "40000"),
           Credentials, <<"credentials", ";">>, Location,
           <<"location", " ", "/a", ";">>, <<"server", "{">>, <<"}">>}

(* Up to four pieces, and server blocks of four, some of them with blocks. *)
Body   == {Setting("port", "80"), Setting("port", "70000"),
           Setting("timer", "x"), Credentials, Location,
           <<"server", "{">> \o Setting("port", "9") \o <<"}">>}
Nested == {<< <<"server", "{">> >> \o p \o << <<"}">> >> :
              p \in [1 .. 4 -> Body]}

SomeFiles == ShortFiles \cup {FlattenSeq(p) : p \in UpTo(4, Pieces) \cup Nested}

SomeNumber == "80" :> 80 @@ "70000" :> 70000 @@ "65535" :> 65535 @@ "9" :> 9
              @@ "40000" :> 40000

(* u, v, w, p, q are 117, 118, 119, 112, 113; the bytes of the other words *)
(* are never looked at and stand for themselves by one byte without ":".   *)
SomeBytes ==
    "u:p" :> <<117, 58, 112>> @@ "v:p:q" :> <<118, 58, 112, 58, 113>>
    @@ "v:p" :> <<118, 58, 112>> @@ "'" :> <<39>> @@ "w" :> <<119>>
    @@ [s \in Symbols \cup DOMAIN SomeNumber
             \cup {"port", "timer", "x", "credentials", "location", "/a",
                   "EchoHandler", "server"} |-> <<63>>]

(* Headers for right and wrong texts, without padding, cut short, with a   *)
(* character out of the alphabet, of another scheme.                       *)
Texts == {<<117, 58, 112>>, <<118, 58, 112>>, <<118, 58, 112, 58, 113>>,
          <<117, 58>>, <<58, 112>>, <<118, 112>>, <<39, 117, 58, 112, 39>>,
          << >>}
SomeHeaders ==
    {[basic |-> TRUE, text |-> Encode(b)] : b \in Texts}
    \cup {[basic |-> FALSE, text |-> Encode(<<117, 58, 112>>)],
          [basic |-> TRUE, text |-> Front(Encode(<<118, 58, 112>>))],
          [basic |-> TRUE, text |-> <<42>> \o Encode(<<117, 58, 112>>)],
          [basic |-> TRUE, text |-> Encode(<<117, 58, 112>>) \o <<32, 65>>]}
=============================================================================
