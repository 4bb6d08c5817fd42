------------------------------ MODULE MCServer ------------------------------
(***************************************************************************)
(* Small instances of Server for TLC.                                      *)
(***************************************************************************)
EXTENDS Server, TLC

CONSTANTS s1, s2

Get(auth, route) == [hdr |-> 2, wellformed |-> TRUE, hasBody |-> FALSE,
                     auth |-> auth, route |-> route]

(* One request of every kind handle_read_callback tells apart.             *)
AllRequests ==
    {Get("valid", r) : r \in Routes}
    \cup {Get("wrong", "reply"), Get("absent", "put")}
    \cup {[Get("valid", "reply") EXCEPT !.hasBody = TRUE],
          [Get("valid", "reply") EXCEPT !.wellformed = FALSE]}

BodyRequests == {[Get("valid", "put") EXCEPT !.hasBody = TRUE]}
GoodRequests == {Get("valid", "reply")}

OneClient == {s1, s2}

Symmetry == Permutations(Sessions)
=============================================================================
