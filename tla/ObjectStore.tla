---------------------------- MODULE ObjectStore ----------------------------
(***************************************************************************)
(* What the API's storage promises: objects under keys.  One object at a   *)
(* time is being written; a write first blanks its object and then fills   *)
(* it, and may stop in between (the process may die there); every other    *)
(* object keeps its data.  A new object never takes the key of another.    *)
(***************************************************************************)
CONSTANTS
    Keys,   \* the keys objects may have
    Data,   \* the data they may hold
    Empty   \* the data of a blank object

Idle == [kind |-> "idle", key |-> << >>]

VARIABLES
    objects,    \* the data stored under each key in use
    writing     \* the write under way: [kind, key], or Idle

storeVars == <<objects, writing>>

Init == objects = [k \in {} |-> Empty] /\ writing = Idle

Stored(k, d) == [x \in DOMAIN objects \cup {k} |->
                    IF x = k THEN d ELSE objects[x]]

Begin(kind, k) ==
    /\ writing = Idle
    /\ objects' = Stored(k, Empty)
    /\ writing' = [kind |-> kind, key |-> k]

Create(k) == k \notin DOMAIN objects /\ Begin("post", k)
Update(k) == k \in DOMAIN objects /\ Begin("put", k)

Finish(d) ==
    /\ writing # Idle
    /\ objects' = Stored(writing.key, d)
    /\ writing' = Idle

Abort == writing # Idle /\ writing' = Idle /\ UNCHANGED objects

Remove(k) ==
    /\ writing = Idle
    /\ k \in DOMAIN objects
    /\ objects' = [x \in DOMAIN objects \ {k} |-> objects[x]]
    /\ UNCHANGED writing

Next == \/ \E k \in Keys : Create(k) \/ Update(k) \/ Remove(k)
        \/ \E d \in Data : Finish(d)
        \/ Abort

Spec == Init /\ [][Next]_storeVars
=============================================================================
