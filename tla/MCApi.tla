------------------------------- MODULE MCApi -------------------------------
(***************************************************************************)
(* Small instances of ApiStorage for TLC.                                  *)
(***************************************************************************)
EXTENDS ApiStorage, TLC

CONSTANTS x, y, empty

SomeData == {x, y}

(* boost::lexical_cast<int> also takes "01"; it refuses "1x".              *)
SomeDigits == {"0", "1", "2", "01", "1x"}
SomeValue  == "0" :> 0 @@ "1" :> 1 @@ "2" :> 2 @@ "01" :> 1
SomeName   == 0 :> "0" @@ 1 :> "1" @@ 2 :> "2"

(* Entities with names that do not start with a digit, and the unnamed one *)
(* behind "/api/".                                                         *)
Entities == {<<"Shoes">>, <<"">>}
Objects  == {<<"Shoes", "1">>, <<"Shoes", "01">>, <<"Shoes", "1x">>,
             <<"0">>, <<"1">>, <<"2">>}
Used     == Entities \cup Objects \cup {<< >>}

(* With these no path of an object leads to an entity, and the entities    *)
(* are directly under the prefix.                                          *)
ASSUME EntitiesSeparate ==
    Creates = Entities => Separate /\ \A t \in Creates : Len(t) = 1

(* Entities and objects share the names "1" and "2".                       *)
Mixed == {<<"">>, <<"1">>, <<"1", "1">>}
=============================================================================
