--------------------------- MODULE MCDispatcher ---------------------------
(***************************************************************************)
(* A small instance of Dispatcher and StaticFiles for TLC: locations that  *)
(* shadow, extend and normalise to each other, and all short targets.      *)
(***************************************************************************)
EXTENDS StaticFiles, TLC

SomeChars == {"/", "a", "b", "."}
SomeTypes == {"StaticHandler", "APIHandler", "EchoHandler", "UnknownHandler"}
SomeRoots == {"r", "s"}

SomePaths == {<<"/">>, <<"/", "/">>, <<"/", "a">>, <<"/", "a", "/">>,
              <<"/", "a", "b">>, <<"/", "a", "/", "b">>, <<"a">>}

SomeLocations ==
    [path: SomePaths, type: {"StaticHandler"}, roots: {<<"r", "s">>}]
    \cup [path: SomePaths \ {<<"a">>}, type: {"EchoHandler"}, roots: {<< >>}]
    \cup [path: {<<"/", "a">>}, type: {"UnknownHandler"}, roots: {<< >>}]
    \cup [path: {<<"/", "a">>}, type: {"StaticHandler"}, roots: {<<"r">>}]
    \cup [path: {<<"a">>}, type: {"APIHandler"}, roots: {<<"r">>}]

(* No more than three locations.                                           *)
SomeConfigs == UNION {[1 .. n -> SomeLocations] : n \in 0 .. 3}

(* Targets of one to three characters, and some longer ones.               *)
SomeTargets == UNION {[1 .. n -> {"/", "a", "b"}] : n \in 1 .. 3}
               \cup {<<"/", "a", "/", "b">>, <<"/", "a", "/", "/">>,
                     <<"/", "a", "/", "b", ".", "a">>, <<"/", "b", ".", "a">>}

(* The roots /b.a and /a/, and files below them, also "../b.ab".           *)
SomeRootText == "/" :> <<"/">> @@ "r" :> <<"/", "b", ".", "a">>
                @@ "s" :> <<"/", "a", "/">>
Dot == <<".", ".", "/">>
SomeReadable == {Dot \o <<"b", ".", "a", "/", "b", ".", "a">>,
                 Dot \o <<"b", ".", "a", "/", "b">>,
                 Dot \o <<"b", ".", "a", "b">>,
                 Dot \o <<"a", "/", "b">>,
                 Dot \o <<"a", "/", "b", ".", "a">>}
SomeRegular  == SomeReadable \cup {Dot \o <<"a", "/", "a">>}
SomeMime     == <<"a">> :> "a/type"

ASSUME RootsAbsolute == AbsoluteRoots
=============================================================================
