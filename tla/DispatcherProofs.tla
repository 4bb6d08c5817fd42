-------------------------- MODULE DispatcherProofs --------------------------
(***************************************************************************)
(* Proofs about Dispatcher, for every set of configurations and targets.   *)
(***************************************************************************)
EXTENDS Dispatcher, SequenceTheorems, TLAPS

LEMMA EmptyPathOK ==
    /\ EmptyPath \in Path
    /\ Len(EmptyPath) = 0
    /\ \A p \in Path : p # EmptyPath => Len(p) \in Nat \ {0}
BY EmptySeq DEF EmptyPath, Path

(* Matching, character by character.                                       *)
LEMMA MatchesPointwise ==
    ASSUME NEW p \in Path, NEW u \in Path
    PROVE  Matches(p, u) <=> /\ Len(p) =< Len(u)
                             /\ \A i \in 1 .. Len(p) : u[i] = p[i]
<1> SUFFICES ASSUME Len(p) =< Len(u)
             PROVE  SubSeq(u, 1, Len(p)) = p
                      <=> \A i \in 1 .. Len(p) : u[i] = p[i]
  BY DEF Matches
<1>1. Len(p) \in Nat /\ Len(u) \in Nat /\ \A i \in 1 .. Len(p) : u[i] \in Chars
  BY LenProperties, ElementOfSeq DEF Path
<1>2. /\ SubSeq(u, 1, Len(p)) \in Seq(Chars)
      /\ Len(SubSeq(u, 1, Len(p))) = Len(p)
      /\ \A i \in 1 .. Len(p) : SubSeq(u, 1, Len(p))[i] = u[i]
  BY <1>1, SubSeqProperties
<1> QED
  BY <1>1, <1>2, SeqEqual DEF Path

(* Dropping the last character of a path that is not a single character.   *)
LEMMA PopBackOK ==
    ASSUME NEW u \in Path, EndsInSlash(u)
    PROVE  /\ SubSeq(u, 1, Len(u) - 1) \in Path
           /\ SubSeq(u, 1, Len(u) - 1) # EmptyPath
           /\ Matches(SubSeq(u, 1, Len(u) - 1), u)
<1> DEFINE v == SubSeq(u, 1, Len(u) - 1)
<1>1. Len(u) \in Nat /\ Len(u) > 1 /\ \A i \in 1 .. Len(u) - 1 : u[i] \in Chars
  BY LenProperties, ElementOfSeq DEF EndsInSlash, Path
<1>2. /\ v \in Seq(Chars)
      /\ Len(v) = Len(u) - 1
      /\ \A i \in 1 .. Len(u) - 1 : v[i] = u[i]
  BY <1>1, SubSeqProperties
<1> HIDE DEF v
<1>3. v # EmptyPath
  BY <1>1, <1>2, EmptyPathOK
<1>4. Matches(v, u)
  <2>1. v \in Path
    BY <1>2 DEF Path
  <2>2. Len(v) =< Len(u) /\ \A i \in 1 .. Len(v) : u[i] = v[i]
    BY <1>1, <1>2
  <2> QED
    BY <2>1, <2>2, MatchesPointwise
<1> QED
  BY <1>2, <1>3, <1>4 DEF Path, v

LEMMA MatchesTransitive ==
    ASSUME NEW p \in Path, NEW u \in Path, NEW t \in Path,
           Matches(p, u), Matches(u, t)
    PROVE  Matches(p, t)
<1>1. Len(p) \in Nat /\ Len(u) \in Nat /\ Len(t) \in Nat
  BY LenProperties DEF Path
<1>2. Len(p) =< Len(u) /\ \A i \in 1 .. Len(p) : u[i] = p[i]
  BY MatchesPointwise
<1>3. Len(u) =< Len(t) /\ \A i \in 1 .. Len(u) : t[i] = u[i]
  BY MatchesPointwise
<1>4. Len(p) =< Len(t) /\ \A i \in 1 .. Len(p) : t[i] = p[i]
  BY <1>1, <1>2, <1>3
<1> QED
  BY <1>4, MatchesPointwise

LEMMA RootPath == Root \in Path /\ Len(Root) = 1 /\ Root[1] = "/"
BY CharsAssumption DEF Root, Path

(* A path matches itself.                                                  *)
LEMMA MatchesSelf ==
    ASSUME NEW p \in Path
    PROVE  Matches(p, p)
<1>1. SubSeq(p, 1, Len(p)) = p
  BY SubSeqFull DEF Path
<1>2. Len(p) \in Nat
  BY LenProperties DEF Path
<1> QED
  BY <1>1, <1>2 DEF Matches

(* What registerPath builds.                                               *)
LEMMA NewHandlerOK ==
    ASSUME NEW p \in Path, NEW type \in TypeNames,
           NEW roots \in Seq(RootNames)
    PROVE  /\ NewHandler(p, type, roots) \in Handler
           /\ NewHandler(p, type, roots).type = type
           /\ type \in RootedTypes => NewHandler(p, type, roots).prefix = p
<1> DEFINE last == IF roots = << >> THEN "/" ELSE roots[Len(roots)]
<1>1. last \in RootNames \cup {"/"}
  <2>1. CASE roots = << >>
    BY <2>1
  <2>2. CASE roots # << >>
    <3>1. Len(roots) \in 1 .. Len(roots)
      BY <2>2, EmptySeq
    <3> QED
      BY <2>2, <3>1, ElementOfSeq
  <2> QED
    BY <2>1, <2>2
<1>2. CASE type \in RootedTypes
  <2>1. NewHandler(p, type, roots)
          = [type |-> type, prefix |-> p, root |-> last]
    BY <1>2 DEF NewHandler
  <2> HIDE DEF last
  <2>2. [type |-> type, prefix |-> p, root |-> last] \in Handler
    BY <1>1 DEF Handler
  <2>3. /\ [type |-> type, prefix |-> p, root |-> last].type = type
        /\ [type |-> type, prefix |-> p, root |-> last].prefix = p
    OBVIOUS
  <2> QED
    BY <2>1, <2>2, <2>3
<1>3. CASE type \notin RootedTypes
  <2>1. NewHandler(p, type, roots)
          = [type |-> type, prefix |-> EmptyPath, root |-> ""]
    BY <1>3 DEF NewHandler
  <2>2. [type |-> type, prefix |-> EmptyPath, root |-> ""] \in Handler
    BY EmptyPathOK DEF Handler
  <2>3. [type |-> type, prefix |-> EmptyPath, root |-> ""].type = type
    OBVIOUS
  <2> QED
    BY <1>3, <2>1, <2>2, <2>3
<1> QED
  BY <1>2, <1>3

LEMMA ConstantHandlers == NoHandler \in Handler /\ Handler404 \in Handler
BY EmptyPathOK DEF NoHandler, Handler404, Handler

LEMMA NoHandlerType == NoHandler.type = "none"
BY DEF NoHandler

(* The statement initRequestHandlers looks at is a location with a path.   *)
LEMMA CurrentLocation ==
    ASSUME TypeOK, next =< Len(config)
    PROVE  /\ config[next] \in Location
           /\ config[next].path \in Path
           /\ config[next].path # EmptyPath
           /\ config[next].type \in TypeNames
           /\ config[next].roots \in Seq(RootNames)
<1>1. config \in Seq(Location)
  BY ConfigsAssumption DEF TypeOK
<1>2. next \in 1 .. Len(config)
  BY <1>1, LenProperties DEF TypeOK
<1>3. config[next] \in Location
  BY <1>1, <1>2, ElementOfSeq
<1>4. next \in DOMAIN config
  BY <1>1, <1>2, LenProperties
<1>5. config[next].path # EmptyPath
  BY <1>4, ConfigsAssumption DEF TypeOK
<1> QED
  BY <1>3, <1>5 DEF Location

(* Extending the table by one well-formed entry.                           *)
LEMMA BindOK ==
    ASSUME TypeOK, PathsNormalised, TableOK,
           NEW path \in Path, path # EmptyPath, ~EndsInSlash(path),
           NEW h \in Handler, h # NoHandler,
           h.type \in RootedTypes => h.prefix = path,
           handlers' = Bind(path, h)
    PROVE  /\ DOMAIN handlers' = DOMAIN handlers \cup {path}
           /\ DOMAIN handlers' \subseteq Path
           /\ \A p \in DOMAIN handlers' : handlers'[p] \in Handler
           /\ PathsNormalised'
           /\ TableOK'
<1>1. DOMAIN handlers' = DOMAIN handlers \cup {path}
  BY DEF Bind
<1>2. \A p \in DOMAIN handlers' :
         handlers'[p] = IF p = path THEN h ELSE handlers[p]
  BY DEF Bind
<1>3. PathsNormalised'
  BY <1>1 DEF PathsNormalised
<1>4. TableOK'
  BY <1>1, <1>2 DEF TableOK
<1> QED
  BY <1>1, <1>2, <1>3, <1>4 DEF TypeOK

(* The initial state satisfies the inductive invariant.                    *)
LEMMA InitInv == Init => Inv
<1> SUFFICES ASSUME Init PROVE Inv
  OBVIOUS
<1>1. DOMAIN handlers = {} /\ phase = "statement"
  BY DEF Init
<1>2. Root # EmptyPath
  BY RootPath, EmptyPathOK
<1>3. TypeOK
  BY <1>1, RootPath, EmptyPathOK, ConstantHandlers DEF Init, TypeOK
<1> QED
  BY <1>1, <1>2, <1>3
     DEF Inv, InRange, Init, PathsNormalised, TableOK, RootKnown, UriOK,
         BestSoFar,
         Looking

(* Every step keeps the inductive invariant.                               *)
LEMMA StepInv == Inv /\ [Next]_dispVars => Inv'
<1> SUFFICES ASSUME TypeOK, PathsNormalised, TableOK, InRange, RootKnown, UriOK,
                    BestSoFar, [Next]_dispVars
             PROVE  Inv'
  BY DEF Inv
<1>1. CASE NextStatement
  <2> USE <1>1 DEF NextStatement
  <2>1. TypeOK' /\ UriOK'
    BY CurrentLocation DEF TypeOK, UriOK, Looking
  <2> QED
    BY <2>1 DEF Inv, InRange, PathsNormalised, TableOK, RootKnown, BestSoFar,
                Looking
<1>2. CASE PopBack
  <2>1. /\ EndsInSlash(uri) /\ uri \in Path
        /\ uri' = SubSeq(uri, 1, Len(uri) - 1)
        /\ UNCHANGED <<config, next, handlers, phase, target, left, matched,
                       handler>>
    BY <1>2 DEF PopBack, TypeOK
  <2>2. uri' \in Path /\ uri' # EmptyPath /\ Matches(uri', uri)
    BY <2>1, PopBackOK
  <2>3. TypeOK'
    BY <2>1, <2>2 DEF TypeOK
  <2>4. UriOK'
    <3>1. ASSUME Looking PROVE Matches(uri', target)
      BY <2>1, <2>2, <3>1, MatchesTransitive DEF UriOK, TypeOK
    <3> QED
      BY <2>1, <2>2, <3>1 DEF UriOK, Looking
  <2>5. BestSoFar'
    <3>1. Looking => /\ left = DOMAIN handlers
                     /\ matched = EmptyPath
                     /\ handler = NoHandler
                     /\ phase # "returned"
      BY <2>1 DEF BestSoFar, NotStarted
    <3> QED
      BY <2>1, <3>1 DEF BestSoFar, NotStarted, Looking
  <2> QED
    BY <2>1, <2>3, <2>4, <2>5
       DEF Inv, InRange, PathsNormalised, TableOK, RootKnown
<1>3. CASE registerPath
  <2> DEFINE h == NewHandler(uri, config[next].type, config[next].roots)
  <2>1. /\ ~EndsInSlash(uri) /\ uri \in Path /\ uri # EmptyPath
        /\ next' = next + 1 /\ phase' = "statement"
        /\ UNCHANGED <<config, target, uri, left, matched, handler>>
    BY <1>3 DEF registerPath, TypeOK, UriOK
  <2>2. /\ DOMAIN handlers \subseteq DOMAIN handlers'
        /\ DOMAIN handlers' \subseteq Path
        /\ \A p \in DOMAIN handlers' : handlers'[p] \in Handler
        /\ PathsNormalised'
        /\ TableOK'
    <3>1. CASE registerPathFails
      <4>1. handlers' = handlers
        BY <1>3, <3>1 DEF registerPath
      <4> QED
        BY <4>1 DEF TypeOK, PathsNormalised, TableOK
    <3>2. CASE ~registerPathFails
      <4>1. handlers' = Bind(uri, h)
        BY <1>3, <3>2 DEF registerPath
      <4>2. config[next].type \in RootedTypes \cup PlainTypes
        BY <3>2 DEF registerPathFails
      <4>3. h \in Handler /\ h.type = config[next].type
              /\ (h.type \in RootedTypes => h.prefix = uri)
        <5>1. next =< Len(config)
          BY <1>3 DEF registerPath, InRange
        <5>2. /\ config[next].type \in TypeNames
              /\ config[next].roots \in Seq(RootNames)
          BY <5>1, CurrentLocation
        <5> QED
          BY <2>1, <5>2, NewHandlerOK
      <4>4. h # NoHandler
        BY <4>2, <4>3, NoHandlerType DEF RootedTypes, PlainTypes
      <4> HIDE DEF h
      <4> QED
        BY <2>1, <4>1, <4>3, <4>4, BindOK
    <3> QED
      BY <3>1, <3>2
  <2>3. TypeOK'
    BY <2>1, <2>2 DEF TypeOK
  <2> QED
    BY <2>1, <2>2, <2>3 DEF Inv, InRange, UriOK, RootKnown, BestSoFar, Looking
<1>4. CASE RegisterDefault
  <2>1. /\ phase = "statement" /\ phase' = "ready"
        /\ UNCHANGED <<config, next, target, uri, left, matched, handler>>
    BY <1>4 DEF RegisterDefault
  <2>2. /\ DOMAIN handlers \subseteq DOMAIN handlers'
        /\ DOMAIN handlers' \subseteq Path
        /\ \A p \in DOMAIN handlers' : handlers'[p] \in Handler
        /\ PathsNormalised'
        /\ TableOK'
        /\ Root \in DOMAIN handlers'
    <3>1. CASE Root \in DOMAIN handlers
      <4>1. handlers' = handlers
        BY <1>4, <3>1 DEF RegisterDefault
      <4> QED
        BY <3>1, <4>1 DEF TypeOK, PathsNormalised, TableOK
    <3>2. CASE Root \notin DOMAIN handlers
      <4>1. handlers' = Bind(Root, Handler404)
        BY <1>4, <3>2 DEF RegisterDefault
      <4>2. Root # EmptyPath /\ ~EndsInSlash(Root)
        BY RootPath, EmptyPathOK DEF EndsInSlash
      <4>3. /\ Handler404 # NoHandler
            /\ Handler404.type \notin RootedTypes
        BY DEF Handler404, NoHandler, RootedTypes
      <4> QED
        BY <4>1, <4>2, <4>3, RootPath, ConstantHandlers, BindOK
    <3> QED
      BY <3>1, <3>2
  <2>3. TypeOK'
    BY <2>1, <2>2 DEF TypeOK
  <2> QED
    BY <2>1, <2>2, <2>3 DEF Inv, InRange, UriOK, RootKnown, BestSoFar, Looking
<1>5. ASSUME NEW t \in Targets, getRequestHandler(t) PROVE Inv'
  <2> USE <1>5 DEF getRequestHandler
  <2>1. t \in Path /\ t # EmptyPath
    BY TargetsAssumption
  <2>2. TypeOK'
    BY <2>1, EmptyPathOK, ConstantHandlers DEF TypeOK
  <2>3. UriOK'
    BY <2>1, MatchesSelf DEF UriOK
  <2>4. BestSoFar'
    BY DEF BestSoFar, NotStarted
  <2> QED
    BY <2>2, <2>3, <2>4 DEF Inv, InRange, PathsNormalised, TableOK, RootKnown
<1>6. ASSUME NEW q \in left, Visit(q) PROVE Inv'
  <2>1. /\ phase = "getRequestHandler" /\ ~EndsInSlash(uri)
        /\ left' = left \ {q}
        /\ UNCHANGED <<config, next, handlers, phase, target, uri>>
    BY <1>6 DEF Visit
  <2>2. q \in DOMAIN handlers /\ q \in Path /\ handlers[q] \in Handler
    BY <1>6 DEF TypeOK
  <2>3. TypeOK'
    BY <1>6, <2>1, <2>2 DEF Visit, TypeOK
  <2>4. BestSoFar'
    <3>1. Len(matched) \in Nat /\ \A p \in DOMAIN handlers : Len(p) \in Nat
      BY LenProperties DEF TypeOK, Path
    <3>2. CASE Matches(q, uri) /\ Len(q) > Len(matched)
      <4>1. matched' = q /\ handler' = handlers[q]
        BY <1>6, <3>2 DEF Visit
      <4>2. q # EmptyPath
        BY <2>2 DEF PathsNormalised
      <4>3. \A p \in DOMAIN handlers \ left' :
               Matches(p, uri) => Len(p) =< Len(q)
        BY <2>1, <3>1, <3>2, <2>2 DEF BestSoFar, Looking
      <4> QED
        BY <2>1, <2>2, <3>2, <4>1, <4>2, <4>3 DEF BestSoFar, Looking
    <3>3. CASE ~(Matches(q, uri) /\ Len(q) > Len(matched))
      <4>1. matched' = matched /\ handler' = handler
        BY <1>6, <3>3 DEF Visit
      <4>2. \A p \in DOMAIN handlers \ left' :
               Matches(p, uri) => Len(p) =< Len(matched)
        BY <2>1, <2>2, <3>1, <3>3 DEF BestSoFar, Looking
      <4> QED
        BY <2>1, <4>1, <4>2 DEF BestSoFar, Looking
    <3> QED
      BY <3>2, <3>3
  <2> QED
    BY <2>1, <2>3, <2>4
       DEF Inv, InRange, PathsNormalised, TableOK, RootKnown, UriOK, Looking
<1>7. CASE Return
  <2> USE <1>7 DEF Return
  <2>1. TypeOK'
    BY DEF TypeOK
  <2>2. BestSoFar'
    BY DEF BestSoFar, Looking
  <2> QED
    BY <2>1, <2>2
       DEF Inv, InRange, PathsNormalised, TableOK, RootKnown, UriOK, Looking
<1>8. CASE UNCHANGED dispVars
  BY <1>8 DEF dispVars, Inv, InRange, TypeOK, PathsNormalised, TableOK,
              RootKnown,
              UriOK, BestSoFar, NotStarted, Looking
<1> QED
  BY <1>1, <1>2, <1>3, <1>4, <1>5, <1>6, <1>7, <1>8 DEF Next

(***************************************************************************)
(* The theorems.                                                           *)
(***************************************************************************)

(* Inv is an invariant of the dispatcher.                                  *)
THEOREM InvHolds == Spec => []Inv
BY InitInv, StepInv, PTL DEF Spec

(* Every variable keeps its type.                                          *)
THEOREM TypeCorrect == Spec => []TypeOK
<1>1. Inv => TypeOK
  BY DEF Inv
<1> QED
  BY <1>1, InvHolds, PTL

(* getRequestHandler returns the handler of the longest registered prefix, *)
(* for every table and every target.                                       *)
THEOREM Longest == Spec => []LongestPrefix
<1>1. Inv => LongestPrefix
  BY DEF Inv, BestSoFar, LongestPrefix, Looking
<1> QED
  BY <1>1, InvHolds, PTL

(* No target that starts with "/" is without a handler.                    *)
THEOREM Answered == Spec => []AlwaysAnswered
<1>1. Inv => AlwaysAnswered
  <2> SUFFICES ASSUME Inv, phase = "returned", target[1] = "/"
               PROVE  handler # NoHandler
    BY DEF AlwaysAnswered
  <2> USE DEF Inv
  <2>1. uri \in Path /\ target \in Path /\ matched \in Path
    BY DEF TypeOK
  <2>2. Len(uri) \in Nat \ {0}
    BY <2>1, EmptyPathOK DEF UriOK
  <2>3. uri[1] = "/"
    BY <2>1, <2>2, MatchesPointwise DEF UriOK, Looking
  <2>4. Matches(Root, uri)
    BY <2>1, <2>2, <2>3, RootPath, MatchesPointwise
  <2>5. Len(matched) >= 1
    <3>1. Root \in DOMAIN handlers \ left
      BY DEF RootKnown, BestSoFar, Looking
    <3>2. Len(Root) =< Len(matched)
      BY <2>4, <3>1 DEF BestSoFar, Looking
    <3> QED
      BY <3>2, RootPath
  <2>6. matched # EmptyPath
    BY <2>5, EmptyPathOK
  <2> QED
    BY <2>6 DEF BestSoFar, Looking, TableOK
<1> QED
  BY <1>1, InvHolds, PTL

(* Registered paths have no trailing slash.                                *)
THEOREM Normal == Spec => []PathsNormalised
<1>1. Inv => PathsNormalised
  BY DEF Inv
<1> QED
  BY <1>1, InvHolds, PTL

(* The prefix a handler cuts off a target is a prefix of that target.      *)
THEOREM Removable == Spec => []PrefixOfTarget
<1>1. Inv => PrefixOfTarget
  <2> SUFFICES ASSUME Inv, phase = "returned", handler.type \in RootedTypes
               PROVE  handler.prefix = matched /\ Matches(matched, target)
    BY DEF PrefixOfTarget
  <2> USE DEF Inv
  <2>1. handler # NoHandler
    BY NoHandlerType DEF RootedTypes
  <2>2. /\ matched \in DOMAIN handlers
        /\ Matches(matched, uri)
        /\ handler = handlers[matched]
    BY <2>1 DEF BestSoFar, Looking
  <2>3. Matches(uri, target)
    BY DEF UriOK, Looking
  <2> QED
    BY <2>2, <2>3, MatchesTransitive DEF TableOK, TypeOK
<1> QED
  BY <1>1, InvHolds, PTL

-----------------------------------------------------------------------------
(* What the table holds.                                                   *)

Known(i) == config[i].type \in RootedTypes \cup PlainTypes
Filling  == phase \in {"statement", "registerPath"}
Seen(i)  == i \in DOMAIN config /\ i < next

(* Nothing but slashes has been dropped from the path of the location.     *)
Trimmed ==
    phase = "registerPath" =>
        /\ Matches(uri, config[next].path)
        /\ \A i \in DOMAIN config[next].path :
              i > Len(uri) => config[next].path[i] = "/"

(* TableFromConfig for the locations seen so far.                          *)
FirstSeen ==
    \A i \in DOMAIN config, q \in DOMAIN handlers :
        Seen(i) /\ FirstFor(q, i) =>
            handlers[q] = NewHandler(q, config[i].type, config[i].roots)
AllSeen ==
    \A i \in DOMAIN config : Seen(i) /\ Known(i) =>
        \E q \in DOMAIN handlers : Normalised(config[i].path, q)
OnlySeen ==
    \A q \in DOMAIN handlers :
        \/ ~Filling /\ q = Root /\ handlers[q] = Handler404
        \/ \E i \in DOMAIN config : Seen(i) /\ FirstFor(q, i)

TableInv ==
    /\ Trimmed
    /\ FirstSeen
    /\ AllSeen
    /\ OnlySeen
    /\ ~Filling => next > Len(config)

(* A path has no two forms without trailing slashes.                       *)
LEMMA NormalisedUnique ==
    ASSUME NEW p \in Path, NEW q \in Path, NEW r \in Path,
           Normalised(p, q), Normalised(p, r)
    PROVE  q = r
<1>1. ASSUME NEW a \in Path, NEW b \in Path, Normalised(p, a),
             Normalised(p, b), Len(a) < Len(b)
      PROVE  FALSE
  <2>1. /\ Len(a) \in Nat \ {0} /\ Len(b) \in Nat /\ Len(p) \in Nat
        /\ DOMAIN p = 1 .. Len(p)
    BY <1>1, EmptyPathOK, LenProperties DEF Normalised, Path
  <2>2. Len(b) =< Len(p) /\ \A i \in 1 .. Len(b) : p[i] = b[i]
    BY <1>1, MatchesPointwise DEF Normalised
  <2>3. Len(b) \in DOMAIN p /\ Len(b) \in 1 .. Len(b) /\ Len(b) > 1
    BY <1>1, <2>1, <2>2
  <2>4. p[Len(b)] = "/"
    BY <1>1, <2>3 DEF Normalised
  <2>5. EndsInSlash(b)
    BY <2>2, <2>3, <2>4 DEF EndsInSlash
  <2> QED
    BY <1>1, <2>5 DEF Normalised
<1>2. Len(q) \in Nat /\ Len(r) \in Nat
  BY LenProperties DEF Path
<1>3. Len(q) = Len(r)
  <2>1. ~ (Len(q) < Len(r)) /\ ~ (Len(r) < Len(q))
    BY <1>1
  <2> QED
    BY <1>2, <2>1
<1>4. \A i \in 1 .. Len(q) : q[i] = p[i] /\ r[i] = p[i]
  BY <1>3, MatchesPointwise DEF Normalised
<1> QED
  BY <1>3, <1>4, SeqEqual DEF Path

(* The configuration is a sequence of locations.                           *)
LEMMA ConfigOK ==
    ASSUME TypeOK
    PROVE  /\ Len(config) \in Nat /\ DOMAIN config = 1 .. Len(config)
           /\ \A i \in DOMAIN config : /\ config[i].path \in Path
                                      /\ config[i].roots \in Seq(RootNames)
<1>1. config \in Seq(Location)
  BY ConfigsAssumption DEF TypeOK
<1>2. Len(config) \in Nat /\ DOMAIN config = 1 .. Len(config)
  BY <1>1, LenProperties
<1>3. \A i \in DOMAIN config : config[i] \in Location
  BY <1>1, <1>2, ElementOfSeq
<1> QED
  BY <1>2, <1>3 DEF Location

(* A path in the table under which no seen location was registered is new. *)
LEMMA NewPath ==
    ASSUME TypeOK, AllSeen, NEW q \in Path, q \notin DOMAIN handlers,
           NEW i \in DOMAIN config, Seen(i), Known(i)
    PROVE  ~ Normalised(config[i].path, q)
<1> SUFFICES ASSUME Normalised(config[i].path, q) PROVE FALSE
  OBVIOUS
<1>1. PICK r \in DOMAIN handlers : Normalised(config[i].path, r)
  BY DEF AllSeen
<1>2. r \in Path /\ config[i].path \in Path
  BY <1>1, ConfigOK DEF TypeOK
<1> QED
  BY <1>1, <1>2, NormalisedUnique

(* FirstFor only looks at the configuration.                               *)
LEMMA FirstForStable ==
    ASSUME config' = config, NEW q, NEW i
    PROVE  /\ FirstFor(q, i)' <=> FirstFor(q, i)
           /\ Known(i)' <=> Known(i)
BY DEF FirstFor, Normalised, Known, Matches, EndsInSlash

(* A location that comes after the seen ones is first for no path of the   *)
(* table.                                                                  *)
LEMMA NotFirst ==
    ASSUME TypeOK, OnlySeen, Filling, NEW q \in DOMAIN handlers
    PROVE  ~ FirstFor(q, next)
<1> SUFFICES ASSUME FirstFor(q, next) PROVE FALSE
  OBVIOUS
<1>1. PICK i \in DOMAIN config : Seen(i) /\ FirstFor(q, i)
  BY DEF OnlySeen
<1>2. i \in 1 .. next - 1
  BY <1>1, ConfigOK DEF Seen, TypeOK
<1> QED
  BY <1>1, <1>2 DEF FirstFor

(* registerPath on a location that is already served, or of unknown type.  *)
LEMMA RefusedTable ==
    ASSUME Inv, TableInv, registerPath, registerPathFails
    PROVE  FirstSeen' /\ AllSeen' /\ OnlySeen'
<1>1. /\ handlers' = handlers /\ config' = config /\ next' = next + 1
      /\ phase = "registerPath" /\ phase' = "statement"
      /\ TypeOK /\ uri \in Path /\ ~EndsInSlash(uri) /\ uri # EmptyPath
      /\ next \in Nat
  BY DEF registerPath, Inv, TypeOK, UriOK
<1>2. \A i \in DOMAIN config : Seen(i)' <=> Seen(i) \/ i = next
  BY <1>1, ConfigOK DEF Seen
<1>3. FirstSeen'
  <2> SUFFICES ASSUME NEW i \in DOMAIN config, NEW q \in DOMAIN handlers,
                      Seen(i) \/ i = next, FirstFor(q, i)
               PROVE  handlers[q] = NewHandler(q, config[i].type,
                                               config[i].roots)
    BY <1>1, <1>2, FirstForStable DEF FirstSeen, NewHandler
  <2>1. i # next
    BY <1>1, NotFirst DEF TableInv, Filling
  <2> QED
    BY <2>1 DEF TableInv, FirstSeen
<1>4. AllSeen'
  <2> SUFFICES ASSUME NEW i \in DOMAIN config, Seen(i) \/ i = next, Known(i)
               PROVE  \E q \in DOMAIN handlers :
                          Normalised(config[i].path, q)
    BY <1>1, <1>2 DEF AllSeen, Known, Normalised
  <2>1. CASE Seen(i)
    BY <2>1 DEF TableInv, AllSeen
  <2>2. CASE i = next
    <3>1. uri \in DOMAIN handlers
      BY <2>2 DEF registerPathFails, Known
    <3>2. Normalised(config[next].path, uri)
      BY <1>1 DEF TableInv, Trimmed, Normalised
    <3> QED
      BY <2>2, <3>1, <3>2
  <2> QED
    BY <2>1, <2>2
<1>5. OnlySeen'
  BY <1>1, <1>2, FirstForStable DEF TableInv, OnlySeen, Filling
<1> QED
  BY <1>3, <1>4, <1>5

(* registerPath on a location that is the first for its path.              *)
LEMMA AcceptedTable ==
    ASSUME Inv, TableInv, registerPath, ~registerPathFails
    PROVE  FirstSeen' /\ AllSeen' /\ OnlySeen'
<1> DEFINE h == NewHandler(uri, config[next].type, config[next].roots)
<1>1. /\ handlers' = Bind(uri, h) /\ config' = config /\ next' = next + 1
      /\ phase = "registerPath" /\ phase' = "statement"
      /\ TypeOK /\ uri \in Path /\ ~EndsInSlash(uri) /\ uri # EmptyPath
      /\ next \in Nat \ {0} /\ next =< Len(config)
  BY DEF registerPath, Inv, TypeOK, UriOK, InRange
<1>2. /\ DOMAIN handlers' = DOMAIN handlers \cup {uri}
      /\ handlers'[uri] = h
      /\ \A q \in DOMAIN handlers : q # uri => handlers'[q] = handlers[q]
  BY <1>1 DEF Bind
<1>3. uri \notin DOMAIN handlers /\ Known(next)
  BY DEF registerPathFails, Known
<1>4. \A i \in DOMAIN config : Seen(i)' <=> Seen(i) \/ i = next
  BY <1>1, ConfigOK DEF Seen
<1>5. Normalised(config[next].path, uri) /\ next \in DOMAIN config
  BY <1>1, ConfigOK DEF TableInv, Trimmed, Normalised
<1>6. ASSUME NEW i \in DOMAIN config, Seen(i), Known(i)
      PROVE  ~ Normalised(config[i].path, uri)
  BY <1>1, <1>3, <1>6, NewPath DEF TableInv
<1>7. FirstFor(uri, next)
  <2>1. ASSUME NEW j \in 1 .. next - 1, Known(j)
        PROVE  ~ Normalised(config[j].path, uri)
    <3>1. j \in DOMAIN config /\ Seen(j)
      BY <1>1, ConfigOK DEF Seen
    <3> QED
      BY <1>6, <2>1, <3>1
  <2> QED
    BY <1>3, <1>5, <2>1 DEF FirstFor, Known
<1> HIDE DEF h
<1>8. FirstSeen'
  <2> SUFFICES ASSUME NEW i \in DOMAIN config, NEW q \in DOMAIN handlers',
                      Seen(i) \/ i = next, FirstFor(q, i)
               PROVE  handlers'[q] = NewHandler(q, config[i].type,
                                                config[i].roots)
    BY <1>1, <1>4, FirstForStable DEF FirstSeen, NewHandler
  <2>1. CASE q = uri
    <3>1. ~ Seen(i)
      BY <1>6, <2>1 DEF FirstFor, Known
    <3> QED
      BY <1>2, <2>1, <3>1 DEF h
  <2>2. CASE q # uri
    <3>1. q \in DOMAIN handlers /\ handlers'[q] = handlers[q]
      BY <1>2, <2>2
    <3>2. i # next
      BY <1>1, <3>1, NotFirst DEF TableInv, Filling
    <3> QED
      BY <3>1, <3>2 DEF TableInv, FirstSeen
  <2> QED
    BY <2>1, <2>2
<1>9. AllSeen'
  <2> SUFFICES ASSUME NEW i \in DOMAIN config, Seen(i) \/ i = next, Known(i)
               PROVE  \E q \in DOMAIN handlers' :
                          Normalised(config[i].path, q)
    BY <1>1, <1>4 DEF AllSeen, Known, Normalised
  <2>1. CASE Seen(i)
    BY <1>2, <2>1 DEF TableInv, AllSeen
  <2>2. CASE i = next
    BY <1>2, <1>5, <2>2
  <2> QED
    BY <2>1, <2>2
<1>10. OnlySeen'
  <2> SUFFICES ASSUME NEW q \in DOMAIN handlers'
               PROVE  \E i \in DOMAIN config :
                          (Seen(i) \/ i = next) /\ FirstFor(q, i)
    BY <1>1, <1>4, FirstForStable DEF OnlySeen
  <2>1. CASE q = uri
    BY <1>5, <1>7, <2>1
  <2>2. CASE q # uri
    BY <1>1, <1>2, <2>2 DEF TableInv, OnlySeen, Filling
  <2> QED
    BY <2>1, <2>2
<1> QED
  BY <1>8, <1>9, <1>10

(* The default 404 handler takes a path that no location has.              *)
LEMMA DefaultTable ==
    ASSUME Inv, TableInv, RegisterDefault
    PROVE  FirstSeen' /\ AllSeen' /\ OnlySeen'
<1>1. /\ config' = config /\ next' = next /\ phase = "statement"
      /\ phase' = "ready" /\ TypeOK
      /\ handlers' = IF Root \in DOMAIN handlers THEN handlers
                     ELSE Bind(Root, Handler404)
  BY DEF RegisterDefault, Inv
<1>2. \A i \in DOMAIN config : Seen(i)' <=> Seen(i)
  BY <1>1 DEF Seen
<1>3. CASE Root \in DOMAIN handlers
  <2>1. handlers' = handlers
    BY <1>1, <1>3
  <2>2. FirstSeen'
    BY <1>1, <1>2, <2>1, FirstForStable DEF TableInv, FirstSeen, NewHandler
  <2>3. AllSeen'
    BY <1>1, <1>2, <2>1 DEF TableInv, AllSeen, Known, Normalised
  <2>4. OnlySeen'
    BY <1>1, <1>2, <2>1, FirstForStable DEF TableInv, OnlySeen, Filling
  <2> QED
    BY <2>2, <2>3, <2>4
<1>4. CASE Root \notin DOMAIN handlers
  <2>1. /\ DOMAIN handlers' = DOMAIN handlers \cup {Root}
        /\ handlers'[Root] = Handler404
        /\ \A q \in DOMAIN handlers : q # Root => handlers'[q] = handlers[q]
    BY <1>1, <1>4 DEF Bind
  <2>2. FirstSeen'
    <3> SUFFICES ASSUME NEW i \in DOMAIN config, NEW q \in DOMAIN handlers',
                        Seen(i), FirstFor(q, i)
                 PROVE  handlers'[q] = NewHandler(q, config[i].type,
                                                  config[i].roots)
      BY <1>1, <1>2, FirstForStable DEF FirstSeen, NewHandler
    <3>1. Known(i) /\ Normalised(config[i].path, q)
      BY DEF FirstFor, Known
    <3>2. q # Root
      BY <1>1, <1>4, <3>1, NewPath, RootPath DEF TableInv
    <3> QED
      BY <2>1, <3>2 DEF TableInv, FirstSeen
  <2>3. AllSeen'
    BY <1>1, <1>2, <2>1 DEF TableInv, AllSeen, Known, Normalised
  <2>4. OnlySeen'
    <3> SUFFICES ASSUME NEW q \in DOMAIN handlers', q # Root
                 PROVE  \E i \in DOMAIN config : Seen(i) /\ FirstFor(q, i)
      BY <1>1, <1>2, <2>1, FirstForStable DEF OnlySeen, Filling
    <3> QED
      BY <1>1, <2>1 DEF TableInv, OnlySeen, Filling
  <2> QED
    BY <2>2, <2>3, <2>4
<1> QED
  BY <1>3, <1>4

(* A step that leaves the table, and the place in the configuration, alone.*)
LEMMA SameTable ==
    ASSUME TableInv, UNCHANGED <<config, next, handlers>>, Filling' <=> Filling
    PROVE  FirstSeen' /\ AllSeen' /\ OnlySeen'
<1>1. \A i \in DOMAIN config : Seen(i)' <=> Seen(i)
  BY DEF Seen
<1>2. FirstSeen'
  BY <1>1, FirstForStable DEF TableInv, FirstSeen, NewHandler
<1>3. AllSeen'
  BY <1>1 DEF TableInv, AllSeen, Known, Normalised
<1>4. OnlySeen'
  BY <1>1, FirstForStable DEF TableInv, OnlySeen
<1> QED
  BY <1>2, <1>3, <1>4

(* Every step keeps what the table holds.                                  *)
LEMMA StepTable == Inv /\ TableInv /\ [Next]_dispVars => TableInv'
<1> SUFFICES ASSUME Inv, TableInv, [Next]_dispVars PROVE TableInv'
  OBVIOUS
<1>1. CASE NextStatement
  <2>1. /\ uri' = config[next].path /\ next =< Len(config)
        /\ phase = "statement" /\ phase' = "registerPath"
        /\ UNCHANGED <<config, next, handlers>>
    BY <1>1 DEF NextStatement
  <2>2. /\ config[next].path \in Path
        /\ DOMAIN config[next].path = 1 .. Len(config[next].path)
        /\ Len(config[next].path) \in Nat
    BY <2>1, CurrentLocation, LenProperties DEF Inv, Path
  <2>3. Trimmed'
    BY <2>1, <2>2, MatchesSelf DEF Trimmed
  <2> QED
    BY <2>1, <2>3, SameTable DEF TableInv, Filling
<1>2. CASE PopBack
  <2>1. /\ EndsInSlash(uri) /\ uri \in Path
        /\ uri' = SubSeq(uri, 1, Len(uri) - 1)
        /\ UNCHANGED <<config, next, handlers, phase>>
    BY <1>2 DEF PopBack, Inv, TypeOK
  <2>2. ASSUME phase = "registerPath"
        PROVE  /\ Matches(uri', config[next].path)
               /\ \A i \in DOMAIN config[next].path :
                     i > Len(uri') => config[next].path[i] = "/"
    <3> DEFINE p == config[next].path
    <3>1. p \in Path /\ Len(p) \in Nat /\ DOMAIN p = 1 .. Len(p)
      BY <2>2, CurrentLocation, LenProperties DEF Inv, InRange, Path
    <3>2. uri' \in Path /\ Matches(uri', uri)
      BY <2>1, PopBackOK
    <3>3. Matches(uri, p) /\ \A i \in DOMAIN p : i > Len(uri) => p[i] = "/"
      BY <2>2 DEF TableInv, Trimmed
    <3> HIDE DEF p
    <3>4. Matches(uri', p)
      BY <2>1, <3>1, <3>2, <3>3, MatchesTransitive
    <3>5. Len(uri) \in Nat /\ Len(uri) > 1 /\ uri[Len(uri)] = "/"
      BY <2>1, LenProperties DEF EndsInSlash, Path
    <3>6. Len(uri') = Len(uri) - 1
      <4>1. \A i \in 1 .. Len(uri) - 1 : uri[i] \in Chars
        BY <2>1, <3>5, ElementOfSeq DEF Path
      <4> QED
        BY <2>1, <3>5, <4>1, SubSeqProperties
    <3>7. p[Len(uri)] = "/"
      BY <2>1, <3>1, <3>3, <3>5, MatchesPointwise
    <3>8. ASSUME NEW i \in DOMAIN p, i > Len(uri') PROVE p[i] = "/"
      <4>1. i = Len(uri) \/ i > Len(uri)
        BY <3>1, <3>5, <3>6, <3>8
      <4> QED
        BY <3>3, <3>7, <4>1
    <3> QED
      BY <3>4, <3>8 DEF p
  <2>3. Trimmed'
    BY <2>1, <2>2 DEF Trimmed
  <2> QED
    BY <2>1, <2>3, SameTable DEF TableInv, Filling
<1>3. CASE registerPath
  <2>1. phase' = "statement"
    BY <1>3 DEF registerPath
  <2> QED
    BY <1>3, <2>1, RefusedTable, AcceptedTable DEF TableInv, Trimmed, Filling
<1>4. CASE RegisterDefault
  <2>1. phase' = "ready" /\ next' > Len(config')
    BY <1>4 DEF RegisterDefault
  <2> QED
    BY <1>4, <2>1, DefaultTable DEF TableInv, Trimmed
<1>5. CASE /\ UNCHANGED <<config, next, handlers>>
           /\ ~Filling /\ ~Filling'
  BY <1>5, SameTable DEF TableInv, Trimmed, Filling
<1>6. CASE UNCHANGED dispVars
  <2>1. Trimmed'
    BY <1>6 DEF dispVars, TableInv, Trimmed, Matches
  <2> QED
    BY <1>6, <2>1, SameTable DEF dispVars, TableInv, Filling
<1>7. CASE \/ \E t \in Targets : getRequestHandler(t)
           \/ \E p \in left : Visit(p)
           \/ Return
  <2>1. UNCHANGED <<config, next, handlers>> /\ ~Filling /\ ~Filling'
    BY <1>7 DEF getRequestHandler, Visit, Return, Filling
  <2> QED
    BY <1>5, <2>1
<1> QED
  BY <1>1, <1>2, <1>3, <1>4, <1>6, <1>7 DEF Next

LEMMA InitTable == Init => TableInv
<1> SUFFICES ASSUME Init PROVE TableInv
  OBVIOUS
<1>1. DOMAIN handlers = {} /\ phase = "statement" /\ next = 1
  BY DEF Init
<1>2. \A i \in DOMAIN config : ~Seen(i)
  BY <1>1, InitInv, ConfigOK DEF Inv, Seen
<1> QED
  BY <1>1, <1>2 DEF TableInv, Trimmed, FirstSeen, AllSeen, OnlySeen, Filling

(* Once it is filled, the table holds for each path the handler of the     *)
(* first location of a known type that names it, with or without trailing  *)
(* slashes, and nothing else but the default (TableFromConfig).            *)
THEOREM TableRight == Spec => []TableFromConfig
<1>1. Inv /\ TableInv => TableFromConfig
  <2> SUFFICES ASSUME Inv, TableInv, ~Filling PROVE TableFromConfig
    BY DEF TableFromConfig, Filling
  <2>1. \A i \in DOMAIN config : Seen(i)
    BY ConfigOK DEF Inv, TypeOK, TableInv, Seen
  <2> QED
    BY <2>1 DEF TableFromConfig, TableInv, FirstSeen, AllSeen, OnlySeen, Known
<1> QED
  BY <1>1, InitTable, StepTable, InvHolds, PTL DEF Spec
=============================================================================
