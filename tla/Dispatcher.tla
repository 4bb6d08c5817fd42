----------------------------- MODULE Dispatcher -----------------------------
(***************************************************************************)
(* RequestHandlerDispatcher (request_handler_dispatcher.cc): the table     *)
(* from path prefixes to request handlers, filled once from the location   *)
(* statements of the configuration, and the longest-prefix lookup that     *)
(* session::handle_read_callback makes for every authenticated request.    *)
(*                                                                         *)
(* A path is a sequence of characters; only "/" is special.  The loops of  *)
(* the code (dropping trailing slashes, going through handlers_) are steps *)
(* of the model.  The order of the std::map is abstracted from: the lookup *)
(* visits the entries of handlers_ in any order.                           *)
(***************************************************************************)
EXTENDS Sequences, Naturals

CONSTANTS
    Chars,      \* the characters of paths, "/" among them
    TypeNames,  \* the tokens that may stand for a handler type
    RootNames,  \* the tokens that may stand for a root
    Configs,    \* the configurations: sequences of location statements
    Targets     \* the request targets

(* location <path> <type> { root <root>; ... }: the tokens of one child    *)
(* statement of the server block and the roots its block names.            *)
Path      == Seq(Chars)
EmptyPath == << >>
Location  == [path: Path, type: TypeNames, roots: Seq(RootNames)]

ASSUME CharsAssumption == "/" \in Chars

(* A token is never empty, and so is no target Beast's parser accepts.     *)
ASSUME ConfigsAssumption ==
    /\ Configs \subseteq Seq(Location)
    /\ \A c \in Configs : \A i \in DOMAIN c : c[i].path # EmptyPath
ASSUME TargetsAssumption == Targets \subseteq Path \ {EmptyPath}

VARIABLES
    config,     \* the location statements
    next,       \* the statement initRequestHandlers looks at
    handlers,   \* handlers_: a function from paths to handlers
    phase,      \* where the code is
    target,     \* the target of the request
    uri,        \* path_uri or uri, while trailing slashes are dropped
    left,       \* the entries of handlers_ the lookup has not visited
    matched,    \* matched_prefix
    handler     \* matched_handler

dispVars == <<config, next, handlers, phase, target, uri, left, matched,
              handler>>

Root == <<"/">>
RootedTypes == {"StaticHandler", "APIHandler"}
PlainTypes  == {"EchoHandler", "HealthHandler", "SleepHandler"}

(* nullptr                                                                 *)
NoHandler == [type |-> "none", prefix |-> EmptyPath, root |-> ""]
(* RequestHandler404, which knows neither a prefix nor a root.             *)
Handler404 == [type |-> "404Handler", prefix |-> EmptyPath, root |-> ""]

(* Mutant: the handler is given the path as it is configured.              *)
NewHandlerRaw(path, type, roots) ==
    IF type \in RootedTypes
    THEN [type |-> type, prefix |-> config[next].path,
          root |-> IF roots = << >> THEN "/" ELSE roots[Len(roots)]]
    ELSE [type |-> type, prefix |-> EmptyPath, root |-> ""]

(* The handler registerPath builds: the last root statement wins, "/" is   *)
(* the default; only two types keep their prefix and root.                 *)
NewHandler(path, type, roots) ==
    IF type \in RootedTypes
    THEN [type |-> type, prefix |-> path,
          root |-> IF roots = << >> THEN "/" ELSE roots[Len(roots)]]
    ELSE [type |-> type, prefix |-> EmptyPath, root |-> ""]

(* handlers_[path] = h                                                     *)
Bind(path, h) ==
    [p \in DOMAIN handlers \cup {path} |->
        IF p = path THEN h ELSE handlers[p]]

(* Mutant: > 0 for > 1.                                                    *)
EndsInSlashToo(p) == Len(p) > 0 /\ p[Len(p)] = "/"

EndsInSlash(p) == Len(p) > 1 /\ p[Len(p)] = "/"

(* uri.substr(0, p.length()) == p                                          *)
Matches(p, u) == Len(p) =< Len(u) /\ SubSeq(u, 1, Len(p)) = p

-----------------------------------------------------------------------------

Init ==
    /\ config \in Configs
    /\ next = 1
    /\ handlers = [p \in {} |-> NoHandler]
    /\ phase = "statement"
    /\ target = Root
    /\ uri = Root
    /\ left = {}
    /\ matched = EmptyPath
    /\ handler = NoHandler

(* initRequestHandlers: registerPath(tokens_[1], tokens_[2], block).       *)
NextStatement ==
    /\ phase = "statement"
    /\ next =< Len(config)
    /\ uri' = config[next].path
    /\ phase' = "registerPath"
    /\ UNCHANGED <<config, next, handlers, target, left, matched, handler>>

(* while (length() > 1 && back() == '/') pop_back(), in registerPath and   *)
(* in getRequestHandler.                                                   *)
PopBack ==
    /\ phase \in {"registerPath", "getRequestHandler"}
    /\ EndsInSlash(uri)
    /\ uri' = SubSeq(uri, 1, Len(uri) - 1)
    /\ UNCHANGED <<config, next, handlers, phase, target, left, matched,
                   handler>>

(* Mutants: one of the two conditions is forgotten.                        *)
registerPathFailsKnown == uri \in DOMAIN handlers
registerPathFailsType ==
    config[next].type \notin RootedTypes \cup PlainTypes

(* registerPath: the path is taken already, or the type is not known.      *)
registerPathFails ==
    \/ uri \in DOMAIN handlers
    \/ config[next].type \notin RootedTypes \cup PlainTypes

registerPath ==
    /\ phase = "registerPath"
    /\ ~EndsInSlash(uri)
    /\ handlers' = IF registerPathFails THEN handlers
                   ELSE Bind(uri, NewHandler(uri, config[next].type,
                                             config[next].roots))
    /\ next' = next + 1
    /\ phase' = "statement"
    /\ UNCHANGED <<config, target, uri, left, matched, handler>>

(* Mutant: there is no default.                                            *)
RegisterNoDefault ==
    /\ phase = "statement"
    /\ next > Len(config)
    /\ phase' = "ready"
    /\ UNCHANGED <<config, next, handlers, target, uri, left, matched,
                   handler>>

(* The end of initRequestHandlers: "/" is answered by 404 by default.      *)
RegisterDefault ==
    /\ phase = "statement"
    /\ next > Len(config)
    /\ handlers' = IF Root \in DOMAIN handlers THEN handlers
                   ELSE Bind(Root, Handler404)
    /\ phase' = "ready"
    /\ UNCHANGED <<config, next, target, uri, left, matched, handler>>

(* getRequestHandler(t)                                                    *)
getRequestHandler(t) ==
    /\ phase \in {"ready", "returned"}
    /\ target' = t
    /\ uri' = t
    /\ left' = DOMAIN handlers
    /\ matched' = EmptyPath
    /\ handler' = NoHandler
    /\ phase' = "getRequestHandler"
    /\ UNCHANGED <<config, next, handlers>>

(* Mutant: the last match wins.                                            *)
VisitLast(p) ==
    /\ phase = "getRequestHandler"
    /\ ~EndsInSlash(uri)
    /\ left' = left \ {p}
    /\ IF Matches(p, uri) THEN matched' = p /\ handler' = handlers[p]
       ELSE UNCHANGED <<matched, handler>>
    /\ UNCHANGED <<config, next, handlers, phase, target, uri>>

(* One entry of handlers_: keep it if it is a longer match.                *)
Visit(p) ==
    /\ phase = "getRequestHandler"
    /\ ~EndsInSlash(uri)
    /\ left' = left \ {p}
    /\ IF Matches(p, uri) /\ Len(p) > Len(matched)
       THEN matched' = p /\ handler' = handlers[p]
       ELSE UNCHANGED <<matched, handler>>
    /\ UNCHANGED <<config, next, handlers, phase, target, uri>>

Return ==
    /\ phase = "getRequestHandler"
    /\ ~EndsInSlash(uri)
    /\ left = {}
    /\ phase' = "returned"
    /\ UNCHANGED <<config, next, handlers, target, uri, left, matched,
                   handler>>

Next ==
    \/ NextStatement
    \/ PopBack
    \/ registerPath
    \/ RegisterDefault
    \/ \E t \in Targets : getRequestHandler(t)
    \/ \E p \in left : Visit(p)
    \/ Return

Spec == Init /\ [][Next]_dispVars

-----------------------------------------------------------------------------
(* Properties.                                                             *)

Handler == [type: TypeNames \cup {"none", "404Handler"}, prefix: Path,
            root: RootNames \cup {"", "/"}]

(* Types of all the state.                                                 *)
TypeOK ==
    /\ config \in Configs
    /\ next \in Nat \ {0}
    /\ DOMAIN handlers \subseteq Path
    /\ \A p \in DOMAIN handlers : handlers[p] \in Handler
    /\ phase \in {"statement", "registerPath", "ready", "getRequestHandler",
                  "returned"}
    /\ target \in Path
    /\ uri \in Path
    /\ left \subseteq DOMAIN handlers
    /\ matched \in Path
    /\ handler \in Handler

(* When getRequestHandler returns, no registered prefix of the uri is      *)
(* longer than the one that was chosen, and the handler is the one         *)
(* registered for it; nullptr is returned only if there is no such prefix. *)
LongestPrefix ==
    phase = "returned" =>
        /\ \A p \in DOMAIN handlers :
              Matches(p, uri) => Len(p) =< Len(matched)
        /\ IF matched = EmptyPath THEN handler = NoHandler
           ELSE /\ matched \in DOMAIN handlers
                /\ Matches(matched, uri)
                /\ handler = handlers[matched]

(* Every target that starts with "/" finds a handler, if only the default  *)
(* one: dropping slashes stops before the uri is empty.                    *)
AlwaysAnswered ==
    phase = "returned" /\ target[1] = "/" => handler # NoHandler

(* A registered path has no trailing slash, so that no entry of the table  *)
(* is out of the reach of a uri without one.                               *)
PathsNormalised == \A p \in DOMAIN handlers : p # EmptyPath /\ ~EndsInSlash(p)

(* RequestHandlerAPI::removePrefix and RequestHandlerStatic cut the        *)
(* handler's prefix off the TARGET, with its trailing slashes: it is a     *)
(* prefix of that too, so removePrefix never fails for a dispatched one.   *)
PrefixOfTarget ==
    phase = "returned" /\ handler.type \in RootedTypes =>
        handler.prefix = matched /\ Matches(handler.prefix, target)

(* q is p without its trailing slashes, "/" being left alone.              *)
Normalised(p, q) ==
    /\ q # EmptyPath
    /\ Matches(q, p)
    /\ ~EndsInSlash(q)
    /\ \A i \in DOMAIN p : i > Len(q) => p[i] = "/"

(* Location i is the first of a known type for the path q.                 *)
FirstFor(q, i) ==
    /\ config[i].type \in RootedTypes \cup PlainTypes
    /\ Normalised(config[i].path, q)
    /\ \A j \in 1 .. i - 1 :
          config[j].type \in RootedTypes \cup PlainTypes
            => ~Normalised(config[j].path, q)

(* Once the table is filled, it holds for each path the handler of the     *)
(* first location that names the path, with or without trailing slashes,   *)
(* and nothing else but the default.                                       *)
TableFromConfig ==
    phase \notin {"statement", "registerPath"} =>
        /\ \A i \in DOMAIN config, q \in DOMAIN handlers :
              FirstFor(q, i) => handlers[q] =
                  NewHandler(q, config[i].type, config[i].roots)
        /\ \A i \in DOMAIN config :
              config[i].type \in RootedTypes \cup PlainTypes =>
                  \E q \in DOMAIN handlers : Normalised(config[i].path, q)
        /\ \A q \in DOMAIN handlers :
              \/ q = Root /\ handlers[q] = Handler404
              \/ \E i \in DOMAIN config : FirstFor(q, i)

-----------------------------------------------------------------------------
(* The inductive invariant behind the lookup's properties, by parts.       *)

Looking == phase \in {"getRequestHandler", "returned"}

(* The table: every entry is a handler that knows its own path.            *)
TableOK ==
    \A p \in DOMAIN handlers :
        /\ handlers[p] # NoHandler
        /\ handlers[p].type \in RootedTypes => handlers[p].prefix = p

(* registerPath works on the statement at hand.                            *)
InRange == phase = "registerPath" => next =< Len(config)

(* "/" is in the table before the first lookup.                            *)
RootKnown ==
    phase \notin {"statement", "registerPath"} => Root \in DOMAIN handlers

(* Dropping slashes leaves a prefix of what there was, and never nothing.  *)
UriOK == /\ uri # EmptyPath
         /\ Looking => Matches(uri, target)

(* Slashes are dropped before the first entry is visited.                  *)
NotStarted == left = DOMAIN handlers /\ matched = EmptyPath

(* The best match among the entries already visited.                       *)
BestSoFar ==
    Looking =>
        /\ EndsInSlash(uri) => NotStarted /\ phase # "returned"
        /\ phase = "returned" => left = {}
        /\ \A p \in DOMAIN handlers \ left :
              Matches(p, uri) => Len(p) =< Len(matched)
        /\ IF matched = EmptyPath THEN handler = NoHandler
           ELSE /\ matched \in DOMAIN handlers
                /\ Matches(matched, uri)
                /\ handler = handlers[matched]

Inv == /\ TypeOK
       /\ PathsNormalised
       /\ TableOK
       /\ InRange
       /\ RootKnown
       /\ UriOK
       /\ BestSoFar
=============================================================================
