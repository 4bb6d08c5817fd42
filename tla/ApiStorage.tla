----------------------------- MODULE ApiStorage -----------------------------
(***************************************************************************)
(* The CRUD API: RequestHandlerAPI::handleRequest over CRUDHandler over    *)
(* FileStorage, on the part of the file system they use, with the process  *)
(* dying (SIGINT, or an exception that leaves a noexcept function) and     *)
(* being started again.                                                    *)
(*                                                                         *)
(* exists, create_directories and remove throw.  The model tells apart     *)
(* what the requests bring about themselves, a file where a directory has  *)
(* to be or a directory that is not empty, and what the kernel may refuse  *)
(* at any time: a name that is too long, a permission, space, an I/O error.*)
(*                                                                         *)
(* A request target is the handler's prefix followed by "/x" for each      *)
(* segment x of a sequence t; << >> is the bare prefix, <<"">> the prefix  *)
(* and a slash.  The kernel ignores empty segments.  A path of the model   *)
(* starts with "root", the directory the configuration names, or with      *)
(* "beside", the directory that holds the directories whose names begin    *)
(* with the root's name.                                                   *)
(*                                                                         *)
(* One thread serves the requests, so only the death of the process can    *)
(* come between the steps of FileStorage::write.                           *)
(***************************************************************************)
EXTENDS Sequences, Naturals, FiniteSetsExt, SequencesExt

CONSTANTS
    Creates,    \* the targets of POST requests
    Targets,    \* the targets of the other requests
    Data,       \* the bodies clients send
    Empty,      \* the content of an empty file
    Digits,     \* the segments that start with a digit
    Value,      \* boost::lexical_cast<int> on the segments it accepts
    Name,       \* std::to_string on the ids
    PrefixName, \* the last segment of the handler's own prefix
    RootSlash,  \* whether the configured root ends with "/"
    MaxId       \* bound: no more objects of one entity than this

Ids == DOMAIN Name

(* What std::to_string and boost::lexical_cast<int> give each other.       *)
ASSUME NamesAssumption ==
    /\ MaxId \in Nat
    /\ 1 .. MaxId \subseteq Ids
    /\ \A i \in Ids : Name[i] \in STRING \ {""}
    /\ \A i, j \in Ids : Name[i] = Name[j] => i = j
    /\ \A n \in DOMAIN Value : Value[n] \in Ids
    /\ \A i \in 1 .. MaxId :
          Name[i] \in Digits \cap DOMAIN Value /\ Value[Name[i]] = i

ASSUME TargetsAssumption ==
    /\ RootSlash \in BOOLEAN
    /\ PrefixName \in STRING \ {""}
    /\ Creates \subseteq Seq(STRING)
    /\ Targets \subseteq Seq(STRING)

VARIABLES
    dirs,       \* the directories that exist
    files,      \* the regular files: a function from paths to contents
    server,     \* "up", "open", "flush" (inside write), "down" (exit), or
                \* ended by an exception: "terminated", "refused"
    op,         \* the write in progress: [kind, target, path, id, data]
    reply,      \* the last response: [kind, target, status, body]
    acked       \* history: what clients were told each path may hold

apiVars == <<dirs, files, server, op, reply, acked>>

NoOp == [kind |-> "none", target |-> << >>, path |-> << >>, id |-> 0,
         data |-> Empty]
Reply(kind, t, status, body) ==
    [kind |-> kind, target |-> t, status |-> status, body |-> body]
NoReply == Reply("none", << >>, 0, << >>)

-----------------------------------------------------------------------------
(* Names.                                                                  *)

(* The segments of a target that the kernel sees.                          *)
Clean(t) ==
    LET kept[n \in 0 .. Len(t)] ==
            IF n = 0 THEN << >>
            ELSE IF t[n] = "" THEN kept[n - 1] ELSE Append(kept[n - 1], t[n])
    IN  kept[Len(t)]

(* Mutant: the slash between root and entity is always missing.            *)
PostDirBeside(t) == <<"beside", IF t = << >> THEN PrefixName ELSE Last(t)>>

(* base_path_ + entity, where POST's entity is the text after the target's *)
(* last slash: without a slash between them when the root ends in none.    *)
PostDir(t) ==
    LET entity == IF t = << >> THEN PrefixName ELSE Last(t)
    IN  IF RootSlash \/ entity = "" THEN <<"root">> \o Clean(<<entity>>)
        ELSE <<"beside", entity>>

(* base_path_ + entity, where the entity starts with "/" or is empty.      *)
DirOf(t) == <<"root">> \o Clean(t)

(* entity_id.substr(0, find_last_of('/')) and what follows the slash.      *)
Entity(t) == IF t = << >> THEN << >> ELSE Front(t)
IdStr(t)  == IF t = << >> THEN "" ELSE Last(t)

getPath(dir, id) == Append(dir, id)

(* The directories requests may use, and the paths objects may have.       *)
Dirs == {PostDir(t) : t \in Creates} \cup {DirOf(Entity(t)) : t \in Targets}
Keys == {getPath(d, Name[i]) : d \in Dirs, i \in Ids}

-----------------------------------------------------------------------------
(* The file system.                                                        *)

Exists(path) == path \in dirs \cup DOMAIN files

(* dir and the directories above it.                                       *)
Ancestors(dir) == {SubSeq(dir, 1, n) : n \in 1 .. Len(dir)}

(* No object is where a directory of a request has to be: the entities are *)
(* named so that no path of an object leads to one of them.                *)
Separate == \A d \in Dirs : Ancestors(d) \cap Keys = {}

(* create_directories throws when a file is where a directory should be.   *)
CannotCreate(dir) == Ancestors(dir) \cap DOMAIN files # {}

(* remove throws when the directory is not empty.                          *)
CannotRemove(path) ==
    \E p \in dirs \cup DOMAIN files : Len(p) > Len(path) /\ IsPrefix(path, p)

Content(path, data) == [p \in DOMAIN files \cup {path} |->
                           IF p = path THEN data ELSE files[p]]
Without(f, path) == [p \in DOMAIN f \ {path} |-> f[p]]

(* The ids no object of the directory has.                                 *)
Free(dir) == {i \in 1 .. MaxId : ~Exists(getPath(dir, Name[i]))}

(* Mutant: counts down from the bound.                                     *)
getNextIdLast(dir) == Max(Free(dir))

(* Mutant: one more than there are objects.                                *)
getNextIdByCount(dir) == MaxId - Cardinality(Free(dir)) + 1

(* CRUDHandler::getNextId counts up from 1 to the first one.               *)
getNextId(dir) == Min(Free(dir))

(* The loop of the list request stops at the first id that is not there.   *)
Listed(dir) == {i \in 1 .. MaxId :
                   \A j \in 1 .. i : Exists(getPath(dir, Name[j]))}

-----------------------------------------------------------------------------

Init ==
    /\ dirs = {}
    /\ files = [p \in {} |-> Empty]
    /\ server = "up"
    /\ op = NoOp
    /\ reply = NoReply
    /\ acked = [p \in {} |-> {}]

(* An exception leaves handleRequest, which is noexcept: std::terminate.   *)
Terminate ==
    /\ server' = "terminated"
    /\ UNCHANGED <<dirs, files, op, reply, acked>>

(* The same when the kernel refuses what exists or remove asks for.        *)
Refuse ==
    /\ server' = "refused"
    /\ UNCHANGED <<dirs, files, op, reply, acked>>

(* create_directories makes the missing directories from the top down; the *)
(* kernel may refuse any of them when the ones above it have been made.    *)
RefuseDirectory(dir) ==
    /\ \E a \in Ancestors(dir) \ dirs :
          dirs' = dirs \cup (Ancestors(a) \ {a})
    /\ server' = "refused"
    /\ UNCHANGED <<files, op, reply, acked>>

Respond(kind, t, status, body) ==
    /\ reply' = Reply(kind, t, status, body)
    /\ UNCHANGED <<dirs, files, server, op, acked>>

(* FileStorage::write up to create_directories.                            *)
StartWrite(kind, t, dir, id, seg, data) ==
    \/ /\ CannotCreate(dir)
       /\ Terminate
    \/ /\ ~CannotCreate(dir)
       /\ RefuseDirectory(dir)
    \/ /\ ~CannotCreate(dir)
       /\ dirs' = dirs \cup Ancestors(dir)
       /\ op' = [kind |-> kind, target |-> t, path |-> getPath(dir, seg),
                 id |-> id, data |-> data]
       /\ server' = "open"
       /\ UNCHANGED <<files, reply, acked>>

(* POST: CRUDHandler::create                                               *)
Post(t, data) ==
    /\ server = "up"
    /\ Free(PostDir(t)) # {}
    /\ \/ LET id == getNextId(PostDir(t))
          IN  StartWrite("post", t, PostDir(t), id, Name[id], data)
       \/ Refuse

(* std::ofstream ofs(path): creates or truncates the file; on a directory  *)
(* it fails, which nobody looks at.                                        *)
Open ==
    /\ server = "open"
    /\ files' = IF op.path \in dirs THEN files ELSE Content(op.path, Empty)
    /\ acked' = IF op.kind = "put" /\ op.path \in DOMAIN acked
                THEN [acked EXCEPT ![op.path] = @ \cup {Empty, op.data}]
                ELSE acked
    /\ server' = "flush"
    /\ UNCHANGED <<dirs, op, reply>>

(* Mutant: the response is sent and the data still in the stream.          *)
FlushNothing ==
    /\ server = "flush"
    /\ acked' = [p \in DOMAIN acked \cup {op.path} |->
                    IF p = op.path THEN {op.data} ELSE acked[p]]
    /\ op' = NoOp
    /\ server' = "up"
    /\ UNCHANGED <<dirs, files, reply>>

(* ofs << data; flush; close; and the response.                            *)
Flush ==
    /\ server = "flush"
    /\ files' = IF op.path \in dirs THEN files ELSE Content(op.path, op.data)
    /\ acked' = [p \in DOMAIN acked \cup {op.path} |->
                    IF p = op.path THEN {op.data} ELSE acked[p]]
    /\ reply' = Reply(op.kind, op.target, 200,
                      IF op.kind = "post" THEN <<op.id>> ELSE << >>)
    /\ op' = NoOp
    /\ server' = "up"
    /\ UNCHANGED dirs

(* GET: a list if the last segment does not start with a digit, an object  *)
(* otherwise.  Reading a directory as a file yields nothing.               *)
Read(t) ==
    LET path == getPath(DirOf(Entity(t)), Name[Value[IdStr(t)]])
    IN  IF IdStr(t) \notin DOMAIN Value \/ ~Exists(path)
        THEN Reply("get", t, 404, << >>)
        ELSE Reply("get", t, 200,
                   <<IF path \in dirs THEN Empty ELSE files[path]>>)

Get(t) ==
    /\ server = "up"
    /\ \/ /\ IdStr(t) \notin Digits
          /\ Respond("list", t, 200, Listed(DirOf(t)))
       \/ /\ IdStr(t) \in Digits
          /\ Respond("get", t, Read(t).status, Read(t).body)
       \/ /\ IdStr(t) \notin Digits \/ IdStr(t) \in DOMAIN Value
          /\ Refuse

(* PUT: CRUDHandler::update                                                *)
Put(t, data) ==
    /\ server = "up"
    /\ \/ IF /\ IdStr(t) \in DOMAIN Value
             /\ Exists(getPath(DirOf(Entity(t)), Name[Value[IdStr(t)]]))
          THEN StartWrite("put", t, DirOf(Entity(t)), Value[IdStr(t)],
                          Name[Value[IdStr(t)]], data)
          ELSE Respond("put", t, 404, << >>)
       \/ IdStr(t) \in DOMAIN Value /\ Refuse

(* Mutant: bad_lexical_cast is not caught.                                 *)
DeleteUncaught(t) ==
    /\ server = "up"
    /\ IdStr(t) \notin DOMAIN Value
    /\ Terminate

(* DELETE: CRUDHandler::delete_                                            *)
Delete(t) ==
    /\ server = "up"
    /\ \/ IF IdStr(t) \notin DOMAIN Value
          THEN Respond("delete", t, 400, << >>)
          ELSE LET path == getPath(DirOf(Entity(t)), Name[Value[IdStr(t)]])
               IN  IF ~Exists(path) THEN Respond("delete", t, 404, << >>)
                   ELSE IF CannotRemove(path) THEN Terminate
                   ELSE /\ dirs' = dirs \ {path}
                        /\ files' = Without(files, path)
                        /\ acked' = Without(acked, path)
                        /\ reply' = Reply("delete", t, 200, << >>)
                        /\ UNCHANGED <<server, op>>
       \/ IdStr(t) \in DOMAIN Value /\ Refuse

(* Any other method.                                                       *)
OtherMethod(t) == server = "up" /\ Respond("other", t, 400, << >>)

(* signalHandler calls exit(1) wherever the thread is.                     *)
Crash ==
    /\ server \in {"up", "open", "flush"}
    /\ server' = "down"
    /\ op' = NoOp
    /\ UNCHANGED <<dirs, files, reply, acked>>

Restart ==
    /\ server \in {"down", "terminated", "refused"}
    /\ server' = "up"
    /\ op' = NoOp
    /\ reply' = NoReply
    /\ UNCHANGED <<dirs, files, acked>>

Next ==
    \/ \E t \in Creates, d \in Data : Post(t, d)
    \/ \E t \in Targets, d \in Data : Put(t, d)
    \/ \E t \in Targets : Get(t) \/ Delete(t) \/ OtherMethod(t)
    \/ Open
    \/ Flush
    \/ Crash
    \/ Restart

Spec == Init /\ [][Next]_apiVars

-----------------------------------------------------------------------------
(* Properties.                                                             *)

(* What a client was told is stored is stored, through any number of other *)
(* requests, deaths of the process and restarts; an update that was cut    *)
(* short leaves the object old, empty or new, but never without a file.    *)
AckedDurable ==
    \A p \in DOMAIN acked : p \in DOMAIN files /\ files[p] \in acked[p]

(* The same whatever the entities are called, but for one case: an update  *)
(* of an id that is a directory is acknowledged and stores nothing, since  *)
(* nobody looks at the state of the stream.  No other request, and no end  *)
(* of the process, takes away or changes what was acknowledged.            *)
AckedOrDirectory ==
    \A p \in DOMAIN acked :
        \/ p \in dirs
        \/ p \in DOMAIN files /\ files[p] \in acked[p]

(* POST creates an object; it never writes over one, though ids of deleted *)
(* objects are given out again.                                            *)
CreateIsFresh ==
    server = "open" /\ op.kind = "post" =>
        ~Exists(op.path) /\ op.path \notin DOMAIN acked

(* The id POST returns is the one to GET the object with, on the target it *)
(* was posted to.                                                          *)
CreatedIsReadable ==
    reply.kind = "post" /\ server = "up" =>
        LET t    == Clean(reply.target)
            path == PostDir(reply.target)
            name == Name[reply.body[1]]
        IN  /\ getPath(path, name) \in DOMAIN acked
            /\ Read(Append(t, name)).status = 200
            /\ Read(Append(t, name)).body[1] \in acked[getPath(path, name)]

(* The ids of a directory have no gap, so that a list has all its objects. *)
NoGap(dir) == \A i, j \in 1 .. MaxId :
                 /\ i < j
                 /\ Exists(getPath(dir, Name[j]))
                 => Exists(getPath(dir, Name[i]))

(* Only a DELETE can hide objects behind a gap (the list stops there); no  *)
(* creation does, also none that the death of the process cuts short, and  *)
(* neither does a restart.                                                 *)
OnlyDeleteHides ==
    [][ \A dir \in {PostDir(t) : t \in Creates} :
            NoGap(dir) => NoGap(dir)' \/ \E t \in Targets : Delete(t)
      ]_apiVars

(* No exception leaves a handler unless the kernel refuses a call: what    *)
(* earlier requests, deaths of the process and refusals left in the file   *)
(* system never makes create_directories or remove throw.                  *)
OnlyRefusalsTerminate == server # "terminated"

(* The storage implements ObjectStore: an object is a regular file.        *)
Store == INSTANCE ObjectStore
             WITH Keys    <- Keys,
                  Data    <- Data,
                  Empty   <- Empty,
                  objects <- files,
                  writing <- IF server = "flush" /\ op.path \notin dirs
                             THEN [kind |-> op.kind, key |-> op.path]
                             ELSE [kind |-> "idle", key |-> << >>]

(* Every behaviour of the API's storage is one of ObjectStore.             *)
ImplementsStore == Store!Spec
=============================================================================
