---------------------------- MODULE StaticFiles ----------------------------
(***************************************************************************)
(* RequestHandlerStatic (request_handler_static.cc) behind the dispatcher: *)
(* from the handler that getRequestHandler returned to the file that is    *)
(* sent and the type mime_types.cc gives it.                               *)
(***************************************************************************)
EXTENDS Dispatcher

CONSTANTS
    RootText,   \* the characters of the roots
    Regular,    \* the regular files there are, by paths without "//"
    Readable,   \* those of them the server may open
    MimeTypes   \* mappings: from the known extensions to types

ASSUME RootsAssumption ==
    /\ RootText \in [RootNames \cup {"/"} -> Path]
    /\ RootText["/"] = Root
ASSUME FilesAssumption ==
    /\ Regular \subseteq Path /\ Readable \subseteq Regular
    /\ \A e \in DOMAIN MimeTypes : e \in Seq(Chars \ {".", "/"})

(* The roots are written as absolute paths, which "../" makes relative.    *)
AbsoluteRoots ==
    \A r \in RootNames : RootText[r] # EmptyPath /\ RootText[r][1] = "/"

VARIABLES
    file,       \* uri, once it is a relative path
    status,     \* the status of the response, 0 while there is none
    mime        \* its content type

staticVars == <<file, status, mime>>

(* External: the kernel ignores a "/" after a "/".                         *)
Collapse(p) ==
    LET keep[n \in 0 .. Len(p)] ==
          IF n = 0 THEN << >>
          ELSE IF n > 1 /\ p[n] = "/" /\ p[n - 1] = "/" THEN keep[n - 1]
          ELSE Append(keep[n - 1], p[n])
    IN  keep[Len(p)]

(* Mutant: the prefix stays.                                               *)
FilePathWhole(h, t) ==
    LET u == RootText[h.root] \o t
    IN  <<".", ".", "/">> \o SubSeq(u, 2, Len(u))

(* uri.replace(0, prefix.length(), root); uri.replace(0, 1, "../")         *)
FilePath(h, t) ==
    LET u == RootText[h.root] \o SubSeq(t, Len(h.prefix) + 1, Len(t))
    IN  <<".", ".", "/">> \o SubSeq(u, 2, Len(u))

(* Mutant: the first dot counts.                                           *)
ExtensionFirst(p) ==
    LET dot == CHOOSE i \in DOMAIN p :
                  p[i] = "." /\ \A j \in 3 .. i - 1 : p[j] # "."
    IN  SubSeq(p, dot + 1, Len(p))

(* What follows the last dot; the path has two at least.                   *)
Extension(p) ==
    LET dot == CHOOSE i \in DOMAIN p :
                  p[i] = "." /\ \A j \in i + 1 .. Len(p) : p[j] # "."
    IN  SubSeq(p, dot + 1, Len(p))

extension_to_type(e) ==
    IF e \in DOMAIN MimeTypes THEN MimeTypes[e] ELSE "text/plain"

StaticInit == Init /\ file = EmptyPath /\ status = 0 /\ mime = ""

(* The dispatcher's steps; a new request has no response yet.              *)
Dispatching == Next /\ file' = EmptyPath /\ status' = 0 /\ mime' = ""

(* handleRequest: 404 unless there is a regular file that can be opened.   *)
handleRequest ==
    /\ phase = "returned"
    /\ handler.type = "StaticHandler"
    /\ LET p == FilePath(handler, target)
       IN  /\ file' = p
           /\ IF Collapse(p) \in Readable
              THEN status' = 200 /\ mime' = extension_to_type(Extension(p))
              ELSE status' = 404 /\ mime' = "text/plain"
    /\ UNCHANGED dispVars

StaticNext == Dispatching \/ handleRequest

StaticSpec == StaticInit /\ [][StaticNext]_<<dispVars, staticVars>>

-----------------------------------------------------------------------------
(* Properties.                                                             *)

(* A file below the root is found under the path of its location, a slash  *)
(* and its name, whether or not the location or the root is written with a *)
(* slash at the end; for the location "/" the root must be written so.     *)
StaticFilesFound ==
    status # 0 =>
        \A i \in DOMAIN config, q \in {matched} :
            LET root == RootText[handler.root]
                name == SubSeq(target, Len(q) + 1, Len(target))
            IN  /\ FirstFor(q, i)
                /\ q # Root => Matches(<<"/">>, name)
                /\ q = Root => root[Len(root)] = "/"
                /\ Collapse(<<".", ".">> \o root \o <<"/">> \o name)
                     \in Readable
                => status = 200

(* The type of a file is that of the ending of its own name, if that is    *)
(* known, and never comes of a dot in a directory's name.                  *)
MimeByName ==
    status = 200 =>
        LET Ending(i) == SubSeq(file, i + 1, Len(file))
            known == {i \in DOMAIN file : /\ file[i] = "."
                                         /\ Ending(i) \in DOMAIN MimeTypes}
        IN  IF known = {} THEN mime = "text/plain"
            ELSE \A i \in known : mime = MimeTypes[Ending(i)]
=============================================================================
