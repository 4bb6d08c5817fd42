---------------------------- MODULE StaticProofs ----------------------------
(***************************************************************************)
(* Proofs about StaticFiles, for every configuration, every set of files   *)
(* and every table of types.                                               *)
(***************************************************************************)
EXTENDS StaticFiles, DispatcherProofs, DataLemmas

(* The slashes Collapse drops.                                             *)
Doubled(p, n) == n > 1 /\ p[n] = "/" /\ p[n - 1] = "/"

(* What Collapse computes from one character to the next.                  *)
LEMMA CollapseKept ==
    ASSUME NEW S, NEW p \in Seq(S)
    PROVE  \E keep :
              /\ Collapse(p) = keep[Len(p)]
              /\ keep[0] = << >>
              /\ \A n \in 1 .. Len(p) :
                    keep[n] = IF Doubled(p, n) THEN keep[n - 1]
                              ELSE Extended(keep[n - 1], p[n])
<1> DEFINE Row(f, n) == IF n = 0 THEN << >>
                        ELSE IF n > 1 /\ p[n] = "/" /\ p[n - 1] = "/"
                             THEN f[n - 1]
                             ELSE Append(f[n - 1], p[n])
           keep == CHOOSE f : f = [n \in 0 .. Len(p) |-> Row(f, n)]
           Dropped == {n \in 1 .. Len(p) : Doubled(p, n)}
<1>1. Collapse(p) = keep[Len(p)]
  BY DEF Collapse
<1>2. Len(p) \in Nat
  BY LenProperties
<1>3. \A f, n : n # 0 => Row(f, n) = IF Doubled(p, n) THEN f[n - 1]
                                     ELSE Extended(f[n - 1], p[n])
  BY DEF Doubled, Extended
<1>4. \A f : Row(f, 0) = << >>
  OBVIOUS
<1> HIDE DEF Row
<1>5. keep = [n \in 0 .. Len(p) |-> Row(keep, n)]
  <2>1. PICK f : Copies(f, p, Dropped, Len(p))
    BY <1>2, CopyExists
  <2>2. ASSUME NEW n \in 0 .. Len(p)
        PROVE  f[n] = Row(f, n)
    <3>1. CASE n = 0
      BY <1>4, <2>1, <3>1 DEF Copies
    <3>2. CASE n # 0
      <4>1. n \in 1 .. Len(p)
        BY <1>2, <3>2
      <4>2. n \in Dropped <=> Doubled(p, n)
        BY <4>1
      <4> HIDE DEF Dropped
      <4> QED
        BY <1>3, <2>1, <3>2, <4>1, <4>2 DEF Copies
    <3> QED
      BY <3>1, <3>2
  <2>3. f = [n \in 0 .. Len(p) |-> f[n]]
    BY <2>1 DEF Copies
  <2>4. f = [n \in 0 .. Len(p) |-> Row(f, n)]
    BY <2>2, <2>3
  <2> QED
    BY <2>4
<1> HIDE DEF keep
<1>6. \A n \in 0 .. Len(p) : keep[n] = Row(keep, n)
  BY <1>5
<1>7. keep[0] = << >>
  BY <1>2, <1>4, <1>6
<1>8. ASSUME NEW n \in 1 .. Len(p)
      PROVE  keep[n] = IF Doubled(p, n) THEN keep[n - 1]
                       ELSE Extended(keep[n - 1], p[n])
  <2>1. n \in 0 .. Len(p) /\ n # 0
    BY <1>2
  <2> QED
    BY <1>3, <1>6, <2>1
<1> QED
  BY <1>1, <1>7, <1>8

(* A second slash behind a slash is as good as none: r is p with one more  *)
(* slash behind the slash at m.                                            *)
LEMMA CollapseDouble ==
    ASSUME NEW S, NEW p \in Seq(S), NEW r \in Seq(S), NEW m \in 1 .. Len(p),
           Len(r) = Len(p) + 1, p[m] = "/", r[m + 1] = "/",
           \A i \in 1 .. m : r[i] = p[i],
           \A i \in m + 1 .. Len(p) : r[i + 1] = p[i]
    PROVE  Collapse(r) = Collapse(p)
<1>1. Len(p) \in Nat /\ m \in Nat /\ m >= 1 /\ m <= Len(p)
  BY LenProperties
<1>2. PICK kp :
         /\ Collapse(p) = kp[Len(p)]
         /\ kp[0] = << >>
         /\ \A n \in 1 .. Len(p) :
               kp[n] = IF Doubled(p, n) THEN kp[n - 1]
                       ELSE Extended(kp[n - 1], p[n])
  BY CollapseKept
<1>3. PICK kr :
         /\ Collapse(r) = kr[Len(r)]
         /\ kr[0] = << >>
         /\ \A n \in 1 .. Len(r) :
               kr[n] = IF Doubled(r, n) THEN kr[n - 1]
                       ELSE Extended(kr[n - 1], r[n])
  BY CollapseKept
<1>4. \A n \in Nat : n <= m => kr[n] = kp[n]
  <2> DEFINE Same == {n \in Nat : n <= m => kr[n] = kp[n]}
  <2>1. 0 \in Same
    BY <1>2, <1>3
  <2>2. ASSUME NEW n \in Nat, n \in Same
        PROVE  n + 1 \in Same
    <3> SUFFICES ASSUME n + 1 <= m PROVE kr[n + 1] = kp[n + 1]
      OBVIOUS
    <3>1. /\ n + 1 \in 1 .. m /\ n + 1 \in 1 .. Len(p) /\ n + 1 \in 1 .. Len(r)
          /\ (n + 1) - 1 = n /\ n <= m
      BY <1>1
    <3>2. r[n + 1] = p[n + 1] /\ kr[n] = kp[n]
      BY <2>2, <3>1
    <3>3. Doubled(r, n + 1) <=> Doubled(p, n + 1)
      <4>1. CASE n = 0
        BY <4>1 DEF Doubled
      <4>2. CASE n # 0
        <5>1. n \in 1 .. m
          BY <3>1, <4>2
        <5>2. r[n] = p[n]
          BY <5>1
        <5> QED
          BY <3>1, <3>2, <5>2 DEF Doubled
      <4> QED
        BY <4>1, <4>2
    <3> QED
      BY <1>2, <1>3, <3>1, <3>2, <3>3
  <2> HIDE DEF Same
  <2>3. \A n \in Nat : n \in Same
    BY <2>1, <2>2, SetInduction
  <2> QED
    BY <2>3 DEF Same
<1>5. kr[m + 1] = kp[m]
  <2>1. m + 1 \in 1 .. Len(r) /\ (m + 1) - 1 = m /\ m \in 1 .. m /\ m + 1 > 1
    BY <1>1
  <2>2. r[m] = "/"
    BY <2>1
  <2>3. Doubled(r, m + 1)
    BY <2>1, <2>2 DEF Doubled
  <2>4. kr[m + 1] = kr[m]
    BY <1>3, <2>1, <2>3
  <2> QED
    BY <1>1, <1>4, <2>4
<1>6. \A n \in Nat : m + n <= Len(p) => kr[m + n + 1] = kp[m + n]
  <2> DEFINE Same == {n \in Nat : m + n <= Len(p) => kr[m + n + 1] = kp[m + n]}
  <2>1. 0 \in Same
    BY <1>1, <1>5
  <2>2. ASSUME NEW n \in Nat, n \in Same
        PROVE  n + 1 \in Same
    <3> DEFINE i == m + n + 1
    <3>0. m + (n + 1) = i /\ n + 1 \in Nat
      BY <1>1
    <3> SUFFICES ASSUME i <= Len(p) PROVE kr[i + 1] = kp[i]
      <4> HIDE DEF i
      <4> QED
        BY <3>0
    <3>1. /\ i \in m + 1 .. Len(p) /\ i \in 1 .. Len(p) /\ i + 1 \in 1 .. Len(r)
          /\ i - 1 = m + n /\ (i + 1) - 1 = i /\ m + n <= Len(p)
          /\ i > 1 /\ i + 1 > 1 /\ m + n + 1 = i /\ i \in Nat
      BY <1>1
    <3>2. r[i + 1] = p[i]
      BY <3>1
    <3>3. kr[i] = kp[i - 1]
      BY <2>2, <3>1
    <3>4. r[i] = p[i - 1]
      <4>1. CASE n = 0
        BY <1>1, <4>1
      <4>2. CASE n # 0
        <5>1. i - 1 \in m + 1 .. Len(p) /\ (i - 1) + 1 = i
          BY <1>1, <3>1, <4>2
        <5> HIDE DEF i
        <5> QED
          BY <5>1
      <4> QED
        BY <4>1, <4>2
    <3> HIDE DEF i
    <3>5. Doubled(r, i + 1) <=> Doubled(p, i)
      BY <3>1, <3>2, <3>4 DEF Doubled
    <3> QED
      BY <1>2, <1>3, <3>1, <3>2, <3>3, <3>5
  <2> HIDE DEF Same
  <2>3. \A n \in Nat : n \in Same
    BY <2>1, <2>2, SetInduction
  <2> QED
    BY <2>3 DEF Same
<1>7. kr[Len(p) + 1] = kp[Len(p)]
  <2> DEFINE d == Len(p) - m
  <2>1. d \in Nat /\ m + d = Len(p) /\ m + d <= Len(p)
    BY <1>1
  <2> HIDE DEF d
  <2> QED
    BY <1>6, <2>1
<1> QED
  BY <1>2, <1>3, <1>7

-----------------------------------------------------------------------------
(* The path of the file.                                                   *)

FileChars == Chars \cup {"."}

(* What is left of the target behind the prefix.                           *)
LEMMA NameOK ==
    ASSUME NEW t \in Path, NEW k \in Nat, k <= Len(t)
    PROVE  /\ SubSeq(t, k + 1, Len(t)) \in Path
           /\ Len(SubSeq(t, k + 1, Len(t))) = Len(t) - k
<1>1. Len(t) \in Nat /\ \A i \in k + 1 .. Len(t) : t[i] \in Chars
  BY LenProperties, ElementOfSeq DEF Path
<1> QED
  BY <1>1, SubSeqProperties DEF Path

(* uri.replace(0, 1, "../"), character by character.                       *)
LEMMA DottedOK ==
    ASSUME NEW u \in Path
    PROVE  LET p == <<".", ".", "/">> \o SubSeq(u, 2, Len(u))
           IN  /\ p \in Seq(FileChars)
               /\ p[1] = "." /\ p[2] = "." /\ p[3] = "/"
               /\ Len(p) \in Nat /\ Len(p) >= 3
               /\ Len(u) > 0 => Len(p) = Len(u) + 2
               /\ \A i \in 2 .. Len(u) : p[i + 2] = u[i]
<1> DEFINE v    == SubSeq(u, 2, Len(u))
           dots == <<".", ".", "/">>
<1>1. Len(u) \in Nat /\ \A i \in 2 .. Len(u) : u[i] \in FileChars
  BY LenProperties, ElementOfSeq DEF FileChars, Path
<1>2. /\ dots \in Seq(FileChars) /\ Len(dots) = 3
      /\ dots[1] = "." /\ dots[2] = "." /\ dots[3] = "/"
  BY CharsAssumption DEF FileChars
<1>3. /\ v \in Seq(FileChars)
      /\ Len(v) = IF 2 <= Len(u) THEN Len(u) - 2 + 1 ELSE 0
      /\ \A i \in 1 .. Len(u) - 2 + 1 : v[i] = u[2 + i - 1]
  BY <1>1, SubSeqProperties
<1> HIDE DEF dots, v
<1>4. Len(v) \in Nat /\ (Len(u) > 0 => Len(v) = Len(u) - 1)
  <2>1. Len(u) \in Nat
    BY <1>1
  <2>2. Len(v) = IF 2 <= Len(u) THEN Len(u) - 2 + 1 ELSE 0
    BY <1>3
  <2> DEFINE n == Len(u)
             k == Len(v)
  <2> HIDE DEF n, k
  <2>3. n \in Nat /\ k = IF 2 <= n THEN n - 2 + 1 ELSE 0
    BY <2>1, <2>2 DEF n, k
  <2>4. k \in Nat /\ (n > 0 => k = n - 1)
    BY <2>3
  <2> QED
    BY <2>4 DEF n, k
<1>5. /\ dots \o v \in Seq(FileChars)
      /\ Len(dots \o v) = 3 + Len(v)
      /\ \A i \in 1 .. 3 + Len(v) :
            (dots \o v)[i] = IF i <= 3 THEN dots[i] ELSE v[i - 3]
  <2>1. dots \in Seq(FileChars) /\ v \in Seq(FileChars) /\ Len(dots) = 3
    BY <1>2, <1>3
  <2>2. /\ dots \o v \in Seq(FileChars)
        /\ Len(dots \o v) = Len(dots) + Len(v)
        /\ \A i \in 1 .. Len(dots) + Len(v) :
              (dots \o v)[i] = IF i <= Len(dots) THEN dots[i]
                              ELSE v[i - Len(dots)]
    BY <2>1, ConcatProperties, Zenon
  <2> QED
    BY <2>1, <2>2, Zenon
<1>6. ASSUME NEW i \in 2 .. Len(u)
      PROVE  (dots \o v)[i + 2] = u[i]
  <2>1. /\ i - 1 \in 1 .. Len(u) - 2 + 1 /\ 2 + (i - 1) - 1 = i
        /\ i + 2 \in 1 .. 3 + Len(v) /\ ~ (i + 2 <= 3) /\ (i + 2) - 3 = i - 1
    BY <1>1, <1>4
  <2> QED
    BY <1>3, <1>5, <2>1
<1>7. 1 \in 1 .. 3 + Len(v) /\ 2 \in 1 .. 3 + Len(v) /\ 3 \in 1 .. 3 + Len(v)
  BY <1>4
<1>8. /\ (dots \o v)[1] = "." /\ (dots \o v)[2] = "." /\ (dots \o v)[3] = "/"
  BY <1>2, <1>5, <1>7
<1>9. /\ Len(dots \o v) \in Nat /\ Len(dots \o v) >= 3
      /\ Len(u) > 0 => Len(dots \o v) = Len(u) + 2
  BY <1>1, <1>4, <1>5
<1> QED
  BY <1>5, <1>6, <1>8, <1>9 DEF dots, v

(* uri.replace(0, prefix.length(), root) first.                            *)
LEMMA FilePathOK ==
    ASSUME NEW h, NEW t \in Path, RootText[h.root] \in Path, h.prefix \in Path,
           Len(h.prefix) =< Len(t)
    PROVE  LET u == RootText[h.root] \o SubSeq(t, Len(h.prefix) + 1, Len(t))
               p == FilePath(h, t)
           IN  /\ p \in Seq(FileChars)
               /\ p[1] = "." /\ p[2] = "." /\ p[3] = "/"
               /\ Len(p) \in Nat /\ Len(p) >= 3
               /\ Len(u) > 0 => Len(p) = Len(u) + 2
               /\ \A i \in 2 .. Len(u) : p[i + 2] = u[i]
<1> DEFINE u == RootText[h.root] \o SubSeq(t, Len(h.prefix) + 1, Len(t))
<1>1. u \in Path
  BY NameOK, LenProperties, ConcatProperties DEF Path
<1>2. FilePath(h, t) = <<".", ".", "/">> \o SubSeq(u, 2, Len(u))
  BY DEF FilePath
<1> HIDE DEF u
<1>3. /\ FilePath(h, t) \in Seq(FileChars)
      /\ FilePath(h, t)[1] = "." /\ FilePath(h, t)[2] = "."
      /\ FilePath(h, t)[3] = "/"
      /\ Len(FilePath(h, t)) \in Nat /\ Len(FilePath(h, t)) >= 3
      /\ Len(u) > 0 => Len(FilePath(h, t)) = Len(u) + 2
      /\ \A i \in 2 .. Len(u) : FilePath(h, t)[i + 2] = u[i]
  BY <1>1, <1>2, DottedOK, Zenon
<1> QED
  BY <1>3, Zenon DEF u

-----------------------------------------------------------------------------
(* The invariant: the dispatcher's, and what the response says.            *)

StaticInv ==
    status # 0 =>
        /\ phase = "returned"
        /\ handler.type = "StaticHandler"
        /\ file = FilePath(handler, target)
        /\ IF Collapse(file) \in Readable
           THEN status = 200 /\ mime = extension_to_type(Extension(file))
           ELSE status = 404

(* The functions of paths have no state of their own.                      *)
LEMMA PathsPrimed ==
    /\ FilePath(handler, target)' = FilePath(handler', target')
    /\ Collapse(file)' = Collapse(file')
    /\ Extension(file)' = Extension(file')
    /\ extension_to_type(Extension(file))'
         = extension_to_type(Extension(file'))
BY Zenon DEF FilePath, Collapse, Extension, extension_to_type

LEMMA StaticStep ==
    Inv /\ TableInv /\ StaticInv /\ [StaticNext]_<<dispVars, staticVars>>
        => Inv' /\ TableInv' /\ StaticInv'
<1> SUFFICES ASSUME Inv, TableInv, StaticInv,
                    [StaticNext]_<<dispVars, staticVars>>
             PROVE  Inv' /\ TableInv' /\ StaticInv'
  OBVIOUS
<1>1. CASE Dispatching
  <2>1. Next /\ status' = 0
    BY <1>1 DEF Dispatching
  <2> QED
    BY <2>1, StepInv, StepTable DEF StaticInv
<1>2. CASE handleRequest
  <2>1. UNCHANGED dispVars
    BY <1>2 DEF handleRequest
  <2>2. UNCHANGED <<phase, handler, target>>
    BY <2>1 DEF dispVars
  <2>3. StaticInv'
    BY <1>2, <2>2, PathsPrimed DEF handleRequest, StaticInv
  <2> QED
    BY <2>1, <2>3, StepInv, StepTable
<1>3. CASE UNCHANGED <<dispVars, staticVars>>
  <2>1. UNCHANGED dispVars
    BY <1>3
  <2>2. UNCHANGED <<phase, handler, target, file, status, mime>>
    BY <1>3 DEF dispVars, staticVars
  <2>3. StaticInv'
    BY <2>2, PathsPrimed DEF StaticInv
  <2> QED
    BY <2>1, <2>3, StepInv, StepTable
<1> QED
  BY <1>1, <1>2, <1>3 DEF StaticNext

(* The dispatcher's invariants are kept with the files behind it.          *)
THEOREM StaticInvHolds == StaticSpec => [](Inv /\ TableInv /\ StaticInv)
<1>1. StaticInit => Inv /\ TableInv /\ StaticInv
  BY InitInv, InitTable DEF StaticInit, StaticInv
<1> QED
  BY <1>1, StaticStep, PTL DEF StaticSpec

(* The handler of a response has a root, and its prefix can be cut off.    *)
LEMMA StaticHandlerOK ==
    ASSUME Inv, TableInv, StaticInv, status # 0
    PROVE  /\ target \in Path /\ handler.prefix \in Path
           /\ handler.prefix = matched
           /\ Len(handler.prefix) =< Len(target)
           /\ handler.root \in RootNames \cup {"/"}
           /\ RootText[handler.root] \in Path
<1>1. phase = "returned" /\ handler.type = "StaticHandler"
  BY DEF StaticInv
<1>2. /\ matched # EmptyPath /\ matched \in DOMAIN handlers
      /\ Matches(matched, uri) /\ handler = handlers[matched]
  BY <1>1, NoHandlerType DEF Inv, BestSoFar, Looking
<1>3. Matches(uri, target)
  BY <1>1 DEF Inv, UriOK, Looking
<1>4. target \in Path /\ uri \in Path /\ matched \in Path
  BY DEF Inv, TypeOK
<1>5. Matches(matched, target)
  BY <1>2, <1>3, <1>4, MatchesTransitive
<1>6. handler.prefix = matched
  BY <1>1, <1>2 DEF Inv, TableOK, RootedTypes
<1>7. PICK i \in DOMAIN config : Seen(i) /\ FirstFor(matched, i)
  <2>1. handlers[matched] # Handler404
    <3>1. Handler404.type = "404Handler"
      BY DEF Handler404
    <3> QED
      BY <1>1, <1>2, <3>1
  <2> QED
    BY <1>2, <2>1, Zenon DEF TableInv, OnlySeen
<1>8. handler = NewHandler(matched, config[i].type, config[i].roots)
  BY <1>2, <1>7 DEF TableInv, FirstSeen
<1>9. config[i].roots \in Seq(RootNames)
  BY <1>7, ConfigOK DEF Inv
<1>10. config[i].type \in RootedTypes
  BY <1>1, <1>8 DEF NewHandler, RootedTypes
<1>11. handler.root \in RootNames \cup {"/"}
  <2>1. CASE config[i].roots = << >>
    BY <1>8, <1>10, <2>1 DEF NewHandler
  <2>2. CASE config[i].roots # << >>
    <3>1. config[i].roots[Len(config[i].roots)] \in RootNames
      BY <1>9, <2>2, EmptySeq, ElementOfSeq
    <3> QED
      BY <1>8, <1>10, <2>2, <3>1 DEF NewHandler
  <2> QED
    BY <2>1, <2>2
<1> QED
  BY <1>4, <1>5, <1>6, <1>11, RootsAssumption DEF Matches

-----------------------------------------------------------------------------
(* The type of the file.                                                   *)

(* What Extension looks for is there: the last dot.                        *)
LEMMA ExtensionOK ==
    ASSUME NEW S, NEW p \in Seq(S), Len(p) >= 1, p[1] = "."
    PROVE  \E d \in DOMAIN p :
              /\ p[d] = "." /\ \A j \in d + 1 .. Len(p) : p[j] # "."
              /\ Extension(p) = SubSeq(p, d + 1, Len(p))
<1>1. Len(p) \in Nat /\ DOMAIN p = 1 .. Len(p)
  BY LenProperties
<1> DEFINE n == Len(p)
           Back == {k \in Nat : k < n /\ p[n - k] = "."}
<1>2. n - 1 \in Nat /\ n - 1 < n /\ n - (n - 1) = 1
  BY <1>1
<1>3. n - 1 \in Back
  <2> HIDE DEF n
  <2> QED
    BY <1>2
<1>4. PICK k \in Back : \A l \in Back : k <= l
  <2> HIDE DEF n
  <2> QED
    BY <1>3, LeastNumber
<1> DEFINE e == n - k
<1>5. k \in Nat /\ k < n /\ p[e] = "."
  BY <1>4
<1>6. e \in 1 .. n
  BY <1>1, <1>5
<1>7. ASSUME NEW j \in e + 1 .. n, p[j] = "."
      PROVE  FALSE
  <2>1. n - j \in Nat /\ n - j < n /\ n - (n - j) = j /\ ~ (k <= n - j)
    BY <1>1, <1>5, <1>6
  <2>2. n - j \in Back
    <3> HIDE DEF n
    <3> QED
      BY <1>7, <2>1
  <2> HIDE DEF n, Back
  <2> QED
    BY <1>4, <2>1, <2>2
<1> DEFINE LastDot(i) == p[i] = "." /\ \A j \in i + 1 .. Len(p) : p[j] # "."
           dot == CHOOSE i \in DOMAIN p : LastDot(i)
<1>8. e \in DOMAIN p /\ LastDot(e)
  <2> HIDE DEF e
  <2> QED
    BY <1>1, <1>5, <1>6, <1>7
<1>9. Extension(p) = SubSeq(p, dot + 1, Len(p))
  BY DEF Extension
<1> HIDE DEF e, LastDot
<1>10. dot \in DOMAIN p /\ LastDot(dot)
  BY <1>8
<1> HIDE DEF dot
<1> QED
  BY <1>9, <1>10 DEF LastDot

(* The type of a file is that of the ending of its own name, if that is    *)
(* known, and never comes of a dot in a directory's name (MimeByName).     *)
THEOREM MimeRight == StaticSpec => []MimeByName
<1>1. Inv /\ TableInv /\ StaticInv => MimeByName
  <2> SUFFICES ASSUME Inv, TableInv, StaticInv, status = 200
               PROVE  MimeByName
    BY DEF MimeByName
  <2>1. /\ file = FilePath(handler, target)
        /\ mime = extension_to_type(Extension(file))
    BY DEF StaticInv
  <2>2. file \in Seq(FileChars) /\ Len(file) >= 3 /\ file[1] = "."
    <3>1. /\ target \in Path /\ handler.prefix \in Path
          /\ Len(handler.prefix) =< Len(target)
          /\ RootText[handler.root] \in Path
      BY StaticHandlerOK
    <3> QED
      BY <2>1, <3>1, FilePathOK, Zenon
  <2>3. Len(file) \in Nat /\ DOMAIN file = 1 .. Len(file)
    BY <2>2, LenProperties
  <2> DEFINE Ending(i) == SubSeq(file, i + 1, Len(file))
  <2>4. PICK d \in DOMAIN file :
           /\ file[d] = "." /\ \A j \in d + 1 .. Len(file) : file[j] # "."
           /\ Extension(file) = Ending(d)
    <3>1. Len(file) >= 1
      BY <2>2, <2>3
    <3> QED
      BY <2>2, <3>1, ExtensionOK
  <2>5. ASSUME NEW i \in DOMAIN file, file[i] = ".",
               Ending(i) \in DOMAIN MimeTypes
        PROVE  i = d
    <3>1. Ending(i) \in Seq(Chars \ {".", "/"})
      BY <2>5, FilesAssumption
    <3>2. \A j \in i + 1 .. Len(file) : file[j] \in FileChars
      BY <2>2, <2>3, ElementOfSeq
    <3>3. i \in Nat /\ i >= 1 /\ i <= Len(file)
      BY <2>3
    <3>4. /\ Len(Ending(i)) = Len(file) - i
          /\ \A j \in 1 .. Len(file) - i : Ending(i)[j] = file[i + j]
      <4> HIDE <2>5, <3>1
      <4>1. /\ Len(Ending(i)) = IF i + 1 <= Len(file)
                                THEN Len(file) - (i + 1) + 1 ELSE 0
            /\ \A j \in 1 .. Len(file) - (i + 1) + 1 :
                  Ending(i)[j] = file[i + 1 + j - 1]
        BY <2>3, <3>2, <3>3, SubSeqProperties
      <4> HIDE DEF Ending
      <4>2. ASSUME NEW j \in 1 .. Len(file) - i
            PROVE  Ending(i)[j] = file[i + j]
        <5>1. /\ j \in 1 .. Len(file) - (i + 1) + 1
              /\ i + 1 + j - 1 = i + j
          BY <2>3, <3>3
        <5> QED
          BY <4>1, <5>1
      <4>3. Len(Ending(i)) = Len(file) - i
        <5> DEFINE n == Len(file)
                   m == Len(Ending(i))
        <5>1. m = IF i + 1 <= n THEN n - (i + 1) + 1 ELSE 0
          BY <4>1
        <5> HIDE DEF m
        <5>2. m = n - i
          BY <2>3, <3>3, <5>1
        <5> QED
          BY <5>2 DEF m
      <4> QED
        BY <4>2, <4>3
    <3>5. ASSUME NEW j \in i + 1 .. Len(file)
          PROVE  file[j] # "."
      <4>1. j - i \in 1 .. Len(file) - i /\ i + (j - i) = j
        BY <2>3, <3>3
      <4> HIDE DEF Ending
      <4>2. Ending(i)[j - i] = file[j]
        BY <3>4, <4>1
      <4>3. Ending(i)[j - i] \in Chars \ {".", "/"}
        BY <3>1, <3>4, <4>1, ElementOfSeq
      <4> QED
        BY <4>2, <4>3
    <3>6. d \in Nat /\ d <= Len(file)
      BY <2>3
    <3>7. ~ (d \in i + 1 .. Len(file)) /\ ~ (i \in d + 1 .. Len(file))
      BY <2>4, <2>5, <3>5
    <3> QED
      BY <2>3, <3>3, <3>6, <3>7
  <2> HIDE DEF Ending
  <2>6. mime = IF Ending(d) \in DOMAIN MimeTypes THEN MimeTypes[Ending(d)]
               ELSE "text/plain"
    BY <2>1, <2>4 DEF extension_to_type
  <2> DEFINE known == {i \in DOMAIN file :
                          file[i] = "." /\ Ending(i) \in DOMAIN MimeTypes}
  <2>7. IF known = {} THEN mime = "text/plain"
        ELSE \A i \in known : mime = MimeTypes[Ending(i)]
    BY <2>4, <2>5, <2>6
  <2> QED
    BY <2>7 DEF MimeByName, Ending
<1> QED
  BY <1>1, StaticInvHolds, PTL

-----------------------------------------------------------------------------
(* The path and the name the file was asked for by.                        *)

(* The path that a slash between the root and the name makes.              *)
LEMMA SlashedOK ==
    ASSUME NEW root \in Path, NEW name \in Path
    PROVE  LET r == <<".", ".">> \o root \o <<"/">> \o name
           IN  /\ r \in Seq(FileChars)
               /\ Len(r) = Len(root) + Len(name) + 3
               /\ r[1] = "." /\ r[2] = "." /\ r[Len(root) + 3] = "/"
               /\ \A i \in 1 .. Len(root) : r[i + 2] = root[i]
               /\ \A i \in 1 .. Len(name) : r[Len(root) + 3 + i] = name[i]
<1> DEFINE dots == <<".", ".">>
           a == dots \o root
           slash == <<"/">>
           b == a \o slash
           r == b \o name
           k == Len(root)
<1>1. /\ dots \in Seq(FileChars) /\ Len(dots) = 2 /\ dots[1] = "."
      /\ dots[2] = "." /\ slash \in Seq(FileChars) /\ Len(slash) = 1
      /\ slash[1] = "/"
  BY CharsAssumption DEF FileChars
<1>2. /\ root \in Seq(FileChars) /\ name \in Seq(FileChars)
      /\ k \in Nat /\ Len(name) \in Nat
  <2>1. Seq(Chars) \subseteq Seq(FileChars)
    BY DEF FileChars
  <2> QED
    BY <2>1, LenProperties DEF Path
<1> HIDE DEF dots, slash, k
<1>3. /\ a \in Seq(FileChars) /\ Len(a) = Len(dots) + k
      /\ \A i \in 1 .. Len(dots) + k :
            a[i] = IF i <= Len(dots) THEN dots[i] ELSE root[i - Len(dots)]
  BY <1>1, <1>2, ConcatProperties, Zenon DEF k
<1> HIDE DEF a
<1>4. /\ b \in Seq(FileChars) /\ Len(b) = Len(a) + Len(slash)
      /\ \A i \in 1 .. Len(a) + Len(slash) :
            b[i] = IF i <= Len(a) THEN a[i] ELSE slash[i - Len(a)]
  <2>1. a \in Seq(FileChars) /\ slash \in Seq(FileChars)
    BY <1>1, <1>3
  <2> QED
    BY <2>1, ConcatProperties, Zenon
<1> HIDE DEF b
<1>5. /\ r \in Seq(FileChars) /\ Len(r) = Len(b) + Len(name)
      /\ \A i \in 1 .. Len(b) + Len(name) :
            r[i] = IF i <= Len(b) THEN b[i] ELSE name[i - Len(b)]
  <2>1. b \in Seq(FileChars) /\ name \in Seq(FileChars)
    BY <1>2, <1>4
  <2> QED
    BY <2>1, ConcatProperties, Zenon
<1> HIDE DEF r
<1>6. Len(a) = k + 2 /\ Len(b) = k + 3
  <2>1. Len(a) = 2 + k /\ Len(b) = Len(a) + 1
    BY <1>1, <1>3, <1>4, Zenon
  <2> QED
    BY <1>2, <2>1
<1>7. \A i \in 1 .. k + 3 : r[i] = b[i]
  <2> SUFFICES ASSUME NEW i \in 1 .. k + 3 PROVE r[i] = b[i]
    OBVIOUS
  <2>1. i \in 1 .. Len(b) + Len(name) /\ i <= Len(b)
    BY <1>2, <1>6
  <2> QED
    BY <1>5, <2>1
<1>8. \A i \in 1 .. k + 2 : b[i] = a[i]
  <2> SUFFICES ASSUME NEW i \in 1 .. k + 2 PROVE b[i] = a[i]
    OBVIOUS
  <2>1. i \in 1 .. Len(a) + Len(slash) /\ i <= Len(a)
    BY <1>1, <1>2, <1>6
  <2> QED
    BY <1>4, <2>1
<1>9. b[k + 3] = "/"
  <2>1. /\ k + 3 \in 1 .. Len(a) + Len(slash) /\ ~ (k + 3 <= Len(a))
        /\ (k + 3) - Len(a) = 1
    BY <1>1, <1>2, <1>6
  <2> QED
    BY <1>1, <1>4, <2>1
<1>10. a[1] = "." /\ a[2] = "."
  <2>1. 1 \in 1 .. Len(dots) + k /\ 2 \in 1 .. Len(dots) + k
    BY <1>1, <1>2
  <2> QED
    BY <1>1, <1>3, <2>1
<1>11. ASSUME NEW i \in 1 .. k
       PROVE  r[i + 2] = root[i]
  <2>1. /\ i + 2 \in 1 .. k + 3 /\ i + 2 \in 1 .. k + 2
        /\ i + 2 \in 1 .. Len(dots) + k /\ ~ (i + 2 <= Len(dots))
        /\ (i + 2) - Len(dots) = i
    BY <1>1, <1>2
  <2> QED
    BY <1>3, <1>7, <1>8, <2>1
<1>12. ASSUME NEW i \in 1 .. Len(name)
       PROVE  r[k + 3 + i] = name[i]
  <2>1. /\ k + 3 + i \in 1 .. Len(b) + Len(name) /\ ~ (k + 3 + i <= Len(b))
        /\ (k + 3 + i) - Len(b) = i
    BY <1>2, <1>6
  <2> QED
    BY <1>5, <2>1
<1>13. r[1] = "." /\ r[2] = "." /\ r[k + 3] = "/"
  <2>1. 1 \in 1 .. k + 3 /\ 2 \in 1 .. k + 3 /\ k + 3 \in 1 .. k + 3
        /\ 1 \in 1 .. k + 2 /\ 2 \in 1 .. k + 2
    BY <1>2
  <2> QED
    BY <1>7, <1>8, <1>9, <1>10, <2>1
<1>14. Len(r) = k + Len(name) + 3
  <2> DEFINE l == Len(name)
  <2>1. Len(r) = Len(b) + l
    BY <1>5
  <2> HIDE DEF l
  <2> QED
    BY <1>2, <1>6, <2>1 DEF l
<1>15. r = <<".", ".">> \o root \o <<"/">> \o name
  BY DEF r, b, a, dots, slash
<1> QED
  BY <1>5, <1>11, <1>12, <1>13, <1>14, <1>15 DEF k

(* The path without that slash, under a root that starts with one.         *)
LEMMA UnslashedOK ==
    ASSUME NEW h, NEW t \in Path, RootText[h.root] \in Path, h.prefix \in Path,
           Len(h.prefix) =< Len(t), RootText[h.root] # EmptyPath,
           RootText[h.root][1] = "/"
    PROVE  LET root == RootText[h.root]
               name == SubSeq(t, Len(h.prefix) + 1, Len(t))
               p    == FilePath(h, t)
           IN  /\ name \in Path
               /\ p \in Seq(FileChars)
               /\ Len(p) = Len(root) + Len(name) + 2
               /\ p[1] = "." /\ p[2] = "."
               /\ \A i \in 1 .. Len(root) : p[i + 2] = root[i]
               /\ \A i \in 1 .. Len(name) : p[Len(root) + 2 + i] = name[i]
<1> DEFINE root == RootText[h.root]
           name == SubSeq(t, Len(h.prefix) + 1, Len(t))
           u == root \o name
           p == FilePath(h, t)
           k == Len(root)
           l == Len(name)
<1>1. root \in Seq(Chars) /\ name \in Seq(Chars)
  BY NameOK, LenProperties DEF Path
<1>2. /\ p \in Seq(FileChars) /\ p[1] = "." /\ p[2] = "." /\ p[3] = "/"
      /\ Len(u) > 0 => Len(p) = Len(u) + 2
      /\ \A i \in 2 .. Len(u) : p[i + 2] = u[i]
  BY FilePathOK, Zenon
<1>3. k \in Nat /\ l \in Nat /\ k > 0 /\ root[1] = "/"
  <2>1. Len(root) \in Nat \ {0} /\ Len(name) \in Nat
    <3> HIDE DEF name
    <3> QED
      BY <1>1, EmptyPathOK, LenProperties DEF Path
  <2> QED
    BY <2>1
<1> HIDE DEF root, name, p
<1>4. /\ Len(u) = k + l
      /\ \A i \in 1 .. k + l : u[i] = IF i <= k THEN root[i] ELSE name[i - k]
  BY <1>1, ConcatProperties, Zenon
<1> HIDE DEF u, k, l
<1>5. Len(p) = k + l + 2
  BY <1>2, <1>3, <1>4
<1>6. ASSUME NEW i \in 1 .. k
      PROVE  p[i + 2] = root[i]
  <2>1. CASE i = 1
    BY <1>2, <1>3, <2>1
  <2>2. CASE i # 1
    <3>1. i \in 2 .. Len(u) /\ i \in 1 .. k + l /\ i <= k
      BY <1>3, <1>4, <2>2
    <3> QED
      BY <1>2, <1>4, <3>1
  <2> QED
    BY <2>1, <2>2
<1>7. ASSUME NEW i \in 1 .. l
      PROVE  p[k + 2 + i] = name[i]
  <2> DEFINE j == k + i
  <2>1. /\ j \in 2 .. Len(u) /\ j \in 1 .. k + l /\ ~ (j <= k)
        /\ j - k = i /\ k + 2 + i = j + 2
    BY <1>3, <1>4
  <2> HIDE DEF j
  <2> QED
    BY <1>2, <1>4, <2>1
<1> QED
  BY <1>1, <1>2, <1>5, <1>6, <1>7, Zenon DEF root, name, p, k, l, Path

(* The kernel takes both for the same file, if the root ends in a slash or *)
(* the name starts with one.                                               *)
LEMMA SameFile ==
    ASSUME NEW root \in Path, NEW name \in Path, NEW p \in Seq(FileChars),
           Len(p) = Len(root) + Len(name) + 2, p[1] = ".", p[2] = ".",
           \A i \in 1 .. Len(root) : p[i + 2] = root[i],
           \A i \in 1 .. Len(name) : p[Len(root) + 2 + i] = name[i],
           root # EmptyPath,
           root[Len(root)] = "/" \/ Matches(<<"/">>, name)
    PROVE  Collapse(<<".", ".">> \o root \o <<"/">> \o name) = Collapse(p)
<1> DEFINE r == <<".", ".">> \o root \o <<"/">> \o name
           k == Len(root)
           l == Len(name)
<1>1. /\ r \in Seq(FileChars) /\ Len(r) = k + l + 3
      /\ r[1] = "." /\ r[2] = "." /\ r[k + 3] = "/"
      /\ \A i \in 1 .. k : r[i + 2] = root[i]
      /\ \A i \in 1 .. l : r[k + 3 + i] = name[i]
  BY SlashedOK, Zenon
<1>2. k \in Nat /\ l \in Nat /\ k > 0
  <2>1. Len(root) \in Nat \ {0} /\ Len(name) \in Nat
    BY EmptyPathOK, LenProperties DEF Path
  <2> QED
    BY <2>1
<1>3. /\ Len(p) = k + l + 2
      /\ \A i \in 1 .. k : p[i + 2] = root[i]
      /\ \A i \in 1 .. l : p[k + 2 + i] = name[i]
  OBVIOUS
<1>4. root[k] = "/" \/ (l > 0 /\ name[1] = "/")
  <2>1. Root \in Path /\ Len(Root) = 1 /\ Root[1] = "/" /\ Root = <<"/">>
    BY RootPath DEF Root
  <2>2. ASSUME Matches(Root, name)
        PROVE  l > 0 /\ name[1] = "/"
    <3>1. Len(Root) =< Len(name) /\ \A i \in 1 .. Len(Root) : name[i] = Root[i]
      BY <2>1, <2>2, MatchesPointwise
    <3> QED
      BY <1>2, <2>1, <3>1
  <2> QED
    BY <2>1, <2>2
<1> HIDE DEF r, k, l
<1>5. Len(r) = Len(p) + 1
  BY <1>1, <1>2, <1>3
<1>6. ASSUME NEW i \in 1 .. k + 2
      PROVE  r[i] = p[i]
  <2>1. CASE i = 1 \/ i = 2
    BY <1>1, <2>1
  <2>2. CASE i # 1 /\ i # 2
    <3> DEFINE j == i - 2
    <3>1. j \in 1 .. k /\ j + 2 = i
      BY <1>2, <2>2
    <3> HIDE DEF j
    <3> QED
      BY <1>1, <1>3, <3>1
  <2> QED
    BY <2>1, <2>2
<1>7. ASSUME NEW i \in k + 3 .. Len(p)
      PROVE  r[i + 1] = p[i]
  <2> DEFINE j == i - (k + 2)
  <2>1. j \in 1 .. l /\ k + 2 + j = i /\ k + 3 + j = i + 1
    BY <1>2, <1>3
  <2> HIDE DEF j
  <2> QED
    BY <1>1, <1>3, <2>1
<1>8. CASE root[k] = "/"
  <2> DEFINE m == k + 2
  <2>1. m \in 1 .. Len(p) /\ k \in 1 .. k /\ m + 1 = k + 3
    BY <1>2, <1>3
  <2>2. p[m] = "/"
    BY <1>3, <1>8, <2>1
  <2>3. /\ \A i \in 1 .. m : r[i] = p[i]
        /\ \A i \in m + 1 .. Len(p) : r[i + 1] = p[i]
        /\ r[m + 1] = "/"
    BY <1>1, <1>6, <1>7, <2>1
  <2> HIDE DEF m
  <2> QED
    BY <1>1, <1>5, <2>1, <2>2, <2>3, CollapseDouble DEF r
<1>9. CASE l > 0 /\ name[1] = "/"
  <2> DEFINE m == k + 3
  <2>1. /\ m \in 1 .. Len(p) /\ m \in k + 3 .. Len(p) /\ 1 \in 1 .. l
        /\ m = k + 2 + 1
    BY <1>2, <1>3, <1>9
  <2>2. p[m] = "/"
    BY <1>3, <1>9, <2>1
  <2>3. r[m] = p[m]
    BY <1>1, <2>2
  <2>4. r[m + 1] = "/"
    <3> HIDE DEF m
    <3> QED
      BY <1>7, <2>1, <2>2
  <2>5. ASSUME NEW i \in 1 .. m
        PROVE  r[i] = p[i]
    <3>1. i = m \/ i \in 1 .. k + 2
      BY <1>2
    <3> HIDE DEF m
    <3> QED
      BY <1>6, <2>3, <3>1
  <2>6. ASSUME NEW i \in m + 1 .. Len(p)
        PROVE  r[i + 1] = p[i]
    <3>1. i \in k + 3 .. Len(p)
      BY <1>2
    <3> QED
      BY <1>7, <3>1
  <2> HIDE DEF m
  <2> QED
    BY <1>1, <1>5, <2>1, <2>2, <2>4, <2>5, <2>6, CollapseDouble DEF r
<1> QED
  BY <1>4, <1>8, <1>9

(* A file below the root is found under the path of its location, a slash  *)
(* and its name, however the slashes at the ends of the location and of    *)
(* the root are written (StaticFilesFound), if roots are absolute.         *)
THEOREM FilesFound ==
    ASSUME AbsoluteRoots
    PROVE  StaticSpec => []StaticFilesFound
<1>1. Inv /\ TableInv /\ StaticInv => StaticFilesFound
  <2> DEFINE root == RootText[handler.root]
             name == SubSeq(target, Len(matched) + 1, Len(target))
  <2> SUFFICES ASSUME Inv, TableInv, StaticInv, status # 0,
                      matched # Root => Matches(<<"/">>, name),
                      matched = Root => root[Len(root)] = "/",
                      Collapse(<<".", ".">> \o root \o <<"/">> \o name)
                        \in Readable
               PROVE  status = 200
    BY Zenon DEF StaticFilesFound
  <2>1. /\ target \in Path /\ handler.prefix \in Path
        /\ Len(handler.prefix) =< Len(target) /\ handler.prefix = matched
        /\ root \in Path /\ handler.root \in RootNames \cup {"/"}
    BY StaticHandlerOK
  <2>2. root # EmptyPath /\ root[1] = "/"
    <3>1. CASE handler.root = "/"
      <4>1. Root # EmptyPath /\ Root[1] = "/"
        <5>1. Len(Root) = 1 /\ Len(EmptyPath) = 0 /\ Root[1] = "/"
          BY RootPath, EmptyPathOK
        <5>2. 1 # 0
          OBVIOUS
        <5> QED
          BY <5>1, <5>2, Zenon
      <4>2. root = Root
        BY <3>1, RootsAssumption
      <4> HIDE DEF root
      <4> QED
        BY <4>1, <4>2
    <3>2. CASE handler.root \in RootNames
      BY <3>2 DEF AbsoluteRoots
    <3> QED
      BY <2>1, <3>1, <3>2
  <2>3. LET p == FilePath(handler, target)
        IN  /\ name \in Path
            /\ p \in Seq(FileChars)
            /\ Len(p) = Len(root) + Len(name) + 2
            /\ p[1] = "." /\ p[2] = "."
            /\ \A i \in 1 .. Len(root) : p[i + 2] = root[i]
            /\ \A i \in 1 .. Len(name) : p[Len(root) + 2 + i] = name[i]
    BY <2>1, <2>2, UnslashedOK, Zenon
  <2> HIDE DEF root, name
  <2>4. Collapse(<<".", ".">> \o root \o <<"/">> \o name)
          = Collapse(FilePath(handler, target))
    BY <2>1, <2>2, <2>3, SameFile, Zenon
  <2> QED
    BY <2>4 DEF StaticInv
<1> QED
  BY <1>1, StaticInvHolds, PTL
=============================================================================
