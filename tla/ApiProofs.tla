----------------------------- MODULE ApiProofs -----------------------------
(***************************************************************************)
(* Proofs about ApiStorage, for every set of targets, bodies and names.    *)
(***************************************************************************)
EXTENDS ApiStorage, DataLemmas, SequenceTheorems, TLAPS

-----------------------------------------------------------------------------
(* The operators.                                                          *)

(* What Clean computes from one segment to the next.                       *)
LEMMA CleanKept ==
    ASSUME NEW S, NEW t \in Seq(S)
    PROVE  \E kept :
              /\ Clean(t) = kept[Len(t)]
              /\ kept[0] = << >>
              /\ \A n \in 1 .. Len(t) :
                    kept[n] = IF t[n] = "" THEN kept[n - 1]
                              ELSE Append(kept[n - 1], t[n])
<1> DEFINE Row(f, n) == IF n = 0 THEN << >>
                        ELSE IF t[n] = "" THEN f[n - 1]
                             ELSE Append(f[n - 1], t[n])
           kept == CHOOSE f : f = [n \in 0 .. Len(t) |-> Row(f, n)]
           Dropped == {n \in 1 .. Len(t) : t[n] = ""}
<1>1. Clean(t) = kept[Len(t)]
  BY DEF Clean
<1>2. Len(t) \in Nat
  OBVIOUS
<1>3. kept = [n \in 0 .. Len(t) |-> Row(kept, n)]
  <2>1. PICK f : Copies(f, t, Dropped, Len(t))
    BY <1>2, CopyExists
  <2>2. ASSUME NEW n \in 0 .. Len(t)
        PROVE  f[n] = Row(f, n)
    <3>1. CASE n = 0
      BY <2>1, <3>1 DEF Copies
    <3>2. CASE n # 0
      <4>1. n \in 1 .. Len(t)
        BY <1>2, <3>2
      <4>2. n \in Dropped <=> t[n] = ""
        BY <4>1
      <4> HIDE DEF Dropped
      <4> QED
        BY <2>1, <3>2, <4>1, <4>2 DEF Copies, Extended
    <3> QED
      BY <3>1, <3>2
  <2> HIDE DEF Row
  <2>3. f = [n \in 0 .. Len(t) |-> f[n]]
    BY <2>1 DEF Copies
  <2>4. f = [n \in 0 .. Len(t) |-> Row(f, n)]
    BY <2>2, <2>3
  <2> QED
    BY <2>4
<1> HIDE DEF kept
<1>4. \A n \in 0 .. Len(t) : kept[n] = Row(kept, n)
  <2> HIDE DEF Row
  <2> QED
    BY <1>3
<1>5. kept[0] = << >>
  <2>1. 0 \in 0 .. Len(t)
    BY <1>2
  <2> QED
    BY <1>4, <2>1
<1>6. \A n \in 1 .. Len(t) :
         kept[n] = IF t[n] = "" THEN kept[n - 1] ELSE Append(kept[n - 1], t[n])
  <2> TAKE n \in 1 .. Len(t)
  <2>1. n \in 0 .. Len(t) /\ n # 0
    BY <1>2
  <2> QED
    BY <1>4, <2>1
<1> QED
  BY <1>1, <1>5, <1>6

(* By induction on the segments read.                                      *)
LEMMA CleanType ==
    ASSUME NEW S, NEW t \in Seq(S)
    PROVE  Clean(t) \in Seq(S)
<1>1. PICK kept :
         /\ Clean(t) = kept[Len(t)]
         /\ kept[0] = << >>
         /\ \A n \in 1 .. Len(t) :
               kept[n] = IF t[n] = "" THEN kept[n - 1]
                         ELSE Append(kept[n - 1], t[n])
  BY CleanKept
<1> DEFINE Good == {n \in Nat : n <= Len(t) => kept[n] \in Seq(S)}
<1>2. 0 \in Good
  BY <1>1, EmptySeq
<1>3. ASSUME NEW n \in Nat, n \in Good
      PROVE  n + 1 \in Good
  <2> SUFFICES ASSUME n + 1 <= Len(t) PROVE kept[n + 1] \in Seq(S)
    OBVIOUS
  <2>1. n + 1 \in 1 .. Len(t) /\ (n + 1) - 1 = n /\ t[n + 1] \in S
    OBVIOUS
  <2>2. kept[n + 1] = IF t[n + 1] = "" THEN kept[n]
                      ELSE Append(kept[n], t[n + 1])
    BY <1>1, <2>1
  <2>3. kept[n] \in Seq(S)
    BY <1>3
  <2>4. Append(kept[n], t[n + 1]) \in Seq(S)
    BY <2>1, <2>3, AppendProperties
  <2> QED
    BY <2>2, <2>3, <2>4
<1>4. Len(t) \in Nat /\ Len(t) <= Len(t)
  OBVIOUS
<1>5. Len(t) \in Good
  <2> HIDE DEF Good
  <2> QED
    BY <1>2, <1>3, <1>4, SetInduction
<1>6. kept[Len(t)] \in Seq(S)
  BY <1>4, <1>5
<1> QED
  BY <1>1, <1>6

(* Of a target with one segment the segment is left unless it is empty.    *)
LEMMA CleanOne ==
    ASSUME NEW S, NEW e \in S
    PROVE  Clean(<<e>>) = IF e = "" THEN << >> ELSE <<e>>
<1> DEFINE u == <<e>>
<1>1. u \in Seq(S) /\ Len(u) = 1 /\ u[1] = e
  BY EmptySeq, AppendProperties, AppendIsConcat, ConcatEmptySeq
<1>2. Append(<< >>, e) = u
  BY EmptySeq, AppendIsConcat, ConcatEmptySeq
<1> HIDE DEF u
<1>3. PICK kept :
         /\ Clean(u) = kept[Len(u)]
         /\ kept[0] = << >>
         /\ \A n \in 1 .. Len(u) :
               kept[n] = IF u[n] = "" THEN kept[n - 1]
                         ELSE Append(kept[n - 1], u[n])
  BY <1>1, CleanKept
<1>4. 1 \in 1 .. Len(u) /\ 1 - 1 = 0
  BY <1>1
<1>5. kept[1] = IF u[1] = "" THEN kept[0] ELSE Append(kept[0], u[1])
  BY <1>3, <1>4
<1>6. Clean(u) = IF e = "" THEN << >> ELSE u
  BY <1>1, <1>2, <1>3, <1>5
<1> QED
  BY <1>6 DEF u

(* Nothing is left of nothing.                                             *)
LEMMA CleanNone == Clean(<< >>) = << >>
<1>1. << >> \in Seq({}) /\ Len(<< >>) = 0
  BY EmptySeq
<1> QED
  BY <1>1, CleanKept

-----------------------------------------------------------------------------
(* Paths.                                                                  *)

(* Paths are sequences of names.  The literals are listed because the      *)
(* provers do not know that they are strings.                              *)
Segment == STRING \cup {"", "root", "beside"}
Path == Seq(Segment) \ {<< >>}

(* The first n names of a path.                                            *)
LEMMA FirstNames ==
    ASSUME NEW d \in Seq(Segment), NEW n \in 0 .. Len(d)
    PROVE  /\ SubSeq(d, 1, n) \in Seq(Segment)
           /\ Len(SubSeq(d, 1, n)) = n
           /\ \A i \in 1 .. n : SubSeq(d, 1, n)[i] = d[i]
<1>1. Len(d) \in Nat /\ \A i \in 1 .. n : d[i] \in Segment
  BY LenProperties, ElementOfSeq
<1> QED
  BY <1>1, SubSeqProperties

LEMMA PathLength ==
    ASSUME NEW d \in Path
    PROVE  Len(d) \in Nat \ {0}
BY EmptySeq DEF Path

(* getPath adds a name to a directory, and Front takes it away again.      *)
LEMMA ObjectPath ==
    ASSUME NEW d \in Path, NEW x \in Segment
    PROVE  /\ getPath(d, x) \in Path
           /\ Len(getPath(d, x)) = Len(d) + 1
           /\ \A i \in 1 .. Len(d) : getPath(d, x)[i] = d[i]
           /\ Front(getPath(d, x)) = d
<1> DEFINE p == Append(d, x)
<1>1. d \in Seq(Segment) /\ Len(d) \in Nat
  BY PathLength DEF Path
<1>2. /\ p \in Seq(Segment) /\ p # << >> /\ Len(p) = Len(d) + 1
      /\ \A i \in 1 .. Len(d) : p[i] = d[i]
  BY <1>1, AppendProperties
<1> HIDE DEF p
<1>3. Len(d) \in 0 .. Len(p) /\ Len(p) - 1 = Len(d)
  BY <1>1, <1>2
<1>4. SubSeq(p, 1, Len(d)) = d
  BY <1>1, <1>2, <1>3, FirstNames, SeqEqual
<1>5. Front(p) = d
  BY <1>3, <1>4 DEF Front
<1> QED
  BY <1>2, <1>5 DEF getPath, Path, p

(* Different objects have different paths.                                 *)
LEMMA ObjectPathUnique ==
    ASSUME NEW d \in Path, NEW x \in Segment, NEW e \in Path, NEW y \in Segment,
           getPath(d, x) = getPath(e, y)
    PROVE  d = e /\ x = y
BY AppendInjective DEF getPath, Path

LEMMA AncestorOK ==
    ASSUME NEW d \in Path, NEW a \in Ancestors(d)
    PROVE  /\ a \in Path
           /\ Len(a) <= Len(d)
           /\ \A i \in 1 .. Len(a) : a[i] = d[i]
<1>1. PICK n \in 1 .. Len(d) : a = SubSeq(d, 1, n)
  BY DEF Ancestors
<1>2. Len(d) \in Nat /\ n \in 0 .. Len(d) /\ d \in Seq(Segment)
  BY PathLength DEF Path
<1>3. /\ a \in Seq(Segment) /\ Len(a) = n
      /\ \A i \in 1 .. n : a[i] = d[i]
  BY <1>1, <1>2, FirstNames
<1>4. a # << >>
  BY <1>2, <1>3, EmptySeq
<1> QED
  BY <1>2, <1>3, <1>4 DEF Path

(* A path is above another when it agrees with its first names.            *)
LEMMA AncestorIf ==
    ASSUME NEW d \in Path, NEW a \in Path, Len(a) <= Len(d),
           \A i \in 1 .. Len(a) : a[i] = d[i]
    PROVE  a \in Ancestors(d)
<1> DEFINE n == Len(a)
<1>1. Len(d) \in Nat /\ n \in Nat /\ n # 0 /\ n <= Len(d)
  BY PathLength
<1>2. n \in 0 .. Len(d) /\ n \in 1 .. Len(d)
  BY <1>1
<1>3. SubSeq(d, 1, n) = a
  <2> HIDE DEF n
  <2>1. /\ SubSeq(d, 1, n) \in Seq(Segment)
        /\ Len(SubSeq(d, 1, n)) = n
        /\ \A i \in 1 .. n : SubSeq(d, 1, n)[i] = d[i]
    BY <1>2, FirstNames DEF Path
  <2>2. a \in Seq(Segment) /\ Len(a) = n
    BY DEF Path, n
  <2> QED
    BY <2>1, <2>2, SeqEqual
<1> HIDE DEF n
<1> QED
  BY <1>2, <1>3 DEF Ancestors

(* A directory is among the directories it needs.                          *)
LEMMA AncestorSelf ==
    ASSUME NEW d \in Path
    PROVE  d \in Ancestors(d)
<1>1. Len(d) \in Nat
  BY PathLength
<1> QED
  BY <1>1, AncestorIf

(* The directory a path lies in.                                           *)
LEMMA FrontOK ==
    ASSUME NEW p \in Path, Len(p) > 1
    PROVE  /\ Front(p) \in Path
           /\ Len(Front(p)) = Len(p) - 1
           /\ \A i \in 1 .. Len(p) - 1 : Front(p)[i] = p[i]
<1>1. Len(p) \in Nat /\ Len(p) - 1 \in 0 .. Len(p) /\ Len(p) - 1 # 0
  <2> DEFINE n == Len(p)
  <2>1. n \in Nat \ {0} /\ n > 1
    BY PathLength
  <2> HIDE DEF n
  <2>2. n \in Nat /\ n - 1 \in 0 .. n /\ n - 1 # 0
    BY <2>1
  <2> QED
    BY <2>2 DEF n
<1>2. /\ Front(p) \in Seq(Segment)
      /\ Len(Front(p)) = Len(p) - 1
      /\ \A i \in 1 .. Len(p) - 1 : Front(p)[i] = p[i]
  BY <1>1, FirstNames DEF Front, Path
<1>3. Front(p) # << >>
  BY <1>1, <1>2, EmptySeq
<1> QED
  BY <1>2, <1>3 DEF Path

LEMMA FrontAncestor ==
    ASSUME NEW d \in Path, NEW a \in Ancestors(d), Len(a) > 1
    PROVE  Front(a) \in Ancestors(d)
<1>1. /\ a \in Path /\ Len(a) <= Len(d)
      /\ \A i \in 1 .. Len(a) : a[i] = d[i]
  BY AncestorOK
<1>2. /\ Front(a) \in Path /\ Len(Front(a)) = Len(a) - 1
      /\ \A i \in 1 .. Len(a) - 1 : Front(a)[i] = a[i]
  BY <1>1, FrontOK
<1>3. Len(a) \in Nat /\ Len(d) \in Nat
  BY <1>1, PathLength
<1>4. /\ Len(Front(a)) <= Len(d)
      /\ \A i \in 1 .. Len(Front(a)) : Front(a)[i] = d[i]
  BY <1>1, <1>2, <1>3
<1> QED
  BY <1>2, <1>4, AncestorIf

(* What is above a directory is above what lies in it.                     *)
LEMMA AncestorOfAncestor ==
    ASSUME NEW d \in Path, NEW a \in Ancestors(d), NEW b \in Ancestors(a)
    PROVE  b \in Ancestors(d)
<1>1. /\ a \in Path /\ Len(a) <= Len(d)
      /\ \A i \in 1 .. Len(a) : a[i] = d[i]
  BY AncestorOK
<1>2. /\ b \in Path /\ Len(b) <= Len(a)
      /\ \A i \in 1 .. Len(b) : b[i] = a[i]
  BY <1>1, AncestorOK
<1>3. Len(a) \in Nat /\ Len(b) \in Nat /\ Len(d) \in Nat
  BY <1>1, <1>2, PathLength
<1>4. Len(b) <= Len(d) /\ \A i \in 1 .. Len(b) : b[i] = d[i]
  BY <1>1, <1>2, <1>3
<1> QED
  BY <1>2, <1>4, AncestorIf

(* What a path that lies properly under another looks like.                *)
LEMMA PrefixOf ==
    ASSUME NEW p \in Path, NEW q \in Path, IsPrefix(p, q)
    PROVE  Len(p) <= Len(q) /\ \A i \in 1 .. Len(p) : p[i] = q[i]
<1>1. /\ Len(p) <= Len(q) /\ SubSeq(p, 1, Len(p)) = SubSeq(q, 1, Len(p))
      /\ Len(p) \in Nat /\ Len(q) \in Nat
  BY PathLength DEF IsPrefix
<1>2. Len(p) \in 0 .. Len(p) /\ Len(p) \in 0 .. Len(q)
  BY <1>1
<1>3. /\ \A i \in 1 .. Len(p) : SubSeq(p, 1, Len(p))[i] = p[i]
      /\ \A i \in 1 .. Len(p) : SubSeq(q, 1, Len(p))[i] = q[i]
  BY <1>2, FirstNames DEF Path
<1> QED
  BY <1>1, <1>3

(* The file system's notion of lying in a directory is the kernel's.       *)
LEMMA FrontPrefix ==
    ASSUME NEW p \in Path, Len(p) > 1
    PROVE  Len(p) > Len(Front(p)) /\ IsPrefix(Front(p), p)
<1> DEFINE f == Front(p)
           n == Len(p) - 1
<1>1. /\ f \in Path /\ Len(f) = n
      /\ Len(p) \in Nat /\ n \in Nat /\ n < Len(p) /\ p \in Seq(Segment)
  BY FrontOK, PathLength DEF Path
<1>2. f = SubSeq(p, 1, n)
  BY DEF Front
<1>3. SubSeq(f, 1, Len(f)) = f
  BY <1>1, SubSeqFull DEF Path
<1> HIDE DEF f, n
<1>4. Len(f) < Len(p) /\ IsPrefix(f, p)
  BY <1>1, <1>2, <1>3 DEF IsPrefix
<1> QED
  BY <1>1, <1>4 DEF f

(* A sequence of names behind one more name is a path.                     *)
LEMMA Prepend ==
    ASSUME NEW c \in Seq(Segment), NEW x \in Segment
    PROVE  <<x>> \o c \in Path
<1> DEFINE u == <<x>>
<1>1. u \in Seq(Segment) /\ Len(u) = 1
  BY EmptySeq, AppendProperties, AppendIsConcat, ConcatEmptySeq
<1> HIDE DEF u
<1>2. u \o c \in Seq(Segment) /\ Len(u \o c) = 1 + Len(c) /\ Len(c) \in Nat
  BY <1>1, ConcatProperties, LenProperties
<1>3. u \o c # << >>
  BY <1>2, EmptySeq
<1> QED
  BY <1>2, <1>3 DEF u, Path

LEMMA PairPath ==
    ASSUME NEW x \in Segment, NEW y \in Segment
    PROVE  <<x, y>> \in Path
<1>1. <<x, y>> \in Seq(Segment) /\ Len(<<x, y>>) = 2
  OBVIOUS
<1> QED
  BY <1>1, EmptySeq DEF Path

(* Every request uses directories that are paths.                          *)
LEMMA DirsArePaths ==
    ASSUME NEW d \in Dirs
    PROVE  d \in Path
<1>1. /\ Creates \subseteq Seq(Segment) /\ Targets \subseteq Seq(Segment)
      /\ "root" \in Segment /\ "beside" \in Segment /\ "" \in Segment
      /\ PrefixName \in Segment
  <2>1. "root" \in Segment /\ "beside" \in Segment /\ "" \in Segment
    BY DEF Segment
  <2>2. PrefixName \in Segment
    BY TargetsAssumption, Zenon DEF Segment
  <2>3. Creates \subseteq Seq(Segment) /\ Targets \subseteq Seq(Segment)
    <3>1. Creates \subseteq Seq(STRING) /\ Targets \subseteq Seq(STRING)
      BY TargetsAssumption, Zenon
    <3>2. STRING \subseteq Segment
      BY DEF Segment
    <3> HIDE DEF Segment
    <3> QED
      BY <3>1, <3>2, SeqMonotonic, Zenon
  <2> QED
    BY <2>1, <2>2, <2>3
<1>2. ASSUME NEW t \in Seq(Segment)
      PROVE  DirOf(t) \in Path
  <2>1. Clean(t) \in Seq(Segment)
    BY CleanType
  <2> QED
    BY <1>1, <2>1, Prepend DEF DirOf
<1>3. ASSUME NEW t \in Seq(Segment)
      PROVE  /\ Entity(t) \in Seq(Segment)
             /\ t # << >> => Last(t) \in Segment
  <2>1. CASE t = << >>
    BY <2>1, EmptySeq DEF Entity
  <2>2. CASE t # << >>
    <3> DEFINE n == Len(t)
    <3>1. n \in Nat \ {0}
      BY <2>2, EmptySeq
    <3> HIDE DEF n
    <3>2. n \in 1 .. n /\ n - 1 \in 0 .. n
      BY <3>1
    <3>3. SubSeq(t, 1, n - 1) \in Seq(Segment) /\ t[n] \in Segment
      BY <3>2, FirstNames, ElementOfSeq DEF n
    <3> QED
      BY <2>2, <3>3 DEF Entity, Front, Last, n
  <2> QED
    BY <2>1, <2>2
<1>4. ASSUME NEW t \in Seq(Segment)
      PROVE  PostDir(t) \in Path
  <2> DEFINE entity == IF t = << >> THEN PrefixName ELSE Last(t)
  <2>1. entity \in Segment
    BY <1>1, <1>3
  <2>2. PostDir(t) = IF RootSlash \/ entity = ""
                     THEN <<"root">> \o Clean(<<entity>>)
                     ELSE <<"beside", entity>>
    BY DEF PostDir
  <2> HIDE DEF entity
  <2>3. Clean(<<entity>>) \in Seq(Segment)
    <3> DEFINE u == <<entity>>
    <3>1. u \in Seq(Segment)
      BY <2>1, EmptySeq, AppendProperties, AppendIsConcat, ConcatEmptySeq
    <3> HIDE DEF u
    <3>2. Clean(u) \in Seq(Segment)
      BY <3>1, CleanType
    <3> QED
      BY <3>2 DEF u
  <2>4. <<"beside", entity>> \in Path
    BY <1>1, <2>1, PairPath
  <2> QED
    BY <1>1, <2>2, <2>3, <2>4, Prepend
<1>5. CASE \E t \in Creates : d = PostDir(t)
  BY <1>1, <1>4, <1>5
<1>6. CASE \E t \in Targets : d = DirOf(Entity(t))
  BY <1>1, <1>2, <1>3, <1>6
<1> QED
  BY <1>5, <1>6 DEF Dirs

(* What the path of an object is made of.                                  *)
LEMMA KeysArePaths ==
    ASSUME NEW k \in Keys
    PROVE  /\ k \in Path
           /\ Len(k) > 1
           /\ Front(k) \in Dirs
           /\ k \notin Ancestors(Front(k))
<1>1. PICK d \in Dirs, i \in Ids : k = getPath(d, Name[i])
  BY DEF Keys
<1>2. d \in Path /\ Name[i] \in Segment
  BY DirsArePaths, NamesAssumption DEF Segment
<1>3. k \in Path /\ Front(k) = d /\ Len(k) = Len(d) + 1
  BY <1>1, <1>2, ObjectPath
<1>4. Len(d) \in Nat \ {0}
  BY <1>2, PathLength
<1>5. k \notin Ancestors(d)
  BY <1>2, <1>3, <1>4, AncestorOK
<1> QED
  BY <1>3, <1>4, <1>5

(* The paths that requests give the storage.                               *)
LEMMA RequestPaths ==
    /\ \A t \in Creates : PostDir(t) \in Dirs
    /\ \A t \in Targets : DirOf(Entity(t)) \in Dirs
    /\ \A d \in Dirs, i \in Ids : getPath(d, Name[i]) \in Keys
    /\ \A i \in 1 .. MaxId : i \in Ids
<1>1. /\ \A t \in Creates : PostDir(t) \in Dirs
      /\ \A t \in Targets : DirOf(Entity(t)) \in Dirs
  BY DEF Dirs
<1>2. \A d \in Dirs, i \in Ids : getPath(d, Name[i]) \in Keys
  BY DEF Keys
<1>3. \A i \in 1 .. MaxId : i \in Ids
  BY NamesAssumption
<1> QED
  BY <1>1, <1>2, <1>3

-----------------------------------------------------------------------------
(* The inductive invariant.                                                *)

(* Only directories that requests need, and only objects, are ever made;   *)
(* what was acknowledged exists.                                           *)
StorageOK ==
    /\ dirs \subseteq UNION {Ancestors(d) : d \in Dirs}
    /\ DOMAIN files \subseteq Keys
    /\ files = [p \in DOMAIN files |-> files[p]]
    /\ DOMAIN acked \subseteq dirs \cup DOMAIN files

(* What exists lies in an existing directory, and nothing is both a file   *)
(* and a directory.                                                        *)
Tree ==
    /\ dirs \cap DOMAIN files = {}
    /\ \A p \in dirs \cup DOMAIN files : Len(p) > 1 => Front(p) \in dirs

(* What holds of the write in progress: its directory stands, PUT found    *)
(* the object and POST did not.                                            *)
Writing == server \in {"open", "flush"}
WriteOK ==
    Writing =>
       /\ op.kind \in {"post", "put"}
       /\ op.data \in Data
       /\ op.path \in Keys
       /\ Front(op.path) \in dirs
       /\ op.kind = "post" =>
            /\ op.target \in Creates
            /\ op.id \in 1 .. MaxId
            /\ op.path = getPath(PostDir(op.target), Name[op.id])
       /\ Exists(op.path) <=> ~ (server = "open" /\ op.kind = "post")

Inv == StorageOK /\ Tree /\ WriteOK

LEMMA InitInv == Init => Inv
BY DEF Init, Inv, StorageOK, Tree, WriteOK, Writing

(* Nothing but the response, or the state of the server, changes.          *)
LEMMA IdleInv ==
    ASSUME Inv, UNCHANGED <<dirs, files, acked>>,
           server' \notin {"open", "flush"}
    PROVE  Inv'
BY DEF Inv, StorageOK, Tree, WriteOK, Writing

LEMMA RefuseInv ==
    ASSUME Inv, Refuse
    PROVE  Inv'
BY IdleInv DEF Refuse

(* More directories that requests need, where no file is.                  *)
LEMMA DirectoriesInv ==
    ASSUME Inv, NEW dir \in Dirs, NEW D \in SUBSET Ancestors(dir),
           \A a \in D : Len(a) > 1 => Front(a) \in D,
           ~ CannotCreate(dir),
           dirs' = dirs \cup D, UNCHANGED <<files, acked>>
    PROVE  StorageOK' /\ Tree'
<1>1. D \cap DOMAIN files = {}
  BY DEF CannotCreate
<1>2. StorageOK'
  BY DEF Inv, StorageOK
<1>3. ASSUME NEW p \in dirs' \cup DOMAIN files', Len(p) > 1
      PROVE  Front(p) \in dirs'
  BY <1>3 DEF Inv, Tree
<1>4. dirs' \cap DOMAIN files' = {}
  BY <1>1 DEF Inv, Tree
<1> QED
  BY <1>2, <1>3, <1>4 DEF Tree

(* When a directory is refused, the ones above it stand.                   *)
LEMMA RefusedInv ==
    ASSUME Inv, NEW dir \in Dirs, ~ CannotCreate(dir), RefuseDirectory(dir)
    PROVE  Inv'
<1>1. PICK a \in Ancestors(dir) \ dirs : dirs' = dirs \cup (Ancestors(a) \ {a})
  BY DEF RefuseDirectory
<1>2. /\ server' = "refused" /\ UNCHANGED <<files, acked>>
  BY DEF RefuseDirectory
<1>3. dir \in Path /\ a \in Path /\ a \in Ancestors(dir)
  BY DirsArePaths, AncestorOK
<1> DEFINE D == Ancestors(a) \ {a}
<1>4. D \in SUBSET Ancestors(dir)
  <2>1. ASSUME NEW b \in Ancestors(a) PROVE b \in Ancestors(dir)
    BY <1>3, <2>1, AncestorOfAncestor
  <2> QED
    BY <2>1
<1>5. ASSUME NEW b \in D, Len(b) > 1
      PROVE  Front(b) \in D
  <2>1. Front(b) \in Ancestors(a)
    BY <1>3, <1>5, FrontAncestor
  <2>2. b \in Path /\ Len(b) <= Len(a) /\ Len(Front(b)) = Len(b) - 1
    BY <1>3, <1>5, AncestorOK, FrontOK
  <2>3. Len(a) \in Nat /\ Len(b) \in Nat
    BY <1>3, <2>2, PathLength
  <2>4. Front(b) # a
    BY <2>2, <2>3
  <2> QED
    BY <2>1, <2>4
<1>6. dirs' = dirs \cup D
  BY <1>1
<1> HIDE DEF D
<1>7. StorageOK' /\ Tree'
  BY <1>2, <1>4, <1>5, <1>6, DirectoriesInv
<1> QED
  BY <1>2, <1>7 DEF Inv, WriteOK, Writing

(* FileStorage::write makes the directories above the object first.        *)
LEMMA StartWriteInv ==
    ASSUME Inv, server = "up",
           NEW kind \in {"post", "put"}, NEW t, NEW dir \in Dirs,
           NEW id \in Ids, NEW data \in Data,
           kind = "post" =>
              t \in Creates /\ id \in 1 .. MaxId /\ dir = PostDir(t),
           Exists(getPath(dir, Name[id])) <=> kind = "put",
           StartWrite(kind, t, dir, id, Name[id], data)
    PROVE  Inv'
<1>1. CASE Terminate
  BY <1>1, IdleInv DEF Terminate
<1>2. CASE ~ CannotCreate(dir) /\ RefuseDirectory(dir)
  BY <1>2, RefusedInv
<1>3. CASE /\ ~ CannotCreate(dir) /\ dirs' = dirs \cup Ancestors(dir)
           /\ op' = [kind |-> kind, target |-> t, id |-> id, data |-> data,
                     path |-> getPath(dir, Name[id])]
           /\ server' = "open" /\ UNCHANGED <<files, reply, acked>>
  <2> DEFINE path == getPath(dir, Name[id])
  <2>1. /\ dirs' = dirs \cup Ancestors(dir)
        /\ op' = [kind |-> kind, target |-> t, path |-> path, id |-> id,
                  data |-> data]
        /\ server' = "open"
        /\ UNCHANGED <<files, acked>>
    BY <1>3
  <2>3. dir \in Path /\ dir \in Ancestors(dir)
    BY DirsArePaths, AncestorSelf
  <2>4. path \in Keys /\ Front(path) = dir /\ path \notin Ancestors(dir)
    <3>1. Name[id] \in Segment
      BY NamesAssumption DEF Segment
    <3>2. path \in Keys
      BY RequestPaths
    <3>3. Front(path) = dir
      BY <2>3, <3>1, ObjectPath
    <3> HIDE DEF path
    <3> QED
      BY <3>2, <3>3, KeysArePaths
  <2> HIDE DEF path
  <2>5. StorageOK' /\ Tree'
    <3>1. \A a \in Ancestors(dir) : Len(a) > 1 => Front(a) \in Ancestors(dir)
      BY <2>3, FrontAncestor
    <3>2. Ancestors(dir) \in SUBSET Ancestors(dir)
      OBVIOUS
    <3> QED
      BY <1>3, <2>1, <3>1, <3>2, DirectoriesInv
  <2>7. WriteOK'
    <3>1. /\ op'.kind = kind /\ op'.target = t /\ op'.path = path
          /\ op'.id = id /\ op'.data = data
      BY <2>1
    <3>2. Exists(path)' <=> Exists(path)
      BY <2>1, <2>4 DEF Exists
    <3>3. Exists(path) <=> kind = "put"
      BY DEF path
    <3>4. kind = "post" => path = getPath(PostDir(t), Name[id])
      BY DEF path
    <3>5. Front(path) \in dirs'
      BY <2>1, <2>3, <2>4
    <3>6. Exists(op.path)' <=> kind = "put"
      BY <3>1, <3>2, <3>3 DEF Exists
    <3> QED
      BY <2>1, <2>4, <3>1, <3>4, <3>5, <3>6 DEF WriteOK
  <2> QED
    BY <2>5, <2>7 DEF Inv
<1> QED
  BY <1>1, <1>2, <1>3 DEF StartWrite

(* getNextId yields an id below which all are taken, and which is not.     *)
LEMMA NextIdFree ==
    ASSUME NEW d, Free(d) # {}
    PROVE  /\ getNextId(d) \in 1 .. MaxId
           /\ ~ Exists(getPath(d, Name[getNextId(d)]))
           /\ \A i \in 1 .. MaxId :
                 i < getNextId(d) => Exists(getPath(d, Name[i]))
<1>1. MaxId \in Nat /\ Free(d) \subseteq 1 .. MaxId
  BY NamesAssumption DEF Free
<1>2. Min(Free(d)) \in Free(d) /\ \A n \in Free(d) : Min(Free(d)) <= n
  <2>1. Free(d) \subseteq Nat
    BY <1>1
  <2> QED
    BY <2>1, MinLeast
<1>3. getNextId(d) \in 1 .. MaxId /\ ~ Exists(getPath(d, Name[getNextId(d)]))
  BY <1>2 DEF Free, getNextId
<1>4. ASSUME NEW i \in 1 .. MaxId, i < getNextId(d),
             ~ Exists(getPath(d, Name[i]))
      PROVE  FALSE
  <2>1. i \in Free(d)
    BY <1>4 DEF Free
  <2>2. getNextId(d) <= i
    BY <1>2, <2>1 DEF getNextId
  <2>3. i \in Nat /\ getNextId(d) \in Nat
    BY <1>1, <1>3
  <2> QED
    BY <1>4, <2>2, <2>3
<1> QED
  BY <1>3, <1>4

LEMMA PostInv ==
    ASSUME Inv, NEW t \in Creates, NEW d \in Data, Post(t, d)
    PROVE  Inv'
<1> DEFINE id == getNextId(PostDir(t))
<1>1. /\ server = "up" /\ Free(PostDir(t)) # {}
      /\ \/ StartWrite("post", t, PostDir(t), id, Name[id], d)
         \/ Refuse
  BY DEF Post
<1>2. id \in 1 .. MaxId /\ ~ Exists(getPath(PostDir(t), Name[id]))
  BY <1>1, NextIdFree
<1>3. PostDir(t) \in Dirs /\ id \in Ids
  BY <1>2, RequestPaths
<1> HIDE DEF id
<1>4. CASE Refuse
  BY <1>4, RefuseInv
<1> QED
  BY <1>1, <1>2, <1>3, <1>4, StartWriteInv

LEMMA PutInv ==
    ASSUME Inv, NEW t \in Targets, NEW d \in Data, Put(t, d)
    PROVE  Inv'
<1> DEFINE id == Value[IdStr(t)]
           dir == DirOf(Entity(t))
<1>1. server = "up"
  BY DEF Put
<1>2. CASE /\ IdStr(t) \in DOMAIN Value /\ Exists(getPath(dir, Name[id]))
           /\ ~ Refuse
  <2>1. StartWrite("put", t, dir, id, Name[id], d)
    BY <1>2 DEF Put
  <2>2. dir \in Dirs /\ id \in Ids
    BY <1>2, RequestPaths, NamesAssumption
  <2> HIDE DEF id, dir
  <2> QED
    BY <1>1, <1>2, <2>1, <2>2, StartWriteInv
<1>3. CASE /\ ~ (IdStr(t) \in DOMAIN Value /\ Exists(getPath(dir, Name[id])))
           /\ ~ Refuse
  <2>1. UNCHANGED <<dirs, files, acked, server>>
    BY <1>3 DEF Put, Respond
  <2> QED
    BY <1>1, <2>1, IdleInv
<1>4. CASE Refuse
  BY <1>4, RefuseInv
<1> QED
  BY <1>2, <1>3, <1>4

(* The stream makes the file in a directory that stands.                   *)
LEMMA OpenInv ==
    ASSUME Inv, Open
    PROVE  Inv'
<1>1. /\ server = "open" /\ server' = "flush" /\ dirs' = dirs /\ op' = op
      /\ files' = IF op.path \in dirs THEN files ELSE Content(op.path, Empty)
      /\ DOMAIN acked' = DOMAIN acked
  BY DEF Open
<1>2. /\ op.kind \in {"post", "put"} /\ op.data \in Data /\ op.path \in Keys
      /\ Front(op.path) \in dirs
      /\ Exists(op.path) <=> op.kind # "post"
  BY <1>1 DEF Inv, WriteOK, Writing
<1>3. DOMAIN files' = IF op.path \in dirs THEN DOMAIN files
                      ELSE DOMAIN files \cup {op.path}
  BY <1>1 DEF Content
<1>4. files' = [p \in DOMAIN files' |-> files'[p]]
  BY <1>1 DEF Content, Inv, StorageOK
<1>5. StorageOK'
  BY <1>1, <1>2, <1>3, <1>4 DEF Inv, StorageOK
<1>6. Tree'
  BY <1>1, <1>2, <1>3 DEF Inv, Tree
<1>7. WriteOK'
  <2>1. Exists(op.path)'
    BY <1>1, <1>3 DEF Exists
  <2> QED
    BY <1>1, <1>2, <2>1 DEF Inv, WriteOK, Writing
<1> QED
  BY <1>5, <1>6, <1>7 DEF Inv

LEMMA FlushInv ==
    ASSUME Inv, Flush
    PROVE  Inv'
<1>1. /\ server = "flush" /\ server' = "up" /\ dirs' = dirs
      /\ files' = IF op.path \in dirs THEN files
                  ELSE Content(op.path, op.data)
      /\ DOMAIN acked' = DOMAIN acked \cup {op.path}
  BY DEF Flush
<1>2. op.path \in dirs \cup DOMAIN files
  BY <1>1 DEF Inv, WriteOK, Writing, Exists
<1>3. DOMAIN files' = DOMAIN files
  BY <1>1, <1>2 DEF Content
<1>4. files' = [p \in DOMAIN files' |-> files'[p]]
  BY <1>1 DEF Content, Inv, StorageOK
<1>5. StorageOK' /\ Tree'
  BY <1>1, <1>2, <1>3, <1>4 DEF Inv, StorageOK, Tree
<1> QED
  BY <1>1, <1>5 DEF Inv, WriteOK, Writing

(* remove takes away what nothing lies in.                                 *)
LEMMA DeleteInv ==
    ASSUME Inv, NEW t \in Targets, Delete(t)
    PROVE  Inv'
<1> DEFINE path == getPath(DirOf(Entity(t)), Name[Value[IdStr(t)]])
<1>1. server = "up"
  BY DEF Delete
<1>2. CASE (IdStr(t) \notin DOMAIN Value \/ ~ Exists(path)) /\ ~ Refuse
  <2>1. UNCHANGED <<dirs, files, acked, server>>
    BY <1>2 DEF Delete, Respond
  <2> QED
    BY <1>1, <2>1, IdleInv
<1>3. CASE /\ IdStr(t) \in DOMAIN Value /\ Exists(path) /\ CannotRemove(path)
           /\ ~ Refuse
  <2>1. UNCHANGED <<dirs, files, acked>> /\ server' = "terminated"
    BY <1>3 DEF Delete, Terminate
  <2> QED
    BY <2>1, IdleInv
<1>4. CASE /\ IdStr(t) \in DOMAIN Value /\ Exists(path) /\ ~ CannotRemove(path)
           /\ ~ Refuse
  <2>1. /\ dirs' = dirs \ {path} /\ server' = "up"
        /\ files' = Without(files, path) /\ acked' = Without(acked, path)
    BY <1>1, <1>4 DEF Delete
  <2>2. path \in Keys
    BY <1>4, RequestPaths, NamesAssumption
  <2> HIDE DEF path
  <2>3. /\ DOMAIN files' = DOMAIN files \ {path}
        /\ DOMAIN acked' = DOMAIN acked \ {path}
        /\ files' = [p \in DOMAIN files' |-> files'[p]]
    BY <2>1 DEF Without
  <2>4. StorageOK'
    BY <2>1, <2>3 DEF Inv, StorageOK
  <2>5. ASSUME NEW p \in dirs' \cup DOMAIN files', Len(p) > 1
        PROVE  Front(p) \in dirs'
    <3>1. p \in dirs \cup DOMAIN files /\ p \in Path
      <4>1. p \in dirs \cup DOMAIN files
        BY <2>1, <2>3
      <4>2. CASE p \in dirs
        <5>1. PICK d \in Dirs : p \in Ancestors(d)
          BY <4>2 DEF Inv, StorageOK
        <5> QED
          BY <4>1, <5>1, DirsArePaths, AncestorOK
      <4>3. CASE p \in DOMAIN files
        BY <4>1, <4>3, KeysArePaths DEF Inv, StorageOK
      <4> QED
        BY <4>1, <4>2, <4>3
    <3>2. Front(p) \in dirs
      BY <2>5, <3>1 DEF Inv, Tree
    <3>3. Front(p) # path
      BY <1>4, <2>5, <3>1, FrontPrefix DEF CannotRemove
    <3> QED
      BY <2>1, <3>2, <3>3
  <2>6. Tree'
    BY <2>1, <2>3, <2>5 DEF Inv, Tree
  <2> QED
    BY <2>1, <2>4, <2>6 DEF Inv, WriteOK, Writing
<1>5. CASE Refuse
  BY <1>5, RefuseInv
<1> QED
  BY <1>2, <1>3, <1>4, <1>5

(* Every step of the API keeps the invariant.                              *)
LEMMA StepInv == Inv /\ [Next]_apiVars => Inv'
<1> SUFFICES ASSUME Inv, [Next]_apiVars PROVE Inv'
  OBVIOUS
<1>1. ASSUME NEW t \in Creates, NEW d \in Data, Post(t, d) PROVE Inv'
  BY <1>1, PostInv
<1>2. ASSUME NEW t \in Targets, NEW d \in Data, Put(t, d) PROVE Inv'
  BY <1>2, PutInv
<1>3. ASSUME NEW t \in Targets, Get(t) PROVE Inv'
  <2>1. UNCHANGED <<dirs, files, acked>> /\ server' \in {"up", "refused"}
    BY <1>3 DEF Get, Respond, Refuse
  <2> QED
    BY <2>1, IdleInv
<1>4. ASSUME NEW t \in Targets, Delete(t) PROVE Inv'
  BY <1>4, DeleteInv
<1>5. ASSUME NEW t \in Targets, OtherMethod(t) PROVE Inv'
  <2>1. server = "up" /\ UNCHANGED <<dirs, files, acked, server>>
    BY <1>5 DEF OtherMethod, Respond
  <2> QED
    BY <2>1, IdleInv
<1>6. CASE Open
  BY <1>6, OpenInv
<1>7. CASE Flush
  BY <1>7, FlushInv
<1>8. CASE Crash
  BY <1>8, IdleInv DEF Crash
<1>9. CASE Restart
  BY <1>9, IdleInv DEF Restart
<1>10. CASE UNCHANGED apiVars
  BY <1>10 DEF apiVars, Inv, StorageOK, Tree, WriteOK, Writing, Exists
<1> QED
  BY <1>1, <1>2, <1>3, <1>4, <1>5, <1>6, <1>7, <1>8, <1>9, <1>10 DEF Next

(* The inductive invariant holds throughout.                               *)
THEOREM InvHolds == Spec => []Inv
<1>1. Init => Inv
  BY InitInv
<1>2. Inv /\ [Next]_apiVars => Inv'
  BY StepInv
<1> QED
  BY <1>1, <1>2, PTL DEF Spec

(* POST never writes over an object, whatever was deleted before           *)
(* (CreateIsFresh): CRUDHandler::getNextId finds an id that is free.       *)
THEOREM Fresh == Spec => []CreateIsFresh
<1>1. Inv => CreateIsFresh
  BY DEF Inv, StorageOK, WriteOK, Writing, CreateIsFresh, Exists
<1> QED
  BY <1>1, InvHolds, PTL

(* A request that leaves the objects alone, or only adds directories,      *)
(* leaves what was acknowledged where it is.                               *)
LEMMA AckedKept ==
    ASSUME AckedOrDirectory, UNCHANGED <<files, acked>>, dirs \subseteq dirs'
    PROVE  AckedOrDirectory'
BY DEF AckedOrDirectory

LEMMA OpenAcked ==
    ASSUME Inv, AckedOrDirectory, Open
    PROVE  AckedOrDirectory'
<1>1. /\ server = "open" /\ dirs' = dirs
      /\ files' = IF op.path \in dirs THEN files ELSE Content(op.path, Empty)
      /\ acked' = IF op.kind = "put" /\ op.path \in DOMAIN acked
                  THEN [acked EXCEPT ![op.path] = @ \cup {Empty, op.data}]
                  ELSE acked
  BY DEF Open
<1>2. op.kind \in {"post", "put"} /\ (Exists(op.path) <=> op.kind # "post")
  BY <1>1 DEF Inv, WriteOK, Writing
<1>3. ASSUME NEW p \in DOMAIN acked', p \notin dirs
      PROVE  p \in DOMAIN files' /\ files'[p] \in acked'[p]
  <2>1. p \in DOMAIN acked
    BY <1>1, <1>3
  <2>2. p \in DOMAIN files /\ files[p] \in acked[p]
    BY <1>3, <2>1 DEF AckedOrDirectory
  <2>3. CASE p = op.path
    <3>1. op.kind = "put"
      BY <1>2, <2>2, <2>3 DEF Exists
    <3> QED
      BY <1>1, <1>3, <2>1, <2>3, <3>1 DEF Content
  <2>4. CASE p # op.path
    BY <1>1, <2>1, <2>2, <2>4 DEF Content
  <2> QED
    BY <2>3, <2>4
<1> QED
  BY <1>1, <1>3 DEF AckedOrDirectory

LEMMA FlushAcked ==
    ASSUME AckedOrDirectory, Flush
    PROVE  AckedOrDirectory'
<1>1. /\ dirs' = dirs
      /\ files' = IF op.path \in dirs THEN files
                  ELSE Content(op.path, op.data)
      /\ acked' = [p \in DOMAIN acked \cup {op.path} |->
                     IF p = op.path THEN {op.data} ELSE acked[p]]
  BY DEF Flush
<1>2. ASSUME NEW p \in DOMAIN acked', p \notin dirs
      PROVE  p \in DOMAIN files' /\ files'[p] \in acked'[p]
  BY <1>1, <1>2 DEF AckedOrDirectory, Content
<1> QED
  BY <1>1, <1>2 DEF AckedOrDirectory

LEMMA DeleteAcked ==
    ASSUME AckedOrDirectory, NEW t \in Targets, Delete(t)
    PROVE  AckedOrDirectory'
<1>1. CASE UNCHANGED <<dirs, files, acked>>
  BY <1>1, AckedKept
<1>2. CASE ~ UNCHANGED <<dirs, files, acked>>
  <2> DEFINE path == getPath(DirOf(Entity(t)), Name[Value[IdStr(t)]])
  <2>1. /\ dirs' = dirs \ {path}
        /\ files' = Without(files, path) /\ acked' = Without(acked, path)
    BY <1>2 DEF Delete, Respond, Terminate, Refuse
  <2> HIDE DEF path
  <2> QED
    BY <2>1 DEF AckedOrDirectory, Without
<1> QED
  BY <1>1, <1>2

(* What a client was told is stored is stored, through all other requests, *)
(* deaths of the process and refused calls, whatever the entities are      *)
(* called, unless the object's path is a directory (AckedOrDirectory).     *)
THEOREM Kept == Spec => []AckedOrDirectory
<1>1. Init => AckedOrDirectory
  BY DEF Init, AckedOrDirectory
<1>2. ASSUME Inv, AckedOrDirectory, [Next]_apiVars
      PROVE  AckedOrDirectory'
  <2>1. ASSUME NEW kind, NEW t, NEW dir, NEW id, NEW seg, NEW data,
               StartWrite(kind, t, dir, id, seg, data)
        PROVE  AckedOrDirectory'
    BY <1>2, <2>1, AckedKept DEF StartWrite, Terminate, RefuseDirectory
  <2>2. ASSUME NEW kind, NEW t, NEW status, NEW body,
               Respond(kind, t, status, body) \/ Refuse
        PROVE  AckedOrDirectory'
    BY <1>2, <2>2, AckedKept DEF Respond, Refuse
  <2>3. ASSUME NEW t, NEW d, Post(t, d) \/ Put(t, d)
        PROVE  AckedOrDirectory'
    BY <2>1, <2>2, <2>3 DEF Post, Put
  <2>4. ASSUME NEW t, Get(t) \/ OtherMethod(t)
        PROVE  AckedOrDirectory'
    BY <2>2, <2>4 DEF Get, OtherMethod
  <2>5. ASSUME NEW t \in Targets, Delete(t)
        PROVE  AckedOrDirectory'
    BY <1>2, <2>5, DeleteAcked
  <2>6. CASE Open \/ Flush
    BY <1>2, <2>6, OpenAcked, FlushAcked
  <2>7. CASE Crash \/ Restart \/ UNCHANGED apiVars
    BY <1>2, <2>7, AckedKept DEF Crash, Restart, apiVars
  <2> QED
    BY <1>2, <2>3, <2>4, <2>5, <2>6, <2>7 DEF Next
<1> QED
  BY <1>1, <1>2, InvHolds, PTL DEF Spec

-----------------------------------------------------------------------------
(* The refinement of ObjectStore.                                          *)

(* The abstract state: what Store substitutes for writing.                 *)
barWriting == IF server = "flush" /\ op.path \notin dirs
              THEN [kind |-> op.kind, key |-> op.path]
              ELSE [kind |-> "idle", key |-> << >>]

(* Objects and the write under way are as they were.                       *)
LEMMA StoreStutters ==
    ASSUME files' = files, barWriting' = barWriting
    PROVE  [Store!Next]_(Store!storeVars)
BY DEF Store!storeVars, barWriting

LEMMA StoreInit == Init => Store!Init
BY DEF Init, Store!Init, Store!Idle

LEMMA StoreOpen ==
    ASSUME Inv, Open
    PROVE  [Store!Next]_(Store!storeVars)
<1>1. /\ server = "open" /\ server' = "flush" /\ dirs' = dirs /\ op' = op
      /\ files' = IF op.path \in dirs THEN files ELSE Content(op.path, Empty)
  BY DEF Open
<1>2. CASE op.path \in dirs
  BY <1>1, <1>2, StoreStutters DEF barWriting
<1>3. CASE op.path \notin dirs
  <2>1. /\ op.path \in Keys /\ op.kind \in {"post", "put"}
        /\ op.path \in DOMAIN files <=> op.kind # "post"
    BY <1>1, <1>3 DEF Inv, WriteOK, Writing, Exists
  <2>2. Store!Begin(op.kind, op.path)
    BY <1>1, <1>3 DEF Store!Begin, Store!Idle, Store!Stored, Content
  <2>3. Store!Create(op.path) \/ Store!Update(op.path)
    BY <2>1, <2>2 DEF Store!Create, Store!Update
  <2> QED
    BY <2>1, <2>3 DEF Store!Next
<1> QED
  BY <1>2, <1>3

LEMMA StoreFlush ==
    ASSUME Inv, Flush
    PROVE  [Store!Next]_(Store!storeVars)
<1>1. /\ server = "flush" /\ server' = "up" /\ dirs' = dirs
      /\ files' = IF op.path \in dirs THEN files
                  ELSE Content(op.path, op.data)
  BY DEF Flush
<1>2. CASE op.path \in dirs
  BY <1>1, <1>2, StoreStutters DEF barWriting
<1>3. CASE op.path \notin dirs
  <2>1. op.data \in Data /\ op.kind \in {"post", "put"}
    BY <1>1 DEF Inv, WriteOK, Writing
  <2>2. Store!Finish(op.data)
    BY <1>1, <1>3, <2>1 DEF Store!Finish, Store!Idle, Store!Stored, Content
  <2> QED
    BY <2>1, <2>2 DEF Store!Next
<1> QED
  BY <1>2, <1>3

LEMMA StoreDelete ==
    ASSUME Inv, NEW t \in Targets, Delete(t)
    PROVE  [Store!Next]_(Store!storeVars)
<1> DEFINE path == getPath(DirOf(Entity(t)), Name[Value[IdStr(t)]])
<1>1. server = "up" /\ barWriting = [kind |-> "idle", key |-> << >>]
  BY DEF Delete, barWriting
<1>2. CASE \/ IdStr(t) \notin DOMAIN Value \/ ~ Exists(path)
           \/ CannotRemove(path) \/ Refuse
  <2>1. files' = files /\ server' \in {"up", "terminated", "refused"}
    BY <1>1, <1>2 DEF Delete, Respond, Terminate, Refuse
  <2> QED
    BY <1>1, <2>1, StoreStutters DEF barWriting
<1>3. CASE /\ IdStr(t) \in DOMAIN Value
           /\ Exists(path) /\ ~ CannotRemove(path) /\ ~ Refuse
  <2>1. server' = "up" /\ files' = Without(files, path)
    BY <1>1, <1>3 DEF Delete
  <2>2. path \in Keys
    BY <1>3, RequestPaths, NamesAssumption
  <2> HIDE DEF path
  <2>3. CASE path \in DOMAIN files
    <3>1. Store!Remove(path)
      BY <1>1, <2>1, <2>3 DEF Store!Remove, Store!Idle, Without
    <3> QED
      BY <2>2, <3>1 DEF Store!Next
  <2>4. CASE path \notin DOMAIN files
    <3>1. files' = files
      BY <2>1, <2>4 DEF Without, Inv, StorageOK
    <3> QED
      BY <1>1, <2>1, <3>1, StoreStutters DEF barWriting
  <2> QED
    BY <2>3, <2>4
<1> QED
  BY <1>2, <1>3

LEMMA StoreCrash ==
    ASSUME Inv, Crash
    PROVE  [Store!Next]_(Store!storeVars)
<1>1. files' = files /\ server' = "down"
  BY DEF Crash
<1>2. CASE server = "flush" /\ op.path \notin dirs
  <2>1. op.kind \in {"post", "put"}
    BY <1>2 DEF Inv, WriteOK, Writing
  <2>2. Store!Abort
    BY <1>1, <1>2, <2>1 DEF Store!Abort, Store!Idle
  <2> QED
    BY <2>2 DEF Store!Next
<1>3. CASE ~ (server = "flush" /\ op.path \notin dirs)
  BY <1>1, <1>3, StoreStutters DEF barWriting
<1> QED
  BY <1>2, <1>3

(* Every step is a step of ObjectStore or leaves its state alone.          *)
LEMMA StoreStep == Inv /\ [Next]_apiVars => [Store!Next]_(Store!storeVars)
<1> SUFFICES ASSUME Inv, [Next]_apiVars
             PROVE  [Store!Next]_(Store!storeVars)
  OBVIOUS
<1>1. ASSUME NEW t \in Creates, NEW d \in Data, Post(t, d)
      PROVE  [Store!Next]_(Store!storeVars)
  <2>1. /\ server = "up" /\ files' = files
        /\ server' \in {"open", "terminated", "refused"}
    BY <1>1 DEF Post, StartWrite, Terminate, Refuse, RefuseDirectory
  <2> QED
    BY <2>1, StoreStutters DEF barWriting
<1>2. ASSUME NEW t \in Targets, NEW d \in Data, Put(t, d)
      PROVE  [Store!Next]_(Store!storeVars)
  <2>1. /\ server = "up" /\ files' = files
        /\ server' \in {"up", "open", "terminated", "refused"}
    BY <1>2 DEF Put, StartWrite, Terminate, Respond, Refuse, RefuseDirectory
  <2> QED
    BY <2>1, StoreStutters DEF barWriting
<1>3. ASSUME NEW t \in Targets, Get(t) \/ OtherMethod(t)
      PROVE  [Store!Next]_(Store!storeVars)
  <2>1. server = "up" /\ files' = files /\ server' \in {"up", "refused"}
    BY <1>3 DEF Get, OtherMethod, Respond, Refuse
  <2> QED
    BY <2>1, StoreStutters DEF barWriting
<1>4. ASSUME NEW t \in Targets, Delete(t)
      PROVE  [Store!Next]_(Store!storeVars)
  BY <1>4, StoreDelete
<1>5. CASE Open
  BY <1>5, StoreOpen
<1>6. CASE Flush
  BY <1>6, StoreFlush
<1>7. CASE Crash
  BY <1>7, StoreCrash
<1>8. CASE Restart
  <2>1. /\ files' = files
        /\ server \in {"down", "terminated", "refused"} /\ server' = "up"
    BY <1>8 DEF Restart
  <2> QED
    BY <2>1, StoreStutters DEF barWriting
<1>9. CASE UNCHANGED apiVars
  BY <1>9, StoreStutters DEF apiVars, barWriting
<1> QED
  BY <1>1, <1>2, <1>3, <1>4, <1>5, <1>6, <1>7, <1>8, <1>9 DEF Next

(* FileStorage, with its writes in several steps, with directories beside  *)
(* the files and with a process that may die at any of the steps,          *)
(* implements a store of objects (ImplementsStore).                        *)
THEOREM StoreRefined == Spec => ImplementsStore
<1>1. Init => Store!Init
  BY StoreInit
<1>2. Inv /\ [Next]_apiVars => [Store!Next]_(Store!storeVars)
  BY StoreStep
<1> QED
  BY <1>1, <1>2, InvHolds, PTL DEF Spec, ImplementsStore, Store!Spec

-----------------------------------------------------------------------------
(* What holds when the entities are named so that no object is where a     *)
(* directory has to be (Separate).                                         *)

(* Then no exception leaves FileStorage but those of a kernel that refuses *)
(* a call.                                                                 *)
LEMMA NothingThrows ==
    ASSUME Separate, Inv
    PROVE  /\ dirs \cap Keys = {}
           /\ \A d \in Dirs : ~ CannotCreate(d)
           /\ \A k \in Keys : ~ CannotRemove(k)
<1>1. dirs \cap Keys = {}
  BY DEF Separate, Inv, StorageOK
<1>2. \A d \in Dirs : ~ CannotCreate(d)
  BY DEF CannotCreate, Separate, Inv, StorageOK
<1>3. ASSUME NEW k \in Keys, CannotRemove(k)
      PROVE  FALSE
  <2>1. PICK p \in dirs \cup DOMAIN files : Len(p) > Len(k) /\ IsPrefix(k, p)
    BY <1>3 DEF CannotRemove
  <2>2. k \in Path /\ Len(k) \in Nat
    BY KeysArePaths, PathLength
  <2>3. CASE p \in dirs
    <3>1. PICK d \in Dirs : p \in Ancestors(d)
      BY <2>3 DEF Inv, StorageOK
    <3>2. /\ d \in Path /\ p \in Path /\ Len(p) <= Len(d)
          /\ \A i \in 1 .. Len(p) : p[i] = d[i]
      BY <3>1, DirsArePaths, AncestorOK
    <3>3. /\ Len(k) <= Len(p) /\ \A i \in 1 .. Len(k) : k[i] = p[i]
          /\ Len(p) \in Nat /\ Len(d) \in Nat
      BY <2>1, <2>2, <3>2, PrefixOf, PathLength
    <3>4. Len(k) <= Len(d) /\ \A i \in 1 .. Len(k) : k[i] = d[i]
      BY <2>2, <3>2, <3>3
    <3> QED
      BY <2>2, <3>2, <3>4, AncestorIf DEF Separate
  <2>4. CASE p \in DOMAIN files
    <3>1. p \in Path /\ Len(p) > 1 /\ Front(p) \in Dirs
      BY <2>4, KeysArePaths DEF Inv, StorageOK
    <3>2. /\ Front(p) \in Path /\ Len(Front(p)) = Len(p) - 1
          /\ \A i \in 1 .. Len(p) - 1 : Front(p)[i] = p[i]
      BY <3>1, FrontOK
    <3>3. /\ \A i \in 1 .. Len(k) : k[i] = p[i]
          /\ Len(p) \in Nat
      BY <2>1, <2>2, <3>1, PrefixOf, PathLength
    <3>4. /\ Len(k) <= Len(Front(p))
          /\ \A i \in 1 .. Len(k) : k[i] = Front(p)[i]
      BY <2>1, <2>2, <3>2, <3>3
    <3> QED
      BY <2>2, <3>1, <3>2, <3>4, AncestorIf DEF Separate
  <2> QED
    BY <2>1, <2>3, <2>4
<1> QED
  BY <1>1, <1>2, <1>3

(* A creation in progress fills the first gap.                             *)
FillsGap ==
    server = "open" /\ op.kind = "post" =>
        \A i \in 1 .. MaxId :
            i < op.id => Exists(getPath(PostDir(op.target), Name[i]))

(* The id in the last response is that of an acknowledged object.          *)
ReplyOK ==
    reply.kind = "post" /\ server = "up" =>
        /\ reply.target \in Creates
        /\ reply.body[1] \in 1 .. MaxId
        /\ getPath(PostDir(reply.target), Name[reply.body[1]]) \in DOMAIN acked

SeparateInv ==
    Inv /\ AckedDurable /\ FillsGap /\ ReplyOK /\ OnlyRefusalsTerminate

(* Only the response or the state of the server changes.                   *)
LEMMA IdleSeparate ==
    ASSUME SeparateInv, UNCHANGED <<dirs, files, acked>>,
           server' \in {"up", "down", "refused"},
           reply'.kind # "post" \/ server' # "up"
    PROVE  AckedDurable' /\ FillsGap' /\ ReplyOK' /\ OnlyRefusalsTerminate'
BY DEF SeparateInv, AckedDurable, FillsGap, ReplyOK, OnlyRefusalsTerminate

LEMMA RespondSeparate ==
    ASSUME SeparateInv, server = "up", NEW kind, kind # "post", NEW t,
           NEW status, NEW body, Respond(kind, t, status, body)
    PROVE  AckedDurable' /\ FillsGap' /\ ReplyOK' /\ OnlyRefusalsTerminate'
<1>1. /\ UNCHANGED <<dirs, files, acked, server>>
      /\ reply' = Reply(kind, t, status, body)
  BY DEF Respond
<1>2. reply'.kind = kind
  BY <1>1 DEF Reply
<1> QED
  BY <1>1, <1>2, IdleSeparate

LEMMA RefuseSeparate ==
    ASSUME SeparateInv, Refuse
    PROVE  AckedDurable' /\ FillsGap' /\ ReplyOK' /\ OnlyRefusalsTerminate'
BY IdleSeparate DEF Refuse

LEMMA StartWriteSeparate ==
    ASSUME Separate, SeparateInv, server = "up",
           NEW kind, NEW t, NEW dir \in Dirs, NEW id, NEW seg, NEW data,
           kind = "post" => \A i \in 1 .. MaxId :
              i < id => Exists(getPath(PostDir(t), Name[i])),
           StartWrite(kind, t, dir, id, seg, data)
    PROVE  AckedDurable' /\ FillsGap' /\ ReplyOK' /\ OnlyRefusalsTerminate'
<1>1. ~ CannotCreate(dir)
  BY NothingThrows DEF SeparateInv
<1>2. CASE RefuseDirectory(dir)
  BY <1>2 DEF RefuseDirectory, SeparateInv, AckedDurable, FillsGap, ReplyOK,
              OnlyRefusalsTerminate
<1>3. CASE ~ RefuseDirectory(dir)
  <2>1. /\ dirs' = dirs \cup Ancestors(dir)
        /\ op' = [kind |-> kind, target |-> t, path |-> getPath(dir, seg),
                  id |-> id, data |-> data]
        /\ server' = "open"
        /\ UNCHANGED <<files, reply, acked>>
    BY <1>1, <1>3 DEF StartWrite
  <2>2. op'.kind = kind /\ op'.target = t /\ op'.id = id
    BY <2>1
  <2>3. FillsGap'
    BY <2>1, <2>2 DEF FillsGap, Exists
  <2> QED
    BY <2>1, <2>3 DEF SeparateInv, AckedDurable, ReplyOK,
                      OnlyRefusalsTerminate
<1> QED
  BY <1>2, <1>3

LEMMA OpenSeparate ==
    ASSUME Separate, SeparateInv, Open
    PROVE  AckedDurable' /\ FillsGap' /\ ReplyOK' /\ OnlyRefusalsTerminate'
<1>1. /\ server = "open" /\ server' = "flush"
      /\ files' = IF op.path \in dirs THEN files ELSE Content(op.path, Empty)
      /\ acked' = IF op.kind = "put" /\ op.path \in DOMAIN acked
                  THEN [acked EXCEPT ![op.path] = @ \cup {Empty, op.data}]
                  ELSE acked
  BY DEF Open
<1>2. /\ op.kind \in {"post", "put"} /\ op.path \in Keys
      /\ Exists(op.path) <=> op.kind # "post"
  BY <1>1 DEF SeparateInv, Inv, WriteOK, Writing
<1>3. op.path \notin dirs
  BY <1>2, NothingThrows DEF SeparateInv
<1>4. ASSUME NEW p \in DOMAIN acked'
      PROVE  p \in DOMAIN files' /\ files'[p] \in acked'[p]
  <2>1. p \in DOMAIN acked
    BY <1>1, <1>4
  <2>2. p \in DOMAIN files /\ files[p] \in acked[p]
    BY <2>1 DEF SeparateInv, AckedDurable
  <2>3. CASE p = op.path
    <3>1. op.kind = "put"
      BY <1>2, <2>2, <2>3 DEF Exists
    <3> QED
      BY <1>1, <1>3, <2>1, <2>3, <3>1 DEF Content
  <2>4. CASE p # op.path
    BY <1>1, <1>3, <2>1, <2>2, <2>4 DEF Content
  <2> QED
    BY <2>3, <2>4
<1> QED
  BY <1>1, <1>4 DEF AckedDurable, FillsGap, ReplyOK, OnlyRefusalsTerminate

LEMMA FlushSeparate ==
    ASSUME Separate, SeparateInv, Flush
    PROVE  AckedDurable' /\ FillsGap' /\ ReplyOK' /\ OnlyRefusalsTerminate'
<1>1. /\ server = "flush" /\ server' = "up"
      /\ files' = IF op.path \in dirs THEN files
                  ELSE Content(op.path, op.data)
      /\ acked' = [p \in DOMAIN acked \cup {op.path} |->
                     IF p = op.path THEN {op.data} ELSE acked[p]]
      /\ reply' = Reply(op.kind, op.target, 200,
                        IF op.kind = "post" THEN <<op.id>> ELSE << >>)
  BY DEF Flush
<1>2. /\ op.path \in Keys
      /\ op.kind = "post" =>
            /\ op.target \in Creates
            /\ op.id \in 1 .. MaxId
            /\ op.path = getPath(PostDir(op.target), Name[op.id])
  BY <1>1 DEF SeparateInv, Inv, WriteOK, Writing
<1>3. op.path \notin dirs
  BY <1>2, NothingThrows DEF SeparateInv
<1>4. ASSUME NEW p \in DOMAIN acked'
      PROVE  p \in DOMAIN files' /\ files'[p] \in acked'[p]
  BY <1>1, <1>3 DEF SeparateInv, AckedDurable, Content
<1>5. ReplyOK'
  <2>1. reply'.kind = op.kind /\ reply'.target = op.target
    BY <1>1 DEF Reply
  <2>2. op.kind = "post" => reply'.body[1] = op.id
    BY <1>1 DEF Reply
  <2>3. op.path \in DOMAIN acked'
    BY <1>1
  <2> QED
    BY <1>2, <2>1, <2>2, <2>3 DEF ReplyOK
<1> QED
  BY <1>1, <1>4, <1>5 DEF AckedDurable, FillsGap, OnlyRefusalsTerminate

LEMMA DeleteSeparate ==
    ASSUME Separate, SeparateInv, NEW t \in Targets, Delete(t)
    PROVE  AckedDurable' /\ FillsGap' /\ ReplyOK' /\ OnlyRefusalsTerminate'
<1> DEFINE path == getPath(DirOf(Entity(t)), Name[Value[IdStr(t)]])
<1>1. server = "up"
  BY DEF Delete
<1>2. CASE (IdStr(t) \notin DOMAIN Value \/ ~ Exists(path)) /\ ~ Refuse
  <2>1. \E status \in {400, 404} : Respond("delete", t, status, << >>)
    BY <1>2 DEF Delete
  <2> QED
    BY <1>1, <2>1, RespondSeparate
<1>3. CASE IdStr(t) \in DOMAIN Value /\ Exists(path) /\ ~ Refuse
  <2>1. path \in Keys
    BY <1>3, RequestPaths, NamesAssumption
  <2>2. ~ CannotRemove(path)
    BY <2>1, NothingThrows DEF SeparateInv
  <2>3. /\ server' = "up"
        /\ files' = Without(files, path) /\ acked' = Without(acked, path)
        /\ reply' = Reply("delete", t, 200, << >>)
    BY <1>1, <1>3, <2>2 DEF Delete
  <2> HIDE DEF path
  <2>4. reply'.kind = "delete"
    BY <2>3 DEF Reply
  <2>5. AckedDurable'
    BY <2>3 DEF SeparateInv, AckedDurable, Without
  <2> QED
    BY <2>3, <2>4, <2>5 DEF FillsGap, ReplyOK, OnlyRefusalsTerminate
<1>4. CASE Refuse
  BY <1>4, RefuseSeparate
<1> QED
  BY <1>2, <1>3, <1>4

(* Every step keeps the stronger invariant when entities are separate.     *)
LEMMA StepSeparate ==
    ASSUME Separate
    PROVE  SeparateInv /\ [Next]_apiVars => SeparateInv'
<1> DEFINE Goal == /\ AckedDurable' /\ FillsGap' /\ ReplyOK'
                   /\ OnlyRefusalsTerminate'
<1> SUFFICES ASSUME SeparateInv, [Next]_apiVars PROVE Goal
  BY StepInv DEF SeparateInv
<1>1. ASSUME NEW t \in Creates, NEW d \in Data, Post(t, d) PROVE Goal
  <2> DEFINE id == getNextId(PostDir(t))
  <2>1. /\ server = "up" /\ Free(PostDir(t)) # {}
        /\ \/ StartWrite("post", t, PostDir(t), id, Name[id], d)
           \/ Refuse
    BY <1>1 DEF Post
  <2>2. \A i \in 1 .. MaxId : i < id => Exists(getPath(PostDir(t), Name[i]))
    BY <2>1, NextIdFree
  <2>3. PostDir(t) \in Dirs
    BY RequestPaths
  <2> HIDE DEF id
  <2> QED
    BY <2>1, <2>2, <2>3, StartWriteSeparate, RefuseSeparate
<1>2. ASSUME NEW t \in Targets, NEW d \in Data, Put(t, d) PROVE Goal
  <2> DEFINE id == Value[IdStr(t)]
  <2>1. server = "up" /\ DirOf(Entity(t)) \in Dirs
    BY <1>2, RequestPaths DEF Put
  <2>2. CASE StartWrite("put", t, DirOf(Entity(t)), id, Name[id], d)
    BY <2>1, <2>2, StartWriteSeparate
  <2>3. CASE Respond("put", t, 404, << >>)
    BY <2>1, <2>3, RespondSeparate
  <2>4. CASE Refuse
    BY <2>4, RefuseSeparate
  <2> QED
    BY <1>2, <2>2, <2>3, <2>4 DEF Put
<1>3. ASSUME NEW t \in Targets, Get(t) PROVE Goal
  <2>1. /\ server = "up"
        /\ \/ Respond("list", t, 200, Listed(DirOf(t)))
           \/ Respond("get", t, Read(t).status, Read(t).body)
           \/ Refuse
    BY <1>3 DEF Get
  <2> QED
    BY <2>1, RespondSeparate, RefuseSeparate
<1>4. ASSUME NEW t \in Targets, Delete(t) PROVE Goal
  BY <1>4, DeleteSeparate
<1>5. ASSUME NEW t \in Targets, OtherMethod(t) PROVE Goal
  BY <1>5, RespondSeparate DEF OtherMethod
<1>6. CASE Open
  BY <1>6, OpenSeparate
<1>7. CASE Flush
  BY <1>7, FlushSeparate
<1>8. CASE Crash
  BY <1>8, IdleSeparate DEF Crash
<1>9. CASE Restart
  <2>1. reply'.kind = "none"
    BY <1>9 DEF Restart, NoReply, Reply
  <2> QED
    BY <1>9, <2>1, IdleSeparate DEF Restart
<1>10. CASE UNCHANGED apiVars
  BY <1>10 DEF apiVars, SeparateInv, AckedDurable, FillsGap, ReplyOK,
               OnlyRefusalsTerminate, Exists
<1> QED
  BY <1>1, <1>2, <1>3, <1>4, <1>5, <1>6, <1>7, <1>8, <1>9, <1>10 DEF Next

(* Where entities and objects share no names, more is invariant.           *)
THEOREM SeparateInvHolds ==
    ASSUME Separate
    PROVE  Spec => []SeparateInv
<1>1. Init => SeparateInv
  BY InitInv DEF Init, SeparateInv, AckedDurable, FillsGap, ReplyOK, NoReply,
                 Reply, OnlyRefusalsTerminate
<1>2. SeparateInv /\ [Next]_apiVars => SeparateInv'
  BY StepSeparate
<1> QED
  BY <1>1, <1>2, PTL DEF Spec

(* What a client was told is stored is stored, through all other requests, *)
(* deaths of the process and restarts (AckedDurable).                      *)
THEOREM Durable ==
    ASSUME Separate
    PROVE  Spec => []AckedDurable
<1>1. SeparateInv => AckedDurable
  BY DEF SeparateInv
<1> QED
  BY <1>1, SeparateInvHolds, PTL

(* Nothing the requests did makes an exception leave handleRequest, which  *)
(* is noexcept: only a kernel that refuses exists, create_directories or   *)
(* remove ends the process there (OnlyRefusalsTerminate).                  *)
THEOREM NoThrow ==
    ASSUME Separate
    PROVE  Spec => []OnlyRefusalsTerminate
<1>1. SeparateInv => OnlyRefusalsTerminate
  BY DEF SeparateInv
<1> QED
  BY <1>1, SeparateInvHolds, PTL

(* A step that is no DELETE takes no object away, and the only one it may  *)
(* add is the object being created.                                        *)
LEMMA ObjectsKept ==
    ASSUME Separate, SeparateInv, Next, ~ \E t \in Targets : Delete(t),
           NEW k \in Keys
    PROVE  /\ Exists(k) => Exists(k)'
           /\ Exists(k)' /\ ~ Exists(k) =>
                 server = "open" /\ op.kind = "post" /\ k = op.path
<1>1. ASSUME NEW kind, NEW t, NEW dir \in Dirs, NEW id, NEW seg, NEW data,
             StartWrite(kind, t, dir, id, seg, data)
      PROVE  Exists(k)' <=> Exists(k)
  <2>1. CASE Terminate
    BY <2>1 DEF Terminate, Exists
  <2>2. CASE dirs' = dirs \cup Ancestors(dir) /\ files' = files
    BY <2>2 DEF Separate, Exists
  <2>3. CASE RefuseDirectory(dir)
    <3>1. PICK a \in Ancestors(dir) : dirs' = dirs \cup (Ancestors(a) \ {a})
      BY <2>3 DEF RefuseDirectory
    <3>2. Ancestors(a) \subseteq Ancestors(dir)
      BY DirsArePaths, AncestorOfAncestor
    <3>3. files' = files
      BY <2>3 DEF RefuseDirectory
    <3> QED
      BY <3>1, <3>2, <3>3 DEF Separate, Exists
  <2> QED
    BY <1>1, <2>1, <2>2, <2>3 DEF StartWrite
<1>2. ASSUME NEW t \in Creates, NEW d \in Data, Post(t, d)
      PROVE  Exists(k)' <=> Exists(k)
  <2>1. PostDir(t) \in Dirs
    BY RequestPaths
  <2> QED
    BY <1>1, <1>2, <2>1 DEF Post, Refuse, Exists
<1>3. ASSUME NEW t \in Targets, NEW d \in Data, Put(t, d)
      PROVE  Exists(k)' <=> Exists(k)
  <2>1. DirOf(Entity(t)) \in Dirs
    BY RequestPaths
  <2>2. CASE Respond("put", t, 404, << >>)
    BY <2>2 DEF Respond, Exists
  <2>3. CASE Refuse
    BY <2>3 DEF Refuse, Exists
  <2>4. CASE ~ Respond("put", t, 404, << >>) /\ ~ Refuse
    BY <1>1, <1>3, <2>1, <2>4 DEF Put
  <2> QED
    BY <2>2, <2>3, <2>4
<1>4. ASSUME NEW t \in Targets, Get(t) \/ OtherMethod(t)
      PROVE  Exists(k)' <=> Exists(k)
  BY <1>4 DEF Get, OtherMethod, Respond, Refuse, Exists
<1>5. CASE Open
  <2>1. /\ server = "open" /\ dirs' = dirs
        /\ DOMAIN files' = IF op.path \in dirs THEN DOMAIN files
                           ELSE DOMAIN files \cup {op.path}
    BY <1>5 DEF Open, Content
  <2>2. /\ op.kind \in {"post", "put"}
        /\ Exists(op.path) <=> op.kind # "post"
    BY <2>1 DEF SeparateInv, Inv, WriteOK, Writing
  <2> QED
    BY <2>1, <2>2 DEF Exists
<1>6. CASE Flush
  <2>1. /\ server = "flush" /\ dirs' = dirs
        /\ DOMAIN files' = IF op.path \in dirs THEN DOMAIN files
                           ELSE DOMAIN files \cup {op.path}
    BY <1>6 DEF Flush, Content
  <2>2. Exists(op.path)
    BY <2>1 DEF SeparateInv, Inv, WriteOK, Writing
  <2> QED
    BY <2>1, <2>2 DEF Exists
<1>7. CASE Crash \/ Restart
  BY <1>7 DEF Crash, Restart, Exists
<1> QED
  BY <1>2, <1>3, <1>4, <1>5, <1>6, <1>7 DEF Next

(* The ids of a directory get no gap but by a DELETE.                      *)
LEMMA NoGapKept ==
    ASSUME Separate, SeparateInv, Next, ~ \E t \in Targets : Delete(t),
           NEW t \in Creates, NoGap(PostDir(t))
    PROVE  NoGap(PostDir(t))'
<1> DEFINE dir == PostDir(t)
           Key(i) == getPath(dir, Name[i])
<1>1. \A i \in 1 .. MaxId : i \in Ids /\ Key(i) \in Keys
  BY RequestPaths
<1>2. ASSUME NEW i \in 1 .. MaxId, NEW j \in 1 .. MaxId, i < j,
             Exists(Key(j))'
      PROVE  Exists(Key(i))'
  <2>1. CASE Exists(Key(j))
    <3>1. Exists(Key(i))
      BY <1>2, <2>1 DEF NoGap
    <3> HIDE DEF Key
    <3> QED
      BY <1>1, <3>1, ObjectsKept
  <2>2. CASE ~ Exists(Key(j))
    <3>1. server = "open" /\ op.kind = "post" /\ Key(j) = op.path
      <4> HIDE DEF Key
      <4> QED
        BY <1>1, <1>2, <2>2, ObjectsKept
    <3>2. /\ op.target \in Creates /\ op.id \in 1 .. MaxId
          /\ op.path = getPath(PostDir(op.target), Name[op.id])
      BY <3>1 DEF SeparateInv, Inv, WriteOK, Writing
    <3>3. /\ dir \in Path /\ PostDir(op.target) \in Path
          /\ op.id \in Ids /\ j \in Ids
      BY <3>2, RequestPaths, DirsArePaths
    <3>4. \A n \in Ids : Name[n] \in Segment
      BY NamesAssumption DEF Segment
    <3>5. dir = PostDir(op.target) /\ Name[j] = Name[op.id]
      <4> HIDE DEF dir
      <4> QED
        BY <3>1, <3>2, <3>3, <3>4, ObjectPathUnique
    <3>6. j = op.id
      BY <3>3, <3>5, NamesAssumption
    <3>7. Exists(Key(i))
      BY <1>2, <3>1, <3>5, <3>6 DEF SeparateInv, FillsGap
    <3> HIDE DEF Key
    <3> QED
      BY <1>1, <3>7, ObjectsKept
  <2> QED
    BY <2>1, <2>2
<1> QED
  BY <1>2 DEF NoGap

(* Only a DELETE hides objects from a list (OnlyDeleteHides).              *)
THEOREM GapsOnlyByDelete ==
    ASSUME Separate
    PROVE  Spec => OnlyDeleteHides
<1> DEFINE A == \A dir \in {PostDir(t) : t \in Creates} :
                   NoGap(dir) => NoGap(dir)' \/ \E t \in Targets : Delete(t)
<1>1. SeparateInv /\ [Next]_apiVars => [A]_apiVars
  BY NoGapKept
<1> QED
  BY <1>1, SeparateInvHolds, PTL DEF Spec, OnlyDeleteHides

(* An entity directly under the prefix has the same directory for POST and *)
(* for the other requests.                                                 *)
LEMMA SameDir ==
    ASSUME RootSlash, NEW t \in Creates, Len(t) = 1
    PROVE  PostDir(t) = DirOf(Clean(t)) /\ Clean(t) \in Seq(Segment)
<1> DEFINE e == t[1]
           u == <<e>>
<1>1. t \in Seq(Segment)
  <2>1. t \in Seq(STRING)
    BY TargetsAssumption, Zenon
  <2>2. STRING \subseteq Segment
    BY DEF Segment
  <2> HIDE DEF Segment
  <2> QED
    BY <2>1, <2>2, SeqMonotonic
<1>2. e \in Segment
  BY <1>1, ElementOfSeq
<1>3. t = u
  <2>1. u \in Seq(Segment) /\ Len(u) = 1 /\ u[1] = e
    <3> HIDE DEF e
    <3> QED
      BY <1>2, EmptySeq, AppendProperties, AppendIsConcat, ConcatEmptySeq
  <2>2. \A i \in 1 .. 1 : i = 1
    OBVIOUS
  <2> HIDE DEF u
  <2> QED
    BY <1>1, <2>1, <2>2, SeqEqual
<1>4. t # << >> /\ Last(t) = e
  BY EmptySeq DEF Last
<1>5. PostDir(t) = <<"root">> \o Clean(u)
  BY <1>4 DEF PostDir
<1>6. Clean(Clean(t)) = Clean(t)
  <2> HIDE DEF e
  <2>1. Clean(u) = IF e = "" THEN << >> ELSE u
    BY <1>2, CleanOne
  <2> HIDE DEF u
  <2> QED
    BY <1>3, <2>1, CleanNone
<1> HIDE DEF e, u
<1> QED
  BY <1>1, <1>3, <1>5, <1>6, CleanType DEF DirOf

(* An object can be read back under the target it was posted to with the   *)
(* id POST returned (CreatedIsReadable), when the configured root ends     *)
(* with "/" and POST targets name an entity directly under the prefix.     *)
THEOREM Readable ==
    ASSUME Separate, RootSlash, \A t \in Creates : Len(t) = 1
    PROVE  Spec => []CreatedIsReadable
<1>1. ASSUME SeparateInv, reply.kind = "post", server = "up"
      PROVE  LET t    == Clean(reply.target)
                 path == PostDir(reply.target)
                 name == Name[reply.body[1]]
             IN  /\ getPath(path, name) \in DOMAIN acked
                 /\ Read(Append(t, name)).status = 200
                 /\ Read(Append(t, name)).body[1]
                      \in acked[getPath(path, name)]
  <2> DEFINE id   == reply.body[1]
             name == Name[id]
             t    == Clean(reply.target)
             dir  == PostDir(reply.target)
             key  == getPath(dir, name)
             u    == Append(t, name)
  <2>1. reply.target \in Creates /\ id \in 1 .. MaxId /\ key \in DOMAIN acked
    BY <1>1 DEF SeparateInv, ReplyOK
  <2>2. /\ key \in DOMAIN files /\ files[key] \in acked[key]
        /\ key \notin dirs /\ Exists(key)
    <3> HIDE DEF key
    <3> QED
      BY <1>1, <2>1 DEF SeparateInv, AckedDurable, Inv, Tree, Exists
  <2>3. dir = DirOf(t) /\ t \in Seq(Segment)
    BY <2>1, SameDir
  <2>4. /\ id \in Ids /\ name \in Segment /\ name \in DOMAIN Value
        /\ Value[name] = id
    <3> HIDE DEF id
    <3> QED
      BY <2>1, NamesAssumption DEF Segment
  <2>5. IdStr(u) = name /\ Entity(u) = t
    <3> HIDE DEF t, name
    <3>1. /\ u \in Seq(Segment) /\ u # << >> /\ Len(u) = Len(t) + 1
          /\ \A i \in 1 .. Len(t) : u[i] = t[i]
          /\ u[Len(t) + 1] = name
          /\ Len(t) \in Nat
      BY <2>3, <2>4, AppendProperties, LenProperties
    <3> HIDE DEF u
    <3>2. Len(u) - 1 = Len(t) /\ Len(t) \in 0 .. Len(u)
      BY <3>1
    <3>3. SubSeq(u, 1, Len(t)) = t
      BY <2>3, <3>1, <3>2, FirstNames, SeqEqual
    <3> QED
      BY <3>1, <3>2, <3>3 DEF IdStr, Entity, Last, Front
  <2> HIDE DEF id, t, u
  <2>6. getPath(DirOf(Entity(u)), Name[Value[IdStr(u)]]) = key
    BY <2>3, <2>4, <2>5
  <2>7. Read(u) = Reply("get", u, 200, <<files[key]>>)
    <3> HIDE DEF key
    <3> QED
      BY <2>2, <2>4, <2>5, <2>6 DEF Read
  <2> HIDE DEF key
  <2>8. Read(u).status = 200 /\ Read(u).body[1] = files[key]
    BY <2>7 DEF Reply
  <2> QED
    BY <2>1, <2>2, <2>8 DEF id, t, u, key
<1> QED
  BY <1>1, SeparateInvHolds, PTL DEF CreatedIsReadable
=============================================================================
