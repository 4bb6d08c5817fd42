----------------------------- MODULE DataLemmas -----------------------------
(***************************************************************************)
(* Facts about numbers and recursively defined functions that the proofs   *)
(* of several components rest on.  Induction is stated on sets of numbers: *)
(* a set that holds the numbers a claim is true of.                        *)
(***************************************************************************)
EXTENDS Integers, SequencesExt, FiniteSetsExt, SequenceTheorems,
        WellFoundedInduction, TLAPS

(* A set of numbers that is not empty has a least element.                 *)
LEMMA LeastNumber ==
    ASSUME NEW S, S \subseteq Nat, S # {}
    PROVE  \E m \in S : \A n \in S : m <= n
<1> DEFINE Less == OpToRel(<, Nat)
<1>1. IsWellFoundedOn(Less, Nat)
  BY NatLessThanWellFounded
<1>2. ASSUME NEW y \in Nat, NEW x \in Nat, y < x
      PROVE  <<y, x>> \in Less
  BY <1>2 DEF OpToRel
<1> HIDE DEF Less
<1>3. PICK x \in S : \A y \in S : ~ (<<y, x>> \in Less)
  BY <1>1, WFMin
<1>4. ASSUME NEW n \in S
      PROVE  x <= n
  <2>1. ~ (n < x)
    BY <1>2, <1>3
  <2> QED
    BY <2>1
<1> QED
  BY <1>4

(* Min of a set of numbers is its least element.                           *)
LEMMA MinLeast ==
    ASSUME NEW S, S \subseteq Nat, S # {}
    PROVE  Min(S) \in S /\ \A n \in S : Min(S) <= n
BY LeastNumber DEF Min

(* Max of a set of numbers up to k is its greatest element.                *)
LEMMA MaxGreatest ==
    ASSUME NEW k \in Nat, NEW S, S \subseteq 0 .. k, S # {}
    PROVE  Max(S) \in S /\ \A n \in S : n <= Max(S)
<1> DEFINE D == {k - n : n \in S}
<1>1. D \subseteq Nat /\ D # {}
  <2>1. \A n \in S : k - n \in Nat
    OBVIOUS
  <2>2. PICK n : n \in S
    OBVIOUS
  <2>3. k - n \in D
    BY <2>2
  <2> QED
    BY <2>1, <2>3
<1>2. PICK d \in D : \A e \in D : d <= e
  BY <1>1, LeastNumber
<1>3. PICK m \in S : d = k - m
  BY <1>2
<1>4. ASSUME NEW n \in S
      PROVE  m >= n
  <2>1. k - m <= k - n
    BY <1>2, <1>3
  <2> QED
    BY <2>1
<1> QED
  BY <1>4 DEF Max

(* A set that holds 0 and with every number the next holds all of them.    *)
LEMMA SetInduction ==
    ASSUME NEW S, 0 \in S, \A n \in Nat : n \in S => n + 1 \in S
    PROVE  \A n \in Nat : n \in S
<1> SUFFICES ASSUME Nat \ S # {} PROVE FALSE
  OBVIOUS
<1>1. PICK m \in Nat \ S : \A n \in Nat \ S : m <= n
  BY LeastNumber
<1>2. m # 0 /\ m - 1 \in Nat /\ m - 1 \notin Nat \ S
  BY <1>1
<1> QED
  BY <1>1, <1>2

(* Append, kept from the provers where its meaning plays no part.          *)
Extended(s, x) == Append(s, x)

(* f copies t and drops the elements at the places in Dropped.             *)
Copies(f, t, Dropped, k) ==
    /\ f = [n \in 0 .. k |-> f[n]]
    /\ f[0] = << >>
    /\ \A n \in 1 .. k : /\ n \in Dropped => f[n] = f[n - 1]
                         /\ n \notin Dropped => f[n] = Extended(f[n - 1], t[n])

(* There is such an f on 0 .. k for every k.                               *)
LEMMA CopyExists ==
    ASSUME NEW t, NEW Dropped, NEW k \in Nat
    PROVE  \E f : Copies(f, t, Dropped, k)
<1> DEFINE Good == {m \in Nat : \E f : Copies(f, t, Dropped, m)}
<1>1. 0 \in Good
  <2> DEFINE f == [n \in 0 .. 0 |-> << >>]
  <2>1. /\ f = [n \in 0 .. 0 |-> f[n]]
        /\ f[0] = << >>
        /\ 1 .. 0 = {}
    OBVIOUS
  <2> HIDE DEF f
  <2>2. Copies(f, t, Dropped, 0)
    BY <2>1 DEF Copies
  <2> QED
    BY <2>2
<1>2. ASSUME NEW m \in Nat, m \in Good
      PROVE  m + 1 \in Good
  <2>1. PICK f : Copies(f, t, Dropped, m)
    BY <1>2
  <2> DEFINE last == IF m + 1 \in Dropped THEN f[m]
                     ELSE Extended(f[m], t[m + 1])
             g == [n \in 0 .. m + 1 |-> IF n = m + 1 THEN last ELSE f[n]]
  <2>2. /\ g = [n \in 0 .. m + 1 |-> g[n]]
        /\ g[m + 1] = last
        /\ \A n \in 0 .. m : g[n] = f[n]
    <3> HIDE DEF last
    <3> QED
      OBVIOUS
  <2> HIDE DEF g
  <2>3. g[0] = << >>
    BY <2>1, <2>2 DEF Copies
  <2>4. ASSUME NEW n \in 1 .. m + 1
        PROVE  /\ n \in Dropped => g[n] = g[n - 1]
               /\ n \notin Dropped => g[n] = Extended(g[n - 1], t[n])
    <3>1. CASE n = m + 1
      <4>1. n - 1 = m /\ m \in 0 .. m
        BY <3>1
      <4>2. g[n - 1] = f[m] /\ g[n] = last
        BY <2>2, <3>1, <4>1
      <4> QED
        BY <3>1, <4>2
    <3>2. CASE n # m + 1
      <4>1. n \in 1 .. m /\ n \in 0 .. m /\ n - 1 \in 0 .. m
        BY <3>2
      <4>2. g[n] = f[n] /\ g[n - 1] = f[n - 1]
        BY <2>2, <4>1
      <4> QED
        BY <2>1, <4>1, <4>2 DEF Copies
    <3> QED
      BY <3>1, <3>2
  <2>5. Copies(g, t, Dropped, m + 1)
    BY <2>2, <2>3, <2>4 DEF Copies
  <2> QED
    BY <2>5
<1> HIDE DEF Good
<1>3. k \in Good
  BY <1>1, <1>2, SetInduction
<1> QED
  BY <1>3 DEF Good

Alike(t, D, u, E, m) ==
    \A n \in 1 .. m : t[n] = u[n] /\ (n \in D <=> n \in E)

(* Copies of sequences that begin alike begin alike.                       *)
LEMMA CopiesAgree ==
    ASSUME NEW t, NEW D, NEW k \in Nat, NEW f, Copies(f, t, D, k),
           NEW u, NEW E, NEW l \in Nat, NEW g, Copies(g, u, E, l),
           NEW m \in Nat, m <= k, m <= l, Alike(t, D, u, E, m)
    PROVE  f[m] = g[m]
<1> DEFINE Good == {n \in Nat : n <= m => f[n] = g[n]}
<1>1. 0 \in Good
  BY DEF Copies
<1>2. ASSUME NEW n \in Nat, n \in Good
      PROVE  n + 1 \in Good
  <2> SUFFICES ASSUME n + 1 <= m PROVE f[n + 1] = g[n + 1]
    OBVIOUS
  <2> DEFINE o == n + 1
  <2>1. o \in 1 .. m /\ o \in 1 .. k /\ o \in 1 .. l /\ o - 1 = n
    OBVIOUS
  <2>2. f[n] = g[n]
    BY <1>2
  <2> HIDE DEF o
  <2>3. /\ o \in D => f[o] = f[n]
        /\ o \notin D => f[o] = Extended(f[n], t[o])
    BY <2>1 DEF Copies
  <2>4. /\ o \in E => g[o] = g[n]
        /\ o \notin E => g[o] = Extended(g[n], u[o])
    BY <2>1 DEF Copies
  <2> QED
    BY <2>1, <2>2, <2>3, <2>4 DEF o, Alike
<1> HIDE DEF Good
<1>3. m \in Good
  BY <1>1, <1>2, SetInduction
<1> QED
  BY <1>3 DEF Good

(* next leads to the next number, or to none, which is 0.                  *)
Forward(next, n) == \A b \in 1 .. n :
                        \/ next[b] = 0
                        \/ next[b] = b + 1 /\ b + 1 \in 1 .. n

(* f goes from b to next[b], and so on, up to where next is 0.             *)
Walk(f, next, goal, n) ==
    f = [b \in 1 .. n |-> IF next[b] = 0 THEN goal[b] ELSE f[next[b]]]

(* There is such an f.                                                     *)
LEMMA WalkExists ==
    ASSUME NEW n \in Nat, NEW next, NEW goal, Forward(next, n)
    PROVE  \E f : Walk(f, next, goal, n)
<1> USE DEF Forward
<1> DEFINE Row(f, b) == IF next[b] = 0 THEN goal[b] ELSE f[next[b]]
           Good == {k \in Nat : \E f : \A b \in 1 .. n :
                                   b + k > n => f[b] = Row(f, b)}
<1>1. 0 \in Good
  OBVIOUS
<1>2. ASSUME NEW k \in Nat, k \in Good
      PROVE  k + 1 \in Good
  <2>1. PICK f : \A b \in 1 .. n : b + k > n => f[b] = Row(f, b)
    BY <1>2
  <2> DEFINE g == [b \in 1 .. n |-> IF b + k > n THEN f[b] ELSE Row(f, b)]
  <2>2. \A b \in 1 .. n : /\ b + k > n => g[b] = f[b]
                          /\ ~ (b + k > n) => g[b] = Row(f, b)
    <3> HIDE DEF Row
    <3> QED
      OBVIOUS
  <2> HIDE DEF g
  <2>3. ASSUME NEW b \in 1 .. n, b + (k + 1) > n
        PROVE  g[b] = Row(g, b)
    <3>1. CASE next[b] = 0
      BY <2>1, <2>2, <3>1
    <3>2. CASE next[b] # 0
      <4> DEFINE d == next[b]
      <4>1. d \in b + 1 .. n
        BY <3>2
      <4> HIDE DEF d
      <4>2. d \in 1 .. n /\ d + k > n
        BY <2>3, <4>1
      <4>3. g[d] = f[d]
        BY <2>2, <4>2
      <4>4. g[b] = f[d]
        BY <2>1, <2>2, <3>2 DEF d
      <4> QED
        BY <3>2, <4>3, <4>4 DEF d
    <3> QED
      BY <3>1, <3>2
  <2> HIDE DEF Row
  <2>4. \A b \in 1 .. n : b + (k + 1) > n => g[b] = Row(g, b)
    BY <2>3
  <2> QED
    BY <2>4
<1>3. n \in Good
  <2> HIDE DEF Good
  <2> QED
    BY <1>1, <1>2, SetInduction
<1>4. PICK f : \A b \in 1 .. n : f[b] = Row(f, b)
  <2>1. PICK f : \A b \in 1 .. n : b + n > n => f[b] = Row(f, b)
    BY <1>3
  <2>2. \A b \in 1 .. n : b + n > n
    OBVIOUS
  <2> QED
    BY <2>1, <2>2
<1> DEFINE h == [b \in 1 .. n |-> f[b]]
<1>5. h = [b \in 1 .. n |-> h[b]] /\ \A b \in 1 .. n : h[b] = f[b]
  OBVIOUS
<1> HIDE DEF h
<1>6. ASSUME NEW b \in 1 .. n
      PROVE  h[b] = Row(h, b)
  <2>1. next[b] # 0 => next[b] \in 1 .. n
    OBVIOUS
  <2> QED
    BY <1>4, <1>5, <2>1
<1>7. h = [b \in 1 .. n |-> Row(h, b)]
  <2> HIDE DEF Row
  <2> QED
    BY <1>5, <1>6
<1> QED
  BY <1>7 DEF Walk

(* And every such f goes from 1 to the first number without a next.        *)
LEMMA WalkEnds ==
    ASSUME NEW n \in Nat, n >= 1, NEW next, NEW goal, NEW f,
           Forward(next, n), Walk(f, next, goal, n)
    PROVE  \E c \in 1 .. n : /\ next[c] = 0 /\ f[1] = goal[c]
                             /\ \A b \in 1 .. c - 1 : next[b] # 0
<1> USE DEF Forward
<1> DEFINE Ends == {b \in 1 .. n : next[b] = 0}
<1>1. n \in Ends /\ Ends \subseteq Nat
  OBVIOUS
<1>2. PICK c \in Ends : \A b \in Ends : c <= b
  BY <1>1, LeastNumber
<1>3. c \in 1 .. n /\ next[c] = 0
  BY <1>2
<1>4. ASSUME NEW b \in 1 .. c - 1
      PROVE  next[b] # 0
  <2>1. b \in 1 .. n /\ ~ (c <= b)
    BY <1>3
  <2> QED
    BY <1>2, <2>1
<1> HIDE DEF Ends
<1>5. \A b \in 1 .. n : f[b] = IF next[b] = 0 THEN goal[b] ELSE f[next[b]]
  BY DEF Walk
<1> DEFINE Good == {k \in Nat : k + 1 <= c => f[k + 1] = f[1]}
<1>6. 0 \in Good
  OBVIOUS
<1>7. ASSUME NEW k \in Nat, k \in Good
      PROVE  k + 1 \in Good
  <2> SUFFICES ASSUME k + 1 + 1 <= c PROVE f[k + 1 + 1] = f[1]
    OBVIOUS
  <2> DEFINE b == k + 1
  <2>1. b \in 1 .. c - 1 /\ b \in 1 .. n /\ f[b] = f[1]
    BY <1>3, <1>7
  <2> HIDE DEF b
  <2>2. next[b] # 0 /\ next[b] = b + 1
    BY <1>4, <2>1
  <2>3. f[b] = f[b + 1]
    BY <1>5, <2>1, <2>2
  <2> QED
    BY <2>1, <2>3 DEF b
<1> HIDE DEF Good
<1>8. \A k \in Nat : k \in Good
  BY <1>6, <1>7, SetInduction
<1>9. f[c] = f[1]
  <2>1. c - 1 \in Good /\ c - 1 + 1 = c
    BY <1>3, <1>8
  <2> QED
    BY <1>3, <2>1 DEF Good
<1> QED
  BY <1>3, <1>4, <1>5, <1>9

(* up leads to an earlier number from every number but 1.                  *)
Backward(up, k) == \A n \in 2 .. k : up[n] \in 1 .. n - 1

(* f collects the numbers up leads to, one after the other.                *)
Climb(f, up, k) ==
    f = [n \in 1 .. k |-> IF n = 1 THEN {} ELSE {up[n]} \cup f[up[n]]]

LEMMA ClimbExists ==
    ASSUME NEW k \in Nat, NEW up, Backward(up, k)
    PROVE  \E f : Climb(f, up, k)
<1> DEFINE Row(f, n) == IF n = 1 THEN {} ELSE {up[n]} \cup f[up[n]]
           Good == {m \in Nat : m <= k =>
                       \E f : \A n \in 1 .. m : f[n] = Row(f, n)}
<1>1. 0 \in Good
  OBVIOUS
<1>2. ASSUME NEW m \in Nat, m \in Good
      PROVE  m + 1 \in Good
  <2> SUFFICES ASSUME m + 1 <= k
               PROVE  \E g : \A n \in 1 .. m + 1 : g[n] = Row(g, n)
    <3> HIDE DEF Row
    <3> QED
      OBVIOUS
  <2>1. PICK f : \A n \in 1 .. m : f[n] = Row(f, n)
    <3> HIDE DEF Row
    <3> QED
      BY <1>2
  <2> DEFINE g == [n \in 1 .. m + 1 |-> Row(f, n)]
  <2>2. \A n \in 1 .. m + 1 : g[n] = Row(f, n)
    <3> HIDE DEF Row
    <3> QED
      OBVIOUS
  <2> HIDE DEF g
  <2>3. ASSUME NEW n \in 1 .. m + 1
        PROVE  g[n] = Row(g, n)
    <3>1. CASE n = 1
      BY <2>2, <3>1
    <3>2. CASE n # 1
      <4>1. up[n] \in 1 .. m /\ up[n] \in 1 .. m + 1
        <5>1. n \in 2 .. k
          BY <3>2
        <5>2. up[n] \in 1 .. n - 1
          BY <5>1 DEF Backward
        <5> QED
          BY <5>2
      <4>2. g[up[n]] = f[up[n]]
        <5> HIDE DEF Row
        <5> QED
          BY <2>1, <2>2, <4>1
      <4> QED
        BY <2>2, <3>2, <4>2
    <3> QED
      BY <3>1, <3>2
  <2> HIDE DEF Row
  <2> QED
    BY <2>3
<1>3. k \in Good
  <2> HIDE DEF Good
  <2> QED
    BY <1>1, <1>2, SetInduction
<1>4. PICK f : \A n \in 1 .. k : f[n] = Row(f, n)
  BY <1>3
<1> DEFINE h == [n \in 1 .. k |-> f[n]]
<1>5. h = [n \in 1 .. k |-> h[n]] /\ \A n \in 1 .. k : h[n] = f[n]
  OBVIOUS
<1> HIDE DEF h
<1>6. ASSUME NEW n \in 1 .. k
      PROVE  h[n] = Row(h, n)
  <2>1. n # 1 => up[n] \in 1 .. k
    <3> SUFFICES ASSUME n # 1 PROVE up[n] \in 1 .. k
      OBVIOUS
    <3>1. up[n] \in 1 .. n - 1
      BY DEF Backward
    <3> QED
      BY <3>1
  <2> QED
    BY <1>4, <1>5, <2>1
<1>7. h = [n \in 1 .. k |-> Row(h, n)]
  <2> HIDE DEF Row
  <2> QED
    BY <1>5, <1>6
<1> QED
  BY <1>7 DEF Climb

(* What is collected does not depend on k.                                 *)
LEMMA ClimbsAgree ==
    ASSUME NEW k \in Nat, NEW up, NEW f, Backward(up, k), Climb(f, up, k),
           NEW l \in Nat, NEW g, l <= k, NEW down, Climb(g, down, l),
           \A n \in 2 .. l : down[n] = up[n]
    PROVE  \A n \in 1 .. l : g[n] = f[n]
<1> DEFINE Good == {m \in Nat : \A n \in 1 .. l : n <= m => g[n] = f[n]}
<1>1. 0 \in Good
  OBVIOUS
<1>2. ASSUME NEW m \in Nat, m \in Good
      PROVE  m + 1 \in Good
  <2>1. ASSUME NEW n \in 1 .. l, n <= m + 1
        PROVE  g[n] = f[n]
    <3>1. n \in 1 .. k
      OBVIOUS
    <3>2. CASE n = 1
      BY <3>1, <3>2 DEF Climb
    <3>3. CASE n # 1
      <4>1. n \in 2 .. l /\ n \in 2 .. k
        BY <3>3
      <4>2. up[n] \in 1 .. n - 1
        BY <4>1 DEF Backward
      <4>3. up[n] \in 1 .. l /\ up[n] <= m
        BY <2>1, <4>2
      <4>4. g[up[n]] = f[up[n]]
        BY <1>2, <4>3
      <4>5. f[n] = {up[n]} \cup f[up[n]]
        BY <3>1, <3>3 DEF Climb
      <4>6. g[n] = {down[n]} \cup g[down[n]]
        BY <3>3 DEF Climb
      <4>7. down[n] = up[n]
        BY <4>1
      <4> QED
        BY <4>4, <4>5, <4>6, <4>7
    <3> QED
      BY <3>2, <3>3
  <2> QED
    BY <2>1
<1>3. l \in Good
  <2> HIDE DEF Good
  <2> QED
    BY <1>1, <1>2, SetInduction
<1> QED
  BY <1>3

(* All it collects is led to by some number.                               *)
LEMMA ClimbWithin ==
    ASSUME NEW k \in Nat, k >= 1, NEW up, NEW f, Backward(up, k),
           Climb(f, up, k)
    PROVE  \A a \in f[k] : \E n \in 2 .. k : a = up[n]
<1> DEFINE Within(n) == \A a \in f[n] : \E d \in 2 .. k : a = up[d]
           Good == {m \in Nat : \A n \in 1 .. k : n <= m => Within(n)}
<1>1. 0 \in Good
  OBVIOUS
<1>2. ASSUME NEW m \in Nat, m \in Good
      PROVE  m + 1 \in Good
  <2>1. ASSUME NEW n \in 1 .. k, n <= m + 1
        PROVE  Within(n)
    <3>1. CASE n = 1
      BY <3>1 DEF Climb
    <3>2. CASE n # 1
      <4>1. n \in 2 .. k
        BY <3>2
      <4>2. up[n] \in 1 .. n - 1
        BY <4>1 DEF Backward
      <4>3. up[n] \in 1 .. k /\ up[n] <= m
        BY <2>1, <4>2
      <4>4. Within(up[n])
        BY <1>2, <4>3
      <4>5. f[n] = {up[n]} \cup f[up[n]]
        BY <3>2 DEF Climb
      <4> QED
        BY <4>1, <4>4, <4>5
    <3> QED
      BY <3>1, <3>2
  <2> HIDE DEF Within
  <2> QED
    BY <2>1
<1>3. k \in Good
  <2> HIDE DEF Good
  <2> QED
    BY <1>1, <1>2, SetInduction
<1>4. Within(k)
  <2> HIDE DEF Within
  <2> QED
    BY <1>3
<1> QED
  BY <1>4

(* If every number leads to the one before it, that is all of them.        *)
LEMMA ClimbStraight ==
    ASSUME NEW k \in Nat, k >= 1, NEW up, NEW f, Climb(f, up, k),
           \A n \in 2 .. k : up[n] = n - 1
    PROVE  f[k] = 1 .. k - 1
<1> DEFINE Good == {m \in Nat : m + 1 <= k => f[m + 1] = 1 .. m}
<1>1. 0 \in Good
  BY DEF Climb
<1>2. ASSUME NEW m \in Nat, m \in Good
      PROVE  m + 1 \in Good
  <2> SUFFICES ASSUME m + 1 + 1 <= k
               PROVE  f[m + 1 + 1] = 1 .. m + 1
    OBVIOUS
  <2> DEFINE n == m + 1 + 1
  <2>1. n \in 2 .. k /\ n \in 1 .. k /\ n # 1 /\ n - 1 = m + 1
    OBVIOUS
  <2> HIDE DEF n
  <2>2. f[n] = {up[n]} \cup f[up[n]]
    BY <2>1 DEF Climb
  <2>3. up[n] = m + 1 /\ f[m + 1] = 1 .. m
    BY <1>2, <2>1
  <2>4. {m + 1} \cup 1 .. m = 1 .. m + 1
    OBVIOUS
  <2> QED
    BY <2>2, <2>3, <2>4 DEF n
<1> HIDE DEF Good
<1>3. k - 1 \in Good /\ k - 1 + 1 = k
  BY <1>1, <1>2, SetInduction
<1> QED
  BY <1>3 DEF Good

-----------------------------------------------------------------------------
(* FlattenSeq.                                                             *)

(* \o, kept from the provers where its meaning plays no part.              *)
Joined(s, t) == s \o t

(* f is what FlattenSeq computes on the way.                               *)
Joins(f, ss, k) ==
    /\ f = [n \in 1 .. k |-> f[n]]
    /\ \A n \in 1 .. k : /\ n = 1 => f[n] = ss[n]
                         /\ n # 1 => f[n] = Joined(f[n - 1], ss[n])

LEMMA JoinExists ==
    ASSUME NEW ss, NEW k \in Nat
    PROVE  \E f : Joins(f, ss, k)
<1> DEFINE Good == {m \in Nat : \E f : Joins(f, ss, m)}
<1>1. 0 \in Good
  <2> DEFINE f == [n \in 1 .. 0 |-> << >>]
  <2>1. f = [n \in 1 .. 0 |-> f[n]] /\ 1 .. 0 = {}
    OBVIOUS
  <2> HIDE DEF f
  <2>2. Joins(f, ss, 0)
    BY <2>1 DEF Joins
  <2> QED
    BY <2>2
<1>2. ASSUME NEW m \in Nat, m \in Good
      PROVE  m + 1 \in Good
  <2>1. PICK f : Joins(f, ss, m)
    BY <1>2
  <2> DEFINE new == IF m + 1 = 1 THEN ss[m + 1] ELSE Joined(f[m], ss[m + 1])
             g == [n \in 1 .. m + 1 |-> IF n = m + 1 THEN new ELSE f[n]]
  <2>2. /\ g = [n \in 1 .. m + 1 |-> g[n]]
        /\ g[m + 1] = new
        /\ \A n \in 1 .. m : g[n] = f[n]
    <3> HIDE DEF new
    <3> QED
      OBVIOUS
  <2> HIDE DEF g
  <2>3. ASSUME NEW n \in 1 .. m + 1
        PROVE  /\ n = 1 => g[n] = ss[n]
               /\ n # 1 => g[n] = Joined(g[n - 1], ss[n])
    <3>1. CASE n = m + 1
      <4>1. n # 1 => n - 1 \in 1 .. m /\ n - 1 = m
        BY <3>1
      <4> QED
        BY <2>2, <3>1, <4>1
    <3>2. CASE n # m + 1
      <4>1. n \in 1 .. m
        BY <3>2
      <4>2. n # 1 => n - 1 \in 1 .. m
        BY <4>1
      <4> QED
        BY <2>1, <2>2, <4>1, <4>2 DEF Joins
    <3> QED
      BY <3>1, <3>2
  <2>4. Joins(g, ss, m + 1)
    BY <2>2, <2>3 DEF Joins
  <2> QED
    BY <2>4
<1> HIDE DEF Good
<1>3. k \in Good
  BY <1>1, <1>2, SetInduction
<1> QED
  BY <1>3 DEF Good

LEMMA FlattenJoins ==
    ASSUME NEW ss, Len(ss) \in Nat \ {0}
    PROVE  \E f : Joins(f, ss, Len(ss)) /\ FlattenSeq(ss) = f[Len(ss)]
<1> DEFINE k == Len(ss)
           Row(f, n) == IF n = 1 THEN ss[n] ELSE f[n - 1] \o ss[n]
           flatten == CHOOSE f : f = [n \in 1 .. k |-> Row(f, n)]
<1>1. FlattenSeq(ss) = flatten[k]
  BY DEF FlattenSeq
<1> HIDE DEF k
<1>2. flatten = [n \in 1 .. k |-> Row(flatten, n)]
  <2>1. PICK f : Joins(f, ss, k)
    BY JoinExists DEF k
  <2>2. ASSUME NEW n \in 1 .. k
        PROVE  f[n] = Row(f, n)
    BY <2>1 DEF Joins, Joined
  <2>3. f = [n \in 1 .. k |-> f[n]]
    BY <2>1 DEF Joins
  <2> HIDE DEF Row
  <2>4. f = [n \in 1 .. k |-> Row(f, n)]
    BY <2>2, <2>3
  <2> QED
    BY <2>4
<1> HIDE DEF flatten
<1>3. \A n \in 1 .. k : flatten[n] = Row(flatten, n)
  <2> HIDE DEF Row
  <2> QED
    BY <1>2
<1>4. flatten = [n \in 1 .. k |-> flatten[n]]
  <2> HIDE DEF Row
  <2> QED
    BY <1>2
<1>5. Joins(flatten, ss, k)
  BY <1>3, <1>4 DEF Joins, Joined
<1> QED
  BY <1>1, <1>5 DEF k

(* By induction on the sequences joined.                                   *)
LEMMA FlattenType ==
    ASSUME NEW S, NEW ss \in Seq(Seq(S))
    PROVE  FlattenSeq(ss) \in Seq(S)
<1>1. CASE Len(ss) = 0
  <2>1. FlattenSeq(ss) = ss /\ ss = << >>
    BY <1>1, EmptySeq DEF FlattenSeq
  <2> QED
    BY <2>1, EmptySeq
<1>2. CASE Len(ss) # 0
  <2> DEFINE k == Len(ss)
  <2>1. k \in Nat \ {0} /\ \A n \in 1 .. k : ss[n] \in Seq(S)
    BY <1>2, LenProperties, ElementOfSeq
  <2>2. PICK f : Joins(f, ss, k) /\ FlattenSeq(ss) = f[k]
    BY <2>1, FlattenJoins
  <2> HIDE DEF k
  <2> DEFINE Good == {n \in Nat : n \in 1 .. k => f[n] \in Seq(S)}
  <2>3. 0 \in Good
    OBVIOUS
  <2>4. ASSUME NEW n \in Nat, n \in Good
        PROVE  n + 1 \in Good
    <3> SUFFICES ASSUME n + 1 \in 1 .. k
                 PROVE  f[n + 1] \in Seq(S)
      OBVIOUS
    <3>1. CASE n = 0
      <4>1. n + 1 = 1 /\ 1 \in 1 .. k
        BY <3>1
      <4>2. f[1] = ss[1]
        BY <2>2, <4>1 DEF Joins
      <4> QED
        BY <2>1, <4>1, <4>2
    <3>2. CASE n # 0
      <4>1. n \in 1 .. k /\ n + 1 # 1 /\ (n + 1) - 1 = n
        BY <2>1, <3>2
      <4>2. f[n + 1] = f[n] \o ss[n + 1]
        BY <2>2, <4>1 DEF Joins, Joined
      <4>3. f[n] \in Seq(S) /\ ss[n + 1] \in Seq(S)
        BY <2>1, <2>4, <4>1
      <4> QED
        BY <4>2, <4>3, ConcatProperties
    <3> QED
      BY <3>1, <3>2
  <2> HIDE DEF Good
  <2>5. k \in Good
    BY <2>1, <2>3, <2>4, SetInduction
  <2> QED
    BY <2>1, <2>2, <2>5 DEF Good
<1> QED
  BY <1>1, <1>2

LEMMA JoinsAgree ==
    ASSUME NEW s, NEW k \in Nat, NEW f, Joins(f, s, k),
           NEW t, NEW l \in Nat, NEW g, Joins(g, t, l),
           NEW m \in Nat \ {0}, m <= k, m <= l,
           \A n \in 1 .. m : s[n] = t[n]
    PROVE  f[m] = g[m]
<1> DEFINE Good == {n \in Nat : n + 1 <= m => f[n + 1] = g[n + 1]}
<1>1. 0 \in Good
  <2>1. 0 + 1 = 1 /\ 1 \in 1 .. m /\ 1 \in 1 .. k /\ 1 \in 1 .. l
    OBVIOUS
  <2>2. f[1] = s[1] /\ g[1] = t[1] /\ s[1] = t[1]
    BY <2>1 DEF Joins
  <2> QED
    BY <2>1, <2>2
<1>2. ASSUME NEW n \in Nat, n \in Good
      PROVE  n + 1 \in Good
  <2> DEFINE o == n + 1
             p == o + 1
  <2> SUFFICES ASSUME p <= m PROVE f[p] = g[p]
    OBVIOUS
  <2>1. /\ p \in 1 .. m /\ p \in 1 .. k /\ p \in 1 .. l
        /\ p - 1 = o /\ p # 1
    OBVIOUS
  <2>2. f[o] = g[o]
    BY <1>2
  <2> HIDE DEF o, p
  <2>3. f[p] = Joined(f[o], s[p]) /\ g[p] = Joined(g[o], t[p])
    BY <2>1 DEF Joins
  <2> QED
    BY <2>1, <2>2, <2>3
<1> HIDE DEF Good
<1>3. m - 1 \in Nat /\ (m - 1) + 1 = m
  OBVIOUS
<1>4. m - 1 \in Good
  BY <1>1, <1>2, <1>3, SetInduction
<1> QED
  BY <1>3, <1>4 DEF Good

LEMMA FlattenAppend ==
    ASSUME NEW S, NEW ss \in Seq(Seq(S)), NEW s \in Seq(S)
    PROVE  FlattenSeq(Append(ss, s)) = FlattenSeq(ss) \o s
<1> DEFINE k == Len(ss)
           tt == Append(ss, s)
<1>1. /\ k \in Nat /\ Len(tt) = k + 1 /\ tt[k + 1] = s
      /\ \A n \in 1 .. k : ss[n] = tt[n]
  BY LenProperties, AppendProperties
<1> HIDE DEF tt
<1>2. PICK g : Joins(g, tt, k + 1) /\ FlattenSeq(tt) = g[k + 1]
  <2>1. Len(tt) \in Nat \ {0}
    BY <1>1
  <2> QED
    BY <1>1, <2>1, FlattenJoins
<1>3. CASE k = 0
  <2>1. FlattenSeq(ss) = << >>
    BY <1>3, EmptySeq DEF FlattenSeq
  <2>2. k + 1 = 1 /\ 1 \in 1 .. k + 1
    BY <1>3
  <2>3. g[1] = tt[1]
    BY <1>2, <2>2 DEF Joins
  <2>4. FlattenSeq(tt) = s
    BY <1>1, <1>2, <2>2, <2>3
  <2>5. << >> \o s = s
    BY ConcatEmptySeq
  <2> QED
    BY <2>1, <2>4, <2>5 DEF tt
<1>4. CASE k # 0
  <2>1. PICK f : Joins(f, ss, k) /\ FlattenSeq(ss) = f[k]
    BY <1>1, <1>4, FlattenJoins
  <2>2. k \in Nat \ {0} /\ k + 1 \in Nat /\ k <= k /\ k <= k + 1
    BY <1>1, <1>4
  <2> HIDE DEF k
  <2>3. f[k] = g[k]
    BY <1>1, <1>2, <2>1, <2>2, JoinsAgree
  <2>4. k + 1 \in 1 .. k + 1 /\ k + 1 # 1 /\ (k + 1) - 1 = k
    BY <2>2
  <2>5. g[k + 1] = g[k] \o tt[k + 1]
    BY <1>2, <2>4 DEF Joins, Joined
  <2> QED
    BY <1>1, <1>2, <2>1, <2>3, <2>5 DEF tt
<1> QED
  BY <1>3, <1>4
=============================================================================
