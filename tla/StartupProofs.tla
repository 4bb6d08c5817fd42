--------------------------- MODULE StartupProofs ---------------------------
(***************************************************************************)
(* Proofs about Startup, for every file: the tree Parse hands over says    *)
(* what the tokens said, and the queries of NginxConfig come to an end and *)
(* find what they look for.                                                *)
(***************************************************************************)
EXTENDS ParserProofs

-----------------------------------------------------------------------------
LEMMA StatementAt ==
    ASSUME ParserType, NEW b \in 1 .. Len(blocks)
    PROVE  /\ blocks[b] \in Seq(Statement)
           /\ DOMAIN blocks = 1 .. Len(blocks)
           /\ DOMAIN blocks[b] = 1 .. Len(blocks[b])
           /\ DOMAIN blocks[b] \subseteq Nat
           /\ \A i \in DOMAIN blocks[b] : blocks[b][i] \in Statement
<1>1. blocks[b] \in Seq(Statement)
  BY ElementOfSeq DEF ParserType, Block
<1>2. /\ DOMAIN blocks = 1 .. Len(blocks)
      /\ DOMAIN blocks[b] = 1 .. Len(blocks[b])
  BY <1>1, LenProperties DEF ParserType
<1> QED
  BY <1>1, <1>2, ElementOfSeq

-----------------------------------------------------------------------------
(* The tree: a block comes after the block it is a child of.               *)

ChildOK(s, b, n) == s.child = NoChild \/ s.child \in b + 1 .. n

ChildrenLater ==
    \A b \in 1 .. Len(blocks) : \A i \in 1 .. Len(blocks[b]) :
        ChildOK(blocks[b][i], b, Len(blocks))

(* The statements with a block, and their blocks.                          *)
Link(b, i, c) ==
    /\ b \in 1 .. Len(blocks) /\ i \in 1 .. Len(blocks[b])
    /\ c # NoChild /\ blocks[b][i].child = c

(* AddToken gives no statement a block and takes none away.                *)
LEMMA AddTokenChildren ==
    ASSUME NEW B \in Block, value \in Words,
           last = "NORMAL" => B # << >> /\ B[Len(B)].child = NoChild
    PROVE  /\ \A i \in 1 .. Len(B) : /\ i \in 1 .. Len(AddToken(B))
                                     /\ AddToken(B)[i].child = B[i].child
           /\ \A i \in 1 .. Len(AddToken(B)) :
                 i \in 1 .. Len(B) \/ AddToken(B)[i].child = NoChild
<1> DEFINE A == AddToken(B)
           n == Len(B)
<1>1. B \in Seq(Statement) /\ n \in Nat
  BY LenProperties DEF Block
<1>2. CASE last # "NORMAL"
  <2> DEFINE s == NewStatement(value)
  <2>1. A = Append(B, s) /\ s \in Statement
    BY <1>2 DEF AddToken, NewStatement, Statement, NoChild
  <2> HIDE DEF s
  <2>2. Len(A) = n + 1 /\ \A i \in 1 .. n : A[i] = B[i]
    BY <1>1, <2>1, AppendProperties
  <2>3. A[n + 1].child = NoChild
    BY <1>2, <2>2, AddTokenOK
  <2> HIDE DEF A, n
  <2>4. \A i \in 1 .. n : i \in 1 .. n + 1
    BY <1>1
  <2>5. \A i \in 1 .. n + 1 : i \in 1 .. n \/ A[i].child = NoChild
    <3>1. \A i \in 1 .. n + 1 : i \in 1 .. n \/ i = n + 1
      BY <1>1
    <3> QED
      BY <2>3, <3>1
  <2> QED
    BY <2>2, <2>4, <2>5 DEF A, n
<1>3. CASE last = "NORMAL"
  <2> DEFINE s == [B[n] EXCEPT !.tokens = Append(@, value)]
  <2>1. A = [B EXCEPT ![n] = s]
    BY <1>3, Zenon DEF AddToken
  <2> HIDE DEF s
  <2>2. DOMAIN B = 1 .. n /\ DOMAIN A = 1 .. n /\ A \in Seq(Statement)
    BY <1>1, <1>3, <2>1, AddTokenOK, LenProperties DEF Block
  <2>3. Len(A) = n
    BY <1>1, <2>2, LenProperties
  <2>4. \A i \in 1 .. n : i # n => A[i] = B[i]
    BY <2>1, <2>2
  <2>5. A[n].child = NoChild /\ B[n].child = NoChild
    BY <1>3, <2>3, AddTokenOK
  <2> HIDE DEF A
  <2> QED
    BY <2>3, <2>4, <2>5 DEF A
<1> QED
  BY <1>2, <1>3

(* What a step of the parser does to the links: nothing, or it gives the   *)
(* last statement of the top block a new block.                            *)
SameLinks ==
    /\ Len(blocks') = Len(blocks)
    /\ \A b, i, c : Link(b, i, c)' <=> Link(b, i, c)

NewLink ==
    /\ stack # << >> /\ Top \in 1 .. Len(blocks)
    /\ Len(blocks') = Len(blocks) + 1
    /\ \A b, i, c : Link(b, i, c)' <=>
          \/ Link(b, i, c)
          \/ b = Top /\ i = Len(blocks[Top]) /\ c = Len(blocks) + 1
    /\ \A i, c : Link(Top, i, c) => i < Len(blocks[Top])

LEMMA NormalLinks ==
    ASSUME ParserType, StackInv, Normal
    PROVE  SameLinks
<1> DEFINE B == AddToken(blocks[Top])
           n == Len(blocks)
<1>1. /\ result = "parsing" /\ blocks' = [blocks EXCEPT ![Top] = B]
  BY DEF Normal, Accepts
<1>2. stack # << >> /\ TopOK
  BY <1>1 DEF StackInv
<1>3. blocks[Top] \in Block /\ Top \in 1 .. n /\ n \in Nat
  BY <1>2, StackLen
<1>4. B \in Block
  BY <1>2, <1>3, AddTokenOK DEF TopOK, ParserType
<1>5. /\ \A i \in 1 .. Len(blocks[Top]) :
            i \in 1 .. Len(B) /\ B[i].child = blocks[Top][i].child
      /\ \A i \in 1 .. Len(B) :
            i \in 1 .. Len(blocks[Top]) \/ B[i].child = NoChild
  BY <1>2, <1>3, AddTokenChildren DEF TopOK, ParserType
<1> HIDE DEF B
<1>6. /\ Len(blocks') = n
      /\ \A b \in 1 .. n : blocks'[b] = IF b = Top THEN B ELSE blocks[b]
  BY <1>1, <1>3, <1>4, ExceptSeq DEF ParserType
<1>7. ASSUME NEW b, NEW i, NEW c
      PROVE  Link(b, i, c)' <=> Link(b, i, c)
  <2>1. CASE b \notin 1 .. n
    BY <1>6, <2>1 DEF Link
  <2>2. CASE b \in 1 .. n /\ b # Top
    <3>1. blocks'[b] = blocks[b]
      BY <1>6, <2>2
    <3> QED
      BY <1>6, <2>2, <3>1 DEF Link
  <2>3. CASE b = Top
    <3>1. blocks'[Top] = B
      BY <1>3, <1>6
    <3> QED
      BY <1>3, <1>5, <1>6, <2>3, <3>1 DEF Link
  <2> QED
    BY <2>1, <2>2, <2>3
<1> QED
  BY <1>6, <1>7 DEF SameLinks

LEMMA StartBlockLinks ==
    ASSUME ParserType, StackInv, StartBlock
    PROVE  NewLink
<1> DEFINE n == Len(blocks)
           B == blocks[Top]
           m == Len(B)
           s == [B[m] EXCEPT !.child = n + 1]
           C == [B EXCEPT ![m] = s]
           bs == [blocks EXCEPT ![Top] = C]
<1>1. result = "parsing" /\ last = "NORMAL" /\ blocks' = Append(bs, << >>)
  BY DEF StartBlock, Accepts, After
<1>2. stack # << >> /\ TopOK
  BY <1>1 DEF StackInv
<1>3. /\ B \in Seq(Statement) /\ Top \in 1 .. n /\ B # << >>
      /\ n \in Nat /\ n + 1 \in Nat /\ B[m].child = NoChild
  BY <1>1, <1>2, StackLen DEF TopOK, Block
<1>4. m \in Nat /\ m \in 1 .. m
  <2>1. m \in Nat \ {0}
    BY <1>3, EmptySeq
  <2> QED
    BY <2>1
<1>5. s \in Statement /\ s.child = n + 1
  <2>1. B[m] \in Statement
    BY <1>3, <1>4, ElementOfSeq
  <2> QED
    BY <1>3, <2>1 DEF Statement
<1> HIDE DEF s, n
<1>6. /\ C \in Block /\ Len(C) = m
      /\ \A i \in 1 .. m : C[i] = IF i = m THEN s ELSE B[i]
  BY <1>3, <1>4, <1>5, ExceptSeq DEF Block
<1> HIDE DEF C
<1>7. /\ bs \in Seq(Block) /\ Len(bs) = n
      /\ \A b \in 1 .. n : bs[b] = IF b = Top THEN C ELSE blocks[b]
  BY <1>3, <1>6, ExceptSeq DEF ParserType, n
<1> HIDE DEF bs
<1>8. /\ Len(blocks') = n + 1
      /\ \A b \in 1 .. n : blocks'[b] = bs[b]
      /\ blocks'[n + 1] = << >>
  <2>1. << >> \in Block
    BY EmptySeq DEF Block
  <2> QED
    BY <1>1, <1>7, <2>1, AppendProperties
<1>9. \A i, c : Link(Top, i, c) => i < m
  <2> SUFFICES ASSUME NEW i, NEW c, Link(Top, i, c) PROVE i < m
    OBVIOUS
  <2>1. i \in 1 .. m /\ i # m
    BY <1>3 DEF Link
  <2> QED
    BY <1>4, <2>1
<1> HIDE DEF m
<1>10. ASSUME NEW b, NEW i, NEW c
       PROVE  Link(b, i, c)' <=> \/ Link(b, i, c)
                                 \/ b = Top /\ i = m /\ c = n + 1
  <2>1. CASE b \notin 1 .. n
    <3>1. b # Top /\ ~Link(b, i, c)
      BY <1>3, <2>1 DEF Link, n
    <3>2. b \in 1 .. n + 1 => b = n + 1
      BY <1>3, <2>1
    <3>3. ~Link(b, i, c)'
      BY <1>8, <3>2 DEF Link
    <3> QED
      BY <3>1, <3>3
  <2>2. CASE b \in 1 .. n /\ b # Top
    <3>1. blocks'[b] = blocks[b] /\ b \in 1 .. n + 1
      BY <1>3, <1>7, <1>8, <2>2
    <3> QED
      BY <1>8, <2>2, <3>1 DEF Link, n
  <2>3. CASE b = Top
    <3>1. blocks'[Top] = C /\ Top \in 1 .. n + 1
      BY <1>3, <1>7, <1>8
    <3>2. Link(b, i, c)' <=> i \in 1 .. m /\ c # NoChild /\ C[i].child = c
      BY <1>6, <1>8, <2>3, <3>1 DEF Link
    <3>3. Link(b, i, c) <=> i \in 1 .. m /\ c # NoChild /\ B[i].child = c
      BY <1>3, <2>3 DEF Link, m, n
    <3>4. CASE i = m
      <4>1. C[i].child = n + 1 /\ n + 1 # NoChild
        BY <1>3, <1>4, <1>5, <1>6, <3>4 DEF NoChild
      <4> QED
        BY <1>3, <1>4, <2>3, <3>2, <3>3, <3>4, <4>1
    <3>5. CASE i # m
      BY <1>6, <3>2, <3>3, <3>5
    <3> QED
      BY <3>4, <3>5
  <2> QED
    BY <2>1, <2>2, <2>3
<1> QED
  BY <1>2, <1>3, <1>8, <1>9, <1>10 DEF NewLink, n, m

LEMMA LinksStep ==
    ASSUME ParserType, StackInv, [Parse]_parseVars
    PROVE  \/ UNCHANGED stack /\ SameLinks
           \/ EndBlock /\ SameLinks
           \/ stack' = Append(stack, Len(blocks) + 1) /\ NewLink
<1>1. ASSUME UNCHANGED blocks PROVE SameLinks
  BY <1>1 DEF SameLinks, Link
<1>2. CASE ParseToken
  BY <1>1, <1>2, LexStep
<1>3. CASE Normal
  BY <1>3, NormalLinks DEF Normal
<1>4. CASE StartBlock
  BY <1>4, StartBlockLinks DEF StartBlock
<1>5. \/ Open \/ StatementEnd \/ Eof \/ SkipComment \/ BadTransition
      \/ UNCHANGED parseVars
      => UNCHANGED <<blocks, stack>>
  BY DEF Open, StatementEnd, Eof, SkipComment, BadTransition, parseVars,
         treeVars
<1>6. EndBlock => UNCHANGED blocks
  BY DEF EndBlock
<1> QED
  BY <1>1, <1>2, <1>3, <1>4, <1>5, <1>6 DEF Parse

LEMMA LinksLater ==
    ASSUME ChildrenLater, NEW b, NEW i, NEW c, Link(b, i, c)
    PROVE  c \in b + 1 .. Len(blocks) /\ b \in Nat
BY DEF ChildrenLater, ChildOK, Link

LEMMA ChildrenStep ==
    ParserType /\ StackInv /\ ChildrenLater /\ [Parse]_parseVars
        => ChildrenLater'
<1> SUFFICES ASSUME ParserType, StackInv, ChildrenLater, [Parse]_parseVars
             PROVE  ChildrenLater'
  OBVIOUS
<1>1. Len(blocks) \in Nat
  BY LenProperties DEF ParserType
<1>2. ASSUME NEW b, NEW i, NEW c, Link(b, i, c)'
      PROVE  c \in b + 1 .. Len(blocks')
  <2>1. Link(b, i, c) => c \in b + 1 .. Len(blocks) /\ b \in Nat
    BY LinksLater
  <2>2. CASE SameLinks
    BY <1>2, <2>1, <2>2 DEF SameLinks
  <2>3. CASE NewLink
    <3>1. CASE Link(b, i, c)
      BY <1>1, <2>1, <2>3, <3>1 DEF NewLink
    <3>2. CASE b = Top /\ c = Len(blocks) + 1
      BY <1>1, <2>3, <3>2 DEF NewLink
    <3> QED
      BY <1>2, <2>3, <3>1, <3>2 DEF NewLink
  <2> QED
    BY <2>2, <2>3, LinksStep
<1>3. ASSUME NEW b \in 1 .. Len(blocks'), NEW i \in 1 .. Len(blocks'[b])
      PROVE  ChildOK(blocks'[b][i], b, Len(blocks'))
  BY <1>2, Zenon DEF ChildOK, Link
<1> QED
  BY <1>3 DEF ChildrenLater, ChildOK

(* The order of the blocks is that of the text: every block but the first  *)
(* belongs to one statement; the first block of a block is the next        *)
(* number; blocks of the same block are in the order of their statements;  *)
(* and what lies between a block and a child of it lies in the block.  So  *)
(* that new blocks keep it: a block on top of the stack is the newest or   *)
(* has a block already, and what comes after an open block lies in it.     *)
EveryLinked == \A c \in 2 .. Len(blocks) : \E b, i : Link(b, i, c)

OneLink == \A a, b, i, j, c :
               Link(a, i, c) /\ Link(b, j, c) => a = b /\ i = j

FirstNext == \A b, i, c : Link(b, i, c) =>
                 c = b + 1 \/ \E j, d : j < i /\ Link(b, j, d)

Siblings == \A b, i, j, c, d :
                Link(b, i, c) /\ Link(b, j, d) /\ i < j => c < d

Nested == \A a, b, i, j, c, d :
              Link(a, i, c) /\ Link(b, j, d) /\ b < c /\ c < d => b <= a

TopNewest == stack # << >> =>
                 Top = Len(blocks) \/ \E i, c : Link(Top, i, c)

OpenAround == \A k \in 1 .. Len(stack) : \A b, i, c :
                  Link(b, i, c) /\ stack[k] < c => stack[k] <= b

Ordered == EveryLinked /\ OneLink /\ FirstNext /\ Siblings /\ Nested
InOrder == Ordered /\ TopNewest /\ OpenAround

LEMMA SameOrder ==
    ASSUME Ordered, SameLinks
    PROVE  Ordered'
<1>1. EveryLinked'
  BY DEF Ordered, EveryLinked, SameLinks
<1>2. OneLink'
  BY DEF Ordered, OneLink, SameLinks
<1>3. FirstNext'
  BY DEF Ordered, FirstNext, SameLinks
<1>4. Siblings'
  BY DEF Ordered, Siblings, SameLinks
<1>5. Nested'
  BY DEF Ordered, Nested, SameLinks
<1> QED
  BY <1>1, <1>2, <1>3, <1>4, <1>5 DEF Ordered

LEMMA NewOrder ==
    ASSUME ParserType, StackInv, ChildrenLater, InOrder, NewLink
    PROVE  Ordered'
<1> USE DEF InOrder, Ordered
<1> DEFINE n == Len(blocks)
           m == Len(blocks[Top])
<1>1. n \in Nat /\ Len(blocks') = n + 1
  BY LenProperties DEF ParserType, NewLink
<1>2. \A b, i, c : b = Top /\ i = m /\ c = n + 1 => Link(b, i, c)'
  BY DEF NewLink
<1>3. \A b, i, c : Link(b, i, c) => /\ Link(b, i, c)'
                                    /\ c # n + 1 /\ c < n + 1
                                    /\ c \in Nat /\ b \in Nat
  <2> SUFFICES ASSUME NEW b, NEW i, NEW c, Link(b, i, c)
               PROVE  /\ Link(b, i, c)' /\ c # n + 1 /\ c < n + 1
                      /\ c \in Nat /\ b \in Nat
    OBVIOUS
  <2>1. c \in b + 1 .. n /\ b \in Nat
    BY LinksLater
  <2> QED
    BY <1>1, <2>1 DEF NewLink
<1>4. \A b, i, c : Link(b, i, c)' =>
          Link(b, i, c) \/ (b = Top /\ i = m /\ c = n + 1)
  BY DEF NewLink
<1>5. EveryLinked'
  <2> SUFFICES ASSUME NEW c \in 2 .. n + 1
               PROVE  \E b, i : Link(b, i, c)'
    BY <1>1 DEF EveryLinked
  <2>1. CASE c = n + 1
    BY <1>2, <2>1
  <2>2. CASE c # n + 1
    <3>1. c \in 2 .. n
      BY <1>1, <2>2
    <3> QED
      BY <1>3, <3>1 DEF EveryLinked
  <2> QED
    BY <2>1, <2>2
<1> HIDE DEF n, m
<1>6. OneLink'
  <2> SUFFICES ASSUME NEW a, NEW b, NEW i, NEW j, NEW c,
                      Link(a, i, c)', Link(b, j, c)'
               PROVE  a = b /\ i = j
    BY DEF OneLink
  <2>1. CASE c = n + 1
    BY <1>3, <1>4, <2>1
  <2>2. CASE c # n + 1
    BY <1>4, <2>2 DEF OneLink
  <2> QED
    BY <2>1, <2>2
<1>7. FirstNext'
  <2> SUFFICES ASSUME NEW b, NEW i, NEW c, Link(b, i, c)'
               PROVE  c = b + 1 \/ \E j, d : j < i /\ Link(b, j, d)'
    BY DEF FirstNext
  <2>1. CASE Link(b, i, c)
    BY <1>3, <2>1 DEF FirstNext
  <2>2. CASE b = Top /\ i = m /\ c = n + 1
    <3>1. Top = n \/ \E j, d : Link(Top, j, d)
      BY DEF TopNewest, NewLink, n
    <3>2. \A j, d : Link(Top, j, d) => j < m
      BY DEF NewLink, m
    <3> QED
      BY <1>3, <2>2, <3>1, <3>2
  <2> QED
    BY <1>4, <2>1, <2>2
<1>8. m \in Nat /\ \A i, c : Link(Top, i, c) => i < m /\ i \in Nat
  <2>1. m \in Nat
    BY StatementAt, LenProperties DEF NewLink, m
  <2> QED
    BY <2>1 DEF NewLink, Link, m
<1>9. Siblings'
  <2> SUFFICES ASSUME NEW b, NEW i, NEW j, NEW c, NEW d,
                      Link(b, i, c)', Link(b, j, d)', i < j
               PROVE  c < d
    BY DEF Siblings
  <2>1. CASE Link(b, i, c) /\ Link(b, j, d)
    BY <2>1 DEF Siblings
  <2>2. CASE Link(b, i, c) /\ d = n + 1
    BY <1>3, <2>2
  <2>3. CASE ~Link(b, i, c)
    <3>1. b = Top /\ i = m
      BY <1>4, <2>3
    <3>2. ~Link(b, j, d)
      BY <1>8, <3>1
    <3>3. j = m
      BY <1>4, <3>2
    <3> QED
      BY <1>8, <3>1, <3>3
  <2> QED
    BY <1>4, <2>1, <2>2, <2>3
<1>10. Nested'
  <2> SUFFICES ASSUME NEW a, NEW b, NEW i, NEW j, NEW c, NEW d,
                      Link(a, i, c)', Link(b, j, d)', b < c, c < d
               PROVE  b <= a
    BY DEF Nested
  <2>1. CASE Link(a, i, c) /\ Link(b, j, d)
    BY <2>1 DEF Nested
  <2>2. CASE Link(a, i, c) /\ b = Top
    <3>1. /\ Len(stack) \in 1 .. Len(stack) /\ stack[Len(stack)] = b
      BY <2>2, StackLen DEF NewLink, Top
    <3> QED
      BY <2>2, <3>1 DEF OpenAround
  <2>3. CASE c = n + 1
    <3>1. d = n + 1 \/ (d < n + 1 /\ d \in Nat)
      BY <1>3, <1>4
    <3> QED
      BY <1>1, <2>3, <3>1
  <2> QED
    BY <1>4, <2>1, <2>2, <2>3
<1> QED
  BY <1>5, <1>6, <1>7, <1>9, <1>10

LEMMA OrderStep ==
    ParserType /\ StackInv /\ ChildrenLater /\ InOrder /\ [Parse]_parseVars
        => InOrder'
<1> SUFFICES ASSUME ParserType, StackInv, ChildrenLater, InOrder,
                    [Parse]_parseVars
             PROVE  InOrder'
  OBVIOUS
<1>1. CASE UNCHANGED stack /\ SameLinks
  <2>1. TopNewest'
    <3> SUFFICES ASSUME stack' # << >>, NEW t, t = Top'
                 PROVE  t = Len(blocks') \/ \E i, c : Link(t, i, c)'
      BY DEF TopNewest, Link
    <3>1. stack # << >> /\ t = Top
      BY <1>1 DEF Top
    <3> QED
      BY <1>1, <3>1 DEF InOrder, TopNewest, SameLinks
  <2>2. OpenAround'
    BY <1>1 DEF InOrder, OpenAround, SameLinks
  <2> QED
    BY <1>1, <2>1, <2>2, SameOrder DEF InOrder
<1>2. CASE EndBlock /\ SameLinks
  <2>1. TopNewest'
    <3> SUFFICES ASSUME stack' # << >>, NEW t, t = Top'
                 PROVE  \E i, c : Link(t, i, c)'
      BY DEF TopNewest, Link
    <3> DEFINE k == Len(stack) - 1
    <3>1. stack # << >> /\ stack' = Front(stack)
      BY <1>2 DEF EndBlock, Accepts, StackInv
    <3>2. stack \in Seq(Nat) /\ Len(stack) \in Nat \ {0}
      BY <3>1, StackLen DEF ParserType
    <3>3. /\ stack' \in Seq(Nat) /\ Len(stack') = k
          /\ \A i \in 1 .. k : stack'[i] = stack[i]
      BY <3>1, <3>2, FrontOK
    <3>4. Len(stack') # 0
      BY <3>3, EmptySeq
    <3>5. k \in 1 .. k
      BY <3>2, <3>3, <3>4
    <3>6. t = stack[k] /\ k + 1 = Len(stack) /\ k \in 1 .. Len(stack)
      <4>1. t = stack'[k]
        BY <3>3 DEF Top
      <4>2. t = stack[k]
        BY <3>3, <3>5, <4>1
      <4>3. k + 1 = Len(stack) /\ k \in 1 .. Len(stack)
        BY <3>2, <3>5
      <4> QED
        BY <4>2, <4>3
    <3> DEFINE m == Len(blocks[t])
    <3>7. /\ t \in 1 .. Len(blocks) /\ blocks[t] # << >>
          /\ blocks[t][m].child = stack[Len(stack)]
      <4>1. t \in 1 .. Len(blocks)
        BY <3>6 DEF ParserType
      <4>2. Linked /\ k \in 1 .. Len(stack) - 1
        BY <3>1, <3>5 DEF StackInv
      <4>3. blocks[t] # << >> /\ blocks[t][m].child = stack[k + 1]
        BY <3>6, <4>2 DEF Linked
      <4> QED
        BY <3>6, <4>1, <4>3
    <3>8. m \in 1 .. m
      BY <3>7, StatementAt, EmptySeq
    <3>9. stack[Len(stack)] # NoChild
      BY <3>1, StackLen DEF NoChild, Top
    <3>10. \E i, c : Link(t, i, c)
      BY <3>7, <3>8, <3>9 DEF Link
    <3> QED
      BY <1>2, <3>10 DEF SameLinks
  <2>2. OpenAround'
    <3>1. stack # << >> /\ stack' = Front(stack)
      BY <1>2 DEF EndBlock, Accepts, StackInv
    <3>2. stack \in Seq(Nat) /\ Len(stack) \in Nat
      BY <3>1, StackLen DEF ParserType
    <3>3. /\ Len(stack') = Len(stack) - 1
          /\ \A k \in 1 .. Len(stack) - 1 : stack'[k] = stack[k]
      BY <3>1, <3>2, FrontOK
    <3>4. \A k \in 1 .. Len(stack') :
              k \in 1 .. Len(stack) /\ stack'[k] = stack[k]
      BY <3>2, <3>3
    <3> QED
      BY <1>2, <3>4 DEF InOrder, OpenAround, SameLinks
  <2> QED
    BY <1>2, <2>1, <2>2, SameOrder DEF InOrder
<1>3. CASE stack' = Append(stack, Len(blocks) + 1) /\ NewLink
  <2>1. stack \in Seq(Nat) /\ Len(blocks) + 1 \in Nat
    BY LenProperties DEF ParserType
  <2>2. Top' = Len(blocks')
    BY <1>3, <2>1, AppendProperties DEF Top, NewLink
  <2>3. TopNewest'
    BY <2>2 DEF TopNewest
  <2>4. OpenAround'
    <3> SUFFICES ASSUME NEW k \in 1 .. Len(stack'), NEW b, NEW i, NEW c,
                        Link(b, i, c)', stack'[k] < c
                 PROVE  stack'[k] <= b
      BY DEF OpenAround
    <3> DEFINE n == Len(blocks)
    <3>1. n \in Nat /\ Len(stack) \in Nat
      BY <2>1, LenProperties DEF ParserType
    <3>2. \/ k = Len(stack) + 1 /\ stack'[k] = n + 1
          \/ k \in 1 .. Len(stack) /\ stack'[k] = stack[k]
      <4>1. /\ Len(stack') = Len(stack) + 1
            /\ stack'[Len(stack) + 1] = n + 1
            /\ \A j \in 1 .. Len(stack) : stack'[j] = stack[j]
        BY <1>3, <2>1, AppendProperties
      <4> QED
        BY <3>1, <4>1
    <3>3. Link(b, i, c) \/ (b = Top /\ c = n + 1)
      BY <1>3 DEF NewLink
    <3>4. Link(b, i, c) => c \in b + 1 .. n /\ b \in Nat
      BY LinksLater
    <3> HIDE DEF n
    <3>5. CASE k = Len(stack) + 1 /\ stack'[k] = n + 1
      BY <3>1, <3>3, <3>4, <3>5
    <3>6. CASE k \in 1 .. Len(stack) /\ stack'[k] = stack[k]
      <4>1. CASE Link(b, i, c)
        BY <3>6, <4>1 DEF InOrder, OpenAround
      <4>2. CASE b = Top
        <5>1. stack # << >> /\ Ascending
          BY <1>3 DEF NewLink, StackInv
        <5>2. k = Len(stack) \/ k < Len(stack)
          BY <3>1, <3>6
        <5>3. stack[k] \in Nat /\ Len(stack) \in 1 .. Len(stack)
              /\ Top \in Nat
          BY <3>6, <5>1, StackLen DEF ParserType
        <5>4. stack[k] = Top \/ stack[k] < Top
          BY <3>6, <5>1, <5>2, <5>3 DEF Ascending, Top
        <5> QED
          BY <3>6, <4>2, <5>3, <5>4
      <4> QED
        BY <3>3, <4>1, <4>2
    <3> QED
      BY <3>2, <3>5, <3>6
  <2> QED
    BY <1>3, <2>3, <2>4, NewOrder DEF InOrder
<1> QED
  BY <1>1, <1>2, <1>3, LinksStep

TreeInv == ParserType /\ StackInv /\ ChildrenLater /\ InOrder

(* In every state of main and of the sessions, for every file.             *)
THEOREM TreeInvHolds == Spec => []TreeInv
<1>1. Init => TreeInv
  <2> SUFFICES ASSUME Init PROVE ChildrenLater /\ InOrder
    BY ParserStarts DEF TreeInv
  <2>1. blocks = << << >> >> /\ stack = <<1>>
    BY DEF Init, StartInit, ParserInit
  <2>2. \A b, i, c : ~Link(b, i, c)
    BY <2>1 DEF Link
  <2>3. ChildrenLater
    BY <2>1 DEF ChildrenLater
  <2>4. InOrder
    BY <2>1, <2>2 DEF InOrder, Ordered, EveryLinked, OneLink, FirstNext,
                      Siblings, Nested, TopNewest, OpenAround, Top
  <2> QED
    BY <2>3, <2>4
<1>2. TreeInv /\ [Next]_allVars => TreeInv'
  BY ParserSteps, StackStep, ChildrenStep, OrderStep DEF TreeInv
<1> QED
  BY <1>1, <1>2, PTL DEF Spec

-----------------------------------------------------------------------------
(* ToString.  What it writes of a statement and of a block, with f for the *)
(* blocks in it.                                                           *)

Mark(type, c) == <<[type |-> type, text |-> <<c>>]>>

WordItem(v) == [type |-> "NORMAL", text |-> v]

WordsOf(s) == [k \in DOMAIN s.tokens |-> WordItem(s.tokens[k])]

Ending(s, f) ==
    IF s.child = NoChild THEN Mark("STATEMENT_END", ";")
    ELSE Joined(Joined(Mark("START_BLOCK", "{"), f[s.child]),
                Mark("END_BLOCK", "}"))

PieceOf(s, f) == Joined(WordsOf(s), Ending(s, f))

(* The first k statements of a block.                                      *)
Pieces(q, f, k) == [i \in 1 .. k |-> PieceOf(q[i], f)]
TextOf(q, f, k) == FlattenSeq(Pieces(q, f, k))

(* What has been read of a block: after a word, all but the end of its     *)
(* last statement.                                                         *)
SoFar(q, f, kind) ==
    IF kind = "NORMAL" THEN Joined(TextOf(q, f, Len(q) - 1), WordsOf(q[Len(q)]))
    ELSE TextOf(q, f, Len(q))

(* What has been read of a block when a block in it is opened.             *)
UpTo(q, f) == Joined(SoFar(q, f, "NORMAL"), Mark("START_BLOCK", "{"))

Marks == {";", "{", "}"}
Item  == [type: Kinds, text: Seq(Symbols \cup Marks)]
Items == Seq(Item)

LEMMA JoinedItems ==
    ASSUME NEW s \in Items, NEW t \in Items
    PROVE  /\ Joined(s, t) \in Items
           /\ Joined(s, << >>) = s /\ Joined(<< >>, s) = s
           /\ \A u \in Items : Joined(Joined(s, t), u) = Joined(s, Joined(t, u))
<1>1. Joined(s, t) \in Items
  BY ConcatProperties DEF Joined, Items
<1>2. Joined(s, << >>) = s /\ Joined(<< >>, s) = s
  BY ConcatEmptySeq, Zenon DEF Joined, Items
<1>3. ASSUME NEW u \in Items
      PROVE  Joined(Joined(s, t), u) = Joined(s, Joined(t, u))
  <2>1. s \in Seq(Item) /\ t \in Seq(Item) /\ u \in Seq(Item)
    BY DEF Items
  <2>2. (s \o t) \o u = s \o (t \o u)
    BY <2>1, ConcatAssociative, SMTT(20)
  <2> QED
    BY <2>2, Zenon DEF Joined
<1> QED
  BY <1>1, <1>2, <1>3

LEMMA MarkItems ==
    /\ << >> \in Items
    /\ \A type \in Kinds, c \in Marks : Mark(type, c) \in Items
    /\ Mark("STATEMENT_END", ";") \in Items
    /\ Mark("START_BLOCK", "{") \in Items
    /\ Mark("END_BLOCK", "}") \in Items
<1>1. << >> \in Items
  BY EmptySeq DEF Items
<1>2. ASSUME NEW type \in Kinds, NEW c \in Marks
      PROVE  Mark(type, c) \in Items
  <2>1. <<c>> \in Seq(Symbols \cup Marks)
    OBVIOUS
  <2> DEFINE x == [type |-> type, text |-> <<c>>]
  <2>2. x \in Item
    BY <2>1 DEF Item
  <2> HIDE DEF x
  <2>3. <<x>> \in Items
    BY <2>2 DEF Items
  <2> QED
    BY <2>3 DEF Mark, x
<1> QED
  BY <1>1, <1>2 DEF Kinds, Marks

LEMMA WordItemOK ==
    ASSUME NEW v \in Words
    PROVE  WordItem(v) \in Item
<1>1. v \in Seq(Symbols \cup Marks)
  BY DEF Words
<1> QED
  BY <1>1 DEF Item, Kinds, WordItem

LEMMA WordsItems ==
    ASSUME NEW s \in Statement
    PROVE  WordsOf(s) \in Items
<1> DEFINE n == Len(s.tokens)
<1>1. s.tokens \in Seq(Words)
  BY DEF Statement
<1>2. n \in Nat /\ DOMAIN s.tokens = 1 .. n
  BY <1>1, LenProperties
<1>3. \A k \in 1 .. n : WordItem(s.tokens[k]) \in Item
  BY <1>1, ElementOfSeq, WordItemOK
<1> HIDE DEF n
<1>4. [k \in 1 .. n |-> WordItem(s.tokens[k])] \in Seq(Item)
  BY <1>2, <1>3
<1> QED
  BY <1>2, <1>4 DEF WordsOf, Items

LEMMA PieceItems ==
    ASSUME NEW f \in [Nat -> Items], NEW s \in Statement
    PROVE  PieceOf(s, f) \in Items
<1>1. f[s.child] \in Items
  BY DEF Statement
<1> QED
  BY <1>1, WordsItems, MarkItems, JoinedItems DEF PieceOf, Ending

LEMMA PiecesItems ==
    ASSUME NEW f \in [Nat -> Items], NEW q \in Block, NEW k \in 0 .. Len(q)
    PROVE  /\ Pieces(q, f, k) \in Seq(Items)
           /\ TextOf(q, f, k) \in Items
<1>1. q \in Seq(Statement) /\ Len(q) \in Nat /\ k \in Nat
  BY LenProperties DEF Block
<1>2. \A i \in 1 .. k : PieceOf(q[i], f) \in Items
  BY <1>1, ElementOfSeq, PieceItems
<1>3. Pieces(q, f, k) \in Seq(Items)
  BY <1>1, <1>2 DEF Pieces
<1> QED
  BY <1>3, FlattenType DEF TextOf, Items

LEMMA TextOfNone == \A q, f : TextOf(q, f, 0) = << >>
<1> SUFFICES ASSUME NEW q, NEW f PROVE TextOf(q, f, 0) = << >>
  OBVIOUS
<1>1. Pieces(q, f, 0) = << >>
  BY DEF Pieces
<1> QED
  BY <1>1, EmptySeq DEF TextOf, FlattenSeq

LEMMA TextOfNext ==
    ASSUME NEW f \in [Nat -> Items], NEW q \in Block, NEW k \in 1 .. Len(q)
    PROVE  TextOf(q, f, k) = Joined(TextOf(q, f, k - 1), PieceOf(q[k], f))
<1> DEFINE ss == Pieces(q, f, k - 1)
           s  == PieceOf(q[k], f)
           tt == Pieces(q, f, k)
<1>1. q \in Seq(Statement) /\ Len(q) \in Nat /\ k - 1 \in 0 .. Len(q)
      /\ k \in 0 .. Len(q) /\ k \in Nat /\ k - 1 \in Nat
  BY LenProperties DEF Block
<1>2. ss \in Seq(Items) /\ tt \in Seq(Items) /\ s \in Items
  BY <1>1, PiecesItems, PieceItems, ElementOfSeq
<1>3. /\ \A i \in 1 .. k : tt[i] = PieceOf(q[i], f)
      /\ \A i \in 1 .. k - 1 : ss[i] = PieceOf(q[i], f)
      /\ DOMAIN tt = 1 .. k /\ DOMAIN ss = 1 .. k - 1
  BY DEF Pieces
<1> HIDE DEF ss, tt
<1>4. Len(tt) = k /\ Len(ss) = k - 1
  BY <1>1, <1>2, <1>3, LenProperties
<1>5. tt = Append(ss, s)
  <2> DEFINE uu == Append(ss, s)
  <2>1. /\ uu \in Seq(Items) /\ Len(uu) = k
        /\ \A i \in 1 .. k - 1 : uu[i] = ss[i]
        /\ uu[k] = s
    BY <1>1, <1>2, <1>4, AppendProperties
  <2> HIDE DEF uu
  <2>2. ASSUME NEW i \in 1 .. k PROVE uu[i] = tt[i]
    <3>1. CASE i = k
      BY <1>1, <1>3, <2>1, <3>1
    <3>2. CASE i # k
      <4>1. i \in 1 .. k - 1
        BY <1>1, <3>2
      <4> QED
        BY <1>3, <2>1, <4>1
    <3> QED
      BY <3>1, <3>2
  <2>3. uu = tt
    BY <1>2, <1>4, <2>1, <2>2, SeqEqual
  <2> QED
    BY <2>3 DEF uu
<1> QED
  BY <1>2, <1>5, FlattenAppend DEF TextOf, ss, tt, Joined, Items

(* TextOf only depends on the statements that are in it.                   *)
LEMMA TextOfAlike ==
    ASSUME NEW q, NEW f, NEW r, NEW h, NEW k,
           \A i \in 1 .. k : PieceOf(q[i], f) = PieceOf(r[i], h)
    PROVE  TextOf(q, f, k) = TextOf(r, h, k)
BY DEF TextOf, Pieces

LEMMA SoFarItems ==
    ASSUME NEW f \in [Nat -> Items], NEW q \in Block, NEW kind,
           kind = "NORMAL" => q # << >>
    PROVE  SoFar(q, f, kind) \in Items
<1>1. q \in Seq(Statement) /\ Len(q) \in Nat /\ Len(q) \in 0 .. Len(q)
  BY LenProperties DEF Block
<1>2. CASE kind = "NORMAL"
  <2>1. Len(q) - 1 \in 0 .. Len(q) /\ Len(q) \in 1 .. Len(q)
    BY <1>1, <1>2, EmptySeq
  <2>2. q[Len(q)] \in Statement
    BY <1>1, <2>1, ElementOfSeq
  <2> QED
    BY <1>2, <2>1, <2>2, PiecesItems, WordsItems, JoinedItems DEF SoFar
<1>3. CASE kind # "NORMAL"
  BY <1>1, <1>3, PiecesItems DEF SoFar
<1> QED
  BY <1>2, <1>3

LEMMA WordsNext ==
    ASSUME NEW s \in Statement, NEW t \in Statement, NEW v \in Words,
           t.tokens = Append(s.tokens, v)
    PROVE  WordsOf(t) = Joined(WordsOf(s), <<WordItem(v)>>)
<1> DEFINE n == Len(s.tokens)
           x == WordItem(v)
           b == Append(WordsOf(s), x)
<1>1. s.tokens \in Seq(Words) /\ t.tokens \in Seq(Words)
  BY DEF Statement
<1>2. /\ n \in Nat /\ DOMAIN s.tokens = 1 .. n /\ DOMAIN t.tokens = 1 .. n + 1
      /\ t.tokens[n + 1] = v
      /\ \A k \in 1 .. n : t.tokens[k] = s.tokens[k]
  BY <1>1, LenProperties, AppendProperties
<1> HIDE DEF n
<1>3. /\ DOMAIN WordsOf(s) = 1 .. n /\ DOMAIN WordsOf(t) = 1 .. n + 1
      /\ \A k \in 1 .. n : WordsOf(s)[k] = WordItem(s.tokens[k])
      /\ \A k \in 1 .. n + 1 : WordsOf(t)[k] = WordItem(t.tokens[k])
  BY <1>2 DEF WordsOf
<1>4. WordsOf(s) \in Seq(Item) /\ WordsOf(t) \in Seq(Item) /\ x \in Item
  BY WordsItems, WordItemOK DEF Items
<1> HIDE DEF x
<1>5. Len(WordsOf(s)) = n /\ Len(WordsOf(t)) = n + 1
  BY <1>2, <1>3, <1>4, LenProperties
<1>6. /\ b \in Seq(Item) /\ Len(b) = n + 1 /\ b[n + 1] = x
      /\ \A k \in 1 .. n : b[k] = WordsOf(s)[k]
  BY <1>4, <1>5, AppendProperties
<1>7. b = Joined(WordsOf(s), <<x>>)
  BY <1>4, AppendIsConcat DEF Joined
<1> HIDE DEF b
<1>8. ASSUME NEW k \in 1 .. n + 1 PROVE WordsOf(t)[k] = b[k]
  <2>1. CASE k = n + 1
    BY <1>2, <1>3, <1>6, <2>1 DEF x
  <2>2. CASE k # n + 1
    <3>1. k \in 1 .. n
      BY <1>2, <2>2
    <3> QED
      BY <1>2, <1>3, <1>6, <3>1
  <2> QED
    BY <2>1, <2>2
<1>9. WordsOf(t) = b
  BY <1>4, <1>5, <1>6, <1>8, SeqEqual
<1> QED
  BY <1>7, <1>9 DEF x

(* AddToken writes one more word.                                          *)
LEMMA AddTokenWrites ==
    ASSUME NEW B \in Block, value \in Words, NEW f \in [Nat -> Items],
           last = "NORMAL" => B # << >> /\ B[Len(B)].child = NoChild
    PROVE  SoFar(AddToken(B), f, "NORMAL")
              = Joined(SoFar(B, f, last), <<WordItem(value)>>)
<1> DEFINE n == Len(B)
           A == AddToken(B)
           x == <<WordItem(value)>>
<1>1. B \in Seq(Statement) /\ n \in Nat
  BY LenProperties DEF Block
<1>2. x \in Items
  BY WordItemOK DEF Items
<1>3. CASE last # "NORMAL"
  <2> DEFINE s == NewStatement(value)
  <2>1. A = Append(B, s) /\ s \in Statement /\ s.tokens = <<value>>
    BY <1>3 DEF AddToken, NewStatement, Statement, NoChild
  <2>2. WordsOf(s) = x
    <3>1. DOMAIN s.tokens = 1 .. 1 /\ s.tokens[1] = value
      BY <2>1
    <3> HIDE DEF s
    <3>2. WordsOf(s) = [k \in 1 .. 1 |-> WordItem(s.tokens[k])]
      BY <3>1 DEF WordsOf
    <3>3. [k \in 1 .. 1 |-> WordItem(s.tokens[k])]
             = <<WordItem(s.tokens[1])>>
      OBVIOUS
    <3> QED
      BY <3>1, <3>2, <3>3
  <2> HIDE DEF s, x
  <2>3. Len(A) = n + 1 /\ A[n + 1] = s /\ \A i \in 1 .. n : A[i] = B[i]
    BY <1>1, <2>1, AppendProperties
  <2> HIDE DEF A
  <2>4. TextOf(A, f, n) = TextOf(B, f, n)
    BY <2>3, TextOfAlike
  <2>5. (n + 1) - 1 = n
    BY <1>1
  <2>6. SoFar(A, f, "NORMAL") = Joined(TextOf(A, f, n), WordsOf(A[n + 1]))
    BY <2>3, <2>5 DEF SoFar
  <2>7. SoFar(B, f, last) = TextOf(B, f, n)
    BY <1>3 DEF SoFar
  <2> QED
    BY <2>2, <2>3, <2>4, <2>6, <2>7 DEF A, x
<1>4. CASE last = "NORMAL"
  <2> DEFINE s == [B[n] EXCEPT !.tokens = Append(@, value)]
  <2>1. A = [B EXCEPT ![n] = s]
    BY <1>4, Zenon DEF AddToken
  <2>2. n \in 1 .. n /\ n - 1 \in 0 .. n
    BY <1>1, <1>4, EmptySeq
  <2>3. B[n] \in Statement
    BY <1>1, <2>2, ElementOfSeq
  <2>4. Append(B[n].tokens, value) \in Seq(Words) \ {<< >>}
    BY <2>3, AppendProperties DEF Statement
  <2>5. s \in Statement /\ s.tokens = Append(B[n].tokens, value)
    BY <2>3, <2>4 DEF Statement
  <2> HIDE DEF s
  <2>6. Len(A) = n /\ \A i \in 1 .. n : A[i] = IF i = n THEN s ELSE B[i]
    BY <1>1, <2>1, <2>2, <2>5, ExceptSeq
  <2> HIDE DEF A, x
  <2>7. A[n] = s /\ \A i \in 1 .. n - 1 : A[i] = B[i]
    BY <1>1, <2>2, <2>6
  <2>8. TextOf(A, f, n - 1) = TextOf(B, f, n - 1)
    BY <2>7, TextOfAlike
  <2>9. WordsOf(s) = Joined(WordsOf(B[n]), x)
    BY <2>3, <2>5, WordsNext DEF x
  <2>10. TextOf(B, f, n - 1) \in Items /\ WordsOf(B[n]) \in Items
    BY <2>2, <2>3, PiecesItems, WordsItems
  <2>11. SoFar(A, f, "NORMAL") = Joined(TextOf(B, f, n - 1), WordsOf(s))
    BY <2>6, <2>7, <2>8 DEF SoFar
  <2>12. SoFar(B, f, last) = Joined(TextOf(B, f, n - 1), WordsOf(B[n]))
    BY <1>4 DEF SoFar
  <2> QED
    BY <1>2, <2>9, <2>10, <2>11, <2>12, JoinedItems DEF A, x
<1> QED
  BY <1>3, <1>4

(* A ";" ends the last statement of a block.                               *)
LEMMA StatementWrites ==
    ASSUME NEW B \in Block, NEW f \in [Nat -> Items],
           B # << >>, B[Len(B)].child = NoChild
    PROVE  SoFar(B, f, "STATEMENT_END")
              = Joined(SoFar(B, f, "NORMAL"), Mark("STATEMENT_END", ";"))
<1> DEFINE n == Len(B)
           w == WordsOf(B[n])
           c == TextOf(B, f, n - 1)
           x == Mark("STATEMENT_END", ";")
<1>1. B \in Seq(Statement) /\ n \in Nat
  BY LenProperties DEF Block
<1>2. n \in 1 .. n /\ n - 1 \in 0 .. n
  BY <1>1, EmptySeq
<1>3. B[n] \in Statement
  BY <1>1, <1>2, ElementOfSeq
<1>4. c \in Items /\ w \in Items /\ x \in Items
  BY <1>2, <1>3, PiecesItems, WordsItems, MarkItems
<1>5. PieceOf(B[n], f) = Joined(w, x)
  BY DEF PieceOf, Ending
<1>6. TextOf(B, f, n) = Joined(c, PieceOf(B[n], f))
  BY <1>2, TextOfNext
<1>7. SoFar(B, f, "STATEMENT_END") = TextOf(B, f, n)
  BY DEF SoFar
<1>8. SoFar(B, f, "NORMAL") = Joined(c, w)
  BY DEF SoFar
<1> HIDE DEF c, w, x
<1>9. Joined(Joined(c, w), x) = Joined(c, Joined(w, x))
  BY <1>4, JoinedItems
<1> QED
  BY <1>5, <1>6, <1>7, <1>8, <1>9 DEF x

(* A "}" ends the block of the last statement, and the statement.          *)
LEMMA BlockWrites ==
    ASSUME NEW B \in Block, NEW f \in [Nat -> Items],
           B # << >>, B[Len(B)].child # NoChild
    PROVE  SoFar(B, f, "END_BLOCK")
              = Joined(Joined(UpTo(B, f), f[B[Len(B)].child]),
                       Mark("END_BLOCK", "}"))
<1> DEFINE n == Len(B)
           w == WordsOf(B[n])
           c == TextOf(B, f, n - 1)
           x == Mark("START_BLOCK", "{")
           y == f[B[n].child]
           z == Mark("END_BLOCK", "}")
<1>1. B \in Seq(Statement) /\ n \in Nat
  BY LenProperties DEF Block
<1>2. n \in 1 .. n /\ n - 1 \in 0 .. n
  BY <1>1, EmptySeq
<1>3. B[n] \in Statement
  BY <1>1, <1>2, ElementOfSeq
<1>4. B[n].child \in Nat
  BY <1>3 DEF Statement
<1>5. c \in Items /\ w \in Items /\ x \in Items /\ y \in Items /\ z \in Items
  BY <1>2, <1>3, <1>4, PiecesItems, WordsItems, MarkItems
<1>6. PieceOf(B[n], f) = Joined(w, Joined(Joined(x, y), z))
  BY DEF PieceOf, Ending
<1>7. TextOf(B, f, n) = Joined(c, PieceOf(B[n], f))
  BY <1>2, TextOfNext
<1>8. SoFar(B, f, "END_BLOCK") = TextOf(B, f, n)
  BY DEF SoFar
<1>9. UpTo(B, f) = Joined(Joined(c, w), x)
  BY DEF SoFar, UpTo
<1> HIDE DEF c, w, x, y, z
<1>10. Joined(c, Joined(w, Joined(Joined(x, y), z)))
          = Joined(Joined(Joined(Joined(c, w), x), y), z)
  <2> DEFINE cw == Joined(c, w)
             xy == Joined(x, y)
  <2>1. cw \in Items /\ xy \in Items
    BY <1>5, JoinedItems
  <2>2. Joined(c, Joined(w, Joined(xy, z))) = Joined(cw, Joined(xy, z))
    <3>1. Joined(xy, z) \in Items
      BY <1>5, <2>1, JoinedItems
    <3> HIDE DEF xy
    <3> QED
      BY <1>5, <3>1, JoinedItems
  <2>3. Joined(cw, Joined(xy, z)) = Joined(Joined(cw, xy), z)
    <3> HIDE DEF cw, xy
    <3> QED
      BY <1>5, <2>1, JoinedItems
  <2>4. Joined(cw, xy) = Joined(Joined(cw, x), y)
    <3> HIDE DEF cw
    <3> QED
      BY <1>5, <2>1, JoinedItems
  <2> QED
    BY <2>2, <2>3, <2>4
<1> QED
  BY <1>6, <1>7, <1>8, <1>9, <1>10 DEF y, z

-----------------------------------------------------------------------------
(* The tokens are the tree, in the middle of the text too: f writes every  *)
(* block that is closed, g[k] is what had been read when the k-th open     *)
(* block began, and the rest of the tokens is what has been read of the    *)
(* top block.  Nothing is said of what f does with open blocks, so that    *)
(* only the end of a block touches f.                                      *)
IsOpen(b) == \E k \in 1 .. Len(stack) : stack[k] = b

Reads(f, g) ==
    /\ f \in [Nat -> Items]
    /\ \A b \in 1 .. Len(blocks) :
          ~IsOpen(b) => f[b] = TextOf(blocks[b], f, Len(blocks[b]))
    /\ g[1] = << >>
    /\ \A k \in 1 .. Len(stack) : g[k] \in Items
    /\ \A k \in 1 .. Len(stack) - 1 :
          g[k + 1] = Joined(g[k], UpTo(blocks[stack[k]], f))
    /\ tokens = Joined(g[Len(stack)], SoFar(blocks[Top], f, last))

(* The text of a token that is a character.                                *)
Signs == [STATEMENT_END |-> ";", START_BLOCK |-> "{", END_BLOCK |-> "}"]
SignInv == token \in DOMAIN Signs => value = <<Signs[token]>>

WrittenInv == stack # << >> => \E f, g : Reads(f, g)

LEMMA SignStep == ParserType /\ SignInv /\ [Parse]_parseVars => SignInv'
<1> SUFFICES ASSUME ParserType, SignInv, [Parse]_parseVars
             PROVE  SignInv'
  OBVIOUS
<1>0. DOMAIN Signs = {"STATEMENT_END", "START_BLOCK", "END_BLOCK"}
      /\ Signs["STATEMENT_END"] = ";" /\ Signs["START_BLOCK"] = "{"
      /\ Signs["END_BLOCK"] = "}"
  BY DEF Signs
<1>1. CASE ParseToken
  <2>1. ASSUME NEW s, NEW text, Proceed(s, text) PROVE token' = "none"
    BY <1>1, <2>1, LexStep DEF Proceed
  <2>2. \/ token' \in {"none", "NORMAL", "COMMENT", "EOF", "ERROR"}
        \/ \E c \in DOMAIN Punctuation :
              token' = Punctuation[c] /\ value' = <<c>>
    <3>1. CASE InitialWhitespace
      BY <2>1, <3>1 DEF InitialWhitespace, ReturnToken
    <3>2. CASE InQuote
      BY <2>1, <3>2 DEF InQuote, ReturnToken
    <3>3. CASE InEscape
      BY <2>1, <3>3 DEF InEscape
    <3>4. CASE InComment \/ InNormal
      BY <2>1, <3>4 DEF InComment, InNormal, ReturnToken
    <3>5. CASE EndOfFile
      BY <3>5 DEF EndOfFile, ReturnToken
    <3> QED
      BY <1>1, <3>1, <3>2, <3>3, <3>4, <3>5 DEF ParseToken
  <2>3. \A c \in DOMAIN Punctuation : Signs[Punctuation[c]] = c
    BY <1>0 DEF Punctuation
  <2> QED
    BY <1>0, <2>2, <2>3 DEF SignInv
<1>2. CASE token' = "none"
  BY <1>0, <1>2 DEF SignInv
<1>3. CASE UNCHANGED <<token, value>>
  BY <1>3 DEF SignInv
<1>4. ParseToken \/ token' = "none" \/ UNCHANGED <<token, value>>
  BY DEF Parse, Open, Normal, StatementEnd, StartBlock, EndBlock, NextToken,
         Eof, SkipComment, BadTransition, lexVars, parseVars
<1> QED
  BY <1>1, <1>2, <1>3, <1>4

(* What Parse does to the tokens when it acts on one.                      *)
LEMMA TokensNext ==
    ASSUME ParserType, SignInv, NextToken, token \in Kinds
    PROVE  /\ tokens \in Items
           /\ token = "NORMAL" =>
                 tokens' = Joined(tokens, <<WordItem(value)>>)
           /\ token \in DOMAIN Signs =>
                 tokens' = Joined(tokens, Mark(token, Signs[token]))
<1> DEFINE x == [type |-> token, text |-> value]
<1>1. x \in Token /\ tokens' = Append(tokens, x) /\ tokens \in Seq(Token)
  BY NextTokenOK DEF ParserType
<1>2. tokens' = Joined(tokens, <<x>>)
  BY <1>1, AppendIsConcat DEF Joined
<1>3. \A y \in Token : y \in Item
  BY DEF Token, Item, Words
<1>4. tokens \in Items
  BY <1>1, <1>3 DEF Items
<1>5. token = "NORMAL" => x = WordItem(value)
  BY DEF WordItem
<1>6. token \in DOMAIN Signs => <<x>> = Mark(token, Signs[token])
  BY DEF SignInv, Mark
<1> QED
  BY <1>2, <1>4, <1>5, <1>6

LEMMA NormalReads ==
    ASSUME ParserType, StackInv, SignInv, Normal, NEW f, NEW g, Reads(f, g)
    PROVE  Reads(f, g)'
<1> DEFINE m == Len(stack)
           n == Len(blocks)
           B == blocks[Top]
           A == AddToken(B)
           x == <<WordItem(value)>>
<1>1. /\ result = "parsing" /\ token = "NORMAL" /\ NextToken
      /\ blocks' = [blocks EXCEPT ![Top] = A] /\ UNCHANGED stack
  BY DEF Normal, Accepts
<1>2. stack # << >> /\ TopOK
  BY <1>1 DEF StackInv
<1>3. B \in Block /\ Top \in 1 .. n /\ m \in 1 .. m /\ value \in Words
  BY <1>2, StackLen DEF ParserType
<1>4. last = "NORMAL" => B # << >> /\ B[Len(B)].child = NoChild
  BY <1>2 DEF TopOK
<1>5. f \in [Nat -> Items] /\ g[m] \in Items
  BY <1>3 DEF Reads
<1>6. A \in Block
  BY <1>3, <1>4, AddTokenOK
<1>7. SoFar(A, f, "NORMAL") = Joined(SoFar(B, f, last), x)
  BY <1>3, <1>4, <1>5, AddTokenWrites
<1>8. SoFar(B, f, last) \in Items /\ x \in Items
  <2>1. SoFar(B, f, last) \in Items
    BY <1>3, <1>4, <1>5, SoFarItems
  <2>2. WordItem(value) \in Item
    BY <1>3, WordItemOK
  <2> QED
    BY <2>1, <2>2 DEF Items
<1>9. tokens' = Joined(tokens, x) /\ last' = "NORMAL"
  BY <1>1, TokensNext, NextTokenOK DEF Kinds
<1>10. tokens = Joined(g[m], SoFar(B, f, last))
  BY DEF Reads
<1> HIDE DEF A, x
<1>11. tokens' = Joined(g[m], SoFar(A, f, "NORMAL"))
  <2> DEFINE u == g[m]
             v == SoFar(B, f, last)
  <2>1. u \in Items /\ v \in Items /\ x \in Items
    BY <1>5, <1>8
  <2> HIDE DEF u, v
  <2>2. Joined(Joined(u, v), x) = Joined(u, Joined(v, x))
    BY <2>1, JoinedItems
  <2> QED
    BY <1>7, <1>9, <1>10, <2>2 DEF u, v
<1>12. /\ Len(blocks') = n
       /\ \A b \in 1 .. n : blocks'[b] = IF b = Top THEN A ELSE blocks[b]
  BY <1>1, <1>3, <1>6, ExceptSeq DEF ParserType
<1>13. Top' = Top /\ blocks'[Top] = A
  BY <1>1, <1>3, <1>12 DEF Top
<1>14. \A b \in 1 .. n : ~IsOpen(b) => blocks'[b] = blocks[b]
  BY <1>3, <1>12 DEF IsOpen, Top
<1>15. \A k \in 1 .. m - 1 : blocks'[stack[k]] = blocks[stack[k]]
  BY <1>2, <1>12, NotTop
<1>16. \A b : IsOpen(b)' <=> IsOpen(b)
  BY <1>1 DEF IsOpen
<1>17. \A b \in 1 .. Len(blocks') :
          ~IsOpen(b)' => f[b] = TextOf(blocks'[b], f, Len(blocks'[b]))
  BY <1>12, <1>14, <1>16 DEF Reads
<1>18. \A k \in 1 .. Len(stack') - 1 :
          g[k + 1] = Joined(g[k], UpTo(blocks'[stack'[k]], f))
  BY <1>1, <1>15 DEF Reads
<1>19. tokens' = Joined(g[Len(stack')], SoFar(blocks'[Top'], f, last'))
  BY <1>1, <1>9, <1>11, <1>13
<1>20. g[1] = << >> /\ \A k \in 1 .. Len(stack') : g[k] \in Items
  BY <1>1 DEF Reads
<1> QED
  BY <1>5, <1>17, <1>18, <1>19, <1>20 DEF Reads

LEMMA StatementEndReads ==
    ASSUME ParserType, StackInv, SignInv, StatementEnd,
           NEW f, NEW g, Reads(f, g)
    PROVE  Reads(f, g)'
<1> DEFINE m == Len(stack)
           B == blocks[Top]
           x == Mark("STATEMENT_END", ";")
<1>1. /\ result = "parsing" /\ token = "STATEMENT_END" /\ NextToken
      /\ last = "NORMAL" /\ UNCHANGED <<blocks, stack>>
  BY DEF StatementEnd, Accepts, After
<1>2. stack # << >> /\ TopOK
  BY <1>1 DEF StackInv
<1>3. B \in Block /\ m \in 1 .. m
  BY <1>2, StackLen
<1>4. B # << >> /\ B[Len(B)].child = NoChild
  BY <1>1, <1>2 DEF TopOK
<1>5. f \in [Nat -> Items] /\ g[m] \in Items
  BY <1>3 DEF Reads
<1>6. SoFar(B, f, "STATEMENT_END") = Joined(SoFar(B, f, "NORMAL"), x)
  BY <1>3, <1>4, <1>5, StatementWrites
<1>7. SoFar(B, f, "NORMAL") \in Items /\ x \in Items
  BY <1>3, <1>4, <1>5, SoFarItems, MarkItems
<1>8. tokens' = Joined(tokens, x) /\ last' = "STATEMENT_END"
  BY <1>1, TokensNext, NextTokenOK DEF Kinds, Signs
<1>9. tokens = Joined(g[m], SoFar(B, f, "NORMAL"))
  BY <1>1 DEF Reads
<1> HIDE DEF x
<1>10. tokens' = Joined(g[m], SoFar(B, f, "STATEMENT_END"))
  <2> DEFINE u == g[m]
             v == SoFar(B, f, "NORMAL")
  <2>1. u \in Items /\ v \in Items /\ x \in Items
    BY <1>5, <1>7
  <2> HIDE DEF u, v
  <2>2. Joined(Joined(u, v), x) = Joined(u, Joined(v, x))
    BY <2>1, JoinedItems
  <2> QED
    BY <1>6, <1>8, <1>9, <2>2 DEF u, v
<1>11. tokens' = Joined(g[Len(stack')], SoFar(blocks'[Top'], f, last'))
  BY <1>1, <1>8, <1>10 DEF Top
<1> QED
  BY <1>1, <1>11 DEF Reads, IsOpen

LEMMA StartBlockReads ==
    ASSUME ParserType, StackInv, SignInv, StartBlock,
           NEW f, NEW g, Reads(f, g)
    PROVE  \E h : Reads(f, h)'
<1> DEFINE n == Len(blocks)
           m == Len(stack)
           B == blocks[Top]
           l == Len(B)
           s == [B[l] EXCEPT !.child = n + 1]
           C == [B EXCEPT ![l] = s]
           bs == [blocks EXCEPT ![Top] = C]
           x == Mark("START_BLOCK", "{")
<1>1. /\ result = "parsing" /\ token = "START_BLOCK" /\ NextToken
      /\ last = "NORMAL"
      /\ blocks' = Append(bs, << >>) /\ stack' = Append(stack, n + 1)
  BY DEF StartBlock, Accepts, After
<1>2. stack # << >> /\ TopOK
  BY <1>1 DEF StackInv
<1>3. /\ B \in Block /\ B \in Seq(Statement) /\ n \in Nat /\ m \in Nat \ {0}
      /\ Top \in 1 .. n /\ m \in 1 .. m /\ B # << >>
  BY <1>1, <1>2, StackLen DEF Block, TopOK
<1>4. l \in 1 .. l /\ l \in Nat
  BY <1>3, EmptySeq
<1>5. s \in Statement /\ s.tokens = B[l].tokens
  <2> DEFINE t == B[l]
  <2>1. t \in Statement /\ n + 1 \in Nat
    BY <1>3, <1>4, ElementOfSeq
  <2> HIDE DEF t, n
  <2>2. [t EXCEPT !.child = n + 1] \in Statement
    BY <2>1 DEF Statement
  <2>3. [t EXCEPT !.child = n + 1].tokens = t.tokens
    BY <2>1 DEF Statement
  <2> QED
    BY <2>2, <2>3 DEF t
<1> HIDE DEF s
<1>6. /\ C \in Block /\ Len(C) = l
      /\ \A i \in 1 .. l : C[i] = IF i = l THEN s ELSE B[i]
  BY <1>3, <1>4, <1>5, ExceptSeq DEF Block
<1> HIDE DEF C
<1>7. SoFar(C, f, "NORMAL") = SoFar(B, f, "NORMAL")
  <2>1. C[l] = s /\ \A i \in 1 .. l - 1 : C[i] = B[i]
    BY <1>4, <1>6
  <2>2. TextOf(C, f, l - 1) = TextOf(B, f, l - 1)
    BY <2>1, TextOfAlike
  <2>3. WordsOf(s) = WordsOf(B[l])
    BY <1>5 DEF WordsOf
  <2> QED
    BY <1>6, <2>1, <2>2, <2>3 DEF SoFar
<1>8. /\ bs \in Seq(Block) /\ Len(bs) = n
      /\ \A b \in 1 .. n : bs[b] = IF b = Top THEN C ELSE blocks[b]
  BY <1>3, <1>6, ExceptSeq DEF ParserType
<1> HIDE DEF bs
<1>9. /\ Len(blocks') = n + 1 /\ blocks'[n + 1] = << >>
      /\ \A b \in 1 .. n : blocks'[b] = IF b = Top THEN C ELSE blocks[b]
  <2>1. << >> \in Block
    BY EmptySeq DEF Block
  <2> QED
    BY <1>1, <1>8, <2>1, AppendProperties
<1>10. /\ Len(stack') = m + 1 /\ stack'[m + 1] = n + 1
       /\ \A k \in 1 .. m : stack'[k] = stack[k]
  <2>1. stack \in Seq(Nat) /\ n + 1 \in Nat
    BY <1>3 DEF ParserType
  <2> QED
    BY <1>1, <2>1, AppendProperties
<1>11. f \in [Nat -> Items] /\ \A k \in 1 .. m : g[k] \in Items
  BY DEF Reads
<1>12. tokens = Joined(g[m], SoFar(B, f, "NORMAL"))
  BY <1>1 DEF Reads
<1>13. tokens' = Joined(tokens, x) /\ last' = "START_BLOCK" /\ tokens \in Items
  BY <1>1, TokensNext, NextTokenOK DEF Kinds, Signs
<1>14. SoFar(B, f, "NORMAL") \in Items /\ x \in Items
  BY <1>3, <1>11, SoFarItems, MarkItems
<1>15. tokens' = Joined(g[m], UpTo(C, f)) /\ tokens' \in Items
  <2> DEFINE u == g[m]
             v == SoFar(B, f, "NORMAL")
  <2>1. u \in Items /\ v \in Items /\ x \in Items
    BY <1>3, <1>11, <1>14
  <2>2. UpTo(C, f) = Joined(v, x)
    BY <1>7 DEF UpTo
  <2> HIDE DEF u, v, x
  <2>3. Joined(Joined(u, v), x) = Joined(u, Joined(v, x))
    BY <2>1, JoinedItems
  <2>4. Joined(tokens, x) \in Items
    BY <1>13, <2>1, JoinedItems
  <2> QED
    BY <1>12, <1>13, <2>2, <2>3, <2>4 DEF u, v
<1>16. PICK h : h = [k \in 1 .. m + 1 |-> IF k = m + 1 THEN tokens' ELSE g[k]]
  OBVIOUS
<1>17. h[m + 1] = tokens' /\ \A k \in 1 .. m : h[k] = g[k]
  BY <1>3, <1>16
<1> HIDE DEF m, n, x
<1>18. h[1] = << >>
  <2>1. 1 \in 1 .. m
    BY <1>3
  <2> QED
    BY <1>17, <2>1 DEF Reads
<1>19. \A k \in 1 .. Len(stack') : h[k] \in Items
  <2>1. \A k \in 1 .. m + 1 : k = m + 1 \/ k \in 1 .. m
    BY <1>3
  <2> QED
    BY <1>10, <1>11, <1>15, <1>17, <2>1
<1>20. ASSUME NEW k \in 1 .. Len(stack') - 1
       PROVE  h[k + 1] = Joined(h[k], UpTo(blocks'[stack'[k]], f))
  <2>0. k \in 1 .. m /\ h[k] = g[k] /\ stack'[k] = stack[k]
    BY <1>3, <1>10, <1>17
  <2>1. CASE k = m
    <3>1. blocks'[stack'[k]] = C
      BY <1>3, <1>9, <2>0, <2>1 DEF Top, m
    <3> QED
      BY <1>15, <1>17, <2>0, <2>1, <3>1
  <2>2. CASE k # m
    <3>1. k \in 1 .. m - 1 /\ k + 1 \in 1 .. m
      BY <1>3, <2>0, <2>2
    <3>2. blocks'[stack'[k]] = blocks[stack[k]]
      BY <1>2, <1>9, <2>0, <3>1, NotTop DEF m, n
    <3>3. h[k + 1] = g[k + 1]
      BY <1>17, <3>1
    <3> QED
      BY <2>0, <3>1, <3>2, <3>3 DEF Reads, m
  <2> QED
    BY <2>1, <2>2
<1>21. ASSUME NEW b \in 1 .. Len(blocks'), ~IsOpen(b)'
       PROVE  f[b] = TextOf(blocks'[b], f, Len(blocks'[b]))
  <2>1. \A k \in 1 .. m + 1 : stack'[k] # b
    BY <1>10, <1>21 DEF IsOpen
  <2>2. b # n + 1 /\ \A k \in 1 .. m : stack[k] # b
    BY <1>3, <1>10, <2>1
  <2>3. b \in 1 .. n /\ ~IsOpen(b) /\ b # Top
    BY <1>3, <1>9, <2>2 DEF IsOpen, m, Top
  <2> QED
    BY <1>9, <2>3 DEF Reads, n
<1>22. tokens' = Joined(h[Len(stack')], SoFar(blocks'[Top'], f, last'))
  <2>1. blocks'[Top'] = << >> /\ Len(<< >>) = 0
    BY <1>9, <1>10 DEF Top
  <2>2. SoFar(<< >>, f, "START_BLOCK") = << >>
    BY <2>1, TextOfNone DEF SoFar
  <2> QED
    BY <1>10, <1>13, <1>15, <1>17, <2>1, <2>2, JoinedItems
<1> QED
  BY <1>11, <1>18, <1>19, <1>20, <1>21, <1>22 DEF Reads

(* The link to the top block is that of the block it was opened in.        *)
LEMMA TopLink ==
    ASSUME TreeInv, stack # << >>, Len(stack) # 1
    PROVE  LET p == stack[Len(stack) - 1]
           IN  /\ Len(stack) - 1 \in 1 .. Len(stack)
               /\ p \in 1 .. Len(blocks) /\ p # Top
               /\ blocks[p] # << >>
               /\ blocks[p][Len(blocks[p])].child = Top /\ Top # NoChild
               /\ \A b, i : Link(b, i, Top) => b = p /\ i = Len(blocks[p])
<1> DEFINE m == Len(stack)
           p == stack[m - 1]
           l == Len(blocks[p])
<1>1. m \in Nat \ {0} /\ Top \in 1 .. Len(blocks) /\ Len(blocks) \in Nat
  BY StackLen DEF TreeInv
<1>2. m - 1 \in 1 .. m - 1 /\ m - 1 \in 1 .. m /\ (m - 1) + 1 = m
  <2>1. m # 1
    OBVIOUS
  <2> HIDE DEF m
  <2> QED
    BY <1>1, <2>1
<1>3. p \in 1 .. Len(blocks) /\ p # Top
  BY <1>2, NotTop DEF TreeInv
<1>4. blocks[p] # << >> /\ blocks[p][l].child = Top
  BY <1>2 DEF TreeInv, StackInv, Linked, Top
<1>5. l \in 1 .. l
  BY <1>3, <1>4, StatementAt, EmptySeq DEF TreeInv
<1>6. Top # NoChild
  BY <1>1 DEF NoChild
<1>7. Link(p, l, Top)
  BY <1>3, <1>4, <1>5, <1>6 DEF Link
<1>8. \A b, i : Link(b, i, Top) => b = p /\ i = l
  BY <1>7 DEF TreeInv, InOrder, Ordered, OneLink
<1> QED
  BY <1>2, <1>3, <1>4, <1>6, <1>8

(* What f says of a block plays no part where there is no link to it.      *)
LEMMA PieceAlike ==
    ASSUME NEW f, NEW h, NEW b \in 1 .. Len(blocks),
           NEW i \in 1 .. Len(blocks[b]),
           \A c : Link(b, i, c) => f[c] = h[c]
    PROVE  PieceOf(blocks[b][i], f) = PieceOf(blocks[b][i], h)
<1> DEFINE s == blocks[b][i]
<1>1. s.child # NoChild => f[s.child] = h[s.child]
  BY DEF Link
<1> HIDE DEF s
<1>2. Ending(s, f) = Ending(s, h)
  BY <1>1 DEF Ending
<1> QED
  BY <1>2 DEF PieceOf, s

LEMMA EndBlockReads ==
    ASSUME TreeInv, SignInv, EndBlock, stack' # << >>,
           NEW f, NEW g, Reads(f, g)
    PROVE  \E h : Reads(h, g)'
<1> DEFINE n == Len(blocks)
           m == Len(stack)
           t == Top
           B == blocks[t]
           p == stack[m - 1]
           P == blocks[p]
           l == Len(P)
           y == TextOf(B, f, Len(B))
           z == Mark("END_BLOCK", "}")
<1>0. ParserType /\ StackInv
  BY DEF TreeInv
<1>1. /\ result = "parsing" /\ token = "END_BLOCK" /\ NextToken
      /\ last # "NORMAL" /\ stack' = Front(stack) /\ UNCHANGED blocks
  BY DEF EndBlock, Accepts, After
<1>2. stack # << >> /\ stack \in Seq(Nat)
  BY <1>0, <1>1 DEF StackInv, ParserType
<1>3. /\ B \in Block /\ n \in Nat /\ m \in Nat \ {0} /\ t \in 1 .. n
      /\ m \in 1 .. m
  BY <1>0, <1>2, StackLen
<1>4. /\ Len(stack') = m - 1 /\ m # 1
      /\ \A k \in 1 .. m - 1 : stack'[k] = stack[k]
  <2>1. stack' \in Seq(Nat) /\ Len(stack') = m - 1
    BY <1>1, <1>2, FrontOK
  <2>2. m # 1
    BY <2>1, EmptySeq
  <2> QED
    BY <1>1, <1>2, <2>1, <2>2, FrontOK
<1>5. /\ m - 1 \in 1 .. m /\ p \in 1 .. n /\ p # t /\ P # << >>
      /\ P[l].child = t /\ t # NoChild
      /\ \A b, i : Link(b, i, t) => b = p /\ i = l
  BY <1>2, <1>4, TopLink
<1>6. P \in Block /\ P \in Seq(Statement)
  BY <1>0, <1>5, StatementAt DEF Block
<1>7. l \in Nat /\ l \in 1 .. l /\ Len(B) \in Nat /\ Len(B) \in 0 .. Len(B)
  BY <1>3, <1>5, <1>6, EmptySeq, LenProperties DEF Block
<1>8. f \in [Nat -> Items] /\ \A k \in 1 .. m : g[k] \in Items
  BY DEF Reads
<1>9. y \in Items
  BY <1>3, <1>7, <1>8, PiecesItems
<1>10. Top' = p /\ last' = "END_BLOCK"
  <2>1. m - 1 \in 1 .. m - 1
    BY <1>3, <1>4
  <2>2. Top' = p
    BY <1>4, <2>1 DEF Top
  <2> QED
    BY <1>0, <1>1, <2>2, NextTokenOK DEF Kinds
<1>11. /\ tokens = Joined(g[m], y)
       /\ tokens' = Joined(tokens, z)
  <2>1. SoFar(B, f, last) = y
    BY <1>1 DEF SoFar
  <2>2. tokens = Joined(g[m], SoFar(B, f, last))
    BY DEF Reads
  <2>3. tokens' = Joined(tokens, z)
    BY <1>0, <1>1, TokensNext DEF Kinds, Signs
  <2> QED
    BY <2>1, <2>2, <2>3
<1>12. g[m] = Joined(g[m - 1], UpTo(P, f))
  <2>1. m - 1 \in 1 .. m - 1 /\ (m - 1) + 1 = m
    BY <1>3, <1>4
  <2> QED
    BY <2>1 DEF Reads
<1>13. PICK h : h = [f EXCEPT ![t] = y]
  OBVIOUS
<1>14. /\ h \in [Nat -> Items] /\ h[t] = y
       /\ \A c : c # t => h[c] = f[c]
  <2>1. t \in Nat
    BY <1>3
  <2> HIDE DEF t, y
  <2> QED
    BY <1>8, <1>9, <1>13, <2>1
<1> HIDE DEF t, p
<1>15. ASSUME NEW b \in 1 .. n, NEW i \in 1 .. Len(blocks[b]),
              b # p \/ i # l
       PROVE  PieceOf(blocks[b][i], f) = PieceOf(blocks[b][i], h)
  <2>1. \A c : Link(b, i, c) => c # t
    BY <1>5, <1>15
  <2> QED
    BY <1>14, <2>1, PieceAlike
<1>16. ASSUME NEW b \in 1 .. n, b # p
       PROVE  TextOf(blocks[b], f, Len(blocks[b]))
                 = TextOf(blocks[b], h, Len(blocks[b]))
  BY <1>15, <1>16, TextOfAlike
<1>17. ASSUME NEW b \in 1 .. n, Len(blocks[b]) \in Nat
       PROVE  UpTo(blocks[b], f) = UpTo(blocks[b], h)
  <2> DEFINE k == Len(blocks[b])
  <2>1. ASSUME NEW i \in 1 .. k - 1
        PROVE  i \in 1 .. k /\ (b # p \/ i # l)
    BY <1>17
  <2>2. \A i \in 1 .. k - 1 :
            PieceOf(blocks[b][i], f) = PieceOf(blocks[b][i], h)
    BY <1>15, <2>1
  <2>3. TextOf(blocks[b], f, k - 1) = TextOf(blocks[b], h, k - 1)
    BY <2>2, TextOfAlike
  <2> QED
    BY <2>3 DEF UpTo, SoFar
<1>18. ASSUME NEW b \in 1 .. Len(blocks'), ~IsOpen(b)'
       PROVE  h[b] = TextOf(blocks'[b], h, Len(blocks'[b]))
  <2>1. b \in 1 .. n /\ blocks' = blocks
    BY <1>1
  <2>2. \A k \in 1 .. m - 1 : stack[k] # b
    BY <1>4, <1>18 DEF IsOpen
  <2>3. b # p
    <3>1. m - 1 \in 1 .. m - 1
      BY <1>3, <1>4
    <3> QED
      BY <2>2, <3>1 DEF p
  <2>4. TextOf(blocks[b], f, Len(blocks[b]))
           = TextOf(blocks[b], h, Len(blocks[b]))
    BY <1>16, <2>1, <2>3
  <2>5. CASE b = t
    BY <1>14, <2>1, <2>4, <2>5
  <2>6. CASE b # t
    <3>1. ~IsOpen(b)
      <4>1. \A k \in 1 .. m : k = m \/ k \in 1 .. m - 1
        BY <1>3
      <4> QED
        BY <2>2, <2>6, <4>1 DEF IsOpen, t, Top
    <3>2. f[b] = TextOf(blocks[b], f, Len(blocks[b]))
      BY <2>1, <3>1 DEF Reads
    <3> QED
      BY <1>14, <2>1, <2>4, <2>6, <3>2
  <2> QED
    BY <2>5, <2>6
<1>19. ASSUME NEW k \in 1 .. Len(stack') - 1
       PROVE  g[k + 1] = Joined(g[k], UpTo(blocks'[stack'[k]], h))
  <2>1. k \in 1 .. m - 1 /\ k \in 1 .. m
    BY <1>3, <1>4
  <2>2. stack'[k] = stack[k] /\ stack[k] \in 1 .. n /\ blocks' = blocks
    BY <1>0, <1>1, <1>4, <2>1 DEF ParserType
  <2>3. Len(blocks[stack[k]]) \in Nat
    BY <1>0, <2>2, StatementAt, LenProperties
  <2>4. UpTo(blocks[stack[k]], f) = UpTo(blocks[stack[k]], h)
    BY <1>17, <2>2, <2>3
  <2>5. g[k + 1] = Joined(g[k], UpTo(blocks[stack[k]], f))
    BY <2>1 DEF Reads
  <2> QED
    BY <2>2, <2>4, <2>5
<1>20. tokens' = Joined(g[Len(stack')], SoFar(blocks'[Top'], h, last'))
  <2> DEFINE u == UpTo(P, f)
             v == g[m - 1]
  <2>1. SoFar(P, h, "END_BLOCK")
           = Joined(Joined(UpTo(P, h), h[P[l].child]), z)
    BY <1>5, <1>6, <1>14, BlockWrites
  <2>2. SoFar(P, h, "END_BLOCK") = Joined(Joined(u, y), z)
    BY <1>5, <1>7, <1>14, <1>17, <2>1
  <2>3. u \in Items /\ v \in Items /\ y \in Items /\ z \in Items
    <3>1. SoFar(P, f, "NORMAL") \in Items
      BY <1>5, <1>6, <1>8, SoFarItems
    <3>2. u \in Items
      BY <3>1, MarkItems, JoinedItems DEF UpTo
    <3> QED
      BY <1>5, <1>8, <1>9, <3>2, MarkItems
  <2> HIDE DEF u, v, y, z
  <2>4. Joined(Joined(Joined(v, u), y), z) = Joined(v, Joined(Joined(u, y), z))
    <3> DEFINE w == Joined(u, y)
    <3>1. w \in Items /\ Joined(Joined(v, u), y) = Joined(v, w)
      BY <2>3, JoinedItems
    <3> HIDE DEF w
    <3>2. Joined(Joined(v, w), z) = Joined(v, Joined(w, z))
      BY <2>3, <3>1, JoinedItems
    <3> QED
      BY <3>1, <3>2 DEF w
  <2>5. tokens' = Joined(v, SoFar(P, h, "END_BLOCK"))
    BY <1>11, <1>12, <2>2, <2>4 DEF u, v
  <2> QED
    BY <1>1, <1>4, <1>10, <2>5 DEF v
<1>21. g[1] = << >> /\ \A k \in 1 .. Len(stack') : g[k] \in Items
  <2>1. \A k \in 1 .. m - 1 : k \in 1 .. m
    BY <1>3
  <2> QED
    BY <1>4, <1>8, <2>1 DEF Reads
<1> QED
  BY <1>14, <1>18, <1>19, <1>20, <1>21 DEF Reads

LEMMA WrittenStep ==
    TreeInv /\ SignInv /\ WrittenInv /\ [Parse]_parseVars => WrittenInv'
<1> SUFFICES ASSUME TreeInv, SignInv, WrittenInv, [Parse]_parseVars,
                    stack' # << >>
             PROVE  \E f, g : Reads(f, g)'
  BY DEF WrittenInv
<1>0. ParserType /\ StackInv
  BY DEF TreeInv
<1>1. CASE UNCHANGED <<blocks, stack, tokens, last>>
  <2>1. PICK f, g : Reads(f, g)
    BY <1>1 DEF WrittenInv
  <2>2. Reads(f, g)'
    BY <1>1, <2>1 DEF Reads, IsOpen, Top
  <2> QED
    BY <2>2
<1>2. CASE Normal \/ StatementEnd \/ StartBlock \/ EndBlock
  <2>1. stack # << >>
    BY <1>0, <1>2 DEF Normal, StatementEnd, StartBlock, EndBlock, Accepts,
                      StackInv
  <2>2. PICK f, g : Reads(f, g)
    BY <2>1 DEF WrittenInv
  <2>3. CASE Normal
    BY <1>0, <2>2, <2>3, NormalReads
  <2>4. CASE StatementEnd
    BY <1>0, <2>2, <2>4, StatementEndReads
  <2>5. CASE StartBlock
    BY <1>0, <2>2, <2>5, StartBlockReads
  <2>6. CASE EndBlock
    BY <2>2, <2>6, EndBlockReads
  <2> QED
    BY <1>2, <2>3, <2>4, <2>5, <2>6
<1>3. \/ UNCHANGED <<blocks, stack, tokens, last>>
      \/ Normal \/ StatementEnd \/ StartBlock \/ EndBlock
  BY <1>0, LexStep DEF Parse, Open, Eof, SkipComment, BadTransition, treeVars,
                       parseVars
<1> QED
  BY <1>1, <1>2, <1>3

(* There is one way to write the tree out, since a block comes after the   *)
(* block it is in.                                                         *)
LEMMA WritesAgree ==
    ASSUME TreeInv, NEW f, NEW h,
           \A b \in 1 .. Len(blocks) :
              /\ f[b] = TextOf(blocks[b], f, Len(blocks[b]))
              /\ h[b] = TextOf(blocks[b], h, Len(blocks[b]))
    PROVE  \A b \in 1 .. Len(blocks) : f[b] = h[b]
<1> DEFINE n == Len(blocks)
           Good == {k \in Nat : \A b \in 1 .. n : b + k > n => f[b] = h[b]}
<1>0. n \in Nat
  BY LenProperties DEF TreeInv, ParserType
<1>1. 0 \in Good
  <2>1. \A b \in 1 .. n : ~ (b + 0 > n)
    BY <1>0
  <2> QED
    BY <2>1
<1>2. ASSUME NEW k \in Nat, k \in Good
      PROVE  k + 1 \in Good
  <2>1. ASSUME NEW b \in 1 .. n, b + (k + 1) > n
        PROVE  f[b] = h[b]
    <3>1. ASSUME NEW i, NEW c, Link(b, i, c)
          PROVE  f[c] = h[c]
      <4>1. c \in b + 1 .. n
        BY <3>1, LinksLater DEF TreeInv
      <4>2. c \in 1 .. n /\ c + k > n
        BY <1>0, <2>1, <4>1
      <4> QED
        BY <1>2, <4>2
    <3>2. \A i \in 1 .. Len(blocks[b]) :
              PieceOf(blocks[b][i], f) = PieceOf(blocks[b][i], h)
      BY <3>1, PieceAlike
    <3>3. TextOf(blocks[b], f, Len(blocks[b]))
             = TextOf(blocks[b], h, Len(blocks[b]))
      BY <3>2, TextOfAlike
    <3> QED
      BY <3>3
  <2> QED
    BY <2>1
<1>3. n \in Good
  <2> HIDE DEF Good
  <2> QED
    BY <1>0, <1>1, <1>2, SetInduction
<1>4. \A b \in 1 .. n : b + n > n
  BY <1>0
<1> QED
  BY <1>3, <1>4

(* So Serialized is what any such f says of block 1.                       *)
LEMMA SerializedOf ==
    ASSUME TreeInv, NEW f,
           \A b \in 1 .. Len(blocks) :
              f[b] = TextOf(blocks[b], f, Len(blocks[b]))
    PROVE  Serialized = f[1]
<1> DEFINE n == Len(blocks)
           Row(h, b) == TextOf(blocks[b], h, Len(blocks[b]))
           text == CHOOSE h : h = [b \in DOMAIN blocks |->
                       FlattenSeq([i \in DOMAIN blocks[b] |->
                                      PieceOf(blocks[b][i], h)])]
<1>0. n \in Nat /\ DOMAIN blocks = 1 .. n /\ 1 \in 1 .. n
  BY LenProperties DEF TreeInv, ParserType
<1>1. Serialized = text[1]
  BY DEF Serialized, PieceOf, WordsOf, WordItem, Ending, Joined, Mark
<1>2. \A b \in 1 .. n : DOMAIN blocks[b] = 1 .. Len(blocks[b])
  BY StatementAt DEF TreeInv
<1>3. \A h : \A b \in 1 .. n :
          FlattenSeq([i \in DOMAIN blocks[b] |-> PieceOf(blocks[b][i], h)])
             = Row(h, b)
  BY <1>2 DEF TextOf, Pieces
<1> DEFINE g == [b \in 1 .. n |-> f[b]]
<1>4. \A b \in 1 .. n : g[b] = Row(g, b)
  <2>1. ASSUME NEW b \in 1 .. n
        PROVE  g[b] = Row(g, b)
    <3>1. ASSUME NEW i, NEW c, Link(b, i, c)
          PROVE  f[c] = g[c]
      <4>1. c \in b + 1 .. n /\ b \in Nat
        BY <3>1, LinksLater DEF TreeInv
      <4>2. c \in 1 .. n
        BY <1>0, <4>1
      <4> QED
        BY <4>2
    <3> HIDE DEF g
    <3>2. \A i \in 1 .. Len(blocks[b]) :
              PieceOf(blocks[b][i], f) = PieceOf(blocks[b][i], g)
      BY <3>1, PieceAlike
    <3>3. Row(f, b) = Row(g, b)
      BY <3>2, TextOfAlike
    <3>4. g[b] = f[b]
      BY DEF g
    <3> QED
      BY <3>3, <3>4
  <2> HIDE DEF g, Row
  <2> QED
    BY <2>1
<1>5. g = [b \in DOMAIN blocks |->
              FlattenSeq([i \in DOMAIN blocks[b] |->
                             PieceOf(blocks[b][i], g)])]
  <2> DEFINE Flat(b) == FlattenSeq([i \in DOMAIN blocks[b] |->
                                       PieceOf(blocks[b][i], g)])
  <2>1. \A b \in 1 .. n : Flat(b) = g[b]
    BY <1>3, <1>4
  <2>2. g = [b \in 1 .. n |-> g[b]]
    OBVIOUS
  <2> HIDE DEF g, Flat
  <2>3. g = [b \in DOMAIN blocks |-> Flat(b)]
    BY <1>0, <2>1, <2>2
  <2> QED
    BY <2>3 DEF Flat
<1>6. text = [b \in DOMAIN blocks |->
                 FlattenSeq([i \in DOMAIN blocks[b] |->
                                PieceOf(blocks[b][i], text)])]
  <2> HIDE DEF g
  <2> QED
    BY <1>5
<1> HIDE DEF text, g
<1>7. \A b \in 1 .. n : text[b] = Row(text, b)
  BY <1>0, <1>3, <1>6
<1>8. \A b \in 1 .. n : text[b] = f[b]
  BY <1>7, WritesAgree
<1> QED
  BY <1>0, <1>1, <1>8

(* The tree that Parse hands over, written out again, is the tokens it was *)
(* built from (TreeIsTokens), for every file.                              *)
THEOREM TreeRight == Spec => []TreeIsTokens
<1>1. Init => SignInv /\ WrittenInv
  <2> SUFFICES ASSUME Init PROVE SignInv /\ WrittenInv
    OBVIOUS
  <2>1. /\ token = "none" /\ last = "START" /\ stack = <<1>>
        /\ blocks = << << >> >> /\ tokens = << >>
    BY DEF Init, StartInit, ParserInit
  <2>2. SignInv
    BY <2>1 DEF SignInv, Signs
  <2>3. PICK f, g : f = [b \in Nat |-> << >>] /\ g = [k \in 1 .. 1 |-> << >>]
    OBVIOUS
  <2>4. f \in [Nat -> Items] /\ g[1] = << >> /\ << >> \in Items
    <3>1. << >> \in Items
      BY MarkItems
    <3>2. 1 \in 1 .. 1
      OBVIOUS
    <3> QED
      BY <2>3, <3>1, <3>2, Zenon
  <2>5. /\ Len(stack) = 1 /\ stack[1] = 1 /\ Top = 1 /\ blocks[1] = << >>
        /\ Len(blocks) = 1 /\ Len(<< >>) = 0
    BY <2>1 DEF Top
  <2>6. SoFar(<< >>, f, "START") = << >>
    BY <2>5, TextOfNone DEF SoFar
  <2>7. Reads(f, g)
    <3>1. tokens = Joined(g[1], SoFar(<< >>, f, "START"))
      BY <2>1, <2>4, <2>6, JoinedItems
    <3>2. \A b \in 1 .. 1 : IsOpen(b)
      BY <2>5 DEF IsOpen
    <3> QED
      BY <2>1, <2>4, <2>5, <3>1, <3>2 DEF Reads
  <2> QED
    BY <2>2, <2>7 DEF WrittenInv
<1>2. TreeInv /\ SignInv /\ WrittenInv /\ [Next]_allVars
         => SignInv' /\ WrittenInv'
  BY ParserSteps, SignStep, WrittenStep DEF TreeInv
<1>3. TreeInv /\ GrammarInv /\ WrittenInv => TreeIsTokens
  <2> SUFFICES ASSUME TreeInv, GrammarInv, WrittenInv, result = "accepted"
               PROVE  Serialized = tokens
    BY DEF TreeIsTokens
  <2> DEFINE n == Len(blocks)
             B == blocks[1]
  <2>1. /\ Len(stack) = 1 /\ last # "NORMAL" /\ stack # << >>
        /\ stack[1] = 1 /\ Top = 1
    BY DEF GrammarInv, After, TreeInv, StackInv, Top
  <2>2. PICK f, g : Reads(f, g)
    BY <2>1 DEF WrittenInv
  <2>3. n \in Nat /\ 1 \in 1 .. n /\ B \in Block
    BY <2>1, StackLen DEF TreeInv
  <2>4. Len(B) \in 0 .. Len(B)
    BY <2>3, LenProperties DEF Block
  <2>5. f \in [Nat -> Items]
    BY <2>2 DEF Reads
  <2>6. tokens = TextOf(B, f, Len(B)) /\ tokens \in Items
    <3>1. tokens = Joined(<< >>, TextOf(B, f, Len(B)))
      BY <2>1, <2>2 DEF Reads, SoFar
    <3>2. TextOf(B, f, Len(B)) \in Items
      BY <2>3, <2>4, <2>5, PiecesItems
    <3> QED
      BY <3>1, <3>2, JoinedItems
  <2>7. PICK h : h = [f EXCEPT ![1] = tokens]
    OBVIOUS
  <2>8. h[1] = tokens /\ \A b : b # 1 => h[b] = f[b]
    BY <2>5, <2>7
  <2>9. ASSUME NEW b \in 1 .. n
        PROVE  h[b] = TextOf(blocks[b], h, Len(blocks[b]))
    <3>1. ASSUME NEW i, NEW c, Link(b, i, c)
          PROVE  f[c] = h[c]
      <4>1. c \in b + 1 .. n /\ b \in Nat
        BY <3>1, LinksLater DEF TreeInv
      <4>2. c # 1
        BY <2>3, <4>1
      <4> QED
        BY <2>8, <4>2
    <3>2. \A i \in 1 .. Len(blocks[b]) :
              PieceOf(blocks[b][i], f) = PieceOf(blocks[b][i], h)
      BY <3>1, PieceAlike
    <3>3. TextOf(blocks[b], f, Len(blocks[b]))
             = TextOf(blocks[b], h, Len(blocks[b]))
      BY <3>2, TextOfAlike
    <3>4. CASE b = 1
      BY <2>6, <2>8, <3>3, <3>4
    <3>5. CASE b # 1
      <4>1. ~IsOpen(b)
        BY <2>1, <3>5 DEF IsOpen
      <4>2. f[b] = TextOf(blocks[b], f, Len(blocks[b]))
        BY <2>2, <4>1 DEF Reads
      <4> QED
        BY <2>8, <3>3, <3>5, <4>2
    <3> QED
      BY <3>4, <3>5
  <2>10. Serialized = h[1]
    BY <2>9, SerializedOf
  <2> QED
    BY <2>8, <2>10
<1>4. Spec => [](TreeInv /\ SignInv /\ WrittenInv)
  BY <1>1, <1>2, TreeInvHolds, PTL DEF Spec
<1> QED
  BY <1>3, <1>4, GrammarInvHolds, PTL

-----------------------------------------------------------------------------
(* get_credentials.                                                        *)

(* The statement it stops at in block b, if there is one: a credentials    *)
(* statement, or one with a block to go on with.                           *)
Stops(b) == {i \in DOMAIN blocks[b] : \/ Named(blocks[b][i], "credentials")
                                      \/ blocks[b][i].child # NoChild}
Stop(b) == blocks[b][Min(Stops(b))]

GoesOn(b) == Stops(b) # {} /\ ~Named(Stop(b), "credentials")

LEMMA StopsAt ==
    ASSUME TreeInv, NEW b \in 1 .. Len(blocks), Stops(b) # {}
    PROVE  /\ Min(Stops(b)) \in DOMAIN blocks[b]
           /\ ChildOK(Stop(b), b, Len(blocks))
           /\ GoesOn(b) => Link(b, Min(Stops(b)), b + 1)
           /\ Named(Stop(b), "credentials") /\ Stop(b).child # NoChild
                 => Link(b, Min(Stops(b)), b + 1)
<1> DEFINE m == Min(Stops(b))
<1>1. DOMAIN blocks[b] = 1 .. Len(blocks[b]) /\ DOMAIN blocks[b] \subseteq Nat
  BY StatementAt DEF TreeInv
<1>2. m \in Stops(b) /\ \A i \in Stops(b) : m <= i
  BY <1>1, MinLeast DEF Stops
<1> HIDE DEF m
<1>3. m \in DOMAIN blocks[b] /\ Stop(b) = blocks[b][m]
  BY <1>2 DEF Stops, Stop, m
<1>4. ASSUME Stop(b).child # NoChild
      PROVE  Link(b, m, b + 1)
  <2> DEFINE c == Stop(b).child
  <2>1. Link(b, m, c)
    BY <1>1, <1>3, <1>4 DEF Link
  <2>2. ASSUME NEW j, NEW d, j < m, Link(b, j, d)
        PROVE  FALSE
    <3>1. j \in Stops(b)
      BY <1>1, <2>2 DEF Link, Stops
    <3>2. m <= j /\ j \in Nat /\ m \in Nat
      BY <1>1, <1>2, <3>1 DEF Stops
    <3> QED
      BY <2>2, <3>2
  <2>3. c = b + 1
    BY <2>1, <2>2 DEF TreeInv, InOrder, Ordered, FirstNext
  <2> QED
    BY <2>1, <2>3
<1>5. Named(Stop(b), "credentials") \/ Stop(b).child # NoChild
  BY <1>2, <1>3 DEF Stops
<1>6. ChildOK(Stop(b), b, Len(blocks))
  BY <1>1, <1>3 DEF TreeInv, ChildrenLater
<1> QED
  BY <1>3, <1>4, <1>5, <1>6 DEF m, GoesOn

(* It goes from every block to the next until it stops for good.           *)
LEMMA GoesDown ==
    ASSUME TreeInv
    PROVE  \E c \in 1 .. Len(blocks) :
              /\ ~GoesOn(c)
              /\ CredentialsStatement = IF Stops(c) = {} THEN NoStatement
                                        ELSE Stop(c)
              /\ \A b \in 1 .. c - 1 : GoesOn(b)
<1> DEFINE n == Len(blocks)
           Row(f, b) == IF Stops(b) = {} THEN NoStatement
                        ELSE IF Named(Stop(b), "credentials") THEN Stop(b)
                        ELSE f[Stop(b).child]
           find == CHOOSE f : f = [b \in DOMAIN blocks |-> Row(f, b)]
           next == [b \in 1 .. n |-> IF GoesOn(b) THEN b + 1 ELSE 0]
           goal == [b \in 1 .. n |-> IF Stops(b) = {} THEN NoStatement
                                     ELSE Stop(b)]
<1>1. CredentialsStatement = find[1]
  BY DEF CredentialsStatement, Stops, Stop
<1>2. n \in Nat /\ 1 \in 1 .. n /\ DOMAIN blocks = 1 .. n
  BY LenProperties DEF TreeInv, ParserType
<1>3. ASSUME NEW b \in 1 .. n, GoesOn(b)
      PROVE  Stop(b).child = b + 1 /\ b + 1 \in 1 .. n
  <2>1. Link(b, Min(Stops(b)), b + 1)
    BY <1>3, StopsAt DEF GoesOn
  <2>2. Stop(b).child = b + 1
    BY <2>1 DEF Link, Stop
  <2>3. b + 1 \in b + 1 .. n
    BY <2>1, LinksLater DEF TreeInv
  <2> QED
    BY <2>2, <2>3
<1>4. ASSUME NEW b \in 1 .. n
      PROVE  /\ next[b] = IF GoesOn(b) THEN b + 1 ELSE 0
             /\ goal[b] = IF Stops(b) = {} THEN NoStatement ELSE Stop(b)
  OBVIOUS
<1> HIDE DEF next, goal
<1>5. ASSUME NEW b \in 1 .. n
      PROVE  /\ next[b] = 0 \/ (next[b] = b + 1 /\ b + 1 \in 1 .. n)
             /\ next[b] = 0 <=> ~GoesOn(b)
             /\ \A f : Row(f, b) = IF next[b] = 0 THEN goal[b] ELSE f[next[b]]
  <2>1. CASE ~GoesOn(b)
    <3>1. next[b] = 0
      BY <1>4, <2>1
    <3>2. \A f : Row(f, b) = goal[b]
      BY <1>4, <2>1 DEF GoesOn
    <3> QED
      BY <2>1, <3>1, <3>2
  <2>2. CASE GoesOn(b)
    <3>1. next[b] = b + 1 /\ b + 1 # 0 /\ b + 1 \in 1 .. n
      BY <1>3, <1>4, <2>2
    <3>2. \A f : Row(f, b) = f[b + 1]
      BY <1>3, <2>2 DEF GoesOn
    <3> QED
      BY <2>2, <3>1, <3>2
  <2> QED
    BY <2>1, <2>2
<1> HIDE DEF Row, n
<1>6. Forward(next, n)
  BY <1>5 DEF Forward
<1>7. find = [b \in DOMAIN blocks |-> Row(find, b)]
  <2>1. PICK f : Walk(f, next, goal, n)
    BY <1>2, <1>6, WalkExists, Zenon
  <2>2. f = [b \in DOMAIN blocks |-> Row(f, b)]
    BY <1>2, <1>5, <2>1 DEF Walk
  <2> QED
    BY <2>2
<1> HIDE DEF find
<1>8. Walk(find, next, goal, n)
  BY <1>2, <1>5, <1>7 DEF Walk
<1>9. PICK c \in 1 .. n : /\ next[c] = 0 /\ find[1] = goal[c]
                          /\ \A b \in 1 .. c - 1 : next[b] # 0
  BY <1>2, <1>6, <1>8, WalkEnds
<1>10. ASSUME NEW b \in 1 .. c - 1 PROVE GoesOn(b)
  <2>1. b \in 1 .. n
    BY <1>2
  <2> QED
    BY <1>5, <1>9, <2>1
<1> QED
  BY <1>1, <1>4, <1>5, <1>9, <1>10 DEF n

(* So it ends, at a credentials statement of the tree or at none.          *)
LEMMA CredentialsFound ==
    ASSUME TreeInv
    PROVE  \/ CredentialsStatement = NoStatement
           \/ \E b \in 1 .. Len(blocks) : \E i \in DOMAIN blocks[b] :
                 /\ CredentialsStatement = blocks[b][i]
                 /\ Named(blocks[b][i], "credentials")
                 /\ ChildOK(blocks[b][i], b, Len(blocks))
<1>1. PICK c \in 1 .. Len(blocks) :
          /\ ~GoesOn(c)
          /\ CredentialsStatement = IF Stops(c) = {} THEN NoStatement
                                    ELSE Stop(c)
  BY GoesDown
<1> QED
  BY <1>1, StopsAt DEF GoesOn, Stop

-----------------------------------------------------------------------------
(* The blocks around a block.                                              *)

LEMMA ParentOf ==
    ASSUME TreeInv, NEW c \in 2 .. Len(blocks)
    PROVE  /\ Parent(c) \in 1 .. c - 1
           /\ \E i : Link(Parent(c), i, c)
           /\ \A b, i : Link(b, i, c) => b = Parent(c)
<1>1. PICK a, i : Link(a, i, c)
  BY DEF TreeInv, InOrder, Ordered, EveryLinked
<1>2. c # NoChild /\ c \in Nat /\ DOMAIN blocks = 1 .. Len(blocks)
  BY LenProperties DEF NoChild, TreeInv, ParserType
<1>3. \A b \in DOMAIN blocks : DOMAIN blocks[b] = 1 .. Len(blocks[b])
  BY <1>2, StatementAt DEF TreeInv
<1>4. \A b : /\ b \in DOMAIN blocks
             /\ \E j \in DOMAIN blocks[b] : blocks[b][j].child = c
             <=> \E j : Link(b, j, c)
  BY <1>2, <1>3 DEF Link
<1>5. \E j : Link(Parent(c), j, c)
  BY <1>1, <1>4 DEF Parent
<1>6. \A b, j : Link(b, j, c) => b = Parent(c)
  BY <1>5 DEF TreeInv, InOrder, Ordered, OneLink
<1>7. c \in Parent(c) + 1 .. Len(blocks) /\ Parent(c) \in 1 .. Len(blocks)
  BY <1>5, LinksLater DEF TreeInv, Link
<1> QED
  BY <1>2, <1>5, <1>6, <1>7

(* Around is a climb from Parent to Parent.                                *)
Outer(b) == [c \in 2 .. b |-> Parent(c)]

LEMMA OuterOf ==
    ASSUME TreeInv, NEW b \in 1 .. Len(blocks)
    PROVE  /\ b \in Nat /\ b >= 1 /\ Backward(Outer(b), b)
           /\ \A c \in 2 .. b : Outer(b)[c] = Parent(c)
           /\ \E f : Climb(f, Outer(b), b) /\ Around(b) = f[b]
<1> DEFINE outer == Outer(b)
           Row(f, c) == IF c = 1 THEN {} ELSE {Parent(c)} \cup f[Parent(c)]
           up == CHOOSE f : f = [c \in 1 .. b |-> Row(f, c)]
<1>1. Around(b) = up[b]
  BY DEF Around
<1>2. b \in Nat /\ b >= 1 /\ Len(blocks) \in Nat
  BY LenProperties DEF TreeInv, ParserType
<1>3. \A c \in 2 .. b : outer[c] = Parent(c)
  BY DEF Outer
<1> HIDE DEF outer
<1>4. \A f : \A c \in 1 .. b :
          Row(f, c) = IF c = 1 THEN {} ELSE {outer[c]} \cup f[outer[c]]
  <2>1. \A c \in 1 .. b : c # 1 => c \in 2 .. b
    BY <1>2
  <2> QED
    BY <1>3, <2>1
<1>5. Backward(outer, b)
  <2>1. \A c \in 2 .. b : c \in 2 .. Len(blocks)
    BY <1>2
  <2> QED
    BY <1>3, <2>1, ParentOf DEF Backward
<1> HIDE DEF Row
<1>6. up = [c \in 1 .. b |-> Row(up, c)]
  <2>1. PICK f : Climb(f, outer, b)
    BY <1>2, <1>5, ClimbExists
  <2> DEFINE Line(c) == IF c = 1 THEN {} ELSE {outer[c]} \cup f[outer[c]]
  <2>2. f = [c \in 1 .. b |-> Line(c)]
    BY <2>1 DEF Climb
  <2>3. \A c \in 1 .. b : Row(f, c) = Line(c)
    BY <1>4
  <2> HIDE DEF Line
  <2>4. f = [c \in 1 .. b |-> Row(f, c)]
    BY <2>2, <2>3
  <2> QED
    BY <2>4
<1> HIDE DEF up
<1>7. Climb(up, outer, b)
  BY <1>4, <1>6 DEF Climb
<1> QED
  BY <1>1, <1>2, <1>3, <1>5, <1>7 DEF outer

LEMMA AroundOf ==
    ASSUME TreeInv, NEW b \in 1 .. Len(blocks)
    PROVE  /\ \A a \in Around(b) : \E c \in 2 .. b : a = Parent(c)
           /\ (\A c \in 2 .. b : Parent(c) = c - 1)
                 => Around(b) = 1 .. b - 1
<1> DEFINE outer == Outer(b)
<1>1. /\ b \in Nat /\ b >= 1 /\ Backward(outer, b)
      /\ \A c \in 2 .. b : outer[c] = Parent(c)
  BY OuterOf
<1>2. PICK f : Climb(f, outer, b) /\ Around(b) = f[b]
  BY OuterOf
<1> HIDE DEF outer
<1>3. \A a \in f[b] : \E c \in 2 .. b : a = outer[c]
  BY <1>1, <1>2, ClimbWithin
<1>4. (\A c \in 2 .. b : outer[c] = c - 1) => f[b] = 1 .. b - 1
  BY <1>1, <1>2, ClimbStraight
<1> QED
  BY <1>1, <1>2, <1>3, <1>4

(* Around without its function: the parent, and what is around that.       *)
LEMMA AroundParent ==
    ASSUME TreeInv
    PROVE  /\ Around(1) = {}
           /\ \A c \in 2 .. Len(blocks) :
                 Around(c) = {Parent(c)} \cup Around(Parent(c))
<1> DEFINE n == Len(blocks)
<1>0. n \in Nat /\ n >= 1
  BY LenProperties DEF TreeInv, ParserType
<1>1. Around(1) = {}
  <2>1. PICK f : Climb(f, Outer(1), 1) /\ Around(1) = f[1]
    BY <1>0, OuterOf
  <2> QED
    BY <2>1 DEF Climb
<1>2. ASSUME NEW c \in 2 .. n
      PROVE  Around(c) = {Parent(c)} \cup Around(Parent(c))
  <2> DEFINE p == Parent(c)
             oc == Outer(c)
             op == Outer(p)
  <2>1. p \in 1 .. c - 1 /\ p \in 1 .. n /\ c \in 1 .. n /\ p \in Nat
    BY <1>0, ParentOf
  <2> HIDE DEF p
  <2>2. PICK f : Climb(f, oc, c) /\ Around(c) = f[c]
    BY <2>1, OuterOf
  <2>3. PICK g : Climb(g, op, p) /\ Around(p) = g[p]
    BY <2>1, OuterOf
  <2>4. /\ c \in Nat /\ Backward(oc, c)
        /\ \A d \in 2 .. c : oc[d] = Parent(d)
    BY <2>1, OuterOf
  <2>5. /\ p \in Nat
        /\ \A d \in 2 .. p : op[d] = Parent(d)
    BY <2>1, OuterOf
  <2> HIDE DEF oc, op
  <2>6. \A d \in 2 .. p : op[d] = oc[d]
    <3>1. \A d \in 2 .. p : d \in 2 .. c
      BY <2>1, <2>4
    <3> QED
      BY <2>4, <2>5, <3>1
  <2>7. p <= c /\ p \in 1 .. p
    BY <2>1, <2>4
  <2>8. g[p] = f[p]
    BY <2>2, <2>3, <2>4, <2>5, <2>6, <2>7, ClimbsAgree
  <2>9. c \in 1 .. c /\ c # 1 /\ c \in 2 .. c
    BY <2>4
  <2>10. f[c] = {oc[c]} \cup f[oc[c]]
    BY <2>2, <2>9 DEF Climb
  <2>11. oc[c] = p
    BY <2>4, <2>9 DEF p
  <2> QED
    BY <2>2, <2>3, <2>8, <2>10, <2>11 DEF p
<1> QED
  BY <1>1, <1>2

(* What holds of block 1, and of a block if of its parent, holds of all.   *)
LEMMA ParentInduction ==
    ASSUME TreeInv, NEW S, 1 \in S,
           \A d \in 2 .. Len(blocks) : Parent(d) \in S => d \in S
    PROVE  \A d \in 1 .. Len(blocks) : d \in S
<1> DEFINE n == Len(blocks)
           Good == {m \in Nat : \A d \in 1 .. n : d <= m => d \in S}
<1>0. n \in Nat
  BY LenProperties DEF TreeInv, ParserType
<1>1. 0 \in Good
  OBVIOUS
<1>2. ASSUME NEW m \in Nat, m \in Good
      PROVE  m + 1 \in Good
  <2>1. ASSUME NEW d \in 1 .. n, d <= m + 1
        PROVE  d \in S
    <3>1. CASE d # 1
      <4>1. d \in 2 .. n
        BY <1>0, <3>1
      <4>2. Parent(d) \in 1 .. d - 1
        BY <4>1, ParentOf
      <4>3. Parent(d) \in 1 .. n /\ Parent(d) <= m
        BY <1>0, <2>1, <4>1, <4>2
      <4> QED
        BY <1>2, <4>1, <4>3
    <3> QED
      BY <3>1
  <2> QED
    BY <2>1
<1>3. n \in Good
  <2> HIDE DEF Good
  <2> QED
    BY <1>0, <1>1, <1>2, SetInduction
<1> QED
  BY <1>0, <1>3

(* The blocks that lie in block b, and b.                                  *)
Under(b) == {d \in 1 .. Len(blocks) : d = b \/ b \in Around(d)}

LEMMA UnderStep ==
    ASSUME TreeInv, NEW b \in 1 .. Len(blocks)
    PROVE  /\ 1 \in Under(b) => b = 1
           /\ \A d \in 2 .. Len(blocks) :
                 /\ Parent(d) \in 1 .. Len(blocks)
                 /\ d \in Under(b) <=> d = b \/ Parent(d) \in Under(b)
<1>1. Around(1) = {} /\ \A d \in 2 .. Len(blocks) :
                          Around(d) = {Parent(d)} \cup Around(Parent(d))
  BY AroundParent
<1>2. Len(blocks) \in Nat
  BY LenProperties DEF TreeInv, ParserType
<1>3. ASSUME NEW d \in 2 .. Len(blocks)
      PROVE  Parent(d) \in 1 .. Len(blocks) /\ d \in 1 .. Len(blocks)
  BY <1>2, ParentOf
<1> QED
  BY <1>1, <1>3 DEF Under

LEMMA UnderLater ==
    ASSUME TreeInv, NEW b \in 1 .. Len(blocks)
    PROVE  \A d \in Under(b) : b <= d
<1> DEFINE S == {d \in 1 .. Len(blocks) : d \in Under(b) => b <= d}
<1>0. Len(blocks) \in Nat
  BY LenProperties DEF TreeInv, ParserType
<1>1. 1 \in S
  BY <1>0, UnderStep
<1>2. ASSUME NEW d \in 2 .. Len(blocks), Parent(d) \in S
      PROVE  d \in S
  <2> SUFFICES ASSUME d \in Under(b), d # b PROVE b <= d
    BY <1>0
  <2>1. Parent(d) \in Under(b) /\ Parent(d) \in 1 .. d - 1
    BY UnderStep, ParentOf
  <2> QED
    BY <1>2, <2>1
<1> HIDE DEF S
<1>3. \A d \in 1 .. Len(blocks) : d \in S
  BY <1>1, <1>2, ParentInduction
<1> QED
  BY <1>3 DEF S, Under

LEMMA UnderOne ==
    ASSUME TreeInv
    PROVE  Under(1) = 1 .. Len(blocks)
<1>0. 1 \in 1 .. Len(blocks)
  BY LenProperties DEF TreeInv, ParserType
<1>1. 1 \in Under(1)
  BY <1>0 DEF Under
<1>2. \A d \in 2 .. Len(blocks) : Parent(d) \in Under(1) => d \in Under(1)
  BY <1>0, UnderStep
<1>3. \A d \in 1 .. Len(blocks) : d \in Under(1)
  BY <1>1, <1>2, ParentInduction
<1> QED
  BY <1>3 DEF Under

(* What lies in a block lies in a child of it.                             *)
LEMMA UnderChild ==
    ASSUME TreeInv, NEW b \in 1 .. Len(blocks)
    PROVE  /\ \A d \in Under(b) : d # b =>
                 \E i, c : Link(b, i, c) /\ d \in Under(c)
           /\ \A i, c : Link(b, i, c) =>
                 /\ c \in 1 .. Len(blocks) /\ b < c
                 /\ Around(c) = {b} \cup Around(b)
                 /\ Under(c) \subseteq Under(b)
<1> DEFINE n == Len(blocks)
           S == {d \in 1 .. n : d \in Under(b) /\ d # b =>
                    \E i, c : Link(b, i, c) /\ d \in Under(c)}
<1>0. n \in Nat /\ \A d \in 2 .. n : d \in 1 .. n
  BY LenProperties DEF TreeInv, ParserType
<1>1. ASSUME NEW i, NEW c, Link(b, i, c)
      PROVE  c \in 2 .. n /\ c \in 1 .. n /\ b < c /\ Parent(c) = b
  <2>1. c \in b + 1 .. n
    BY <1>1, LinksLater DEF TreeInv
  <2>2. c \in 2 .. n /\ c \in 1 .. n /\ b < c
    BY <1>0, <2>1
  <2> QED
    BY <1>1, <2>2, ParentOf
<1>2. 1 \in S
  BY <1>0, UnderStep
<1>3. ASSUME NEW d \in 2 .. n, Parent(d) \in S
      PROVE  d \in S
  <2> SUFFICES ASSUME d \in Under(b), d # b
               PROVE  \E i, c : Link(b, i, c) /\ d \in Under(c)
    BY <1>0
  <2>1. CASE Parent(d) = b
    <3>1. PICK i : Link(b, i, d)
      BY <2>1, ParentOf
    <3>2. d \in Under(d)
      BY <1>0 DEF Under
    <3> QED
      BY <3>1, <3>2
  <2>2. CASE Parent(d) # b
    <3>1. Parent(d) \in Under(b)
      BY UnderStep
    <3>2. PICK i, c : Link(b, i, c) /\ Parent(d) \in Under(c)
      BY <1>3, <2>2, <3>1
    <3>3. d \in Under(c)
      BY <1>1, <3>2, UnderStep
    <3> QED
      BY <3>2, <3>3
  <2> QED
    BY <2>1, <2>2
<1> HIDE DEF S
<1>4. \A d \in 1 .. n : d \in S
  BY <1>2, <1>3, ParentInduction
<1>5. ASSUME NEW i, NEW c, Link(b, i, c)
      PROVE  Under(c) \subseteq Under(b)
  <2> DEFINE U == {d \in 1 .. n : d \in Under(c) => d \in Under(b)}
  <2>1. c \in 2 .. n /\ c \in 1 .. n /\ Parent(c) = b /\ b < c
    BY <1>1, <1>5
  <2>2. 1 \in U
    BY <1>0, <2>1, UnderStep
  <2>3. ASSUME NEW d \in 2 .. n, Parent(d) \in U
        PROVE  d \in U
    <3> SUFFICES ASSUME d \in Under(c) PROVE d \in Under(b)
      BY <1>0
    <3>1. CASE d = c
      <4>1. b \in Under(b)
        BY DEF Under
      <4> QED
        BY <2>1, <3>1, <4>1, UnderStep
    <3>2. CASE d # c
      <4>1. Parent(d) \in Under(c)
        BY <2>1, <3>2, UnderStep
      <4> QED
        BY <2>3, <4>1, UnderStep
    <3> QED
      BY <3>1, <3>2
  <2> HIDE DEF U
  <2>4. \A d \in 1 .. n : d \in U
    BY <2>2, <2>3, ParentInduction
  <2> QED
    BY <2>4 DEF U, Under
<1>6. ASSUME NEW i, NEW c, Link(b, i, c)
      PROVE  Around(c) = {b} \cup Around(b)
  BY <1>1, <1>6, AroundParent
<1> QED
  BY <1>1, <1>4, <1>5, <1>6 DEF S, Under

(* What lies in a block comes before the blocks that follow beside it.     *)
LEMMA UnderBefore ==
    ASSUME TreeInv, NEW b \in 1 .. Len(blocks), NEW i, NEW c, NEW j, NEW e,
           Link(b, i, c), Link(b, j, e), i < j
    PROVE  \A d \in Under(c) : d < e
<1> DEFINE n == Len(blocks)
           S == {d \in 1 .. n : d \in Under(c) => d < e}
<1>0. n \in Nat
  BY LenProperties DEF TreeInv, ParserType
<1>1. /\ c \in 1 .. n /\ e \in 1 .. n /\ b < c /\ b < e /\ c < e
      /\ e \in 2 .. n
  <2>1. c \in 1 .. n /\ e \in 1 .. n /\ b < c /\ b < e
    BY UnderChild
  <2>2. c < e
    BY DEF TreeInv, InOrder, Ordered, Siblings
  <2> QED
    BY <1>0, <2>1, <2>2
<1>2. 1 \in S
  BY <1>0, <1>1, UnderStep
<1>3. ASSUME NEW d \in 2 .. n, Parent(d) \in S
      PROVE  d \in S
  <2> SUFFICES ASSUME d \in Under(c) PROVE d < e
    BY <1>0
  <2>1. CASE d = c
    BY <1>1, <2>1
  <2>2. CASE d # c
    <3> DEFINE p == Parent(d)
    <3>1. p \in Under(c) /\ p \in 1 .. n
      BY <1>1, <2>2, UnderStep
    <3>2. c <= p /\ p < e
      BY <1>1, <1>3, <3>1, UnderLater
    <3>3. PICK k : Link(p, k, d)
      BY ParentOf
    <3> HIDE DEF p
    <3>4. d # e
      <4> SUFFICES ASSUME d = e PROVE FALSE
        OBVIOUS
      <4>1. p = b
        BY <3>3 DEF TreeInv, InOrder, Ordered, OneLink
      <4> QED
        BY <1>0, <1>1, <3>2, <4>1
    <3>5. ~ (e < d)
      <4> SUFFICES ASSUME e < d PROVE FALSE
        OBVIOUS
      <4>1. p <= b
        BY <3>2, <3>3 DEF TreeInv, InOrder, Ordered, Nested
      <4> QED
        BY <1>0, <1>1, <3>1, <3>2, <4>1
    <3> QED
      BY <1>0, <1>1, <3>4, <3>5
  <2> QED
    BY <2>1, <2>2
<1> HIDE DEF S
<1>4. \A d \in 1 .. n : d \in S
  BY <1>2, <1>3, ParentInduction
<1> QED
  BY <1>4 DEF S, Under

-----------------------------------------------------------------------------
(* get_config_port and get_auth_time.                                      *)

(* One call of the query, f being the calls it makes.                      *)
FirstOf(b, name) == atoi(blocks[b][Min(Settings(b, name))].tokens[2])

Subs(f, b) == {i \in DOMAIN blocks[b] : /\ blocks[b][i].child # NoChild
                                        /\ f[blocks[b][i].child] # -1}

Found(f, b, name) ==
    IF Settings(b, name) # {} THEN Valid16(FirstOf(b, name))
    ELSE IF Subs(f, b) = {} THEN -1
    ELSE f[blocks[b][Min(Subs(f, b))].child]

(* The blocks whose setting may be found.                                  *)
Fits(v)           == v \in 0 .. 65535
Clear(b, name)    == \A a \in Around(b) : Settings(a, name) = {}
Findable(b, name) == /\ Settings(b, name) # {}
                     /\ Clear(b, name)
                     /\ Fits(FirstOf(b, name))
Seen(name)        == {b \in DOMAIN blocks : Findable(b, name)}

Best(S, name) == IF S = {} THEN -1 ELSE FirstOf(Min(S), name)

LEMMA FitsOf ==
    \A v : Fits(v) => v \in Int /\ 0 <= v /\ v < 65536 /\ v # -1
<1>1. \A v : Fits(v) => v \in Int
  BY SMT DEF Fits
<1>2. \A v \in Int : Fits(v) => 0 <= v /\ v < 65536 /\ v # -1
  BY SMT DEF Fits
<1> QED
  BY <1>1, <1>2, SMT

LEMMA ValidOf ==
    ASSUME NEW v
    PROVE  Valid16(v) = IF Fits(v) THEN v ELSE -1
BY SMT DEF Fits, Valid16

LEMMA SeenOf ==
    ASSUME NEW name
    PROVE  \A d : d \in Seen(name) <=> /\ d \in DOMAIN blocks
                                       /\ Findable(d, name)
BY DEF Seen

LEMMA SubsOf ==
    ASSUME TreeInv, NEW b \in 1 .. Len(blocks), NEW f
    PROVE  /\ \A i : i \in Subs(f, b) <=> \E c : Link(b, i, c) /\ f[c] # -1
           /\ Subs(f, b) # {} =>
                 /\ \E c : /\ Link(b, Min(Subs(f, b)), c) /\ f[c] # -1
                           /\ blocks[b][Min(Subs(f, b))].child = c
                 /\ \A i \in Subs(f, b) : Min(Subs(f, b)) <= i
<1>1. DOMAIN blocks[b] = 1 .. Len(blocks[b]) /\ DOMAIN blocks[b] \subseteq Nat
  BY StatementAt DEF TreeInv
<1>2. \A i : i \in Subs(f, b) <=> \E c : Link(b, i, c) /\ f[c] # -1
  BY <1>1 DEF Subs, Link
<1>3. ASSUME Subs(f, b) # {}
      PROVE  /\ Min(Subs(f, b)) \in Subs(f, b)
             /\ \A i \in Subs(f, b) : Min(Subs(f, b)) <= i
  <2>1. Subs(f, b) \subseteq Nat
    BY <1>1 DEF Subs
  <2> QED
    BY <1>3, <2>1, MinLeast
<1>4. ASSUME Subs(f, b) # {}
      PROVE  \E c : /\ Link(b, Min(Subs(f, b)), c) /\ f[c] # -1
                    /\ blocks[b][Min(Subs(f, b))].child = c
  BY <1>2, <1>3, <1>4 DEF Link
<1> QED
  BY <1>2, <1>3, <1>4

(* A call depends on the calls for later blocks only.                      *)
LEMMA FoundAlike ==
    ASSUME TreeInv, NEW name, NEW b \in 1 .. Len(blocks), NEW f, NEW g,
           \A c \in b + 1 .. Len(blocks) : f[c] = g[c]
    PROVE  Found(f, b, name) = Found(g, b, name)
<1>1. \A i, c : Link(b, i, c) => f[c] = g[c]
  BY LinksLater DEF TreeInv
<1>2. \A i : i \in Subs(f, b) <=> i \in Subs(g, b)
  BY <1>1, SubsOf
<1>3. Subs(f, b) = Subs(g, b)
  BY <1>2 DEF Subs
<1>4. ASSUME Subs(f, b) # {}
      PROVE  f[blocks[b][Min(Subs(f, b))].child]
             = g[blocks[b][Min(Subs(f, b))].child]
  BY <1>1, <1>4, SubsOf
<1> QED
  BY <1>3, <1>4 DEF Found

LEMMA FindExists ==
    ASSUME TreeInv, NEW name
    PROVE  \E f : f = [b \in DOMAIN blocks |-> Found(f, b, name)]
<1> DEFINE n == Len(blocks)
           Upto(f, k) == \A b \in 1 .. n : b + k > n =>
                            f[b] = Found(f, b, name)
           Good == {k \in Nat : \E f : Upto(f, k)}
<1>0. n \in Nat /\ DOMAIN blocks = 1 .. n
  BY LenProperties DEF TreeInv, ParserType
<1>1. 0 \in Good
  <2>1. \A b \in 1 .. n : ~ (b + 0 > n)
    BY <1>0
  <2>2. \A f : Upto(f, 0)
    BY <2>1
  <2> QED
    BY <2>2
<1>2. ASSUME NEW k \in Nat, k \in Good
      PROVE  k + 1 \in Good
  <2>1. PICK f : Upto(f, k)
    BY <1>2
  <2> DEFINE g == [b \in 1 .. n |-> Found(f, b, name)]
  <2>2. \A b \in 1 .. n : g[b] = Found(f, b, name)
    OBVIOUS
  <2> HIDE DEF g
  <2>3. ASSUME NEW b \in 1 .. n, b + (k + 1) > n
        PROVE  g[b] = Found(g, b, name)
    <3>1. ASSUME NEW c \in b + 1 .. n
          PROVE  f[c] = g[c]
      <4>1. c \in 1 .. n /\ c + k > n
        BY <1>0, <2>3
      <4> QED
        BY <2>1, <2>2, <4>1
    <3>2. Found(f, b, name) = Found(g, b, name)
      BY <3>1, FoundAlike
    <3> QED
      BY <2>2, <3>2
  <2>4. Upto(g, k + 1)
    BY <2>3
  <2> HIDE DEF Upto
  <2> QED
    BY <2>4
<1>3. n \in Good
  <2> HIDE DEF Good
  <2> QED
    BY <1>0, <1>1, <1>2, SetInduction
<1>4. PICK f : Upto(f, n)
  BY <1>3
<1>5. \A b \in 1 .. n : f[b] = Found(f, b, name)
  <2>1. \A b \in 1 .. n : b + n > n
    BY <1>0
  <2> QED
    BY <1>4, <2>1
<1> DEFINE h == [b \in 1 .. n |-> f[b]]
<1>6. h = [b \in 1 .. n |-> h[b]] /\ \A b \in 1 .. n : h[b] = f[b]
  OBVIOUS
<1> HIDE DEF h
<1>7. ASSUME NEW b \in 1 .. n
      PROVE  h[b] = Found(h, b, name)
  <2>1. \A c \in b + 1 .. n : f[c] = h[c]
    <3>1. \A c \in b + 1 .. n : c \in 1 .. n
      BY <1>0
    <3> QED
      BY <1>6, <3>1
  <2>2. Found(f, b, name) = Found(h, b, name)
    BY <2>1, FoundAlike
  <2> QED
    BY <1>5, <1>6, <2>2
<1>8. h = [b \in DOMAIN blocks |-> Found(h, b, name)]
  BY <1>0, <1>6, <1>7
<1> QED
  BY <1>8

(* Where no block around b has a setting, the call for b finds the first   *)
(* setting that may be found in b and in the blocks that lie in it.        *)
LEMMA FoundBest ==
    ASSUME TreeInv, NEW name, NEW f, NEW b \in 1 .. Len(blocks),
           f[b] = Found(f, b, name),
           Clear(b, name),
           \A i, c : Link(b, i, c) /\ Settings(b, name) = {}
                         => f[c] = Best(Seen(name) \cap Under(c), name)
    PROVE  f[b] = Best(Seen(name) \cap Under(b), name)
<1> DEFINE n == Len(blocks)
           In(c) == Seen(name) \cap Under(c)
<1>0. n \in Nat /\ DOMAIN blocks = 1 .. n
  BY LenProperties DEF TreeInv, ParserType
<1>1. \A c : In(c) \subseteq Nat
  BY <1>0 DEF Under
<1>2. \A d \in Seen(name) : Fits(FirstOf(d, name))
  BY SeenOf DEF Findable
<1>3. b \in Under(b)
  BY DEF Under
<1>4. CASE Settings(b, name) # {}
  <2>1. \A d \in In(b) : d = b
    BY <1>4, SeenOf DEF Findable, Clear, Under
  <2>2. f[b] = Valid16(FirstOf(b, name))
    BY <1>4 DEF Found
  <2>3. CASE Fits(FirstOf(b, name))
    <3>1. b \in In(b)
      BY <1>0, <1>3, <1>4, <2>3, SeenOf DEF Findable
    <3>2. Min(In(b)) \in In(b)
      BY <1>1, <3>1, MinLeast
    <3>3. Min(In(b)) = b
      BY <2>1, <3>2
    <3> QED
      BY <2>2, <2>3, <3>1, <3>3, ValidOf DEF Best
  <2>4. CASE ~Fits(FirstOf(b, name))
    <3>1. In(b) = {}
      BY <2>1, <2>4, SeenOf DEF Findable
    <3> QED
      BY <2>2, <2>4, <3>1, ValidOf DEF Best
  <2> QED
    BY <2>3, <2>4
<1>5. CASE Settings(b, name) = {}
  <2>1. b \notin In(b)
    BY <1>5, SeenOf DEF Findable
  <2>2. \A d \in In(b) : \E i, c : Link(b, i, c) /\ d \in In(c)
    BY <2>1, UnderChild
  <2>3. ASSUME NEW i, NEW c, Link(b, i, c)
        PROVE  /\ In(c) \subseteq In(b)
               /\ f[c] = Best(In(c), name)
               /\ c \in 1 .. n
    BY <1>5, <2>3, UnderChild
  <2>4. ASSUME NEW i, NEW c, Link(b, i, c)
        PROVE  f[c] # -1 <=> In(c) # {}
    <3>1. CASE In(c) = {}
      BY <2>3, <2>4, <3>1 DEF Best
    <3>2. CASE In(c) # {}
      <4>1. Min(In(c)) \in In(c)
        BY <1>1, <3>2, MinLeast
      <4>2. Fits(FirstOf(Min(In(c)), name))
        BY <1>2, <4>1
      <4> QED
        BY <2>3, <2>4, <3>2, <4>2, FitsOf DEF Best
    <3> QED
      BY <3>1, <3>2
  <2> HIDE DEF In
  <2>5. CASE Subs(f, b) = {}
    <3>1. In(b) = {}
      BY <2>2, <2>4, <2>5, SubsOf
    <3> QED
      BY <1>5, <2>5, <3>1 DEF Found, Best, In
  <2>6. CASE Subs(f, b) # {}
    <3> DEFINE m == Min(Subs(f, b))
    <3>1. PICK c : Link(b, m, c) /\ f[c] # -1 /\ blocks[b][m].child = c
      BY <2>6, SubsOf
    <3>2. f[b] = f[c]
      BY <1>5, <2>6, <3>1 DEF Found
    <3>3. In(c) # {} /\ f[c] = Best(In(c), name) /\ In(c) \subseteq In(b)
      BY <2>3, <2>4, <3>1
    <3>4. /\ Min(In(c)) \in In(c) /\ Min(In(c)) \in Nat
          /\ \A d \in In(c) : Min(In(c)) <= d
      BY <1>1, <3>3, MinLeast
    <3>5. /\ In(b) # {} /\ Min(In(b)) \in In(b) /\ Min(In(b)) \in Nat
          /\ \A d \in In(b) : Min(In(b)) <= d
      BY <1>1, <3>3, MinLeast
    <3> DEFINE e == Min(In(b))
    <3>6. PICK j, k : Link(b, j, k) /\ e \in In(k)
      BY <2>2, <3>5
    <3>7. j \in Subs(f, b) /\ m <= j
      BY <2>4, <2>6, <3>6, SubsOf
    <3>8. e \in In(c)
      <4>1. CASE j = m
        <5>1. k = c
          BY <3>1, <3>6, <4>1 DEF Link
        <5> QED
          BY <3>6, <5>1
      <4>2. CASE j # m
        <5>1. j \in Nat /\ m \in Nat
          <6>1. DOMAIN blocks[b] = 1 .. Len(blocks[b])
                /\ DOMAIN blocks[b] \subseteq Nat
            BY StatementAt DEF TreeInv
          <6> QED
            BY <3>1, <3>6, <6>1 DEF Link
        <5>2. m < j
          BY <3>7, <4>2, <5>1
        <5>3. Min(In(c)) < k
          BY <3>1, <3>4, <3>6, <5>2, UnderBefore DEF In
        <5>4. k <= e /\ k \in 1 .. n
          BY <2>3, <3>6, UnderLater DEF In
        <5>5. e <= Min(In(c))
          BY <3>3, <3>4, <3>5
        <5> QED
          BY <1>0, <3>4, <3>5, <5>3, <5>4, <5>5
      <4> QED
        BY <4>1, <4>2
    <3>9. e = Min(In(c))
      <4>1. e <= Min(In(c)) /\ Min(In(c)) <= e
        BY <3>3, <3>4, <3>5, <3>8
      <4> QED
        BY <3>4, <3>5, <4>1
    <3> QED
      BY <3>2, <3>3, <3>5, <3>9 DEF Best, In
  <2> QED
    BY <2>5, <2>6
<1> QED
  BY <1>4, <1>5

(* Where no valid setting stands behind a bad one, the blocks whose        *)
(* setting may be found are those of the outer-most valid settings, and    *)
(* the first setting of each is its first valid one.                       *)
Outermost(b, name) == /\ ValidSettings(b, name) # {}
                      /\ \A a \in Around(b) : ValidSettings(a, name) = {}

LEMMA ValidSettingsOf ==
    ASSUME TreeInv, NEW name, NEW b \in DOMAIN blocks
    PROVE  /\ Settings(b, name) \subseteq Nat
           /\ \A i : i \in ValidSettings(b, name) <=>
                    /\ i \in Settings(b, name)
                    /\ Fits(atoi(blocks[b][i].tokens[2]))
<1>1. b \in 1 .. Len(blocks)
  BY LenProperties DEF TreeInv, ParserType
<1>2. DOMAIN blocks[b] \subseteq Nat
  BY <1>1, StatementAt DEF TreeInv
<1>3. Settings(b, name) \subseteq Nat
  BY <1>2 DEF Settings
<1>4. \A i : InRange(blocks[b][i].tokens[2])
                <=> Fits(atoi(blocks[b][i].tokens[2]))
  BY SMT DEF InRange, Fits
<1> QED
  BY <1>3, <1>4 DEF ValidSettings

LEMMA PromiseMet ==
    ASSUME TreeInv, NEW name
    PROVE  AsPromised(name, Best(Seen(name), name))
<1> SUFFICES ASSUME ~Hidden(name)
             PROVE  Best(Seen(name), name) = Promised(name)
  BY DEF AsPromised
<1> DEFINE V(b)    == ValidSettings(b, name)
           S(b)    == Settings(b, name)
           Value(i, b) == atoi(blocks[b][i].tokens[2])
<1>0. DOMAIN blocks = 1 .. Len(blocks) /\ DOMAIN blocks \subseteq Nat
  BY LenProperties DEF TreeInv, ParserType
<1>1. \A b \in DOMAIN blocks : V(b) \subseteq S(b) /\ S(b) \subseteq Nat
  BY ValidSettingsOf
<1>2. \A b \in DOMAIN blocks : S(b) # {} =>
          /\ Min(S(b)) \in S(b)
          /\ \A i \in S(b) : Min(S(b)) <= i
          /\ Fits(FirstOf(b, name)) <=> Min(S(b)) \in V(b)
  <2> SUFFICES ASSUME NEW b \in DOMAIN blocks, S(b) # {}
               PROVE  /\ Min(S(b)) \in S(b)
                      /\ \A i \in S(b) : Min(S(b)) <= i
                      /\ Fits(FirstOf(b, name)) <=> Min(S(b)) \in V(b)
    OBVIOUS
  <2>1. Min(S(b)) \in S(b) /\ \A i \in S(b) : Min(S(b)) <= i
    BY <1>1, MinLeast
  <2> QED
    BY <2>1, ValidSettingsOf DEF FirstOf
<1>3. \A b \in DOMAIN blocks : Around(b) \subseteq DOMAIN blocks
  <2> SUFFICES ASSUME NEW b \in DOMAIN blocks, NEW a \in Around(b)
               PROVE  a \in DOMAIN blocks
    OBVIOUS
  <2>1. PICK c \in 2 .. b : a = Parent(c)
    BY <1>0, AroundOf
  <2>2. c \in 2 .. Len(blocks)
    BY <1>0
  <2>3. a \in 1 .. c - 1
    BY <2>1, <2>2, ParentOf
  <2> QED
    BY <1>0, <2>2, <2>3
<1>4. \A b, c \in DOMAIN blocks :
          (c = b \/ b \in Around(c)) /\ V(c) # {} /\ S(b) # {}
              => Min(S(b)) \in V(b)
  BY DEF Hidden
<1>5. ASSUME NEW b \in DOMAIN blocks
      PROVE  Findable(b, name) <=> Outermost(b, name)
  <2>1. ASSUME Findable(b, name) PROVE Outermost(b, name)
    BY <1>1, <1>2, <1>3, <2>1 DEF Findable, Clear, Outermost
  <2>2. ASSUME Outermost(b, name) PROVE Findable(b, name)
    <3>1. S(b) # {} /\ Min(S(b)) \in V(b)
      BY <1>1, <1>4, <2>2 DEF Outermost
    <3>2. \A a \in Around(b) : S(a) = {}
      BY <1>3, <1>4, <2>2 DEF Outermost
    <3> QED
      BY <1>2, <3>1, <3>2 DEF Findable, Clear
  <2> QED
    BY <2>1, <2>2
<1>6. ASSUME NEW b \in DOMAIN blocks, Outermost(b, name)
      PROVE  Min(V(b)) = Min(S(b))
  <2>1. S(b) # {} /\ Min(S(b)) \in V(b) /\ V(b) \subseteq Nat
    BY <1>1, <1>4, <1>6 DEF Outermost
  <2>2. Min(V(b)) \in V(b) /\ \A i \in V(b) : Min(V(b)) <= i
    BY <2>1, MinLeast
  <2>3. Min(S(b)) <= Min(V(b)) /\ Min(V(b)) <= Min(S(b))
    BY <1>1, <1>2, <2>1, <2>2
  <2> HIDE DEF V, S
  <2>4. Min(V(b)) \in Nat /\ Min(S(b)) \in Nat
    BY <2>1, <2>2
  <2> QED
    BY <2>3, <2>4
<1>7. Seen(name) = {b \in DOMAIN blocks : Outermost(b, name)}
  BY <1>5 DEF Seen
<1>8. Promised(name) =
          IF Seen(name) = {} THEN -1
          ELSE Value(Min(V(Min(Seen(name)))), Min(Seen(name)))
  BY <1>7, SMT DEF Promised, Outermost
<1>9. CASE Seen(name) = {}
  BY <1>8, <1>9 DEF Best
<1>10. CASE Seen(name) # {}
  <2>1. Min(Seen(name)) \in Seen(name)
    BY <1>0, <1>10, SeenOf, MinLeast
  <2>2. Min(V(Min(Seen(name)))) = Min(S(Min(Seen(name))))
    BY <1>6, <1>7, <2>1
  <2> QED
    BY <1>8, <1>10, <2>2 DEF Best, FirstOf
<1> QED
  BY <1>9, <1>10

(* So the query returns what its comment promises, for every tree in which *)
(* no valid setting stands behind a bad one.                               *)
LEMMA SettingFound ==
    ASSUME TreeInv, NEW name
    PROVE  /\ AsPromised(name, FindSetting(name))
           /\ FindSetting(name) = -1 \/ Fits(FindSetting(name))
<1> DEFINE n == Len(blocks)
           find == CHOOSE f : f = [b \in DOMAIN blocks |-> Found(f, b, name)]
           Right(b) == Clear(b, name) =>
                          find[b] = Best(Seen(name) \cap Under(b), name)
           Good == {k \in Nat : \A b \in 1 .. n : b + k > n => Right(b)}
<1>0. n \in Nat /\ DOMAIN blocks = 1 .. n /\ 1 \in 1 .. n
  BY LenProperties DEF TreeInv, ParserType
<1>1. FindSetting(name) = find[1]
  BY DEF FindSetting, Found, Subs, FirstOf
<1>2. find = [b \in DOMAIN blocks |-> Found(find, b, name)]
  BY FindExists
<1> HIDE DEF find
<1>3. \A b \in 1 .. n : find[b] = Found(find, b, name)
  BY <1>0, <1>2
<1>4. 0 \in Good
  <2>1. \A b \in 1 .. n : ~ (b + 0 > n)
    BY <1>0
  <2> QED
    BY <2>1
<1>5. ASSUME NEW k \in Nat, k \in Good
      PROVE  k + 1 \in Good
  <2>1. ASSUME NEW b \in 1 .. n, b + (k + 1) > n, Clear(b, name)
        PROVE  find[b] = Best(Seen(name) \cap Under(b), name)
    <3>1. ASSUME NEW i, NEW c, Link(b, i, c), Settings(b, name) = {}
          PROVE  find[c] = Best(Seen(name) \cap Under(c), name)
      <4>1. c \in 1 .. n /\ b < c /\ Around(c) = {b} \cup Around(b)
        BY <3>1, UnderChild
      <4>2. c + k > n
        BY <1>0, <2>1, <4>1
      <4>3. Clear(c, name)
        BY <2>1, <3>1, <4>1 DEF Clear
      <4>4. Right(c)
        <5> HIDE DEF Right
        <5> QED
          BY <1>5, <4>1, <4>2
      <4> QED
        BY <4>3, <4>4
    <3> QED
      BY <1>3, <2>1, <3>1, FoundBest
  <2>2. \A b \in 1 .. n : b + (k + 1) > n => Right(b)
    BY <2>1
  <2> HIDE DEF Right
  <2> QED
    BY <2>2
<1>6. n \in Good
  <2> HIDE DEF Good
  <2> QED
    BY <1>0, <1>4, <1>5, SetInduction
<1>7. Right(1)
  <2>1. 1 + n > n
    BY <1>0
  <2> HIDE DEF Right
  <2> QED
    BY <1>0, <1>6, <2>1
<1>8. find[1] = Best(Seen(name), name)
  <2>1. Clear(1, name)
    BY AroundParent DEF Clear
  <2>2. Seen(name) \cap Under(1) = Seen(name)
    BY <1>0, UnderOne, SeenOf
  <2> QED
    BY <1>7, <2>1, <2>2
<1>9. AsPromised(name, find[1])
  BY <1>8, PromiseMet
<1>10. find[1] = -1 \/ Fits(find[1])
  <2>1. CASE Seen(name) = {}
    BY <1>8, <2>1 DEF Best
  <2>2. CASE Seen(name) # {}
    <3>1. Seen(name) \subseteq Nat
      BY <1>0, SeenOf
    <3>2. Min(Seen(name)) \in Seen(name)
      BY <2>2, <3>1, MinLeast
    <3>3. Fits(FirstOf(Min(Seen(name)), name))
      BY <3>2, SeenOf DEF Findable
    <3> QED
      BY <1>8, <2>2, <3>3 DEF Best
  <2> QED
    BY <2>1, <2>2
<1> QED
  BY <1>1, <1>9, <1>10

(* What main has read, and what it left for.                               *)
MainInv ==
    /\ phase \in {"time", "credentials", "listen", "running"} =>
          port = get_config_port /\ port # -1
    /\ phase \in {"credentials", "listen", "running"} =>
          authTime = Short(get_auth_time)
    /\ phase = "running" => endpoint = ListenOn(port)
    /\ phase = "exited" /\ exitCode = -1 /\ result = "accepted" =>
          get_config_port = -1 \/ Short(get_auth_time) = -1

LEMMA MainStep == MainInv /\ [Next]_allVars => MainInv'
<1> SUFFICES ASSUME MainInv, [Next]_allVars PROVE MainInv'
  OBVIOUS
<1> DEFINE p == get_config_port
           t == Short(get_auth_time)
<1>1. ASSUME UNCHANGED blocks PROVE p' = p /\ t' = t
  BY <1>1, SMT DEF get_config_port, get_auth_time, FindSetting, Settings,
                   Valid16, atoi, Named, Short
<1>2. CASE CheckArguments
  BY <1>2 DEF CheckArguments, Exit, MainInv
<1>3. CASE ParseConfig
  BY <1>3 DEF ParseConfig, mainVars, MainInv
<1>4. CASE CheckPort
  <2>1. UNCHANGED <<blocks, result>>
    BY <1>4 DEF CheckPort, Exit, parseVars, treeVars
  <2>2. \/ /\ phase' = "exited"
           /\ result = "rejected" \/ p = -1
        \/ phase' = "time" /\ port' = p /\ p # -1
    BY <1>4 DEF CheckPort, Exit
  <2> HIDE DEF p, t
  <2> QED
    BY <1>1, <2>1, <2>2 DEF MainInv, p, t
<1>5. CASE CheckTime
  <2>1. UNCHANGED <<blocks, result, port>> /\ phase = "time"
    BY <1>5 DEF CheckTime, Exit, parseVars, treeVars
  <2>2. \/ phase' = "exited" /\ t = -1
        \/ phase' = "credentials" /\ authTime' = t
    BY <1>5 DEF CheckTime, Exit
  <2> HIDE DEF p, t
  <2> QED
    BY <1>1, <2>1, <2>2 DEF MainInv, p, t
<1>6. CASE ReadCredentials
  <2>1. UNCHANGED <<blocks, result, port, authTime>> /\ phase = "credentials"
    BY <1>6 DEF ReadCredentials, Crash, parseVars, treeVars
  <2>2. phase' \in {"crashed", "listen"}
    BY <1>6 DEF ReadCredentials, Crash
  <2> HIDE DEF p, t
  <2> QED
    BY <1>1, <2>1, <2>2 DEF MainInv, p, t
<1>7. CASE BuildServer
  <2>1. UNCHANGED <<blocks, result, port, authTime>> /\ phase = "listen"
    BY <1>7 DEF BuildServer, Exit, Crash, parseVars, treeVars
  <2>2. \/ phase' = "exited" /\ exitCode' = 0
        \/ phase' = "crashed"
        \/ phase' = "running" /\ endpoint' = ListenOn(port)
    BY <1>7 DEF BuildServer, Exit, Crash
  <2>3. ListenOn(port)' = ListenOn(port)
    BY <2>1, SMT DEF ListenOn, Unsigned, Short
  <2> HIDE DEF p, t
  <2> QED
    BY <1>1, <2>1, <2>2, <2>3 DEF MainInv, p, t
<1>8. CASE UNCHANGED <<parseVars, mainVars>>
  <2>1. UNCHANGED <<blocks, result, phase, exitCode, port, authTime, endpoint>>
    BY <1>8 DEF parseVars, treeVars, mainVars
  <2>2. ListenOn(port)' = ListenOn(port)
    BY <2>1, SMT DEF ListenOn, Unsigned, Short
  <2> HIDE DEF p, t
  <2> QED
    BY <1>1, <2>1, <2>2 DEF MainInv, p, t
<1>9. \/ Start
       \/ UNCHANGED <<parseVars, mainVars>>
  BY DEF Next, authenticate, base64_decode, Decide, allVars
<1> QED
  BY <1>2, <1>3, <1>4, <1>5, <1>6, <1>7, <1>8, <1>9 DEF Start

(* A port is listened on as it was read, and a time is kept if it fits.    *)
LEMMA PortKept == \A n : Fits(n) => ListenOn(n) = n
<1> SUFFICES ASSUME NEW n \in Int, 0 <= n, n < 65536
             PROVE  ListenOn(n) = n
  BY FitsOf, SMT
<1>1. CASE n < 32768
  <2>1. Short(n) = n
    BY <1>1, SMT DEF Short
  <2>2. Unsigned(n) = n
    BY <1>1, SMT DEF Unsigned
  <2> QED
    BY <2>1, <2>2, SMT DEF ListenOn
<1>2. CASE n >= 32768
  <2>1. Short(n) = n - 65536
    BY <1>2, SMT DEF Short
  <2>2. Unsigned(n - 65536) = n
    BY <1>2, SMT DEF Unsigned
  <2> QED
    BY <2>1, <2>2, SMT DEF ListenOn
<1> QED
  BY <1>1, <1>2, SMT

LEMMA TimeKept == \A n : n = -1 \/ Fits(n) =>
                      /\ Short(n) >= 0 => Short(n) = n
                      /\ Short(n) = -1 => n = -1 \/ n = 65535
<1> SUFFICES ASSUME NEW n \in Int, -1 <= n, n < 65536
             PROVE  /\ Short(n) >= 0 => Short(n) = n
                    /\ Short(n) = -1 => n = -1 \/ n = 65535
  BY FitsOf, SMT
<1>1. CASE n < 32768
  <2>1. Short(n) = n
    BY <1>1, SMT DEF Short
  <2> QED
    BY <2>1, SMT
<1>2. CASE n >= 32768
  <2>1. Short(n) = n - 65536
    BY <1>2, SMT DEF Short
  <2> QED
    BY <2>1, SMT
<1> QED
  BY <1>1, <1>2, SMT

(* The server listens on the port that the comments of the queries promise *)
(* for the whole file, though it is a short in between, and times sessions *)
(* out after the time they promise, if that fits a short; it refuses a     *)
(* good configuration only if a setting is missing or its short is the     *)
(* error value (SettingsArrive).  Of a name with a valid setting behind a  *)
(* bad one nothing is said: there the promise is broken.                   *)
THEOREM Arrival == Spec => []SettingsArrive
<1>1. Init => MainInv
  BY DEF Init, StartInit, MainInv
<1>2. TreeInv /\ MainInv => SettingsArrive
  <2> SUFFICES ASSUME TreeInv, MainInv PROVE SettingsArrive
    OBVIOUS
  <2> DEFINE p == get_config_port
             t == get_auth_time
  <2>1. /\ AsPromised("port", p) /\ (p = -1 \/ Fits(p))
        /\ AsPromised("timer", t) /\ (t = -1 \/ Fits(t))
    BY SettingFound DEF get_config_port, get_auth_time
  <2>2. phase = "running" => endpoint = p
    BY <2>1, PortKept DEF MainInv
  <2>3. phase = "running" /\ authTime >= 0 => authTime = t
    BY <2>1, TimeKept DEF MainInv
  <2>4. phase = "exited" /\ exitCode = -1 /\ result = "accepted" =>
            p = -1 \/ t = -1 \/ t = 65535
    BY <2>1, TimeKept, SMT DEF MainInv
  <2> HIDE DEF p, t
  <2> QED
    BY <2>1, <2>2, <2>3, <2>4, SMT DEF SettingsArrive
<1> QED
  BY <1>1, <1>2, MainStep, TreeInvHolds, PTL DEF Spec

-----------------------------------------------------------------------------
(* No crash.                                                               *)

LEMMA ServerFound ==
    ASSUME TreeInv
    PROVE  \/ ServerStatement = NoStatement
           \/ \E i \in DOMAIN blocks[1] :
                 /\ ServerStatement = blocks[1][i]
                 /\ Named(blocks[1][i], "server")
                 /\ ChildOK(blocks[1][i], 1, Len(blocks))
<1> DEFINE is == {i \in DOMAIN blocks[1] : /\ Named(blocks[1][i], "server")
                                           /\ Len(blocks[1][i].tokens) = 1}
<1>1. ServerStatement = IF is = {} THEN NoStatement ELSE blocks[1][Min(is)]
  BY DEF ServerStatement
<1>2. 1 \in 1 .. Len(blocks)
  BY LenProperties DEF TreeInv, ParserType
<1>3. DOMAIN blocks[1] = 1 .. Len(blocks[1]) /\ is \subseteq Nat
  BY <1>2, StatementAt DEF TreeInv
<1>4. CASE is # {}
  <2>1. Min(is) \in is
    BY <1>3, <1>4, MinLeast
  <2>2. ChildOK(blocks[1][Min(is)], 1, Len(blocks))
    BY <1>2, <1>3, <2>1 DEF TreeInv, ChildrenLater
  <2> QED
    BY <1>1, <1>4, <2>1, <2>2
<1> QED
  BY <1>1, <1>4

(* What initRequestHandlers would trip over is a statement that is not     *)
(* well formed.                                                            *)
LEMMA UndefinedBad ==
    ASSUME TreeInv, Undefined
    PROVE  ~WellFormed
<1>1. 1 \in 1 .. Len(blocks) /\ Len(blocks) \in Nat
  BY LenProperties DEF TreeInv, ParserType
<1>2. DOMAIN blocks = 1 .. Len(blocks)
  BY <1>1, StatementAt DEF TreeInv
<1>3. CASE ServerStatement # NoStatement /\ ServerStatement.child = NoChild
  BY <1>1, <1>2, <1>3, ServerFound DEF WellFormed
<1>4. CASE \E s \in Locations : Len(s.tokens) < 3 \/ s.child = NoChild
  <2> DEFINE c == ServerStatement.child
  <2>1. PICK s \in Locations : Len(s.tokens) < 3 \/ s.child = NoChild
    BY <1>4
  <2>2. /\ c # NoChild /\ s \in Range(blocks[c])
        /\ Named(s, "location")
    BY <2>1 DEF Locations
  <2>3. c \in 1 .. Len(blocks)
    <3>1. ServerStatement # NoStatement
      BY <2>2 DEF NoStatement
    <3> QED
      BY <1>1, <2>2, <3>1, ServerFound DEF ChildOK
  <2>4. PICK i \in DOMAIN blocks[c] : s = blocks[c][i]
    BY <2>2 DEF Range
  <2>5. Len(s.tokens) = 3 => ~ (Len(s.tokens) < 3)
    OBVIOUS
  <2> QED
    BY <1>2, <2>1, <2>2, <2>3, <2>4, <2>5 DEF WellFormed
<1> QED
  BY <1>3, <1>4 DEF Undefined

(* A configuration in which every server, location and credentials         *)
(* statement has what it needs never crashes the program (NoCrash): what   *)
(* get_credentials and initRequestHandlers go through without a check is   *)
(* there in every tree the parser can build from such a file.              *)
THEOREM CrashFree == Spec => []NoCrash
<1>1. Init => NoCrash
  BY DEF Init, StartInit, NoCrash
<1>2. TreeInv /\ NoCrash /\ [Next]_allVars => NoCrash'
  <2> SUFFICES ASSUME TreeInv, NoCrash, [Next]_allVars, phase' = "crashed"
               PROVE  ~WellFormed'
    BY DEF NoCrash
  <2>1. \/ phase = "crashed" /\ UNCHANGED blocks
        \/ ReadCredentials /\ Crash
        \/ BuildServer /\ Undefined /\ Crash
    BY DEF Next, Start, CheckArguments, ParseConfig, CheckPort, CheckTime,
           ReadCredentials, BuildServer, Exit, authenticate, base64_decode,
           Decide, allVars, parseVars, treeVars, mainVars
  <2>2. UNCHANGED blocks
    BY <2>1 DEF Crash, parseVars, treeVars
  <2>3. ~WellFormed
    <3>1. CASE ReadCredentials /\ Crash
      <4>1. CredentialsStatement # NoStatement
            /\ CredentialsStatement.child = NoChild
        BY <3>1 DEF ReadCredentials, Crash
      <4>2. PICK b \in 1 .. Len(blocks) : \E i \in DOMAIN blocks[b] :
                    /\ CredentialsStatement = blocks[b][i]
                    /\ Named(blocks[b][i], "credentials")
        BY <4>1, CredentialsFound DEF TreeInv
      <4> QED
        BY <4>1, <4>2, StatementAt DEF WellFormed, TreeInv
    <3> QED
      BY <2>1, <3>1, UndefinedBad DEF NoCrash
  <2> QED
    BY <2>2, <2>3 DEF WellFormed, Named
<1> QED
  BY <1>1, <1>2, TreeInvHolds, PTL DEF Spec
=============================================================================
