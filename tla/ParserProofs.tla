---------------------------- MODULE ParserProofs ----------------------------
(***************************************************************************)
(* Proofs about ConfigParser as main runs it, for every file.              *)
(***************************************************************************)
EXTENDS Login, DataLemmas, SequenceTheorems, FiniteSetTheorems, TLAPS

-----------------------------------------------------------------------------
(* Types.                                                                  *)

Symbols   == DOMAIN Bytes
Words     == Seq(Symbols)
Kinds     == {"NORMAL", "STATEMENT_END", "START_BLOCK", "END_BLOCK"}
Token     == [type: Kinds, text: Words]
Statement == [tokens: Seq(Words) \ {<< >>}, child: Nat]
Block     == Seq(Statement)

ParserType ==
    /\ file \in Words
    /\ pos \in Nat \ {0}
    /\ value \in Words
    /\ token \in Kinds \cup {"none", "COMMENT", "EOF", "ERROR"}
    /\ last \in Kinds \cup {"START"}
    /\ blocks \in Seq(Block)
    /\ Len(blocks) >= 1
    /\ stack \in Seq(Nat)
    /\ \A i \in 1 .. Len(stack) : stack[i] \in 1 .. Len(blocks)
    /\ tokens \in Seq(Token)

(* ParseToken reads on, and leaves the tree alone.                         *)
LEMMA LexStep ==
    ASSUME ParserType, ParseToken
    PROVE  /\ UNCHANGED <<file, last, blocks, stack, tokens, result>>
           /\ result = "parsing" /\ token = "none"
           /\ pos' \in Nat \ {0}
           /\ value' \in Words
           /\ token' \in Kinds \cup {"none", "COMMENT", "EOF", "ERROR"}
<1>1. pos \in Nat \ {0} /\ value \in Words /\ token \in Kinds \cup {"none"}
  BY DEF ParserType, ParseToken, InitialWhitespace, InQuote, InEscape,
         InComment, InNormal, EndOfFile, Lexing
<1>2. Len(file) \in Nat
  BY LenProperties DEF ParserType, Words
<1>3. /\ More => Here \in Symbols
      /\ More => <<Here>> \in Words /\ Append(value, Here) \in Words
  <2>1. SUFFICES ASSUME More PROVE Here \in Symbols
    BY <1>1 DEF Words
  <2>2. pos \in 1 .. Len(file)
    BY <1>1, <1>2, <2>1 DEF More
  <2> QED
    BY <2>2, ElementOfSeq DEF ParserType, Words, Here
<1> DEFINE Goal == /\ UNCHANGED <<file, last, blocks, stack, tokens, result>>
                   /\ pos' \in Nat \ {0}
                   /\ value' \in Words
                   /\ token' \in Kinds \cup {"none", "COMMENT", "EOF", "ERROR"}
<1>4. ASSUME NEW s, NEW text \in Words, Proceed(s, text)
      PROVE  Goal
  BY <1>1, <1>4 DEF Proceed, treeVars
<1>5. ASSUME NEW text \in Words, NEW used \in {0, 1},
             NEW type \in Kinds \cup {"COMMENT", "EOF", "ERROR"},
             ReturnToken(type, text, used)
      PROVE  Goal
  BY <1>1, <1>5 DEF ReturnToken, treeVars
<1> HIDE DEF Goal
<1>6. ASSUME InitialWhitespace PROVE Goal
  <2>1. Here \in DOMAIN Punctuation => Punctuation[Here] \in Kinds
    BY DEF Punctuation, Kinds
  <2> QED
    BY <1>1, <1>3, <1>4, <1>5, <1>6, <2>1 DEF InitialWhitespace
<1>7. ASSUME InQuote PROVE Goal
  BY <1>1, <1>3, <1>4, <1>5, <1>7 DEF InQuote, Kinds
<1>8. ASSUME InEscape PROVE Goal
  BY <1>1, <1>3, <1>4, <1>8 DEF InEscape
<1>9. ASSUME InComment PROVE Goal
  BY <1>1, <1>3, <1>4, <1>5, <1>9 DEF InComment
<1>10. ASSUME InNormal PROVE Goal
  BY <1>1, <1>3, <1>4, <1>5, <1>10 DEF InNormal, Kinds
<1>11. ASSUME EndOfFile PROVE Goal
  BY <1>1, <1>5, <1>11 DEF EndOfFile
<1>12. Goal
  BY <1>6, <1>7, <1>8, <1>9, <1>10, <1>11 DEF ParseToken
<1>13. result = "parsing" /\ token = "none"
  BY DEF ParseToken, InitialWhitespace, InQuote, InEscape, InComment,
         InNormal, EndOfFile, Lexing
<1> QED
  BY <1>12, <1>13 DEF Goal

-----------------------------------------------------------------------------
(* The stack.  Beyond StackOK: the open blocks are numbered in the order   *)
(* they were opened, so that what is done to the top leaves the others as  *)
(* they are, and the stack is as it should be until Parse has returned.    *)

Linked ==
    \A i \in 1 .. Len(stack) - 1 :
        LET b == blocks[stack[i]]
        IN  b # << >> /\ b[Len(b)].child = stack[i + 1]

Ascending == \A i, j \in 1 .. Len(stack) : i < j => stack[i] < stack[j]

(* What there is in the top block after each kind of token.                *)
TopOK ==
    LET b == blocks[Top]
    IN  /\ last \in {"NORMAL", "STATEMENT_END"}
              => b # << >> /\ b[Len(b)].child = NoChild
        /\ last = "END_BLOCK" => b # << >> /\ b[Len(b)].child # NoChild
        /\ last \in {"START", "START_BLOCK"} => b = << >>

StackInv ==
    /\ result \in {"opening", "parsing", "accepted"} => stack # << >>
    /\ stack # << >> => /\ stack[1] = 1
                        /\ Ascending
                        /\ Linked
                        /\ TopOK

LEMMA StackLen ==
    ASSUME ParserType, stack # << >>
    PROVE  /\ Len(stack) \in Nat \ {0} /\ Len(stack) \in 1 .. Len(stack)
           /\ Len(blocks) \in Nat
           /\ Top \in 1 .. Len(blocks) /\ blocks[Top] \in Block
<1>1. Len(stack) \in Nat \ {0} /\ Len(blocks) \in Nat
  BY EmptySeq, LenProperties DEF ParserType
<1>2. Len(stack) \in 1 .. Len(stack)
  BY <1>1
<1>3. Top \in 1 .. Len(blocks)
  BY <1>2 DEF ParserType, Top
<1> QED
  BY <1>1, <1>2, <1>3, ElementOfSeq DEF ParserType

(* The blocks that are open around the top are not the top.                *)
LEMMA NotTop ==
    ASSUME ParserType, StackInv, stack # << >>
    PROVE  \A i \in 1 .. Len(stack) - 1 :
              stack[i] \in 1 .. Len(blocks) /\ stack[i] # Top
<1> SUFFICES ASSUME NEW i \in 1 .. Len(stack) - 1
             PROVE  stack[i] \in 1 .. Len(blocks) /\ stack[i] # Top
  OBVIOUS
<1>1. i \in 1 .. Len(stack) /\ i < Len(stack)
  BY StackLen
<1>2. stack[i] \in 1 .. Len(blocks) /\ stack[i] < Top
  BY <1>1, StackLen DEF ParserType, StackInv, Ascending, Top
<1> QED
  BY <1>2, StackLen

(* AddToken leaves a statement without a block at the end.                 *)
LEMMA AddTokenOK ==
    ASSUME NEW B \in Block, value \in Words,
           last = "NORMAL" => B # << >> /\ B[Len(B)].child = NoChild
    PROVE  /\ AddToken(B) \in Block
           /\ AddToken(B) # << >>
           /\ AddToken(B)[Len(AddToken(B))].child = NoChild
<1>1. CASE last # "NORMAL"
  <2> DEFINE s == NewStatement(value)
  <2>1. s \in Statement /\ s.child = NoChild
    BY DEF NewStatement, Statement, NoChild
  <2>2. AddToken(B) = Append(B, s)
    BY <1>1 DEF AddToken
  <2> HIDE DEF s
  <2>3. /\ Append(B, s) \in Block /\ Append(B, s) # << >>
        /\ Append(B, s)[Len(Append(B, s))] = s
    BY <2>1, AppendProperties DEF Block
  <2> QED
    BY <2>1, <2>2, <2>3
<1>2. CASE last = "NORMAL"
  <2> DEFINE n == Len(B)
             s == [B[n] EXCEPT !.tokens = Append(@, value)]
             C == [B EXCEPT ![n] = s]
  <2>1. n \in Nat \ {0} /\ n \in 1 .. n /\ B \in Seq(Statement)
    BY <1>2, EmptySeq DEF Block
  <2>2. B[n] \in Statement /\ B[n].child = NoChild
    BY <1>2, <2>1, ElementOfSeq
  <2>3. Append(B[n].tokens, value) \in Seq(Words) \ {<< >>}
    BY <2>2, AppendProperties DEF Statement
  <2>4. s \in Statement /\ s.child = NoChild
    BY <2>2, <2>3 DEF Statement
  <2>5. AddToken(B) = C
    BY <1>2, Zenon DEF AddToken
  <2> HIDE DEF s
  <2>6. C \in Seq(Statement) /\ Len(C) = n /\ C[n] = s
    BY <2>1, <2>4, ExceptSeq
  <2>7. C # << >>
    BY <2>1, <2>6
  <2> HIDE DEF C
  <2> QED
    BY <2>4, <2>5, <2>6, <2>7 DEF Block
<1> QED
  BY <1>1, <1>2

(* The part of the types that NextToken is about.                          *)
LEMMA NextTokenOK ==
    ASSUME ParserType, NextToken, token \in Kinds
    PROVE  /\ file' \in Words /\ pos' \in Nat \ {0} /\ value' \in Words
           /\ token' = "none" /\ last' = token
           /\ [type |-> token, text |-> value] \in Token
           /\ tokens' = Append(tokens, [type |-> token, text |-> value])
           /\ tokens' \in Seq(Token)
<1>1. [type |-> token, text |-> value] \in Token
  BY DEF ParserType, Token
<1>2. tokens' \in Seq(Token)
  BY <1>1, AppendProperties DEF ParserType, NextToken
<1>3. << >> \in Words
  BY EmptySeq DEF Words
<1> QED
  BY <1>1, <1>2, <1>3 DEF ParserType, NextToken

LEMMA NormalOK ==
    ASSUME ParserType, StackInv, Normal
    PROVE  ParserType' /\ StackInv'
<1> DEFINE B == AddToken(blocks[Top])
<1>1. /\ result = "parsing" /\ token = "NORMAL" /\ NextToken
      /\ blocks' = [blocks EXCEPT ![Top] = B] /\ UNCHANGED <<stack, result>>
  BY DEF Normal, Accepts
<1>2. stack # << >> /\ Ascending /\ Linked /\ TopOK /\ stack[1] = 1
  BY <1>1 DEF StackInv
<1>3. blocks[Top] \in Block
  BY <1>2, StackLen
<1>4. B \in Block /\ B # << >> /\ B[Len(B)].child = NoChild
  BY <1>2, <1>3, AddTokenOK DEF TopOK, ParserType
<1> HIDE DEF B
<1>5. /\ blocks' \in Seq(Block) /\ Len(blocks') = Len(blocks)
      /\ blocks'[Top] = B
      /\ \A i \in 1 .. Len(stack) - 1 : blocks'[stack[i]] = blocks[stack[i]]
  <2>1. blocks \in Seq(Block) /\ Top \in 1 .. Len(blocks)
    BY <1>2, StackLen DEF ParserType
  <2>2. /\ blocks' \in Seq(Block) /\ Len(blocks') = Len(blocks)
        /\ \A j \in 1 .. Len(blocks) :
              blocks'[j] = IF j = Top THEN B ELSE blocks[j]
    BY <1>1, <1>4, <2>1, ExceptSeq
  <2> QED
    BY <1>2, <2>1, <2>2, NotTop
<1>6. ParserType'
  BY <1>1, <1>5, NextTokenOK DEF ParserType, Kinds
<1>7. Ascending' /\ Linked'
  BY <1>1, <1>2, <1>5 DEF Ascending, Linked
<1>8. TopOK'
  <2>1. last' = "NORMAL" /\ blocks'[Top'] = B
    BY <1>1, <1>5, NextTokenOK DEF Kinds, Top
  <2> QED
    BY <1>4, <2>1 DEF TopOK, Top
<1> QED
  BY <1>1, <1>2, <1>6, <1>7, <1>8 DEF StackInv

LEMMA StatementEndOK ==
    ASSUME ParserType, StackInv, StatementEnd
    PROVE  ParserType' /\ StackInv'
<1>1. /\ result = "parsing" /\ token = "STATEMENT_END" /\ NextToken
      /\ last = "NORMAL" /\ UNCHANGED <<blocks, stack, result>>
  BY DEF StatementEnd, Accepts, After
<1>2. stack # << >> /\ Ascending /\ Linked /\ TopOK /\ stack[1] = 1
  BY <1>1 DEF StackInv
<1>3. last' = "STATEMENT_END"
  BY <1>1, NextTokenOK DEF Kinds
<1>4. ParserType'
  BY <1>1, NextTokenOK DEF ParserType, Kinds
<1>5. Ascending' /\ Linked' /\ TopOK'
  BY <1>1, <1>2, <1>3 DEF Ascending, Linked, TopOK, Top
<1> QED
  BY <1>1, <1>2, <1>4, <1>5 DEF StackInv

LEMMA StartBlockOK ==
    ASSUME ParserType, StackInv, StartBlock
    PROVE  ParserType' /\ StackInv'
<1> DEFINE n == Len(blocks)
           m == Len(stack)
           B == blocks[Top]
           s == [B[Len(B)] EXCEPT !.child = n + 1]
           C == [B EXCEPT ![Len(B)] = s]
           bs == [blocks EXCEPT ![Top] = C]
<1>1. /\ result = "parsing" /\ token = "START_BLOCK" /\ NextToken
      /\ last = "NORMAL" /\ UNCHANGED result
      /\ blocks' = Append(bs, << >>) /\ stack' = Append(stack, n + 1)
  BY DEF StartBlock, Accepts, After
<1>2. stack # << >> /\ Ascending /\ Linked /\ TopOK /\ stack[1] = 1
  BY <1>1 DEF StackInv
<1>3. /\ B \in Seq(Statement) /\ n \in Nat /\ n + 1 \in Nat /\ m \in Nat \ {0}
      /\ Top \in 1 .. n
  BY <1>2, StackLen DEF Block
<1>4. Len(B) \in 1 .. Len(B) /\ B # << >>
  <2>1. B # << >>
    BY <1>1, <1>2 DEF TopOK
  <2>2. Len(B) \in Nat \ {0}
    BY <1>3, <2>1, EmptySeq
  <2> QED
    BY <2>1, <2>2
<1>5. s \in Statement /\ s.child = n + 1
  <2>1. B[Len(B)] \in Statement
    BY <1>3, <1>4, ElementOfSeq
  <2> QED
    BY <1>3, <2>1 DEF Statement
<1> HIDE DEF s, n
<1>6. C \in Seq(Statement) /\ Len(C) = Len(B) /\ C[Len(B)] = s
  BY <1>3, <1>4, <1>5, ExceptSeq
<1>7. C # << >>
  BY <1>4, <1>6
<1> HIDE DEF C
<1>8. /\ bs \in Seq(Block) /\ Len(bs) = n /\ bs[Top] = C
      /\ \A i \in 1 .. m - 1 : bs[stack[i]] = blocks[stack[i]]
  <2>1. C \in Block /\ n = Len(blocks) /\ blocks \in Seq(Block)
    BY <1>6 DEF Block, n, ParserType
  <2>2. /\ bs \in Seq(Block) /\ Len(bs) = Len(blocks)
        /\ \A j \in 1 .. Len(blocks) :
              bs[j] = IF j = Top THEN C ELSE blocks[j]
    BY <1>3, <2>1, ExceptSeq
  <2> HIDE DEF bs
  <2> QED
    BY <1>2, <1>3, <2>1, <2>2, NotTop
<1> HIDE DEF bs, B
<1>9. /\ blocks' \in Seq(Block) /\ Len(blocks') = n + 1
      /\ \A i \in 1 .. n : blocks'[i] = bs[i]
      /\ blocks'[n + 1] = << >>
  <2>1. << >> \in Block
    BY EmptySeq DEF Block
  <2> QED
    BY <1>1, <1>8, <2>1, AppendProperties
<1>10. /\ stack' \in Seq(Nat) /\ Len(stack') = m + 1 /\ stack' # << >>
       /\ \A i \in 1 .. m : stack'[i] = stack[i]
       /\ stack'[m + 1] = n + 1
  <2>1. stack \in Seq(Nat)
    BY DEF ParserType
  <2> QED
    BY <1>1, <1>3, <2>1, AppendProperties
<1>11. \A i \in 1 .. m : stack[i] \in 1 .. n
  BY DEF ParserType, n
<1> HIDE DEF m
<1>12. ASSUME NEW i \in 1 .. m + 1
       PROVE  \/ i = m + 1 /\ stack'[i] = n + 1
              \/ i \in 1 .. m /\ stack'[i] = stack[i] /\ stack[i] \in 1 .. n
  BY <1>3, <1>10, <1>11
<1>13. ParserType'
  <2>1. \A i \in 1 .. Len(stack') : stack'[i] \in 1 .. Len(blocks')
    <3> SUFFICES ASSUME NEW i \in 1 .. m + 1
                 PROVE  stack'[i] \in 1 .. n + 1
      BY <1>9, <1>10
    <3> QED
      BY <1>3, <1>12
  <2>2. Len(blocks') >= 1
    BY <1>3, <1>9
  <2> QED
    BY <1>1, <1>9, <1>10, <2>1, <2>2, NextTokenOK DEF ParserType, Kinds
<1>14. Ascending'
  <2> SUFFICES ASSUME NEW i \in 1 .. m + 1, NEW j \in 1 .. m + 1, i < j
               PROVE  stack'[i] < stack'[j]
    BY <1>10 DEF Ascending
  <2>1. i \in 1 .. m /\ stack'[i] = stack[i] /\ stack[i] \in 1 .. n
    BY <1>3, <1>12
  <2>2. CASE j = m + 1
    BY <1>3, <1>10, <2>1, <2>2
  <2>3. CASE j \in 1 .. m
    BY <1>2, <1>10, <2>1, <2>3 DEF Ascending, m
  <2> QED
    BY <1>3, <2>2, <2>3
<1>15. Linked'
  <2> SUFFICES ASSUME NEW i \in 1 .. m
               PROVE  LET b == blocks'[stack'[i]]
                      IN  b # << >> /\ b[Len(b)].child = stack'[i + 1]
    BY <1>3, <1>10 DEF Linked
  <2>1. stack'[i] = stack[i] /\ stack[i] \in 1 .. n
    BY <1>10, <1>11
  <2>2. blocks'[stack'[i]] = bs[stack[i]]
    BY <1>9, <2>1
  <2>3. CASE i = m
    <3>1. stack[i] = Top /\ stack'[i + 1] = n + 1
      BY <1>10, <2>3 DEF Top, m
    <3> QED
      BY <1>5, <1>6, <1>7, <1>8, <2>2, <3>1
  <2>4. CASE i # m
    <3>1. i \in 1 .. m - 1 /\ i + 1 \in 1 .. m
      BY <1>3, <2>4
    <3>2. /\ bs[stack[i]] = blocks[stack[i]]
          /\ stack'[i + 1] = stack[i + 1]
      BY <1>8, <1>10, <3>1
    <3> QED
      BY <1>2, <2>2, <3>1, <3>2 DEF Linked, m
  <2> QED
    BY <2>3, <2>4
<1>16. TopOK'
  <2>1. last' = "START_BLOCK"
    BY <1>1, NextTokenOK DEF Kinds
  <2>2. blocks'[Top'] = << >>
    BY <1>9, <1>10 DEF Top
  <2> QED
    BY <2>1, <2>2 DEF TopOK, Top
<1>17. stack'[1] = 1
  <2>1. 1 \in 1 .. m
    BY <1>3
  <2> QED
    BY <1>2, <1>10, <2>1
<1> QED
  BY <1>10, <1>13, <1>14, <1>15, <1>16, <1>17 DEF StackInv

(* pop()                                                                   *)
LEMMA FrontOK ==
    ASSUME NEW s \in Seq(Nat), s # << >>
    PROVE  /\ Front(s) \in Seq(Nat) /\ Len(Front(s)) = Len(s) - 1
           /\ \A i \in 1 .. Len(s) - 1 : Front(s)[i] = s[i]
<1> DEFINE k == Len(s) - 1
           f == Front(s)
<1>1. k \in Nat /\ k \in Int /\ 1 \in Int /\ f = SubSeq(s, 1, k)
  BY EmptySeq DEF Front
<1>2. \A i \in 1 .. k : s[i] \in Nat
  BY ElementOfSeq, EmptySeq
<1> HIDE DEF k, f
<1>3. /\ f \in Seq(Nat)
      /\ Len(f) = IF 1 <= k THEN k - 1 + 1 ELSE 0
      /\ \A i \in 1 .. k - 1 + 1 : f[i] = s[1 + i - 1]
  BY <1>1, <1>2, SubSeqProperties
<1>4. Len(f) = k
  BY <1>1, <1>3
<1>5. ASSUME NEW i \in 1 .. k PROVE f[i] = s[i]
  <2>1. i \in 1 .. k - 1 + 1 /\ 1 + i - 1 = i
    BY <1>1
  <2> QED
    BY <1>3, <2>1
<1> QED
  BY <1>3, <1>4, <1>5 DEF k, f

LEMMA EndBlockOK ==
    ASSUME ParserType, StackInv, EndBlock
    PROVE  ParserType' /\ StackInv'
<1> DEFINE m == Len(stack)
<1>1. result = "parsing" /\ token = "END_BLOCK" /\ stack' = Front(stack)
  BY DEF EndBlock, Accepts
<1>2. stack # << >> /\ Ascending /\ Linked /\ TopOK /\ stack[1] = 1
  BY <1>1 DEF StackInv
<1>3. /\ m \in Nat \ {0} /\ stack \in Seq(Nat) /\ Len(blocks) \in Nat
      /\ \A i \in 1 .. m : stack[i] \in Nat /\ stack[i] \in 1 .. Len(blocks)
  BY <1>2, StackLen, ElementOfSeq DEF ParserType
<1>4. /\ stack' \in Seq(Nat) /\ Len(stack') = m - 1
      /\ \A i \in 1 .. m - 1 : stack'[i] = stack[i]
  BY <1>1, <1>2, <1>3, FrontOK
<1> HIDE DEF m
<1>5. UNCHANGED blocks
  BY DEF EndBlock
<1>6. ParserType'
  <2>1. \A i \in 1 .. Len(stack') : stack'[i] \in 1 .. Len(blocks')
    BY <1>3, <1>4, <1>5
  <2>2. CASE stack' = << >>
    <3>1. UNCHANGED <<file, pos, value, token, last, blocks, tokens>>
      BY <2>2 DEF EndBlock, lexVars
    <3> QED
      BY <1>4, <2>1, <3>1 DEF ParserType
  <2>3. CASE stack' # << >>
    <3>1. NextToken
      BY <2>3 DEF EndBlock
    <3> QED
      BY <1>1, <1>4, <1>5, <2>1, <3>1, NextTokenOK DEF ParserType, Kinds
  <2> QED
    BY <2>2, <2>3
<1>7. CASE stack' = << >>
  <2>1. result' = "rejected"
    BY <1>7 DEF EndBlock
  <2> QED
    BY <1>6, <1>7, <2>1 DEF StackInv
<1>8. CASE stack' # << >>
  <2>1. NextToken
    BY <1>8 DEF EndBlock
  <2>2. last' = "END_BLOCK"
    BY <1>1, <2>1, NextTokenOK DEF Kinds
  <2>3. m - 1 \in Nat \ {0}
    BY <1>4, <1>8, EmptySeq
  <2>4. /\ 1 \in 1 .. m - 1 /\ m - 1 \in 1 .. m - 1 /\ (m - 1) + 1 = m
        /\ 1 .. m - 1 \subseteq 1 .. m
    BY <1>3, <2>3
  <2>5. stack'[1] = 1
    BY <1>2, <1>4, <2>4
  <2>6. Ascending'
    <3> SUFFICES ASSUME NEW i \in 1 .. m - 1, NEW j \in 1 .. m - 1, i < j
                 PROVE  stack'[i] < stack'[j]
      BY <1>4 DEF Ascending
    <3>1. i \in 1 .. m /\ j \in 1 .. m
      BY <2>4
    <3> QED
      BY <1>2, <1>4, <3>1 DEF Ascending, m
  <2>7. Linked'
    <3> SUFFICES ASSUME NEW i \in 1 .. (m - 1) - 1
                 PROVE  LET b == blocks[stack'[i]]
                        IN  b # << >> /\ b[Len(b)].child = stack'[i + 1]
      BY <1>4, <1>5 DEF Linked
    <3>1. i \in 1 .. m - 1 /\ i + 1 \in 1 .. m - 1
      BY <1>3, <2>3
    <3> QED
      BY <1>2, <1>4, <3>1 DEF Linked, m
  <2>8. TopOK'
    <3>1. stack'[Len(stack')] = stack[m - 1] /\ stack[m] \in 1 .. Len(blocks)
      BY <1>3, <1>4, <2>4
    <3>2. LET b == blocks[stack[m - 1]]
          IN  b # << >> /\ b[Len(b)].child = stack[m]
      BY <1>2, <2>4 DEF Linked, m
    <3>3. stack[m] # NoChild
      BY <1>3, <3>1 DEF NoChild
    <3> QED
      BY <1>5, <2>2, <3>1, <3>2, <3>3 DEF TopOK, Top
  <2> QED
    BY <1>6, <1>8, <2>5, <2>6, <2>7, <2>8 DEF StackInv
<1> QED
  BY <1>7, <1>8

(* The steps that leave the tree alone.                                    *)
LEMMA TreeStays ==
    ASSUME ParserType, StackInv, UNCHANGED <<last, blocks, stack>>,
           result' \in {"opening", "parsing", "accepted"} => stack # << >>
    PROVE  StackInv'
<1>1. stack # << >> => Ascending' /\ Linked' /\ TopOK'
  BY DEF StackInv, Ascending, Linked, TopOK, Top
<1> QED
  BY <1>1 DEF StackInv

LEMMA StackStep == ParserType /\ StackInv /\ [Parse]_parseVars
                     => ParserType' /\ StackInv'
<1> SUFFICES ASSUME ParserType, StackInv, [Parse]_parseVars
             PROVE  ParserType' /\ StackInv'
  OBVIOUS
<1>1. CASE ParseToken
  <2>1. ParserType'
    BY <1>1, LexStep DEF ParserType
  <2> QED
    BY <1>1, <2>1, LexStep, TreeStays DEF StackInv
<1>2. CASE Open \/ Eof \/ BadTransition
  <2>1. /\ UNCHANGED <<file, pos, value, token, last, blocks, stack, tokens>>
        /\ result \in {"opening", "parsing"}
    BY <1>2 DEF Open, Eof, BadTransition, Accepts, lexVars, treeVars
  <2>2. ParserType'
    BY <2>1 DEF ParserType
  <2> QED
    BY <2>1, <2>2, TreeStays DEF StackInv
<1>3. CASE SkipComment
  <2>1. /\ UNCHANGED <<file, pos, last, blocks, stack, tokens, result>>
        /\ token' = "none" /\ value' = << >>
    BY <1>3 DEF SkipComment, treeVars
  <2>2. << >> \in Words
    BY EmptySeq DEF Words
  <2>3. ParserType'
    BY <2>1, <2>2 DEF ParserType
  <2> QED
    BY <2>1, <2>3, TreeStays DEF StackInv
<1>4. CASE UNCHANGED parseVars
  <2>1. UNCHANGED <<file, pos, value, token, last, blocks, stack, tokens,
                    result>>
    BY <1>4 DEF parseVars, lexVars, treeVars
  <2>2. ParserType'
    BY <2>1 DEF ParserType
  <2> QED
    BY <2>1, <2>2, TreeStays DEF StackInv
<1> QED
  BY <1>1, <1>2, <1>3, <1>4, NormalOK, StatementEndOK, StartBlockOK,
     EndBlockOK DEF Parse

(* Every step of the whole system is one of the parser or none for it.     *)
LEMMA ParserSteps == [Next]_allVars => [Parse]_parseVars
BY DEF Next, Start, CheckArguments, ParseConfig, CheckPort, CheckTime,
       ReadCredentials, BuildServer, Exit, Crash, authenticate, base64_decode,
       Decide, allVars

LEMMA ParserStarts == Init => ParserType /\ StackInv
<1> SUFFICES ASSUME Init PROVE ParserType /\ StackInv
  OBVIOUS
<1>1. /\ file \in Files /\ pos = 1 /\ value = << >> /\ token = "none"
      /\ last = "START" /\ blocks = << << >> >> /\ stack = <<1>>
      /\ result = "opening" /\ tokens = << >>
  BY DEF Init, StartInit, ParserInit
<1>2. file \in Words /\ value \in Words /\ tokens \in Seq(Token)
  BY <1>1, SymbolsAssumption, EmptySeq DEF Words, Symbols
<1>3. blocks \in Seq(Block) /\ Len(blocks) = 1 /\ blocks[1] = << >>
  <2>1. << >> \in Block
    BY EmptySeq DEF Block
  <2> QED
    BY <1>1, <2>1
<1>4. stack \in Seq(Nat) /\ Len(stack) = 1 /\ stack[1] = 1 /\ stack # << >>
  BY <1>1
<1>5. ParserType
  BY <1>1, <1>2, <1>3, <1>4 DEF ParserType
<1>6. Ascending /\ Linked /\ TopOK
  BY <1>1, <1>3, <1>4 DEF Ascending, Linked, TopOK, Top
<1> QED
  BY <1>4, <1>5, <1>6 DEF StackInv

(* The stack is in order in every state of the program, for every file.    *)
THEOREM StackInvHolds == Spec => [](ParserType /\ StackInv)
BY ParserStarts, ParserSteps, StackStep, PTL DEF Spec

(* statements_.back(), child_block_.reset() and config_stack.top() are     *)
(* only used where there is something to use (StackOK), for every file.    *)
THEOREM StackSafe == Spec => []StackOK
<1>1. ParserType /\ StackInv => StackOK
  <2> SUFFICES ASSUME ParserType, StackInv, result = "parsing"
               PROVE  StackOK
    BY DEF StackOK
  <2>1. stack # << >> /\ stack[1] = 1 /\ Linked /\ TopOK
    BY DEF StackInv
  <2>2. ASSUME NEW b \in DOMAIN blocks, NEW i \in DOMAIN blocks[b]
        PROVE  blocks[b][i].tokens # << >>
    <3>1. blocks[b] \in Seq(Statement)
      BY LenProperties, ElementOfSeq DEF ParserType, Block
    <3>2. blocks[b][i] \in Statement
      BY <3>1, LenProperties, ElementOfSeq
    <3> QED
      BY <3>2 DEF Statement
  <2>3. LET b == blocks[Top]
        IN  CASE last = "NORMAL" -> b # << >> /\ b[Len(b)].child = NoChild
              [] last = "END_BLOCK" ->
                     b # << >> /\ b[Len(b)].child # NoChild
              [] last = "STATEMENT_END" ->
                     b # << >> /\ b[Len(b)].child = NoChild
              [] OTHER -> b = << >>
    BY <2>1 DEF TopOK, ParserType, Kinds
  <2> QED
    BY <2>1, <2>2, <2>3 DEF StackOK, Linked
<1> QED
  BY <1>1, StackInvHolds, PTL

-----------------------------------------------------------------------------
(* The grammar.                                                            *)

LEMMA CountOK ==
    ASSUME NEW t, NEW type, NEW n \in Nat
    PROVE  /\ Count(t, type, n) \in Nat
           /\ t[n + 1].type = type
                => Count(t, type, n + 1) = Count(t, type, n) + 1
           /\ t[n + 1].type # type => Count(t, type, n + 1) = Count(t, type, n)
           /\ Count(t, type, 0) = 0
<1> DEFINE C(k) == {i \in 1 .. k : t[i].type = type}
<1>1. IsFiniteSet(C(n)) /\ Cardinality(C(n)) \in Nat
  <2>1. IsFiniteSet(1 .. n) /\ C(n) \subseteq 1 .. n
    BY FS_Interval
  <2> QED
    BY <2>1, FS_Subset, FS_CardinalityType
<1>2. C(0) = {}
  OBVIOUS
<1>3. Cardinality(C(0)) = 0
  BY <1>2, FS_EmptySet
<1>4. CASE t[n + 1].type = type
  <2>1. C(n + 1) = C(n) \cup {n + 1} /\ n + 1 \notin C(n)
    BY <1>4
  <2> HIDE DEF C
  <2>2. Cardinality(C(n + 1)) = Cardinality(C(n)) + 1
    BY <1>1, <2>1, FS_AddElement
  <2> QED
    BY <1>1, <1>3, <1>4, <2>2 DEF Count, C
<1>5. CASE t[n + 1].type # type
  <2>1. C(n + 1) = C(n)
    BY <1>5
  <2> HIDE DEF C
  <2>2. Cardinality(C(n + 1)) = Cardinality(C(n))
    BY <1>1, <2>1
  <2> QED
    BY <1>1, <1>3, <1>5, <2>2 DEF Count, C
<1> QED
  BY <1>4, <1>5

(* Counting stops before what is appended.                                 *)
LEMMA CountAppended ==
    ASSUME NEW t \in Seq(Token), NEW x \in Token, NEW type,
           NEW n \in 0 .. Len(t)
    PROVE  Count(Append(t, x), type, n) = Count(t, type, n)
<1>1. \A i \in 1 .. Len(t) : Append(t, x)[i] = t[i]
  BY AppendProperties
<1>2. Len(t) \in Nat
  BY LenProperties
<1>3. \A i \in 1 .. n : Append(t, x)[i] = t[i]
  BY <1>1, <1>2
<1> QED
  BY <1>3 DEF Count

(* One token more.                                                         *)
LEMMA CountNext ==
    ASSUME NEW t \in Seq(Token), NEW x \in Token, NEW type
    PROVE  /\ Count(t, type, Len(t)) \in Nat
           /\ Count(Append(t, x), type, Len(Append(t, x)))
                = Count(t, type, Len(t)) + IF x.type = type THEN 1 ELSE 0
<1> DEFINE u == Append(t, x)
           n == Len(t)
<1>1. Len(u) = n + 1 /\ u[n + 1] = x /\ n \in Nat /\ n \in 0 .. n
  BY AppendProperties, LenProperties
<1>2. Count(u, type, n) = Count(t, type, n)
  BY <1>1, CountAppended
<1> HIDE DEF u, n
<1>3. Count(u, type, n + 1) = Count(u, type, n)
                                + IF u[n + 1].type = type THEN 1 ELSE 0
  BY <1>1, CountOK
<1>4. Count(t, type, n) \in Nat
  BY <1>1, CountOK
<1> QED
  BY <1>1, <1>2, <1>3, <1>4 DEF u, n

(* What follows the last token of the beginning of a configuration.        *)
Follows(t, x) ==
    /\ x.type = "END_BLOCK" =>
          /\ t # << >> /\ t[Len(t)].type # "NORMAL"
          /\ Count(t, "END_BLOCK", Len(t)) < Count(t, "START_BLOCK", Len(t))
    /\ x.type \in {"STATEMENT_END", "START_BLOCK"} =>
          t # << >> /\ t[Len(t)].type = "NORMAL"

(* It is what Begins asks of the last token.                               *)
LEMMA BeginsNext ==
    ASSUME NEW t \in Seq(Token), NEW x \in Token, Begins(t)
    PROVE  Begins(Append(t, x)) <=> Follows(t, x)
<1> DEFINE u == Append(t, x)
           n == Len(t)
           E(s, k) == Count(s, "END_BLOCK", k)
           B(s, k) == Count(s, "START_BLOCK", k)
           Place(s, i) == /\ s[i].type = "END_BLOCK"
                                => i > 1 /\ s[i - 1].type # "NORMAL"
                          /\ s[i].type \in {"STATEMENT_END", "START_BLOCK"}
                                => i > 1 /\ s[i - 1].type = "NORMAL"
<1>1. /\ Len(u) = n + 1 /\ u[n + 1] = x /\ n \in Nat
      /\ \A i \in 1 .. n : u[i] = t[i]
      /\ DOMAIN u = 1 .. n + 1 /\ DOMAIN t = 1 .. n
      /\ n = 0 <=> t = << >>
  BY AppendProperties, LenProperties, EmptySeq
<1>2. \A k \in 1 .. n : E(u, k) = E(t, k) /\ B(u, k) = B(t, k)
  <2>1. 1 .. n \subseteq 0 .. n
    BY <1>1
  <2> QED
    BY <2>1, CountAppended
<1>3. /\ E(u, n + 1) = E(t, n) + IF x.type = "END_BLOCK" THEN 1 ELSE 0
      /\ B(u, n + 1) = B(t, n) + IF x.type = "START_BLOCK" THEN 1 ELSE 0
      /\ E(t, n) \in Nat /\ B(t, n) \in Nat
  BY <1>1, CountNext
<1>4. /\ Begins(u) <=> /\ \A i \in 1 .. n + 1 : Place(u, i)
                       /\ \A k \in 1 .. n + 1 : E(u, k) =< B(u, k)
      /\ \A i \in 1 .. n : Place(t, i)
      /\ \A k \in 1 .. n : E(t, k) =< B(t, k)
  BY <1>1, Zenon DEF Begins
<1>5. E(t, n) =< B(t, n)
  <2>1. CASE n = 0
    BY <2>1, CountOK
  <2>2. CASE n # 0
    <3>1. n \in 1 .. n
      BY <1>1, <2>2
    <3> QED
      BY <1>4, <3>1
  <2> QED
    BY <2>1, <2>2
<1>6. \A i \in 1 .. n : Place(u, i)
  <2> SUFFICES ASSUME NEW i \in 1 .. n PROVE Place(u, i)
    OBVIOUS
  <2>1. u[i] = t[i] /\ (i > 1 => u[i - 1] = t[i - 1])
    BY <1>1
  <2> HIDE DEF u
  <2> QED
    BY <1>4, <2>1
<1> HIDE DEF E, B
<1>7. Begins(u) <=> Place(u, n + 1) /\ E(u, n + 1) =< B(u, n + 1)
  <2>1. 1 .. n + 1 = (1 .. n) \cup {n + 1}
    BY <1>1
  <2> HIDE DEF u, Place
  <2> QED
    BY <1>2, <1>4, <1>6, <2>1
<1>8. Place(u, n + 1) <=>
        /\ x.type = "END_BLOCK" => n # 0 /\ t[n].type # "NORMAL"
        /\ x.type \in {"STATEMENT_END", "START_BLOCK"}
              => n # 0 /\ t[n].type = "NORMAL"
  <2>1. (n + 1) - 1 = n /\ (n + 1 > 1 <=> n # 0) /\ (n # 0 => n \in 1 .. n)
    BY <1>1
  <2>2. n # 0 => u[n] = t[n]
    BY <1>1, <2>1
  <2> HIDE DEF u, n
  <2> QED
    BY <1>1, <2>1, <2>2
<1>9. E(u, n + 1) =< B(u, n + 1) <=> (x.type = "END_BLOCK" => E(t, n) < B(t, n))
  BY <1>3, <1>5
<1> HIDE DEF u, n, Place
<1>10. Begins(u) <=> Follows(t, x)
  BY <1>1, <1>7, <1>8, <1>9 DEF Follows, E, B, n
<1> QED
  BY <1>10 DEF u

(* The blocks that are open, by the tokens.                                *)
Closed(t) == Count(t, "END_BLOCK", Len(t))
Opened(t) == Count(t, "START_BLOCK", Len(t))

(* What Parse acted on may begin a configuration, last is the type of the  *)
(* last token, the stack holds the blocks that are open, and Parse returns *)
(* false only for a token that may not follow.                             *)
GrammarInv ==
    /\ Begins(tokens)
    /\ last = IF tokens = << >> THEN "START" ELSE tokens[Len(tokens)].type
    /\ stack # << >> => Opened(tokens) = Closed(tokens) + (Len(stack) - 1)
    /\ last = "START_BLOCK" => Len(stack) > 1
    /\ stack = << >> => /\ result = "rejected" /\ token = "END_BLOCK"
                        /\ Opened(tokens) = Closed(tokens)
    /\ result = "opening" => token = "none"
    /\ result = "accepted" => /\ token = "EOF" /\ last \in After["EOF"]
                              /\ Len(stack) = 1
    /\ result = "rejected" => \/ token = "none" \/ stack = << >>
                              \/ token = "EOF" /\ Len(stack) > 1
                              \/ /\ token \in DOMAIN After
                                 /\ last \notin After[token]

LEMMA LastToken ==
    ASSUME NEW t \in Seq(Token), NEW x \in Token
    PROVE  Append(t, x) # << >> /\ Append(t, x)[Len(Append(t, x))] = x
BY AppendProperties

LEMMA GrammarStep ==
    ParserType /\ StackInv /\ GrammarInv /\ [Parse]_parseVars => GrammarInv'
<1> SUFFICES ASSUME ParserType, StackInv, GrammarInv, [Parse]_parseVars
             PROVE  GrammarInv'
  OBVIOUS
<1> DEFINE x == [type |-> token, text |-> value]
<1>1. tokens \in Seq(Token) /\ stack \in Seq(Nat) /\ Len(stack) \in Nat
  BY LenProperties DEF ParserType
<1>2. Opened(tokens) \in Nat /\ Closed(tokens) \in Nat
  BY <1>1, LenProperties, CountOK DEF Opened, Closed
<1>3. ASSUME NextToken, token \in Kinds, Follows(tokens, x)
      PROVE  /\ Begins(tokens')
             /\ last' = IF tokens' = << >> THEN "START"
                        ELSE tokens'[Len(tokens')].type
             /\ Opened(tokens') =
                    Opened(tokens) + IF token = "START_BLOCK" THEN 1 ELSE 0
             /\ Closed(tokens') =
                    Closed(tokens) + IF token = "END_BLOCK" THEN 1 ELSE 0
             /\ last' = token /\ token' = "none"
  <2>1. /\ x \in Token /\ tokens' = Append(tokens, x) /\ last' = token
        /\ token' = "none"
    BY <1>3, NextTokenOK
  <2>2. Begins(tokens')
    BY <1>1, <1>3, <2>1, BeginsNext DEF GrammarInv
  <2>3. tokens' # << >> /\ tokens'[Len(tokens')].type = token
    BY <1>1, <2>1, LastToken
  <2>4. x.type = token
    OBVIOUS
  <2> HIDE DEF x
  <2> QED
    BY <1>1, <2>1, <2>2, <2>3, <2>4, CountNext DEF Opened, Closed
<1>4. tokens # << >> => tokens[Len(tokens)].type = last
  BY DEF GrammarInv
<1>5. last # "START" => tokens # << >>
  BY DEF GrammarInv
<1>6. CASE Normal
  <2>1. /\ NextToken /\ token = "NORMAL" /\ result = "parsing"
        /\ UNCHANGED <<stack, result>>
    BY <1>6 DEF Normal, Accepts
  <2>2. Follows(tokens, x)
    BY <2>1 DEF Follows
  <2> QED
    BY <1>2, <1>3, <2>1, <2>2 DEF GrammarInv, Kinds
<1>7. CASE StatementEnd
  <2>1. /\ NextToken /\ token = "STATEMENT_END" /\ result = "parsing"
        /\ last = "NORMAL" /\ UNCHANGED <<stack, result>>
    BY <1>7 DEF StatementEnd, Accepts, After
  <2>2. Follows(tokens, x)
    BY <1>4, <1>5, <2>1 DEF Follows
  <2> QED
    BY <1>2, <1>3, <2>1, <2>2 DEF GrammarInv, Kinds
<1>8. CASE StartBlock
  <2>1. /\ NextToken /\ token = "START_BLOCK" /\ result = "parsing"
        /\ last = "NORMAL" /\ UNCHANGED result
        /\ stack' = Append(stack, Len(blocks) + 1)
    BY <1>8 DEF StartBlock, Accepts, After
  <2>2. Follows(tokens, x)
    BY <1>4, <1>5, <2>1 DEF Follows
  <2>3. stack # << >>
    BY <2>1 DEF StackInv
  <2>4. Len(stack') = Len(stack) + 1 /\ stack' # << >> /\ Len(stack) >= 1
    BY <1>1, <2>1, <2>3, EmptySeq, StackLen, AppendProperties
  <2> QED
    BY <1>1, <1>2, <1>3, <2>1, <2>2, <2>3, <2>4 DEF GrammarInv, Kinds
<1>9. CASE EndBlock
  <2>1. /\ token = "END_BLOCK" /\ result = "parsing"
        /\ last \in {"STATEMENT_END", "START_BLOCK", "END_BLOCK"}
        /\ stack' = Front(stack)
    BY <1>9 DEF EndBlock, Accepts, After
  <2>2. stack # << >> /\ Len(stack) >= 1
    BY <1>1, <2>1, EmptySeq DEF StackInv
  <2>3. Opened(tokens) = Closed(tokens) + (Len(stack) - 1)
    BY <2>2 DEF GrammarInv
  <2>4. Len(stack') = Len(stack) - 1
    BY <1>1, <2>1, <2>2, FrontOK
  <2>5. stack' \in Seq(Nat)
    BY <1>9, EndBlockOK DEF ParserType
  <2>6. CASE stack' = << >>
    <3>1. /\ result' = "rejected"
          /\ UNCHANGED <<token, last, tokens>>
      BY <1>9, <2>6 DEF EndBlock
    <3>2. Len(stack) = 1
      BY <1>1, <2>4, <2>5, <2>6, EmptySeq
    <3>3. last # "START_BLOCK"
      BY <3>2 DEF GrammarInv
    <3> QED
      BY <1>2, <2>1, <2>3, <2>6, <3>1, <3>2, <3>3
         DEF GrammarInv, Opened, Closed
  <2>7. CASE stack' # << >>
    <3>1. NextToken /\ UNCHANGED result
      BY <1>9, <2>7 DEF EndBlock
    <3>2. Len(stack) > 1
      BY <1>1, <2>4, <2>5, <2>7, EmptySeq
    <3>3. Closed(tokens) < Opened(tokens)
      BY <1>1, <1>2, <2>3, <3>2
    <3>4. Follows(tokens, x)
      BY <1>4, <1>5, <2>1, <3>3 DEF Follows, Opened, Closed
    <3> QED
      BY <1>1, <1>2, <1>3, <2>1, <2>3, <2>4, <2>7, <3>1, <3>4
         DEF GrammarInv, Kinds
  <2> QED
    BY <2>6, <2>7
<1>10. CASE Open \/ Eof \/ BadTransition
  <2>1. UNCHANGED <<token, last, stack, tokens>>
    BY <1>10 DEF Open, Eof, BadTransition, treeVars
  <2>2. \/ result = "opening" /\ result' \in {"parsing", "rejected"}
        \/ /\ result = "parsing" /\ token = "EOF" /\ last \in After["EOF"]
           /\ result' = IF Len(stack) > 1 THEN "rejected" ELSE "accepted"
        \/ /\ result = "parsing" /\ result' = "rejected"
           /\ token \in DOMAIN After /\ last \notin After[token]
    BY <1>10 DEF Open, Eof, BadTransition, Accepts
  <2>3. stack # << >> /\ Len(stack) >= 1
    BY <1>1, <2>2, EmptySeq DEF StackInv
  <2>4. Begins(tokens)' /\ Opened(tokens)' = Opened(tokens)
        /\ Closed(tokens)' = Closed(tokens)
    BY <2>1 DEF GrammarInv, Begins, Count, Opened, Closed
  <2>5. /\ last' = IF tokens' = << >> THEN "START"
                   ELSE tokens'[Len(tokens')].type
        /\ last' = "START_BLOCK" => Len(stack') > 1
        /\ stack' # << >> /\ result' # "opening"
    BY <2>1, <2>2, <2>3 DEF GrammarInv
  <2>6. Opened(tokens') = Closed(tokens') + (Len(stack') - 1)
    BY <2>1, <2>3 DEF GrammarInv
  <2>7. result' = "accepted" => /\ token' = "EOF" /\ last' \in After["EOF"]
                                /\ Len(stack') = 1
    <3> SUFFICES ASSUME result' = "accepted"
                 PROVE  /\ token' = "EOF" /\ last' \in After["EOF"]
                        /\ Len(stack') = 1
      OBVIOUS
    <3>1. token = "EOF" /\ last \in After["EOF"] /\ ~ (Len(stack) > 1)
      BY <2>2
    <3>2. Len(stack) = 1
      <4> DEFINE k == Len(stack)
      <4>1. k \in Nat /\ k >= 1 /\ ~ (k > 1)
        BY <1>1, <2>3, <3>1
      <4> HIDE DEF k
      <4>2. k = 1
        BY <4>1
      <4> QED
        BY <4>2 DEF k
    <3> QED
      BY <2>1, <3>1, <3>2
  <2>8. result' = "rejected" =>
           \/ token' = "none"
           \/ token' = "EOF" /\ Len(stack') > 1
           \/ token' \in DOMAIN After /\ last' \notin After[token']
    BY <2>1, <2>2 DEF GrammarInv
  <2>9. After' = After
    BY DEF After
  <2> QED
    BY <2>4, <2>5, <2>6, <2>7, <2>8, <2>9, Zenon DEF GrammarInv
<1>11. CASE ParseToken \/ SkipComment \/ UNCHANGED parseVars
  <2>1. /\ UNCHANGED <<last, stack, tokens, result>>
        /\ result = "parsing" \/ UNCHANGED token
    BY <1>11, LexStep DEF SkipComment, parseVars, treeVars
  <2>2. Begins(tokens)' /\ Opened(tokens)' = Opened(tokens)
        /\ Closed(tokens)' = Closed(tokens)
    BY <2>1 DEF GrammarInv, Begins, Count, Opened, Closed
  <2>3. result = "parsing" => stack # << >>
    BY DEF StackInv
  <2>4. CASE result = "parsing"
    <3>1. result' = "parsing" /\ stack' # << >> /\ stack # << >>
      BY <2>1, <2>3, <2>4
    <3>2. /\ last' = IF tokens' = << >> THEN "START"
                     ELSE tokens'[Len(tokens')].type
          /\ last' = "START_BLOCK" => Len(stack') > 1
      BY <2>1 DEF GrammarInv
    <3>3. Opened(tokens') = Closed(tokens') + (Len(stack') - 1)
      BY <2>1, <3>1 DEF GrammarInv
    <3> QED
      BY <2>2, <3>1, <3>2, <3>3 DEF GrammarInv
  <2>5. CASE UNCHANGED token
    BY <2>1, <2>2, <2>5 DEF GrammarInv
  <2> QED
    BY <2>1, <2>4, <2>5
<1> QED
  BY <1>6, <1>7, <1>8, <1>9, <1>10, <1>11 DEF Parse

(* In every state what Parse acted on may begin a configuration, and the   *)
(* stack holds the blocks that are open in it, for every file.             *)
THEOREM GrammarInvHolds == Spec => []GrammarInv
<1>1. Init => GrammarInv
  <2> SUFFICES ASSUME Init PROVE GrammarInv
    OBVIOUS
  <2>1. /\ token = "none" /\ last = "START" /\ stack = <<1>>
        /\ result = "opening" /\ tokens = << >>
    BY DEF Init, StartInit, ParserInit
  <2>2. Len(tokens) = 0 /\ DOMAIN tokens = {} /\ Len(stack) = 1
        /\ stack # << >>
    BY <2>1
  <2>3. Opened(tokens) = 0 /\ Closed(tokens) = 0
    BY <2>2, CountOK DEF Opened, Closed
  <2>4. Begins(tokens)
    BY <2>2 DEF Begins
  <2> QED
    BY <2>1, <2>2, <2>3, <2>4 DEF GrammarInv
<1> QED
  BY <1>1, ParserSteps, GrammarStep, StackInvHolds, PTL DEF Spec

(* Parse returns true exactly for the token sequences of configurations    *)
(* (AcceptsConfigs): it accepts nothing else, refuses none at the end of   *)
(* the file, and gives up before only where no configuration could go on.  *)
THEOREM GrammarRight == Spec => []AcceptsConfigs
<1>1. ParserType /\ StackInv /\ GrammarInv => AcceptsConfigs
  <2> SUFFICES ASSUME ParserType, StackInv, GrammarInv
               PROVE  AcceptsConfigs
    OBVIOUS
  <2>1. tokens \in Seq(Token) /\ stack \in Seq(Nat) /\ Len(stack) \in Nat
    BY LenProperties DEF ParserType
  <2>2. Opened(tokens) \in Nat /\ Closed(tokens) \in Nat
    BY <2>1, LenProperties, CountOK DEF Opened, Closed
  <2>3. tokens # << >> => tokens[Len(tokens)].type = last
    BY DEF GrammarInv
  <2>4. Config(tokens) <=> /\ tokens # << >> => last # "NORMAL"
                           /\ Closed(tokens) = Opened(tokens)
    BY <2>3 DEF Config, GrammarInv, Opened, Closed
  <2>5. ASSUME result = "accepted"
        PROVE  Config(tokens)
    <3>1. Len(stack) = 1 /\ last \in After["EOF"] /\ stack # << >>
      BY <2>5 DEF GrammarInv, StackInv
    <3>2. last # "NORMAL"
      BY <3>1 DEF After
    <3>3. Opened(tokens) = Closed(tokens)
      BY <2>2, <3>1 DEF GrammarInv
    <3> QED
      BY <2>4, <3>2, <3>3
  <2>6. ASSUME result = "rejected", token = "EOF"
        PROVE  ~Config(tokens)
    <3>1. stack # << >>
      BY <2>6 DEF GrammarInv
    <3>2. CASE Len(stack) > 1
      <4>1. Opened(tokens) = Closed(tokens) + (Len(stack) - 1)
        BY <3>1 DEF GrammarInv
      <4> QED
        BY <2>1, <2>2, <2>4, <3>2, <4>1
    <3>3. CASE last \notin After["EOF"] /\ ~ (Len(stack) > 1)
      <4>1. last = "NORMAL"
        BY <3>3 DEF After, ParserType, Kinds, GrammarInv
      <4>2. tokens # << >>
        BY <4>1 DEF GrammarInv
      <4> QED
        BY <2>4, <4>1, <4>2
    <3> QED
      BY <2>6, <3>1, <3>2, <3>3 DEF GrammarInv
  <2>7. ASSUME result = "rejected", token \in DOMAIN After \ {"EOF", "ERROR"}
        PROVE  ~Begins(Append(tokens, [type |-> token, text |-> value]))
    <3> DEFINE x == [type |-> token, text |-> value]
    <3>1. token \in Kinds /\ x.type = token
      BY <2>7 DEF After, Kinds
    <3>2. x \in Token
      BY <3>1 DEF Token, ParserType
    <3>3. ~Follows(tokens, x)
      <4>1. CASE stack = << >>
        <5>1. token = "END_BLOCK" /\ Opened(tokens) = Closed(tokens)
          BY <4>1 DEF GrammarInv
        <5> HIDE DEF x
        <5> QED
          BY <2>2, <3>1, <5>1 DEF Follows, Opened, Closed
      <4>2. CASE last \notin After[token]
        <5>1. \/ token \in {"STATEMENT_END", "START_BLOCK"} /\ last # "NORMAL"
              \/ token = "END_BLOCK" /\ last \in {"START", "NORMAL"}
          BY <3>1, <4>2 DEF After, Kinds, ParserType
        <5>2. last = "START" => tokens = << >>
          <6>1. tokens # << >> => tokens[Len(tokens)] \in Token
            BY <2>1, EmptySeq, ElementOfSeq
          <6> QED
            BY <2>3, <6>1 DEF Token, Kinds
        <5> HIDE DEF x
        <5> QED
          BY <2>3, <3>1, <5>1, <5>2 DEF Follows
      <4> QED
        BY <2>7, <3>1, <4>1, <4>2 DEF GrammarInv, Kinds
    <3> HIDE DEF x
    <3>4. ~Begins(Append(tokens, x))
      BY <2>1, <3>2, <3>3, BeginsNext DEF GrammarInv
    <3> QED
      BY <3>4 DEF x
  <2> QED
    BY <2>5, <2>6, <2>7 DEF AcceptsConfigs
<1> QED
  BY <1>1, StackInvHolds, GrammarInvHolds, PTL

-----------------------------------------------------------------------------
(* The text.                                                               *)

LEMMA KeptCopies ==
    ASSUME NEW t, Len(t) \in Nat
    PROVE  \E f : /\ Copies(f, t, {n \in 1 .. Len(t) : t[n] \in Skipped},
                            Len(t))
                  /\ Kept(t) = f[Len(t)]
<1> DEFINE k == Len(t)
           Row(f, n) == IF n = 0 THEN << >>
                        ELSE IF t[n] \in Skipped THEN f[n - 1]
                             ELSE Append(f[n - 1], t[n])
           kept == CHOOSE f : f = [n \in 0 .. k |-> Row(f, n)]
           D == {n \in 1 .. k : t[n] \in Skipped}
<1>1. Kept(t) = kept[k]
  BY DEF Kept
<1> HIDE DEF k
<1>2. k \in Nat /\ \A n \in 1 .. k : n \in D <=> t[n] \in Skipped
  BY DEF k
<1> HIDE DEF D
<1>3. kept = [n \in 0 .. k |-> Row(kept, n)]
  <2>1. PICK f : Copies(f, t, D, k)
    BY <1>2, CopyExists
  <2>2. ASSUME NEW n \in 0 .. k
        PROVE  f[n] = Row(f, n)
    <3>1. n = 0 \/ n \in 1 .. k
      BY <1>2
    <3>2. n \in 1 .. k => n # 0
      OBVIOUS
    <3> QED
      BY <1>2, <2>1, <3>1, <3>2 DEF Copies, Extended
  <2> HIDE DEF Row
  <2>3. f = [n \in 0 .. k |-> f[n]]
    BY <2>1 DEF Copies
  <2>4. f = [n \in 0 .. k |-> Row(f, n)]
    BY <2>2, <2>3
  <2> QED
    BY <2>4
<1> HIDE DEF kept
<1>4. /\ kept = [n \in 0 .. k |-> kept[n]]
      /\ \A n \in 0 .. k : kept[n] = Row(kept, n)
  <2> HIDE DEF Row
  <2> QED
    BY <1>3
<1>5. kept[0] = << >>
  <2>1. 0 \in 0 .. k
    BY <1>2
  <2> QED
    BY <1>4, <2>1
<1>6. ASSUME NEW n \in 1 .. k
      PROVE  /\ n \in D => kept[n] = kept[n - 1]
             /\ n \notin D => kept[n] = Extended(kept[n - 1], t[n])
  <2>1. n \in 0 .. k /\ n # 0
    BY <1>2
  <2> QED
    BY <1>2, <1>4, <2>1 DEF Extended
<1>7. Copies(kept, t, D, k)
  BY <1>4, <1>5, <1>6 DEF Copies
<1> QED
  BY <1>1, <1>7 DEF k, D

LEMMA KeptAppend ==
    ASSUME NEW S, NEW t \in Seq(S), NEW x \in S
    PROVE  Kept(Append(t, x)) = IF x \in Skipped THEN Kept(t)
                                ELSE Append(Kept(t), x)
<1> DEFINE k == Len(t)
           u == Append(t, x)
           D == {n \in 1 .. k : t[n] \in Skipped}
           E == {n \in 1 .. k + 1 : u[n] \in Skipped}
<1>1. /\ k \in Nat /\ k + 1 \in Nat /\ Len(u) = k + 1 /\ u[k + 1] = x
      /\ \A n \in 1 .. k : t[n] = u[n]
  BY LenProperties, AppendProperties
<1>2. PICK f : Copies(f, t, D, k) /\ Kept(t) = f[k]
  BY <1>1, KeptCopies
<1> HIDE DEF u
<1>3. PICK g : Copies(g, u, E, k + 1) /\ Kept(u) = g[k + 1]
  BY <1>1, KeptCopies
<1>4. /\ \A n \in 1 .. k : n \in D <=> n \in E
      /\ k + 1 \in E <=> x \in Skipped
      /\ k + 1 \in 1 .. k + 1 /\ (k + 1) - 1 = k /\ k <= k /\ k <= k + 1
  BY <1>1
<1> HIDE DEF D, E, k
<1>5. f[k] = g[k]
  <2>1. Alike(t, D, u, E, k)
    BY <1>1, <1>4 DEF Alike
  <2> QED
    <3> DEFINE l == k + 1
    <3>1. k \in Nat /\ l \in Nat /\ k <= k /\ k <= l
      BY <1>1, <1>4
    <3>2. Copies(f, t, D, k) /\ Copies(g, u, E, l)
      BY <1>2, <1>3
    <3> HIDE DEF l
    <3> QED
      BY <2>1, <3>1, <3>2, CopiesAgree
<1>6. g[k + 1] = IF x \in Skipped THEN g[k] ELSE Append(g[k], x)
  BY <1>1, <1>3, <1>4 DEF Copies, Extended
<1> QED
  BY <1>2, <1>3, <1>5, <1>6 DEF u

(* A character that is read is taken, or is one that is not kept.          *)
LEMMA Reading ==
    ASSUME NEW S, NEW W \in Seq(S), NEW v \in Seq(S), NEW P \in Seq(S),
           NEW c \in S, Kept(W \o v) = Kept(P)
    PROVE  /\ Kept(W \o Append(v, c)) = Kept(Append(P, c))
           /\ c \in Skipped => Kept(W \o v) = Kept(Append(P, c))
<1>1. W \o v \in Seq(S)
  BY ConcatProperties
<1>2. W \o Append(v, c) = Append(W \o v, c)
  OBVIOUS
<1>3. Kept(Append(P, c)) = IF c \in Skipped THEN Kept(P)
                           ELSE Append(Kept(P), c)
  BY KeptAppend
<1>4. Kept(Append(W \o v, c)) = IF c \in Skipped THEN Kept(W \o v)
                                ELSE Append(Kept(W \o v), c)
  <2> DEFINE u == W \o v
  <2>1. u \in Seq(S)
    BY <1>1
  <2> HIDE DEF u
  <2>2. Kept(Append(u, c)) = IF c \in Skipped THEN Kept(u)
                             ELSE Append(Kept(u), c)
    BY <2>1, KeptAppend
  <2> QED
    BY <2>2 DEF u
<1> QED
  BY <1>2, <1>3, <1>4

(* The text of the tokens Parse acted on.                                  *)
Written == FlattenSeq([i \in DOMAIN tokens |-> tokens[i].text])

ReadOK == Kept(Written \o value) = Kept(SubSeq(file, 1, pos - 1))

(* Beyond TextKept: in a file without "#" no comment begins, and a token   *)
(* begins without text.                                                    *)
TextInv ==
    ~Contains(file, "#") =>
        /\ state # "comment" /\ token # "COMMENT"
        /\ token = "none" /\ state = "whitespace" => value = << >>
        /\ result # "rejected" => ReadOK

LEMMA TextsType ==
    ASSUME NEW t \in Seq(Token)
    PROVE  [i \in DOMAIN t |-> t[i].text] \in Seq(Words)
<1>1. DOMAIN t = 1 .. Len(t) /\ Len(t) \in Nat
  BY LenProperties
<1>2. ASSUME NEW i \in 1 .. Len(t)
      PROVE  t[i].text \in Words
  <2>1. t[i] \in Token
    BY ElementOfSeq
  <2> QED
    BY <2>1 DEF Token
<1> QED
  BY <1>1, <1>2, IsASeq

LEMMA WrittenType == ParserType => Written \in Words
<1> SUFFICES ASSUME ParserType PROVE Written \in Words
  OBVIOUS
<1> DEFINE ss == [i \in DOMAIN tokens |-> tokens[i].text]
<1>1. ss \in Seq(Seq(Symbols))
  BY TextsType DEF ParserType, Words
<1> HIDE DEF ss
<1>2. FlattenSeq(ss) \in Seq(Symbols)
  BY <1>1, FlattenType
<1> QED
  BY <1>2 DEF Written, Words, ss

(* The text of one token more.                                             *)
LEMMA WrittenNext ==
    ASSUME ParserType, NextToken, token \in Kinds
    PROVE  Written' = Written \o value
<1> DEFINE x == [type |-> token, text |-> value]
           ss == [i \in DOMAIN tokens |-> tokens[i].text]
           tt == [i \in DOMAIN tokens' |-> tokens'[i].text]
           k == Len(tokens)
<1>1. /\ tokens' = Append(tokens, x) /\ x \in Token /\ tokens \in Seq(Token)
      /\ value \in Seq(Symbols)
  BY NextTokenOK DEF ParserType, Words
<1>2. /\ k \in Nat /\ Len(tokens') = k + 1 /\ tokens'[k + 1] = x
      /\ \A i \in 1 .. k : tokens'[i] = tokens[i]
      /\ tokens' \in Seq(Token)
  <2> HIDE DEF x
  <2> QED
    BY <1>1, LenProperties, AppendProperties
<1>3. DOMAIN tokens = 1 .. k /\ DOMAIN tokens' = 1 .. k + 1
  BY <1>1, <1>2, LenProperties
<1>4. ss \in Seq(Seq(Symbols)) /\ tt \in Seq(Seq(Symbols))
  BY <1>1, <1>2, TextsType DEF Words
<1>5. /\ DOMAIN ss = 1 .. k /\ DOMAIN tt = 1 .. k + 1
      /\ \A i \in 1 .. k : tt[i] = ss[i]
      /\ tt[k + 1] = value
  <2>1. k + 1 \in 1 .. k + 1 /\ \A i \in 1 .. k : i \in 1 .. k + 1
    BY <1>2
  <2> HIDE DEF k
  <2> QED
    BY <1>2, <1>3, <2>1
<1> HIDE DEF ss, tt, k, x
<1>6. Len(ss) = k /\ Len(tt) = k + 1
  BY <1>2, <1>4, <1>5, LenProperties
<1>7. tt = Append(ss, value)
  <2> DEFINE uu == Append(ss, value)
  <2>1. /\ uu \in Seq(Seq(Symbols)) /\ Len(uu) = k + 1 /\ uu[k + 1] = value
        /\ \A i \in 1 .. k : uu[i] = ss[i]
    BY <1>1, <1>4, <1>6, AppendProperties
  <2> HIDE DEF uu
  <2>2. ASSUME NEW i \in 1 .. k + 1
        PROVE  tt[i] = uu[i]
    <3>1. i \in 1 .. k \/ i = k + 1
      BY <1>2
    <3> QED
      BY <1>5, <2>1, <3>1
  <2>3. tt = uu
    BY <1>4, <1>6, <2>1, <2>2, SeqEqual
  <2> QED
    BY <2>3 DEF uu
<1>8. FlattenSeq(tt) = FlattenSeq(ss) \o value
  BY <1>1, <1>4, <1>7, FlattenAppend
<1> QED
  BY <1>8 DEF Written, ss, tt

LEMMA TextLex ==
    ASSUME ParserType, TextInv, ParseToken, ~Contains(file, "#")
    PROVE  TextInv'
<1> DEFINE P == SubSeq(file, 1, pos - 1)
           W == Written
           Goal == /\ state' # "comment" /\ token' # "COMMENT"
                   /\ token' = "none" /\ state' = "whitespace"
                        => value' = << >>
                   /\ ReadOK'
<1>1. /\ result = "parsing" /\ token = "none"
      /\ UNCHANGED <<file, last, blocks, stack, tokens, result>>
  BY LexStep
<1>2. /\ state # "comment" /\ ReadOK
      /\ state = "whitespace" => value = << >>
  BY <1>1 DEF TextInv
<1>3. Written' = W
  BY <1>1 DEF Written
<1>4. /\ pos \in Nat \ {0} /\ value \in Seq(Symbols) /\ W \in Seq(Symbols)
      /\ file \in Seq(Symbols) /\ Len(file) \in Nat
  BY WrittenType, LenProperties DEF ParserType, Words
<1>5. ASSUME More
      PROVE  /\ Here # "#"
             /\ P \in Seq(Symbols) /\ Here \in Symbols
             /\ SubSeq(file, 1, pos) = Append(P, Here)
  <2>1. pos \in 1 .. Len(file)
    BY <1>4, <1>5 DEF More
  <2>2. Here # "#"
    BY <2>1 DEF Contains, Here
  <2>3. Here \in Symbols
    BY <1>4, <2>1, ElementOfSeq DEF Here
  <2>4. P \in Seq(Symbols)
    BY <1>4, <2>1
  <2>5. SubSeq(file, 1, pos) = Append(P, Here)
    BY <1>4, <2>1 DEF Here
  <2> QED
    BY <2>2, <2>3, <2>4, <2>5
<1>6. ASSUME More, pos' = pos + 1
      PROVE  SubSeq(file', 1, pos' - 1) = Append(P, Here)
  <2>1. pos' - 1 = pos
    BY <1>4, <1>6
  <2> QED
    BY <1>1, <1>5, <1>6, <2>1
<1> HIDE DEF P, W
<1>7. Kept(W \o value) = Kept(P)
  BY <1>2 DEF ReadOK, W, P
<1>8. ASSUME More, pos' = pos + 1, value' = Append(value, Here)
      PROVE  ReadOK'
  <2>1. Kept(W \o Append(value, Here)) = Kept(Append(P, Here))
    BY <1>4, <1>5, <1>7, <1>8, Reading
  <2> QED
    BY <1>3, <1>6, <1>8, <2>1 DEF ReadOK
<1>9. ASSUME More, pos' = pos + 1, value' = value, Here \in Skipped
      PROVE  ReadOK'
  <2>1. Kept(W \o value) = Kept(Append(P, Here))
    BY <1>4, <1>5, <1>7, <1>9, Reading
  <2> QED
    BY <1>3, <1>6, <1>9, <2>1 DEF ReadOK
<1>10. ASSUME pos' = pos, value' = value
       PROVE  ReadOK'
  BY <1>1, <1>2, <1>3, <1>10 DEF ReadOK, W
<1>11. ASSUME NEW s, More, Proceed(s, Append(value, Here)),
              s \notin {"comment", "whitespace"}
       PROVE  Goal
  BY <1>1, <1>8, <1>11 DEF Proceed
<1>12. ASSUME NEW type, More, ReturnToken(type, Append(value, Here), 1),
              type \notin {"none", "COMMENT"}
       PROVE  Goal
  BY <1>2, <1>8, <1>12 DEF ReturnToken
<1>13. ASSUME NEW s, More, Proceed(s, value), Here \in Skipped,
              s # "comment", s = "whitespace" => value = << >>
       PROVE  Goal
  BY <1>1, <1>9, <1>13 DEF Proceed
<1>14. ASSUME NEW type, ReturnToken(type, value, 0),
              type \notin {"none", "COMMENT"}
       PROVE  Goal
  <2>1. pos' = pos
    BY <1>4, <1>14 DEF ReturnToken
  <2> QED
    BY <1>2, <1>10, <1>14, <2>1 DEF ReturnToken
<1> HIDE DEF Goal
<1>15. ASSUME InitialWhitespace PROVE Goal
  <2>1. More /\ state = "whitespace" /\ value = << >> /\ Here # "#"
    BY <1>2, <1>5, <1>15 DEF InitialWhitespace
  <2>2. <<Here>> = Append(value, Here)
    BY <2>1
  <2>3. Here \in DOMAIN Punctuation
           => Punctuation[Here] \notin {"none", "COMMENT"}
    BY DEF Punctuation
  <2>4. Here \in Blank => Here \in Skipped
    BY DEF Skipped
  <2>5. \/ Here \in Blank /\ Proceed("whitespace", value)
        \/ /\ Here \in DOMAIN Punctuation
           /\ ReturnToken(Punctuation[Here], Append(value, Here), 1)
        \/ Proceed("quote", Append(value, Here))
        \/ Proceed("normal", Append(value, Here))
    BY <1>15, <2>1, <2>2 DEF InitialWhitespace
  <2>6. "quote" \notin {"comment", "whitespace"}
        /\ "normal" \notin {"comment", "whitespace"}
        /\ "whitespace" # "comment"
    OBVIOUS
  <2> QED
    BY <1>11, <1>12, <1>13, <2>1, <2>3, <2>4, <2>5, <2>6
<1>16. ASSUME InQuote PROVE Goal
  <2>1. "\\" \in Skipped
    BY DEF Skipped
  <2>2. More
    BY <1>16 DEF InQuote
  <2>3. \/ \E type \in {"NORMAL", "ERROR"} :
              ReturnToken(type, Append(value, Here), 1)
        \/ Here = "\\" /\ Proceed("escape", value)
        \/ Proceed("quote", Append(value, Here))
    BY <1>16 DEF InQuote
  <2> QED
    BY <1>11, <1>12, <1>13, <2>1, <2>2, <2>3
<1>17. ASSUME InEscape PROVE Goal
  BY <1>11, <1>17 DEF InEscape
<1>18. ASSUME InComment PROVE Goal
  BY <1>2, <1>18 DEF InComment
<1>19. ASSUME InNormal PROVE Goal
  BY <1>11, <1>14, <1>19 DEF InNormal
<1>20. ASSUME EndOfFile PROVE Goal
  BY <1>14, <1>20 DEF EndOfFile
<1>21. Goal
  BY <1>15, <1>16, <1>17, <1>18, <1>19, <1>20 DEF ParseToken
<1> QED
  BY <1>21 DEF Goal, TextInv

LEMMA TextNext ==
    ASSUME ParserType, TextInv, NextToken, token \in Kinds,
           result # "rejected", ~Contains(file, "#")
    PROVE  TextInv'
<1>1. /\ token' = "none" /\ state' = "whitespace" /\ value' = << >>
      /\ UNCHANGED <<file, pos>>
  BY DEF NextToken
<1>2. Written' = Written \o value
  BY WrittenNext
<1>3. Written \o value \in Seq(Symbols)
  BY WrittenType, ConcatProperties DEF ParserType, Words
<1>4. (Written \o value) \o << >> = Written \o value
  BY <1>3, ConcatEmptySeq
<1>5. ReadOK
  BY DEF TextInv
<1>6. ReadOK'
  BY <1>1, <1>2, <1>4, <1>5 DEF ReadOK
<1> QED
  BY <1>1, <1>6 DEF TextInv

LEMMA TextStep == ParserType /\ TextInv /\ [Parse]_parseVars => TextInv'
<1> SUFFICES ASSUME ParserType, TextInv, [Parse]_parseVars,
                    ~Contains(file', "#")
             PROVE  TextInv'
  BY DEF TextInv
<1>1. UNCHANGED file
  BY LexStep DEF Parse, Open, Normal, StatementEnd, StartBlock, EndBlock,
         Eof, SkipComment, BadTransition, NextToken, parseVars
<1>2. ~Contains(file, "#")
  BY <1>1
<1>3. CASE ParseToken
  BY <1>2, <1>3, TextLex
<1>4. CASE \/ Normal \/ StatementEnd \/ StartBlock
           \/ EndBlock /\ NextToken
  <2>1. NextToken /\ token \in Kinds /\ result = "parsing"
    BY <1>4 DEF Normal, StatementEnd, StartBlock, EndBlock, Accepts, Kinds
  <2> QED
    BY <1>2, <2>1, TextNext
<1>5. CASE /\ UNCHANGED <<pos, state, value, token, tokens>>
           /\ result' # "rejected" => result # "rejected"
  <2>1. UNCHANGED Written
    BY <1>5 DEF Written
  <2>2. ReadOK => ReadOK'
    BY <1>1, <1>5, <2>1 DEF ReadOK
  <2> QED
    BY <1>1, <1>5, <2>2 DEF TextInv
<1>6. CASE SkipComment
  BY <1>2, <1>6 DEF SkipComment, TextInv
<1>7. \/ ParseToken \/ Normal \/ StatementEnd \/ StartBlock
      \/ SkipComment
      \/ EndBlock /\ NextToken
      \/ /\ UNCHANGED <<pos, state, value, token, tokens>>
         /\ result' # "rejected" => result # "rejected"
  BY DEF Parse, Open, EndBlock, Eof, BadTransition, Accepts, lexVars,
         treeVars, parseVars
<1> QED
  BY <1>3, <1>4, <1>5, <1>6, <1>7

(* In a file without comments no character is lost but blanks and          *)
(* backslashes (TextKept), whatever its length and wherever the lexer is.  *)
THEOREM TextRight == Spec => []TextKept
<1>1. Init => TextInv
  <2> SUFFICES ASSUME Init PROVE TextInv
    OBVIOUS
  <2>1. /\ file \in Files /\ pos = 1 /\ value = << >> /\ token = "none"
        /\ state = "whitespace" /\ tokens = << >>
    BY DEF Init, StartInit, ParserInit
  <2>2. Written = << >>
    <3> DEFINE ss == [i \in DOMAIN tokens |-> tokens[i].text]
    <3>1. ss = << >>
      BY <2>1
    <3> HIDE DEF ss
    <3>2. FlattenSeq(ss) = << >>
      BY <3>1, EmptySeq DEF FlattenSeq
    <3> QED
      BY <3>2 DEF Written, ss
  <2>3. Written \o value = SubSeq(file, 1, pos - 1)
    <3>1. << >> \o << >> = << >>
      OBVIOUS
    <3>2. pos - 1 = 0 /\ SubSeq(file, 1, 0) = << >>
      BY <2>1, SubSeqEmpty
    <3> QED
      BY <2>1, <2>2, <3>1, <3>2
  <2>4. ReadOK
    BY <2>3 DEF ReadOK
  <2> QED
    BY <2>1, <2>4 DEF TextInv
<1>2. ParserType /\ TextInv /\ [Next]_allVars => TextInv'
  BY ParserSteps, TextStep
<1>3. TextInv => TextKept
  BY DEF TextInv, TextKept, ReadOK, Written
<1> QED
  BY <1>1, <1>2, <1>3, StackInvHolds, PTL DEF Spec
=============================================================================
