---------------------------- MODULE ConfigParser ----------------------------
(***************************************************************************)
(* NginxConfigParser (config_parser.cc): ParseToken, which cuts a file     *)
(* into tokens, and Parse, which builds the tree of statements with a      *)
(* stack of the blocks that are open.                                      *)
(*                                                                         *)
(* A file is a sequence of symbols: the characters the parser looks at,    *)
(* and words, each a run of characters it treats alike.  The blocks are    *)
(* numbered as `new NginxConfig' makes them; child_block_ and the stack    *)
(* refer to them by number, block 1 being the caller's out-parameter.      *)
(***************************************************************************)
EXTENDS Integers, Sequences, FiniteSetsExt, SequencesExt

CONSTANT Files  \* the contents of the configuration file: sequences

VARIABLES
    file,       \* the content of the file
    pos,        \* where input->get() is
    state,      \* TokenParserState
    value,      \* the text of the token so far
    token,      \* token_type, "none" while ParseToken runs
    last,       \* last_token_type
    blocks,     \* every NginxConfig there is: its statements
    stack,      \* config_stack, the top last
    result,     \* "opening", "parsing", "accepted" or "rejected"
    tokens      \* history: the tokens Parse acted on

lexVars   == <<pos, state, value>>
treeVars  == <<last, blocks, stack, tokens>>
parseVars == <<file, lexVars, token, treeVars, result>>

Blank  == {" ", "\t", "\n", "\r"}
Ender  == {" ", "\t", "\n", ";", "{", "}"}     \* not "\r"
Quotes == {"'", "\""}
Punctuation == [c \in {";", "{", "}"} |->
                  CASE c = ";" -> "STATEMENT_END"
                    [] c = "{" -> "START_BLOCK"
                    [] c = "}" -> "END_BLOCK"]

NoChild == 0
NewStatement(text) == [tokens |-> <<text>>, child |-> NoChild]

-----------------------------------------------------------------------------
(* ParseToken: one step per character.  The state of a quoted token does   *)
(* not say which quote began it; its text does.                            *)

More == pos =< Len(file)
Here == file[pos]

Lexing == result = "parsing" /\ token = "none"

Proceed(s, text) ==
    /\ state' = s
    /\ value' = text
    /\ pos' = pos + 1
    /\ UNCHANGED <<file, token, treeVars, result>>

(* return type, after `used' more characters: none after unget().          *)
ReturnToken(type, text, used) ==
    /\ token' = type
    /\ value' = text
    /\ pos' = pos + used
    /\ UNCHANGED <<file, state, treeVars, result>>

InitialWhitespace ==
    /\ Lexing /\ More
    /\ state = "whitespace"
    /\ \/ Here \in Blank /\ Proceed("whitespace", value)
       \/ /\ Here \in DOMAIN Punctuation
          /\ ReturnToken(Punctuation[Here], <<Here>>, 1)
       \/ Here = "#" /\ Proceed("comment", <<Here>>)
       \/ Here \in Quotes /\ Proceed("quote", <<Here>>)
       \/ /\ Here \notin Blank \cup DOMAIN Punctuation \cup {"#"} \cup Quotes
          /\ Proceed("normal", <<Here>>)

(* The closing quote must be followed by the end of a token; at the end of *)
(* the file get() returns EOF, which is none.                              *)
InQuote ==
    /\ Lexing /\ More
    /\ state = "quote"
    /\ \/ /\ Here = value[1]
          /\ ReturnToken(IF pos < Len(file) /\ file[pos + 1] \in Ender
                         THEN "NORMAL" ELSE "ERROR", Append(value, Here), 1)
       \/ Here = "\\" /\ Proceed("escape", value)
       \/ Here \notin {value[1], "\\"} /\ Proceed("quote", Append(value, Here))

InEscape ==
    /\ Lexing /\ More
    /\ state = "escape"
    /\ Proceed("quote", Append(value, Here))

InComment ==
    /\ Lexing /\ More
    /\ state = "comment"
    /\ IF Here \in {"\n", "\r"} THEN ReturnToken("COMMENT", value, 1)
       ELSE Proceed("comment", Append(value, Here))

(* Mutant: unget() is forgotten.                                           *)
InNormalEaten ==
    /\ Lexing /\ More
    /\ state = "normal"
    /\ IF Here \in Ender THEN ReturnToken("NORMAL", value, 1)
       ELSE Proceed("normal", Append(value, Here))

InNormal ==
    /\ Lexing /\ More
    /\ state = "normal"
    /\ IF Here \in Ender THEN ReturnToken("NORMAL", value, 0)
       ELSE Proceed("normal", Append(value, Here))

(* The end of the file is an error inside a quoted token only, and not     *)
(* after a backslash; any other token that has begun is thrown away.       *)
EndOfFile ==
    /\ Lexing /\ ~More
    /\ ReturnToken(IF state = "quote" THEN "ERROR" ELSE "EOF", value, 0)

ParseToken == InitialWhitespace \/ InQuote \/ InEscape \/ InComment
              \/ InNormal \/ EndOfFile

-----------------------------------------------------------------------------
(* Parse: one step per token.                                              *)

Top == stack[Len(stack)]

(* Mutant: a statement may be cut short by the end of the file.            *)
AfterLoose ==
    [NORMAL        |-> {"START", "STATEMENT_END", "START_BLOCK", "END_BLOCK",
                        "NORMAL"},
     STATEMENT_END |-> {"NORMAL"},
     START_BLOCK   |-> {"NORMAL"},
     END_BLOCK     |-> {"STATEMENT_END", "START_BLOCK", "END_BLOCK"},
     EOF           |-> {"STATEMENT_END", "END_BLOCK", "START", "NORMAL"},
     ERROR         |-> {}]

(* The tokens each kind of token may come after.                           *)
After ==
    [NORMAL        |-> {"START", "STATEMENT_END", "START_BLOCK", "END_BLOCK",
                        "NORMAL"},
     STATEMENT_END |-> {"NORMAL"},
     START_BLOCK   |-> {"NORMAL"},
     END_BLOCK     |-> {"STATEMENT_END", "START_BLOCK", "END_BLOCK"},
     EOF           |-> {"STATEMENT_END", "END_BLOCK", "START"},
     ERROR         |-> {}]

Accepts(type) == result = "parsing" /\ token = type /\ last \in After[type]

(* last_token_type = token_type, and ParseToken is called again.           *)
NextToken ==
    /\ last' = token
    /\ tokens' = Append(tokens, [type |-> token, text |-> value])
    /\ token' = "none"
    /\ state' = "whitespace"
    /\ value' = << >>
    /\ UNCHANGED <<file, pos>>

(* Mutant: every word begins a statement.                                  *)
AddTokenSplit(block) == Append(block, NewStatement(value))

(* A word begins a statement, or continues the last one.                   *)
AddToken(block) ==
    IF last # "NORMAL" THEN Append(block, NewStatement(value))
    ELSE [block EXCEPT ![Len(block)].tokens = Append(@, value)]

Normal ==
    /\ Accepts("NORMAL")
    /\ blocks' = [blocks EXCEPT ![Top] = AddToken(@)]
    /\ NextToken
    /\ UNCHANGED <<stack, result>>

StatementEnd ==
    /\ Accepts("STATEMENT_END")
    /\ NextToken
    /\ UNCHANGED <<blocks, stack, result>>

StartBlock ==
    /\ Accepts("START_BLOCK")
    /\ blocks' = Append([blocks EXCEPT ![Top][Len(blocks[Top])].child =
                                           Len(blocks) + 1], << >>)
    /\ stack' = Append(stack, Len(blocks) + 1)
    /\ NextToken
    /\ UNCHANGED result

(* Mutant: the block stays on the stack.                                   *)
EndBlockKept ==
    /\ Accepts("END_BLOCK")
    /\ NextToken
    /\ UNCHANGED <<blocks, stack, result>>

(* The block of the caller cannot be closed.                               *)
EndBlock ==
    /\ Accepts("END_BLOCK")
    /\ stack' = Front(stack)
    /\ IF stack' = << >>
       THEN /\ result' = "rejected"
            /\ UNCHANGED <<file, lexVars, token, last, blocks, tokens>>
       ELSE NextToken /\ UNCHANGED <<blocks, result>>

Eof ==
    /\ Accepts("EOF")
    /\ result' = IF Len(stack) > 1 THEN "rejected" ELSE "accepted"
    /\ UNCHANGED <<file, lexVars, token, treeVars>>

(* Comments are skipped, and last_token_type is what it was.               *)
SkipComment ==
    /\ result = "parsing"
    /\ token = "COMMENT"
    /\ token' = "none"
    /\ state' = "whitespace"
    /\ value' = << >>
    /\ UNCHANGED <<file, pos, treeVars, result>>

BadTransition ==
    /\ result = "parsing"
    /\ token \in DOMAIN After
    /\ last \notin After[token]
    /\ result' = "rejected"
    /\ UNCHANGED <<file, lexVars, token, treeVars>>

ParserInit ==
    /\ file \in Files
    /\ pos = 1
    /\ state = "whitespace"
    /\ value = << >>
    /\ token = "none"
    /\ last = "START"
    /\ blocks = << << >> >>
    /\ stack = <<1>>
    /\ result = "opening"
    /\ tokens = << >>

(* Parse(file_name): the file may not be there.                            *)
Open ==
    /\ result = "opening"
    /\ result' \in {"parsing", "rejected"}
    /\ UNCHANGED <<file, lexVars, token, treeVars>>

Parse == Open \/ ParseToken \/ Normal \/ StatementEnd \/ StartBlock
         \/ EndBlock \/ Eof \/ SkipComment \/ BadTransition

(* NginxConfig::ToString and NginxConfigStatement::ToString, without the   *)
(* layout: the tokens of the tree in the order of the text.                *)
Serialized ==
    LET Mark(type, c) == <<[type |-> type, text |-> <<c>>]>>
        text[b \in DOMAIN blocks] == FlattenSeq(
            [i \in DOMAIN blocks[b] |->
                LET s == blocks[b][i]
                IN  [k \in DOMAIN s.tokens |->
                        [type |-> "NORMAL", text |-> s.tokens[k]]]
                    \o IF s.child = NoChild THEN Mark("STATEMENT_END", ";")
                       ELSE Mark("START_BLOCK", "{") \o text[s.child]
                            \o Mark("END_BLOCK", "}")])
    IN  text[1]

-----------------------------------------------------------------------------
(* Properties.                                                             *)

(* statements_.back(), child_block_.reset() and config_stack.top() are     *)
(* only used where there is something to use: every open block is the      *)
(* child of the last statement of the block around it, a statement that    *)
(* is being read is the last of the top block and has no child, and every  *)
(* statement has a first token.                                            *)
StackOK ==
    result = "parsing" =>
        /\ stack # << >> /\ stack[1] = 1
        /\ \A i \in 1 .. Len(stack) - 1 :
              LET b == blocks[stack[i]]
              IN  b # << >> /\ b[Len(b)].child = stack[i + 1]
        /\ LET b == blocks[Top]
           IN  CASE last = "NORMAL" -> b # << >> /\ b[Len(b)].child = NoChild
                 [] last = "END_BLOCK" ->
                        b # << >> /\ b[Len(b)].child # NoChild
                 [] last = "STATEMENT_END" ->
                        b # << >> /\ b[Len(b)].child = NoChild
                 [] OTHER -> b = << >>
        /\ \A b \in DOMAIN blocks : \A i \in DOMAIN blocks[b] :
              blocks[b][i].tokens # << >>

(* The tree Parse hands over says what the tokens said: written out by     *)
(* ToString it is the same tokens in the same order.                       *)
TreeIsTokens == result = "accepted" => Serialized = tokens

(* What may begin a configuration: words run up to a ";" or a "{", both    *)
(* stand only after words, and no block is closed that is not open.        *)
Count(t, type, n) == Cardinality({i \in 1 .. n : t[i].type = type})

Begins(t) ==
    /\ \A i \in DOMAIN t :
          /\ t[i].type = "END_BLOCK" => i > 1 /\ t[i - 1].type # "NORMAL"
          /\ t[i].type \in {"STATEMENT_END", "START_BLOCK"} =>
                i > 1 /\ t[i - 1].type = "NORMAL"
    /\ \A n \in 1 .. Len(t) :
          Count(t, "END_BLOCK", n) =< Count(t, "START_BLOCK", n)

(* A configuration also ends its last statement and all its blocks.        *)
Config(t) ==
    /\ Begins(t)
    /\ t # << >> => t[Len(t)].type # "NORMAL"
    /\ Count(t, "END_BLOCK", Len(t)) = Count(t, "START_BLOCK", Len(t))

(* Parse returns true exactly for the token sequences of configurations:   *)
(* it accepts nothing else, refuses none at the end of the file, and gives *)
(* up before the end only where no configuration could go on.              *)
AcceptsConfigs ==
    /\ result = "accepted" => Config(tokens)
    /\ result = "rejected" =>
          /\ token = "EOF" => ~Config(tokens)
          /\ token \in DOMAIN After \ {"EOF", "ERROR"} =>
                ~Begins(Append(tokens, [type |-> token, text |-> value]))

(* A text without its blanks and backslashes.                              *)
Skipped == Blank \cup {"\\"}
Kept(t) ==
    LET kept[n \in 0 .. Len(t)] ==
            IF n = 0 THEN << >>
            ELSE IF t[n] \in Skipped THEN kept[n - 1]
                 ELSE Append(kept[n - 1], t[n])
    IN  kept[Len(t)]

(* Where there are no comments the tokens are the text: ParseToken loses   *)
(* no character but blanks and backslashes, between two tokens, at the     *)
(* character that ends a word or a quote, and in escapes.  All that Parse  *)
(* drops of a file it accepts is a word that the end of the file cuts off. *)
TextKept ==
    result \in {"parsing", "accepted"} /\ ~Contains(file, "#") =>
        Kept(FlattenSeq([i \in DOMAIN tokens |-> tokens[i].text]) \o value)
            = Kept(SubSeq(file, 1, pos - 1))
=============================================================================
