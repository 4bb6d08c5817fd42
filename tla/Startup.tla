------------------------------ MODULE Startup ------------------------------
(***************************************************************************)
(* main (server_main.cc) from its arguments to io_service::run(): the      *)
(* configuration is parsed (ConfigParser), asked for the port, the         *)
(* authorization timeout and the credentials (the queries of NginxConfig), *)
(* and the server and its dispatcher are built from it.                    *)
(*                                                                         *)
(* The queries follow child_block_ down the tree, so they are recursive    *)
(* functions on the numbers of blocks.                                     *)
(***************************************************************************)
EXTENDS ConfigParser

CONSTANTS
    Number,     \* the words that begin with a number, and the number
    Bytes       \* the characters of every symbol of Files

ASSUME SymbolsAssumption ==
    /\ \A w \in DOMAIN Number : Number[w] \in Int
    /\ Files \subseteq Seq(DOMAIN Bytes)
    /\ \A w \in DOMAIN Bytes : Bytes[w] \in Seq(0 .. 255)

VARIABLES
    phase,      \* where main is; "exited" and "crashed" are ends
    exitCode,   \* what main returned or exit() was given
    port,       \* port, an int
    authTime,   \* auth_time, a short
    credentials,\* credentials: a function from user names to passwords
    endpoint    \* the port the acceptor listens on, -1 before

mainVars == <<phase, exitCode, port, authTime, credentials, endpoint>>

NoEntries == [u \in {} |-> << >>]

-----------------------------------------------------------------------------
(* NginxConfig's queries.                                                  *)

Named(s, name) == s.tokens[1] = <<name>>

(* External: atoi reads the number a text begins with, 0 if there is none. *)
atoi(text) == IF text[1] \in DOMAIN Number THEN Number[text[1]] ELSE 0

Valid16(n) == IF n \in 0 .. 65535 THEN n ELSE -1

(* The statements `name <value>;' of a block.                              *)
Settings(b, name) ==
    {i \in DOMAIN blocks[b] : /\ blocks[b][i].child = NoChild
                              /\ Len(blocks[b][i].tokens) = 2
                              /\ Named(blocks[b][i], name)}

(* Mutant: blocks are asked even if the block itself has the setting.      *)
FindSettingDeep(name) ==
    LET find[b \in DOMAIN blocks] ==
          LET own  == Settings(b, name)
              subs == {i \in DOMAIN blocks[b] :
                          /\ blocks[b][i].child # NoChild
                          /\ find[blocks[b][i].child] # -1}
          IN  IF subs # {} THEN find[blocks[b][Min(subs)].child]
              ELSE IF own = {} THEN -1
              ELSE Valid16(atoi(blocks[b][Min(own)].tokens[2]))
    IN  find[1]

(* The first setting of the block itself, good or bad; if it has none, the *)
(* first of its blocks that finds a good one.                              *)
FindSetting(name) ==
    LET find[b \in DOMAIN blocks] ==
          LET own  == Settings(b, name)
              subs == {i \in DOMAIN blocks[b] :
                          /\ blocks[b][i].child # NoChild
                          /\ find[blocks[b][i].child] # -1}
          IN  IF own # {} THEN Valid16(atoi(blocks[b][Min(own)].tokens[2]))
              ELSE IF subs = {} THEN -1
              ELSE find[blocks[b][Min(subs)].child]
    IN  find[1]

get_config_port == FindSetting("port")
get_auth_time   == FindSetting("timer")

(* The credentials statement get_credentials comes to, going down the      *)
(* first block of every block; it looks no further.                        *)
NoStatement == [tokens |-> << >>, child |-> NoChild]

(* Mutant: the last block is followed, not the first.                      *)
CredentialsStatementLast ==
    LET find[b \in DOMAIN blocks] ==
          LET stops == {i \in DOMAIN blocks[b] : blocks[b][i].child # NoChild}
              s     == blocks[b][Max(stops)]
          IN  IF stops = {} THEN NoStatement
              ELSE IF Named(s, "credentials") THEN s ELSE find[s.child]
    IN  find[1]

CredentialsStatement ==
    LET find[b \in DOMAIN blocks] ==
          LET stops == {i \in DOMAIN blocks[b] :
                           \/ Named(blocks[b][i], "credentials")
                           \/ blocks[b][i].child # NoChild}
              s     == blocks[b][Min(stops)]
          IN  IF stops = {} THEN NoStatement
              ELSE IF Named(s, "credentials") THEN s ELSE find[s.child]
    IN  find[1]

Colon == 58
Text(symbols) == FlattenSeq([i \in DOMAIN symbols |-> Bytes[symbols[i]]])

(* credential.find(':') and the two substr()                               *)
Delimiter(text) == {i \in DOMAIN text : text[i] = Colon}
User(text)      == SubSeq(text, 1, Min(Delimiter(text)) - 1)
Password(text)  == SubSeq(text, Min(Delimiter(text)) + 1, Len(text))

(* Mutant: the first entry of a user counts.                               *)
EntriesFirst(b) ==
    LET entry == [i \in DOMAIN blocks[b] |-> Text(blocks[b][i].tokens[1])]
        is == {i \in DOMAIN blocks[b] : /\ Len(blocks[b][i].tokens) = 1
                                        /\ Delimiter(entry[i]) # {}}
    IN  [u \in {User(entry[i]) : i \in is} |->
            Password(entry[Min({i \in is : User(entry[i]) = u})])]

(* credentials[username] = password, for the statements of one word.       *)
Entries(b) ==
    LET entry == [i \in DOMAIN blocks[b] |-> Text(blocks[b][i].tokens[1])]
        is == {i \in DOMAIN blocks[b] : /\ Len(blocks[b][i].tokens) = 1
                                        /\ Delimiter(entry[i]) # {}}
    IN  [u \in {User(entry[i]) : i \in is} |->
            Password(entry[Max({i \in is : User(entry[i]) = u})])]

-----------------------------------------------------------------------------
(* initRequestHandlers: the location statements of the first `server' with *)
(* a block, and whether looking at them goes through a null child_block_   *)
(* or beyond the end of tokens_.                                           *)

ServerStatement ==
    LET is == {i \in DOMAIN blocks[1] : /\ Named(blocks[1][i], "server")
                                        /\ Len(blocks[1][i].tokens) = 1}
    IN  IF is = {} THEN NoStatement ELSE blocks[1][Min(is)]

(* Mutant: every statement of the server block is taken for a location.    *)
LocationsAll ==
    IF ServerStatement.child = NoChild THEN {}
    ELSE Range(blocks[ServerStatement.child])

Locations ==
    IF ServerStatement.child = NoChild THEN {}
    ELSE {s \in Range(blocks[ServerStatement.child]) : Named(s, "location")}

Undefined ==
    \/ ServerStatement # NoStatement /\ ServerStatement.child = NoChild
    \/ \E s \in Locations : Len(s.tokens) < 3 \/ s.child = NoChild

-----------------------------------------------------------------------------
(* main.                                                                   *)

(* Conversion of an int to short, and of a short to unsigned short.        *)
Short(n)    == ((n + 32768) % 65536) - 32768
Unsigned(n) == n % 65536

(* Mutant: the endpoint takes the short as it is.                          *)
ListenOnSigned(n) == Short(n)

(* static_cast<short>(port), and tcp::endpoint, whose port is unsigned.    *)
ListenOn(n) == Unsigned(Short(n))

StartInit ==
    /\ ParserInit
    /\ phase = "args"
    /\ exitCode = 0
    /\ port = -1
    /\ authTime = -1
    /\ credentials = NoEntries
    /\ endpoint = -1

Exit(code) ==
    /\ phase' = "exited"
    /\ exitCode' = code
    /\ UNCHANGED <<parseVars, port, authTime, credentials, endpoint>>

Crash ==
    /\ phase' = "crashed"
    /\ UNCHANGED <<parseVars, exitCode, port, authTime, credentials, endpoint>>

(* argc != 2                                                               *)
CheckArguments ==
    /\ phase = "args"
    /\ \/ Exit(1)
       \/ /\ phase' = "parse"
          /\ UNCHANGED <<parseVars, exitCode, port, authTime, credentials,
                         endpoint>>

ParseConfig ==
    /\ phase = "parse"
    /\ Parse
    /\ UNCHANGED mainVars

(* The parser's verdict, and the port.                                     *)
CheckPort ==
    /\ phase = "parse"
    /\ result \in {"accepted", "rejected"}
    /\ IF result = "rejected" \/ get_config_port = -1 THEN Exit(-1)
       ELSE /\ port' = get_config_port
            /\ phase' = "time"
            /\ UNCHANGED <<parseVars, exitCode, authTime, credentials,
                           endpoint>>

(* short auth_time = get_auth_time(): narrowed before it is compared.      *)
CheckTime ==
    /\ phase = "time"
    /\ IF Short(get_auth_time) = -1 THEN Exit(-1)
       ELSE /\ authTime' = Short(get_auth_time)
            /\ phase' = "credentials"
            /\ UNCHANGED <<parseVars, exitCode, port, credentials, endpoint>>

(* get_credentials(): `credentials;' has no block to look at.              *)
ReadCredentials ==
    /\ phase = "credentials"
    /\ LET s == CredentialsStatement
       IN  IF s # NoStatement /\ s.child = NoChild THEN Crash
           ELSE /\ credentials' = IF s = NoStatement THEN NoEntries
                                  ELSE Entries(s.child)
                /\ phase' = "listen"
                /\ UNCHANGED <<parseVars, exitCode, port, authTime, endpoint>>

(* server::server: the acceptor throws if it cannot have the port, which   *)
(* main catches; the dispatcher is filled; the server runs.                *)
BuildServer ==
    /\ phase = "listen"
    /\ \/ Exit(0)
       \/ Undefined /\ Crash
       \/ /\ ServerStatement # NoStatement => ServerStatement.child # NoChild
          /\ endpoint' = ListenOn(port)
          /\ phase' = "running"
          /\ UNCHANGED <<parseVars, exitCode, port, authTime, credentials>>

Start == CheckArguments \/ ParseConfig \/ CheckPort \/ CheckTime
         \/ ReadCredentials \/ BuildServer

-----------------------------------------------------------------------------
(* Properties.                                                             *)

(* The block around block b, for b > 1, and all the blocks around it:      *)
(* those that were begun before it and not ended.                          *)
Parent(b) == CHOOSE a \in DOMAIN blocks :
                \E i \in DOMAIN blocks[a] : blocks[a][i].child = b

Around(b) == LET up[n \in 1 .. b] == IF n = 1 THEN {}
                                     ELSE {Parent(n)} \cup up[Parent(n)]
             IN  up[b]

(* The name of the statement a block belongs to.                           *)
Heads(b, name) == b > 1 /\ \E i \in DOMAIN blocks[Parent(b)] :
                               /\ blocks[Parent(b)][i].child = b
                               /\ Named(blocks[Parent(b)][i], name)

(* The settings of a block that get_config_port calls valid.               *)
InRange(text) == atoi(text) \in 0 .. 65535
ValidSettings(b, name) ==
    {i \in Settings(b, name) : InRange(blocks[b][i].tokens[2])}

(* What the comment at config_parser.cc:276 and :299 promises: "Return the *)
(* first outer-most valid one if there are many, and -1 on error."         *)
Promised(name) ==
    LET outer == {b \in DOMAIN blocks :
                     /\ ValidSettings(b, name) # {}
                     /\ \A a \in Around(b) : ValidSettings(a, name) = {}}
        b     == Min(outer)
    IN  IF outer = {} THEN -1
        ELSE atoi(blocks[b][Min(ValidSettings(b, name))].tokens[2])

(* A valid setting stands behind a bad one: in a block, or inside a block, *)
(* whose first setting of that name is out of range.                       *)
Hidden(name) ==
    \E b, c \in DOMAIN blocks :
        /\ c = b \/ b \in Around(c)
        /\ ValidSettings(c, name) # {}
        /\ Settings(b, name) # {}
        /\ Min(Settings(b, name)) \notin ValidSettings(b, name)

AsPromised(name, n) == Hidden(name) \/ n = Promised(name)

(* The server listens on the port that the comments of the queries promise *)
(* for the whole file, though it is a short in between, and times sessions *)
(* out after the time they promise, if that fits a short; and it refuses a *)
(* good configuration only if one of the two is missing or the short is    *)
(* the error value.  Nothing is said of a setting behind a bad one, see    *)
(* FirstValidIsUsed.                                                       *)
SettingsArrive ==
    /\ phase = "running" =>
          /\ AsPromised("port", endpoint)
          /\ authTime >= 0 => AsPromised("timer", authTime)
    /\ phase = "exited" /\ exitCode = -1 /\ result = "accepted" =>
          \/ AsPromised("port", -1)
          \/ AsPromised("timer", -1)
          \/ AsPromised("timer", 65535)

(* The credentials are those of the first block of all, apart from the     *)
(* blocks it lies in, if that is a credentials block; with any other block *)
(* before it there are none.  No entry of that block is lost.              *)
CredentialsComeFirst ==
    phase \in {"listen", "running"} =>
        LET leads == {b \in DOMAIN blocks : /\ Heads(b, "credentials")
                                            /\ 1 .. b - 1 = Around(b)}
        IN  IF leads = {} THEN credentials = NoEntries
            ELSE LET b == Min(leads)
                 IN  \A i \in DOMAIN blocks[b] :
                        LET t == Text(blocks[b][i].tokens[1])
                        IN  /\ Len(blocks[b][i].tokens) = 1
                            /\ Delimiter(t) # {}
                            => User(t) \in DOMAIN credentials

(* A configuration in which every server, location and credentials         *)
(* statement has what it needs never crashes the program.                  *)
WellFormed ==
    \A b \in DOMAIN blocks : \A i \in DOMAIN blocks[b] :
        LET s == blocks[b][i]
        IN  /\ Named(s, "credentials") \/ Named(s, "server")
                   => s.child # NoChild
            /\ Named(s, "location") => Len(s.tokens) = 3 /\ s.child # NoChild

NoCrash == phase = "crashed" => ~WellFormed

-----------------------------------------------------------------------------
(* What comments say, and the code does not do.                            *)

(* config_parser.cc:299, "-1 on error", and :306, "Valid time range": a    *)
(* time in the range is not an error, and the server uses it.              *)
ValidTimeIsUsed ==
    /\ phase = "exited" /\ port # -1 /\ exitCode = -1 => get_auth_time = -1
    /\ phase = "running" => authTime = get_auth_time

(* config_parser.cc:276, "Return the first outer-most valid one if there   *)
(* are many": a port that is not valid is passed over, not taken for an    *)
(* error.                                                                  *)
FirstValidIsUsed ==
    /\ phase = "running" => endpoint = Promised("port")
    /\ phase = "exited" /\ exitCode = -1 /\ result = "accepted" /\ port = -1
          => Promised("port") = -1
=============================================================================
