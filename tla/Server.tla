------------------------------- MODULE Server -------------------------------
(***************************************************************************)
(* The accept loop of server.cc around the sessions of Session.tla, the    *)
(* clients, and the clock: everything the single io_service thread reacts  *)
(* to, and the properties of the server as a whole.                        *)
(***************************************************************************)
EXTENDS Session

ASSUME SessionsAssumption == Sessions # {} /\ Requests # {}

(* server::server: the acceptor listens and start_accept() has built the   *)
(* first session, whose last_auth_time_ is the time of its construction.   *)
(* The request of a session without a client is a placeholder.             *)
Init ==
    /\ now = 0
    /\ \E s \in Sessions :
          phase = [x \in Sessions |-> IF x = s THEN "accepting" ELSE "unborn"]
    /\ request = [s \in Sessions |-> CHOOSE r \in Requests : TRUE]
    /\ sent = [s \in Sessions |-> 0]
    /\ peer = [s \in Sessions |-> "open"]
    /\ buffer = [s \in Sessions |-> 0]
    /\ lastAuth = [s \in Sessions |-> 0]
    /\ reads = [s \in Sessions |-> 0]
    /\ writes = [s \in Sessions |-> {}]
    /\ response = [s \in Sessions |-> EmptyResponse]
    /\ shut = [s \in Sessions |-> FALSE]
    /\ issued = [s \in Sessions |-> 0]
    /\ expired = [s \in Sessions |-> 0]
    /\ dispatched = [s \in Sessions |-> 0]
    /\ dropped = [s \in Sessions |-> 0]
    /\ thrown = [s \in Sessions |-> 0]
    /\ received = [s \in Sessions |-> {}]
    /\ openedAt = [s \in Sessions |-> 0]

-----------------------------------------------------------------------------
(* The accept loop.                                                        *)

(* start_accept(): t, built now, waits in async_accept.                    *)
start_accept(t) == lastAuth' = [lastAuth EXCEPT ![t] = now]

(* Mutant: start_accept() is not called again.                             *)
HandleAcceptOnce(s, t, r) ==
    /\ phase[s] = "accepting"
    /\ phase' = [phase EXCEPT ![s] = "open"]
    /\ request' = [request EXCEPT ![s] = r]
    /\ openedAt' = [openedAt EXCEPT ![s] = now]
    /\ reads' = [reads EXCEPT ![s] = @ + 1]
    /\ UNCHANGED <<now, sent, peer, buffer, lastAuth, writes, response, shut,
                   issued, expired, historyVars, received>>

(* handle_accept(!error): session s, which waited for a client, gets one   *)
(* that will send r; start() begins to read, and start_accept() follows.   *)
HandleAccept(s, t, r) ==
    /\ phase[s] = "accepting"
    /\ phase[t] = "unborn"
    /\ phase' = [phase EXCEPT ![s] = "open", ![t] = "accepting"]
    /\ request' = [request EXCEPT ![s] = r]
    /\ openedAt' = [openedAt EXCEPT ![s] = now]
    /\ reads' = [reads EXCEPT ![s] = @ + 1]
    /\ start_accept(t)
    /\ UNCHANGED <<now, sent, peer, buffer, writes, response, shut, issued,
                   expired, historyVars, received>>

(* handle_accept(error): the session is dropped and start_accept() puts a  *)
(* newly built one, here under the same name, in its place.                *)
AcceptError(s) ==
    /\ phase[s] = "accepting"
    /\ start_accept(s)
    /\ UNCHANGED <<now, phase, clientVars, buffer, reads, writes, response,
                   shut, issued, expired, historyVars, received, openedAt>>

-----------------------------------------------------------------------------
(* External: the clients and the clock.                                    *)

serverVars == <<phase, request, buffer, lastAuth, reads, writes, response,
                shut, issued, expired, historyVars, received, openedAt>>

(* Bytes that arrive after shutdown(shutdown_both) are not queued: the     *)
(* kernel resets the connection, which ClientReset covers.                 *)
ClientSend(s) ==
    /\ phase[s] = "open"
    /\ peer[s] = "open"
    /\ ~shut[s]
    /\ sent[s] < MaxSend
    /\ sent' = [sent EXCEPT ![s] = @ + 1]
    /\ UNCHANGED <<now, peer, serverVars>>

ClientClose(s) ==
    /\ phase[s] = "open"
    /\ peer[s] = "open"
    /\ peer' = [peer EXCEPT ![s] = "closed"]
    /\ UNCHANGED <<now, sent, serverVars>>

ClientReset(s) ==
    /\ phase[s] = "open"
    /\ peer[s] # "reset"
    /\ peer' = [peer EXCEPT ![s] = "reset"]
    /\ UNCHANGED <<now, sent, serverVars>>

(* Time passes while the thread waits for an event.                        *)
Tick ==
    /\ now' = Later(1)
    /\ UNCHANGED <<sent, peer, serverVars>>

-----------------------------------------------------------------------------

Next ==
    \/ \E s, t \in Sessions, r \in Requests : HandleAccept(s, t, r)
    \/ \E s \in Sessions :
         \/ AcceptError(s)
         \/ ReadCallback(s)
         \/ WriteCallback(s)
         \/ ClientSend(s)
         \/ ClientClose(s)
         \/ ClientReset(s)
    \/ Tick

Spec == Init /\ [][Next]_vars

(* io_service::run() runs every handler whose operation is complete, and   *)
(* no handler blocks for ever; the client's kernel takes what is written.  *)
Fairness == \A s \in Sessions :
               WF_vars(ReadCallback(s)) /\ WF_vars(WriteCallback(s))

FairSpec == Spec /\ Fairness

-----------------------------------------------------------------------------
(* Safety.                                                                 *)

(* Types of all the state.                                                 *)
TypeOK ==
    /\ now \in Nat
    /\ phase \in [Sessions -> {"unborn", "accepting", "open"}]
    /\ request \in [Sessions -> Requests]
    /\ sent \in [Sessions -> Nat]
    /\ peer \in [Sessions -> {"open", "closed", "reset"}]
    /\ buffer \in [Sessions -> Nat]
    /\ lastAuth \in [Sessions -> Nat]
    /\ reads \in [Sessions -> Nat]
    /\ writes \in [Sessions -> SUBSET Write]
    /\ response \in [Sessions -> Message]
    /\ shut \in [Sessions -> BOOLEAN]
    /\ issued \in [Sessions -> Nat]
    /\ expired \in [Sessions -> Nat]
    /\ dispatched \in [Sessions -> Nat]
    /\ dropped \in [Sessions -> Nat]
    /\ thrown \in [Sessions -> Nat]
    /\ received \in [Sessions -> SUBSET Message]
    /\ openedAt \in [Sessions -> Nat]

(* The accept loop neither dies nor forks: whatever handle_accept sees,    *)
(* exactly one session waits in async_accept.                              *)
OneAccept ==
    \E s \in Sessions : \A x \in Sessions : phase[x] = "accepting" <=> x = s

(* Two async_read_some calls of one session would both write into the      *)
(* memory buffer_.prepare() returned; is_session_expired() starts a read   *)
(* from inside the read callback, and still there is never a second one.   *)
SingleReader == \A s \in Sessions : reads[s] =< 1

(* Every read the server completes for an accepted connection leads to     *)
(* exactly one of: a next read, a response, the end of the connection;     *)
(* only an expiry (handle_read() and 401) leads to two, and an exception   *)
(* after an operation was started to one more.                             *)
CallbackBalance ==
    \A s \in Sessions : phase[s] = "open" =>
        reads[s] + issued[s] + dropped[s] = 1 + expired[s] + thrown[s]

(* Two responses are outstanding on one socket, or response_ is changed    *)
(* under an outstanding write, only on a connection that expired or saw an *)
(* exception after an operation was started.                               *)
Regular(s) == expired[s] = 0 /\ thrown[s] = 0

OverlapOnlyAfterExpiry ==
    \A s \in Sessions : Regular(s) =>
        /\ \A v, w \in writes[s] : v.id = w.id
        /\ \A w \in writes[s] : w.message = response[s]

(* A session object without an outstanding operation is destroyed, and its *)
(* socket closed.                                                          *)
Released(s) == phase[s] = "open" /\ reads[s] = 0 /\ writes[s] = {}

(* A client that is still connected is not hung up on without an answer.   *)
NoClientAbandoned ==
    \A s \in Sessions :
        Released(s) /\ peer[s] = "open" => shut[s] /\ received[s] # {}

(* No client gets a 200, and so no handler's output, without a complete    *)
(* request with valid credentials; not even out of a torn response.        *)
SuccessIsAuthenticated ==
    \A s \in Sessions : \A m \in received[s] :
        m.status = 200 => /\ Put(request[s], buffer[s]) = "done"
                          /\ request[s].auth = "valid"
                          /\ dispatched[s] > 0

(* last_auth_time_ restarts with each expiry, so one connection is refused *)
(* for expiry at most once per AuthTime + 1 seconds of the server's life.  *)
ExpiryRate ==
    \A s \in Sessions : expired[s] * (AuthTime + 1) =< lastAuth[s]

(* A connection's request is handed to a handler at most once, though      *)
(* every callback parses it again from buffer_: after the dispatch no byte *)
(* of the connection is read and no further response is started.           *)
DispatchIsFinal ==
    [][\A s \in Sessions : dispatched[s] > 0 =>
          buffer'[s] = buffer[s] /\ issued'[s] = issued[s]]_vars

-----------------------------------------------------------------------------
(* The inductive invariant behind the safety properties, by parts.         *)

(* A session object that has no client yet is as its constructor left it.  *)
Untouched ==
    \A s \in Sessions : phase[s] # "open" =>
        /\ reads[s] = 0 /\ issued[s] = 0 /\ dropped[s] = 0
        /\ expired[s] = 0 /\ dispatched[s] = 0 /\ thrown[s] = 0
        /\ writes[s] = {} /\ received[s] = {}

(* Outstanding writes are numbered up to the last one, which is the one    *)
(* that sends what response_ holds.                                        *)
WriteIds ==
    \A s \in Sessions :
        /\ issued[s] = 0 => response[s] = EmptyResponse
        /\ \A w \in writes[s] :
             /\ 1 =< w.id /\ w.id =< issued[s]
             /\ w.id = issued[s] => w.message = response[s]

(* Until the socket is shut down or reset, the last write is outstanding   *)
(* and no outstanding write is bound to fail.                              *)
WritesPending ==
    \A s \in Sessions : ~CannotSend(s) =>
        /\ issued[s] > 0 => writes[s] # {}
        /\ \A w \in writes[s] : ~w.doomed

(* The server shuts a socket down only after a response went out, and      *)
(* gives up reading only when the client is gone or the socket shut down.  *)
EndsForAReason ==
    \A s \in Sessions :
        /\ shut[s] => received[s] # {}
        /\ dropped[s] > 0 => shut[s] \/ peer[s] # "open"

(* No read is outstanding once a handler ran.                              *)
HandlerLast == \A s \in Sessions : dispatched[s] > 0 => reads[s] = 0

(* A success is deserved by the bytes in buffer_.                          *)
Deserved(s, m) ==
    m.status = 200 => /\ Put(request[s], buffer[s]) = "done"
                      /\ request[s].auth = "valid"
                      /\ dispatched[s] > 0

AllDeserved ==
    \A s \in Sessions :
        /\ issued[s] > 0 => Deserved(s, response[s])
        /\ \A w \in writes[s] : Deserved(s, w.message)
        /\ \A m \in received[s] : Deserved(s, m)

(* Time does not run backwards.                                            *)
ClockOK == now =< MaxTime /\ \A s \in Sessions : lastAuth[s] =< now

Inv == /\ TypeOK
       /\ OneAccept
       /\ Untouched
       /\ SingleReader
       /\ CallbackBalance
       /\ WriteIds
       /\ WritesPending
       /\ EndsForAReason
       /\ HandlerLast
       /\ AllDeserved
       /\ ClockOK
       /\ ExpiryRate

-----------------------------------------------------------------------------
(* Liveness, under Fairness.                                               *)

(* A client that sends anything but a request with a body is answered,     *)
(* unless it resets the connection.                                        *)
Answered ==
    \A s \in Sessions :
        (sent[s] > 0 /\ (request[s].hasBody => ~request[s].wellformed))
            ~> (issued[s] > 0 \/ peer[s] = "reset")

(* Once a response was sent the session goes away: also the read that an   *)
(* expiry left outstanding ends.                                           *)
AnsweredIsReleased == \A s \in Sessions : shut[s] ~> Released(s)

-----------------------------------------------------------------------------
(* What comments and tests say, and the code does not do.                  *)

(* session.cc:87 and session_test.cc:195: the request that finds its       *)
(* session expired is unauthorized.  It is refused, and can be served too. *)
ExpiredRequestRefused ==
    \A s \in Sessions : expired[s] > 0 => dispatched[s] = 0

(* session_test.cc:183-190: the first good request of a session, sent at   *)
(* once, succeeds.  last_auth_time_ is older than the connection.          *)
FirstRequestInTime ==
    \A s \in Sessions :
        expired[s] > 0 => now - openedAt[s] > AuthTime

(* session.cc:138: the callback reads on until the request is complete,    *)
(* and then answers it.                                                    *)
BodyAnswered ==
    \A s \in Sessions :
        (sent[s] = MaxSend /\ request[s].hasBody /\ peer[s] = "open")
            ~> (issued[s] > 0 \/ peer[s] # "open")
=============================================================================
