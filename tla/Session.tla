------------------------------ MODULE Session ------------------------------
(***************************************************************************)
(* One TCP connection of the server: class session of session.cc, for a    *)
(* set of connections driven by one io_service thread.                     *)
(*                                                                         *)
(* session::handle_read and session::handle_write START an asynchronous    *)
(* operation; the matching callback runs later, and between the two other  *)
(* callbacks (of this session too) and the client may move.  A callback is *)
(* atomic: one thread runs io_service::run().  The outstanding operations  *)
(* are therefore state: `reads' counts the outstanding async_read_some     *)
(* calls, `writes' is the set of the outstanding http::async_write calls.  *)
(*                                                                         *)
(* Bytes are counted in units.  A client sends the units of ONE request,   *)
(* and possibly some more, on its connection; since the code never         *)
(* consumes buffer_ and builds a new parser for every callback, each       *)
(* callback parses that same first request again.                          *)
(***************************************************************************)
EXTENDS Integers

CONSTANTS
    Sessions,   \* the session objects the server may construct
    Requests,   \* the requests clients may send, see Request
    AuthTime,   \* session::auth_time_, a short, in seconds
    ReadMax,    \* units one async_read_some can return (4096 bytes)
    SleepTime,  \* seconds RequestHandlerSleep blocks the only thread (5)
    MaxSend,    \* bound: units a client sends on one connection
    MaxThrow,   \* bound: late exceptions on one connection, see thrown
    MaxTime     \* bound: where the model's clock stops

Routes == {"none", "reply", "error", "put", "sleep"}

(* A request, as far as the callback tells requests apart: the units of    *)
(* its header, whether the header parses, whether it announces a body,     *)
(* what its Authorization header holds, and what getRequestHandler and the *)
(* handler make of its target:                                             *)
(*   none   no handler: getRequestHandler returns nullptr                  *)
(*   reply  the handler answers 200 with a body of its own                 *)
(*   error  the handler answers an error status with a body of its own     *)
(*   put    RequestHandlerAPI's successful PUT, which sets no body         *)
(*   sleep  RequestHandlerSleep: as reply, after blocking the thread       *)
Request == [hdr: Nat \ {0}, wellformed: BOOLEAN, hasBody: BOOLEAN,
            auth: {"absent", "wrong", "valid"}, route: Routes]

ASSUME RequestsAssumption == Requests \subseteq Request
ASSUME AuthTimeAssumption == AuthTime \in -32768 .. 32767
ASSUME BoundsAssumption ==
    /\ ReadMax \in Nat \ {0}
    /\ SleepTime \in Nat
    /\ MaxSend \in Nat
    /\ MaxThrow \in Nat
    /\ MaxTime \in Nat

VARIABLES
    now,        \* std::chrono::steady_clock, in seconds
    phase,      \* "unborn", "accepting" (waits in async_accept) or "open"
    request,    \* the request the client of the session sends
    sent,       \* units of it that reached the socket
    peer,       \* the client's end: "open", "closed" (FIN) or "reset" (RST)
    buffer,     \* units committed to buffer_
    lastAuth,   \* last_auth_time_
    reads,      \* outstanding async_read_some operations
    writes,     \* outstanding http::async_write operations
    response,   \* response_
    shut,       \* socket_.shutdown(shutdown_both) was called
    issued,     \* history: writes started so far
    expired,    \* history: requests refused because the session expired
    dispatched, \* history: requests given to getRequestHandler
    dropped,    \* history: reads that ended in an error
    thrown,     \* history: responses of catch (...) beside an operation
    received,   \* history: the responses that were written out
    openedAt    \* history: when the connection was accepted

clientVars  == <<request, sent, peer>>
historyVars == <<dispatched, dropped, thrown>>
vars == <<now, phase, request, sent, peer, buffer, lastAuth, reads, writes,
          response, shut, issued, expired, dispatched, dropped, thrown,
          received, openedAt>>

Bodies  == {"empty", "handler", "text", "Unauthorized"}
Message == [status: {200, 400, 401, 404, 500}, body: Bodies,
            challenge: BOOLEAN]
Write   == [id: Nat, message: Message, doomed: BOOLEAN]

(* A default-constructed http::response: 200, no field, no body.           *)
EmptyResponse == [status |-> 200, body |-> "empty", challenge |-> FALSE]

(* response_ = http::response{status, 11} with a text body: every field of *)
(* the previous response is gone.                                          *)
Fresh(status) == [status |-> status, body |-> "text", challenge |-> FALSE]

(* The steady clock, stopping at the bound.                                *)
Later(t) == IF now + t > MaxTime THEN MaxTime ELSE now + t

-----------------------------------------------------------------------------
(* External: what the system does for the code.                            *)

(* parser.put(buffer_.data(), error) and parser.is_done() for n units.     *)
(* Beast's parser is not eager: it wants the whole header in one call and  *)
(* reports need_more, an error_code, when it is not there; it stops after  *)
(* the header, so is_done() holds only for a request without a body.       *)
Put(r, n) == IF n < r.hdr \/ ~r.wellformed THEN "error"
             ELSE IF r.hasBody THEN "more" ELSE "done"

(* A write started on a socket that is shut down or reset fails.           *)
CannotSend(s) == shut[s] \/ peer[s] = "reset"

(* The connection gives no more data: reset, or everything was read and    *)
(* either end has shut it down.                                            *)
AtEnd(s) == \/ peer[s] = "reset"
            \/ buffer[s] = sent[s] /\ (peer[s] = "closed" \/ shut[s])

-----------------------------------------------------------------------------
(* Starting operations.                                                    *)

(* http::async_write, which refers to response_ until it is done.          *)
async_write(s, message) ==
    /\ response' = [response EXCEPT ![s] = message]
    /\ issued' = [issued EXCEPT ![s] = @ + 1]
    /\ writes' = [writes EXCEPT ![s] = @ \cup
                    {[id |-> issued[s] + 1, message |-> message,
                      doomed |-> CannotSend(s)]}]

(* The write is started and the log call after it throws: catch (...)      *)
(* assigns response_ and starts another.                                   *)
async_write_caught(s, message) ==
    /\ response' = [response EXCEPT ![s] = Fresh(500)]
    /\ issued' = [issued EXCEPT ![s] = @ + 2]
    /\ writes' = [writes EXCEPT ![s] = @ \cup
                    {[id |-> issued[s] + 1, message |-> message,
                      doomed |-> CannotSend(s)],
                     [id |-> issued[s] + 2, message |-> Fresh(500),
                      doomed |-> CannotSend(s)]}]

(* One more exception came after an operation was started.                *)
Caught(s) ==
    /\ thrown[s] < MaxThrow
    /\ thrown' = [thrown EXCEPT ![s] = @ + 1]

(* Mutant: the response is built and handle_write() not called.            *)
handle_write_forgotten(s, message) ==
    /\ response' = [response EXCEPT ![s] = message]
    /\ UNCHANGED <<issued, writes, thrown>>

(* handle_write() inside the try block.                                    *)
handle_write(s, message) ==
    \/ async_write(s, message) /\ UNCHANGED thrown
    \/ async_write_caught(s, message) /\ Caught(s)

(* Mutants: handle_read() after every callback; handle_read() twice.       *)
handle_read_always(s, again) ==
    reads' = [reads EXCEPT ![s] = (@ - 1) + 1]

handle_read_twice(s, again) ==
    reads' = [reads EXCEPT ![s] = (@ - 1) + 2 * again]

(* The read callback ran: its operation is over, and `again' (0 or 1) is   *)
(* the number of handle_read() calls it made.                              *)
handle_read(s, again) ==
    reads' = [reads EXCEPT ![s] = (@ - 1) + again]

(* handle_read_callback(!error, n): n units are committed to buffer_.      *)
Receive(s, n) ==
    /\ reads[s] > 0
    /\ buffer[s] + n =< sent[s]
    /\ buffer' = [buffer EXCEPT ![s] = @ + n]
    /\ UNCHANGED <<phase, clientVars, shut, received, openedAt>>

Outcome(s, n) == Put(request[s], buffer[s] + n)

(* Mutant: >= for >.                                                       *)
is_session_expired_early(s) == now - lastAuth[s] >= AuthTime

is_session_expired(s) == now - lastAuth[s] > AuthTime

(* Mutant: any credentials will do.                                        *)
authenticate_any(s) == request[s].auth # "absent"

authenticate(s) == request[s].auth = "valid"

(* The message send_unauthorized_response() builds.                        *)
Unauthorized401 ==
    [status |-> 401, body |-> "Unauthorized", challenge |-> TRUE]

(* What handlers leave in response_: they change it in place, so the       *)
(* fields they do not set stay what they were.                             *)
Handled(status, body, old) ==
    [status |-> status, body |-> body, challenge |-> old.challenge]
Success(old)  == Handled(200, "handler", old)
NotFound(old) == Handled(404, "handler", old)
Updated(old)  == Handled(200, old.body, old)

(* What dispatching leaves in response_; without a handler, a new object.  *)
handleRequest(route, old) ==
    CASE route = "none"  -> Fresh(404)
      [] route = "error" -> NotFound(old)
      [] route = "put"   -> Updated(old)
      [] OTHER           -> Success(old)

(* When the handler returns: a sleeping one stops the only thread, so that *)
(* time passes and nothing else runs.                                      *)
Finished(route) == IF route = "sleep" THEN Later(SleepTime) ELSE now

-----------------------------------------------------------------------------
(* handle_read_callback, one action per way out.                           *)

(* put() failed: the header is malformed, or has not arrived completely.   *)
BadRequest(s, n) ==
    /\ Receive(s, n)
    /\ Outcome(s, n) = "error"
    /\ handle_write(s, Fresh(400))
    /\ handle_read(s, 0)
    /\ UNCHANGED <<now, lastAuth, expired, dispatched, dropped>>

(* The parser is not done: read more.  If the log call of handle_read()    *)
(* throws, the 500 goes out beside the new read.                           *)
ContinueReading(s, n) ==
    /\ Receive(s, n)
    /\ Outcome(s, n) = "more"
    /\ handle_read(s, 1)
    /\ \/ UNCHANGED <<response, issued, writes, thrown>>
       \/ async_write(s, Fresh(500)) /\ Caught(s)
    /\ UNCHANGED <<now, lastAuth, expired, dispatched, dropped>>

(* The session expired: is_session_expired() starts the timeout anew and   *)
(* calls handle_read(); the callback then sends 401, or 500 if a log call  *)
(* throws before it.                                                       *)
Expired(s, n) ==
    /\ Receive(s, n)
    /\ Outcome(s, n) = "done"
    /\ is_session_expired(s)
    /\ lastAuth' = [lastAuth EXCEPT ![s] = now]
    /\ handle_read(s, 1)
    /\ \/ handle_write(s, Unauthorized401)
       \/ async_write(s, Fresh(500)) /\ UNCHANGED thrown
    /\ expired' = [expired EXCEPT ![s] = @ + 1]
    /\ UNCHANGED <<now, dispatched, dropped>>

(* No Authorization header, or one that authenticate() refuses.            *)
Unauthorized(s, n) ==
    /\ Receive(s, n)
    /\ Outcome(s, n) = "done"
    /\ ~is_session_expired(s)
    /\ ~authenticate(s)
    /\ handle_write(s, Unauthorized401)
    /\ handle_read(s, 0)
    /\ UNCHANGED <<now, lastAuth, expired, dispatched, dropped>>

(* Authenticated: last_auth_time_ is renewed and the request dispatched.   *)
Dispatch(s, n) ==
    /\ Receive(s, n)
    /\ Outcome(s, n) = "done"
    /\ ~is_session_expired(s)
    /\ authenticate(s)
    /\ lastAuth' = [lastAuth EXCEPT ![s] = now]
    /\ dispatched' = [dispatched EXCEPT ![s] = @ + 1]
    /\ now' = Finished(request[s].route)
    /\ handle_write(s, handleRequest(request[s].route, response[s]))
    /\ handle_read(s, 0)
    /\ UNCHANGED <<expired, dropped>>

(* An exception (no memory, a failing log sink) when no operation has been *)
(* started: catch (...) answers 500.  By then is_session_expired() or      *)
(* authenticate() may have set last_auth_time_, or a handler have run.     *)
Throw(s, n) ==
    /\ Receive(s, n)
    /\ \/ UNCHANGED <<now, lastAuth, dispatched>>
       \/ /\ Outcome(s, n) = "done"
          /\ is_session_expired(s) \/ authenticate(s)
          /\ lastAuth' = [lastAuth EXCEPT ![s] = now]
          /\ UNCHANGED <<now, dispatched>>
       \/ /\ Outcome(s, n) = "done"
          /\ ~is_session_expired(s)
          /\ authenticate(s)
          /\ lastAuth' = [lastAuth EXCEPT ![s] = now]
          /\ dispatched' = [dispatched EXCEPT ![s] = @ + 1]
          /\ now' \in {now, Finished(request[s].route)}
    /\ async_write(s, Fresh(500))
    /\ handle_read(s, 0)
    /\ UNCHANGED <<expired, dropped, thrown>>

(* Mutants: the callback runs for a read nobody started; a failed read is  *)
(* tried again.                                                            *)
ReadErrorUnasked(s) ==
    /\ AtEnd(s)
    /\ handle_read(s, 0)
    /\ UNCHANGED <<now, phase, clientVars, buffer, lastAuth, writes, response,
                   shut, issued, expired, historyVars, received, openedAt>>

ReadErrorRetried(s) ==
    /\ reads[s] > 0
    /\ AtEnd(s)
    /\ handle_read(s, 1)
    /\ UNCHANGED <<now, phase, clientVars, buffer, lastAuth, writes, response,
                   shut, issued, expired, historyVars, received, openedAt>>

(* handle_read_callback(error): the session is left to its other           *)
(* outstanding operations, and destroyed if there is none.                 *)
ReadError(s) ==
    /\ reads[s] > 0
    /\ AtEnd(s)
    /\ handle_read(s, 0)
    /\ dropped' = [dropped EXCEPT ![s] = @ + 1]
    /\ UNCHANGED <<now, phase, clientVars, buffer, lastAuth, writes, response,
                   shut, issued, expired, dispatched, thrown, received,
                   openedAt>>

ReadCallback(s) ==
    \/ \E n \in 1 .. ReadMax :
         \/ BadRequest(s, n)
         \/ ContinueReading(s, n)
         \/ Expired(s, n)
         \/ Unauthorized(s, n)
         \/ Dispatch(s, n)
         \/ Throw(s, n)
    \/ ReadError(s)

-----------------------------------------------------------------------------
(* handle_write_callback.                                                  *)

(* What a write sends whose message is a and that finds b in response_: if *)
(* a later callback assigned response_ while the write was outstanding,    *)
(* any part of it may be the new one.                                      *)
Torn(a, b) == [status: {a.status, b.status}, body: {a.body, b.body},
               challenge: {a.challenge, b.challenge}]

(* Success: the socket is shut down in both directions.                    *)
WriteDone(s) ==
    \E w \in writes[s] :
        /\ ~w.doomed
        /\ writes' = [writes EXCEPT ![s] = @ \ {w}]
        /\ \E m \in Torn(w.message, response[s]) :
              received' = [received EXCEPT ![s] = @ \cup {m}]
        /\ shut' = [shut EXCEPT ![s] = TRUE]
        /\ UNCHANGED <<now, phase, clientVars, buffer, lastAuth, reads,
                       response, issued, expired, historyVars, openedAt>>

(* Failure: only logged; the socket is closed with the session.            *)
WriteError(s) ==
    \E w \in writes[s] :
        /\ w.doomed \/ CannotSend(s)
        /\ writes' = [writes EXCEPT ![s] = @ \ {w}]
        /\ UNCHANGED <<now, phase, clientVars, buffer, lastAuth, reads,
                       response, shut, issued, expired, historyVars, received,
                       openedAt>>

WriteCallback(s) == WriteDone(s) \/ WriteError(s)
=============================================================================
