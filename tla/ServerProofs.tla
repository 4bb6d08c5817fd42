---------------------------- MODULE ServerProofs ----------------------------
(***************************************************************************)
(* Proofs about Server, for every set of sessions and requests and every   *)
(* value of the bounds.                                                    *)
(***************************************************************************)
EXTENDS Server, TLAPS

USE DEF clientVars, historyVars, serverVars

(* The timeout is an integer.                                              *)
LEMMA AuthTimeInt == AuthTime \in Int
BY AuthTimeAssumption

(* A session that never expired is within any rate.                        *)
LEMMA NoneYet ==
    ASSUME NEW k \in Int, NEW e, NEW t, e = 0, t = 0
    PROVE  e * k =< t
OBVIOUS

(* The initial state satisfies the inductive invariant.                    *)
LEMMA InitInv == Init => Inv
<1> SUFFICES ASSUME Init PROVE Inv
  OBVIOUS
<1> USE SessionsAssumption, RequestsAssumption, BoundsAssumption DEF Init
<1>1. TypeOK
  BY DEF TypeOK, EmptyResponse, Message, Bodies
<1>2. OneAccept
  BY DEF OneAccept
<1>3. /\ Untouched /\ SingleReader /\ CallbackBalance
      /\ HandlerLast /\ EndsForAReason
  BY DEF Untouched, SingleReader, CallbackBalance, HandlerLast,
         EndsForAReason
<1>4. WriteIds /\ WritesPending /\ AllDeserved
  BY DEF WriteIds, WritesPending, AllDeserved
<1>5. ClockOK /\ ExpiryRate
  <2>1. now = 0 /\ \A s \in Sessions : lastAuth[s] = 0 /\ expired[s] = 0
    OBVIOUS
  <2>2. AuthTime + 1 \in Int
    BY ONLY AuthTimeInt
  <2>3. ASSUME NEW s \in Sessions
        PROVE  expired[s] * (AuthTime + 1) =< lastAuth[s]
    BY ONLY <2>1, <2>2, NoneYet
  <2> QED
    BY ONLY <2>1, <2>3, BoundsAssumption DEF ClockOK, ExpiryRate
<1> QED
  BY <1>1, <1>2, <1>3, <1>4, <1>5 DEF Inv

(* The responses the callbacks build are messages.                         *)
LEMMA MessagesOK ==
    /\ Fresh(400) \in Message
    /\ Fresh(404) \in Message
    /\ Fresh(500) \in Message
    /\ Unauthorized401 \in Message
    /\ \A route \in Routes, old \in Message :
          handleRequest(route, old) \in Message
<1>1. /\ Fresh(400) \in Message
      /\ Fresh(404) \in Message
      /\ Fresh(500) \in Message
      /\ Unauthorized401 \in Message
  BY DEF Fresh, Unauthorized401, Message, Bodies
<1>2. ASSUME NEW route \in Routes, NEW old \in Message
      PROVE  handleRequest(route, old) \in Message
  <2>1. old.body \in Bodies /\ old.challenge \in BOOLEAN
    BY DEF Message
  <2>2. /\ Success(old) \in Message
        /\ NotFound(old) \in Message
        /\ Updated(old) \in Message
    BY <2>1 DEF Success, NotFound, Updated, Handled, Message, Bodies
  <2> QED
    BY <1>1, <2>2 DEF handleRequest, Routes
<1> QED
  BY <1>1, <1>2

(* The saturating clock does not run backwards.                            *)
LEMMA LaterOK ==
    ASSUME now \in Nat, now =< MaxTime, NEW t \in Nat
    PROVE  /\ Later(t) \in Nat
           /\ now =< Later(t)
           /\ Later(t) =< MaxTime
BY BoundsAssumption DEF Later

(* What handle_write() may come to.                                        *)
LEMMA WriteCases ==
    ASSUME NEW s \in Sessions, NEW message, handle_write(s, message)
    PROVE  /\ async_write(s, message) \/ async_write_caught(s, message)
           /\ UNCHANGED thrown \/ Caught(s)
BY DEF handle_write

(* Counting an exception keeps the type of thrown.                         *)
LEMMA ThrownType ==
    ASSUME TypeOK, NEW s \in Sessions, UNCHANGED thrown \/ Caught(s)
    PROVE  thrown' \in [Sessions -> Nat]
BY DEF TypeOK, Caught

(* Starting a write keeps the types of what it changes.                    *)
LEMMA WriteType ==
    ASSUME TypeOK, NEW s \in Sessions, NEW message \in Message,
           async_write(s, message) \/ async_write_caught(s, message)
    PROVE  /\ response' \in [Sessions -> Message]
           /\ issued' \in [Sessions -> Nat]
           /\ writes' \in [Sessions -> SUBSET Write]
<1> DEFINE new(id, m) == [id |-> id, message |-> m, doomed |-> CannotSend(s)]
<1>1. CannotSend(s) \in BOOLEAN
  BY DEF CannotSend, TypeOK
<1>2. /\ new(issued[s] + 1, message) \in Write
      /\ new(issued[s] + 2, Fresh(500)) \in Write
  BY <1>1, MessagesOK DEF TypeOK, Write
<1>3. CASE async_write(s, message)
  BY <1>2, <1>3 DEF TypeOK, async_write
<1>4. CASE async_write_caught(s, message)
  BY <1>2, <1>4, MessagesOK DEF TypeOK, async_write_caught
<1> QED
  BY <1>3, <1>4

(* Completing a read keeps the type of reads.                              *)
LEMMA ReadType ==
    ASSUME TypeOK, NEW s \in Sessions, NEW again \in {0, 1}, reads[s] > 0,
           handle_read(s, again)
    PROVE  reads' \in [Sessions -> Nat]
BY DEF TypeOK, handle_read

(* What goes out under an outstanding write is a message.                  *)
LEMMA TornType ==
    ASSUME NEW a \in Message, NEW b \in Message
    PROVE  Torn(a, b) \subseteq Message
<1>1. /\ {a.status, b.status} \subseteq {200, 400, 401, 404, 500}
      /\ {a.body, b.body} \subseteq Bodies
      /\ {a.challenge, b.challenge} \subseteq BOOLEAN
  BY DEF Message
<1> QED
  BY <1>1 DEF Torn, Message

(* Type correctness is inductive.                                          *)
LEMMA TypeStep == TypeOK /\ ClockOK /\ [Next]_vars => TypeOK'
<1> SUFFICES ASSUME TypeOK, ClockOK, [Next]_vars PROVE TypeOK'
  OBVIOUS
<1>1. ASSUME NEW s \in Sessions, NEW t \in Sessions, NEW r \in Requests,
             HandleAccept(s, t, r)
      PROVE  TypeOK'
  BY <1>1 DEF HandleAccept, start_accept, TypeOK
<1>2. ASSUME NEW s \in Sessions, AcceptError(s) PROVE TypeOK'
  BY <1>2 DEF AcceptError, start_accept, TypeOK
<1>3. ASSUME NEW s \in Sessions, NEW n \in 1 .. ReadMax, BadRequest(s, n)
      PROVE  TypeOK'
  <2>1. reads[s] > 0 /\ handle_read(s, 0) /\ handle_write(s, Fresh(400))
    BY <1>3 DEF BadRequest, Receive
  <2>2. /\ reads' \in [Sessions -> Nat]
        /\ response' \in [Sessions -> Message]
        /\ issued' \in [Sessions -> Nat]
        /\ writes' \in [Sessions -> SUBSET Write]
        /\ thrown' \in [Sessions -> Nat]
    BY <2>1, ReadType, WriteType, WriteCases, ThrownType, MessagesOK
  <2> QED
    BY <1>3, <2>2, BoundsAssumption DEF BadRequest, Receive, TypeOK,
        handle_read
<1>4. ASSUME NEW s \in Sessions, NEW n \in 1 .. ReadMax, ContinueReading(s, n)
      PROVE  TypeOK'
  <2>1. /\ reads' \in [Sessions -> Nat]
        /\ thrown' \in [Sessions -> Nat]
    BY <1>4, ReadType, ThrownType DEF ContinueReading, Receive
  <2>2. /\ response' \in [Sessions -> Message]
        /\ issued' \in [Sessions -> Nat]
        /\ writes' \in [Sessions -> SUBSET Write]
    BY <1>4, WriteType, MessagesOK DEF ContinueReading, TypeOK
  <2> QED
    BY <1>4, <2>1, <2>2, BoundsAssumption DEF ContinueReading, Receive,
        TypeOK, handle_read
<1>5. ASSUME NEW s \in Sessions, NEW n \in 1 .. ReadMax, Expired(s, n)
      PROVE  TypeOK'
  <2>1. reads[s] > 0 /\ handle_read(s, 1)
    BY <1>5 DEF Expired, Receive
  <2>2. \/ handle_write(s, Unauthorized401)
        \/ async_write(s, Fresh(500)) /\ UNCHANGED thrown
    BY <1>5 DEF Expired
  <2>3. /\ reads' \in [Sessions -> Nat]
        /\ response' \in [Sessions -> Message]
        /\ issued' \in [Sessions -> Nat]
        /\ writes' \in [Sessions -> SUBSET Write]
        /\ thrown' \in [Sessions -> Nat]
    BY <2>1, <2>2, ReadType, WriteType, WriteCases, ThrownType, MessagesOK
  <2> QED
    BY <1>5, <2>3, BoundsAssumption DEF Expired, Receive, TypeOK, handle_read
<1>6. ASSUME NEW s \in Sessions, NEW n \in 1 .. ReadMax, Unauthorized(s, n)
      PROVE  TypeOK'
  <2>1. reads[s] > 0 /\ handle_read(s, 0) /\ handle_write(s, Unauthorized401)
    BY <1>6 DEF Unauthorized, Receive
  <2>2. /\ reads' \in [Sessions -> Nat]
        /\ response' \in [Sessions -> Message]
        /\ issued' \in [Sessions -> Nat]
        /\ writes' \in [Sessions -> SUBSET Write]
        /\ thrown' \in [Sessions -> Nat]
    BY <2>1, ReadType, WriteType, WriteCases, ThrownType, MessagesOK
  <2> QED
    BY <1>6, <2>2, BoundsAssumption DEF Unauthorized, Receive, TypeOK,
        handle_read
<1>7. ASSUME NEW s \in Sessions, NEW n \in 1 .. ReadMax, Dispatch(s, n)
      PROVE  TypeOK'
  <2> DEFINE m == handleRequest(request[s].route, response[s])
  <2>1. reads[s] > 0 /\ handle_read(s, 0) /\ handle_write(s, m)
    BY <1>7 DEF Dispatch, Receive
  <2>2. m \in Message
    BY MessagesOK, RequestsAssumption DEF TypeOK, Request
  <2>3. /\ reads' \in [Sessions -> Nat]
        /\ response' \in [Sessions -> Message]
        /\ issued' \in [Sessions -> Nat]
        /\ writes' \in [Sessions -> SUBSET Write]
        /\ thrown' \in [Sessions -> Nat]
    BY <2>1, <2>2, ReadType, WriteType, WriteCases, ThrownType
  <2>4. now' \in Nat
    BY <1>7, LaterOK, BoundsAssumption
       DEF Dispatch, Finished, TypeOK, ClockOK
  <2> QED
    BY <1>7, <2>3, <2>4, BoundsAssumption DEF Dispatch, Receive, TypeOK,
        handle_read
<1>8. ASSUME NEW s \in Sessions, NEW n \in 1 .. ReadMax, Throw(s, n)
      PROVE  TypeOK'
  <2>1. reads[s] > 0 /\ handle_read(s, 0) /\ async_write(s, Fresh(500))
    BY <1>8 DEF Throw, Receive
  <2>2. /\ reads' \in [Sessions -> Nat]
        /\ response' \in [Sessions -> Message]
        /\ issued' \in [Sessions -> Nat]
        /\ writes' \in [Sessions -> SUBSET Write]
    BY <2>1, ReadType, WriteType, MessagesOK
  <2>3. /\ lastAuth' \in [Sessions -> Nat]
        /\ dispatched' \in [Sessions -> Nat]
        /\ now' \in Nat
    BY <1>8, LaterOK, BoundsAssumption
       DEF Throw, Finished, TypeOK, ClockOK
  <2> QED
    BY <1>8, <2>2, <2>3, BoundsAssumption DEF Throw, Receive, TypeOK,
        handle_read
<1>9. ASSUME NEW s \in Sessions, ReadError(s) PROVE TypeOK'
  <2>1. reads' \in [Sessions -> Nat]
    BY <1>9, ReadType DEF ReadError
  <2> QED
    BY <1>9, <2>1 DEF ReadError, handle_read, TypeOK
<1>10. ASSUME NEW s \in Sessions, WriteDone(s) PROVE TypeOK'
  <2>1. PICK w \in writes[s] : WriteDone(s)!(w)
    BY <1>10 DEF WriteDone
  <2>2. Torn(w.message, response[s]) \subseteq Message
    BY TornType DEF TypeOK, Write
  <2>3. received' \in [Sessions -> SUBSET Message]
    BY <2>1, <2>2 DEF TypeOK
  <2> QED
    BY <2>1, <2>3 DEF TypeOK
<1>11. ASSUME NEW s \in Sessions, WriteError(s) PROVE TypeOK'
  BY <1>11 DEF WriteError, TypeOK
<1>12. ASSUME NEW s \in Sessions,
              ClientSend(s) \/ ClientClose(s) \/ ClientReset(s)
       PROVE  TypeOK'
  BY <1>12 DEF ClientSend, ClientClose, ClientReset, TypeOK
<1>13. CASE Tick
  BY <1>13, LaterOK DEF Tick, TypeOK, ClockOK
<1>14. CASE UNCHANGED vars
  BY <1>14 DEF vars, TypeOK
<1> QED
  BY <1>1, <1>2, <1>3, <1>4, <1>5, <1>6, <1>7, <1>8, <1>9, <1>10, <1>11,
     <1>12, <1>13, <1>14 DEF Next, ReadCallback, WriteCallback

(* Session objects without a client stay untouched.                        *)
LEMMA UntouchedStep == Inv /\ [Next]_vars => Untouched'
<1> SUFFICES ASSUME TypeOK, Untouched, [Next]_vars PROVE Untouched'
  BY DEF Inv
<1>1. ASSUME NEW s \in Sessions, NEW t \in Sessions, NEW r \in Requests,
             HandleAccept(s, t, r)
      PROVE  Untouched'
  BY <1>1 DEF HandleAccept, start_accept, TypeOK, Untouched
<1>2. ASSUME NEW s \in Sessions, AcceptError(s) PROVE Untouched'
  BY <1>2 DEF AcceptError, start_accept, TypeOK, Untouched
<1>3. ASSUME NEW s \in Sessions, NEW n \in 1 .. ReadMax, BadRequest(s, n)
      PROVE  Untouched'
  BY <1>3 DEF BadRequest, Receive, handle_read, handle_write, async_write,
      async_write_caught, Caught, TypeOK, Untouched
<1>4. ASSUME NEW s \in Sessions, NEW n \in 1 .. ReadMax, ContinueReading(s, n)
      PROVE  Untouched'
  BY <1>4 DEF ContinueReading, Receive, handle_read, async_write, Caught,
      TypeOK, Untouched
<1>5. ASSUME NEW s \in Sessions, NEW n \in 1 .. ReadMax, Expired(s, n)
      PROVE  Untouched'
  BY <1>5 DEF Expired, Receive, handle_read, handle_write, async_write,
      async_write_caught, Caught, TypeOK, Untouched
<1>6. ASSUME NEW s \in Sessions, NEW n \in 1 .. ReadMax, Unauthorized(s, n)
      PROVE  Untouched'
  BY <1>6 DEF Unauthorized, Receive, handle_read, handle_write, async_write,
      async_write_caught, Caught, TypeOK, Untouched
<1>7. ASSUME NEW s \in Sessions, NEW n \in 1 .. ReadMax, Dispatch(s, n)
      PROVE  Untouched'
  BY <1>7 DEF Dispatch, Receive, handle_read, handle_write, async_write,
      async_write_caught, Caught, TypeOK, Untouched
<1>8. ASSUME NEW s \in Sessions, NEW n \in 1 .. ReadMax, Throw(s, n)
      PROVE  Untouched'
  BY <1>8 DEF Throw, Receive, handle_read, async_write, TypeOK, Untouched
<1>9. ASSUME NEW s \in Sessions, ReadError(s) PROVE Untouched'
  BY <1>9 DEF ReadError, handle_read, TypeOK, Untouched
<1>10. ASSUME NEW s \in Sessions, WriteDone(s) PROVE Untouched'
  BY <1>10 DEF WriteDone, TypeOK, Untouched
<1>11. ASSUME NEW s \in Sessions, WriteError(s) PROVE Untouched'
  BY <1>11 DEF WriteError, TypeOK, Untouched
<1>12. ASSUME NEW s \in Sessions,
              ClientSend(s) \/ ClientClose(s) \/ ClientReset(s)
       PROVE  Untouched'
  BY <1>12 DEF ClientSend, ClientClose, ClientReset, TypeOK, Untouched
<1>13. CASE Tick
  BY <1>13 DEF Tick, TypeOK, Untouched
<1>14. CASE UNCHANGED vars
  BY <1>14 DEF vars, TypeOK, Untouched
<1> QED
  BY <1>1, <1>2, <1>3, <1>4, <1>5, <1>6, <1>7, <1>8, <1>9, <1>10, <1>11,
     <1>12, <1>13, <1>14 DEF Next, ReadCallback, WriteCallback

(* handle_accept hands over from one accepting session to one other.       *)
LEMMA OneAcceptStep == Inv /\ [Next]_vars => OneAccept'
<1> SUFFICES ASSUME TypeOK, OneAccept, [Next]_vars PROVE OneAccept'
  BY DEF Inv
<1>1. ASSUME NEW s \in Sessions, NEW t \in Sessions, NEW r \in Requests,
             HandleAccept(s, t, r)
      PROVE  OneAccept'
  BY <1>1 DEF HandleAccept, start_accept, TypeOK, OneAccept
<1>2. ASSUME NEW s \in Sessions, AcceptError(s) PROVE OneAccept'
  BY <1>2 DEF AcceptError, start_accept, TypeOK, OneAccept
<1>3. ASSUME NEW s \in Sessions, NEW n \in 1 .. ReadMax, BadRequest(s, n)
      PROVE  OneAccept'
  BY <1>3 DEF BadRequest, Receive, handle_read, TypeOK, OneAccept
<1>4. ASSUME NEW s \in Sessions, NEW n \in 1 .. ReadMax, ContinueReading(s, n)
      PROVE  OneAccept'
  BY <1>4 DEF ContinueReading, Receive, handle_read, TypeOK, OneAccept
<1>5. ASSUME NEW s \in Sessions, NEW n \in 1 .. ReadMax, Expired(s, n)
      PROVE  OneAccept'
  BY <1>5 DEF Expired, Receive, handle_read, TypeOK, OneAccept
<1>6. ASSUME NEW s \in Sessions, NEW n \in 1 .. ReadMax, Unauthorized(s, n)
      PROVE  OneAccept'
  BY <1>6 DEF Unauthorized, Receive, handle_read, TypeOK, OneAccept
<1>7. ASSUME NEW s \in Sessions, NEW n \in 1 .. ReadMax, Dispatch(s, n)
      PROVE  OneAccept'
  BY <1>7 DEF Dispatch, Receive, handle_read, TypeOK, OneAccept
<1>8. ASSUME NEW s \in Sessions, NEW n \in 1 .. ReadMax, Throw(s, n)
      PROVE  OneAccept'
  BY <1>8 DEF Throw, Receive, handle_read, TypeOK, OneAccept
<1>9. ASSUME NEW s \in Sessions, ReadError(s) PROVE OneAccept'
  BY <1>9 DEF ReadError, handle_read, TypeOK, OneAccept
<1>10. ASSUME NEW s \in Sessions, WriteDone(s) PROVE OneAccept'
  BY <1>10 DEF WriteDone, TypeOK, OneAccept
<1>11. ASSUME NEW s \in Sessions, WriteError(s) PROVE OneAccept'
  BY <1>11 DEF WriteError, TypeOK, OneAccept
<1>12. ASSUME NEW s \in Sessions,
              ClientSend(s) \/ ClientClose(s) \/ ClientReset(s)
       PROVE  OneAccept'
  BY <1>12 DEF ClientSend, ClientClose, ClientReset, TypeOK, OneAccept
<1>13. CASE Tick
  BY <1>13 DEF Tick, TypeOK, OneAccept
<1>14. CASE UNCHANGED vars
  BY <1>14 DEF vars, TypeOK, OneAccept
<1> QED
  BY <1>1, <1>2, <1>3, <1>4, <1>5, <1>6, <1>7, <1>8, <1>9, <1>10, <1>11,
     <1>12, <1>13, <1>14 DEF Next, ReadCallback, WriteCallback

(* handle_write() starts one write, and one more for a late exception.     *)
LEMMA WriteCount ==
    ASSUME TypeOK, NEW s \in Sessions, NEW message, handle_write(s, message)
    PROVE  \E late \in {0, 1} :
              /\ issued' = [issued EXCEPT ![s] = @ + (1 + late)]
              /\ thrown' = [thrown EXCEPT ![s] = @ + late]
<1>1. CASE async_write(s, message) /\ UNCHANGED thrown
  BY <1>1 DEF async_write, TypeOK
<1>2. CASE async_write_caught(s, message) /\ Caught(s)
  BY <1>2 DEF async_write_caught, Caught, TypeOK
<1> QED
  BY <1>1, <1>2 DEF handle_write

(* A callback that completes a read, calls handle_read() `again' times and *)
(* starts writes, counting expiries and exceptions as it goes.             *)
LEMMA BalanceKept ==
    ASSUME TypeOK, CallbackBalance, UNCHANGED <<phase, dropped>>,
           NEW s \in Sessions, NEW again \in {0, 1}, handle_read(s, again),
           NEW w \in Nat, NEW e \in Nat, NEW t \in Nat,
           again + w = 1 + e + t,
           issued' = [issued EXCEPT ![s] = @ + w],
           expired' = [expired EXCEPT ![s] = @ + e],
           thrown' = [thrown EXCEPT ![s] = @ + t]
    PROVE  CallbackBalance'
<1> SUFFICES ASSUME NEW x \in Sessions, phase[x] = "open"
             PROVE  reads'[x] + issued'[x] + dropped'[x]
                      = 1 + expired'[x] + thrown'[x]
  BY DEF CallbackBalance
<1>1. reads[x] + issued[x] + dropped[x] = 1 + expired[x] + thrown[x]
  BY DEF CallbackBalance
<1>2. /\ reads[x] \in Nat /\ issued[x] \in Nat /\ dropped[x] \in Nat
      /\ expired[x] \in Nat /\ thrown[x] \in Nat
  BY DEF TypeOK
<1>3. CASE x = s
  <2>1. /\ reads'[x] = (reads[x] - 1) + again
        /\ issued'[x] = issued[x] + w
        /\ expired'[x] = expired[x] + e
        /\ thrown'[x] = thrown[x] + t
        /\ dropped'[x] = dropped[x]
    BY <1>3 DEF TypeOK, handle_read
  <2> QED
    BY ONLY <1>1, <1>2, <2>1, again \in {0, 1}, w \in Nat, e \in Nat,
       t \in Nat, again + w = 1 + e + t
<1>4. CASE x # s
  <2>1. /\ reads'[x] = reads[x]
        /\ issued'[x] = issued[x]
        /\ expired'[x] = expired[x]
        /\ thrown'[x] = thrown[x]
        /\ dropped'[x] = dropped[x]
    BY <1>4 DEF TypeOK, handle_read
  <2> QED
    BY <1>1, <2>1
<1> QED
  BY <1>3, <1>4

(* Adding nothing changes nothing.                                         *)
LEMMA NoneMore ==
    ASSUME NEW f \in [Sessions -> Nat], NEW s \in Sessions
    PROVE  [f EXCEPT ![s] = @ + 0] = f
OBVIOUS

(* Each way out of a callback keeps the balance of operations.             *)
LEMMA BalanceStep == Inv /\ [Next]_vars => CallbackBalance'
<1> SUFFICES ASSUME TypeOK, Untouched, CallbackBalance, [Next]_vars
             PROVE  CallbackBalance'
  BY DEF Inv
<1>1. ASSUME NEW s \in Sessions, NEW t \in Sessions, NEW r \in Requests,
             HandleAccept(s, t, r)
      PROVE  CallbackBalance'
  BY <1>1 DEF HandleAccept, start_accept, TypeOK, CallbackBalance, Untouched
<1>2. ASSUME NEW s \in Sessions, AcceptError(s) PROVE CallbackBalance'
  BY <1>2 DEF AcceptError, start_accept, TypeOK, CallbackBalance
<1>3. ASSUME NEW s \in Sessions, NEW n \in 1 .. ReadMax, BadRequest(s, n)
      PROVE  CallbackBalance'
  <2>1. PICK late \in {0, 1} :
           /\ issued' = [issued EXCEPT ![s] = @ + (1 + late)]
           /\ thrown' = [thrown EXCEPT ![s] = @ + late]
    BY <1>3, WriteCount DEF BadRequest
  <2>2. expired' = [expired EXCEPT ![s] = @ + 0]
    BY <1>3, NoneMore DEF BadRequest, TypeOK
  <2>3. UNCHANGED <<phase, dropped>> /\ handle_read(s, 0)
    BY <1>3 DEF BadRequest, Receive
  <2>4. 1 + late \in Nat /\ late \in Nat /\ 0 + (1 + late) = 1 + 0 + late
    OBVIOUS
  <2> QED
    BY <2>1, <2>2, <2>3, <2>4, BalanceKept
<1>4. ASSUME NEW s \in Sessions, NEW n \in 1 .. ReadMax, ContinueReading(s, n)
      PROVE  CallbackBalance'
  <2>1. PICK late \in {0, 1} :
           /\ issued' = [issued EXCEPT ![s] = @ + late]
           /\ thrown' = [thrown EXCEPT ![s] = @ + late]
    BY <1>4, NoneMore DEF ContinueReading, async_write, Caught, TypeOK
  <2>2. expired' = [expired EXCEPT ![s] = @ + 0]
    BY <1>4, NoneMore DEF ContinueReading, TypeOK
  <2>3. UNCHANGED <<phase, dropped>> /\ handle_read(s, 1)
    BY <1>4 DEF ContinueReading, Receive
  <2>4. late \in Nat /\ 1 + late = 1 + 0 + late
    OBVIOUS
  <2> QED
    BY <2>1, <2>2, <2>3, <2>4, BalanceKept
<1>5. ASSUME NEW s \in Sessions, NEW n \in 1 .. ReadMax, Expired(s, n)
      PROVE  CallbackBalance'
  <2>1. PICK late \in {0, 1} :
           /\ issued' = [issued EXCEPT ![s] = @ + (1 + late)]
           /\ thrown' = [thrown EXCEPT ![s] = @ + late]
    <3>1. CASE handle_write(s, Unauthorized401)
      BY <3>1, WriteCount
    <3>2. CASE async_write(s, Fresh(500)) /\ UNCHANGED thrown
      BY <3>2, NoneMore DEF async_write, TypeOK
    <3> QED
      BY <1>5, <3>1, <3>2 DEF Expired
  <2>2. /\ expired' = [expired EXCEPT ![s] = @ + 1]
        /\ UNCHANGED <<phase, dropped>> /\ handle_read(s, 1)
    BY <1>5 DEF Expired, Receive
  <2>3. 1 + late \in Nat /\ late \in Nat /\ 1 + (1 + late) = 1 + 1 + late
    OBVIOUS
  <2> QED
    BY <2>1, <2>2, <2>3, BalanceKept
<1>6. ASSUME NEW s \in Sessions, NEW n \in 1 .. ReadMax, Unauthorized(s, n)
      PROVE  CallbackBalance'
  <2>1. PICK late \in {0, 1} :
           /\ issued' = [issued EXCEPT ![s] = @ + (1 + late)]
           /\ thrown' = [thrown EXCEPT ![s] = @ + late]
    BY <1>6, WriteCount DEF Unauthorized
  <2>2. expired' = [expired EXCEPT ![s] = @ + 0]
    BY <1>6, NoneMore DEF Unauthorized, TypeOK
  <2>3. UNCHANGED <<phase, dropped>> /\ handle_read(s, 0)
    BY <1>6 DEF Unauthorized, Receive
  <2>4. 1 + late \in Nat /\ late \in Nat /\ 0 + (1 + late) = 1 + 0 + late
    OBVIOUS
  <2> QED
    BY <2>1, <2>2, <2>3, <2>4, BalanceKept
<1>7. ASSUME NEW s \in Sessions, NEW n \in 1 .. ReadMax, Dispatch(s, n)
      PROVE  CallbackBalance'
  <2>1. PICK late \in {0, 1} :
           /\ issued' = [issued EXCEPT ![s] = @ + (1 + late)]
           /\ thrown' = [thrown EXCEPT ![s] = @ + late]
    BY <1>7, WriteCount DEF Dispatch
  <2>2. expired' = [expired EXCEPT ![s] = @ + 0]
    BY <1>7, NoneMore DEF Dispatch, TypeOK
  <2>3. UNCHANGED <<phase, dropped>> /\ handle_read(s, 0)
    BY <1>7 DEF Dispatch, Receive
  <2>4. 1 + late \in Nat /\ late \in Nat /\ 0 + (1 + late) = 1 + 0 + late
    OBVIOUS
  <2> QED
    BY <2>1, <2>2, <2>3, <2>4, BalanceKept
<1>8. ASSUME NEW s \in Sessions, NEW n \in 1 .. ReadMax, Throw(s, n)
      PROVE  CallbackBalance'
  BY <1>8 DEF Throw, Receive, handle_read, async_write, TypeOK,
      CallbackBalance
<1>9. ASSUME NEW s \in Sessions, ReadError(s) PROVE CallbackBalance'
  BY <1>9 DEF ReadError, handle_read, TypeOK, CallbackBalance, AtEnd
<1>10. ASSUME NEW s \in Sessions, WriteDone(s) PROVE CallbackBalance'
  BY <1>10 DEF WriteDone, TypeOK, CallbackBalance
<1>11. ASSUME NEW s \in Sessions, WriteError(s) PROVE CallbackBalance'
  BY <1>11 DEF WriteError, TypeOK, CallbackBalance
<1>12. ASSUME NEW s \in Sessions,
              ClientSend(s) \/ ClientClose(s) \/ ClientReset(s)
       PROVE  CallbackBalance'
  BY <1>12 DEF ClientSend, ClientClose, ClientReset, TypeOK, CallbackBalance
<1>13. CASE Tick
  BY <1>13 DEF Tick, TypeOK, CallbackBalance
<1>14. CASE UNCHANGED vars
  BY <1>14 DEF vars, TypeOK, CallbackBalance
<1> QED
  BY <1>1, <1>2, <1>3, <1>4, <1>5, <1>6, <1>7, <1>8, <1>9, <1>10, <1>11,
     <1>12, <1>13, <1>14 DEF Next, ReadCallback, WriteCallback

(* A callback that starts a read has just completed one.                   *)
LEMMA SingleReaderStep == Inv /\ [Next]_vars => SingleReader'
<1> SUFFICES ASSUME TypeOK, Untouched, SingleReader, [Next]_vars
             PROVE  SingleReader'
  BY DEF Inv
<1>1. ASSUME NEW s \in Sessions, NEW t \in Sessions, NEW r \in Requests,
             HandleAccept(s, t, r)
      PROVE  SingleReader'
  BY <1>1 DEF HandleAccept, start_accept, TypeOK, SingleReader, Untouched
<1>2. ASSUME NEW s \in Sessions, AcceptError(s) PROVE SingleReader'
  BY <1>2 DEF AcceptError, start_accept, TypeOK, SingleReader
<1>3. ASSUME NEW s \in Sessions, NEW n \in 1 .. ReadMax, BadRequest(s, n)
      PROVE  SingleReader'
  BY <1>3 DEF BadRequest, Receive, handle_read, TypeOK, SingleReader
<1>4. ASSUME NEW s \in Sessions, NEW n \in 1 .. ReadMax, ContinueReading(s, n)
      PROVE  SingleReader'
  BY <1>4 DEF ContinueReading, Receive, handle_read, TypeOK, SingleReader
<1>5. ASSUME NEW s \in Sessions, NEW n \in 1 .. ReadMax, Expired(s, n)
      PROVE  SingleReader'
  BY <1>5 DEF Expired, Receive, handle_read, TypeOK, SingleReader
<1>6. ASSUME NEW s \in Sessions, NEW n \in 1 .. ReadMax, Unauthorized(s, n)
      PROVE  SingleReader'
  BY <1>6 DEF Unauthorized, Receive, handle_read, TypeOK, SingleReader
<1>7. ASSUME NEW s \in Sessions, NEW n \in 1 .. ReadMax, Dispatch(s, n)
      PROVE  SingleReader'
  BY <1>7 DEF Dispatch, Receive, handle_read, TypeOK, SingleReader
<1>8. ASSUME NEW s \in Sessions, NEW n \in 1 .. ReadMax, Throw(s, n)
      PROVE  SingleReader'
  BY <1>8 DEF Throw, Receive, handle_read, TypeOK, SingleReader
<1>9. ASSUME NEW s \in Sessions, ReadError(s) PROVE SingleReader'
  BY <1>9 DEF ReadError, handle_read, TypeOK, SingleReader, AtEnd
<1>10. ASSUME NEW s \in Sessions, WriteDone(s) PROVE SingleReader'
  BY <1>10 DEF WriteDone, TypeOK, SingleReader
<1>11. ASSUME NEW s \in Sessions, WriteError(s) PROVE SingleReader'
  BY <1>11 DEF WriteError, TypeOK, SingleReader
<1>12. ASSUME NEW s \in Sessions,
              ClientSend(s) \/ ClientClose(s) \/ ClientReset(s)
       PROVE  SingleReader'
  BY <1>12 DEF ClientSend, ClientClose, ClientReset, TypeOK, SingleReader
<1>13. CASE Tick
  BY <1>13 DEF Tick, TypeOK, SingleReader
<1>14. CASE UNCHANGED vars
  BY <1>14 DEF vars, TypeOK, SingleReader
<1> QED
  BY <1>1, <1>2, <1>3, <1>4, <1>5, <1>6, <1>7, <1>8, <1>9, <1>10, <1>11,
     <1>12, <1>13, <1>14 DEF Next, ReadCallback, WriteCallback

(* Dispatch starts no read, and no read can start without a read.          *)
LEMMA HandlerLastStep == Inv /\ [Next]_vars => HandlerLast'
<1> SUFFICES ASSUME TypeOK, Untouched, SingleReader, HandlerLast, [Next]_vars
             PROVE  HandlerLast'
  BY DEF Inv
<1>1. ASSUME NEW s \in Sessions, NEW t \in Sessions, NEW r \in Requests,
             HandleAccept(s, t, r)
      PROVE  HandlerLast'
  BY <1>1 DEF HandleAccept, start_accept, TypeOK, HandlerLast, Untouched
<1>2. ASSUME NEW s \in Sessions, AcceptError(s) PROVE HandlerLast'
  BY <1>2 DEF AcceptError, start_accept, TypeOK, HandlerLast
<1>3. ASSUME NEW s \in Sessions, NEW n \in 1 .. ReadMax, BadRequest(s, n)
      PROVE  HandlerLast'
  BY <1>3 DEF BadRequest, Receive, handle_read, TypeOK, HandlerLast
<1>4. ASSUME NEW s \in Sessions, NEW n \in 1 .. ReadMax, ContinueReading(s, n)
      PROVE  HandlerLast'
  BY <1>4 DEF ContinueReading, Receive, handle_read, TypeOK, HandlerLast
<1>5. ASSUME NEW s \in Sessions, NEW n \in 1 .. ReadMax, Expired(s, n)
      PROVE  HandlerLast'
  BY <1>5 DEF Expired, Receive, handle_read, TypeOK, HandlerLast
<1>6. ASSUME NEW s \in Sessions, NEW n \in 1 .. ReadMax, Unauthorized(s, n)
      PROVE  HandlerLast'
  BY <1>6 DEF Unauthorized, Receive, handle_read, TypeOK, HandlerLast
<1>7. ASSUME NEW s \in Sessions, NEW n \in 1 .. ReadMax, Dispatch(s, n)
      PROVE  HandlerLast'
  BY <1>7 DEF Dispatch, Receive, handle_read, TypeOK, HandlerLast,
      SingleReader
<1>8. ASSUME NEW s \in Sessions, NEW n \in 1 .. ReadMax, Throw(s, n)
      PROVE  HandlerLast'
  BY <1>8 DEF Throw, Receive, handle_read, TypeOK, HandlerLast, SingleReader
<1>9. ASSUME NEW s \in Sessions, ReadError(s) PROVE HandlerLast'
  BY <1>9 DEF ReadError, handle_read, TypeOK, HandlerLast, AtEnd
<1>10. ASSUME NEW s \in Sessions, WriteDone(s) PROVE HandlerLast'
  BY <1>10 DEF WriteDone, TypeOK, HandlerLast
<1>11. ASSUME NEW s \in Sessions, WriteError(s) PROVE HandlerLast'
  BY <1>11 DEF WriteError, TypeOK, HandlerLast
<1>12. ASSUME NEW s \in Sessions,
              ClientSend(s) \/ ClientClose(s) \/ ClientReset(s)
       PROVE  HandlerLast'
  BY <1>12 DEF ClientSend, ClientClose, ClientReset, TypeOK, HandlerLast
<1>13. CASE Tick
  BY <1>13 DEF Tick, TypeOK, HandlerLast
<1>14. CASE UNCHANGED vars
  BY <1>14 DEF vars, TypeOK, HandlerLast
<1> QED
  BY <1>1, <1>2, <1>3, <1>4, <1>5, <1>6, <1>7, <1>8, <1>9, <1>10, <1>11,
     <1>12, <1>13, <1>14 DEF Next, ReadCallback, WriteCallback

(* Connections end for a reason.                                           *)
LEMMA EndsStep == Inv /\ [Next]_vars => EndsForAReason'
<1> SUFFICES ASSUME TypeOK, EndsForAReason, [Next]_vars PROVE EndsForAReason'
  BY DEF Inv
<1>1. ASSUME NEW s \in Sessions, NEW t \in Sessions, NEW r \in Requests,
             HandleAccept(s, t, r)
      PROVE  EndsForAReason'
  BY <1>1 DEF HandleAccept, start_accept, TypeOK, EndsForAReason
<1>2. ASSUME NEW s \in Sessions, AcceptError(s) PROVE EndsForAReason'
  BY <1>2 DEF AcceptError, start_accept, TypeOK, EndsForAReason
<1>3. ASSUME NEW s \in Sessions, NEW n \in 1 .. ReadMax, BadRequest(s, n)
      PROVE  EndsForAReason'
  BY <1>3 DEF BadRequest, Receive, handle_read, TypeOK, EndsForAReason
<1>4. ASSUME NEW s \in Sessions, NEW n \in 1 .. ReadMax, ContinueReading(s, n)
      PROVE  EndsForAReason'
  BY <1>4 DEF ContinueReading, Receive, handle_read, TypeOK, EndsForAReason
<1>5. ASSUME NEW s \in Sessions, NEW n \in 1 .. ReadMax, Expired(s, n)
      PROVE  EndsForAReason'
  BY <1>5 DEF Expired, Receive, handle_read, TypeOK, EndsForAReason
<1>6. ASSUME NEW s \in Sessions, NEW n \in 1 .. ReadMax, Unauthorized(s, n)
      PROVE  EndsForAReason'
  BY <1>6 DEF Unauthorized, Receive, handle_read, TypeOK, EndsForAReason
<1>7. ASSUME NEW s \in Sessions, NEW n \in 1 .. ReadMax, Dispatch(s, n)
      PROVE  EndsForAReason'
  BY <1>7 DEF Dispatch, Receive, handle_read, TypeOK, EndsForAReason
<1>8. ASSUME NEW s \in Sessions, NEW n \in 1 .. ReadMax, Throw(s, n)
      PROVE  EndsForAReason'
  BY <1>8 DEF Throw, Receive, handle_read, TypeOK, EndsForAReason
<1>9. ASSUME NEW s \in Sessions, ReadError(s) PROVE EndsForAReason'
  BY <1>9 DEF ReadError, handle_read, TypeOK, EndsForAReason, AtEnd
<1>10. ASSUME NEW s \in Sessions, WriteDone(s) PROVE EndsForAReason'
  BY <1>10 DEF WriteDone, TypeOK, EndsForAReason
<1>11. ASSUME NEW s \in Sessions, WriteError(s) PROVE EndsForAReason'
  BY <1>11 DEF WriteError, TypeOK, EndsForAReason
<1>12. ASSUME NEW s \in Sessions,
              ClientSend(s) \/ ClientClose(s) \/ ClientReset(s)
       PROVE  EndsForAReason'
  BY <1>12 DEF ClientSend, ClientClose, ClientReset, TypeOK, EndsForAReason
<1>13. CASE Tick
  BY <1>13 DEF Tick, TypeOK, EndsForAReason
<1>14. CASE UNCHANGED vars
  BY <1>14 DEF vars, TypeOK, EndsForAReason
<1> QED
  BY <1>1, <1>2, <1>3, <1>4, <1>5, <1>6, <1>7, <1>8, <1>9, <1>10, <1>11,
     <1>12, <1>13, <1>14 DEF Next, ReadCallback, WriteCallback

(* Time does not run backwards.                                            *)
LEMMA ClockStep == Inv /\ [Next]_vars => ClockOK'
<1> SUFFICES ASSUME TypeOK, ClockOK, [Next]_vars PROVE ClockOK'
  BY DEF Inv
<1>1. ASSUME NEW s \in Sessions, NEW t \in Sessions, NEW r \in Requests,
             HandleAccept(s, t, r)
      PROVE  ClockOK'
  BY <1>1 DEF HandleAccept, start_accept, TypeOK, ClockOK
<1>2. ASSUME NEW s \in Sessions, AcceptError(s) PROVE ClockOK'
  BY <1>2 DEF AcceptError, start_accept, TypeOK, ClockOK
<1>3. ASSUME NEW s \in Sessions, NEW n \in 1 .. ReadMax, BadRequest(s, n)
      PROVE  ClockOK'
  BY <1>3 DEF BadRequest, Receive, handle_read, TypeOK, ClockOK
<1>4. ASSUME NEW s \in Sessions, NEW n \in 1 .. ReadMax, ContinueReading(s, n)
      PROVE  ClockOK'
  BY <1>4 DEF ContinueReading, Receive, handle_read, TypeOK, ClockOK
<1>5. ASSUME NEW s \in Sessions, NEW n \in 1 .. ReadMax, Expired(s, n)
      PROVE  ClockOK'
  BY <1>5 DEF Expired, Receive, handle_read, TypeOK, ClockOK
<1>6. ASSUME NEW s \in Sessions, NEW n \in 1 .. ReadMax, Unauthorized(s, n)
      PROVE  ClockOK'
  BY <1>6 DEF Unauthorized, Receive, handle_read, TypeOK, ClockOK
<1>7. ASSUME NEW s \in Sessions, NEW n \in 1 .. ReadMax, Dispatch(s, n)
      PROVE  ClockOK'
  BY <1>7, LaterOK, BoundsAssumption DEF Dispatch, Finished, Receive,
      handle_read, TypeOK, ClockOK
<1>8. ASSUME NEW s \in Sessions, NEW n \in 1 .. ReadMax, Throw(s, n)
      PROVE  ClockOK'
  BY <1>8, LaterOK, BoundsAssumption DEF Throw, Finished, Receive,
      handle_read, TypeOK, ClockOK
<1>9. ASSUME NEW s \in Sessions, ReadError(s) PROVE ClockOK'
  BY <1>9 DEF ReadError, handle_read, TypeOK, ClockOK
<1>10. ASSUME NEW s \in Sessions, WriteDone(s) PROVE ClockOK'
  BY <1>10 DEF WriteDone, TypeOK, ClockOK
<1>11. ASSUME NEW s \in Sessions, WriteError(s) PROVE ClockOK'
  BY <1>11 DEF WriteError, TypeOK, ClockOK
<1>12. ASSUME NEW s \in Sessions,
              ClientSend(s) \/ ClientClose(s) \/ ClientReset(s)
       PROVE  ClockOK'
  BY <1>12 DEF ClientSend, ClientClose, ClientReset, TypeOK, ClockOK
<1>13. CASE Tick
  BY <1>13, LaterOK, BoundsAssumption DEF Tick, TypeOK, ClockOK
<1>14. CASE UNCHANGED vars
  BY <1>14 DEF vars, TypeOK, ClockOK
<1> QED
  BY <1>1, <1>2, <1>3, <1>4, <1>5, <1>6, <1>7, <1>8, <1>9, <1>10, <1>11,
     <1>12, <1>13, <1>14 DEF Next, ReadCallback, WriteCallback

(* A new write is the last one and sends the new response_.                *)
LEMMA WriteIdsStep == Inv /\ [Next]_vars => WriteIds'
<1> SUFFICES ASSUME TypeOK, WriteIds, [Next]_vars PROVE WriteIds'
  BY DEF Inv
<1>1. ASSUME NEW s \in Sessions, NEW t \in Sessions, NEW r \in Requests,
             HandleAccept(s, t, r)
      PROVE  WriteIds'
  BY <1>1 DEF HandleAccept, start_accept, TypeOK, Write, WriteIds
<1>2. ASSUME NEW s \in Sessions, AcceptError(s) PROVE WriteIds'
  BY <1>2 DEF AcceptError, start_accept, TypeOK, Write, WriteIds
<1>3. ASSUME NEW s \in Sessions, NEW n \in 1 .. ReadMax, BadRequest(s, n)
      PROVE  WriteIds'
  BY <1>3 DEF BadRequest, Receive, handle_read, handle_write, async_write,
      async_write_caught, Caught, TypeOK, Write, WriteIds
<1>4. ASSUME NEW s \in Sessions, NEW n \in 1 .. ReadMax, ContinueReading(s, n)
      PROVE  WriteIds'
  BY <1>4 DEF ContinueReading, Receive, handle_read, async_write, Caught,
      TypeOK, Write, WriteIds
<1>5. ASSUME NEW s \in Sessions, NEW n \in 1 .. ReadMax, Expired(s, n)
      PROVE  WriteIds'
  BY <1>5 DEF Expired, Receive, handle_read, handle_write, async_write,
      async_write_caught, Caught, TypeOK, Write, WriteIds
<1>6. ASSUME NEW s \in Sessions, NEW n \in 1 .. ReadMax, Unauthorized(s, n)
      PROVE  WriteIds'
  BY <1>6 DEF Unauthorized, Receive, handle_read, handle_write, async_write,
      async_write_caught, Caught, TypeOK, Write, WriteIds
<1>7. ASSUME NEW s \in Sessions, NEW n \in 1 .. ReadMax, Dispatch(s, n)
      PROVE  WriteIds'
  BY <1>7 DEF Dispatch, Receive, handle_read, handle_write, async_write,
      async_write_caught, Caught, TypeOK, Write, WriteIds
<1>8. ASSUME NEW s \in Sessions, NEW n \in 1 .. ReadMax, Throw(s, n)
      PROVE  WriteIds'
  BY <1>8 DEF Throw, Receive, handle_read, async_write, TypeOK, Write,
      WriteIds
<1>9. ASSUME NEW s \in Sessions, ReadError(s) PROVE WriteIds'
  BY <1>9 DEF ReadError, handle_read, TypeOK, Write, WriteIds
<1>10. ASSUME NEW s \in Sessions, WriteDone(s) PROVE WriteIds'
  BY <1>10 DEF WriteDone, TypeOK, Write, WriteIds
<1>11. ASSUME NEW s \in Sessions, WriteError(s) PROVE WriteIds'
  BY <1>11 DEF WriteError, TypeOK, Write, WriteIds
<1>12. ASSUME NEW s \in Sessions,
              ClientSend(s) \/ ClientClose(s) \/ ClientReset(s)
       PROVE  WriteIds'
  BY <1>12 DEF ClientSend, ClientClose, ClientReset, TypeOK, Write, WriteIds
<1>13. CASE Tick
  BY <1>13 DEF Tick, TypeOK, Write, WriteIds
<1>14. CASE UNCHANGED vars
  BY <1>14 DEF vars, TypeOK, Write, WriteIds
<1> QED
  BY <1>1, <1>2, <1>3, <1>4, <1>5, <1>6, <1>7, <1>8, <1>9, <1>10, <1>11,
     <1>12, <1>13, <1>14 DEF Next, ReadCallback, WriteCallback

(* Starting a write on a usable socket leaves it outstanding, and not      *)
(* doomed.                                                                 *)
LEMMA PendingWrite ==
    ASSUME TypeOK, WritesPending, NEW s \in Sessions,
           NEW message \in Message,
           async_write(s, message) \/ async_write_caught(s, message),
           UNCHANGED <<shut, peer>>
    PROVE  WritesPending'
<1> SUFFICES ASSUME NEW x \in Sessions, ~CannotSend(x)'
             PROVE  /\ writes'[x] # {} \/ issued'[x] = 0
                    /\ \A w \in writes'[x] : ~w.doomed
  BY WriteType DEF WritesPending, TypeOK
<1>1. ~CannotSend(x)
  BY DEF CannotSend
<1>2. CASE x # s
  <2>1. writes'[x] = writes[x] /\ issued'[x] = issued[x]
    BY <1>2 DEF async_write, async_write_caught, TypeOK
  <2> QED
    BY <1>1, <2>1 DEF WritesPending, TypeOK
<1>3. CASE x = s
  <2> DEFINE new(id, m) == [id |-> id, message |-> m,
                            doomed |-> CannotSend(s)]
             first  == new(issued[s] + 1, message)
             second == new(issued[s] + 2, Fresh(500))
  <2>1. \/ writes'[s] = writes[s] \cup {first}
        \/ writes'[s] = writes[s] \cup {first, second}
    BY DEF async_write, async_write_caught, TypeOK
  <2>2. first.doomed = CannotSend(s) /\ second.doomed = CannotSend(s)
    OBVIOUS
  <2>3. ~first.doomed /\ ~second.doomed
    BY <1>1, <1>3, <2>2
  <2> HIDE DEF first, second
  <2>4. \A w \in writes[s] : ~w.doomed
    BY <1>1, <1>3 DEF WritesPending
  <2> QED
    BY <1>3, <2>1, <2>3, <2>4
<1> QED
  BY <1>2, <1>3

(* A socket loses a write only when it is shut down or reset.              *)
LEMMA PendingStep == Inv /\ [Next]_vars => WritesPending'
<1> SUFFICES ASSUME TypeOK, WritesPending, [Next]_vars PROVE WritesPending'
  BY DEF Inv
<1>1. ASSUME NEW s \in Sessions, NEW t \in Sessions, NEW r \in Requests,
             HandleAccept(s, t, r)
      PROVE  WritesPending'
  BY <1>1 DEF HandleAccept, start_accept, TypeOK, Write, WritesPending,
      CannotSend
<1>2. ASSUME NEW s \in Sessions, AcceptError(s) PROVE WritesPending'
  BY <1>2 DEF AcceptError, start_accept, TypeOK, Write, WritesPending,
      CannotSend
<1>3. ASSUME NEW s \in Sessions, NEW n \in 1 .. ReadMax, BadRequest(s, n)
      PROVE  WritesPending'
  <2>1. UNCHANGED <<shut, peer>> /\ handle_write(s, Fresh(400))
    BY <1>3 DEF BadRequest, Receive
  <2> QED
    BY <2>1, MessagesOK, WriteCases, PendingWrite
<1>4. ASSUME NEW s \in Sessions, NEW n \in 1 .. ReadMax, ContinueReading(s, n)
      PROVE  WritesPending'
  <2>1. CASE UNCHANGED <<response, issued, writes, thrown>>
    BY <1>4, <2>1 DEF ContinueReading, Receive, TypeOK, Write,
        WritesPending, CannotSend
  <2>2. CASE async_write(s, Fresh(500))
    BY <1>4, <2>2, MessagesOK, PendingWrite DEF ContinueReading, Receive
  <2> QED
    BY <1>4, <2>1, <2>2 DEF ContinueReading
<1>5. ASSUME NEW s \in Sessions, NEW n \in 1 .. ReadMax, Expired(s, n)
      PROVE  WritesPending'
  <2>1. UNCHANGED <<shut, peer>>
    BY <1>5 DEF Expired, Receive
  <2>2. handle_write(s, Unauthorized401) \/ async_write(s, Fresh(500))
    BY <1>5 DEF Expired
  <2> QED
    BY <2>1, <2>2, MessagesOK, WriteCases, PendingWrite
<1>6. ASSUME NEW s \in Sessions, NEW n \in 1 .. ReadMax, Unauthorized(s, n)
      PROVE  WritesPending'
  <2>1. UNCHANGED <<shut, peer>> /\ handle_write(s, Unauthorized401)
    BY <1>6 DEF Unauthorized, Receive
  <2> QED
    BY <2>1, MessagesOK, WriteCases, PendingWrite
<1>7. ASSUME NEW s \in Sessions, NEW n \in 1 .. ReadMax, Dispatch(s, n)
      PROVE  WritesPending'
  <2>1. /\ UNCHANGED <<shut, peer>>
        /\ handle_write(s, handleRequest(request[s].route, response[s]))
    BY <1>7 DEF Dispatch, Receive
  <2>2. handleRequest(request[s].route, response[s]) \in Message
    BY MessagesOK, RequestsAssumption DEF TypeOK, Request
  <2> QED
    BY <2>1, <2>2, WriteCases, PendingWrite
<1>8. ASSUME NEW s \in Sessions, NEW n \in 1 .. ReadMax, Throw(s, n)
      PROVE  WritesPending'
  <2>1. UNCHANGED <<shut, peer>> /\ async_write(s, Fresh(500))
    BY <1>8 DEF Throw, Receive
  <2> QED
    BY <2>1, MessagesOK, PendingWrite
<1>9. ASSUME NEW s \in Sessions, ReadError(s) PROVE WritesPending'
  BY <1>9 DEF ReadError, handle_read, TypeOK, Write, WritesPending,
      CannotSend
<1>10. ASSUME NEW s \in Sessions, WriteDone(s) PROVE WritesPending'
  BY <1>10 DEF WriteDone, TypeOK, Write, WritesPending, CannotSend
<1>11. ASSUME NEW s \in Sessions, WriteError(s) PROVE WritesPending'
  BY <1>11 DEF WriteError, TypeOK, Write, WritesPending, CannotSend
<1>12. ASSUME NEW s \in Sessions,
              ClientSend(s) \/ ClientClose(s) \/ ClientReset(s)
       PROVE  WritesPending'
  BY <1>12 DEF ClientSend, ClientClose, ClientReset, TypeOK, Write,
      WritesPending, CannotSend
<1>13. CASE Tick
  BY <1>13 DEF Tick, TypeOK, Write, WritesPending, CannotSend
<1>14. CASE UNCHANGED vars
  BY <1>14 DEF vars, TypeOK, Write, WritesPending, CannotSend
<1> QED
  BY <1>1, <1>2, <1>3, <1>4, <1>5, <1>6, <1>7, <1>8, <1>9, <1>10, <1>11,
     <1>12, <1>13, <1>14 DEF Next, ReadCallback, WriteCallback

(* Arithmetic for ExpiryRate.                                              *)
LEMMA Distribute ==
    ASSUME NEW e \in Nat, NEW a \in Int
    PROVE  (e + 1) * a = e * a + a /\ e * a \in Int
OBVIOUS

(* A step that expires no session and sets no last_auth_time_ back.        *)
LEMMA RateKept ==
    ASSUME TypeOK, TypeOK', ExpiryRate,
           \A x \in Sessions : /\ expired'[x] = expired[x]
                               /\ lastAuth[x] =< lastAuth'[x]
    PROVE  ExpiryRate'
<1> SUFFICES ASSUME NEW x \in Sessions
             PROVE  expired'[x] * (AuthTime + 1) =< lastAuth'[x]
  BY DEF ExpiryRate
<1> DEFINE a == AuthTime + 1
           owed == expired[x] * a
<1>1. a \in Int /\ expired[x] \in Nat
  BY AuthTimeInt DEF TypeOK
<1>2. expired[x] * a =< lastAuth[x]
  BY DEF ExpiryRate
<1> HIDE DEF a
<1>3. owed \in Int
  BY <1>1, Distribute
<1>4. expired'[x] * a = owed
  BY Zenon
<1>5. lastAuth[x] \in Int /\ lastAuth'[x] \in Int
  BY DEF TypeOK
<1>6. owed =< lastAuth[x]
  BY <1>2
<1> HIDE DEF owed
<1>7. expired'[x] * a =< lastAuth'[x]
  BY <1>3, <1>4, <1>5, <1>6
<1> QED
  BY <1>7 DEF a

(* Two expiries are more than AuthTime seconds apart.                      *)
LEMMA RateStep == Inv /\ [Next]_vars => ExpiryRate'
<1> SUFFICES ASSUME TypeOK, TypeOK', ClockOK, ExpiryRate, [Next]_vars
             PROVE  ExpiryRate'
  BY TypeStep DEF Inv
<1>1. ASSUME NEW s \in Sessions, NEW n \in 1 .. ReadMax, Expired(s, n)
      PROVE  ExpiryRate'
  <2> SUFFICES ASSUME NEW x \in Sessions
               PROVE  expired'[x] * (AuthTime + 1) =< lastAuth'[x]
    BY DEF ExpiryRate
  <2>1. CASE x # s
    <3>1. expired'[x] = expired[x] /\ lastAuth'[x] = lastAuth[x]
      BY <1>1, <2>1 DEF Expired, TypeOK
    <3> QED
      BY <3>1 DEF ExpiryRate
  <2>2. CASE x = s
    <3> DEFINE a == AuthTime + 1
               owed == expired[s] * a
    <3>1. expired'[s] = expired[s] + 1 /\ lastAuth'[s] = now
      BY <1>1 DEF Expired, TypeOK
    <3>2. a \in Int /\ expired[s] \in Nat
      BY AuthTimeInt DEF TypeOK
    <3>3. expired[s] * a =< lastAuth[s]
      BY DEF ExpiryRate
    <3>4. lastAuth[s] + a =< now
      BY <1>1, AuthTimeInt DEF Expired, is_session_expired, TypeOK
    <3> HIDE DEF a
    <3>5. (expired[s] + 1) * a = owed + a /\ owed \in Int
      BY <3>2, Distribute
    <3>6. expired'[s] * a = owed + a
      BY <3>1, <3>5, Zenon
    <3>7. owed =< lastAuth[s]
      BY <3>3
    <3>8. lastAuth[s] \in Int /\ now \in Int
      BY DEF TypeOK
    <3> HIDE DEF owed
    <3>9. expired'[s] * a =< lastAuth'[s]
      BY <3>1, <3>2, <3>4, <3>5, <3>6, <3>7, <3>8
    <3> QED
      BY <2>2, <3>9 DEF a
  <2> QED
    BY <2>1, <2>2
<1>2. ASSUME \A s \in Sessions, n \in 1 .. ReadMax : ~Expired(s, n)
      PROVE  \A x \in Sessions : /\ expired'[x] = expired[x]
                                 /\ lastAuth[x] =< lastAuth'[x]
  <2> USE DEF TypeOK, ClockOK
  <2>1. ASSUME NEW s \in Sessions, NEW t \in Sessions, NEW r \in Requests,
               HandleAccept(s, t, r) \/ AcceptError(s)
        PROVE  <1>2!2
    BY <2>1 DEF HandleAccept, AcceptError, start_accept
  <2>2. ASSUME NEW s \in Sessions, NEW n \in 1 .. ReadMax,
               BadRequest(s, n) \/ ContinueReading(s, n)
                 \/ Unauthorized(s, n)
        PROVE  <1>2!2
    BY <2>2 DEF BadRequest, ContinueReading, Unauthorized
  <2>3. ASSUME NEW s \in Sessions, NEW n \in 1 .. ReadMax,
               Dispatch(s, n) \/ Throw(s, n)
        PROVE  <1>2!2
    BY <2>3 DEF Dispatch, Throw
  <2>4. ASSUME NEW s \in Sessions,
               ReadError(s) \/ WriteDone(s) \/ WriteError(s)
        PROVE  <1>2!2
    BY <2>4 DEF ReadError, WriteDone, WriteError
  <2>5. ASSUME NEW s \in Sessions,
               ClientSend(s) \/ ClientClose(s) \/ ClientReset(s)
        PROVE  <1>2!2
    BY <2>5 DEF ClientSend, ClientClose, ClientReset
  <2>6. CASE Tick \/ UNCHANGED vars
    BY <2>6 DEF Tick, vars
  <2> QED
    BY <1>2, <2>1, <2>2, <2>3, <2>4, <2>5, <2>6, SessionsAssumption
       DEF Next, ReadCallback, WriteCallback
<1> QED
  BY <1>1, <1>2, RateKept

(* More bytes do not make a complete request incomplete.                   *)
LEMMA DeservedKept ==
    ASSUME TypeOK, NEW x \in Sessions, NEW m,
           request'[x] = request[x], buffer'[x] \in Nat,
           buffer[x] =< buffer'[x], dispatched'[x] \in Nat,
           dispatched[x] =< dispatched'[x], Deserved(x, m)
    PROVE  Deserved(x, m)'
<1> SUFFICES ASSUME m.status = 200
             PROVE  /\ Put(request[x], buffer'[x]) = "done"
                    /\ request[x].auth = "valid"
                    /\ dispatched'[x] > 0
  BY DEF Deserved
<1>1. /\ Put(request[x], buffer[x]) = "done"
      /\ request[x].auth = "valid"
      /\ dispatched[x] > 0
  BY DEF Deserved
<1>2. request[x].hdr \in Nat /\ buffer[x] \in Nat /\ dispatched[x] \in Nat
  BY RequestsAssumption DEF TypeOK, Request
<1>3. Put(request[x], buffer'[x]) = "done"
  BY <1>1, <1>2 DEF Put
<1> QED
  BY <1>1, <1>2, <1>3

(* A read callback that starts a write of a message it may send.           *)
LEMMA DeservedWrite ==
    ASSUME TypeOK, TypeOK', AllDeserved, NEW s \in Sessions,
           NEW n \in 1 .. ReadMax, NEW message \in Message,
           Receive(s, n),
           async_write(s, message) \/ async_write_caught(s, message),
           \A x \in Sessions : dispatched[x] =< dispatched'[x],
           message.status = 200 => /\ Outcome(s, n) = "done"
                                   /\ authenticate(s)
                                   /\ dispatched'[s] > 0
    PROVE  AllDeserved'
<1>1. \A x \in Sessions : /\ request'[x] = request[x]
                          /\ buffer'[x] \in Nat
                          /\ buffer[x] =< buffer'[x]
                          /\ dispatched'[x] \in Nat
  BY BoundsAssumption DEF Receive, TypeOK
<1>2. Deserved(s, message)'
  BY DEF Receive, Outcome, Deserved, authenticate, TypeOK
<1>3. Deserved(s, Fresh(500))'
  BY DEF Deserved, Fresh
<1> SUFFICES ASSUME NEW x \in Sessions
             PROVE  /\ issued'[x] > 0 => Deserved(x, response[x])'
                    /\ \A w \in writes'[x] : Deserved(x, w.message)'
                    /\ \A m \in received'[x] : Deserved(x, m)'
  BY DEF AllDeserved
<1>4. \A m : Deserved(x, m) => Deserved(x, m)'
  BY <1>1, DeservedKept
<1>5. \A m \in received'[x] : Deserved(x, m)'
  BY <1>4 DEF Receive, AllDeserved
<1>6. CASE x # s
  <2>1. /\ issued'[x] = issued[x]
        /\ response'[x] = response[x]
        /\ writes'[x] = writes[x]
    BY <1>6 DEF async_write, async_write_caught, TypeOK
  <2>2. issued[x] > 0 => Deserved(x, response[x])
    BY DEF AllDeserved
  <2>3. issued[x] > 0 => Deserved(x, response[x])'
    BY <1>4, <2>1, <2>2 DEF Deserved
  <2> QED
    BY <1>4, <1>5, <2>1, <2>3 DEF AllDeserved
<1>7. CASE x = s
  <2>1. response'[s] \in {message, Fresh(500)}
    BY DEF async_write, async_write_caught, TypeOK
  <2>2. Deserved(s, response[s])'
    BY <1>2, <1>3, <2>1 DEF Deserved
  <2>3. \A w \in writes'[s] : \/ w \in writes[s]
                              \/ w.message \in {message, Fresh(500)}
    BY DEF async_write, async_write_caught, TypeOK
  <2> QED
    BY <1>2, <1>3, <1>4, <1>5, <1>7, <2>2, <2>3 DEF AllDeserved
<1> QED
  BY <1>6, <1>7

(* Every message that says 200 comes out of a dispatch.                    *)
LEMMA DeservedStep == Inv /\ [Next]_vars => AllDeserved'
<1> SUFFICES ASSUME TypeOK, TypeOK', Untouched, WriteIds, AllDeserved,
                    [Next]_vars
             PROVE  AllDeserved'
  BY TypeStep DEF Inv
<1>1. ASSUME NEW s \in Sessions, NEW t \in Sessions, NEW r \in Requests,
             HandleAccept(s, t, r)
      PROVE  AllDeserved'
  BY <1>1 DEF HandleAccept, start_accept, TypeOK, AllDeserved, Deserved, Put,
      Untouched
<1>2. ASSUME NEW s \in Sessions, AcceptError(s) PROVE AllDeserved'
  BY <1>2 DEF AcceptError, start_accept, TypeOK, AllDeserved, Deserved, Put
<1>3. ASSUME NEW s \in Sessions, NEW n \in 1 .. ReadMax, BadRequest(s, n)
      PROVE  AllDeserved'
  <2>1. /\ Receive(s, n) /\ handle_write(s, Fresh(400))
        /\ \A x \in Sessions : dispatched[x] =< dispatched'[x]
    BY <1>3 DEF BadRequest, TypeOK
  <2>2. Fresh(400).status # 200
    BY DEF Fresh
  <2> QED
    BY <2>1, <2>2, MessagesOK, WriteCases, DeservedWrite
<1>4. ASSUME NEW s \in Sessions, NEW n \in 1 .. ReadMax, ContinueReading(s, n)
      PROVE  AllDeserved'
  <2> SUFFICES ASSUME UNCHANGED <<response, issued, writes>>
               PROVE  AllDeserved'
    <3>1. /\ Receive(s, n)
          /\ \A x \in Sessions : dispatched[x] =< dispatched'[x]
      BY <1>4 DEF ContinueReading, TypeOK
    <3>2. Fresh(500).status # 200
      BY DEF Fresh
    <3> QED
      BY <1>4, <3>1, <3>2, MessagesOK, DeservedWrite DEF ContinueReading
  <2>1. \A x \in Sessions : /\ request'[x] = request[x]
                            /\ buffer'[x] \in Nat
                            /\ buffer[x] =< buffer'[x]
                            /\ dispatched'[x] = dispatched[x]
    BY <1>4, BoundsAssumption DEF ContinueReading, Receive, TypeOK
  <2>2. \A x \in Sessions : \A m : Deserved(x, m) => Deserved(x, m)'
    BY <2>1, DeservedKept DEF TypeOK
  <2>3. \A x \in Sessions :
            Deserved(x, response[x]) => Deserved(x, response[x])'
    BY <2>2 DEF Deserved
  <2>4. UNCHANGED <<issued, writes, received>>
    BY <1>4 DEF ContinueReading, Receive
  <2> QED
    BY <2>2, <2>3, <2>4 DEF AllDeserved
<1>5. ASSUME NEW s \in Sessions, NEW n \in 1 .. ReadMax, Expired(s, n)
      PROVE  AllDeserved'
  <2>1. /\ Receive(s, n)
        /\ \A x \in Sessions : dispatched[x] =< dispatched'[x]
    BY <1>5 DEF Expired, TypeOK
  <2>2. handle_write(s, Unauthorized401) \/ async_write(s, Fresh(500))
    BY <1>5 DEF Expired
  <2>3. Unauthorized401.status # 200 /\ Fresh(500).status # 200
    BY DEF Unauthorized401, Fresh
  <2> QED
    BY <2>1, <2>2, <2>3, MessagesOK, WriteCases, DeservedWrite
<1>6. ASSUME NEW s \in Sessions, NEW n \in 1 .. ReadMax, Unauthorized(s, n)
      PROVE  AllDeserved'
  <2>1. /\ Receive(s, n) /\ handle_write(s, Unauthorized401)
        /\ \A x \in Sessions : dispatched[x] =< dispatched'[x]
    BY <1>6 DEF Unauthorized, TypeOK
  <2>2. Unauthorized401.status # 200
    BY DEF Unauthorized401
  <2> QED
    BY <2>1, <2>2, MessagesOK, WriteCases, DeservedWrite
<1>7. ASSUME NEW s \in Sessions, NEW n \in 1 .. ReadMax, Dispatch(s, n)
      PROVE  AllDeserved'
  <2> DEFINE m == handleRequest(request[s].route, response[s])
  <2>1. /\ Receive(s, n) /\ handle_write(s, m)
        /\ Outcome(s, n) = "done"
        /\ authenticate(s)
    BY <1>7 DEF Dispatch
  <2>2. /\ dispatched'[s] > 0
        /\ \A x \in Sessions : dispatched[x] =< dispatched'[x]
    BY <1>7 DEF Dispatch, TypeOK
  <2>3. m \in Message
    BY MessagesOK, RequestsAssumption DEF TypeOK, Request
  <2> HIDE DEF m
  <2> QED
    BY <2>1, <2>2, <2>3, WriteCases, DeservedWrite
<1>8. ASSUME NEW s \in Sessions, NEW n \in 1 .. ReadMax, Throw(s, n)
      PROVE  AllDeserved'
  <2>1. /\ Receive(s, n) /\ async_write(s, Fresh(500))
        /\ \A x \in Sessions : dispatched[x] =< dispatched'[x]
    BY <1>8 DEF Throw, TypeOK
  <2>2. Fresh(500).status # 200
    BY DEF Fresh
  <2> QED
    BY <2>1, <2>2, MessagesOK, DeservedWrite
<1>9. ASSUME NEW s \in Sessions, ReadError(s) PROVE AllDeserved'
  BY <1>9 DEF ReadError, handle_read, TypeOK, AllDeserved, Deserved, Put
<1>10. ASSUME NEW s \in Sessions, WriteDone(s) PROVE AllDeserved'
  <2>1. PICK w \in writes[s] : WriteDone(s)!(w)
    BY <1>10 DEF WriteDone
  <2>2. PICK m \in Torn(w.message, response[s]) :
               received' = [received EXCEPT ![s] = @ \cup {m}]
    BY <2>1
  <2>3. Deserved(s, w.message) /\ Deserved(s, response[s])
    BY DEF AllDeserved, WriteIds, TypeOK, Write
  <2>4. m.status = w.message.status \/ m.status = response[s].status
    BY <2>2 DEF Torn
  <2>5. Deserved(s, m)
    BY <2>3, <2>4 DEF Deserved
  <2>6. /\ UNCHANGED <<request, buffer, dispatched, issued, response>>
        /\ \A x \in Sessions : writes'[x] \subseteq writes[x]
    BY <2>1 DEF TypeOK
  <2>7. \A x \in Sessions : \A y : Deserved(x, y) => Deserved(x, y)'
    BY <2>6 DEF Deserved
  <2>8. \A x \in Sessions :
            Deserved(x, response[x]) => Deserved(x, response[x])'
    BY <2>6 DEF Deserved
  <2>9. \A x \in Sessions : \A y \in received'[x] : Deserved(x, y)
    BY <2>2, <2>5 DEF AllDeserved, TypeOK
  <2> QED
    BY <2>6, <2>7, <2>8, <2>9 DEF AllDeserved
<1>11. ASSUME NEW s \in Sessions, WriteError(s) PROVE AllDeserved'
  BY <1>11 DEF WriteError, TypeOK, AllDeserved, Deserved, Put
<1>12. ASSUME NEW s \in Sessions,
              ClientSend(s) \/ ClientClose(s) \/ ClientReset(s)
       PROVE  AllDeserved'
  BY <1>12 DEF ClientSend, ClientClose, ClientReset, TypeOK, AllDeserved,
      Deserved, Put
<1>13. CASE Tick
  BY <1>13 DEF Tick, TypeOK, AllDeserved, Deserved, Put
<1>14. CASE UNCHANGED vars
  BY <1>14 DEF vars, TypeOK, AllDeserved, Deserved, Put
<1> QED
  BY <1>1, <1>2, <1>3, <1>4, <1>5, <1>6, <1>7, <1>8, <1>9, <1>10, <1>11,
     <1>12, <1>13, <1>14 DEF Next, ReadCallback, WriteCallback

(* The balance and the numbering leave a regular session one write.        *)
LEMMA OverlapFollows ==
    TypeOK /\ Untouched /\ CallbackBalance /\ WriteIds
        => OverlapOnlyAfterExpiry
<1> SUFFICES ASSUME TypeOK, Untouched, CallbackBalance, WriteIds,
                    NEW s \in Sessions, Regular(s)
             PROVE  \A w \in writes[s] : w.id = 1 /\ w.message = response[s]
  BY DEF OverlapOnlyAfterExpiry
<1>1. issued[s] =< 1
  BY DEF Regular, Untouched, CallbackBalance, TypeOK
<1> QED
  BY <1>1 DEF WriteIds, TypeOK, Write

(***************************************************************************)
(* The theorems.                                                           *)
(***************************************************************************)

(* Inv is an invariant of every behaviour of the server.                   *)
THEOREM InvHolds == Spec => []Inv
<1>1. Inv /\ [Next]_vars => Inv'
  <2> SUFFICES ASSUME Inv, [Next]_vars PROVE Inv'
    OBVIOUS
  <2>1. TypeOK'
    BY TypeStep DEF Inv
  <2> QED
    BY <2>1, OneAcceptStep, UntouchedStep, SingleReaderStep, BalanceStep,
       WriteIdsStep, PendingStep, EndsStep, HandlerLastStep, DeservedStep,
       ClockStep, RateStep DEF Inv
<1> QED
  BY <1>1, InitInv, PTL DEF Spec

(* Every variable keeps its type, in the server with any number of         *)
(* connections and any clients.                                            *)
THEOREM TypeCorrect == Spec => []TypeOK
<1>1. Inv => TypeOK
  BY DEF Inv
<1> QED
  BY <1>1, InvHolds, PTL

(* The accept loop of server.cc always has exactly one pending accept.     *)
THEOREM AcceptLoop == Spec => []OneAccept
<1>1. Inv => OneAccept
  BY DEF Inv
<1> QED
  BY <1>1, InvHolds, PTL

(* session.cc never has two reads into buffer_ outstanding.                *)
THEOREM OneReader == Spec => []SingleReader
<1>1. Inv => SingleReader
  BY DEF Inv
<1> QED
  BY <1>1, InvHolds, PTL

(* Every completed read is accounted for by a read, a response or an end.  *)
THEOREM Balance == Spec => []CallbackBalance
<1>1. Inv => CallbackBalance
  BY DEF Inv
<1> QED
  BY <1>1, InvHolds, PTL

(* Overlapping writes and a response_ changed under a write are confined   *)
(* to connections that expired or saw a late exception.                    *)
THEOREM Overlap == Spec => []OverlapOnlyAfterExpiry
<1>1. Inv => OverlapOnlyAfterExpiry
  BY OverlapFollows DEF Inv
<1> QED
  BY <1>1, InvHolds, PTL

(* No session object is destroyed under a connected, unanswered client.    *)
THEOREM NoAbandonment == Spec => []NoClientAbandoned
<1>1. Inv => NoClientAbandoned
  <2> SUFFICES ASSUME Inv, NEW s \in Sessions, Released(s),
                      peer[s] = "open", ~shut[s]
               PROVE  FALSE
    BY DEF NoClientAbandoned, Inv, EndsForAReason
  <2> USE DEF Inv
  <2>1. dropped[s] = 0
    BY DEF EndsForAReason, TypeOK
  <2>2. issued[s] > 0
    BY <2>1 DEF CallbackBalance, Released, TypeOK
  <2>3. writes[s] # {}
    BY <2>2 DEF WritesPending, CannotSend
  <2> QED
    BY <2>3 DEF Released
<1> QED
  BY <1>1, InvHolds, PTL

(* Nobody receives a success without a complete, authenticated request     *)
(* that was dispatched, whatever a torn response mixes.                    *)
THEOREM AuthenticatedSuccess == Spec => []SuccessIsAuthenticated
<1>1. Inv => SuccessIsAuthenticated
  BY DEF Inv, AllDeserved, Deserved, SuccessIsAuthenticated
<1> QED
  BY <1>1, InvHolds, PTL

(* One connection is refused for expiry at most once per AuthTime + 1 s.   *)
THEOREM RateLimit == Spec => []ExpiryRate
<1>1. Inv => ExpiryRate
  BY DEF Inv
<1> QED
  BY <1>1, InvHolds, PTL

(* After a request was dispatched, its connection is not served again.     *)
THEOREM DispatchOnce == Spec => DispatchIsFinal
<1>1. Inv /\ [Next]_vars
        => [\A s \in Sessions : dispatched[s] > 0 =>
              buffer'[s] = buffer[s] /\ issued'[s] = issued[s]]_vars
  <2> SUFFICES ASSUME TypeOK, HandlerLast, [Next]_vars,
                      NEW x \in Sessions, dispatched[x] > 0
               PROVE  buffer'[x] = buffer[x] /\ issued'[x] = issued[x]
    BY DEF Inv
  <2>1. reads[x] = 0
    BY DEF HandlerLast
  <2> DEFINE Kept == buffer'[x] = buffer[x] /\ issued'[x] = issued[x]
  <2> USE DEF TypeOK
  <2>2. ASSUME NEW s \in Sessions, NEW n \in 1 .. ReadMax,
               reads[s] > 0, Receive(s, n)
        PROVE  s # x /\ buffer'[x] = buffer[x]
    BY <2>1, <2>2 DEF Receive
  <2>3. ASSUME NEW s \in Sessions, NEW n \in 1 .. ReadMax,
               \/ BadRequest(s, n) \/ Expired(s, n) \/ Unauthorized(s, n)
               \/ Dispatch(s, n) \/ Throw(s, n)
        PROVE  Kept
    <3>1. /\ Receive(s, n)
          /\ \E k \in {1, 2} : issued' = [issued EXCEPT ![s] = @ + k]
      BY <2>3 DEF BadRequest, Expired, Unauthorized, Dispatch, Throw,
          handle_write, async_write, async_write_caught
    <3> QED
      BY <2>2, <3>1 DEF Receive
  <2>4. ASSUME NEW s \in Sessions, NEW n \in 1 .. ReadMax,
               ContinueReading(s, n)
        PROVE  Kept
    <3>1. Receive(s, n) /\ reads[s] > 0
      BY <2>4 DEF ContinueReading, Receive
    <3>2. s # x /\ buffer'[x] = buffer[x]
      BY <2>2, <3>1
    <3> QED
      BY <2>4, <3>2 DEF ContinueReading, async_write
  <2>5. ASSUME NEW s \in Sessions,
               \/ ReadError(s) \/ WriteDone(s) \/ WriteError(s)
               \/ ClientSend(s) \/ ClientClose(s) \/ ClientReset(s)
               \/ AcceptError(s)
               \/ \E t \in Sessions, r \in Requests : HandleAccept(s, t, r)
        PROVE  Kept
    BY <2>5 DEF ReadError, WriteDone, WriteError, ClientSend, ClientClose,
                ClientReset, AcceptError, HandleAccept
  <2>6. CASE Tick \/ UNCHANGED vars
    BY <2>6 DEF Tick, vars
  <2> QED
    BY <2>3, <2>4, <2>5, <2>6 DEF Next, ReadCallback, WriteCallback
<1> QED
  BY <1>1, InvHolds, PTL DEF Spec, DispatchIsFinal
=============================================================================
