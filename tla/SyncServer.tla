---------------------------- MODULE SyncServer ----------------------------
(***************************************************************************)
(* The synchronization server of src/src/http.rs around its two handlers:  *)
(* the stream that bounds and times a request head, the guard that admits  *)
(* a request, the pool of permits, the timers over a handler and over a    *)
(* request body, and the graceful shutdown.  What the handlers answer from *)
(* the store is modelled in ExportPage and PullSync; here it is any result *)
(* of theirs.                                                              *)
(*                                                                         *)
(* Each connection carries one request (every response closes it).  The    *)
(* client sends when it likes, and may stop or leave at any point.         *)
(***************************************************************************)
EXTENDS Integers, Sequences, FiniteSets

CONSTANTS
  Conn,         \* places for a connection
  Requests,     \* what clients send
  Permits,      \* max_concurrent_requests
  HeaderLimit,  \* MAX_HTTP_HEADER_BYTES
  BodyLimit,    \* max_request_body_bytes
  IdLimit,      \* values of the request counter (2^64 in the code)
  LongestRead   \* bytes one read may return

\* Carriage return, line feed, anything else.
Byte == {"r", "n", "x"}

(***************************************************************************)
(* A request: the bytes from its start to somewhere behind its head; what  *)
(* the guard looks at; the route; whether the handler accepts its form;    *)
(* the lengths it declares (a body sent in chunks declares none, a doubled *)
(* header several); the length it has.                                     *)
(***************************************************************************)
Request == [bytes : Seq(Byte), target : BOOLEAN, fields : BOOLEAN, token : BOOLEAN,
            route : {"refs", "export", "none", "method"}, form : BOOLEAN,
            declared : SUBSET Nat, body : Nat]

ASSUME LimitsAssumption ==
  /\ Permits \in Nat \ {0} /\ HeaderLimit \in Nat \ {0} /\ BodyLimit \in Nat \ {0}
  /\ IdLimit \in Nat /\ LongestRead \in Nat \ {0}

ASSUME RequestsAssumption == Requests \subseteq Request

VARIABLES
  conn,      \* each connection, by its phase: see Connection
  free,      \* permits left in the pool
  counter,   \* RequestIds.counter
  shutting   \* the shutdown future has completed

serverVars == <<conn, free, counter, shutting>>

(***************************************************************************)
(* A connection keeps what its phase still needs: while the head is read,  *)
(* the bytes read of it and the state of HeaderGuardStream; then the       *)
(* request; in a handler, what it has read of the body; then the status.   *)
(***************************************************************************)
Closed == [phase |-> "closed"]
Handler(phase, length, got) == [phase |-> phase, length |-> length, got |-> got]
Reply(status) == [phase |-> "reply", status |-> status]

\* The phases of a handler, which run under a permit.
Handling == {"body", "store"}

In(c, phases) == conn[c].phase \in phases
Becomes(c, state) == conn' = [conn EXCEPT ![c] = state]

----------------------------------------------------------------------------
(* HeaderGuardStream *)

Fresh == [count |-> 0, tail |-> << >>, complete |-> FALSE]

\* Where "\r\n\r\n" ends for the first time, 0 if it does not occur.
EndOfHead(bytes) ==
  LET ends == {i \in 4..Len(bytes) : SubSeq(bytes, i - 3, i) = <<"r", "n", "r", "n">>}
  IN  IF ends = {} THEN 0 ELSE CHOOSE i \in ends : \A j \in ends : i <= j

LastBytes(bytes, n) == SubSeq(bytes, IF Len(bytes) > n THEN Len(bytes) - n + 1 ELSE 1, Len(bytes))

\* Fault: one byte less is remembered between reads.
ObserveShortTail(s, bytes) ==
  LET combined == s.tail \o bytes
      end == EndOfHead(combined)
      total == s.count + Len(bytes)
  IN  CASE s.complete -> <<s, FALSE>>
        [] ~s.complete /\ end # 0 ->
             <<[s EXCEPT !.count = total, !.complete = TRUE],
               s.count - Len(s.tail) + end > HeaderLimit>>
        [] OTHER -> <<[count |-> total, tail |-> LastBytes(combined, 2), complete |-> FALSE],
                      total > HeaderLimit>>

\* observe: the state after some more bytes, and whether they are too many.
Observe(s, bytes) ==
  LET combined == s.tail \o bytes
      end == EndOfHead(combined)
      total == s.count + Len(bytes)
  IN  CASE s.complete -> <<s, FALSE>>
        [] ~s.complete /\ end # 0 ->
             <<[s EXCEPT !.count = total, !.complete = TRUE],
               s.count - Len(s.tail) + end > HeaderLimit>>
        [] OTHER -> <<[count |-> total, tail |-> LastBytes(combined, 3), complete |-> FALSE],
                      total > HeaderLimit>>

----------------------------------------------------------------------------
(* Connections *)

Accept(c, r) ==
  /\ In(c, {"closed", "cut"}) /\ ~shutting
  /\ Becomes(c, [phase |-> "head", request |-> r, fed |-> 0, observed |-> Fresh])
  /\ UNCHANGED <<free, counter, shutting>>

\* One successful poll_read, of any number of bytes: an error of observe cuts
\* the connection, a complete head goes to the guard.
ReadHead(c, k) ==
  /\ In(c, {"head"})
  /\ LET old == conn[c]  bytes == old.request.bytes
         result == Observe(old.observed, SubSeq(bytes, old.fed + 1, old.fed + k))
     IN  /\ k \in 1..(Len(bytes) - old.fed)
         /\ Becomes(c, [old EXCEPT !.fed = @ + k, !.observed = result[1],
                          !.phase = IF result[2] THEN "cut"
                                    ELSE IF result[1].complete THEN "guard" ELSE "head"])
  /\ UNCHANGED <<free, counter, shutting>>

\* Fault: the timer only covers the first read.
HeaderTimeoutFirstRead(c) ==
  /\ In(c, {"head"}) /\ conn[c].fed = 0
  /\ Becomes(c, Closed)
  /\ UNCHANGED <<free, counter, shutting>>

\* The timer started by the first poll fires before the head is complete.
HeaderTimeout(c) ==
  /\ In(c, {"head"})
  /\ Becomes(c, Closed)
  /\ UNCHANGED <<free, counter, shutting>>

\* Fault: the permit of an abandoned handler is lost.
ClientLeavesLeaking(c) ==
  /\ ~In(c, {"closed", "cut"})
  /\ Becomes(c, Closed)
  /\ UNCHANGED <<free, counter, shutting>>

\* The connection is lost: a running handler is dropped, and its permit with it.
ClientLeaves(c) ==
  /\ ~In(c, {"closed", "cut"})
  /\ Becomes(c, Closed)
  /\ free' = IF In(c, Handling) THEN free + 1 ELSE free
  /\ UNCHANGED <<counter, shutting>>

\* The client has read the whole response, which closes the connection.
Written(c) ==
  /\ In(c, {"reply"})
  /\ Becomes(c, Closed)
  /\ UNCHANGED <<free, counter, shutting>>

----------------------------------------------------------------------------
(* guard, and the handlers up to their first await *)

\* A response of the guard, or of a handler that awaits nothing.
Answer(c, status) == Becomes(c, Reply(status)) /\ UNCHANGED free

\* A handler that awaits keeps the permit.
EnterHandler(c, phase) ==
  /\ Becomes(c, Handler(phase, conn[c].request.body, 0))
  /\ free' = free - 1

\* content_length_over
TooLong(declared) == Cardinality(declared) > 1 \/ \E n \in declared : n > BodyLimit

HasBody(r) == \E n \in r.declared : n # 0

GetRefs(c, r) == IF ~r.form \/ HasBody(r) THEN Answer(c, 400) ELSE EnterHandler(c, "store")

PostExport(c, r) ==
  CASE ~r.form -> Answer(c, 400)
    [] r.form /\ TooLong(r.declared) -> Answer(c, 413)
    [] OTHER -> EnterHandler(c, "body")

Route(c, r) ==
  CASE r.route = "refs" -> GetRefs(c, r)
    [] r.route = "export" -> PostExport(c, r)
    [] r.route = "none" -> Answer(c, 404)
    [] r.route = "method" -> Answer(c, 405)

\* What the guard refuses, and with which status, in the order it looks.
Checks(r) ==
  <<<<500, counter = IdLimit>>, <<414, ~r.target>>, <<431, ~r.fields>>,
    <<401, ~r.token>>, <<503, free = 0>>>>

Guard(c) ==
  /\ In(c, {"guard"})
  /\ counter' = IF counter < IdLimit THEN counter + 1 ELSE counter
  /\ LET checks == Checks(conn[c].request)
         failed == {i \in DOMAIN checks : checks[i][2]}
     IN  IF failed = {} THEN Route(c, conn[c].request)
         ELSE Answer(c, checks[CHOOSE i \in failed : \A j \in failed : i <= j][1])
  /\ UNCHANGED shutting

----------------------------------------------------------------------------
(* The rest of the handlers *)

\* The handler is over: the permit is dropped before the response is sent.
Return(c, status) ==
  /\ Becomes(c, Reply(status))
  /\ free' = free + 1
  /\ UNCHANGED <<counter, shutting>>

\* to_bytes stops more than one byte over the limit.
ReadBody(c, k) ==
  /\ In(c, {"body"})
  /\ k \in 1..(conn[c].length - conn[c].got)
  /\ IF conn[c].got + k > BodyLimit + 1 THEN Return(c, 413)
     ELSE /\ Becomes(c, [conn[c] EXCEPT !.got = @ + k])
          /\ UNCHANGED <<free, counter, shutting>>

BodyRead(c) ==
  /\ In(c, {"body"}) /\ conn[c].got = conn[c].length
  /\ IF conn[c].got > BodyLimit THEN Return(c, 413)
     ELSE /\ Becomes(c, [conn[c] EXCEPT !.phase = "store"])
          /\ UNCHANGED <<free, counter, shutting>>

\* BODY_READ_TIMEOUT
BodyTimeout(c) == In(c, {"body"}) /\ Return(c, 408)

\* What the handlers, store_error and sync_error make of a result.
ResultStatus == {200, 400, 404, 409, 413, 500, 503}

StoreAnswers(c, status) == In(c, {"store"}) /\ Return(c, status)

\* Fault: only the body is timed.
HandlerTimeoutBodyOnly(c) == In(c, {"body"}) /\ Return(c, 408)

\* REQUEST_AND_HANDLER_TIMEOUT around everything a permit is held for.
HandlerTimeout(c) == In(c, Handling) /\ Return(c, 408)

Shutdown ==
  /\ ~shutting
  /\ shutting' = TRUE
  /\ UNCHANGED <<conn, free, counter>>

----------------------------------------------------------------------------
ServerInit ==
  /\ conn = [c \in Conn |-> Closed]
  /\ free = Permits /\ counter = 0 /\ shutting = FALSE

ServerNext ==
  \/ \E c \in Conn, r \in Requests : Accept(c, r)
  \/ \E c \in Conn, k \in 1..LongestRead : ReadHead(c, k) \/ ReadBody(c, k)
  \/ \E c \in Conn : HeaderTimeout(c) \/ ClientLeaves(c) \/ Written(c) \/ Guard(c)
                       \/ BodyRead(c) \/ BodyTimeout(c) \/ HandlerTimeout(c)
  \/ \E c \in Conn, s \in ResultStatus : StoreAnswers(c, s)
  \/ Shutdown

ServerSpec == ServerInit /\ [][ServerNext]_serverVars

\* Timers fire and the guard runs; neither clients nor the store are assumed
\* to do anything.
FairServerSpec ==
  /\ ServerSpec
  /\ \A c \in Conn : WF_serverVars(HeaderTimeout(c)) /\ WF_serverVars(Guard(c)) /\ WF_serverVars(HandlerTimeout(c))

----------------------------------------------------------------------------
(* Properties *)

\* However the bytes are split into reads, a head is found complete exactly
\* at its first blank line, and the connection is cut exactly when the limit
\* is passed before that (tests/oa04_transport.rs: request target, header and
\* body boundaries are exact).
HeadExact ==
  \A c \in {d \in Conn : In(d, {"head", "guard", "cut"})} :
    LET seen == SubSeq(conn[c].request.bytes, 1, conn[c].fed)
        end == EndOfHead(seen)
        over == (IF end = 0 THEN Len(seen) ELSE end) > HeaderLimit
    IN  conn[c].phase = IF over THEN "cut" ELSE IF end = 0 THEN "head" ELSE "guard"

\* A permit is out exactly for each handler that runs: none is lost when a
\* handler times out, fails or is abandoned, and none is given back twice.
PermitsConserved == free = Permits - Cardinality({c \in Conn : In(c, Handling)})

\* No client can keep a permit: neither by sending its body slowly nor by
\* never reading its response (the permit is dropped first, http.rs:457).
PermitReturns == \A c \in Conn : In(c, Handling) ~> ~In(c, Handling)

\* After a shutdown nothing but a response its client does not read keeps a
\* connection, and so the server, alive.
Drains == shutting ~> \A c \in Conn : In(c, {"closed", "cut", "reply"})
=============================================================================
