-------------------------- MODULE CommandProvider --------------------------
(***************************************************************************)
(* One exchange of CommandProvider (src/src/provider.rs) with its child    *)
(* process: the request is written to the child's stdin to the end, stdin  *)
(* is closed, stdout is read up to a newline, the limit or its end, and    *)
(* then the exit is awaited, all of it under one timeout that kills the    *)
(* child.  The two pipes hold a bounded number of bytes, and either side   *)
(* blocks on them.                                                         *)
(*                                                                         *)
(* The child is any program of Programs: it reads the request before or    *)
(* after it writes its output, reads stdin to its end or not, and exits.   *)
(* Bytes are counted in units; the first unit of a line says what the line *)
(* holds.                                                                  *)
(***************************************************************************)
EXTENDS Integers, Sequences, FiniteSets

CONSTANTS
  PipeSize,      \* units a pipe holds
  RequestSizes,  \* units of the request line, its newline included
  LineLimit,     \* JSONL_LINE_LIMIT
  Programs       \* the child processes that may be configured

\* What a line may start with, and the rest of it.
Heads == {"response", "declared", "wrongId", "junk", "huge"}
Unit == Heads \cup {"pad", "newline"}

Program == [readsFirst : BOOLEAN, output : Seq(Unit), drains : BOOLEAN, succeeds : BOOLEAN]

ASSUME SizesAssumption ==
  PipeSize \in Nat \ {0} /\ LineLimit \in Nat \ {0} /\ RequestSizes \subseteq Nat \ {0}

ASSUME ProgramsAssumption == Programs \subseteq Program

VARIABLES
  program,    \* the configured child
  request,    \* units of this request line
  host,       \* "start", "write", "read", "wait" or "done"
  sent,       \* units of the request written so far
  collected,  \* what was read of stdout
  outcome,    \* what exchange returned
  child,      \* "none", "read", "write", "drain", "exited" or "killed"
  taken,      \* units of the request the child has read
  written,    \* units of its output the child has written
  got         \* units of its output the host has read

providerVars == <<program, request, host, sent, collected, outcome, child, taken, written, got>>
hostVars == <<host, sent, collected, outcome, got>>
childVars == <<child, taken, written>>

Running == child \in {"read", "write", "drain"}

\* What the two pipes hold.
InPipe == sent - taken
OutPipe == written - got

\* Fault: the host keeps its end of stdin until it is done.
StdinOpenThroughout == host \in {"write", "read", "wait"}

StdinOpen == host = "write"
StdoutOpen == host \in {"write", "read"}

Smaller(a, b) == IF a < b THEN a ELSE b

----------------------------------------------------------------------------
(* parse_provider_line *)

Newlines(bytes) == {i \in DOMAIN bytes : bytes[i] = "newline"}

FirstLine(bytes) ==
  IF Newlines(bytes) = {} THEN bytes
  ELSE SubSeq(bytes, 1, (CHOOSE i \in Newlines(bytes) : \A j \in Newlines(bytes) : i <= j) - 1)

ParseLine(bytes) ==
  LET line == FirstLine(bytes) IN
  CASE line = << >> -> "provider_malformed"
    [] line # << >> /\ line[1] = "response" -> "response"
    [] line # << >> /\ line[1] = "declared" -> "provider_declared"
    [] line # << >> /\ line[1] = "huge" -> "limit_exceeded"
    [] OTHER -> "provider_malformed"

----------------------------------------------------------------------------
(* The host *)

\* exchange returns.  A child that is still running is killed: after the
\* timeout by name, on every other early return by the drop of its handle.
EndExchange(code) ==
  /\ host' = "done"
  /\ outcome' = code
  /\ child' = IF Running THEN "killed" ELSE child

\* A request over the line limit is refused before anything is started, and
\* a program may fail to start.
Refuse ==
  /\ host = "start"
  /\ \/ request > LineLimit /\ EndExchange("limit_exceeded")
     \/ request <= LineLimit /\ EndExchange("provider_transport")
  /\ UNCHANGED <<program, request, sent, collected, got, taken, written>>

Spawn ==
  /\ host = "start" /\ request <= LineLimit
  /\ host' = "write"
  /\ child' = IF program.readsFirst THEN "read" ELSE "write"
  /\ UNCHANGED <<program, request, sent, collected, outcome, got, taken, written>>

WriteRequest(k) ==
  /\ host = "write" /\ sent < request /\ Running
  /\ k \in 1..Smaller(request - sent, PipeSize - InPipe)
  /\ sent' = sent + k
  /\ UNCHANGED <<program, request, host, collected, outcome, got>>
  /\ UNCHANGED childVars

\* The child is gone before it was given the whole request.
WriteBroken ==
  /\ host = "write" /\ sent < request /\ ~Running
  /\ EndExchange("provider_transport")
  /\ UNCHANGED <<program, request, sent, collected, got, taken, written>>

CloseStdin ==
  /\ host = "write" /\ sent = request
  /\ host' = "read"
  /\ UNCHANGED <<program, request, sent, collected, outcome, got>>
  /\ UNCHANGED childVars

\* Fault: the newline is not counted into the limit.
ReadChunkTight(k) ==
  /\ host = "read"
  /\ k \in 1..OutPipe
  /\ got' = got + k
  /\ collected' = SubSeq(program.output, 1, got + k)
  /\ IF Len(collected') > LineLimit THEN EndExchange("limit_exceeded")
     ELSE /\ host' = IF Newlines(collected') # {} THEN "wait" ELSE "read"
          /\ UNCHANGED <<outcome, child>>
  /\ UNCHANGED <<program, request, sent, taken, written>>

\* One read of the loop: the limit is looked at before the newline is.
ReadChunk(k) ==
  /\ host = "read"
  /\ k \in 1..OutPipe
  /\ got' = got + k
  /\ collected' = SubSeq(program.output, 1, got + k)
  /\ IF Len(collected') > LineLimit + 1 THEN EndExchange("limit_exceeded")
     ELSE /\ host' = IF Newlines(collected') # {} THEN "wait" ELSE "read"
          /\ UNCHANGED <<outcome, child>>
  /\ UNCHANGED <<program, request, sent, taken, written>>

ReadEnd ==
  /\ host = "read" /\ OutPipe = 0 /\ ~Running
  /\ host' = "wait"
  /\ UNCHANGED <<program, request, sent, collected, outcome, got>>
  /\ UNCHANGED childVars

\* Fault: the exit status is not looked at.
AwaitExitAny ==
  /\ host = "wait" /\ ~Running
  /\ EndExchange(ParseLine(collected))
  /\ UNCHANGED <<program, request, sent, collected, got, taken, written>>

AwaitExit ==
  /\ host = "wait" /\ ~Running
  /\ IF child = "exited" /\ program.succeeds THEN EndExchange(ParseLine(collected))
                                             ELSE EndExchange("provider_transport")
  /\ UNCHANGED <<program, request, sent, collected, got, taken, written>>

\* PROVIDER_EXECUTION_TIMEOUT, or the caller drops the exchange.
Expire ==
  /\ host \in {"write", "read", "wait"}
  /\ EndExchange("provider_timeout")
  /\ UNCHANGED <<program, request, sent, collected, got, taken, written>>

----------------------------------------------------------------------------
(* The child (src/src/bin/demo_agent.rs is one: it reads a line, answers it *)
(* and exits at the end of its input)                                       *)

ChildReads ==
  /\ child = "read" /\ InPipe > 0
  /\ taken' = taken + 1
  /\ child' = IF taken' = request THEN "write" ELSE "read"
  /\ UNCHANGED <<program, request, written>>
  /\ UNCHANGED hostVars

ChildWrites ==
  /\ child = "write" /\ written < Len(program.output)
  /\ StdoutOpen /\ OutPipe < PipeSize
  /\ written' = written + 1
  /\ UNCHANGED <<program, request, child, taken>>
  /\ UNCHANGED hostVars

\* Nobody will read what it has left to write.
ChildBroken ==
  /\ child = "write" /\ written < Len(program.output)
  /\ ~StdoutOpen
  /\ child' = "killed"
  /\ UNCHANGED <<program, request, taken, written>>
  /\ UNCHANGED hostVars

ChildWritten ==
  /\ child = "write" /\ written = Len(program.output)
  /\ child' = IF program.drains THEN "drain" ELSE "exited"
  /\ UNCHANGED <<program, request, taken, written>>
  /\ UNCHANGED hostVars

ChildDrains ==
  /\ child = "drain" /\ InPipe > 0
  /\ taken' = taken + 1
  /\ UNCHANGED <<program, request, child, written>>
  /\ UNCHANGED hostVars

ChildEnds ==
  /\ child = "drain" /\ InPipe = 0 /\ ~StdinOpen
  /\ child' = "exited"
  /\ UNCHANGED <<program, request, taken, written>>
  /\ UNCHANGED hostVars

----------------------------------------------------------------------------
ProviderInit ==
  /\ program \in Programs /\ request \in RequestSizes
  /\ host = "start" /\ sent = 0 /\ collected = << >> /\ outcome = "none" /\ got = 0
  /\ child = "none" /\ taken = 0 /\ written = 0

HostStep ==
  \/ Refuse \/ Spawn \/ WriteBroken \/ CloseStdin \/ ReadEnd \/ AwaitExit
  \/ \E k \in 1..PipeSize : WriteRequest(k) \/ ReadChunk(k)

ChildStep ==
  ChildReads \/ ChildWrites \/ ChildBroken \/ ChildWritten \/ ChildDrains \/ ChildEnds

ProviderNext == HostStep \/ ChildStep \/ Expire

ProviderSpec == ProviderInit /\ [][ProviderNext]_providerVars

\* Both processes are scheduled.  The timeout is not assumed to be reached.
FairProviderSpec == ProviderSpec /\ WF_providerVars(HostStep) /\ WF_providerVars(ChildStep)

----------------------------------------------------------------------------
(* Properties *)

\* A child that keeps the protocol: it reads its request, writes one line
\* within the limit and exits with success.
Honest ==
  /\ program.readsFirst /\ program.succeeds
  /\ Newlines(program.output) = {Len(program.output)}
  /\ Len(program.output) <= LineLimit + 1
  /\ program.output[1] = "response"

\* An honest child is answered to the end, without the help of the timeout,
\* whatever the sizes of the request, the answer and the pipes: the two
\* processes never wait for each other (provider.rs:343 writes everything
\* before it reads anything), and no early close makes the child fail.
HonestAnswered ==
  (Honest /\ host = "write") ~> (outcome \in {"response", "provider_timeout"})

\* A response is only ever reported when the child's first line is an answer
\* to this request, read in full, and the child ended by itself with success.
ResponseGenuine ==
  outcome = "response" =>
    /\ child = "exited" /\ program.succeeds
    /\ program.output # << >> /\ program.output[1] = "response"
    /\ FirstLine(collected) = FirstLine(program.output)

\* An error that is signed into the history blames whom it should, however
\* the two processes and their pipes interleave.  Over the limit: the request
\* was, or all the child wrote, or the response in its line.  Malformed or
\* declared: the child's first line, read in full, of a child that succeeded.
\* And a transport failure is never the report on a started child that keeps
\* the protocol.  (What follows a short line in the same read counts towards
\* the limit, provider.rs:368: such a child may be refused or not.)
VerdictTrue ==
  /\ outcome = "limit_exceeded" =>
       \/ request > LineLimit \/ written > LineLimit + 1
       \/ ParseLine(program.output) = "limit_exceeded"
  /\ outcome \in {"provider_malformed", "provider_declared"} =>
       child = "exited" /\ program.succeeds /\ ParseLine(program.output) = outcome
  /\ outcome = "provider_transport" /\ child # "none" => ~Honest
=============================================================================
