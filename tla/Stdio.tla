------------------------------- MODULE Stdio -------------------------------
(***************************************************************************)
(* The stdio transport (cmd/server/main.go, stdioLoop): one loop reads     *)
(* lines, hands each message to the dispatcher of the only session, and    *)
(* writes the response of a request before it reads on.  The client writes *)
(* and reads whenever it likes, closes its end or disappears; the pipe of  *)
(* the responses holds a few and then blocks the loop.                     *)
(***************************************************************************)
EXTENDS Lifecycle, Integers, Sequences

CONSTANTS
    Lines,         \* what the client may write: text, and for a message its fields
    MaxLines,      \* bound of the instance: lines written
    Capacity       \* responses that fit in the pipe

ASSUME StdioAssumption ==
    /\ MaxLines \in Nat /\ Capacity \in Nat \ {0}
    /\ Lines \subseteq
          [text : {"empty", "too long", "garbage", "message"}, jsonrpc : BOOLEAN,
           method : STRING, hasId : BOOLEAN, hasResult : BOOLEAN, version : STRING]

VARIABLES
    input,         \* the lines the client has written
    closed,        \* the client has closed its end of stdin
    next,          \* lines the loop has read
    loop,          \* "scan" for the next line, or "write" a response
    lifecycle,     \* of the session
    out,           \* the responses written, each [to, ok]: to the line it answers
    taken,         \* how many of them the client has read
    gone,          \* the client has closed its end of stdout
    exit           \* "no", or how the loop ended

client == <<input, closed, taken, gone>>
stdio == <<client, next, loop, lifecycle, out, exit>>

InitStdio ==
    /\ input = << >> /\ closed = FALSE /\ taken = 0 /\ gone = FALSE
    /\ next = 0 /\ loop = "scan" /\ lifecycle = Fresh /\ out = << >> /\ exit = "no"

---------------------------------------------------------------------------
(* The client.                                                             *)

WriteLine(line) ==
    /\ ~closed /\ Len(input) < MaxLines
    /\ input' = Append(input, line)
    /\ UNCHANGED <<closed, next, loop, lifecycle, out, taken, gone, exit>>

CloseStdin ==
    /\ ~closed /\ closed' = TRUE
    /\ UNCHANGED <<input, next, loop, lifecycle, out, taken, gone, exit>>

Take ==
    /\ ~gone /\ taken < Len(out)
    /\ taken' = taken + 1
    /\ UNCHANGED <<input, closed, next, loop, lifecycle, out, gone, exit>>

CloseStdout ==
    /\ ~gone /\ gone' = TRUE
    /\ UNCHANGED <<input, closed, next, loop, lifecycle, out, taken, exit>>

---------------------------------------------------------------------------
(* ParseMessage and the dispatcher.                                        *)

Kinds == {"invalid", "request", "notification", "response"}

\* Mutant: the kind goes by the name of the method.
KindByName(line) ==
    IF line.text # "message" \/ ~line.jsonrpc THEN "invalid"
    ELSE IF line.method \in {"notifications/initialized", "notifications/other"}
    THEN "notification"
    ELSE IF line.method # "" THEN "request"
    ELSE IF line.hasResult THEN "response" ELSE "invalid"

\* An id of null is no id.
ParseMessage(line) ==
    IF line.text # "message" \/ ~line.jsonrpc THEN "invalid"
    ELSE IF line.method # "" THEN IF line.hasId THEN "request" ELSE "notification"
    ELSE IF line.hasResult THEN "response" ELSE "invalid"

Message(line) == [method |-> line.method, version |-> line.version]

\* The methods of Lifecycle.Register and RegisterTools.
Methods == {"initialize", "ping", "tools/list", "tools/call"}
Notifications == {"notifications/initialized"}

\* Whether a request gets a result: its method is registered and the
\* lifecycle allows it.  What a tool answers is not looked at here.
Result(l, line) == line.method \in Methods /\ Accepts(l, Message(line))

\* A request and a notification are looked up in tables of their own.
Dispatched(l, line) ==
    IF \/ ParseMessage(line) = "request" /\ line.method \in Methods
       \/ ParseMessage(line) = "notification" /\ line.method \in Notifications
    THEN Dispatch(l, Message(line)) ELSE l

---------------------------------------------------------------------------
(* The loop.                                                               *)

Scanned == exit = "no" /\ loop = "scan" /\ next < Len(input)
Line == input[next + 1]

\* An empty line, one that is no message (there is nobody to tell), or a
\* response to nothing.
Discard ==
    /\ Scanned
    /\ \/ Line.text = "empty"
       \/ Line.text \in {"garbage", "message"} /\ ParseMessage(Line) \in {"invalid", "response"}
    /\ next' = next + 1
    /\ UNCHANGED <<client, loop, lifecycle, out, exit>>

Notice ==
    /\ Scanned /\ ParseMessage(Line) = "notification"
    /\ lifecycle' = Dispatched(lifecycle, Line)
    /\ next' = next + 1
    /\ UNCHANGED <<client, loop, out, exit>>

\* Dispatch: the response is known, with the lifecycle of this moment.
Answer ==
    /\ Scanned /\ ParseMessage(Line) = "request"
    /\ lifecycle' = Dispatched(lifecycle, Line)
    /\ next' = next + 1
    /\ loop' = "write"
    /\ UNCHANGED <<client, out, exit>>

\* initialize changes nothing that Result of an initialize depends on.
Response == [to |-> next, ok |-> Result(lifecycle, input[next])]

\* Mutant: Flush is left out, and a short response stays in the buffer.
WriteUnflushed ==
    /\ exit = "no" /\ loop = "write"
    /\ loop' = "scan"
    /\ UNCHANGED <<client, next, lifecycle, out, exit>>

\* writeMessage returns when the response is in the pipe.
WriteMessage ==
    /\ exit = "no" /\ loop = "write" /\ ~gone
    /\ Len(out) - taken < Capacity
    /\ out' = Append(out, Response)
    /\ loop' = "scan"
    /\ UNCHANGED <<client, next, lifecycle, exit>>

\* The end, and how: the last line has been read; a response could not be
\* written; bufio.Scanner met a line longer than its buffer.
Ends(how) ==
    /\ exit' = how
    /\ UNCHANGED <<client, next, loop, lifecycle, out>>

EndOfInput == exit = "no" /\ loop = "scan" /\ closed /\ next = Len(input) /\ Ends("normal")

WriteFails == exit = "no" /\ loop = "write" /\ gone /\ Ends("fatal")

LineTooLong == Scanned /\ Line.text = "too long" /\ Ends("fatal")

LoopStep ==
    Discard \/ Notice \/ Answer \/ WriteMessage \/ EndOfInput \/ WriteFails \/ LineTooLong

ClientStep ==
    \/ \E line \in Lines : WriteLine(line)
    \/ CloseStdin \/ Take \/ CloseStdout

---------------------------------------------------------------------------

\* JSON-RPC: what has a method is a request if it has an id, else a notification.
Proper(n) == input[n].text = "message" /\ input[n].jsonrpc /\ input[n].method # ""
IsRequestAt(n) == Proper(n) /\ input[n].hasId

\* The handshake as the lines before the n-th tell it.
HandshakeBefore(n) ==
    /\ \E m \in 1 .. n - 1 :
          input[m].method = "initialize" /\ IsRequestAt(m) /\ input[m].version # NoVersion
    /\ \E m \in 1 .. n - 1 :
          input[m].method = "notifications/initialized" /\ Proper(m) /\ ~input[m].hasId

Deserves(n) ==
    \/ input[n].method = "ping"
    \/ input[n].method = "initialize" /\ input[n].version # NoVersion
    \/ input[n].method \in {"tools/list", "tools/call"} /\ HandshakeBefore(n)

\* The lines whose response, if they have one, is written.
Done == IF loop = "write" THEN next - 1 ELSE next

\* "One message per line": the responses are those of the requests, one each
\* and in their order, whatever lies between them, and a tool is served
\* exactly when the lines before it hold a whole handshake.  Nothing that was
\* read is left unanswered at the end of the input.
AnsweredInOrder ==
    /\ \A j \in DOMAIN out :
          /\ out[j].to \in 1 .. Done /\ IsRequestAt(out[j].to)
          /\ out[j].ok <=> Deserves(out[j].to)
    /\ \A j, k \in DOMAIN out : j < k => out[j].to < out[k].to
    /\ \A n \in 1 .. Done : IsRequestAt(n) => \E j \in DOMAIN out : out[j].to = n
    /\ exit = "normal" => Done = Len(input)

Received(n) == \E j \in 1 .. taken : out[j].to = n

\* Every request is answered and the client has the answer, though the pipe
\* fills up, unless the client went away or a line before it was too long.
EveryResponseReceived ==
    \A n \in 1 .. MaxLines :
        (n <= Len(input) /\ IsRequestAt(n)) ~> (Received(n) \/ gone \/ (exit = "fatal" /\ next < n))
===========================================================================
