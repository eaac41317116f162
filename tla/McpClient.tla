----------------------------- MODULE McpClient -----------------------------
(* MCPClient: JSON-RPC over the pipes of one MCP server process.  Callers  *)
(* register a future under a fresh id, write the request and wait; one     *)
(* reader task resolves futures by id, and fails them all when the stream  *)
(* ends or the client is closed.  The server is external: it answers in    *)
(* any order, late, twice or with noise, and may die.                      *)
EXTENDS Integers, Sequences

CONSTANTS
    McpCallers,    \* tasks that share the client, one request each
    MaxStream   \* bound on the messages in the server's output

VARIABLES
    process,  \* "none", "running", "dead"
    reader,   \* "none", "running", "cancelling", "ended"
    clientClosed, \* _closed
    mcpPc,    \* [McpCallers -> where a call stands]
    id,       \* [McpCallers -> the id of its request, 0 before]
    future,   \* [McpCallers -> Open, or what its future holds]
    pending,  \* _pending: the ids that have a future
    nextId,   \* _next_id, from 1
    asked,    \* the ids the server has read
    stream,   \* the server's output, not read yet
    mcpAnswer \* [McpCallers -> how the call ended]

mcpVars == <<process, reader, clientClosed, mcpPc, id, future, pending, nextId, asked, stream, mcpAnswer>>

Open == <<"open">>

NoAnswer == <<"none">>

Reply(n) == <<"reply", n>>

McpInit ==
    /\ process = "none" /\ reader = "none" /\ clientClosed = FALSE
    /\ mcpPc = [c \in McpCallers |-> "idle"]
    /\ id = [c \in McpCallers |-> 0]
    /\ future = [c \in McpCallers |-> Open]
    /\ pending = {} /\ nextId = 1 /\ asked = {} /\ stream = <<>>
    /\ mcpAnswer = [c \in McpCallers |-> NoAnswer]

(* start(): the server is spawned and the reader task created.             *)
StartServer ==
    /\ process = "none" /\ reader = "none" /\ ~clientClosed
    /\ process' = "running" /\ reader' = "running"
    /\ UNCHANGED <<clientClosed, mcpPc, id, future, pending, nextId, asked, stream, mcpAnswer>>

McpEnd(c, how) ==
    /\ mcpPc' = [mcpPc EXCEPT ![c] = "ended"]
    /\ mcpAnswer' = [mcpAnswer EXCEPT ![c] = how]

(* call() up to the drain of the pipe: refused on a closed client, else    *)
(* the future is registered and the request written.                       *)
CallTool(c) ==
    /\ mcpPc[c] = "idle"
    /\ IF clientClosed \/ process = "none"
       THEN McpEnd(c, <<"not running">>) /\ UNCHANGED <<id, pending, nextId, asked>>
       ELSE /\ mcpPc' = [mcpPc EXCEPT ![c] = "sending"]
            /\ id' = [id EXCEPT ![c] = nextId]
            /\ pending' = pending \union {nextId}
            /\ nextId' = nextId + 1
            /\ asked' = IF process = "running" THEN asked \union {nextId} ELSE asked
            /\ UNCHANGED mcpAnswer
    /\ UNCHANGED <<process, reader, clientClosed, future, stream>>

(* _send() returns, or the pipe of a dead server breaks: the future then   *)
(* stays registered.                                                       *)
Sent(c) ==
    /\ mcpPc[c] = "sending"
    /\ \/ mcpPc' = [mcpPc EXCEPT ![c] = "waiting"] /\ UNCHANGED mcpAnswer
       \/ process # "running" /\ McpEnd(c, <<"pipe broken">>)
    /\ UNCHANGED <<process, reader, clientClosed, id, future, pending, nextId, asked, stream>>

(* The wait ends with the future, or with the timeout while it is open.    *)
Awake(c) ==
    /\ mcpPc[c] = "waiting" /\ future[c] # Open
    /\ McpEnd(c, future[c])
    /\ UNCHANGED <<process, reader, clientClosed, id, future, pending, nextId, asked, stream>>

TimesOut(c) ==
    /\ mcpPc[c] = "waiting" /\ future[c] = Open
    /\ McpEnd(c, <<"timeout">>)
    /\ pending' = pending \ {id[c]}
    /\ UNCHANGED <<process, reader, clientClosed, id, future, nextId, asked, stream>>

(* The server (external): answers what it was asked, perhaps again, writes *)
(* noise (notifications, malformed lines, unknown ids), or dies.           *)
ServerWrites ==
    /\ process = "running" /\ Len(stream) < MaxStream
    /\ \E m \in {Reply(n) : n \in asked} \union {<<"noise">>} : stream' = Append(stream, m)
    /\ UNCHANGED <<process, reader, clientClosed, mcpPc, id, future, pending, nextId, asked, mcpAnswer>>

ServerDies ==
    /\ process = "running"
    /\ process' = "dead"
    /\ UNCHANGED <<reader, clientClosed, mcpPc, id, future, pending, nextId, asked, stream, mcpAnswer>>

(* _dispatch() resolves the future registered under the message's id, and  *)
(* drops every other message.                                              *)
Addressee_Oldest(m) == {c \in McpCallers : id[c] \in pending /\ \A n \in pending : id[c] <= n}

Addressee(m) == {c \in McpCallers : id[c] \in pending /\ m = Reply(id[c])}

ReadMessage ==
    /\ reader = "running" /\ stream # <<>>
    /\ LET to == Addressee(Head(stream))
       IN  /\ future' = [c \in McpCallers |-> IF c \in to /\ future[c] = Open THEN Head(stream)
                                           ELSE future[c]]
           /\ pending' = pending \ {id[c] : c \in to}
    /\ stream' = Tail(stream)
    /\ UNCHANGED <<process, reader, clientClosed, mcpPc, id, nextId, asked, mcpAnswer>>

(* _fail_pending(): the client is closed for good and every open future    *)
(* fails.                                                                  *)
FailPending ==
    /\ clientClosed' = TRUE
    /\ future' = [c \in McpCallers |-> IF id[c] \in pending /\ future[c] = Open THEN <<"closed">> ELSE future[c]]
    /\ pending' = {}

(* The reader ends at the end of the stream, or because it was cancelled.  *)
ReaderEnds ==
    /\ \/ reader = "running" /\ process # "running" /\ stream = <<>>
       \/ reader = "cancelling"
    /\ reader' = "ended"
    /\ FailPending
    /\ UNCHANGED <<process, mcpPc, id, nextId, asked, stream, mcpAnswer>>

(* close(): refuses new calls and cancels the reader; once it has ended    *)
(* the process is terminated and what is pending fails.                    *)
CloseBegins ==
    /\ process # "none" /\ reader = "running"
    /\ clientClosed' = TRUE
    /\ reader' = "cancelling"
    /\ UNCHANGED <<process, mcpPc, id, future, pending, nextId, asked, stream, mcpAnswer>>

CloseEnds ==
    /\ clientClosed /\ reader = "ended" /\ process # "none"
    /\ process' = "none"
    /\ FailPending
    /\ UNCHANGED <<reader, mcpPc, id, nextId, asked, stream, mcpAnswer>>

McpStep ==
    \/ \E c \in McpCallers : CallTool(c) \/ Sent(c) \/ Awake(c) \/ TimesOut(c)
    \/ ReadMessage \/ ReaderEnds

McpNext ==
    \/ McpStep
    \/ StartServer \/ ServerWrites \/ ServerDies \/ CloseBegins \/ CloseEnds

(* A call that returns a reply returns the reply to its own request,       *)
(* whatever the order of the answers, late answers to calls that timed     *)
(* out, repeated answers and noise.                                        *)
RepliesReachTheirCaller ==
    \A c \in McpCallers : \A n \in 1 .. nextId - 1 : mcpAnswer[c] = Reply(n) => n = id[c]

(* Once the reader is gone nobody waits on a future that only it could     *)
(* have resolved: such a call would hang until its timeout.                *)
NobodyWaitsOnDeadServer ==
    reader = "ended" =>
        \A c \in McpCallers : mcpPc[c] \in {"sending", "waiting"} => future[c] # Open

\* A reply reaches the call it answers, and nobody waits for a server that is
\* gone.
McpSound == RepliesReachTheirCaller /\ NobodyWaitsOnDeadServer
=============================================================================
