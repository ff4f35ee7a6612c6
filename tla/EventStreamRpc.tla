--------------------------- MODULE EventStreamRpc ---------------------------
(***************************************************************************)
(* The event-stream RPC client: ClientConnection and ClientContinuation    *)
(* (awscrt/eventstream/rpc.py) over their bindings                         *)
(* (source/event_stream_rpc_client_connection.c, _continuation.c).         *)
(*                                                                         *)
(* A binding references its Python object (self_py) only to call it back:  *)
(* from connect() or activate() until the last callback.  A native callback*)
(* that finds self_py NULL crashes the process; one that is never cleared  *)
(* leaks the object.  The application may act on any thread while a handler*)
(* runs, the handler included, so a callback is a step at each end.        *)
(***************************************************************************)
EXTENDS Naturals, Sequences

CONSTANTS
    Cont,      \* continuations
    Message,   \* messages the application sends; a bound on its calls
    Protocol   \* the destination of messages on stream-id 0

ASSUME ProtocolAssumption == Protocol \notin Cont

VARIABLES
    conn,      \* state of the native connection
    self,      \* self_py is set, for the connection and for each continuation
    inUse,     \* the application references the Python object
    connectFuture, shutdownFuture,
    stream,    \* native state of each continuation
    closedFuture,
    inFlight,  \* accepted messages, in order, until they are flushed
    flushFuture,
    loop       \* the callback the event-loop thread is in, or Idle

rpcVars == <<conn, self, inUse, connectFuture, shutdownFuture, stream,
             closedFuture, inFlight, flushFuture, loop>>

Object == Cont \cup {Protocol}
FutureState == {"none", "pending", "result", "error"}
Idle == <<"idle", Protocol>>
Sent == [id : Message, to : Object, terminate : BOOLEAN]

RpcTypeOK ==
    /\ conn \in {"none", "connecting", "open", "closing", "ended"}
    /\ self \in [Object -> BOOLEAN] /\ inUse \in [Object -> BOOLEAN]
    /\ connectFuture \in FutureState /\ shutdownFuture \in FutureState
    /\ stream \in [Cont -> {"none", "new", "active", "closing", "closed"}]
    /\ closedFuture \in [Cont -> FutureState]
    /\ inFlight \in Seq(Sent)
    /\ flushFuture \in [Message -> FutureState]
    /\ loop \in {"idle", "setup", "failed", "shutdown", "closed", "flushed", "lost",
                 "message"}
                \X (Object \cup Message)

RpcInit ==
    /\ conn = "none" /\ self = [x \in Object |-> FALSE]
    /\ inUse = [x \in Object |-> FALSE]
    /\ connectFuture = "none" /\ shutdownFuture = "none"
    /\ stream = [c \in Cont |-> "none"]
    /\ closedFuture = [c \in Cont |-> "none"]
    /\ inFlight = <<>> /\ flushFuture = [m \in Message |-> "none"]
    /\ loop = Idle

----------------------------------------------------------------------------
(* ClientConnection.connect(): a refused call clears self_py and raises. *)
Connect ==
    /\ conn = "none"
    /\ conn' = "connecting"
    /\ self' = [self EXCEPT ![Protocol] = TRUE]
    /\ connectFuture' = "pending" /\ shutdownFuture' = "pending"
    /\ UNCHANGED <<inUse, stream, closedFuture, inFlight, flushFuture, loop>>

(* The setup callback begins: the handler gets the connection, or None. *)
OnConnectionSetup(ok) ==
    /\ conn = "connecting" /\ loop = Idle
    /\ conn' = IF ok THEN "open" ELSE "ended"
    /\ inUse' = [inUse EXCEPT ![Protocol] = ok]
    /\ loop' = <<IF ok THEN "setup" ELSE "failed", Protocol>>
    /\ UNCHANGED <<self, connectFuture, shutdownFuture, stream, closedFuture, inFlight, flushFuture>>

(* Mutant: the future is resolved only when the handler returns normally. *)
WithoutFinally(future, value, raised) == IF raised THEN future ELSE value

(* try: handler ... finally: resolve the future. *)
Finally(future, value, raised) == value

(* An exception in on_connection_setup closes the connection. *)
CloseIfRaised(raised) ==
    conn' = IF raised /\ conn = "open" THEN "closing" ELSE conn

SetupReturns(raised) ==
    /\ loop[1] = "setup"
    /\ connectFuture' = Finally(connectFuture, "result", raised)
    /\ CloseIfRaised(raised)
    /\ loop' = Idle
    /\ UNCHANGED <<self, inUse, shutdownFuture, stream, closedFuture, inFlight, flushFuture>>

(* After a failed setup there are no more callbacks. *)
SetupFailedReturns(raised) ==
    /\ loop[1] = "failed"
    /\ connectFuture' = Finally(connectFuture, "error", raised)
    /\ self' = [self EXCEPT ![Protocol] = FALSE]
    /\ loop' = Idle
    /\ UNCHANGED <<conn, inUse, shutdownFuture, stream, closedFuture, inFlight, flushFuture>>

(* The channel is down: messages were flushed and continuations closed. *)
OnConnectionShutdown ==
    /\ conn = "closing" /\ loop = Idle
    /\ inFlight = <<>> /\ \A c \in Cont : stream[c] \notin {"active", "closing"}
    /\ conn' = "ended"
    /\ loop' = <<"shutdown", Protocol>>
    /\ UNCHANGED <<self, inUse, connectFuture, shutdownFuture, stream, closedFuture, inFlight, flushFuture>>

(* Mutant: the circular reference is left in place. *)
KeepSelf == UNCHANGED self

ClearSelf == self' = [self EXCEPT ![loop[2]] = FALSE]

ShutdownReturns(raised) ==
    /\ loop[1] = "shutdown"
    /\ \E value \in {"result", "error"} :
          shutdownFuture' = Finally(shutdownFuture, value, raised)
    /\ ClearSelf
    /\ loop' = Idle
    /\ UNCHANGED <<conn, inUse, connectFuture, stream, closedFuture, inFlight, flushFuture>>

(* close(), or the peer or the network ends the connection. *)
Close ==
    /\ conn = "open"
    /\ conn' = "closing"
    /\ UNCHANGED <<self, inUse, connectFuture, shutdownFuture, stream, closedFuture,
                   inFlight, flushFuture, loop>>

(* new_stream() *)
NewStream(c) ==
    /\ inUse[Protocol] /\ stream[c] = "none"
    /\ stream' = [stream EXCEPT ![c] = "new"]
    /\ inUse' = [inUse EXCEPT ![c] = TRUE]
    /\ closedFuture' = [closedFuture EXCEPT ![c] = "pending"]
    /\ UNCHANGED <<conn, self, connectFuture, shutdownFuture, inFlight, flushFuture, loop>>

(* An accepted message has a future, and the binding its callback. *)
Enqueue(m, x, terminate) ==
    /\ flushFuture[m] = "none"
    /\ flushFuture' = [flushFuture EXCEPT ![m] = "pending"]
    /\ inFlight' = Append(inFlight, [id |-> m, to |-> x, terminate |-> terminate])

(* send_protocol_message() and send_message(): what the native side refuses is
   raised and leaves nothing behind. *)
SendMessage(m, x, terminate) ==
    /\ inUse[x] /\ conn = "open"
    /\ x # Protocol => stream[x] = "active"
    /\ Enqueue(m, x, terminate /\ x # Protocol)
    /\ UNCHANGED <<conn, self, inUse, connectFuture, shutdownFuture, stream, closedFuture, loop>>

(* Mutant: activate() does not check that self_py is unset. *)
AnyTime(c) == TRUE

(* "Continuation already activated" *)
NotActivated(c) == ~self[c]

(* activate(): self_py is set first, and cleared again when the headers do not
   convert or the native side refuses (connection closed, stream used). *)
Activate(m, c) ==
    /\ inUse[c] /\ NotActivated(c)
    /\ \/ /\ conn = "open" /\ stream[c] = "new"
          /\ Enqueue(m, c, FALSE)
          /\ self' = [self EXCEPT ![c] = TRUE]
          /\ stream' = [stream EXCEPT ![c] = "active"]
       \/ /\ self' = [self EXCEPT ![c] = FALSE]
          /\ UNCHANGED <<flushFuture, inFlight, stream>>
    /\ UNCHANGED <<conn, inUse, connectFuture, shutdownFuture, closedFuture, loop>>

(* The peer's message with TERMINATE_STREAM, or the end of the connection. *)
StreamEnds(c) ==
    /\ stream[c] = "active" /\ conn \in {"open", "closing"}
    /\ stream' = [stream EXCEPT ![c] = "closing"]
    /\ UNCHANGED <<conn, self, inUse, connectFuture, shutdownFuture, closedFuture,
                   inFlight, flushFuture, loop>>

OnContinuationClosed(c) ==
    /\ loop = Idle /\ stream[c] = "closing"
    /\ stream' = [stream EXCEPT ![c] = "closed"]
    /\ loop' = <<"closed", c>>
    /\ UNCHANGED <<conn, self, inUse, connectFuture, shutdownFuture, closedFuture,
                   inFlight, flushFuture>>

ClosedReturns(raised) ==
    /\ loop[1] = "closed"
    /\ closedFuture' = [closedFuture EXCEPT ![loop[2]] = Finally(@, "result", raised)]
    /\ ClearSelf
    /\ loop' = Idle
    /\ UNCHANGED <<conn, inUse, connectFuture, shutdownFuture, stream, inFlight, flushFuture>>

(* The oldest message is written, or cancelled by the connection's end; a
   terminating message that was written ends its stream. *)
OnMessageFlush(ok) ==
    /\ loop = Idle /\ inFlight # <<>>
    /\ ok \/ conn = "closing"
    /\ loop' = <<IF ok THEN "flushed" ELSE "lost", Head(inFlight).id>>
    /\ inFlight' = Tail(inFlight)
    /\ stream' = LET x == Head(inFlight).to IN
                 IF ok /\ Head(inFlight).terminate /\ stream[x] = "active"
                 THEN [stream EXCEPT ![x] = "closing"] ELSE stream
    /\ UNCHANGED <<conn, self, inUse, connectFuture, shutdownFuture, closedFuture, flushFuture>>

FlushReturns(raised) ==
    /\ loop[1] \in {"flushed", "lost"}
    /\ flushFuture' = [flushFuture EXCEPT ![loop[2]] =
                         Finally(@, IF loop[1] = "flushed" THEN "result" ELSE "error", raised)]
    /\ loop' = Idle
    /\ UNCHANGED <<conn, self, inUse, connectFuture, shutdownFuture, stream, closedFuture, inFlight>>

(* A message arrives for the connection or for one of its streams; headers that
   do not convert end the callback before it reaches the handler. *)
OnMessage(x) ==
    /\ loop = Idle
    /\ loop' = <<"message", x>>
    /\ UNCHANGED <<conn, self, inUse, connectFuture, shutdownFuture, stream, closedFuture,
                   inFlight, flushFuture>>

OnProtocolMessage == conn = "open" /\ OnMessage(Protocol)
OnContinuationMessage(c) == conn = "open" /\ stream[c] = "active" /\ OnMessage(c)

(* What a handler of messages raises is only reported. *)
MessageReturns ==
    /\ loop[1] = "message"
    /\ loop' = Idle
    /\ UNCHANGED <<conn, self, inUse, connectFuture, shutdownFuture, stream, closedFuture,
                   inFlight, flushFuture>>

DropObject(x) ==
    /\ inUse[x]
    /\ inUse' = [inUse EXCEPT ![x] = FALSE]
    /\ UNCHANGED <<conn, self, connectFuture, shutdownFuture, stream, closedFuture,
                   inFlight, flushFuture, loop>>

CallbackBegins ==
    \/ \E ok \in BOOLEAN : OnConnectionSetup(ok) \/ OnMessageFlush(ok)
    \/ OnConnectionShutdown
    \/ \E c \in Cont : OnContinuationClosed(c)

MessageArrives == OnProtocolMessage \/ \E c \in Cont : OnContinuationMessage(c)

CallbackReturns ==
    \/ MessageReturns
    \/ \E raised \in BOOLEAN :
        \/ SetupReturns(raised) \/ SetupFailedReturns(raised) \/ ShutdownReturns(raised)
        \/ ClosedReturns(raised) \/ FlushReturns(raised)

ApplicationStep ==
    \/ Connect \/ Close
    \/ \E c \in Cont : NewStream(c) \/ \E m \in Message : Activate(m, c)
    \/ \E m \in Message, x \in Object, t \in BOOLEAN : SendMessage(m, x, t)
    \/ \E x \in Object : DropObject(x)

RpcNext ==
    \/ ApplicationStep
    \/ CallbackBegins \/ CallbackReturns \/ MessageArrives
    \/ \E c \in Cont : StreamEnds(c)

(* The event-loop thread runs on, and messages that keep arriving do not hold up
   its other callbacks for ever; an ending connection ends its streams.  Closing
   is up to the application: nothing obliges it to. *)
RpcFairness ==
    /\ SF_rpcVars(CallbackBegins) /\ WF_rpcVars(CallbackReturns)
    /\ \A c \in Cont : WF_rpcVars(conn = "closing" /\ StreamEnds(c))
    /\ SF_rpcVars(OnConnectionShutdown)

RpcSpec == RpcInit /\ [][RpcNext]_rpcVars /\ RpcFairness

----------------------------------------------------------------------------
(* Every callback that can still come, or is running, finds self_py: the object
   is there although the application may have dropped it, and a second or late
   activate() never takes it away. *)
CallbacksFindSelf ==
    /\ conn \in {"connecting", "open", "closing"} => self[Protocol]
    /\ \A c \in Cont : stream[c] \in {"active", "closing"} => self[c]
    /\ loop[1] \in {"closed", "setup", "failed", "shutdown", "message"} => self[loop[2]]

(* After the last callback the binding no longer keeps the Python object: the
   circular reference that would leak it is gone once the thread is out of the
   callback. *)
NoCircularReference ==
    loop = Idle =>
        /\ conn = "ended" => ~self[Protocol]
        /\ \A c \in Cont : stream[c] \in {"none", "new", "closed"} => ~self[c]

(* Whatever the handlers raise, every future that a native callback will settle
   is settled: connecting, each accepted message, and, once the connection is
   closed, the activated continuations and the shutdown. *)
FuturesSettle ==
    /\ connectFuture = "pending" ~> connectFuture # "pending"
    /\ \A m \in Message : flushFuture[m] = "pending" ~> flushFuture[m] # "pending"
    /\ conn = "closing" ~> shutdownFuture # "pending"
    /\ \A c \in Cont : stream[c] \in {"closing", "closed"} ~> closedFuture[c] = "result"
=============================================================================
