--------------------------- MODULE AioHttpStream ---------------------------
(***************************************************************************)
(* The response side of AIOHttpClientStreamUnified (awscrt/aio/http.py)    *)
(* with the C callbacks that drive it (source/http_stream.c).              *)
(*                                                                         *)
(* Two threads run.  The event-loop thread of the native client delivers   *)
(* header blocks, body chunks, the end of an HTTP/2 stream and completion, *)
(* one callback at a time.  The asyncio thread runs the tasks that call    *)
(* get_next_response_chunk().  Both touch _received_chunks and             *)
(* _chunk_futures under _deque_lock, but every Future is resolved outside  *)
(* the lock, so a callback is several steps here: `at` is where the        *)
(* event-loop thread stands inside it.                                     *)
(*                                                                         *)
(* Call number i is the i-th call of get_next_response_chunk() to take the *)
(* lock; the concurrent Future it may create is future number i.  Chunk    *)
(* number k is the k-th body chunk the native stream hands over.  Eof      *)
(* stands for b"".                                                         *)
(*                                                                         *)
(* A task that is cancelled while it awaits asyncio.wrap_future(f) cancels *)
(* its asyncio future at once and, in a later iteration of the loop, f     *)
(* itself; set_result() on a cancelled Future raises InvalidStateError.    *)
(***************************************************************************)
EXTENDS Naturals, Sequences

CONSTANTS
    MaxCalls,     \* bound: calls of get_next_response_chunk()
    MaxChunks,    \* bound: body chunks the peer sends
    MaxHeaders,   \* bound: header fields per header block
    Cancellable   \* what application tasks cancel while they await it

Shared == {"completion", "status", "headers"}

ASSUME BoundsAssumption == MaxCalls \in Nat /\ MaxChunks \in Nat /\ MaxHeaders \in Nat
ASSUME CancellableAssumption == Cancellable \subseteq Shared \union {"chunk"}

VARIABLES
    wire,         \* phase of the native stream
    block,        \* header block being received, or "none"
    arrived,      \* body chunks handed to s_on_incoming_body so far
    at,           \* where the event-loop thread is inside a callback
    pending,      \* futures that callback took out of _chunk_futures
    headerBuf,    \* received_headers: the block each buffered field belongs to
    delivered,    \* the header list given to _on_response
    chunks,       \* _received_chunks
    chunkFutures, \* _chunk_futures
    calls,        \* number of calls made so far
    fut,          \* state of each call's Future
    val,          \* result of each call's Future (or of its immediate return)
    task,         \* the task that made each call
    shared        \* states of the stream's own futures

wireVars == <<wire, block, arrived>>
headerVars == <<headerBuf, delivered>>
futVars == <<fut, val>>
vars == <<wire, block, arrived, at, pending, headerBuf, delivered, chunks,
          chunkFutures, calls, fut, val, task, shared>>

Eof == 0
Call == 1 .. MaxCalls
Block == {"info", "main", "trailing"}
FutureState == {"pending", "finished", "exception", "cancelled"}

TypeOK ==
    /\ wire \in {"head", "body", "trailer", "remote_ended", "failed", "complete"}
    /\ block \in Block \union {"none"}
    /\ arrived \in 0 .. MaxChunks
    /\ at \in {"idle", "set_chunk", "snapshot", "resolve"}
    /\ pending \in Seq(Call)
    /\ headerBuf \in Seq(Block)
    /\ delivered \in Seq(Block)
    /\ chunks \in Seq(1 .. MaxChunks)
    /\ chunkFutures \in Seq(Call)
    /\ calls \in 0 .. MaxCalls
    /\ fut \in [Call -> FutureState \union {"none"}]
    /\ val \in [Call -> 0 .. MaxChunks]
    /\ task \in [Call -> {"none", "awaiting", "cancelling", "cancelled", "returned"}]
    /\ shared \in [Shared \union {"remote"} -> FutureState]

(* __init__ up to a successful activation: no callback has run yet. *)
Init ==
    /\ wire = "head" /\ block = "none" /\ arrived = 0
    /\ at = "idle" /\ pending = <<>>
    /\ headerBuf = <<>> /\ delivered = <<>>
    /\ chunks = <<>> /\ chunkFutures = <<>>
    /\ calls = 0
    /\ fut = [c \in Call |-> "none"]
    /\ val = [c \in Call |-> Eof]
    /\ task = [c \in Call |-> "none"]
    /\ shared = [f \in Shared \union {"remote"} |-> "pending"]

Done(f) == shared[f] # "pending"

(* What get_next_response_chunk() takes for the end of the stream. *)
EndSeen == Done("completion") \/ Done("remote")

-----------------------------------------------------------------------------
(* Event-loop thread: headers.                                              *)

(* The order in which the native stream delivers header blocks. *)
BlockAllowed(b) ==
    /\ block \in {"none", b}
    /\ b \in {"info", "main"} => wire = "head"
    /\ b = "trailing" => wire \in {"body", "trailer"}

(* s_on_incoming_headers: append to the buffer, whatever the block. *)
OnIncomingHeaders(b) ==
    /\ at = "idle"
    /\ BlockAllowed(b)
    /\ Len(headerBuf) < MaxHeaders
    /\ block' = b
    /\ wire' = IF b = "trailing" THEN "trailer" ELSE wire
    /\ headerBuf' = Append(headerBuf, b)
    /\ UNCHANGED <<arrived, at, pending, delivered, chunks, chunkFutures,
                   calls, futVars, task, shared>>

(* The buffer is emptied after every block that was handled. *)
BufferAfterBlock(b) == <<>>

(* _on_response: resolve the status future, then the headers future.  The
   first one that a task has cancelled raises and ends the method. *)
OnResponse ==
    LET statusOk == shared["status"] = "pending"
        headersOk == shared["headers"] = "pending"
    IN  shared' = [shared EXCEPT
                      !["status"] = IF statusOk THEN "finished" ELSE @,
                      !["headers"] = IF statusOk /\ headersOk THEN "finished" ELSE @]

OnResponseRaises == shared["status"] # "pending" \/ shared["headers"] # "pending"

(* s_on_incoming_header_block_done: only the main block reaches Python.  If
   _on_response raises, the error is returned to the native stream, which
   fails, and the buffer keeps its contents. *)
OnHeaderBlockDone(b) ==
    /\ at = "idle"
    /\ BlockAllowed(b)
    /\ block' = "none"
    /\ IF b = "main"
       THEN /\ OnResponse
            /\ wire' = IF OnResponseRaises THEN "failed" ELSE "body"
            /\ delivered' = IF OnResponseRaises THEN delivered ELSE headerBuf
            /\ headerBuf' = IF OnResponseRaises THEN headerBuf ELSE BufferAfterBlock(b)
       ELSE /\ wire' = IF b = "trailing" THEN "trailer" ELSE wire
            /\ headerBuf' = BufferAfterBlock(b)
            /\ UNCHANGED <<delivered, shared>>
    /\ UNCHANGED <<arrived, at, pending, chunks, chunkFutures, calls, futVars, task>>

(* The same callback when a field of the buffer is not UTF-8: the list for
   Python cannot be built, whatever the block, and the native stream fails. *)
OnHeaderBlockUndecodable(b) ==
    /\ at = "idle"
    /\ BlockAllowed(b)
    /\ headerBuf # <<>>
    /\ block' = "none" /\ wire' = "failed"
    /\ UNCHANGED <<arrived, at, pending, headerVars, chunks, chunkFutures, calls,
                   futVars, task, shared>>

-----------------------------------------------------------------------------
(* Event-loop thread: body.                                                 *)

(* Mutant: a chunk wakes the newest waiting call. *)
OnIncomingBodyNewest ==
    LET n == Len(chunkFutures)
    IN  /\ at = "idle"
        /\ wire = "body" /\ block = "none"
        /\ arrived < MaxChunks
        /\ arrived' = arrived + 1
        /\ IF n > 0
           THEN /\ pending' = <<chunkFutures[n]>>
                /\ chunkFutures' = SubSeq(chunkFutures, 1, n - 1)
                /\ at' = "set_chunk"
                /\ UNCHANGED chunks
           ELSE /\ chunks' = Append(chunks, arrived + 1)
                /\ UNCHANGED <<at, pending, chunkFutures>>
        /\ UNCHANGED <<wire, block, headerVars, calls, futVars, task, shared>>

(* _on_body's locked part: hand the chunk to the oldest waiting call, or
   buffer it. *)
OnIncomingBody ==
    /\ at = "idle"
    /\ wire = "body" /\ block = "none"
    /\ arrived < MaxChunks
    /\ arrived' = arrived + 1
    /\ IF chunkFutures # <<>>
       THEN /\ pending' = <<Head(chunkFutures)>>
            /\ chunkFutures' = Tail(chunkFutures)
            /\ at' = "set_chunk"
            /\ UNCHANGED chunks
       ELSE /\ chunks' = Append(chunks, arrived + 1)
            /\ UNCHANGED <<at, pending, chunkFutures>>
    /\ UNCHANGED <<wire, block, headerVars, calls, futVars, task, shared>>

(* set_result(v) on the Future of call c, when no task cancelled it. *)
SetResult(c, v) ==
    /\ fut[c] = "pending"
    /\ fut' = [fut EXCEPT ![c] = "finished"]
    /\ val' = [val EXCEPT ![c] = v]

(* _on_body after the lock: resolve the future, or raise InvalidStateError,
   which s_on_incoming_body returns to the native stream as an error. *)
SetChunkResult ==
    /\ at = "set_chunk"
    /\ at' = "idle"
    /\ pending' = <<>>
    /\ \/ SetResult(Head(pending), arrived) /\ UNCHANGED wire
       \/ fut[Head(pending)] = "cancelled" /\ wire' = "failed" /\ UNCHANGED futVars
    /\ UNCHANGED <<block, arrived, headerVars, chunks, chunkFutures, calls, task, shared>>

-----------------------------------------------------------------------------
(* Event-loop thread: the end of the stream.                                *)

(* A stream future is resolved before the waiting calls are collected. *)
PublishEnd(f, s) == at' = "snapshot" /\ shared' = [shared EXCEPT ![f] = s]

(* s_on_h2_remote_end_stream / _on_h2_remote_end_stream, first statement. *)
OnH2RemoteEndStream ==
    /\ at = "idle"
    /\ wire \in {"body", "trailer"} /\ block = "none"
    /\ wire' = "remote_ended"
    /\ PublishEnd("remote", "finished")
    /\ UNCHANGED <<block, arrived, pending, headerVars, chunks, chunkFutures,
                   calls, futVars, task>>

(* s_on_stream_complete / _on_complete, first statement.  Success needs the
   whole response; an error may come at any time.  If a task cancelled the
   completion future, set_result raises and _on_complete ends here. *)
OnComplete(s) ==
    /\ at = "idle"
    /\ wire # "complete"
    /\ s = "finished" => wire \in {"body", "trailer", "remote_ended"} /\ block = "none"
    /\ wire' = "complete"
    /\ IF shared["completion"] = "pending"
       THEN PublishEnd("completion", s)
       ELSE UNCHANGED <<at, shared>>
    /\ UNCHANGED <<block, arrived, pending, headerVars, chunks, chunkFutures,
                   calls, futVars, task>>

(* Mutant: the snapshot takes only the oldest waiting future. *)
SnapshotOldestOnly ==
    /\ at = "snapshot"
    /\ at' = "resolve"
    /\ pending' = IF chunkFutures = <<>> THEN <<>> ELSE <<Head(chunkFutures)>>
    /\ chunkFutures' = <<>>
    /\ UNCHANGED <<wireVars, headerVars, chunks, calls, futVars, task, shared>>

(* _resolve_pending_chunk_futures, the locked part. *)
SnapshotPending ==
    /\ at = "snapshot"
    /\ at' = "resolve"
    /\ pending' = chunkFutures
    /\ chunkFutures' = <<>>
    /\ UNCHANGED <<wireVars, headerVars, chunks, calls, futVars, task, shared>>

(* Its loop: one future per step.  A cancelled future raises and leaves the
   rest of the list unresolved. *)
ResolveOne ==
    /\ at = "resolve" /\ pending # <<>>
    /\ \/ SetResult(Head(pending), Eof) /\ pending' = Tail(pending) /\ UNCHANGED at
       \/ /\ fut[Head(pending)] = "cancelled"
          /\ pending' = <<>> /\ at' = "idle" /\ UNCHANGED futVars
    /\ UNCHANGED <<wireVars, headerVars, chunks, chunkFutures, calls, task, shared>>

ResolveEnd ==
    /\ at = "resolve" /\ pending = <<>>
    /\ at' = "idle"
    /\ UNCHANGED <<wireVars, pending, headerVars, chunks, chunkFutures, calls,
                   futVars, task, shared>>

-----------------------------------------------------------------------------
(* asyncio thread.                                                          *)

(* get_next_response_chunk returns without awaiting. *)
ReturnNow(c, v) ==
    /\ fut' = [fut EXCEPT ![c] = "finished"]
    /\ val' = [val EXCEPT ![c] = v]
    /\ task' = [task EXCEPT ![c] = "returned"]

(* get_next_response_chunk queues a new Future and awaits it. *)
Enqueue(c) ==
    /\ chunkFutures' = Append(chunkFutures, c)
    /\ fut' = [fut EXCEPT ![c] = "pending"]
    /\ task' = [task EXCEPT ![c] = "awaiting"]
    /\ UNCHANGED <<chunks, val>>

(* Mutant: look at the end of the stream before the buffered chunks. *)
EndBeforeBuffer(c) ==
    IF EndSeen THEN ReturnNow(c, Eof) /\ UNCHANGED <<chunks, chunkFutures>>
    ELSE IF chunks # <<>>
    THEN ReturnNow(c, Head(chunks)) /\ chunks' = Tail(chunks) /\ UNCHANGED chunkFutures
    ELSE Enqueue(c)

(* The locked part of get_next_response_chunk. *)
TakeOrWait(c) ==
    IF chunks # <<>>
    THEN ReturnNow(c, Head(chunks)) /\ chunks' = Tail(chunks) /\ UNCHANGED chunkFutures
    ELSE IF EndSeen THEN ReturnNow(c, Eof) /\ UNCHANGED <<chunks, chunkFutures>>
    ELSE Enqueue(c)

GetNextResponseChunk ==
    /\ calls < MaxCalls
    /\ calls' = calls + 1
    /\ TakeOrWait(calls + 1)
    /\ UNCHANGED <<wireVars, at, pending, headerVars, shared>>

(* The loop hands the Future's result to the awaiting task. *)
Resume(c) ==
    /\ task[c] = "awaiting" /\ fut[c] = "finished"
    /\ task' = [task EXCEPT ![c] = "returned"]
    /\ UNCHANGED <<wireVars, at, pending, headerVars, chunks, chunkFutures,
                   calls, futVars, shared>>

(* The application cancels a task that awaits a chunk ... *)
CancelTask(c) ==
    /\ "chunk" \in Cancellable
    /\ task[c] = "awaiting"
    /\ task' = [task EXCEPT ![c] = "cancelling"]
    /\ UNCHANGED <<wireVars, at, pending, headerVars, chunks, chunkFutures,
                   calls, futVars, shared>>

(* ... and wrap_future cancels the concurrent Future, unless it is done. *)
PropagateCancel(c) ==
    /\ task[c] = "cancelling"
    /\ task' = [task EXCEPT ![c] = "cancelled"]
    /\ fut' = IF fut[c] = "pending" THEN [fut EXCEPT ![c] = "cancelled"] ELSE fut
    /\ UNCHANGED <<wireVars, at, pending, headerVars, chunks, chunkFutures,
                   calls, val, shared>>

(* The application cancels a task that awaits wait_for_completion(),
   get_response_status_code() or get_response_headers(). *)
CancelShared(f) ==
    /\ f \in Cancellable
    /\ shared[f] = "pending"
    /\ shared' = [shared EXCEPT ![f] = "cancelled"]
    /\ UNCHANGED <<wireVars, at, pending, headerVars, chunks, chunkFutures,
                   calls, futVars, task>>

-----------------------------------------------------------------------------
Callback ==
    \/ SetChunkResult \/ SnapshotPending \/ ResolveOne \/ ResolveEnd

Next ==
    \/ \E b \in Block : OnIncomingHeaders(b) \/ OnHeaderBlockDone(b) \/ OnHeaderBlockUndecodable(b)
    \/ OnIncomingBody
    \/ OnH2RemoteEndStream
    \/ \E s \in {"finished", "exception"} : OnComplete(s)
    \/ Callback
    \/ GetNextResponseChunk
    \/ \E c \in Call : Resume(c) \/ CancelTask(c) \/ PropagateCancel(c)
    \/ \E f \in Shared : CancelShared(f)

(* A callback that started runs to its end; the native stream completes
   every activated stream; the asyncio loop runs what is ready. *)
Fairness ==
    /\ WF_vars(Callback)
    /\ WF_vars(\E s \in {"finished", "exception"} : OnComplete(s))
    /\ \A c \in Call : WF_vars(Resume(c)) /\ WF_vars(PropagateCancel(c))

Spec == Init /\ [][Next]_vars
FairSpec == Spec /\ Fairness

-----------------------------------------------------------------------------
(* The i-th call to take the lock gets the i-th chunk the peer sent, and
   b"" only if the peer sent fewer and the stream has ended: get_next_-
   response_chunk, _on_body and _resolve_pending_chunk_futures together lose,
   repeat and reorder nothing whichever way their locked parts interleave. *)
DeliveredInCallOrder ==
    \A c \in 1 .. calls :
        fut[c] = "finished" =>
            \/ val[c] = c /\ c <= arrived
            \/ val[c] = Eof /\ c > arrived /\ wire \in {"remote_ended", "complete"}

NobodyCancelled == \A c \in Call : task[c] \notin {"cancelling", "cancelled"}

(* Every awaiting call comes to an end, provided no other call on the stream
   is cancelled: no wake-up is lost between the chunk callback, the end of the
   stream and a new call. *)
CallsReturnUnlessCancelled ==
    \A c \in Call : task[c] = "awaiting" ~> (task[c] # "awaiting" \/ ~NobodyCancelled)

(* The same without the proviso: _resolve_pending_chunk_futures says it
   resolves ALL pending chunk futures. *)
EveryCallReturns ==
    \A c \in Call : task[c] = "awaiting" ~> task[c] # "awaiting"

(* The stream refines a channel that hands the i-th message to the i-th
   reader and closes once: arrived chunks are the messages, the native
   stream's end closes the channel, a resolved Future is a delivery. *)
ChannelOut == [c \in Call |-> IF fut[c] = "finished" THEN {val[c]} ELSE {}]
Channel == INSTANCE ChunkChannel WITH
    MaxReads <- MaxCalls, MaxMessages <- MaxChunks,
    sent <- arrived, closed <- wire \in {"remote_ended", "failed", "complete"},
    reads <- calls, out <- ChannelOut
ImplementsChannel == Channel!Spec
=============================================================================
