---------------------------- MODULE Http2Stream ----------------------------
(***************************************************************************)
(* An HTTP/2 stream with manual writes: Http2ClientStream (awscrt/http.py),*)
(* written to by the application, or AIOHttp2ClientStream                  *)
(* (awscrt/aio/http.py), written to by the task that drains a request body *)
(* generator.  write_data() is the same code in both.  The response side of*)
(* the asyncio stream is in AioHttpStream.                                 *)
(*                                                                         *)
(* Callbacks come from the event-loop thread, one at a time.  They look at *)
(* a future (cancelled(), done()) and resolve it in a second step; the     *)
(* application may cancel it in between.                                   *)
(***************************************************************************)
EXTENDS Naturals, Sequences

CONSTANTS Chunks   \* number of chunks the generator yields, and of writes

ASSUME ChunksAssumption == Chunks \in Nat \ {0}

VARIABLES
    api,         \* "blocking" or "asyncio"
    native,      \* "new", "open", "closed"; "dead" when activate() raised
    queue,       \* writes accepted and not yet sent
    sent,        \* writes sent
    ended,       \* a write with END_STREAM was accepted
    writeFut,         \* the future of each write
    callback,    \* the callback under way, with what it saw of its future
    remote,      \* the peer's END_STREAM was delivered
    remoteEnd,   \* remote_end_stream_future
    completion,  \* completion_future
    completed,   \* the completion callback has come
    cancelledLate, \* remote_end_stream_future was cancelled while that callback ran
    writer,      \* where the writer task is
    pulled,      \* chunks taken from the generator
    failed       \* the generator, a write or the task did not end normally

nativeVars == <<native, queue, sent, ended>>
writerVars == <<writer, pulled, failed>>
responseVars == <<remote, remoteEnd, completion, completed, cancelledLate>>
http2Vars == <<api, nativeVars, writeFut, callback, responseVars, writerVars>>

Last == Chunks + 1
Write == 1 .. Last
Idle == [kind |-> "none", write |-> 0, seen |-> FALSE]
StreamFuture == {"none", "pending", "done", "cancelled"}

Http2TypeOK ==
    /\ api \in {"blocking", "asyncio"}
    /\ native \in {"new", "open", "closed", "dead"}
    /\ queue \in Seq([n : Write, end : BOOLEAN]) /\ sent \in Seq([n : Write, end : BOOLEAN])
    /\ ended \in BOOLEAN /\ remote \in BOOLEAN /\ completed \in BOOLEAN /\ failed \in BOOLEAN
    /\ cancelledLate \in BOOLEAN
    /\ writeFut \in [Write -> StreamFuture]
    /\ callback \in [kind : {"none", "write", "remote", "complete"}, write : 0 .. Last, seen : BOOLEAN]
    /\ remoteEnd \in StreamFuture /\ completion \in StreamFuture
    /\ writer \in {"idle", "created", "pulling", "writing", "waiting", "closing", "lastwait", "over"}
    /\ pulled \in 0 .. Chunks

Http2Init ==
    /\ api \in {"blocking", "asyncio"}
    /\ native = "new" /\ queue = <<>> /\ sent = <<>> /\ ended = FALSE
    /\ writeFut = [w \in Write |-> "none"] /\ callback = Idle
    /\ remote = FALSE /\ remoteEnd = "pending" /\ completion = "pending" /\ completed = FALSE
    /\ cancelledLate = FALSE
    /\ writer = "idle" /\ pulled = 0 /\ failed = FALSE

(* Resolving a cancelled future raises InvalidStateError. *)
Settle(f) == IF f = "pending" THEN "done" ELSE f

(* activate(); the asyncio constructor creates the writer task just before, and
   the task runs although activating raised. *)
Activate ==
    /\ native = "new"
    /\ native' \in {"open", "dead"}
    /\ writer' = IF api = "asyncio" THEN "created" ELSE writer
    /\ UNCHANGED <<api, queue, sent, ended, writeFut, callback, responseVars, pulled, failed>>

----------------------------------------------------------------------------
(* Writing *)

(* The native stream refuses a write before it is activated, after it has
   ended, and after END_STREAM. *)
Accepts == native = "open" /\ ~ended

WriteData(w, end) ==
    /\ Accepts
    /\ queue' = Append(queue, [n |-> w, end |-> end])
    /\ ended' = end
    /\ writeFut' = [writeFut EXCEPT ![w] = "pending"]
    /\ UNCHANGED <<native, sent>>

WriteRefused(w) == ~Accepts /\ UNCHANGED <<nativeVars, writeFut>>

Sent(w) == \E i \in DOMAIN sent : sent[i].n = w

NextWrite(w) == writeFut[w] = "none" /\ \A v \in 1 .. w - 1 : writeFut[v] # "none"

ApplicationWrites(w, end) ==
    /\ api = "blocking" /\ NextWrite(w)
    /\ WriteData(w, end) \/ WriteRefused(w)
    /\ UNCHANGED <<api, callback, responseVars, writerVars>>

(* The event loop sends the next write... *)
Send ==
    /\ native = "open" /\ callback = Idle /\ queue # <<>>
    /\ sent' = Append(sent, Head(queue)) /\ queue' = Tail(queue)
    /\ callback' = [kind |-> "write", write |-> Head(queue).n, seen |-> writeFut[Head(queue).n] = "cancelled"]
    /\ UNCHANGED <<api, native, ended, writeFut, responseVars, writerVars>>

(* ...or fails what is left when the stream has ended. *)
Flush ==
    /\ native = "closed" /\ callback = Idle /\ queue # <<>>
    /\ queue' = Tail(queue)
    /\ callback' = [kind |-> "write", write |-> Head(queue).n, seen |-> writeFut[Head(queue).n] = "cancelled"]
    /\ UNCHANGED <<api, native, sent, ended, writeFut, responseVars, writerVars>>

(* Mutant: the completion of a write that failed is not reported. *)
ReportSentOnly(w) == IF Sent(w) THEN Settle(writeFut[w]) ELSE writeFut[w]

(* on_write_complete: nothing for a cancelled future. *)
ReportWrite(w) == IF callback.seen THEN writeFut[w] ELSE Settle(writeFut[w])

OnWriteComplete ==
    /\ callback.kind = "write"
    /\ writeFut' = [writeFut EXCEPT ![callback.write] = ReportWrite(callback.write)]
    /\ callback' = Idle
    /\ UNCHANGED <<api, nativeVars, responseVars, writerVars>>

----------------------------------------------------------------------------
(* The end of the stream *)

Close ==
    /\ native = "open" /\ native' = "closed"
    /\ UNCHANGED <<api, queue, sent, ended, writeFut, callback, responseVars, writerVars>>

RemoteEndStream ==
    /\ native \in {"open", "closed"} /\ callback = Idle /\ ~remote /\ ~completed
    /\ remote' = TRUE
    /\ callback' = [kind |-> "remote", write |-> 0, seen |-> remoteEnd # "pending"]
    /\ UNCHANGED <<api, nativeVars, writeFut, remoteEnd, completion, completed, cancelledLate, writerVars>>

OnRemoteEndStream ==
    /\ callback.kind = "remote"
    /\ remoteEnd' = Settle(remoteEnd)
    /\ callback' = Idle
    /\ UNCHANGED <<api, nativeVars, writeFut, remote, completion, completed, cancelledLate, writerVars>>

Complete ==
    /\ native = "closed" /\ callback = Idle /\ ~completed
    /\ completed' = TRUE
    /\ callback' = [kind |-> "complete", write |-> 0, seen |-> remoteEnd # "pending"]
    /\ UNCHANGED <<api, nativeVars, writeFut, remote, remoteEnd, completion, cancelledLate, writerVars>>

(* Mutant: the future is not looked at before it is resolved. *)
RaisesUnlooked == remoteEnd # "pending"

(* set_exception raises: the future was cancelled after done() was false. *)
Raises == ~callback.seen /\ remoteEnd # "pending"

(* _on_complete of the blocking stream; an exception skips the rest of it. *)
OnStreamComplete ==
    /\ callback.kind = "complete"
    /\ remoteEnd' = IF api = "blocking" THEN Settle(remoteEnd) ELSE remoteEnd
    /\ completion' = IF api = "blocking" /\ Raises THEN completion ELSE Settle(completion)
    /\ callback' = Idle
    /\ UNCHANGED <<api, nativeVars, writeFut, remote, completed, cancelledLate, writerVars>>

CancelFuture ==
    /\ \/ \E w \in Write :
            /\ api = "blocking" /\ writeFut[w] = "pending"
            /\ writeFut' = [writeFut EXCEPT ![w] = "cancelled"]
            /\ UNCHANGED <<remoteEnd, completion, cancelledLate>>
       \/ /\ remoteEnd = "pending" /\ remoteEnd' = "cancelled"
          /\ cancelledLate' = (callback.kind = "complete")
          /\ UNCHANGED <<writeFut, completion>>
       \/ /\ completion = "pending" /\ completion' = "cancelled"
          /\ UNCHANGED <<writeFut, remoteEnd, cancelledLate>>
    /\ UNCHANGED <<api, nativeVars, callback, remote, completed, writerVars>>

----------------------------------------------------------------------------
(* _set_request_body_generator *)

(* Mutant: a chunk without bytes is taken for the end of the body. *)
ExhaustedAnyTime == TRUE

Exhausted == pulled = Chunks

(* Mutant: the finally clause is missing, an exception ends the task. *)
AfterFailure == "over"

FinallyClause == "closing"

(* The task's first step enters the try statement. *)
StartWriter ==
    /\ writer = "created"
    /\ writer' = "pulling"
    /\ UNCHANGED <<api, nativeVars, writeFut, callback, responseVars, pulled, failed>>

(* The generator yields a chunk, ends, or raises. *)
Pull ==
    /\ writer = "pulling"
    /\ \/ pulled < Chunks /\ pulled' = pulled + 1 /\ writer' = "writing" /\ UNCHANGED failed
       \/ Exhausted /\ writer' = "closing" /\ UNCHANGED <<pulled, failed>>
       \/ writer' = FinallyClause /\ failed' = TRUE /\ UNCHANGED pulled
    /\ UNCHANGED <<api, nativeVars, writeFut, callback, responseVars>>

WriteChunk ==
    /\ writer = "writing"
    /\ \/ WriteData(pulled, FALSE) /\ writer' = "waiting" /\ UNCHANGED failed
       \/ WriteRefused(pulled) /\ writer' = FinallyClause /\ failed' = TRUE
    /\ UNCHANGED <<api, callback, responseVars, pulled>>

(* The await returns, or raises the error of a write the stream did not send. *)
ChunkWritten ==
    /\ writer = "waiting" /\ writeFut[pulled] = "done"
    /\ \/ Sent(pulled) /\ writer' = "pulling" /\ UNCHANGED failed
       \/ ~Sent(pulled) /\ writer' = FinallyClause /\ failed' = TRUE
    /\ UNCHANGED <<api, nativeVars, writeFut, callback, responseVars, pulled>>

(* The future the task awaits is cancelled with it, unless it is done. *)
CancelAwaited(w) == writeFut' = [writeFut EXCEPT ![w] = IF @ = "pending" THEN "cancelled" ELSE @]

(* The task is cancelled: at an await of the loop, at the await of the finally
   clause, or before its first step, and then it never enters the try. *)
CancelWriter ==
    /\ \/ writer = "waiting" /\ CancelAwaited(pulled) /\ writer' = FinallyClause
       \/ writer = "pulling" /\ UNCHANGED writeFut /\ writer' = FinallyClause
       \/ writer = "lastwait" /\ CancelAwaited(Last) /\ writer' = "over"
       \/ writer = "created" /\ UNCHANGED writeFut /\ writer' = "over"
    /\ failed' = TRUE
    /\ UNCHANGED <<api, nativeVars, callback, responseVars, pulled>>

(* The finally clause: END_STREAM however the loop ended. *)
WriteEnd ==
    /\ writer = "closing"
    /\ \/ WriteData(Last, TRUE) /\ writer' = "lastwait"
       \/ WriteRefused(Last) /\ writer' = "over"
    /\ UNCHANGED <<api, callback, responseVars, pulled, failed>>

EndWritten ==
    /\ writer = "lastwait" /\ writeFut[Last] = "done"
    /\ writer' = "over"
    /\ UNCHANGED <<api, nativeVars, writeFut, callback, responseVars, pulled, failed>>

WriterStep == StartWriter \/ Pull \/ WriteChunk \/ ChunkWritten \/ WriteEnd \/ EndWritten
NativeStep == Send \/ Flush \/ Complete
CallbackStep == OnWriteComplete \/ OnRemoteEndStream \/ OnStreamComplete

Http2Next ==
    \/ Activate \/ Close \/ RemoteEndStream \/ CancelFuture \/ CancelWriter
    \/ \E w \in 1 .. Chunks, end \in BOOLEAN : ApplicationWrites(w, end)
    \/ NativeStep \/ CallbackStep \/ WriterStep

(* The event loop sends while the peer's window allows it, and ends the stream
   otherwise; callbacks return; the task runs and its generator goes on. *)
Http2Fairness == WF_http2Vars(NativeStep) /\ WF_http2Vars(CallbackStep) /\ WF_http2Vars(WriterStep)

Http2Spec == Http2Init /\ [][Http2Next]_http2Vars /\ Http2Fairness

----------------------------------------------------------------------------
(* The peer gets the writes in the order of the calls and nothing after
   END_STREAM.  A generator's body that ends in END_STREAM is complete, unless
   the generator, a write or the task failed: END_STREAM is sent then too. *)
BodyIsFramed ==
    /\ \A i \in DOMAIN sent : sent[i].end => i = Len(sent)
    /\ \A i, j \in DOMAIN sent : i < j => sent[i].n < sent[j].n
    /\ (api = "asyncio" /\ ~failed /\ \E i \in DOMAIN sent : sent[i].end) => Len(sent) = Last

(* When the completion callback of the blocking stream is over, its
   completion_future is resolved; the one way to lose it is to cancel the
   remote_end_stream_future while the callback runs, after its done().  A
   future cancelled earlier, or resolved by the peer's END_STREAM or not at
   all, never costs the completion. *)
CompletionReported ==
    (api = "blocking" /\ completed /\ callback.kind # "complete")
        => completion # "pending" \/ cancelledLate

(* Every write that was accepted resolves its future, also when the stream
   ends first. *)
WritesSettle == \A w \in Write : writeFut[w] = "pending" ~> writeFut[w] # "pending"

(* Once the writer task has taken its first step it ends, and whatever became
   of the generator and of the task, the peer has then got END_STREAM or the
   stream is over.  (A task cancelled before its first step sends neither.) *)
WriterEndsBody ==
    (writer = "pulling") ~> (writer = "over" /\ ((\E i \in DOMAIN sent : sent[i].end) \/ native # "open"))
=============================================================================
