-------------------------- MODULE HttpStreamProofs --------------------------
(***************************************************************************)
(* Proofs about AioHttpStream, for every number of calls and chunks, and   *)
(* about Http2Stream, for any number of chunks: type correctness, that     *)
(* chunks are delivered in call order, that the stream implements the      *)
(* abstract channel, how the request body is framed, and that the          *)
(* completion is reported.                                                 *)
(***************************************************************************)
EXTENDS AioHttpStream, Http2Stream, SequenceTheorems, TLAPS

(* The parts of a non-empty sequence have the type of its elements. *)
LEMMA HeadTail ==
  ASSUME NEW S, NEW q \in Seq(S), q # <<>>
  PROVE  Head(q) \in S /\ Tail(q) \in Seq(S) /\ <<Head(q)>> \in Seq(S)
  OBVIOUS

(* The empty sequence has every element type. *)
LEMMA EmptyType == ASSUME NEW S PROVE <<>> \in Seq(S)
  OBVIOUS

(* Appending an element of the type keeps the type. *)
LEMMA AppendType ==
  ASSUME NEW S, NEW q \in Seq(S), NEW e \in S
  PROVE  Append(q, e) \in Seq(S)
  OBVIOUS

(* Resolving a future keeps the types of fut and val. *)
LEMMA SetResultType ==
  ASSUME TypeOK, NEW c, NEW v \in 0 .. MaxChunks, SetResult(c, v)
  PROVE  fut' \in [Call -> FutureState \union {"none"}] /\ val' \in [Call -> 0 .. MaxChunks]
  BY DEF TypeOK, SetResult, FutureState

(* Type correctness of every step, one case per action. *)
LEMMA TypeStep == TypeOK /\ [Next]_vars => TypeOK'
<1> SUFFICES ASSUME TypeOK, [Next]_vars PROVE TypeOK'
  OBVIOUS
<1> USE BoundsAssumption DEF TypeOK
<1>1. ASSUME NEW b \in Block, OnIncomingHeaders(b) PROVE TypeOK'
  <2>1. headerBuf' \in Seq(Block) /\ block' \in Block \union {"none"}
    BY <1>1, AppendType DEF OnIncomingHeaders
  <2>2. /\ wire' \in {wire, "trailer"}
        /\ UNCHANGED <<arrived, at, pending, delivered, chunks, chunkFutures,
                       calls, fut, val, task, shared>>
    BY <1>1 DEF OnIncomingHeaders, futVars
  <2>3. QED
    BY <2>1, <2>2
<1>2. ASSUME NEW b \in Block, OnHeaderBlockDone(b) PROVE TypeOK'
  <2>1. shared' \in [Shared \union {"remote"} -> FutureState]
    BY <1>2 DEF OnHeaderBlockDone, OnResponse, OnResponseRaises, FutureState, Shared
  <2>2. headerBuf' \in Seq(Block) /\ delivered' \in Seq(Block)
    BY <1>2, EmptyType DEF OnHeaderBlockDone, OnResponseRaises, BufferAfterBlock
  <2>3. wire' \in {"head", "body", "trailer", "remote_ended", "failed", "complete"}
        /\ block' = "none"
    BY <1>2 DEF OnHeaderBlockDone, OnResponseRaises
  <2>4. UNCHANGED <<arrived, at, pending, chunks, chunkFutures, calls, fut, val, task>>
    BY <1>2 DEF OnHeaderBlockDone, futVars
  <2>5. QED
    BY <2>1, <2>2, <2>3, <2>4
<1>2a. ASSUME NEW b \in Block, OnHeaderBlockUndecodable(b) PROVE TypeOK'
  BY <1>2a DEF OnHeaderBlockUndecodable, headerVars, futVars
<1>3. CASE OnIncomingBody
  <2>1. arrived' \in 0 .. MaxChunks /\ arrived + 1 \in 1 .. MaxChunks
    BY <1>3 DEF OnIncomingBody
  <2>2. at' \in {"idle", "set_chunk"}
    BY <1>3 DEF OnIncomingBody
  <2>3. pending' \in Seq(Call) /\ chunkFutures' \in Seq(Call)
    <3>1. CASE chunkFutures # <<>>
      <4>1. pending' = <<Head(chunkFutures)>> /\ chunkFutures' = Tail(chunkFutures)
        BY <1>3, <3>1 DEF OnIncomingBody
      <4>2. QED
        BY <3>1, <4>1, HeadTail
    <3>2. CASE chunkFutures = <<>>
      BY <1>3, <3>2 DEF OnIncomingBody
    <3>3. QED
      BY <3>1, <3>2
  <2>4. chunks' \in Seq(1 .. MaxChunks)
    <3>1. Append(chunks, arrived + 1) \in Seq(1 .. MaxChunks)
      BY <2>1, AppendType
    <3>2. QED
      BY <1>3, <3>1 DEF OnIncomingBody
  <2>5. UNCHANGED <<wire, block, headerBuf, delivered, calls, fut, val, task, shared>>
    BY <1>3 DEF OnIncomingBody, headerVars, futVars
  <2>6. QED
    BY <2>1, <2>2, <2>3, <2>4, <2>5
<1>4. CASE OnH2RemoteEndStream
  BY <1>4 DEF OnH2RemoteEndStream, PublishEnd, headerVars, futVars, FutureState
<1>5. ASSUME NEW s \in {"finished", "exception"}, OnComplete(s) PROVE TypeOK'
  BY <1>5 DEF OnComplete, PublishEnd, headerVars, futVars, FutureState
<1>6. CASE SetChunkResult
  <2>1. fut' \in [Call -> FutureState \union {"none"}] /\ val' \in [Call -> 0 .. MaxChunks]
    BY <1>6 DEF SetChunkResult, SetResult, futVars, FutureState
  <2>2. /\ wire' \in {wire, "failed"} /\ at' = "idle" /\ pending' = <<>>
        /\ UNCHANGED <<block, arrived, headerBuf, delivered, chunks, chunkFutures,
                       calls, task, shared>>
    BY <1>6 DEF SetChunkResult, SetResult, headerVars
  <2>3. QED
    BY <2>1, <2>2
<1>7. CASE SnapshotPending
  BY <1>7 DEF SnapshotPending, wireVars, headerVars, futVars
<1>8. CASE ResolveOne
  <2>1. fut' \in [Call -> FutureState \union {"none"}] /\ val' \in [Call -> 0 .. MaxChunks]
    <3> Eof \in 0 .. MaxChunks
      BY DEF Eof
    <3>1. CASE SetResult(Head(pending), Eof)
      BY <3>1, SetResultType
    <3>2. CASE UNCHANGED futVars
      BY <3>2 DEF futVars
    <3>3. QED
      BY <1>8, <3>1, <3>2 DEF ResolveOne
  <2>2. pending' \in Seq(Call)
    <3>1. Tail(pending) \in Seq(Call)
      BY <1>8, HeadTail DEF ResolveOne
    <3>2. pending' = Tail(pending) \/ pending' = <<>>
      BY <1>8 DEF ResolveOne
    <3>3. QED
      BY <3>1, <3>2, EmptyType
  <2>3. /\ at' \in {"resolve", "idle"}
        /\ UNCHANGED <<wire, block, arrived, headerBuf, delivered, chunks, chunkFutures,
                       calls, task, shared>>
    BY <1>8 DEF ResolveOne, wireVars, headerVars
  <2>4. QED
    BY <2>1, <2>2, <2>3
<1>9. CASE ResolveEnd
  BY <1>9 DEF ResolveEnd, wireVars, headerVars, futVars
<1>10. CASE GetNextResponseChunk
  <2> DEFINE c == calls + 1
  <2>1. c \in Call /\ calls' \in 0 .. MaxCalls
    BY <1>10 DEF GetNextResponseChunk, Call
  <2>2. UNCHANGED <<wire, block, arrived, at, pending, headerBuf, delivered, shared>>
    BY <1>10 DEF GetNextResponseChunk, wireVars, headerVars
  <2>3. chunks # <<>> => Head(chunks) \in 0 .. MaxChunks /\ Tail(chunks) \in Seq(1 .. MaxChunks)
    BY HeadTail
  <2>4. CASE chunks # <<>>
    <3>1. ReturnNow(c, Head(chunks)) /\ chunks' = Tail(chunks) /\ UNCHANGED chunkFutures
      BY <1>10, <2>4 DEF GetNextResponseChunk, TakeOrWait
    <3>2. QED
      BY <2>1, <2>2, <2>3, <2>4, <3>1 DEF ReturnNow, FutureState
  <2>5. CASE chunks = <<>> /\ EndSeen
    <3>1. ReturnNow(c, Eof) /\ UNCHANGED <<chunks, chunkFutures>>
      BY <1>10, <2>5 DEF GetNextResponseChunk, TakeOrWait
    <3>2. QED
      BY <2>1, <2>2, <3>1 DEF ReturnNow, FutureState, Eof
  <2>6. CASE chunks = <<>> /\ ~EndSeen
    <3>1. Enqueue(c)
      BY <1>10, <2>6 DEF GetNextResponseChunk, TakeOrWait
    <3>2. chunkFutures' \in Seq(Call)
      BY <2>1, <3>1, AppendType DEF Enqueue
    <3>3. QED
      BY <2>1, <2>2, <3>1, <3>2 DEF Enqueue, FutureState
  <2>7. QED
    BY <2>4, <2>5, <2>6
<1>11. ASSUME NEW c \in Call, Resume(c) PROVE TypeOK'
  BY <1>11 DEF Resume, wireVars, headerVars, futVars
<1>12. ASSUME NEW c \in Call, CancelTask(c) PROVE TypeOK'
  BY <1>12 DEF CancelTask, wireVars, headerVars, futVars
<1>13. ASSUME NEW c \in Call, PropagateCancel(c) PROVE TypeOK'
  BY <1>13 DEF PropagateCancel, wireVars, headerVars, FutureState
<1>14. ASSUME NEW f \in Shared, CancelShared(f) PROVE TypeOK'
  BY <1>14 DEF CancelShared, wireVars, headerVars, futVars, FutureState
<1>15. CASE UNCHANGED vars
  BY <1>15 DEF vars
<1>16. QED
  BY <1>1, <1>2, <1>2a, <1>3, <1>4, <1>5, <1>6, <1>7, <1>8, <1>9, <1>10, <1>11, <1>12,
     <1>13, <1>14, <1>15 DEF Next, Callback

(* Every variable keeps its type in every behaviour of the stream. *)
THEOREM TypeCorrect == Spec => []TypeOK
<1>1. Init => TypeOK
  BY BoundsAssumption DEF Init, TypeOK, Call, Block, FutureState, Shared, Eof
<1>2. QED
  BY <1>1, TypeStep, PTL DEF Spec

-----------------------------------------------------------------------------
(* Delivery in call order.  DeliveredInCallOrder is not inductive: it does  *)
(* not say whom the queued chunks and futures are for.                      *)

Ended == wire \in {"remote_ended", "complete"}

(* The end is visible to callers only after the native stream ended, and is
   visible while the pending calls are collected and resolved. *)
EndPublished ==
    /\ EndSeen => Ended
    /\ at \in {"snapshot", "resolve"} => EndSeen

(* The futures a callback took out of the queue belong to the chunk that has
   just arrived, or to calls beyond the last chunk. *)
HandOver ==
    /\ at = "set_chunk" => wire = "body" /\ Head(pending) = arrived /\ arrived \in 1 .. calls
    /\ at = "resolve" =>
          \A i \in 1 .. Len(pending) : pending[i] > arrived /\ pending[i] <= calls

(* Chunks wait for calls or calls wait for chunks, never both; the queue is
   numbered consecutively from the first call, or chunk, still to be served. *)
QueueShape ==
    /\ \A i \in 1 .. Len(chunks) : chunks[i] = calls + i
    /\ \A i \in 1 .. Len(chunkFutures) : chunkFutures[i] = arrived + i
    /\ chunks # <<>> => chunkFutures = <<>> /\ calls + Len(chunks) = arrived
    /\ chunks = <<>> => calls >= arrived + Len(chunkFutures)
    /\ chunks = <<>> /\ ~EndSeen => calls = arrived + Len(chunkFutures)

DeliveryInv == TypeOK /\ EndPublished /\ HandOver /\ QueueShape /\ DeliveredInCallOrder

(* The empty sequence has no elements. *)
LEMMA EmptyLength == Len(<<>>) = 0
  OBVIOUS

(* The elements of a sequence have its element type. *)
LEMMA ElementType ==
  ASSUME NEW S, NEW q \in Seq(S)
  PROVE  \A i \in 1 .. Len(q) : q[i] \in S
  OBVIOUS

(* A sequence with one element more, element by element. *)
LEMMA AppendElements ==
  ASSUME NEW S, NEW q \in Seq(S), NEW e \in S
  PROVE  /\ Len(Append(q, e)) = Len(q) + 1 /\ Len(q) \in Nat
         /\ Append(q, e)[Len(q) + 1] = e
         /\ \A i \in 1 .. Len(q) : Append(q, e)[i] = q[i]
  OBVIOUS

(* Taking the head off a sequence numbered from k + 1. *)
LEMMA NumberedTail ==
  ASSUME NEW S, NEW q \in Seq(S), q # <<>>, NEW k \in Nat,
         \A i \in 1 .. Len(q) : q[i] = k + i
  PROVE  /\ Head(q) = k + 1
         /\ Len(Tail(q)) = Len(q) - 1 /\ Len(q) \in Nat \ {0}
         /\ \A i \in 1 .. Len(Tail(q)) : Tail(q)[i] = (k + 1) + i
<1>1. /\ Head(q) = q[1] /\ Len(q) \in Nat \ {0} /\ Len(Tail(q)) = Len(q) - 1
      /\ \A i \in 1 .. Len(Tail(q)) : Tail(q)[i] = q[i + 1]
  OBVIOUS
<1>2. QED
  BY <1>1

(* Appending the next number to a sequence numbered from k + 1. *)
LEMMA NumberedAppend ==
  ASSUME NEW S, NEW q \in Seq(S), NEW k \in Nat, NEW e \in S, e = k + Len(q) + 1,
         \A i \in 1 .. Len(q) : q[i] = k + i
  PROVE  /\ Len(Append(q, e)) = Len(q) + 1 /\ Len(q) \in Nat
         /\ Append(q, e) # <<>>
         /\ \A i \in 1 .. Len(Append(q, e)) : Append(q, e)[i] = k + i
<1>1. /\ Len(Append(q, e)) = Len(q) + 1 /\ Len(q) \in Nat
      /\ Append(q, e)[Len(q) + 1] = e
      /\ \A i \in 1 .. Len(q) : Append(q, e)[i] = q[i]
  BY AppendElements
<1>2. Append(q, e) # <<>>
  BY <1>1, EmptyLength
<1>3. ASSUME NEW i \in 1 .. Len(Append(q, e)) PROVE Append(q, e)[i] = k + i
  <2>1. i \in 1 .. Len(q) \/ i = Len(q) + 1
    BY <1>1
  <2>2. CASE i \in 1 .. Len(q)
    BY <1>1, <2>2
  <2>3. CASE i = Len(q) + 1
    BY <1>1, <2>3
  <2>4. QED
    BY <2>1, <2>2, <2>3
<1>4. QED
  BY <1>1, <1>2, <1>3

(* The first n + 1 numbers. *)
LEMMA UpToNext == ASSUME NEW n \in Nat PROVE 1 .. (n + 1) = (1 .. n) \union {n + 1}
  OBVIOUS

(* Steps of the header callbacks, and of tasks, that leave the queues, the
   results and the published end alone. *)
LEMMA FrameStep ==
  ASSUME DeliveryInv, TypeOK',
         UNCHANGED <<arrived, at, pending, chunks, chunkFutures, calls, val>>,
         shared'["completion"] = shared["completion"],
         shared'["remote"] = shared["remote"],
         \A c \in Call : fut'[c] = "finished" => fut[c] = "finished",
         wire' = wire \/ (at = "idle" /\ ~Ended /\ ~Ended')
  PROVE  DeliveryInv'
<1>1. EndSeen' <=> EndSeen
  BY DEF EndSeen, Done
<1>2. EndPublished'
  BY <1>1 DEF DeliveryInv, EndPublished, Ended
<1>3. HandOver'
  BY DEF DeliveryInv, HandOver
<1>4. QueueShape'
  BY <1>1 DEF DeliveryInv, QueueShape
<1>5. DeliveredInCallOrder'
  <2> SUFFICES ASSUME NEW c \in 1 .. calls, fut'[c] = "finished"
               PROVE  \/ val[c] = c /\ c <= arrived
                      \/ val[c] = Eof /\ c > arrived /\ Ended'
    BY DEF DeliveredInCallOrder, Ended
  <2>1. c \in Call
    BY BoundsAssumption DEF DeliveryInv, TypeOK, Call
  <2>2. QED
    BY <2>1 DEF DeliveryInv, DeliveredInCallOrder, Ended
<1>6. QED
  BY <1>2, <1>3, <1>4, <1>5 DEF DeliveryInv

(* While the body arrives nobody was told that the stream ended. *)
LEMMA OpenFacts ==
  ASSUME DeliveryInv, ~Ended
  PROVE  /\ ~EndSeen
         /\ \A c \in 1 .. calls : fut[c] = "finished" => val[c] = c /\ c <= arrived
  BY DEF DeliveryInv, EndPublished, DeliveredInCallOrder, Ended

(* The facts about types that the steps below need. *)
LEMMA InvTypes ==
  ASSUME DeliveryInv
  PROVE  /\ arrived \in Nat /\ calls \in Nat /\ 1 .. calls \subseteq Call
         /\ chunks \in Seq(1 .. MaxChunks) /\ chunkFutures \in Seq(Call)
         /\ Len(chunks) \in Nat /\ Len(chunkFutures) \in Nat
         /\ DOMAIN fut = Call /\ DOMAIN val = Call
  BY BoundsAssumption DEF DeliveryInv, TypeOK, Call

(* _on_body pops the future of the very call the new chunk is for, or queues
   the chunk behind the others. *)
LEMMA BodyStep ==
  ASSUME DeliveryInv, TypeOK', OnIncomingBody
  PROVE  DeliveryInv'
<1>1. /\ at = "idle" /\ wire = "body" /\ wire' = "body" /\ arrived' = arrived + 1
      /\ arrived < MaxChunks
      /\ UNCHANGED <<calls, fut, val, shared>>
  BY DEF OnIncomingBody, headerVars, futVars
<1>2. ~Ended /\ ~Ended'
  BY <1>1 DEF Ended
<1>3. ~EndSeen /\ ~EndSeen'
  BY <1>1, <1>2, OpenFacts DEF EndSeen, Done
<1>4. /\ arrived \in Nat /\ calls \in Nat
      /\ chunks \in Seq(1 .. MaxChunks) /\ chunkFutures \in Seq(Call)
      /\ Len(chunks) \in Nat /\ Len(chunkFutures) \in Nat
  BY InvTypes
<1>5. QueueShape
  BY DEF DeliveryInv
<1>6. DeliveredInCallOrder'
  <2>1. \A c \in 1 .. calls : fut[c] = "finished" => val[c] = c /\ c <= arrived
    BY <1>2, OpenFacts
  <2>2. QED
    BY <1>1, <1>4, <2>1 DEF DeliveredInCallOrder
<1>7. CASE chunkFutures # <<>>
  <2>1. /\ pending' = <<Head(chunkFutures)>> /\ chunkFutures' = Tail(chunkFutures)
        /\ at' = "set_chunk" /\ chunks' = chunks
    BY <1>7 DEF OnIncomingBody
  <2>2. chunks = <<>> /\ calls = arrived + Len(chunkFutures)
    BY <1>3, <1>5, <1>7 DEF QueueShape
  <2>3. \A i \in 1 .. Len(chunkFutures) : chunkFutures[i] = arrived + i
    BY <1>5 DEF QueueShape
  <2>4. /\ Head(chunkFutures) = arrived + 1
        /\ Len(Tail(chunkFutures)) = Len(chunkFutures) - 1
        /\ Len(chunkFutures) \in Nat \ {0}
        /\ \A i \in 1 .. Len(Tail(chunkFutures)) : Tail(chunkFutures)[i] = (arrived + 1) + i
    BY <1>4, <1>7, <2>3, NumberedTail
  <2>5. Head(pending') = arrived' /\ arrived' \in 1 .. calls'
    BY <1>1, <1>4, <2>1, <2>2, <2>4
  <2>6. QueueShape'
    BY <1>1, <1>4, <2>1, <2>2, <2>4, EmptyLength DEF QueueShape
  <2>7. HandOver' /\ EndPublished'
    BY <1>1, <1>3, <2>1, <2>5 DEF HandOver, EndPublished
  <2>8. QED
    BY <1>6, <2>6, <2>7 DEF DeliveryInv
<1>8. CASE chunkFutures = <<>>
  <2>1. /\ chunks' = Append(chunks, arrived + 1)
        /\ at' = "idle" /\ pending' = pending /\ chunkFutures' = <<>>
    BY <1>1, <1>8 DEF OnIncomingBody
  <2>2. calls + Len(chunks) = arrived
    BY <1>3, <1>4, <1>5, <1>8, EmptyLength DEF QueueShape
  <2>3. arrived + 1 \in 1 .. MaxChunks
    BY <1>1, <1>4, BoundsAssumption
  <2>4. \A i \in 1 .. Len(chunks) : chunks[i] = calls + i
    BY <1>5 DEF QueueShape
  <2>5. /\ Len(chunks') = Len(chunks) + 1 /\ chunks' # <<>>
        /\ \A i \in 1 .. Len(chunks') : chunks'[i] = calls + i
    <3>1. arrived + 1 = calls + Len(chunks) + 1
      BY <1>4, <2>2
    <3>2. /\ Len(Append(chunks, arrived + 1)) = Len(chunks) + 1
          /\ Append(chunks, arrived + 1) # <<>>
          /\ \A i \in 1 .. Len(Append(chunks, arrived + 1)) :
                 Append(chunks, arrived + 1)[i] = calls + i
      <4>1. calls \in Nat /\ chunks \in Seq(1 .. MaxChunks)
        BY <1>4
      <4>2. QED
        BY <2>3, <2>4, <3>1, <4>1, NumberedAppend, SMTT(60)
    <3>3. QED
      BY <2>1, <3>2
  <2>6. QueueShape'
    BY <1>1, <1>4, <2>1, <2>2, <2>5, EmptyLength DEF QueueShape
  <2>7. HandOver' /\ EndPublished'
    BY <1>3, <2>1 DEF HandOver, EndPublished
  <2>8. QED
    BY <1>6, <2>6, <2>7 DEF DeliveryInv
<1>9. QED
  BY <1>7, <1>8

(* get_next_response_chunk gets its own chunk, b"" beyond the last one, or a
   place at the end of the queue. *)
LEMMA CallStep ==
  ASSUME DeliveryInv, TypeOK', GetNextResponseChunk
  PROVE  DeliveryInv'
<1> DEFINE c == calls + 1
<1>1. /\ calls' = c /\ calls < MaxCalls
      /\ UNCHANGED <<wire, arrived, at, pending, shared>>
  BY DEF GetNextResponseChunk, wireVars
<1>2. /\ calls \in Nat /\ arrived \in Nat /\ 1 .. calls \subseteq Call
      /\ chunks \in Seq(1 .. MaxChunks) /\ chunkFutures \in Seq(Call)
      /\ Len(chunks) \in Nat /\ Len(chunkFutures) \in Nat
      /\ DOMAIN fut = Call /\ DOMAIN val = Call
  BY InvTypes
<1>3. c \in Call /\ c \notin 1 .. calls /\ c \in Nat
  BY <1>1, <1>2, BoundsAssumption DEF Call
<1>4. QueueShape /\ DeliveredInCallOrder
  BY DEF DeliveryInv
<1>5. EndSeen' <=> EndSeen
  BY <1>1 DEF EndSeen, Done
<1>6. EndPublished'
  BY <1>1, <1>5 DEF DeliveryInv, EndPublished, Ended
<1>7. HandOver'
  <2>1. HandOver
    BY DEF DeliveryInv
  <2>2. at = "set_chunk" => arrived \in 1 .. calls'
    BY <1>1, <1>2, <2>1 DEF HandOver
  <2>3. at = "resolve" => \A i \in 1 .. Len(pending) : pending[i] > arrived /\ pending[i] <= calls'
    <3>1. \A i \in 1 .. Len(pending) : pending[i] \in Nat
      <4>1. pending \in Seq(Call) /\ Call \subseteq Nat
        BY BoundsAssumption DEF DeliveryInv, TypeOK, Call
      <4>2. QED
        BY <4>1, ElementType
    <3>2. QED
      BY <1>1, <1>2, <2>1, <3>1 DEF HandOver
  <2>4. QED
    BY <1>1, <2>1, <2>2, <2>3 DEF HandOver
<1>8. 1 .. calls' = (1 .. calls) \union {c}
  BY <1>1, <1>2, UpToNext
<1>9. ASSUME NEW v, ReturnNow(c, v),
             (v = c /\ c <= arrived) \/ (v = Eof /\ c > arrived /\ Ended)
      PROVE  DeliveredInCallOrder'
  <2>1. fut'[c] = "finished" /\ val'[c] = v
    BY <1>2, <1>3, <1>9 DEF ReturnNow
  <2>2. \A d \in 1 .. calls : fut'[d] = fut[d] /\ val'[d] = val[d]
    BY <1>2, <1>3, <1>9 DEF ReturnNow
  <2>3. QED
    BY <1>1, <1>4, <1>8, <1>9, <2>1, <2>2 DEF DeliveredInCallOrder, Ended
<1>10. CASE chunks # <<>>
  <2>1. ReturnNow(c, Head(chunks)) /\ chunks' = Tail(chunks) /\ UNCHANGED chunkFutures
    BY <1>10 DEF GetNextResponseChunk, TakeOrWait
  <2>2. \A i \in 1 .. Len(chunks) : chunks[i] = calls + i
    BY <1>4 DEF QueueShape
  <2>3. /\ Head(chunks) = calls + 1
        /\ Len(Tail(chunks)) = Len(chunks) - 1 /\ Len(chunks) \in Nat \ {0}
        /\ \A i \in 1 .. Len(Tail(chunks)) : Tail(chunks)[i] = (calls + 1) + i
    BY <1>2, <1>10, <2>2, NumberedTail
  <2>4. chunkFutures = <<>> /\ calls + Len(chunks) = arrived
    BY <1>4, <1>10 DEF QueueShape
  <2>5. c <= arrived
    BY <1>2, <2>3, <2>4
  <2>6. DeliveredInCallOrder'
    BY <1>9, <2>1, <2>3, <2>5
  <2>7. /\ \A i \in 1 .. Len(chunks') : chunks'[i] = calls' + i
        /\ chunkFutures' = <<>> /\ calls' + Len(chunks') = arrived'
    BY <1>1, <1>2, <2>1, <2>3, <2>4
  <2>8. chunks' = <<>> => calls' = arrived' + Len(chunkFutures')
    BY <1>1, <1>2, <2>7, EmptyLength
  <2>9. QueueShape'
    BY <1>1, <1>2, <2>7, <2>8, EmptyLength DEF QueueShape
  <2>10. QED
    BY <1>6, <1>7, <2>6, <2>9 DEF DeliveryInv
<1>11. CASE chunks = <<>> /\ EndSeen
  <2>1. ReturnNow(c, Eof) /\ UNCHANGED <<chunks, chunkFutures>>
    BY <1>11 DEF GetNextResponseChunk, TakeOrWait
  <2>2. calls >= arrived + Len(chunkFutures)
    BY <1>4, <1>11 DEF QueueShape
  <2>3. c > arrived /\ Ended
    BY <1>2, <1>11, <2>2 DEF DeliveryInv, EndPublished
  <2>4. DeliveredInCallOrder'
    BY <1>9, <2>1, <2>3
  <2>5. QueueShape'
    BY <1>1, <1>2, <1>4, <1>5, <1>11, <2>1, <2>2, EmptyLength DEF QueueShape
  <2>6. QED
    BY <1>6, <1>7, <2>4, <2>5 DEF DeliveryInv
<1>12. CASE chunks = <<>> /\ ~EndSeen
  <2>1. Enqueue(c)
    BY <1>12 DEF GetNextResponseChunk, TakeOrWait
  <2>2. calls = arrived + Len(chunkFutures)
    BY <1>4, <1>12 DEF QueueShape
  <2>3. \A i \in 1 .. Len(chunkFutures) : chunkFutures[i] = arrived + i
    BY <1>4 DEF QueueShape
  <2>4. /\ Len(chunkFutures') = Len(chunkFutures) + 1
        /\ \A i \in 1 .. Len(chunkFutures') : chunkFutures'[i] = arrived + i
    <3>1. c = arrived + Len(chunkFutures) + 1 /\ chunkFutures' = Append(chunkFutures, c)
      BY <1>2, <2>1, <2>2 DEF Enqueue
    <3>2. /\ Len(Append(chunkFutures, c)) = Len(chunkFutures) + 1
          /\ \A i \in 1 .. Len(Append(chunkFutures, c)) :
                 Append(chunkFutures, c)[i] = arrived + i
      <4>1. arrived \in Nat /\ chunkFutures \in Seq(Call) /\ c \in Call
        BY <1>2, <1>3
      <4>2. HIDE DEF c
      <4>3. QED
        BY <2>3, <3>1, <4>1, NumberedAppend, SMTT(60)
    <3>3. QED
      BY <3>1, <3>2
  <2>5. chunks' = <<>>
    BY <1>12, <2>1 DEF Enqueue
  <2>6. QueueShape'
    BY <1>1, <1>2, <2>2, <2>4, <2>5, EmptyLength DEF QueueShape
  <2>7. fut'[c] = "pending" /\ \A d \in 1 .. calls : fut'[d] = fut[d] /\ val'[d] = val[d]
    BY <1>2, <1>3, <2>1 DEF Enqueue
  <2>8. DeliveredInCallOrder'
    BY <1>1, <1>4, <1>8, <2>7 DEF DeliveredInCallOrder
  <2>9. QED
    BY <1>6, <1>7, <2>6, <2>8 DEF DeliveryInv
<1>13. QED
  BY <1>10, <1>11, <1>12

(* _on_body resolves the future it popped: it belongs to the last chunk. *)
LEMMA SetChunkStep ==
  ASSUME DeliveryInv, TypeOK', SetChunkResult
  PROVE  DeliveryInv'
<1>1. /\ at = "set_chunk" /\ at' = "idle" /\ wire' \in {wire, "failed"}
      /\ UNCHANGED <<arrived, chunks, chunkFutures, calls, shared>>
  BY DEF SetChunkResult
<1>2. wire = "body" /\ Head(pending) = arrived /\ arrived \in 1 .. calls
  BY <1>1 DEF DeliveryInv, HandOver
<1>3. ~Ended /\ ~Ended'
  BY <1>1, <1>2 DEF Ended
<1>4. ~EndSeen /\ ~EndSeen'
  BY <1>1, <1>3, OpenFacts DEF EndSeen, Done
<1>5. EndPublished' /\ HandOver'
  BY <1>1, <1>4 DEF EndPublished, HandOver
<1>6. QueueShape'
  BY <1>1, <1>4 DEF DeliveryInv, QueueShape
<1>7. DeliveredInCallOrder'
  <2>1. \A c \in 1 .. calls : fut[c] = "finished" => val[c] = c /\ c <= arrived
    BY <1>3, OpenFacts
  <2>2. CASE UNCHANGED <<fut, val>>
    BY <1>1, <2>1, <2>2 DEF DeliveredInCallOrder
  <2>3. CASE SetResult(arrived, arrived)
    <3>1. \A c \in 1 .. calls : c # arrived => fut'[c] = fut[c] /\ val'[c] = val[c]
      BY <2>3, InvTypes DEF SetResult
    <3>2. val'[arrived] = arrived
      BY <1>2, <2>3, InvTypes DEF SetResult
    <3>3. arrived <= arrived
      BY InvTypes
    <3>4. \A c \in 1 .. calls : fut'[c] = "finished" => val'[c] = c /\ c <= arrived
      BY <2>1, <3>1, <3>2, <3>3
    <3>5. QED
      BY <1>1, <3>4 DEF DeliveredInCallOrder
  <2>4. QED
    BY <1>2, <2>2, <2>3 DEF SetChunkResult, futVars
<1>8. QED
  BY <1>5, <1>6, <1>7 DEF DeliveryInv

(* The end of the stream is published once the native stream has ended. *)
LEMMA EndStep ==
  ASSUME DeliveryInv, TypeOK', at = "idle", Ended', at' = at \/ (at' = "snapshot" /\ EndSeen'),
         EndSeen => EndSeen',
         UNCHANGED <<arrived, pending, chunks, chunkFutures, calls, fut, val>>
  PROVE  DeliveryInv'
<1>1. EndPublished' /\ HandOver'
  BY DEF EndPublished, HandOver
<1>2. QueueShape'
  BY DEF DeliveryInv, QueueShape
<1>3. DeliveredInCallOrder'
  BY DEF DeliveryInv, DeliveredInCallOrder, Ended
<1>4. QED
  BY <1>1, <1>2, <1>3 DEF DeliveryInv

(* _resolve_pending_chunk_futures takes only calls beyond the last chunk. *)
LEMMA SnapshotStep ==
  ASSUME DeliveryInv, TypeOK', SnapshotPending
  PROVE  DeliveryInv'
<1>1. /\ at = "snapshot" /\ at' = "resolve" /\ pending' = chunkFutures /\ chunkFutures' = <<>>
      /\ UNCHANGED <<wire, arrived, chunks, calls, fut, val, shared>>
  BY DEF SnapshotPending, wireVars, futVars
<1>2. EndSeen /\ EndSeen' /\ Ended'
  BY <1>1 DEF DeliveryInv, EndPublished, EndSeen, Done, Ended
<1>3. QueueShape
  BY DEF DeliveryInv
<1>4. /\ arrived \in Nat /\ calls \in Nat /\ Len(chunkFutures) \in Nat
  BY InvTypes
<1>5. EndPublished'
  BY <1>2 DEF EndPublished
<1>6. HandOver'
  <2>1. chunkFutures # <<>> => arrived + Len(chunkFutures) <= calls
    BY <1>3, <1>4 DEF QueueShape
  <2>2. \A i \in 1 .. Len(chunkFutures) : chunkFutures[i] = arrived + i
    BY <1>3 DEF QueueShape
  <2>3. \A i \in 1 .. Len(chunkFutures) : chunkFutures[i] > arrived /\ chunkFutures[i] <= calls
    BY <1>4, <2>1, <2>2, EmptyLength
  <2>4. QED
    BY <1>1, <2>3 DEF HandOver
<1>7. QueueShape'
  BY <1>1, <1>2, <1>3, <1>4, EmptyLength DEF QueueShape
<1>8. DeliveredInCallOrder'
  BY <1>1 DEF DeliveryInv, DeliveredInCallOrder
<1>9. QED
  BY <1>5, <1>6, <1>7, <1>8 DEF DeliveryInv

(* A future that is given b"" belongs to a call beyond the last chunk. *)
LEMMA ResolveStep ==
  ASSUME DeliveryInv, TypeOK', ResolveOne
  PROVE  DeliveryInv'
<1>1. /\ at = "resolve" /\ pending # <<>>
      /\ UNCHANGED <<wire, arrived, chunks, chunkFutures, calls, shared>>
  BY DEF ResolveOne, wireVars
<1>2. EndSeen /\ EndSeen' /\ Ended /\ Ended'
  BY <1>1 DEF DeliveryInv, EndPublished, EndSeen, Done, Ended
<1>3. /\ pending \in Seq(Call)
      /\ \A i \in 1 .. Len(pending) : pending[i] > arrived /\ pending[i] <= calls
  BY <1>1 DEF DeliveryInv, TypeOK, HandOver
<1>4. QueueShape'
  BY <1>1, <1>2 DEF DeliveryInv, QueueShape
<1>5. CASE UNCHANGED <<fut, val>> /\ at' = "idle"
  <2>1. EndPublished' /\ HandOver'
    BY <1>2, <1>5 DEF EndPublished, HandOver
  <2>2. DeliveredInCallOrder'
    BY <1>1, <1>5 DEF DeliveryInv, DeliveredInCallOrder
  <2>3. QED
    BY <1>4, <2>1, <2>2 DEF DeliveryInv
<1>6. CASE SetResult(Head(pending), Eof) /\ pending' = Tail(pending) /\ at' = at
  <2>1. /\ Head(pending) = pending[1] /\ Len(pending) \in Nat \ {0}
        /\ Len(Tail(pending)) = Len(pending) - 1
        /\ \A i \in 1 .. Len(Tail(pending)) : Tail(pending)[i] = pending[i + 1]
    BY <1>1, <1>3
  <2>2. HandOver'
    <3>1. \A i \in 1 .. Len(pending') : pending'[i] > arrived /\ pending'[i] <= calls
      BY <1>3, <1>6, <2>1
    <3>2. QED
      BY <1>1, <1>6, <3>1 DEF HandOver
  <2>3. EndPublished'
    BY <1>2 DEF EndPublished
  <2>4. Head(pending) > arrived
    BY <1>3, <2>1
  <2>5. DeliveredInCallOrder'
    <3> DEFINE h == Head(pending)
    <3>1. \A c \in 1 .. calls : c # h => fut'[c] = fut[c] /\ val'[c] = val[c]
      BY <1>6, InvTypes DEF SetResult
    <3>2. h \in Call => val'[h] = Eof
      BY <1>6, InvTypes DEF SetResult
    <3>3. 1 .. calls \subseteq Call
      BY InvTypes
    <3>4. SUFFICES ASSUME NEW c \in 1 .. calls, fut'[c] = "finished"
                   PROVE  \/ val'[c] = c /\ c <= arrived
                          \/ val'[c] = Eof /\ c > arrived /\ Ended'
      BY <1>1 DEF DeliveredInCallOrder, Ended
    <3>5. CASE c = h
      BY <1>2, <2>4, <3>2, <3>3, <3>5
    <3>6. CASE c # h
      BY <1>2, <3>1, <3>4, <3>6 DEF DeliveryInv, DeliveredInCallOrder
    <3>7. QED
      BY <3>5, <3>6
  <2>6. QED
    BY <1>4, <2>2, <2>3, <2>5 DEF DeliveryInv
<1>7. QED
  BY <1>5, <1>6 DEF ResolveOne, futVars

(* Every step keeps the invariant, unless a task cancels the completion
   future: get_next_response_chunk then takes the stream for ended. *)
LEMMA DeliveryStep ==
  ASSUME "completion" \notin Cancellable, DeliveryInv, [Next]_vars
  PROVE  DeliveryInv'
<1>0. TypeOK'
  BY TypeStep DEF DeliveryInv
<1>1. ASSUME NEW b \in Block, OnIncomingHeaders(b) PROVE DeliveryInv'
  <2>1. wire' = wire \/ (at = "idle" /\ ~Ended /\ ~Ended')
    BY <1>1 DEF OnIncomingHeaders, BlockAllowed, Ended
  <2>2. UNCHANGED <<arrived, at, pending, chunks, chunkFutures, calls, fut, val, shared>>
    BY <1>1 DEF OnIncomingHeaders, futVars
  <2>3. QED
    BY <1>0, <2>1, <2>2, FrameStep
<1>2. ASSUME NEW b \in Block, OnHeaderBlockDone(b) PROVE DeliveryInv'
  <2>1. wire' = wire \/ (at = "idle" /\ ~Ended /\ ~Ended')
    BY <1>2 DEF OnHeaderBlockDone, OnResponseRaises, BlockAllowed, Ended
  <2>2. UNCHANGED <<arrived, at, pending, chunks, chunkFutures, calls, fut, val>>
    BY <1>2 DEF OnHeaderBlockDone, futVars
  <2>3. shared'["completion"] = shared["completion"] /\ shared'["remote"] = shared["remote"]
    <3>1. {"completion", "remote"} \subseteq DOMAIN shared
      BY DEF DeliveryInv, TypeOK, Shared
    <3>2. CASE OnResponse
      BY <3>1, <3>2 DEF OnResponse
    <3>3. QED
      BY <1>2, <3>2 DEF OnHeaderBlockDone
  <2>4. QED
    BY <1>0, <2>1, <2>2, <2>3, FrameStep
<1>2a. ASSUME NEW b \in Block, OnHeaderBlockUndecodable(b) PROVE DeliveryInv'
  <2>1. at = "idle" /\ ~Ended /\ ~Ended'
    BY <1>2a DEF OnHeaderBlockUndecodable, BlockAllowed, Block, Ended
  <2>2. UNCHANGED <<arrived, at, pending, chunks, chunkFutures, calls, fut, val, shared>>
    BY <1>2a DEF OnHeaderBlockUndecodable, futVars
  <2>3. QED
    BY <1>0, <2>1, <2>2, FrameStep
<1>3. CASE OnIncomingBody
  BY <1>0, <1>3, BodyStep
<1>4. CASE OnH2RemoteEndStream
  <2>1. /\ at = "idle" /\ at' = "snapshot" /\ Ended' /\ EndSeen'
        /\ UNCHANGED <<arrived, pending, chunks, chunkFutures, calls, fut, val>>
    BY <1>4 DEF OnH2RemoteEndStream, PublishEnd, futVars, Ended, EndSeen, Done, DeliveryInv, TypeOK
  <2>2. QED
    BY <1>0, <2>1, EndStep
<1>5. ASSUME NEW s \in {"finished", "exception"}, OnComplete(s) PROVE DeliveryInv'
  <2>1. /\ at = "idle" /\ Ended'
        /\ UNCHANGED <<arrived, pending, chunks, chunkFutures, calls, fut, val>>
    BY <1>5 DEF OnComplete, futVars, Ended
  <2>2. CASE shared["completion"] = "pending"
    <3>1. at' = "snapshot" /\ EndSeen'
      BY <1>5, <2>2 DEF OnComplete, PublishEnd, EndSeen, Done, DeliveryInv, TypeOK, Shared
    <3>2. QED
      BY <1>0, <2>1, <3>1, EndStep
  <2>3. CASE UNCHANGED <<at, shared>>
    <3>1. EndSeen => EndSeen'
      BY <2>3 DEF EndSeen, Done
    <3>2. QED
      BY <1>0, <2>1, <2>3, <3>1, EndStep
  <2>4. QED
    BY <1>5, <2>2, <2>3 DEF OnComplete
<1>6. CASE SetChunkResult
  BY <1>0, <1>6, SetChunkStep
<1>7. CASE SnapshotPending
  BY <1>0, <1>7, SnapshotStep
<1>8. CASE ResolveOne
  BY <1>0, <1>8, ResolveStep
<1>9. CASE ResolveEnd
  <2>1. /\ at = "resolve" /\ at' = "idle"
        /\ UNCHANGED <<wire, arrived, pending, chunks, chunkFutures, calls, fut, val, shared>>
    BY <1>9 DEF ResolveEnd, wireVars, futVars
  <2>2. EndPublished' /\ HandOver'
    BY <2>1 DEF DeliveryInv, EndPublished, HandOver, EndSeen, Done, Ended
  <2>3. QueueShape' /\ DeliveredInCallOrder'
    BY <2>1 DEF DeliveryInv, QueueShape, DeliveredInCallOrder, EndSeen, Done
  <2>4. QED
    BY <1>0, <2>2, <2>3 DEF DeliveryInv
<1>10. CASE GetNextResponseChunk
  BY <1>0, <1>10, CallStep
<1>11. ASSUME NEW c \in Call, Resume(c) \/ CancelTask(c) PROVE DeliveryInv'
  BY <1>0, <1>11, FrameStep DEF Resume, CancelTask, wireVars, futVars
<1>12. ASSUME NEW c \in Call, PropagateCancel(c) PROVE DeliveryInv'
  <2>1. \A d \in Call : fut'[d] = "finished" => fut[d] = "finished"
    BY <1>12 DEF PropagateCancel, DeliveryInv, TypeOK
  <2>2. UNCHANGED <<wire, arrived, at, pending, chunks, chunkFutures, calls, val, shared>>
    BY <1>12 DEF PropagateCancel, wireVars
  <2>3. QED
    BY <1>0, <2>1, <2>2, FrameStep
<1>13. ASSUME NEW f \in Shared, CancelShared(f) PROVE DeliveryInv'
  <2>1. f # "completion" /\ f # "remote"
    BY <1>13 DEF CancelShared, Shared
  <2>2. UNCHANGED <<wire, arrived, at, pending, chunks, chunkFutures, calls, fut, val>>
    BY <1>13 DEF CancelShared, wireVars, futVars
  <2>3. shared'["completion"] = shared["completion"] /\ shared'["remote"] = shared["remote"]
    BY <1>13, <2>1 DEF CancelShared, DeliveryInv, TypeOK
  <2>4. QED
    BY <1>0, <2>2, <2>3, FrameStep
<1>14. CASE UNCHANGED vars
  BY <1>0, <1>14, FrameStep DEF vars
<1>15. QED
  BY <1>1, <1>2, <1>2a, <1>3, <1>4, <1>5, <1>6, <1>7, <1>8, <1>9, <1>10, <1>11, <1>12,
     <1>13, <1>14 DEF Next, Callback

(* The invariant holds before the first callback. *)
LEMMA DeliveryInit == Init => DeliveryInv
<1> SUFFICES ASSUME Init PROVE DeliveryInv
  OBVIOUS
<1>1. TypeOK
  BY BoundsAssumption DEF Init, TypeOK, Call, Block, FutureState, Shared, Eof
<1>2. ~EndSeen
  BY DEF Init, EndSeen, Done, Shared
<1>3. EndPublished /\ HandOver /\ DeliveredInCallOrder
  BY <1>2 DEF Init, EndPublished, HandOver, DeliveredInCallOrder
<1>4. QueueShape
  BY EmptyLength DEF Init, QueueShape
<1>5. QED
  BY <1>1, <1>3, <1>4 DEF DeliveryInv

(* As long as no task cancels wait_for_completion(), the i-th call of
   get_next_response_chunk() gets the i-th chunk, and b"" only when the peer
   sent fewer and the stream has ended: for any number of calls and chunks,
   and whatever else is cancelled. *)
THEOREM DeliveryCorrect ==
  ASSUME "completion" \notin Cancellable
  PROVE  Spec => []DeliveredInCallOrder
<1>1. Init => DeliveryInv
  BY DeliveryInit
<1>2. DeliveryInv /\ [Next]_vars => DeliveryInv'
  BY DeliveryStep
<1>3. DeliveryInv => DeliveredInCallOrder
  BY DEF DeliveryInv
<1>4. QED
  BY <1>1, <1>2, <1>3, PTL DEF Spec

-----------------------------------------------------------------------------
(* The stream implements the channel.                                       *)

Closed == wire \in {"remote_ended", "failed", "complete"}

(* Cancelling a call, or nothing at all, leaves the channel's answers alone. *)
LEMMA OutUnchanged ==
  ASSUME val' = val, \A c \in Call : (fut'[c] = "finished") <=> (fut[c] = "finished")
  PROVE  ChannelOut' = ChannelOut
  BY DEF ChannelOut

(* Resolving the future of call c answers read c. *)
LEMMA OutAnswered ==
  ASSUME DOMAIN fut = Call, DOMAIN val = Call, NEW c \in Call, NEW v,
         fut' = [fut EXCEPT ![c] = "finished"], val' = [val EXCEPT ![c] = v]
  PROVE  ChannelOut' = [ChannelOut EXCEPT ![c] = {v}]
<1>1. \A d \in Call : ChannelOut'[d] = IF d = c THEN {v} ELSE ChannelOut[d]
  BY DEF ChannelOut
<1>2. ChannelOut = [d \in Call |-> ChannelOut[d]] /\ ChannelOut' = [d \in Call |-> ChannelOut'[d]]
  BY DEF ChannelOut
<1>3. QED
  BY <1>1, <1>2

(* Steps that only close the channel, or do nothing to it. *)
LEMMA ClosingStep ==
  ASSUME UNCHANGED <<arrived, calls>>, ChannelOut' = ChannelOut, Closed' = Closed \/ Closed'
  PROVE  [Channel!Next]_(Channel!vars)
  BY DEF Closed, Channel!Next, Channel!Close, Channel!vars

(* A waiting read gets its answer. *)
LEMMA DeliverStep ==
  ASSUME DOMAIN fut = Call, DOMAIN val = Call, NEW c \in Call, c <= calls, NEW v, SetResult(c, v),
         (v = c /\ c <= arrived) \/ (v = Eof /\ c > arrived /\ Closed),
         UNCHANGED <<wire, arrived, calls>>
  PROVE  Channel!Next
<1>1. ChannelOut[c] = {}
  BY DEF SetResult, ChannelOut
<1>2. ChannelOut' = [ChannelOut EXCEPT ![c] = {v}]
  BY OutAnswered DEF SetResult
<1>3. v \in Channel!Answer(c)
  BY DEF Channel!Answer, Channel!Eof, Eof, Closed
<1>4. c \in Channel!Read
  BY DEF Channel!Read, Call
<1>5. Channel!Deliver(c)
  BY <1>1, <1>2, <1>3 DEF Channel!Deliver
<1>6. QED
  BY <1>4, <1>5 DEF Channel!Next

(* A call that has not been made has no result. *)
Fresh == \A c \in Call : c > calls => fut[c] # "finished"

(* Results appear only for calls that were made. *)
LEMMA FreshStep ==
  ASSUME DeliveryInv, Fresh, [Next]_vars
  PROVE  Fresh'
<1>0. /\ DOMAIN fut = Call /\ 1 .. calls \subseteq Call /\ calls \in Nat /\ arrived \in Nat
      /\ Call \subseteq Nat
  BY InvTypes DEF Call
<1>1. ASSUME calls' = calls, \A c \in Call : fut'[c] = "finished" => fut[c] = "finished"
      PROVE  Fresh'
  BY <1>1 DEF Fresh
<1>2. ASSUME NEW c, c <= calls, NEW v, SetResult(c, v), calls' = calls PROVE Fresh'
  BY <1>0, <1>2 DEF SetResult, Fresh
<1>3. ASSUME NEW b \in Block, OnIncomingHeaders(b) \/ OnHeaderBlockDone(b) \/ OnHeaderBlockUndecodable(b)
      PROVE  Fresh'
  BY <1>1, <1>3 DEF OnIncomingHeaders, OnHeaderBlockDone, OnHeaderBlockUndecodable, futVars
<1>4. CASE OnIncomingBody \/ OnH2RemoteEndStream \/ SnapshotPending \/ ResolveEnd
  BY <1>1, <1>4 DEF OnIncomingBody, OnH2RemoteEndStream, SnapshotPending, ResolveEnd, futVars
<1>5. ASSUME NEW s \in {"finished", "exception"}, OnComplete(s) PROVE Fresh'
  BY <1>1, <1>5 DEF OnComplete, futVars
<1>6. CASE SetChunkResult
  <2>1. Head(pending) <= calls
    BY <1>0, <1>6 DEF SetChunkResult, DeliveryInv, HandOver
  <2>2. QED
    BY <1>1, <1>2, <1>6, <2>1 DEF SetChunkResult, futVars
<1>7. CASE ResolveOne
  <2>1. at = "resolve" /\ pending # <<>>
    BY <1>7 DEF ResolveOne
  <2>2. /\ pending \in Seq(Call)
        /\ \A i \in 1 .. Len(pending) : pending[i] > arrived /\ pending[i] <= calls
    BY <2>1 DEF DeliveryInv, TypeOK, HandOver
  <2>3. Head(pending) = pending[1] /\ Len(pending) \in Nat \ {0}
    BY <2>1, <2>2
  <2>4. Head(pending) <= calls
    BY <2>2, <2>3
  <2>5. QED
    BY <1>1, <1>2, <1>7, <2>4 DEF ResolveOne, futVars
<1>8. CASE GetNextResponseChunk
  <2>1. calls' = calls + 1
    BY <1>8 DEF GetNextResponseChunk
  <2>2. \A c \in Call : c # calls + 1 => fut'[c] = fut[c]
    BY <1>0, <1>8 DEF GetNextResponseChunk, TakeOrWait, ReturnNow, Enqueue
  <2>3. QED
    BY <1>0, <2>1, <2>2 DEF Fresh
<1>9. ASSUME NEW c \in Call, Resume(c) \/ CancelTask(c) \/ PropagateCancel(c) PROVE Fresh'
  BY <1>0, <1>1, <1>9 DEF Resume, CancelTask, PropagateCancel, futVars
<1>10. ASSUME NEW f \in Shared, CancelShared(f) PROVE Fresh'
  BY <1>1, <1>10 DEF CancelShared, futVars
<1>11. CASE UNCHANGED vars
  BY <1>1, <1>11 DEF vars
<1>12. QED
  BY <1>3, <1>4, <1>5, <1>6, <1>7, <1>8, <1>9, <1>10, <1>11 DEF Next, Callback

(* Every step of the stream is a step of the channel or a stutter. *)
LEMMA ChannelStep ==
  ASSUME DeliveryInv, Fresh, [Next]_vars
  PROVE  [Channel!Next]_(Channel!vars)
<1>0. /\ DOMAIN fut = Call /\ DOMAIN val = Call /\ 1 .. calls \subseteq Call
      /\ arrived \in Nat /\ calls \in Nat
  BY InvTypes
<1>1. ASSUME UNCHANGED <<arrived, calls, val>>, Closed' = Closed \/ Closed',
             \A c \in Call : (fut'[c] = "finished") <=> (fut[c] = "finished")
      PROVE  [Channel!Next]_(Channel!vars)
  BY <1>1, OutUnchanged, ClosingStep
<1>2. ASSUME NEW b \in Block, OnIncomingHeaders(b) \/ OnHeaderBlockDone(b) \/ OnHeaderBlockUndecodable(b)
      PROVE  [Channel!Next]_(Channel!vars)
  <2>1. UNCHANGED <<arrived, calls, fut, val>>
    BY <1>2 DEF OnIncomingHeaders, OnHeaderBlockDone, OnHeaderBlockUndecodable, futVars
  <2>2. Closed' = Closed \/ Closed'
    BY <1>2 DEF OnIncomingHeaders, OnHeaderBlockDone, OnHeaderBlockUndecodable, BlockAllowed,
        OnResponseRaises, Closed, Block
  <2>3. QED
    BY <1>1, <2>1, <2>2
<1>3. CASE OnIncomingBody
  <2>1. ~Closed /\ ~Closed' /\ arrived < MaxChunks /\ arrived' = arrived + 1
        /\ UNCHANGED <<calls, fut, val>>
    BY <1>3 DEF OnIncomingBody, Closed, futVars
  <2>2. ChannelOut' = ChannelOut
    BY <2>1, OutUnchanged
  <2>3. QED
    BY <2>1, <2>2 DEF Channel!Next, Channel!Send, Closed
<1>4. CASE OnH2RemoteEndStream
  BY <1>1, <1>4 DEF OnH2RemoteEndStream, Closed, futVars
<1>5. ASSUME NEW s \in {"finished", "exception"}, OnComplete(s)
      PROVE  [Channel!Next]_(Channel!vars)
  BY <1>1, <1>5 DEF OnComplete, Closed, futVars
<1>6. CASE SetChunkResult
  <2>1. Head(pending) = arrived /\ arrived \in 1 .. calls
    BY <1>6 DEF SetChunkResult, DeliveryInv, HandOver
  <2>2. UNCHANGED <<arrived, calls>>
    BY <1>6 DEF SetChunkResult
  <2>3. CASE SetResult(arrived, arrived) /\ UNCHANGED wire
    BY <1>0, <2>1, <2>2, <2>3, DeliverStep
  <2>4. CASE wire' = "failed" /\ UNCHANGED futVars
    BY <1>1, <2>2, <2>4 DEF Closed, futVars
  <2>5. QED
    BY <1>6, <2>1, <2>3, <2>4 DEF SetChunkResult
<1>7. CASE SnapshotPending \/ ResolveEnd
  BY <1>1, <1>7 DEF SnapshotPending, ResolveEnd, wireVars, futVars, Closed
<1>8. CASE ResolveOne
  <2>1. at = "resolve" /\ pending # <<>> /\ UNCHANGED <<wire, arrived, calls>>
    BY <1>8 DEF ResolveOne, wireVars
  <2>2. Closed /\ EndSeen
    BY <2>1 DEF DeliveryInv, EndPublished, Ended, Closed
  <2>3. /\ pending \in Seq(Call)
        /\ \A i \in 1 .. Len(pending) : pending[i] > arrived /\ pending[i] <= calls
    BY <2>1 DEF DeliveryInv, TypeOK, HandOver
  <2>4. Head(pending) \in Call /\ Head(pending) > arrived /\ Head(pending) <= calls
    <3>1. Head(pending) = pending[1] /\ Len(pending) \in Nat \ {0} /\ Head(pending) \in Call
      BY <2>1, <2>3
    <3>2. QED
      BY <2>3, <3>1
  <2>5. CASE SetResult(Head(pending), Eof)
    BY <1>0, <2>1, <2>2, <2>4, <2>5, DeliverStep
  <2>6. CASE UNCHANGED futVars
    BY <1>1, <2>1, <2>6 DEF Closed, futVars
  <2>7. QED
    BY <1>8, <2>5, <2>6 DEF ResolveOne
<1>9. CASE GetNextResponseChunk
  <2> DEFINE c == calls + 1
  <2>1. calls' = c /\ calls < MaxCalls /\ UNCHANGED <<wire, arrived>>
    BY <1>9 DEF GetNextResponseChunk, wireVars
  <2>2. c \in Call
    BY <1>0, <2>1, BoundsAssumption DEF Call
  <2>3. ASSUME NEW v, ReturnNow(c, v),
               (v = c /\ c <= arrived) \/ (v = Eof /\ c > arrived /\ Closed)
        PROVE  Channel!Next
    <3>1. ChannelOut' = [ChannelOut EXCEPT ![c] = {v}]
      BY <1>0, <2>2, <2>3, OutAnswered DEF ReturnNow
    <3>2. v \in Channel!Answer(c)
      BY <2>3 DEF Channel!Answer, Channel!Eof, Eof, Closed
    <3>3. QED
      BY <2>1, <3>1, <3>2 DEF Channel!Next, Channel!Issue
  <2>4. CASE chunks # <<>>
    <3>1. ReturnNow(c, Head(chunks))
      BY <1>9, <2>4 DEF GetNextResponseChunk, TakeOrWait
    <3>2. Head(chunks) = chunks[1] /\ Len(chunks) \in Nat \ {0}
      BY <2>4, InvTypes, HeadTail
    <3>3. chunks[1] = c /\ c <= arrived
      BY <1>0, <2>4, <3>2 DEF DeliveryInv, QueueShape
    <3>4. QED
      BY <2>3, <3>1, <3>2, <3>3
  <2>5. CASE chunks = <<>> /\ EndSeen
    <3>1. ReturnNow(c, Eof)
      BY <1>9, <2>5 DEF GetNextResponseChunk, TakeOrWait
    <3>2. calls >= arrived + Len(chunkFutures) /\ Len(chunkFutures) \in Nat
      BY <2>5, InvTypes DEF DeliveryInv, QueueShape
    <3>3. c > arrived /\ Closed
      BY <1>0, <2>5, <3>2 DEF DeliveryInv, EndPublished, Ended, Closed
    <3>4. QED
      BY <2>3, <3>1, <3>3
  <2>6. CASE chunks = <<>> /\ ~EndSeen
    <3>1. Enqueue(c)
      BY <1>9, <2>6 DEF GetNextResponseChunk, TakeOrWait
    <3>2. fut[c] # "finished"
      BY <1>0, <2>2 DEF Fresh
    <3>3. ChannelOut' = ChannelOut
      BY <1>0, <2>2, <3>1, <3>2, OutUnchanged DEF Enqueue
    <3>4. QED
      BY <2>1, <3>3 DEF Channel!Next, Channel!Issue
  <2>7. QED
    BY <2>4, <2>5, <2>6
<1>10. ASSUME NEW c \in Call, Resume(c) \/ CancelTask(c) \/ PropagateCancel(c)
       PROVE  [Channel!Next]_(Channel!vars)
  <2>1. UNCHANGED <<wire, arrived, calls, val>>
    BY <1>10 DEF Resume, CancelTask, PropagateCancel, wireVars, futVars
  <2>2. \A d \in Call : (fut'[d] = "finished") <=> (fut[d] = "finished")
    BY <1>0, <1>10 DEF Resume, CancelTask, PropagateCancel, futVars
  <2>3. QED
    BY <1>1, <2>1, <2>2 DEF Closed
<1>11. ASSUME NEW f \in Shared, CancelShared(f) PROVE [Channel!Next]_(Channel!vars)
  BY <1>1, <1>11 DEF CancelShared, wireVars, futVars, Closed
<1>12. CASE UNCHANGED vars
  BY <1>1, <1>12 DEF vars, Closed
<1>13. QED
  BY <1>2, <1>3, <1>4, <1>5, <1>6, <1>7, <1>8, <1>9, <1>10, <1>11, <1>12
  DEF Next, Callback

(* As long as no task cancels wait_for_completion(), the stream with its lock,
   its two queues and its futures implements ChunkChannel: what callers see is
   a channel that hands message i to read i and closes once. *)
THEOREM StreamImplementsChannel ==
  ASSUME "completion" \notin Cancellable
  PROVE  Spec => ImplementsChannel
<1>1. Init => DeliveryInv /\ Fresh
  BY DeliveryInit DEF Init, Fresh
<1>2. DeliveryInv /\ Fresh /\ [Next]_vars => DeliveryInv' /\ Fresh'
  BY DeliveryStep, FreshStep
<1>3. Init => Channel!Init
  BY DEF Init, Channel!Init, ChannelOut, Channel!Read, Call
<1>4. DeliveryInv /\ Fresh /\ [Next]_vars => [Channel!Next]_(Channel!vars)
  BY ChannelStep
<1>5. QED
  BY <1>1, <1>2, <1>3, <1>4, PTL DEF Spec, ImplementsChannel, Channel!Spec

-----------------------------------------------------------------------------
(* HTTP/2: the writes of a stream.                                          *)

Entry == [n : Write, end : BOOLEAN]

(* The writes of s follow each other, and END_STREAM is the last of them. *)
Framed(s) ==
    /\ \A i \in 1 .. Len(s) : s[i].end => i = Len(s) /\ ended
    /\ \A i, j \in 1 .. Len(s) : i < j => s[i].n < s[j].n

(* What waits comes after what was sent. *)
Order ==
    /\ Framed(sent) /\ Framed(queue)
    /\ \A i \in 1 .. Len(sent) : sent[i].end => queue = <<>>
    /\ \A i \in 1 .. Len(sent), j \in 1 .. Len(queue) : sent[i].n < queue[j].n

(* Every write that was accepted is before w. *)
Below(w) ==
    /\ \A i \in 1 .. Len(sent) : sent[i].n < w
    /\ \A i \in 1 .. Len(queue) : queue[i].n < w

(* The application's writes are numbered by its calls. *)
Calls ==
    api = "blocking" =>
        /\ writer = "idle"
        /\ \A i \in 1 .. Len(sent) : writeFut[sent[i].n] # "none"
        /\ \A i \in 1 .. Len(queue) : writeFut[queue[i].n] # "none"
        /\ \A u, v \in Write : u < v /\ writeFut[v] # "none" => writeFut[u] # "none"

(* The task's writes are numbered by the chunks it pulled, and only the one
   after the last chunk carries END_STREAM. *)
Pulls ==
    api = "asyncio" =>
        /\ native = "new" => writer = "idle"
        /\ writer = "idle" => pulled = 0
        /\ writer \in {"idle", "created", "pulling", "waiting", "closing"} => Below(pulled + 1)
        /\ writer = "writing" => Below(pulled)
        /\ writer \in {"writing", "waiting"} => pulled > 0
        /\ \A i \in 1 .. Len(sent) : sent[i].end => sent[i].n = Last
        /\ \A i \in 1 .. Len(queue) : queue[i].end => queue[i].n = Last

(* While nothing failed, the chunks sent are all the chunks pulled but the one
   that the task has in hand. *)
Gapless ==
    /\ \A i \in 1 .. Len(sent) : sent[i].n = i
    /\ Len(queue) <= 1
    /\ Len(queue) = 1 => queue[1].n = Len(sent) + 1
    /\ writer \in {"idle", "created", "pulling", "closing"} => Len(queue) = 0 /\ Len(sent) = pulled
    /\ writer = "writing" => Len(queue) = 0 /\ Len(sent) + 1 = pulled
    /\ writer = "waiting" => Len(sent) + Len(queue) <= pulled
    /\ writer = "closing" => pulled = Chunks

Whole == api = "asyncio" /\ ~failed => Gapless

(* Only a cancellation during _on_complete resolves remote_end_stream_future
   between the look that the callback takes at it and its set_exception. *)
Reported ==
    /\ CompletionReported
    /\ callback.kind = "complete" => completed
    /\ callback.kind = "complete" /\ Raises => cancelledLate
    /\ cancelledLate => remoteEnd # "pending"

BodyInv == Http2TypeOK /\ Order /\ Calls /\ Pulls /\ Whole

-----------------------------------------------------------------------------
(* How a write gets into the queue and out of it. *)

LEMMA Accepting ==
  ASSUME Http2TypeOK, NEW w \in Write, NEW end \in BOOLEAN, WriteData(w, end)
  PROVE  /\ queue' \in Seq(Entry) /\ Len(queue') = Len(queue) + 1 /\ Len(queue) \in Nat
         /\ \A i \in 1 .. Len(queue) : queue'[i] = queue[i]
         /\ queue'[Len(queue')].n = w /\ queue'[Len(queue')].end = end
         /\ queue' # <<>>
         /\ UNCHANGED <<native, sent>> /\ ~ended /\ ended' = end
         /\ writeFut' = [writeFut EXCEPT ![w] = "pending"] /\ writeFut' \in [Write -> StreamFuture]
<1> DEFINE e == [n |-> w, end |-> end]
<1>1. e \in Entry /\ queue \in Seq(Entry) /\ queue' = Append(queue, e)
  BY DEF Http2TypeOK, WriteData, Entry
<1> HIDE DEF e
<1>2. /\ queue' \in Seq(Entry) /\ queue' # <<>> /\ Len(queue') = Len(queue) + 1
      /\ \A i \in 1 .. Len(queue) : queue'[i] = queue[i]
      /\ queue'[Len(queue) + 1] = e
  BY <1>1, AppendProperties
<1>3. Len(queue) \in Nat
  BY <1>1, LenProperties
<1>4. writeFut' \in [Write -> StreamFuture]
  BY DEF Http2TypeOK, WriteData, StreamFuture
<1>5. QED
  BY <1>2, <1>3, <1>4 DEF WriteData, Accepts, e

LEMMA Taking ==
  ASSUME Http2TypeOK, queue # <<>>, queue' = Tail(queue)
  PROVE  /\ Head(queue) \in Entry /\ Head(queue) = queue[1]
         /\ queue' \in Seq(Entry) /\ Len(queue') = Len(queue) - 1 /\ Len(queue) \in Nat \ {0}
         /\ \A i \in 1 .. Len(queue') : queue'[i] = queue[i + 1]
         /\ Len(queue) = 1 => queue' = <<>>
<1>1. queue \in Seq(Entry)
  BY DEF Http2TypeOK, Entry
<1>2. /\ Head(queue) \in Entry /\ queue' \in Seq(Entry) /\ Len(queue') = Len(queue) - 1
      /\ \A i \in 1 .. Len(queue') : queue'[i] = queue[i + 1]
  BY <1>1, HeadTailProperties
<1>3. Len(queue) \in Nat \ {0} /\ Head(queue) = queue[1]
  BY <1>1, EmptySeq, LenProperties
<1>4. Len(queue) = 1 => queue' = <<>>
  BY <1>2, EmptySeq
<1>5. QED
  BY <1>2, <1>3, <1>4

LEMMA Sending ==
  ASSUME Http2TypeOK, queue # <<>>, queue' = Tail(queue), sent' = Append(sent, Head(queue))
  PROVE  /\ sent' \in Seq(Entry) /\ Len(sent') = Len(sent) + 1 /\ Len(sent) \in Nat
         /\ \A i \in 1 .. Len(sent) : sent'[i] = sent[i]
         /\ sent'[Len(sent')] = queue[1]
<1>1. Head(queue) \in Entry /\ Head(queue) = queue[1] /\ sent \in Seq(Entry)
  BY Taking DEF Http2TypeOK, Entry
<1>2. /\ sent' \in Seq(Entry) /\ Len(sent') = Len(sent) + 1
      /\ \A i \in 1 .. Len(sent) : sent'[i] = sent[i]
      /\ sent'[Len(sent) + 1] = queue[1]
  BY <1>1, AppendProperties
<1>3. QED
  BY <1>1, <1>2, LenProperties

(* What is in the two sequences is a write with a number. *)
LEMMA Entries ==
  ASSUME Http2TypeOK
  PROVE  /\ Chunks \in Nat \ {0} /\ Last \in Nat /\ Last = Chunks + 1 /\ Write \subseteq Nat
         /\ sent \in Seq(Entry) /\ queue \in Seq(Entry)
         /\ Len(sent) \in Nat /\ Len(queue) \in Nat
         /\ DOMAIN sent = 1 .. Len(sent)
         /\ \A i \in 1 .. Len(sent) : sent[i].n \in Write /\ sent[i].end \in BOOLEAN
         /\ \A i \in 1 .. Len(queue) : queue[i].n \in Write /\ queue[i].end \in BOOLEAN
<1>1. sent \in Seq(Entry) /\ queue \in Seq(Entry)
  BY DEF Http2TypeOK, Entry
<1>2. /\ Len(sent) \in Nat /\ Len(queue) \in Nat /\ DOMAIN sent = 1 .. Len(sent)
      /\ sent \in [1 .. Len(sent) -> Entry] /\ queue \in [1 .. Len(queue) -> Entry]
  BY <1>1, LenProperties
<1>3. /\ \A i \in 1 .. Len(sent) : sent[i].n \in Write /\ sent[i].end \in BOOLEAN
      /\ \A i \in 1 .. Len(queue) : queue[i].n \in Write /\ queue[i].end \in BOOLEAN
  BY <1>2 DEF Entry
<1>4. Chunks \in Nat \ {0} /\ Last \in Nat /\ Last = Chunks + 1 /\ Write \subseteq Nat
  BY ChunksAssumption DEF Last, Write
<1>5. QED
  BY <1>1, <1>2, <1>3, <1>4

-----------------------------------------------------------------------------
(* Order.                                                                   *)

(* A write after all others is queued. *)
LEMMA WriteKeepsOrder ==
  ASSUME Http2TypeOK, Order, NEW w \in Write, NEW end \in BOOLEAN, WriteData(w, end), Below(w)
  PROVE  Order'
<1>1. /\ Len(queue') = Len(queue) + 1 /\ sent' = sent /\ ~ended /\ ended' = end
      /\ \A i \in 1 .. Len(queue) : queue'[i] = queue[i]
      /\ queue'[Len(queue')].n = w /\ queue'[Len(queue')].end = end
  BY Accepting
<1>2. /\ Len(sent) \in Nat /\ Len(queue) \in Nat /\ w \in Nat
      /\ \A i \in 1 .. Len(sent) : sent[i].n \in Nat
      /\ \A i \in 1 .. Len(queue) : queue[i].n \in Nat
  BY Entries
<1>3. /\ \A i \in 1 .. Len(sent) : ~sent[i].end
      /\ \A i \in 1 .. Len(queue) : ~queue[i].end
  BY <1>1 DEF Order, Framed
<1>4. \A i \in 1 .. Len(queue') : i = Len(queue') \/ i \in 1 .. Len(queue)
  BY <1>1, <1>2
<1>5. Framed(sent)'
  BY <1>1, <1>3 DEF Order, Framed
<1>6. Framed(queue)'
  <2>1. \A i \in 1 .. Len(queue') : queue'[i].end => i = Len(queue') /\ ended'
    BY <1>1, <1>3, <1>4
  <2>2. \A i, j \in 1 .. Len(queue') : i < j => queue'[i].n < queue'[j].n
    <3> TAKE i, j \in 1 .. Len(queue')
    <3> HAVE i < j
    <3>1. i \in 1 .. Len(queue)
      BY <1>1, <1>2
    <3>2. CASE j \in 1 .. Len(queue)
      BY <1>1, <3>1, <3>2 DEF Order, Framed
    <3>3. CASE j = Len(queue')
      BY <1>1, <3>1, <3>3 DEF Below
    <3>4. QED
      BY <1>4, <3>2, <3>3
  <2>3. QED
    BY <2>1, <2>2 DEF Framed
<1>7. \A i \in 1 .. Len(sent'), j \in 1 .. Len(queue') : sent'[i].n < queue'[j].n
  BY <1>1, <1>4 DEF Order, Below
<1>8. QED
  BY <1>1, <1>3, <1>5, <1>6, <1>7 DEF Order

(* The next write is sent, or fails. *)
LEMMA SendKeepsOrder ==
  ASSUME Http2TypeOK, Order, queue # <<>>, queue' = Tail(queue), ended' = ended,
         sent' = sent \/ sent' = Append(sent, Head(queue))
  PROVE  Order'
<1>1. /\ Len(queue') = Len(queue) - 1 /\ Len(queue) \in Nat \ {0}
      /\ \A i \in 1 .. Len(queue') : queue'[i] = queue[i + 1] /\ i + 1 \in 1 .. Len(queue)
      /\ Len(queue) = 1 => queue' = <<>>
  BY Taking
<1>2. /\ Len(sent) \in Nat /\ Len(queue) \in Nat
      /\ \A i \in 1 .. Len(sent) : sent[i].n \in Nat
      /\ \A i \in 1 .. Len(queue) : queue[i].n \in Nat
  BY Entries
<1>3. \A i \in 1 .. Len(sent) : ~sent[i].end
  BY DEF Order
<1>4. Framed(queue)'
  <2>1. \A i \in 1 .. Len(queue') : queue'[i].end => i = Len(queue') /\ ended'
    <3> TAKE i \in 1 .. Len(queue')
    <3>1. queue'[i] = queue[i + 1] /\ i + 1 \in 1 .. Len(queue)
      BY <1>1
    <3> HAVE queue'[i].end
    <3>2. i + 1 = Len(queue) /\ ended
      BY <3>1 DEF Order, Framed
    <3>3. i \in Nat /\ Len(queue) \in Nat /\ Len(queue') = Len(queue) - 1
      BY <1>1
    <3>4. i = Len(queue')
      BY <3>2, <3>3
    <3>5. QED
      BY <3>2, <3>4
  <2>2. \A i, j \in 1 .. Len(queue') : i < j => queue'[i].n < queue'[j].n
    <3> TAKE i, j \in 1 .. Len(queue')
    <3> HAVE i < j
    <3>1. /\ queue'[i] = queue[i + 1] /\ queue'[j] = queue[j + 1] /\ i + 1 < j + 1
          /\ i + 1 \in 1 .. Len(queue) /\ j + 1 \in 1 .. Len(queue)
      BY <1>1
    <3>2. QED
      BY <3>1 DEF Order, Framed
  <2>3. QED
    BY <2>1, <2>2 DEF Framed
<1>5. CASE sent' = sent
  <2>1. \A i \in 1 .. Len(sent'), j \in 1 .. Len(queue') : sent'[i].n < queue'[j].n
    BY <1>1, <1>5 DEF Order
  <2>2. Framed(sent)'
    BY <1>3, <1>5 DEF Order, Framed
  <2>3. QED
    BY <1>3, <1>4, <1>5, <2>1, <2>2 DEF Order
<1>6. CASE sent' = Append(sent, Head(queue))
  <2>1. /\ Len(sent') = Len(sent) + 1 /\ \A i \in 1 .. Len(sent) : sent'[i] = sent[i]
        /\ sent'[Len(sent')] = queue[1]
    BY <1>6, Sending
  <2>2. \A i \in 1 .. Len(sent') : i = Len(sent') \/ i \in 1 .. Len(sent)
    BY <1>2, <2>1
  <2>3. 1 \in 1 .. Len(queue)
    BY <1>1
  <2>4. \A i \in 1 .. Len(sent') : sent'[i].end => i = Len(sent') /\ ended' /\ queue' = <<>>
    BY <1>1, <1>3, <2>1, <2>2, <2>3 DEF Order, Framed
  <2>5. \A i, j \in 1 .. Len(sent') : i < j => sent'[i].n < sent'[j].n
    <3> TAKE i, j \in 1 .. Len(sent')
    <3> HAVE i < j
    <3>1. i \in 1 .. Len(sent)
      BY <1>2, <2>1
    <3>2. CASE j \in 1 .. Len(sent)
      BY <2>1, <3>1, <3>2 DEF Order, Framed
    <3>3. CASE j = Len(sent')
      BY <2>1, <2>3, <3>1, <3>3 DEF Order
    <3>4. QED
      BY <2>2, <3>2, <3>3
  <2>6. \A i \in 1 .. Len(sent'), j \in 1 .. Len(queue') : sent'[i].n < queue'[j].n
    <3> TAKE i \in 1 .. Len(sent'), j \in 1 .. Len(queue')
    <3>1. queue'[j] = queue[j + 1] /\ j + 1 \in 1 .. Len(queue) /\ 1 < j + 1
      BY <1>1
    <3>2. CASE i \in 1 .. Len(sent)
      BY <2>1, <3>1, <3>2 DEF Order
    <3>3. CASE i = Len(sent')
      BY <2>1, <2>3, <3>1, <3>3 DEF Order, Framed
    <3>4. QED
      BY <2>2, <3>2, <3>3
  <2>7. QED
    BY <1>4, <2>4, <2>5, <2>6 DEF Order, Framed
<1>7. QED
  BY <1>5, <1>6

(* The order of the writes through every step. *)
LEMMA OrderStep ==
  ASSUME BodyInv, Http2Next
  PROVE  Order'
<1>0. Http2TypeOK /\ Order /\ Calls /\ Pulls
  BY DEF BodyInv
<1>1. ASSUME UNCHANGED <<queue, sent, ended>> PROVE Order'
  BY <1>0, <1>1 DEF Order, Framed
<1>2. CASE Send \/ Flush
  BY <1>0, <1>2, SendKeepsOrder DEF Send, Flush
<1>3. ASSUME NEW w \in 1 .. Chunks, NEW end \in BOOLEAN, ApplicationWrites(w, end) PROVE Order'
  <2>1. CASE WriteData(w, end)
    <3>1. w \in Write /\ api = "blocking" /\ NextWrite(w)
      BY <1>3, ChunksAssumption DEF ApplicationWrites, Write, Last
    <3>2. \A u \in Write : writeFut[u] # "none" => u < w
      BY <1>0, <3>1, ChunksAssumption DEF Calls, NextWrite, Write, Last
    <3>3. Below(w)
      BY <1>0, <3>1, <3>2, Entries DEF Calls, Below
    <3>4. QED
      BY <1>0, <2>1, <3>1, <3>3, WriteKeepsOrder
  <2>2. QED
    BY <1>1, <1>3, <2>1 DEF ApplicationWrites, WriteRefused, nativeVars
<1>4. CASE WriteChunk
  <2>1. CASE WriteData(pulled, FALSE)
    <3>1. api = "asyncio" /\ pulled \in Write
      BY <1>0, <1>4, ChunksAssumption DEF WriteChunk, Calls, Pulls, Http2TypeOK, Write, Last
    <3>2. QED
      BY <1>0, <1>4, <2>1, <3>1, WriteKeepsOrder DEF WriteChunk, Pulls
  <2>2. QED
    BY <1>1, <1>4, <2>1 DEF WriteChunk, WriteRefused, nativeVars
<1>5. CASE WriteEnd
  <2>1. CASE WriteData(Last, TRUE)
    <3>1. api = "asyncio" /\ Last \in Write /\ pulled + 1 <= Last /\ pulled \in Nat /\ Last \in Nat
      BY <1>0, <1>5, ChunksAssumption DEF WriteEnd, Calls, Http2TypeOK, Write, Last
    <3>2. Below(pulled + 1)
      BY <1>0, <1>5, <3>1 DEF WriteEnd, Pulls
    <3>3. Below(Last)
      <4>1. /\ \A i \in 1 .. Len(sent) : sent[i].n \in Nat
            /\ \A i \in 1 .. Len(queue) : queue[i].n \in Nat
        BY <1>0, Entries
      <4>2. QED
        BY <3>1, <3>2, <4>1 DEF Below
    <3>4. QED
      BY <1>0, <2>1, <3>1, <3>3, WriteKeepsOrder
  <2>2. QED
    BY <1>1, <1>5, <2>1 DEF WriteEnd, WriteRefused, nativeVars
<1>6. CASE \/ Activate \/ Close \/ RemoteEndStream \/ CancelFuture \/ CancelWriter \/ Complete
           \/ CallbackStep \/ StartWriter \/ Pull \/ ChunkWritten \/ EndWritten
  BY <1>1, <1>6
  DEF Activate, Close, RemoteEndStream, CancelFuture, CancelWriter, Complete, CallbackStep,
      OnWriteComplete,
      OnRemoteEndStream, OnStreamComplete, StartWriter, Pull, ChunkWritten, EndWritten, nativeVars
<1>7. QED
  BY <1>2, <1>3, <1>4, <1>5, <1>6 DEF Http2Next, NativeStep, WriterStep

-----------------------------------------------------------------------------
(* Types.                                                                   *)

CallbackState == [kind : {"none", "write", "remote", "complete"}, write : 0 .. Last, seen : BOOLEAN]

(* Types through every step. *)
LEMMA Http2TypeStep ==
  ASSUME Http2TypeOK, Http2Next, Pulls, Calls
  PROVE  Http2TypeOK'
<1>0. /\ Chunks \in Nat \ {0} /\ Last = Chunks + 1 /\ Write = 1 .. Last /\ Last \in Write
      /\ \A i \in 1 .. Chunks : i \in Write
      /\ Idle \in CallbackState
      /\ \A k \in {"write", "remote", "complete"}, v \in 0 .. Last, b \in BOOLEAN :
            [kind |-> k, write |-> v, seen |-> b] \in CallbackState
      /\ \A f \in StreamFuture : Settle(f) \in StreamFuture
  BY ChunksAssumption DEF Last, Write, Idle, CallbackState, Settle, StreamFuture
<1>1. CASE Activate
  BY <1>1 DEF Activate, Http2TypeOK, responseVars
<1>2. CASE Close
  BY <1>2 DEF Close, Http2TypeOK, responseVars, writerVars
<1>3. CASE RemoteEndStream \/ Complete
  <2>1. callback' \in CallbackState
    <3>1. 0 \in 0 .. Last /\ (remoteEnd # "pending") \in BOOLEAN
      BY <1>0
    <3>2. QED
      BY <1>0, <1>3, <3>1 DEF RemoteEndStream, Complete
  <2>2. QED
    BY <1>3, <2>1 DEF RemoteEndStream, Complete, Http2TypeOK, nativeVars, writerVars, CallbackState
<1>4. CASE CancelFuture
  <2>1. cancelledLate' \in BOOLEAN
    BY <1>4 DEF CancelFuture, Http2TypeOK
  <2>2. /\ writeFut' \in [Write -> StreamFuture] /\ remoteEnd' \in StreamFuture
        /\ completion' \in StreamFuture
    BY <1>4 DEF CancelFuture, Http2TypeOK, StreamFuture
  <2>3. UNCHANGED <<api, nativeVars, callback, remote, completed, writerVars>>
    BY <1>4 DEF CancelFuture
  <2>4. QED
    BY <2>1, <2>2, <2>3 DEF Http2TypeOK, nativeVars, writerVars
<1>5. CASE CancelWriter
  BY <1>5 DEF CancelWriter, CancelAwaited, Http2TypeOK, nativeVars, responseVars, StreamFuture, FinallyClause
<1>6. ASSUME NEW w \in 1 .. Chunks, NEW end \in BOOLEAN, ApplicationWrites(w, end) PROVE Http2TypeOK'
  <2>1. CASE WriteData(w, end)
    <3>1. queue' \in Seq(Entry) /\ UNCHANGED <<native, sent>> /\ ended' = end /\ writeFut' \in [Write -> StreamFuture]
      BY <1>0, <2>1, Accepting
    <3>2. QED
      BY <1>6, <3>1 DEF ApplicationWrites, Http2TypeOK, Entry, responseVars, writerVars
  <2>2. CASE WriteRefused(w)
    BY <1>6, <2>2 DEF ApplicationWrites, WriteRefused, Http2TypeOK, nativeVars, responseVars, writerVars
  <2>3. QED
    BY <1>6, <2>1, <2>2 DEF ApplicationWrites
<1>7. CASE Send \/ Flush
  <2>1. queue' \in Seq(Entry) /\ Head(queue).n \in Write
    BY <1>7, Taking DEF Send, Flush, Entry
  <2>2. sent' \in Seq(Entry)
    BY <1>7, Sending, Entries DEF Send, Flush
  <2>3. callback' \in CallbackState
    <3>1. Head(queue).n \in 0 .. Last /\ (writeFut[Head(queue).n] = "cancelled") \in BOOLEAN
      BY <1>0, <2>1
    <3>2. QED
      BY <1>0, <1>7, <3>1 DEF Send, Flush
  <2>4. QED
    BY <1>7, <2>1, <2>2, <2>3 DEF Send, Flush, Http2TypeOK, Entry, responseVars, writerVars,
        CallbackState
<1>8. CASE OnWriteComplete
  <2>1. writeFut' \in [Write -> StreamFuture]
    BY <1>0, <1>8 DEF OnWriteComplete, Http2TypeOK, ReportWrite
  <2>2. QED
    BY <1>0, <1>8, <2>1 DEF OnWriteComplete, Http2TypeOK, nativeVars, responseVars, writerVars,
        CallbackState
<1>9. CASE OnRemoteEndStream \/ OnStreamComplete
  BY <1>0, <1>9 DEF OnRemoteEndStream, OnStreamComplete, Http2TypeOK, nativeVars, writerVars, CallbackState
<1>10. CASE Pull
  <2>1. pulled' \in 0 .. Chunks
    BY <1>0, <1>10 DEF Pull, Http2TypeOK
  <2>2. writer' \in {"writing", "closing"} /\ failed' \in BOOLEAN
    BY <1>10 DEF Pull, Http2TypeOK, FinallyClause
  <2>3. UNCHANGED <<api, nativeVars, writeFut, callback, responseVars>>
    BY <1>10 DEF Pull
  <2>4. QED
    BY <2>1, <2>2, <2>3 DEF Http2TypeOK, nativeVars, responseVars
<1>11. CASE WriteChunk
  <2>1. CASE WriteData(pulled, FALSE)
    <3>1. pulled \in Write
      BY <1>0, <1>11 DEF WriteChunk, Pulls, Calls, Http2TypeOK
    <3>2. queue' \in Seq(Entry) /\ UNCHANGED <<native, sent>> /\ ended' = FALSE /\ writeFut' \in [Write -> StreamFuture]
      BY <2>1, <3>1, Accepting
    <3>3. QED
      BY <1>11, <3>2 DEF WriteChunk, Http2TypeOK, Entry, responseVars, FinallyClause
  <2>2. CASE WriteRefused(pulled)
    <3>1. /\ UNCHANGED <<api, nativeVars, writeFut, callback, responseVars, pulled>>
          /\ writer' = "closing" /\ failed' = TRUE
      BY <1>11, <2>2 DEF WriteChunk, WriteRefused, WriteData, Accepts, FinallyClause
    <3>2. QED
      BY <3>1 DEF Http2TypeOK, nativeVars, responseVars
  <2>3. QED
    BY <1>11, <2>1, <2>2 DEF WriteChunk
<1>12. CASE WriteEnd
  <2>1. CASE WriteData(Last, TRUE)
    <3>1. queue' \in Seq(Entry) /\ UNCHANGED <<native, sent>> /\ ended' = TRUE /\ writeFut' \in [Write -> StreamFuture]
      BY <1>0, <2>1, Accepting
    <3>2. QED
      BY <1>12, <3>1 DEF WriteEnd, Http2TypeOK, Entry, responseVars
  <2>2. CASE WriteRefused(Last)
    <3>1. UNCHANGED <<api, nativeVars, writeFut, callback, responseVars, pulled, failed>> /\ writer' = "over"
      BY <1>12, <2>2 DEF WriteEnd, WriteRefused, WriteData, Accepts
    <3>2. QED
      BY <3>1 DEF Http2TypeOK, nativeVars, responseVars
  <2>3. QED
    BY <1>12, <2>1, <2>2 DEF WriteEnd
<1>13. CASE StartWriter \/ ChunkWritten \/ EndWritten
  BY <1>13 DEF StartWriter, ChunkWritten, EndWritten, Http2TypeOK, nativeVars, responseVars, FinallyClause
<1>14. QED
  BY <1>1, <1>2, <1>3, <1>4, <1>5, <1>6, <1>7, <1>8, <1>9, <1>10, <1>11, <1>12, <1>13
  DEF Http2Next, NativeStep, CallbackStep, WriterStep

-----------------------------------------------------------------------------
(* Numbers of the writes.                                                   *)

(* A write that is sent or failed was queued before. *)
Moved ==
    /\ \A i \in 1 .. Len(sent') : \/ \E j \in 1 .. Len(sent) : sent'[i] = sent[j]
                                  \/ \E j \in 1 .. Len(queue) : sent'[i] = queue[j]
    /\ \A i \in 1 .. Len(queue') : \E j \in 1 .. Len(queue) : queue'[i] = queue[j]

LEMMA Moving ==
  ASSUME Http2TypeOK, Send \/ Flush
  PROVE  Moved
<1>1. /\ Len(queue') = Len(queue) - 1 /\ Len(queue) \in Nat \ {0}
      /\ \A i \in 1 .. Len(queue') : queue'[i] = queue[i + 1] /\ i + 1 \in 1 .. Len(queue)
  BY Taking DEF Send, Flush
<1>2. \A i \in 1 .. Len(queue') : \E j \in 1 .. Len(queue) : queue'[i] = queue[j]
  BY <1>1
<1>3. CASE sent' = sent
  BY <1>2, <1>3 DEF Moved
<1>4. CASE Send
  <2>1. /\ Len(sent') = Len(sent) + 1 /\ Len(sent) \in Nat
        /\ \A i \in 1 .. Len(sent) : sent'[i] = sent[i]
        /\ sent'[Len(sent')] = queue[1]
    BY <1>4, Sending DEF Send
  <2>2. 1 \in 1 .. Len(queue) /\ \A i \in 1 .. Len(sent') : i = Len(sent') \/ i \in 1 .. Len(sent)
    BY <1>1, <2>1
  <2>3. QED
    BY <1>2, <2>1, <2>2 DEF Moved
<1>5. QED
  BY <1>3, <1>4 DEF Flush

(* The write w is queued, and nothing else. *)
Added(w, end) ==
    /\ sent' = sent
    /\ \A i \in 1 .. Len(queue') :
          \/ queue'[i].n = w /\ queue'[i].end = end
          \/ \E j \in 1 .. Len(queue) : queue'[i] = queue[j]
    /\ writeFut' = [writeFut EXCEPT ![w] = "pending"]

LEMMA Adding ==
  ASSUME Http2TypeOK, NEW w \in Write, NEW end \in BOOLEAN, WriteData(w, end)
  PROVE  Added(w, end)
<1>1. /\ Len(queue') = Len(queue) + 1 /\ Len(queue) \in Nat /\ sent' = sent
      /\ \A i \in 1 .. Len(queue) : queue'[i] = queue[i]
      /\ queue'[Len(queue')].n = w /\ queue'[Len(queue')].end = end
      /\ writeFut' = [writeFut EXCEPT ![w] = "pending"]
  BY Accepting
<1>2. \A i \in 1 .. Len(queue') : i = Len(queue') \/ i \in 1 .. Len(queue)
  BY <1>1
<1>3. QED
  BY <1>1, <1>2 DEF Added

(* A stream keeps its interface, and is new only once. *)
LEMMA SameApi ==
  ASSUME Http2Next
  PROVE  api' = api
BY DEF Http2Next, NativeStep, CallbackStep, WriterStep, Activate, Close, RemoteEndStream, CancelFuture,
       CancelWriter, ApplicationWrites, Send, Flush, Complete, OnWriteComplete, OnRemoteEndStream,
       OnStreamComplete, StartWriter, Pull, WriteChunk, ChunkWritten, WriteEnd, EndWritten

LEMMA NotNew ==
  ASSUME Http2Next, native' = "new"
  PROVE  native = "new"
BY DEF Http2Next, NativeStep, CallbackStep, WriterStep, Activate, Close, RemoteEndStream, CancelFuture,
       CancelWriter, ApplicationWrites, WriteData, WriteRefused, Send, Flush, Complete, OnWriteComplete,
       OnRemoteEndStream, OnStreamComplete, StartWriter, Pull, WriteChunk, ChunkWritten, WriteEnd, EndWritten,
       nativeVars

(* The calls of the application. *)
LEMMA CallsStep ==
  ASSUME BodyInv, Http2Next
  PROVE  Calls'
<1>0. Http2TypeOK /\ Calls
  BY DEF BodyInv
<1> SUFFICES ASSUME api = "blocking", api' = "blocking"
             PROVE  /\ writer' = "idle"
                    /\ \A i \in 1 .. Len(sent') : writeFut'[sent'[i].n] # "none"
                    /\ \A i \in 1 .. Len(queue') : writeFut'[queue'[i].n] # "none"
                    /\ \A u, v \in Write : u < v /\ writeFut'[v] # "none" => writeFut'[u] # "none"
  BY SameApi DEF Calls
<1>1. writer = "idle"
  BY <1>0 DEF Calls
<1>2. ASSUME UNCHANGED <<queue, sent, writer>>,
             \A u \in Write : writeFut'[u] = "none" <=> writeFut[u] = "none"
      PROVE  /\ writer' = "idle"
             /\ \A i \in 1 .. Len(sent') : writeFut'[sent'[i].n] # "none"
             /\ \A i \in 1 .. Len(queue') : writeFut'[queue'[i].n] # "none"
             /\ \A u, v \in Write : u < v /\ writeFut'[v] # "none" => writeFut'[u] # "none"
  BY <1>0, <1>2, Entries DEF Calls
<1>3. CASE Send \/ Flush
  <2>1. Moved /\ writeFut' = writeFut /\ writer' = writer
    BY <1>0, <1>3, Moving DEF Send, Flush, writerVars
  <2>2. QED
    BY <1>0, <2>1 DEF Moved, Calls
<1>4. ASSUME NEW w \in 1 .. Chunks, NEW end \in BOOLEAN, ApplicationWrites(w, end)
      PROVE  /\ writer' = "idle"
             /\ \A i \in 1 .. Len(sent') : writeFut'[sent'[i].n] # "none"
             /\ \A i \in 1 .. Len(queue') : writeFut'[queue'[i].n] # "none"
             /\ \A u, v \in Write : u < v /\ writeFut'[v] # "none" => writeFut'[u] # "none"
  <2>1. CASE WriteData(w, end)
    <3>1. w \in Write /\ NextWrite(w) /\ writer' = writer
      BY <1>4, ChunksAssumption DEF ApplicationWrites, Write, Last, writerVars
    <3>2. Added(w, end)
      BY <1>0, <2>1, <3>1, Adding
    <3>3. \A u \in Write : writeFut'[u] = IF u = w THEN "pending" ELSE writeFut[u]
      BY <1>0, <3>1, <3>2 DEF Added, Http2TypeOK
    <3>4. \A u \in Write : writeFut[u] # "none" => writeFut'[u] # "none"
      BY <3>3
    <3>5. /\ \A i \in 1 .. Len(sent') : writeFut'[sent'[i].n] # "none"
          /\ \A i \in 1 .. Len(queue') : writeFut'[queue'[i].n] # "none"
      BY <1>0, <3>1, <3>2, <3>3, <3>4, Entries DEF Added, Calls
    <3>6. \A u, v \in Write : u < v /\ writeFut'[v] # "none" => writeFut'[u] # "none"
      <4> TAKE u, v \in Write
      <4> HAVE u < v /\ writeFut'[v] # "none"
      <4>1. CASE v = w
        <5>1. u \in 1 .. w - 1
          BY <3>1, <4>1, Entries, <1>0 DEF Write
        <5>2. QED
          BY <3>1, <3>4, <5>1 DEF NextWrite
      <4>2. CASE v # w
        BY <1>0, <3>3, <3>4, <4>2 DEF Calls
      <4>3. QED
        BY <4>1, <4>2
    <3>7. QED
      BY <1>1, <3>1, <3>5, <3>6
  <2>2. CASE WriteRefused(w)
    BY <1>2, <1>4, <2>2 DEF ApplicationWrites, WriteRefused, nativeVars, writerVars
  <2>3. QED
    BY <1>4, <2>1, <2>2 DEF ApplicationWrites
<1>5. CASE OnWriteComplete \/ CancelFuture
  <2>1. \A u \in Write : writeFut'[u] = "none" <=> writeFut[u] = "none"
    BY <1>0, <1>5 DEF OnWriteComplete, CancelFuture, ReportWrite, Settle, Http2TypeOK
  <2>2. QED
    BY <1>2, <1>5, <2>1 DEF OnWriteComplete, CancelFuture, nativeVars, writerVars
<1>6. CASE Activate \/ Close \/ RemoteEndStream \/ Complete \/ OnRemoteEndStream \/ OnStreamComplete
  BY <1>2, <1>6 DEF Activate, Close, RemoteEndStream, Complete, OnRemoteEndStream, OnStreamComplete,
      nativeVars, writerVars
<1>7. ~(CancelWriter \/ WriterStep)
  BY <1>1 DEF CancelWriter, WriterStep, StartWriter, Pull, WriteChunk, ChunkWritten, WriteEnd, EndWritten
<1>8. QED
  BY <1>3, <1>4, <1>5, <1>6, <1>7 DEF Http2Next, NativeStep, CallbackStep

(* The steps that leave the writer task and the sequences alone. *)
Elsewhere ==
    \/ Close \/ RemoteEndStream \/ CancelFuture \/ Complete \/ CallbackStep
    \/ \E w \in 1 .. Chunks, end \in BOOLEAN : ApplicationWrites(w, end)

(* With the asyncio interface they change neither. *)
LEMMA ElsewhereQuiet ==
  ASSUME Elsewhere, api = "asyncio"
  PROVE  UNCHANGED <<queue, sent, writer, pulled, failed>>
BY DEF Elsewhere, Close, RemoteEndStream, CancelFuture, Complete, CallbackStep, OnWriteComplete,
       OnRemoteEndStream, OnStreamComplete, ApplicationWrites, nativeVars, writerVars

(* The numbers that the task gives, and the one END_STREAM. *)
LEMMA PullsStep ==
  ASSUME BodyInv, Http2Next
  PROVE  Pulls'
<1>0. Http2TypeOK /\ Pulls /\ pulled \in Nat /\ pulled <= Chunks
  BY ChunksAssumption DEF BodyInv, Http2TypeOK
<1>e. /\ Chunks \in Nat \ {0} /\ Last = Chunks + 1 /\ Write = 1 .. Last
      /\ \A i \in 1 .. Len(sent) : sent[i].n \in Nat
      /\ \A i \in 1 .. Len(queue) : queue[i].n \in Nat
  BY <1>0, Entries DEF Write
<1> SUFFICES ASSUME api = "asyncio", api' = "asyncio" PROVE Pulls'
  BY SameApi DEF Pulls
<1>n. writer # "idle" => native' # "new"
  BY <1>0, NotNew DEF Pulls
<1>m. native' = "new" => native = "new"
  BY NotNew
<1>1. CASE Elsewhere
  BY <1>0, <1>1, <1>m, ElsewhereQuiet DEF Pulls, Below
<1>2. CASE Send \/ Flush
  <2>1. Moved /\ UNCHANGED <<writer, pulled>>
    BY <1>0, <1>2, Moving DEF Send, Flush, writerVars
  <2>2. \A w \in Nat : Below(w) => Below(w)'
    BY <2>1 DEF Moved, Below
  <2>3. /\ \A i \in 1 .. Len(sent') : sent'[i].end => sent'[i].n = Last
        /\ \A i \in 1 .. Len(queue') : queue'[i].end => queue'[i].n = Last
    <3>1. /\ \A i \in 1 .. Len(sent) : sent[i].end => sent[i].n = Last
          /\ \A i \in 1 .. Len(queue) : queue[i].end => queue[i].n = Last
      BY <1>0 DEF Pulls
    <3>2. ASSUME NEW i \in 1 .. Len(sent'), sent'[i].end PROVE sent'[i].n = Last
      <4>1. CASE \E j \in 1 .. Len(sent) : sent'[i] = sent[j]
        BY <3>1, <3>2, <4>1
      <4>2. CASE \E j \in 1 .. Len(queue) : sent'[i] = queue[j]
        BY <3>1, <3>2, <4>2
      <4>3. QED
        BY <2>1, <4>1, <4>2 DEF Moved
    <3>3. ASSUME NEW i \in 1 .. Len(queue'), queue'[i].end PROVE queue'[i].n = Last
      <4>1. PICK j \in 1 .. Len(queue) : queue'[i] = queue[j]
        BY <2>1 DEF Moved
      <4>2. QED
        BY <3>1, <3>3, <4>1
    <3>4. QED
      BY <3>2, <3>3
  <2>4. QED
    BY <1>0, <1>2, <2>1, <2>2, <2>3 DEF Pulls, Send, Flush
<1>3. CASE Activate
  BY <1>0, <1>3 DEF Activate, Pulls, Below
<1>4. CASE Pull
  <2>1. UNCHANGED <<queue, sent>> /\ writer = "pulling" /\ Below(pulled + 1)
    BY <1>0, <1>4 DEF Pull, nativeVars, Pulls
  <2>2. CASE pulled' = pulled + 1 /\ writer' = "writing"
    BY <1>0, <1>n, <2>1, <2>2 DEF Pulls, Below
  <2>3. CASE pulled' = pulled /\ writer' = "closing"
    BY <1>0, <1>n, <2>1, <2>3 DEF Pulls, Below
  <2>4. QED
    BY <1>4, <2>2, <2>3 DEF Pull, FinallyClause
<1>5. CASE WriteChunk
  <2>1. writer = "writing" /\ pulled > 0 /\ Below(pulled) /\ pulled' = pulled /\ pulled \in Write
    BY <1>0, <1>e, <1>5 DEF WriteChunk, Pulls
  <2>2. CASE WriteData(pulled, FALSE) /\ writer' = "waiting"
    <3>1. Added(pulled, FALSE)
      BY <1>0, <2>1, <2>2, Adding
    <3>2. Below(pulled + 1)'
      BY <1>0, <1>e, <2>1, <3>1 DEF Added, Below
    <3>3. /\ \A i \in 1 .. Len(sent') : sent'[i].end => sent'[i].n = Last
          /\ \A i \in 1 .. Len(queue') : queue'[i].end => queue'[i].n = Last
      BY <1>0, <3>1 DEF Added, Pulls
    <3>4. QED
      BY <1>n, <2>1, <2>2, <3>2, <3>3 DEF Pulls
  <2>3. CASE WriteRefused(pulled) /\ writer' = "closing"
    BY <1>0, <1>e, <2>1, <2>3 DEF WriteRefused, nativeVars, Pulls, Below
  <2>4. QED
    BY <1>5, <2>2, <2>3 DEF WriteChunk, FinallyClause
<1>6. CASE WriteEnd
  <2>1. CASE WriteData(Last, TRUE) /\ writer' = "lastwait"
    <3>0. Last \in Write
      BY <1>e
    <3>1. Added(Last, TRUE)
      BY <1>0, <2>1, <3>0, Adding
    <3>2. QED
      BY <1>0, <1>6, <1>n, <2>1, <3>1 DEF Added, Pulls, WriteEnd
  <2>2. CASE WriteRefused(Last) /\ writer' = "over"
    BY <1>0, <1>6, <1>n, <2>2 DEF WriteRefused, nativeVars, Pulls, WriteEnd
  <2>3. QED
    BY <1>6, <2>1, <2>2 DEF WriteEnd
<1>7. CASE StartWriter \/ ChunkWritten \/ EndWritten \/ CancelWriter
  BY <1>0, <1>7 DEF StartWriter, ChunkWritten, EndWritten, CancelWriter, FinallyClause, nativeVars, Pulls, Below
<1>8. QED
  BY <1>1, <1>2, <1>3, <1>4, <1>5, <1>6, <1>7 DEF Http2Next, NativeStep, WriterStep, Elsewhere

(* No chunk is left out while nothing fails. *)
LEMMA WholeStep ==
  ASSUME BodyInv, Http2Next
  PROVE  Whole'
<1>0. Http2TypeOK /\ Pulls /\ Whole /\ pulled \in Nat /\ pulled <= Chunks
  BY ChunksAssumption DEF BodyInv, Http2TypeOK
<1>e. Len(sent) \in Nat /\ Len(queue) \in Nat /\ DOMAIN sent = 1 .. Len(sent)
  BY <1>0, Entries
<1>l. Chunks \in Nat \ {0} /\ Last \in Nat /\ Last = Chunks + 1 /\ Write = 1 .. Last
  BY <1>0, Entries DEF Write
<1> SUFFICES ASSUME api = "asyncio", api' = "asyncio", ~failed' PROVE Gapless'
  BY SameApi DEF Whole
<1>f. ~failed
  BY DEF Http2Next, NativeStep, CallbackStep, WriterStep, Activate, Close, RemoteEndStream, CancelFuture,
         CancelWriter, ApplicationWrites, Send, Flush, Complete, OnWriteComplete, OnRemoteEndStream,
         OnStreamComplete, StartWriter, Pull, WriteChunk, ChunkWritten, WriteEnd, EndWritten, writerVars
<1>w. Gapless
  BY <1>0, <1>f DEF Whole
<1>1. CASE Elsewhere
  BY <1>0, <1>w, <1>1, ElsewhereQuiet DEF Gapless
<1>2. CASE Send \/ Flush
  <2>1. /\ Len(queue') = Len(queue) - 1 /\ Len(queue) > 0 /\ UNCHANGED <<writer, pulled>>
    BY <1>0, <1>w, <1>2, Taking DEF Send, Flush, writerVars
  <2>2. Len(queue) = 1 /\ Len(queue') = 0 /\ queue[1].n = Len(sent) + 1
    <3>1. Len(queue) <= 1
      BY <1>w DEF Gapless
    <3>2. Len(queue) = 1 /\ Len(queue') = 0
      BY <1>e, <2>1, <3>1
    <3>3. QED
      BY <1>w, <3>2 DEF Gapless
  <2>3. CASE sent' = sent
    <3>1. writer \notin {"idle", "pulling", "closing", "writing"}
      BY <1>w, <2>2 DEF Gapless
    <3>2. writer = "waiting" => Len(sent) + Len(queue') <= pulled
      BY <1>0, <1>w, <1>e, <2>2 DEF Gapless
    <3>3. QED
      BY <1>w, <2>1, <2>2, <2>3, <3>1, <3>2 DEF Gapless
  <2>4. CASE Send
    <3>1. /\ Len(sent') = Len(sent) + 1 /\ sent'[Len(sent')] = queue[1]
          /\ \A i \in 1 .. Len(sent) : sent'[i] = sent[i]
      BY <1>0, <1>w, <2>4, Sending DEF Send
    <3>2. \A i \in 1 .. Len(sent') : i = Len(sent') \/ i \in 1 .. Len(sent)
      BY <1>e, <3>1
    <3>3. \A i \in 1 .. Len(sent') : sent'[i].n = i
      BY <1>0, <1>w, <2>2, <3>1, <3>2 DEF Gapless
    <3>4. QED
      BY <1>0, <1>w, <1>e, <2>1, <2>2, <3>1, <3>3 DEF Gapless
  <2>5. QED
    BY <1>2, <2>3, <2>4 DEF Flush
<1>3. CASE Activate
  <2>1. writer = "idle" /\ writer' = "created" /\ UNCHANGED <<queue, sent, pulled>>
    BY <1>0, <1>3 DEF Activate, Pulls
  <2>2. QED
    BY <1>w, <2>1 DEF Gapless
<1>4. CASE Pull
  BY <1>0, <1>w, <1>e, <1>4 DEF Pull, Exhausted, nativeVars, Gapless
<1>5. CASE WriteChunk
  <2>1. writer = "writing" /\ writer' = "waiting" /\ WriteData(pulled, FALSE) /\ pulled' = pulled
    BY <1>5 DEF WriteChunk
  <2>2. Len(queue) = 0 /\ Len(sent) + 1 = pulled
    BY <1>w, <2>1 DEF Gapless
  <2>3. pulled \in Write
    BY <1>0, <1>e, <1>l, <2>2
  <2>4. Len(queue') = Len(queue) + 1 /\ queue'[Len(queue')].n = pulled /\ sent' = sent
    BY <1>0, <2>1, <2>3, Accepting
  <2>5. Len(queue') = 1 /\ queue'[1].n = Len(sent) + 1
    BY <2>2, <2>4
  <2>6. Len(sent') + Len(queue') <= pulled'
    BY <1>0, <1>e, <2>1, <2>2, <2>4, <2>5
  <2>7. QED
    BY <1>w, <2>1, <2>4, <2>5, <2>6 DEF Gapless
<1>6. CASE ChunkWritten
  <2>1. writer = "waiting" /\ writer' = "pulling" /\ Sent(pulled) /\ UNCHANGED <<queue, sent, pulled>>
    BY <1>6 DEF ChunkWritten, nativeVars
  <2>2. PICK i \in 1 .. Len(sent) : sent[i].n = pulled
    BY <1>e, <2>1 DEF Sent
  <2>3. sent[i].n = i /\ Len(sent) + Len(queue) <= pulled
    BY <1>w, <2>1, <2>2 DEF Gapless
  <2>4. Len(queue) = 0 /\ Len(sent) = pulled
    <3>1. i \in Nat /\ i <= Len(sent) /\ i = pulled
      BY <1>e, <2>2, <2>3
    <3>2. /\ Len(sent) \in Nat /\ Len(queue) \in Nat /\ pulled \in Nat
          /\ Len(sent) + Len(queue) <= pulled /\ pulled <= Len(sent)
      BY <1>0, <1>e, <2>3, <3>1
    <3>3. \A a, b, c \in Nat : a + b <= c /\ c <= a => b = 0 /\ a = c
      OBVIOUS
    <3>4. QED
      BY <3>2, <3>3
  <2>5. QED
    BY <1>0, <1>w, <2>1, <2>4 DEF Gapless
<1>7. CASE WriteEnd
  <2>1. /\ writer = "closing" /\ Len(queue) = 0 /\ Len(sent) = Chunks
    BY <1>w, <1>7 DEF WriteEnd, Gapless
  <2>2. CASE WriteData(Last, TRUE) /\ writer' = "lastwait"
    <3>1. Last \in Write
      BY <1>l
    <3>2. Len(queue') = Len(queue) + 1 /\ queue'[Len(queue')].n = Last /\ sent' = sent
      BY <1>0, <2>2, <3>1, Accepting
    <3>3. Len(queue') = 1 /\ queue'[1].n = Len(sent') + 1
      BY <1>l, <2>1, <3>2
    <3>4. \A i \in 1 .. Len(sent') : sent'[i].n = i
      BY <1>w, <3>2 DEF Gapless
    <3>5. QED
      BY <2>2, <3>3, <3>4 DEF Gapless
  <2>3. CASE WriteRefused(Last) /\ writer' = "over"
    BY <1>0, <1>w, <2>3 DEF WriteRefused, nativeVars, Gapless
  <2>4. QED
    BY <1>7, <2>2, <2>3 DEF WriteEnd
<1>8. CASE EndWritten
  BY <1>0, <1>w, <1>8 DEF EndWritten, nativeVars, Gapless
<1>9. ~CancelWriter
  BY DEF CancelWriter
<1>9a. CASE StartWriter
  BY <1>w, <1>9a DEF StartWriter, nativeVars, Gapless
<1>10. QED
  BY <1>1, <1>2, <1>3, <1>4, <1>5, <1>6, <1>7, <1>8, <1>9, <1>9a DEF Http2Next, NativeStep, WriterStep,
      Elsewhere

-----------------------------------------------------------------------------
(* BodyInv holds in every reachable state. *)
THEOREM BodyInvariance == Http2Spec => []BodyInv
<1>1. Http2Init => BodyInv
  <2> SUFFICES ASSUME Http2Init PROVE BodyInv
    OBVIOUS
  <2>1. queue = <<>> /\ sent = <<>> /\ Len(queue) = 0 /\ Len(sent) = 0 /\ <<>> \in Seq([n : Write, end : BOOLEAN])
    BY EmptySeq DEF Http2Init
  <2>2. Http2TypeOK
    <3>1. 0 \in 0 .. Last /\ 0 \in 0 .. Chunks
      BY ChunksAssumption DEF Last
    <3>2. callback \in [kind : {"none", "write", "remote", "complete"}, write : 0 .. Last, seen : BOOLEAN]
      BY <3>1 DEF Http2Init, Idle
    <3>3. QED
      BY <2>1, <3>1, <3>2 DEF Http2Init, Http2TypeOK, StreamFuture
  <2>3. Order /\ Calls /\ Pulls /\ Whole
    BY <2>1 DEF Http2Init, Order, Framed, Calls, Pulls, Below, Whole, Gapless
  <2>4. QED
    BY <2>2, <2>3 DEF BodyInv
<1>2. BodyInv /\ [Http2Next]_http2Vars => BodyInv'
  <2> SUFFICES ASSUME BodyInv, [Http2Next]_http2Vars PROVE BodyInv'
    OBVIOUS
  <2>1. CASE Http2Next
    BY <2>1, Http2TypeStep, OrderStep, CallsStep, PullsStep, WholeStep DEF BodyInv
  <2>2. CASE UNCHANGED http2Vars
    BY <2>2 DEF http2Vars, nativeVars, responseVars, writerVars, BodyInv, Http2TypeOK, Order, Framed,
        Calls, Pulls, Below, Whole, Gapless
  <2>3. QED
    BY <2>1, <2>2
<1>3. QED
  BY <1>1, <1>2, PTL DEF Http2Spec

(* Every variable of the stream and of the writer keeps its type. *)
THEOREM Http2TypeCorrect == Http2Spec => []Http2TypeOK
<1>1. BodyInv => Http2TypeOK
  BY DEF BodyInv
<1>2. QED
  BY <1>1, BodyInvariance, PTL

(* The peer gets the writes in the order of the write_data() calls, nothing after
   END_STREAM and, while neither the generator nor a write nor the task failed,
   every chunk before it: however the completions of the writes, cancellations
   and the end of the stream interleave with the task. *)
THEOREM Framing == Http2Spec => []BodyIsFramed
<1>1. BodyInv => BodyIsFramed
  <2> SUFFICES ASSUME BodyInv PROVE BodyIsFramed
    OBVIOUS
  <2>0. Http2TypeOK /\ Order /\ Pulls /\ Whole
    BY DEF BodyInv
  <2>1. DOMAIN sent = 1 .. Len(sent)
    BY <2>0, Entries
  <2>2. ASSUME api = "asyncio", ~failed, NEW i \in 1 .. Len(sent), sent[i].end PROVE Len(sent) = Last
    BY <2>0, <2>2 DEF Order, Framed, Pulls, Whole, Gapless
  <2>3. QED
    BY <2>0, <2>1, <2>2 DEF BodyIsFramed, Order, Framed
<1>2. QED
  BY <1>1, BodyInvariance, PTL

(* Once _on_complete of the blocking stream is over its completion_future is
   resolved, or remote_end_stream_future was cancelled while it ran. *)
THEOREM CompletionHolds == Http2Spec => []CompletionReported
<1>1. Http2Init => Reported
  BY DEF Http2Init, Reported, CompletionReported, Idle
<1>2. Reported /\ Http2TypeOK /\ [Http2Next]_http2Vars => Reported'
  <2> SUFFICES ASSUME Reported, Http2TypeOK, [Http2Next]_http2Vars PROVE Reported'
    OBVIOUS
  <2> USE DEF Reported, CompletionReported, Raises, Settle, Idle
  <2>1. CASE RemoteEndStream \/ OnRemoteEndStream
    BY <2>1 DEF RemoteEndStream, OnRemoteEndStream, Http2TypeOK
  <2>2. CASE Complete
    BY <2>2 DEF Complete, Http2TypeOK
  <2>3. CASE OnStreamComplete
    BY <2>3 DEF OnStreamComplete, Http2TypeOK
  <2>4. CASE CancelFuture
    <3>1. UNCHANGED <<api, callback, completed>>
      BY <2>4 DEF CancelFuture
    <3>a. cancelledLate' => remoteEnd' # "pending"
      BY <2>4 DEF CancelFuture
    <3>2. CASE callback.kind = "complete"
      <4>0. callback'.kind = "complete" /\ completed'
        BY <3>1, <3>2
      <4>1. \/ UNCHANGED <<remoteEnd, cancelledLate>>
            \/ cancelledLate' = TRUE
        BY <2>4, <3>2 DEF CancelFuture
      <4>2. QED
        BY <3>1, <3>a, <4>0, <4>1
    <3>3. CASE callback.kind # "complete"
      <4>1. completion # "pending" => completion' # "pending"
        BY <2>4 DEF CancelFuture
      <4>2. cancelledLate => remoteEnd # "pending"
        OBVIOUS
      <4>3. cancelledLate => cancelledLate'
        BY <2>4, <4>2 DEF CancelFuture
      <4>4. QED
        BY <3>1, <3>a, <3>3, <4>1, <4>3
    <3>4. QED
      BY <3>2, <3>3
  <2>5. CASE Send \/ Flush \/ OnWriteComplete
    BY <2>5 DEF Send, Flush, OnWriteComplete, responseVars
  <2>6. CASE \/ Activate \/ Close \/ CancelWriter \/ WriterStep \/ UNCHANGED http2Vars
             \/ \E w \in 1 .. Chunks, end \in BOOLEAN : ApplicationWrites(w, end)
    <3>1. UNCHANGED <<api, callback, remote, remoteEnd, completion, completed, cancelledLate>>
      BY <2>6 DEF Activate, Close, CancelWriter, WriterStep, StartWriter, Pull, WriteChunk, ChunkWritten, WriteEnd,
                  EndWritten, ApplicationWrites, responseVars, http2Vars
    <3>2. QED
      BY <3>1
  <2>7. QED
    BY <2>1, <2>2, <2>3, <2>4, <2>5, <2>6 DEF Http2Next, NativeStep, CallbackStep
<1>3. Reported => CompletionReported
  BY DEF Reported
<1>4. QED
  BY <1>1, <1>2, <1>3, Http2TypeCorrect, PTL DEF Http2Spec
=============================================================================
