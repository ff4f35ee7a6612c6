---------------------------- MODULE Mqtt5Proofs ----------------------------
(***************************************************************************)
(* Proofs about the MQTT 5 client: the invariants of Mqtt5Client for any   *)
(* set of operations and, from Position on, those                          *)
(* of Mqtt5Puback for any set of PUBLISH packets and of threads and any    *)
(* combination of unusual events.                                          *)
(***************************************************************************)
EXTENDS Mqtt5Client, Mqtt5Puback, FiniteSetTheorems, TLAPS

(* The arguments of a handshake exist from the call of the application's
   function on, at least until the handler is over. *)
Handling ==
    /\ tAt = "none" => ~tArgs
    /\ tAt \in {"called", "raised", "setting"} => tArgs

(* complete_fn was called for a resolved future or by the handler itself. *)
Completion ==
    ~mishap => /\ completions <= 1
               /\ tAt = "none" \/ tFuture = "pending" => completions = 0
               /\ tAt \in {"called", "raised"} => tFuture # "none"
               /\ tAt = "setting" => tFuture = "pending"

(* No handshake without a client. *)
HandshakeHasClient == binding = "none" => tAt = "none"

(* The native client is told to terminate when the application drops the
   Client, not earlier. *)
Released == held \/ binding = "none" => desired # "terminated"

(* The operation whose completion is being reported has been completed. *)
Ledger ==
    /\ \A o \in current : op[o] \in {"done", "lost"}
    /\ thread # "op" => current = {}

ClientInv ==
    /\ TypeOK
    /\ Handling
    /\ Completion
    /\ HandshakeHasClient
    /\ Released
    /\ BindingOutlivesCallbacks
    /\ OperationsSettled
    /\ Ledger

-----------------------------------------------------------------------------
(* The handshake.                                                           *)

(* The first steps of a handshake, which the native client's thread takes. *)
Starts == TransformCalled \/ TransformFails \/ TransformSkipped

(* Its later steps, of any thread. *)
GoesOn == HandlerStep \/ SetDone \/ DropArgs

(* AttemptingConnect clears the handshake of the attempt before. *)
Cleared ==
    /\ ~tArgs /\ tArgs' = tArgs
    /\ tAt' = "none" /\ tFuture' = "none" /\ completions' = 0 /\ mishap' = FALSE

(* Every step of the client is one of these for the handshake. *)
LEMMA HandshakeOf ==
  ASSUME Next
  PROVE  \/ UNCHANGED transformVars
         \/ Cleared
         \/ Starts /\ tAt = "none"
         \/ GoesOn
<1>1. CASE OnTerminate \/ ConnectionSuccess \/ ConnectionFailure \/ Stopped
  BY <1>1 DEF OnTerminate, ConnectionSuccess, ConnectionFailure, Stopped
<1>2. ASSUME Disconnection PROVE UNCHANGED transformVars
  BY <1>2 DEF Disconnection
<1>3. CASE AttemptingConnect
  BY <1>3 DEF AttemptingConnect, Cleared
<1>4. CASE \/ HandshakeTransform(TransformCalled) \/ HandshakeTransform(TransformFails)
           \/ HandshakeTransform(TransformSkipped)
  BY <1>4 DEF HandshakeTransform, Starts
<1>5. CASE EventReturns \/ OnCompleteReturns
  BY <1>5 DEF EventReturns, OnCompleteReturns
<1>6. CASE \/ TransformGoesOn(HandlerStep) \/ TransformGoesOn(SetDone)
           \/ TransformGoesOn(DropArgs)
  BY <1>6 DEF TransformGoesOn, GoesOn
<1>7. ASSUME NEW ok \in BOOLEAN, ClientNew(ok)
      PROVE  UNCHANGED transformVars
  BY <1>7 DEF ClientNew
<1>8. CASE DropClient
  BY <1>8 DEF DropClient
<1>9. ASSUME NEW d \in {"started", "stopped"}, Want(d) PROVE UNCHANGED transformVars
  BY <1>9 DEF Want
<1>10. ASSUME NEW o \in Ops, NEW a \in BOOLEAN, Call(o, a) \/ OnComplete(o, a)
       PROVE  UNCHANGED transformVars
  BY <1>10 DEF Call, OnComplete
<1>11. ASSUME NEW o \in Ops, CancelFuture(o) \/ OnUnconvertibleAck(o)
       PROVE  UNCHANGED transformVars
  BY <1>11 DEF CancelFuture, OnUnconvertibleAck
<1>12. QED
  BY <1>1, <1>2, <1>3, <1>4, <1>5, <1>6, <1>7, <1>8, <1>9, <1>10, <1>11
     DEF Next, NativeStep, Returns, Application

(* The handshake keeps its type, its arguments and its count of completions. *)
LEMMA HandshakeStep ==
  ASSUME TransformTypeOK, Handling, Completion,
         \/ UNCHANGED transformVars
         \/ Cleared
         \/ Starts /\ tAt = "none"
         \/ GoesOn
  PROVE  TransformTypeOK' /\ Handling' /\ Completion'
<1> USE DEF TransformTypeOK, Handling, Completion
<1>1. CASE UNCHANGED transformVars
  BY <1>1 DEF transformVars
<1>2. CASE Cleared
  <2>1. /\ tAt' = "none" /\ tFuture' = "none" /\ completions' = 0
        /\ tArgs' \in BOOLEAN /\ ~tArgs' /\ mishap' \in BOOLEAN
    BY <1>2, Zenon DEF Cleared
  <2>2. QED
    BY <2>1
<1>3. CASE Starts
  <2>1. CASE TransformCalled
    <3>1. /\ tAt' = "called" /\ tFuture' = "pending" /\ completions' = 0
          /\ tArgs' \in BOOLEAN /\ tArgs' /\ mishap' \in BOOLEAN
      BY <2>1, Zenon DEF TransformCalled
    <3>2. QED
      BY <3>1
  <2>2. CASE TransformFails \/ TransformSkipped
    <3>1. /\ tAt' = "over" /\ tFuture' = "none" /\ completions' = 1
          /\ tArgs' \in BOOLEAN /\ mishap' \in BOOLEAN
      BY <2>2, Zenon DEF TransformFails, TransformSkipped
    <3>2. QED
      BY <3>1
  <2>3. QED
    BY <1>3, <2>1, <2>2 DEF Starts
<1>4. CASE SetDone
  <2>1. mishap' \in BOOLEAN /\ (~mishap' => ~mishap /\ tAt # "setting")
    BY <1>4, Zenon DEF SetDone
  <2>2. tArgs /\ tArgs' = tArgs
    BY <1>4, Zenon DEF SetDone
  <2>3. tAt' = tAt /\ tFuture = "pending" /\ tFuture' = "done" /\ completions' = completions + 1
    BY <1>4 DEF SetDone
  <2>4. QED
    BY <2>1, <2>2, <2>3
<1>5. CASE TransformReturns
  BY <1>5 DEF TransformReturns
<1>6. CASE TransformRaises
  BY <1>6 DEF TransformRaises
<1>7. CASE CheckDone
  BY <1>7 DEF CheckDone, TestDone
<1>8. CASE SetDoneAfterRaise
  BY <1>8 DEF SetDoneAfterRaise
<1>9. CASE RaisesBaseException
  BY <1>9 DEF RaisesBaseException
<1>10. CASE DropArgs
  BY <1>10 DEF DropArgs
<1>11. QED
  BY <1>1, <1>2, <1>3, <1>4, <1>5, <1>6, <1>7, <1>8, <1>9, <1>10 DEF GoesOn, HandlerStep

-----------------------------------------------------------------------------
(* The binding and the core.                                                *)

NativeLives == native \notin {"none", "terminated"}

(* The handshake's data is held exactly as long as its arguments. *)
LEMMA DataIsArgs == Handling => (DataHeld <=> tArgs)
  BY DEF Handling, DataHeld

(* A step that creates and releases nothing, while the client lives. *)
LEMMA QuietStep ==
  ASSUME BindingOutlivesCallbacks, HandshakeHasClient,
         binding' = binding, coreRefs' = coreRefs, held' = held,
         DataHeld' <=> DataHeld,
         NativeLives, NativeLives'
  PROVE  BindingOutlivesCallbacks' /\ HandshakeHasClient'
<1>1. binding = "live" /\ binding' = "live"
  BY DEF BindingOutlivesCallbacks, NativeLives
<1>2. HandshakeHasClient'
  BY <1>1 DEF HandshakeHasClient
<1>3. coreRefs' = (IF binding' = "live" THEN 1 ELSE 0) + (IF DataHeld' THEN 1 ELSE 0)
  BY DEF BindingOutlivesCallbacks
<1>4. QED
  BY <1>1, <1>2, <1>3 DEF BindingOutlivesCallbacks, NativeLives

(* Nor does a step that only concerns the operations. *)
LEMMA SameLife ==
  ASSUME BindingOutlivesCallbacks, HandshakeHasClient,
         UNCHANGED <<binding, coreRefs, held, thread, native, transformVars>>
  PROVE  BindingOutlivesCallbacks' /\ HandshakeHasClient'
  BY DEF BindingOutlivesCallbacks, HandshakeHasClient, DataHeld, transformVars

(* The binding lives as long as the native client, and the core as long as
   the binding or the handshake's data. *)
LEMMA LifeStep ==
  ASSUME ClientInv, Next
  PROVE  BindingOutlivesCallbacks' /\ HandshakeHasClient'
<1>0. /\ BindingOutlivesCallbacks /\ HandshakeHasClient /\ Handling
      /\ TransformTypeOK /\ coreRefs \in Nat
  BY DEF ClientInv, TypeOK
<1>a. DataHeld <=> tArgs
  BY <1>0, DataIsArgs
<1>h. Handling'
  BY HandshakeStep, HandshakeOf DEF ClientInv, TypeOK
<1>b. DataHeld' <=> tArgs'
  BY <1>h DEF Handling, DataHeld
<1>1. CASE OnTerminate
  <2>1. binding = "live" /\ thread = "idle"
    BY <1>0, <1>1 DEF OnTerminate, BindingOutlivesCallbacks, Idle
  <2>2. ~held
    BY <1>1 DEF ClientInv, Released, OnTerminate
  <2>3. coreRefs' = IF DataHeld' THEN 1 ELSE 0
    BY <1>0, <1>1, <2>1 DEF OnTerminate, DropCore, BindingOutlivesCallbacks, DataHeld, transformVars
  <2>4. QED
    BY <1>1, <2>1, <2>2, <2>3 DEF OnTerminate, BindingOutlivesCallbacks, HandshakeHasClient
<1>2. CASE ConnectionSuccess \/ ConnectionFailure \/ Stopped
  <2>1. NativeLives /\ NativeLives'
    BY <1>2 DEF ConnectionSuccess, ConnectionFailure, Stopped, NativeLives
  <2>2. DataHeld' <=> DataHeld
    BY <1>2 DEF ConnectionSuccess, ConnectionFailure, Stopped, DataHeld, transformVars
  <2>3. binding' = binding /\ coreRefs' = coreRefs /\ held' = held
    BY <1>2 DEF ConnectionSuccess, ConnectionFailure, Stopped
  <2>4. QED
    BY <1>0, <2>1, <2>2, <2>3, QuietStep
<1>3. ASSUME Disconnection
      PROVE  BindingOutlivesCallbacks' /\ HandshakeHasClient'
  <2>1. NativeLives /\ NativeLives'
    BY <1>3 DEF Disconnection, NativeLives
  <2>2. DataHeld' <=> DataHeld
    BY <1>3 DEF Disconnection, DataHeld, transformVars
  <2>3. binding' = binding /\ coreRefs' = coreRefs /\ held' = held
    BY <1>3 DEF Disconnection
  <2>4. QED
    BY <1>0, <2>1, <2>2, <2>3, QuietStep
<1>4. CASE AttemptingConnect
  <2>1. NativeLives /\ NativeLives'
    BY <1>4 DEF AttemptingConnect, NativeLives
  <2>2. tArgs' <=> tArgs
    BY <1>4 DEF AttemptingConnect
  <2>3. binding' = binding /\ coreRefs' = coreRefs /\ held' = held
    BY <1>4 DEF AttemptingConnect
  <2>4. QED
    BY <1>0, <1>a, <1>b, <2>1, <2>2, <2>3, QuietStep
<1>5. ASSUME tAt = "none",
             /\ native = "connecting"
             /\ coreRefs' = IF tArgs' THEN coreRefs + 1 ELSE coreRefs
             /\ UNCHANGED <<binding, held, thread, native>>
      PROVE  BindingOutlivesCallbacks' /\ HandshakeHasClient'
  <2>1. binding = "live" /\ ~tArgs
    BY <1>0, <1>5 DEF BindingOutlivesCallbacks, Handling
  <2>2. coreRefs = 1
    BY <1>0, <1>a, <2>1 DEF BindingOutlivesCallbacks
  <2>3. coreRefs' = 1 + (IF DataHeld' THEN 1 ELSE 0)
    BY <1>5, <1>b, <2>2
  <2>4. QED
    BY <1>0, <1>5, <2>1, <2>3 DEF BindingOutlivesCallbacks, HandshakeHasClient
<1>6. CASE \/ HandshakeTransform(TransformCalled) \/ HandshakeTransform(TransformFails)
           \/ HandshakeTransform(TransformSkipped)
  BY <1>5, <1>6 DEF HandshakeTransform
<1>7. CASE \/ TransformGoesOn(HandlerStep) \/ TransformGoesOn(SetDone)
           \/ TransformGoesOn(DropArgs)
  <2>1. /\ GoesOn
        /\ coreRefs' = IF DataHeld /\ ~DataHeld' THEN coreRefs - 1 ELSE coreRefs
        /\ UNCHANGED <<binding, held, thread, native>>
    BY <1>7 DEF TransformGoesOn, GoesOn
  <2>2. tAt # "none" /\ (tArgs' => tArgs)
    BY <1>0, <2>1 DEF GoesOn, HandlerStep, SetDone, TransformReturns, TransformRaises,
       CheckDone, SetDoneAfterRaise, RaisesBaseException, DropArgs, Handling
  <2>3. binding # "none"
    BY <1>0, <2>2 DEF HandshakeHasClient
  <2>4. coreRefs' = (IF binding = "live" THEN 1 ELSE 0) + (IF DataHeld' THEN 1 ELSE 0)
    BY <1>0, <1>a, <1>b, <2>1, <2>2 DEF BindingOutlivesCallbacks
  <2>5. QED
    BY <1>0, <2>1, <2>3, <2>4 DEF BindingOutlivesCallbacks, HandshakeHasClient
<1>8. CASE EventReturns \/ OnCompleteReturns
  <2>1. thread # "idle" /\ thread' = "idle"
    BY <1>8 DEF EventReturns, OnCompleteReturns
  <2>2. UNCHANGED <<binding, coreRefs, held, native, transformVars>>
    BY <1>8 DEF EventReturns, OnCompleteReturns
  <2>3. NativeLives /\ NativeLives'
    BY <1>0, <2>1, <2>2 DEF BindingOutlivesCallbacks, NativeLives
  <2>4. DataHeld' <=> DataHeld
    BY <2>2 DEF DataHeld, transformVars
  <2>5. QED
    BY <1>0, <2>2, <2>3, <2>4, QuietStep
<1>9. ASSUME NEW ok \in BOOLEAN, ClientNew(ok)
      PROVE  BindingOutlivesCallbacks' /\ HandshakeHasClient'
  <2>1. binding = "none" /\ tAt = "none" /\ ~tArgs /\ ~tArgs'
    BY <1>0, <1>9 DEF ClientNew, HandshakeHasClient, Handling, transformVars
  <2>2. coreRefs = 0 /\ thread = "idle" /\ ~held /\ thread' = "idle"
    BY <1>0, <1>9, <1>a, <2>1 DEF BindingOutlivesCallbacks, ClientNew
  <2>3. CASE ok
    BY <1>9, <1>b, <2>1, <2>2, <2>3 DEF ClientNew, BindingOutlivesCallbacks, HandshakeHasClient
  <2>4. CASE ~ok
    BY <1>9, <1>b, <2>1, <2>2, <2>4 DEF ClientNew, BindingOutlivesCallbacks, HandshakeHasClient
  <2>5. QED
    BY <2>3, <2>4
<1>10. CASE DropClient
  <2>1. NativeLives /\ UNCHANGED <<binding, coreRefs, thread, native, transformVars>> /\ ~held'
    BY <1>0, <1>10 DEF DropClient, BindingOutlivesCallbacks, NativeLives
  <2>2. QED
    BY <1>0, <2>1 DEF BindingOutlivesCallbacks, HandshakeHasClient, DataHeld, transformVars
<1>11. ASSUME NEW d \in {"started", "stopped"}, Want(d)
       PROVE  BindingOutlivesCallbacks' /\ HandshakeHasClient'
  BY <1>0, <1>11, SameLife DEF Want
<1>12. ASSUME NEW o \in Ops, (\E a \in BOOLEAN : Call(o, a)) \/ CancelFuture(o)
       PROVE  BindingOutlivesCallbacks' /\ HandshakeHasClient'
  BY <1>0, <1>12, SameLife DEF Call, CancelFuture
<1>13. ASSUME NEW o \in Ops, (\E ok \in BOOLEAN : OnComplete(o, ok)) \/ OnUnconvertibleAck(o)
       PROVE  BindingOutlivesCallbacks' /\ HandshakeHasClient'
  <2>1. NativeLives /\ UNCHANGED <<binding, coreRefs, held, native, transformVars>>
    BY <1>13 DEF OnComplete, OnUnconvertibleAck, NativeLives
  <2>2. NativeLives' /\ (DataHeld' <=> DataHeld)
    BY <2>1 DEF NativeLives, DataHeld, transformVars
  <2>3. QED
    BY <1>0, <2>1, <2>2, QuietStep
<1>14. QED
  BY <1>1, <1>2, <1>3, <1>4, <1>6, <1>7, <1>8, <1>9, <1>10, <1>11, <1>12, <1>13
     DEF Next, NativeStep, Returns, Application

(* Only dropping the Client tells the native client to terminate. *)
LEMMA ReleasedStep ==
  ASSUME ClientInv, Next
  PROVE  Released'
<1>0. Released /\ BindingOutlivesCallbacks
  BY DEF ClientInv
<1>1. CASE UNCHANGED <<binding, held, desired>>
  BY <1>0, <1>1 DEF Released
<1>2. CASE OnTerminate
  BY <1>0, <1>2 DEF OnTerminate, Released
<1>3. ASSUME NEW ok \in BOOLEAN, ClientNew(ok)
      PROVE  Released'
  BY <1>0, <1>3 DEF ClientNew, Released
<1>4. CASE DropClient
  BY <1>0, <1>4 DEF DropClient, Released, BindingOutlivesCallbacks
<1>5. ASSUME NEW d \in {"started", "stopped"}, Want(d) PROVE Released'
  BY <1>0, <1>5 DEF Want, Released
<1>6. CASE ConnectionSuccess \/ ConnectionFailure \/ Stopped \/ AttemptingConnect
  BY <1>1, <1>6 DEF ConnectionSuccess, ConnectionFailure, Stopped, AttemptingConnect
<1>7. ASSUME Disconnection PROVE Released'
  BY <1>1, <1>7 DEF Disconnection
<1>8. CASE \/ HandshakeTransform(TransformCalled) \/ HandshakeTransform(TransformFails)
           \/ HandshakeTransform(TransformSkipped)
  BY <1>1, <1>8 DEF HandshakeTransform
<1>9. CASE \/ TransformGoesOn(HandlerStep) \/ TransformGoesOn(SetDone)
           \/ TransformGoesOn(DropArgs)
  BY <1>1, <1>9 DEF TransformGoesOn
<1>10. CASE EventReturns \/ OnCompleteReturns
  BY <1>1, <1>10 DEF EventReturns, OnCompleteReturns
<1>11. ASSUME NEW o \in Ops, NEW a \in BOOLEAN, Call(o, a) \/ OnComplete(o, a)
       PROVE  Released'
  BY <1>1, <1>11 DEF Call, OnComplete
<1>12. ASSUME NEW o \in Ops, CancelFuture(o) \/ OnUnconvertibleAck(o) PROVE Released'
  BY <1>1, <1>12 DEF CancelFuture, OnUnconvertibleAck
<1>13. QED
  BY <1>2, <1>3, <1>4, <1>5, <1>6, <1>7, <1>8, <1>9, <1>10, <1>11, <1>12
     DEF Next, NativeStep, Returns, Application

-----------------------------------------------------------------------------
(* The operations.                                                          *)

OpState == {"no", "raised", "pending", "done", "lost"}
FutureState == {"pending", "result", "exception", "cancelled"}
OpTypes ==
    /\ op \in [Ops -> OpState] /\ future \in [Ops -> FutureState]
    /\ meta \subseteq Ops /\ current \subseteq Ops

(* Every step but these leaves the operations alone, and the event-loop
   thread out of their completion. *)
LEMMA OpsOf ==
  ASSUME Next, thread # "op" => current = {}
  PROVE  \/ UNCHANGED opVars /\ (thread' # "op" => current = {})
         \/ OnCompleteReturns
         \/ \E o \in Ops : \/ \E a \in BOOLEAN : Call(o, a) \/ OnComplete(o, a)
                          \/ CancelFuture(o) \/ OnUnconvertibleAck(o)
<1>1. CASE OnTerminate \/ ConnectionSuccess \/ ConnectionFailure \/ Stopped \/ AttemptingConnect
  BY <1>1 DEF OnTerminate, ConnectionSuccess, ConnectionFailure, Stopped, AttemptingConnect, Idle
<1>2. ASSUME Disconnection
      PROVE  UNCHANGED opVars /\ (thread' # "op" => current = {})
  BY <1>2 DEF Disconnection, Idle
<1>3. CASE \/ HandshakeTransform(TransformCalled) \/ HandshakeTransform(TransformFails)
           \/ HandshakeTransform(TransformSkipped)
  BY <1>3 DEF HandshakeTransform
<1>4. CASE \/ TransformGoesOn(HandlerStep) \/ TransformGoesOn(SetDone)
           \/ TransformGoesOn(DropArgs)
  BY <1>4 DEF TransformGoesOn
<1>5. CASE EventReturns
  BY <1>5 DEF EventReturns
<1>6. ASSUME NEW ok \in BOOLEAN, ClientNew(ok)
      PROVE  UNCHANGED opVars /\ (thread' # "op" => current = {})
  BY <1>6 DEF ClientNew
<1>7. CASE DropClient
  BY <1>7 DEF DropClient
<1>8. ASSUME NEW d \in {"started", "stopped"}, Want(d)
      PROVE  UNCHANGED opVars /\ (thread' # "op" => current = {})
  BY <1>8 DEF Want
<1>9. QED
  BY <1>1, <1>2, <1>3, <1>4, <1>5, <1>6, <1>7, <1>8 DEF Next, NativeStep, Returns, Application

(* The userdata goes with the pending operations, and each future is settled
   by the completion of its own operation. *)
LEMMA OpsStep ==
  ASSUME OpTypes, OperationsSettled, Ledger, Next
  PROVE  OpTypes' /\ OperationsSettled' /\ Ledger'
<1>0. thread # "op" => current = {}
  BY DEF Ledger
<1>1. CASE UNCHANGED opVars /\ (thread' # "op" => current = {})
  BY <1>1 DEF opVars, OpTypes, OperationsSettled, Ledger, Pending
<1>2. CASE OnCompleteReturns
  <2>1. UNCHANGED <<op, future>> /\ thread' = "idle" /\ current' = {} /\ meta' = meta \ current
    BY <1>2 DEF OnCompleteReturns
  <2>2. meta' = Pending /\ Pending' = Pending
    BY <2>1 DEF OperationsSettled, Ledger, Pending
  <2>3. QED
    BY <2>1, <2>2 DEF OpTypes, OperationsSettled, Ledger
<1>3. ASSUME NEW o \in Ops, NEW a \in BOOLEAN, Call(o, a)
      PROVE  OpTypes' /\ OperationsSettled' /\ Ledger'
  <2>1. /\ op[o] = "no" /\ op' = [op EXCEPT ![o] = IF a THEN "pending" ELSE "raised"]
        /\ UNCHANGED <<future, current, thread>>
        /\ meta' = IF a THEN meta \union {o} ELSE meta
    BY <1>3 DEF Call, MetaAfterCall
  <2>2. Pending' = IF a THEN Pending \union {o} ELSE Pending
    BY <2>1 DEF OpTypes, Pending
  <2>3. OpTypes'
    BY <2>1 DEF OpTypes, OpState
  <2>4. meta' = Pending' \union current'
    BY <2>1, <2>2 DEF OperationsSettled
  <2>5. \A p \in Ops : (op'[p] = "done" <=> op[p] = "done") /\ future'[p] = future[p]
    BY <2>1 DEF OpTypes
  <2>6. o \notin current
    BY <2>1 DEF Ledger
  <2>7. QED
    BY <2>1, <2>2, <2>3, <2>4, <2>5, <2>6 DEF OperationsSettled, Ledger, OpTypes
<1>4. ASSUME NEW o \in Ops, NEW ok \in BOOLEAN, OnComplete(o, ok)
      PROVE  OpTypes' /\ OperationsSettled' /\ Ledger'
  <2>1. /\ op[o] = "pending" /\ thread = "idle" /\ thread' = "op" /\ current' = {o}
        /\ op' = [op EXCEPT ![o] = "done"] /\ meta' = meta
    BY <1>4 DEF OnComplete, Idle
  <2>2. PICK f \in {"result", "exception"} :
          future' = [future EXCEPT ![o] = IF future[o] = "pending" THEN f ELSE future[o]]
    BY <1>4 DEF OnComplete, Settle
  <2>3. Pending = Pending' \union {o} /\ current = {}
    BY <2>1 DEF OpTypes, Pending, Ledger
  <2>4. OpTypes'
    BY <2>1, <2>2 DEF OpTypes, OpState, FutureState
  <2>5. meta' = Pending' \union current'
    BY <2>1, <2>3 DEF OperationsSettled
  <2>6. \A p \in Ops : /\ op'[p] = "done" => future'[p] # "pending"
                       /\ op'[p] # "done" => future'[p] \in {"pending", "cancelled"}
    BY <2>1, <2>2 DEF OperationsSettled, OpTypes
  <2>7. Ledger'
    BY <2>1 DEF Ledger, OpTypes
  <2>8. QED
    BY <2>4, <2>5, <2>6, <2>7 DEF OperationsSettled
<1>5. ASSUME NEW o \in Ops, OnUnconvertibleAck(o)
      PROVE  OpTypes' /\ OperationsSettled' /\ Ledger'
  <2>1. /\ op[o] = "pending" /\ thread = "idle" /\ thread' = "op" /\ current' = {o}
        /\ op' = [op EXCEPT ![o] = "lost"] /\ meta' = meta /\ future' = future
    BY <1>5 DEF OnUnconvertibleAck, Idle
  <2>2. Pending = Pending' \union {o} /\ current = {}
    BY <2>1 DEF OpTypes, Pending, Ledger
  <2>3. OpTypes'
    BY <2>1 DEF OpTypes, OpState
  <2>4. meta' = Pending' \union current'
    BY <2>1, <2>2 DEF OperationsSettled
  <2>5. \A p \in Ops : /\ op'[p] = "done" => future'[p] # "pending"
                       /\ op'[p] # "done" => future'[p] \in {"pending", "cancelled"}
    BY <2>1 DEF OperationsSettled, OpTypes
  <2>6. Ledger'
    BY <2>1 DEF Ledger, OpTypes
  <2>7. QED
    BY <2>3, <2>4, <2>5, <2>6 DEF OperationsSettled
<1>6. ASSUME NEW o \in Ops, CancelFuture(o)
      PROVE  OpTypes' /\ OperationsSettled' /\ Ledger'
  <2>1. /\ future[o] = "pending" /\ future' = [future EXCEPT ![o] = "cancelled"]
        /\ UNCHANGED <<op, meta, current, thread>>
    BY <1>6 DEF CancelFuture
  <2>2. OpTypes'
    BY <2>1 DEF OpTypes, FutureState
  <2>3. meta' = Pending' \union current' /\ Ledger'
    BY <2>1 DEF OperationsSettled, Pending, Ledger
  <2>4. \A p \in Ops : /\ op'[p] = "done" => future'[p] # "pending"
                       /\ op'[p] # "done" => future'[p] \in {"pending", "cancelled"}
    BY <2>1 DEF OperationsSettled, OpTypes
  <2>5. QED
    BY <2>2, <2>3, <2>4 DEF OperationsSettled
<1>7. QED
  BY <1>0, <1>1, <1>2, <1>3, <1>4, <1>5, <1>6, OpsOf

-----------------------------------------------------------------------------
(* Types, and the theorems.                                                 *)

PlainTypes ==
    /\ binding \in {"none", "live", "freed"}
    /\ capsule \in {"none", "live", "dead"}
    /\ held \in BOOLEAN
    /\ thread \in {"idle", "event", "op"}
    /\ native \in {"none", "stopped", "connecting", "connected", "waiting", "terminated"}
    /\ desired \in {"stopped", "started", "terminated"}

(* The variables that are only set to constants. *)
LEMMA PlainTypeStep ==
  ASSUME PlainTypes, Next
  PROVE  PlainTypes'
<1> USE DEF PlainTypes
<1>1. CASE OnTerminate \/ ConnectionSuccess \/ ConnectionFailure \/ Stopped \/ AttemptingConnect
  BY <1>1 DEF OnTerminate, ConnectionSuccess, ConnectionFailure, Stopped, AttemptingConnect
<1>2. ASSUME Disconnection PROVE PlainTypes'
  BY <1>2 DEF Disconnection
<1>3. CASE \/ HandshakeTransform(TransformCalled) \/ HandshakeTransform(TransformFails)
           \/ HandshakeTransform(TransformSkipped)
  BY <1>3 DEF HandshakeTransform
<1>4. CASE \/ TransformGoesOn(HandlerStep) \/ TransformGoesOn(SetDone)
           \/ TransformGoesOn(DropArgs)
  BY <1>4 DEF TransformGoesOn
<1>5. CASE EventReturns \/ OnCompleteReturns
  BY <1>5 DEF EventReturns, OnCompleteReturns
<1>6. ASSUME NEW ok \in BOOLEAN, ClientNew(ok)
      PROVE  PlainTypes'
  BY <1>6 DEF ClientNew
<1>7. CASE DropClient
  BY <1>7 DEF DropClient, ReleaseNative
<1>8. ASSUME NEW d \in {"started", "stopped"}, Want(d) PROVE PlainTypes'
  BY <1>8 DEF Want
<1>9. ASSUME NEW o \in Ops, NEW a \in BOOLEAN, Call(o, a) \/ OnComplete(o, a) PROVE PlainTypes'
  BY <1>9 DEF Call, OnComplete
<1>10. ASSUME NEW o \in Ops, CancelFuture(o) \/ OnUnconvertibleAck(o) PROVE PlainTypes'
  BY <1>10 DEF CancelFuture, OnUnconvertibleAck
<1>11. QED
  BY <1>1, <1>2, <1>3, <1>4, <1>5, <1>6, <1>7, <1>8, <1>9, <1>10
     DEF Next, NativeStep, Returns, Application

(* TypeOK by parts. *)
LEMMA TypeParts ==
  TypeOK <=> /\ TransformTypeOK /\ PlainTypes /\ OpTypes
             /\ coreRefs \in Nat
  BY DEF TypeOK, PlainTypes, OpTypes, OpState, FutureState

(* The inductive invariant holds in every state of every behaviour. *)
LEMMA Invariance == Spec => []ClientInv
<1>1. Init => ClientInv
  <2>1. SUFFICES ASSUME Init PROVE ClientInv
    OBVIOUS
  <2>a. ~tArgs /\ tArgs \in BOOLEAN /\ mishap \in BOOLEAN /\ ~held /\ held \in BOOLEAN
    BY <2>1, Zenon DEF Init, TransformInit
  <2>2. TransformTypeOK /\ Handling /\ Completion
    BY <2>1, <2>a DEF Init, TransformInit, TransformTypeOK, Handling, Completion
  <2>3. PlainTypes /\ coreRefs \in Nat /\ HandshakeHasClient /\ Released
    BY <2>1, <2>a DEF Init, TransformInit, PlainTypes, HandshakeHasClient, Released
  <2>4. OpTypes /\ OperationsSettled /\ Ledger
    BY <2>1 DEF Init, OpTypes, OpState, FutureState, OperationsSettled, Ledger, Pending
  <2>5. BindingOutlivesCallbacks
    BY <2>1, <2>a DEF Init, TransformInit, BindingOutlivesCallbacks, DataHeld
  <2>6. QED
    BY <2>2, <2>3, <2>4, <2>5, TypeParts DEF ClientInv
<1>2. ClientInv /\ [Next]_vars => ClientInv'
  <2>1. CASE UNCHANGED vars
    BY <2>1 DEF vars, ClientInv, TypeOK, TransformTypeOK, Handling, Completion,
       HandshakeHasClient, Released, BindingOutlivesCallbacks, DataHeld, OperationsSettled,
       Pending, Ledger
  <2>2. ASSUME ClientInv, Next PROVE ClientInv'
    <3>1. TransformTypeOK' /\ Handling' /\ Completion'
      BY <2>2, HandshakeOf, HandshakeStep DEF ClientInv, TypeOK
    <3>2. OpTypes' /\ OperationsSettled' /\ Ledger'
      BY <2>2, OpsStep, TypeParts DEF ClientInv
    <3>3. PlainTypes'
      BY <2>2, PlainTypeStep, TypeParts DEF ClientInv
    <3>4. BindingOutlivesCallbacks' /\ HandshakeHasClient' /\ Released'
      BY <2>2, LifeStep, ReleasedStep
    <3>5. coreRefs' \in Nat
      BY <3>4 DEF BindingOutlivesCallbacks
    <3>6. TypeOK'
      BY <3>1, <3>2, <3>3, <3>5
         DEF TypeOK, PlainTypes, OpTypes, OpState, FutureState
    <3>7. QED
      BY <3>1, <3>2, <3>4, <3>6 DEF ClientInv
  <2>3. QED
    BY <2>1, <2>2
<1>3. QED
  BY <1>1, <1>2, PTL DEF Spec

(* The client keeps its types: in particular the references C has to the core
   are never given back twice. *)
THEOREM TypeCorrect == Spec => []TypeOK
<1>1. ClientInv => TypeOK
  BY DEF ClientInv
<1>2. QED
  BY <1>1, Invariance, PTL

(* mqtt5_client_binding and _ClientCore exist exactly as long as a callback or
   the application may use them, whatever the application does with the Client
   and with the arguments of a handshake. *)
THEOREM BindingLifetime == Spec => []BindingOutlivesCallbacks
<1>1. ClientInv => BindingOutlivesCallbacks
  BY DEF ClientInv
<1>2. QED
  BY <1>1, Invariance, PTL

(* The userdata of publish, subscribe and unsubscribe is neither leaked nor
   freed early, and a completion settles its future. *)
THEOREM OperationsAreSettled == Spec => []OperationsSettled
<1>1. ClientInv => OperationsSettled
  BY DEF ClientInv
<1>2. QED
  BY <1>1, Invariance, PTL

(* complete_fn is called at most once per handshake, but for a function that
   raises while set_done() is called, or raises no Exception. *)
THEOREM TransformIsCompletedOnce == Spec => []TransformCompletedOnce
<1>1. ClientInv => TransformCompletedOnce
  BY DEF ClientInv, TypeOK, TransformTypeOK, Completion, TransformCompletedOnce
<1>2. QED
  BY <1>1, Invariance, PTL

(* What is left of a client that was freed: no step of the native client and no
   call of the application can be taken, and a handshake goes on without it. *)
LEMMA FreedStep ==
  ASSUME ClientInv, [Next]_vars
  PROVE  AfterTermination
<1> SUFFICES ASSUME binding = "freed"
             PROVE  /\ binding' = "freed" /\ thread' = "idle"
                    /\ UNCHANGED <<op, meta, native>> /\ coreRefs' <= coreRefs
  BY DEF AfterTermination
<1>1. native \in {"none", "terminated"} /\ thread = "idle" /\ ~held /\ coreRefs \in Nat
  BY DEF ClientInv, BindingOutlivesCallbacks, TypeOK
<1> DEFINE Goal == /\ binding' = "freed" /\ thread' = "idle"
                   /\ UNCHANGED <<op, meta, native>> /\ coreRefs' <= coreRefs
<1> USE DEF opVars
<1>2. ~NativeStep \/ Goal
  <2>1. ~OnTerminate /\ ~ConnectionSuccess /\ ~ConnectionFailure /\ ~Stopped /\ ~AttemptingConnect
    BY <1>1 DEF OnTerminate, ConnectionSuccess, ConnectionFailure, Stopped, AttemptingConnect
  <2>2. ~Disconnection
    BY <1>1 DEF Disconnection
  <2>3. ~HandshakeTransform(TransformCalled) /\ ~HandshakeTransform(TransformFails) /\ ~HandshakeTransform(TransformSkipped)
    BY <1>1 DEF HandshakeTransform
  <2>4. QED
    BY <2>1, <2>2, <2>3 DEF NativeStep
<1>3. ASSUME TransformGoesOn(HandlerStep) \/ TransformGoesOn(SetDone) \/ TransformGoesOn(DropArgs) PROVE Goal
  <2>1. UNCHANGED <<binding, thread, native, op, meta>>
    BY <1>3 DEF TransformGoesOn
  <2>2. coreRefs' = coreRefs \/ coreRefs' = coreRefs - 1
    BY <1>3 DEF TransformGoesOn
  <2>3. QED
    BY <1>1, <2>1, <2>2
<1>4. ~EventReturns /\ ~OnCompleteReturns
  BY <1>1 DEF EventReturns, OnCompleteReturns
<1>5. ASSUME NEW ok \in BOOLEAN PROVE ~ClientNew(ok)
  BY DEF ClientNew
<1>6. ~DropClient /\ \A d \in {"started", "stopped"} : ~Want(d)
  BY <1>1 DEF DropClient, Want
<1>7. ASSUME NEW o \in Ops, NEW a \in BOOLEAN PROVE ~Call(o, a) /\ ~OnComplete(o, a) /\ ~OnUnconvertibleAck(o)
  BY <1>1 DEF Call, OnComplete, OnUnconvertibleAck
<1>8. ASSUME NEW o \in Ops, CancelFuture(o) PROVE Goal
  BY <1>1, <1>8 DEF CancelFuture
<1>9. CASE UNCHANGED vars
  BY <1>1, <1>9 DEF vars
<1>10. QED
  BY <1>2, <1>3, <1>4, <1>5, <1>6, <1>7, <1>8, <1>9 DEF Next, Returns, Application

(* After s_mqtt5_client_on_terminate the binding stays freed, no lifecycle event
   and no completion is reported and no call accepted; a handshake that the
   application still has only gives back its reference to the core. *)
THEOREM NothingAfterTermination == Spec => TerminationIsLast
<1>1. ClientInv /\ [Next]_vars => [AfterTermination]_vars
  BY FreedStep
<1>2. QED
  BY <1>1, Invariance, PTL DEF Spec, TerminationIsLast

-----------------------------------------------------------------------------
(* Control of the PUBACK.                                                    *)

USE EventsAssumption, NoneAssumption

(* The event-loop thread handles one PUBLISH at a time. *)
Position ==
    /\ at = "idle" <=> handled = None
    /\ \A p \in Publishes : state[p] = "handling" <=> p = handled

(* Nothing is known of a PUBLISH before it is received. *)
Fresh(p) ==
    state[p] = "new" =>
        /\ control[p] = "none" /\ handles[p] = 0
        /\ ~active[p]
        /\ \A t \in Threads : acquire[t] # p

(* The variables of the closure. *)
Closure(p) ==
    /\ taken[p] <=> handles[p] > 0
    /\ invoked[p] => handles[p] > 0
    /\ active[p] => (p = handled /\ at = "user") \/ "raise" \in mishaps[p]
    /\ p = handled /\ at = "finish" /\ result = "taken" => handles[p] > 0

(* A PUBLISH whose callback returns and whose closure no other thread calls
   while it runs: the PUBACK is held while a handle may come or has come and is
   not used, and the binding acknowledges only when there is no handle. *)
Undisturbed(p) ==
    mishaps[p] \subseteq {"conversion"} =>
        /\ \A t \in Threads : acquire[t] # p
        /\ handles[p] <= 1
        /\ handles[p] > 0 /\ ~invoked[p] => control[p] = "held"
        /\ p = handled /\ Controlled(p) => control[p] = "held" \/ invoked[p]
        /\ p = handled /\ at = "convert" => handles[p] = 0
        /\ p = handled /\ at = "finish" /\ AutoAcknowledges => handles[p] = 0

NotLost(p) == state[p] = "over" /\ "conversion" \notin mishaps[p] => Decided(p)

Sound(p) == Fresh(p) /\ Closure(p) /\ Undisturbed(p) /\ NotLost(p)

PubackInv ==
    /\ PubackTypeOK
    /\ Position
    /\ \A p \in Publishes : Sound(p)

-----------------------------------------------------------------------------
(* Each step preserves the invariant.                                        *)

(* A PUBLISH arrives: for QoS 1 the control is taken before anything else. *)
LEMMA Received ==
  ASSUME PubackInv, NEW q \in Publishes, NEW qos \in {0, 1}, OnPublishReceived(q, qos)
  PROVE  PubackInv'
<1> USE DEF PubackInv, PubackTypeOK, Position, closureVars, OnPublishReceived
<1>1. PubackTypeOK'
  BY DEF Event
<1>2. Position'
  OBVIOUS
<1>3. ASSUME NEW p \in Publishes PROVE Fresh(p)'
  BY <1>3 DEF Sound, Fresh, Controlled
<1>4. ASSUME NEW p \in Publishes PROVE Closure(p)'
  BY <1>4 DEF Sound, Fresh, Closure
<1>5. ASSUME NEW p \in Publishes PROVE Undisturbed(p)'
  BY <1>5 DEF Sound, Fresh, Closure, Undisturbed, Controlled, AutoAcknowledges
<1>6. ASSUME NEW p \in Publishes PROVE NotLost(p)'
  BY <1>6 DEF Sound, Fresh, Closure, NotLost, Decided, Controlled,
      AutoAcknowledges
<1>7. QED
  BY <1>1, <1>2, <1>3, <1>4, <1>5, <1>6 DEF Sound

(* The PUBLISH cannot be converted; its closure was never made. *)
LEMMA ConversionFailing ==
  ASSUME PubackInv, ConversionFails
  PROVE  PubackInv'
<1> USE DEF PubackInv, PubackTypeOK, Position, closureVars, ConversionFails,
    Befalls
<1>1. PubackTypeOK'
  BY DEF Event
<1>2. Position'
  OBVIOUS
<1>3. ASSUME NEW p \in Publishes PROVE Fresh(p)'
  BY <1>3 DEF Sound, Fresh, Controlled
<1>4. ASSUME NEW p \in Publishes PROVE Closure(p)'
  BY <1>4 DEF Sound, Fresh, Closure
<1>5. ASSUME NEW p \in Publishes PROVE Undisturbed(p)'
  BY <1>5 DEF Sound, Fresh, Closure, Undisturbed, Controlled, AutoAcknowledges
<1>6. ASSUME NEW p \in Publishes PROVE NotLost(p)'
  BY <1>6 DEF Sound, Fresh, Closure, NotLost, Decided, Controlled,
      AutoAcknowledges
<1>7. QED
  BY <1>1, <1>2, <1>3, <1>4, <1>5, <1>6 DEF Sound

(* _on_publish fails before the application is called. *)
LEMMA CallFailing ==
  ASSUME PubackInv, CallFails
  PROVE  PubackInv'
<1> USE DEF PubackInv, PubackTypeOK, Position, closureVars, CallFails
<1>1. PubackTypeOK'
  BY DEF Event
<1>2. Position'
  OBVIOUS
<1>3. ASSUME NEW p \in Publishes PROVE Fresh(p)'
  BY <1>3 DEF Sound, Fresh, Controlled
<1>4. ASSUME NEW p \in Publishes PROVE Closure(p)'
  BY <1>4 DEF Sound, Fresh, Closure
<1>5. ASSUME NEW p \in Publishes PROVE Undisturbed(p)'
  BY <1>5 DEF Sound, Fresh, Closure, Undisturbed, Controlled, AutoAcknowledges
<1>6. ASSUME NEW p \in Publishes PROVE NotLost(p)'
  BY <1>6 DEF Sound, Fresh, Closure, NotLost, Decided, Controlled,
      AutoAcknowledges
<1>7. QED
  BY <1>1, <1>2, <1>3, <1>4, <1>5, <1>6 DEF Sound

(* There is no callback. *)
LEMMA NoCallbackStep ==
  ASSUME PubackInv, NoCallback
  PROVE  PubackInv'
<1> USE DEF PubackInv, PubackTypeOK, Position, closureVars, NoCallback
<1>1. PubackTypeOK'
  BY DEF Event
<1>2. Position'
  OBVIOUS
<1>3. ASSUME NEW p \in Publishes PROVE Fresh(p)'
  BY <1>3 DEF Sound, Fresh, Controlled
<1>4. ASSUME NEW p \in Publishes PROVE Closure(p)'
  BY <1>4 DEF Sound, Fresh, Closure
<1>5. ASSUME NEW p \in Publishes PROVE Undisturbed(p)'
  BY <1>5 DEF Sound, Fresh, Closure, Undisturbed, Controlled, AutoAcknowledges
<1>6. ASSUME NEW p \in Publishes PROVE NotLost(p)'
  BY <1>6 DEF Sound, Fresh, Closure, NotLost, Decided, Controlled,
      AutoAcknowledges
<1>7. QED
  BY <1>1, <1>2, <1>3, <1>4, <1>5, <1>6 DEF Sound

(* The closure becomes active with the callback. *)
LEMMA CallStep ==
  ASSUME PubackInv, CallApplication
  PROVE  PubackInv'
<1> USE DEF PubackInv, PubackTypeOK, Position, closureVars, CallApplication
<1>1. PubackTypeOK'
  BY DEF Event
<1>2. Position'
  OBVIOUS
<1>3. ASSUME NEW p \in Publishes PROVE Fresh(p)'
  BY <1>3 DEF Sound, Fresh, Controlled
<1>4. ASSUME NEW p \in Publishes PROVE Closure(p)'
  BY <1>4 DEF Sound, Fresh, Closure
<1>5. ASSUME NEW p \in Publishes PROVE Undisturbed(p)'
  BY <1>5 DEF Sound, Fresh, Closure, Undisturbed, Controlled, AutoAcknowledges
<1>6. ASSUME NEW p \in Publishes PROVE NotLost(p)'
  BY <1>6 DEF Sound, Fresh, Closure, NotLost, Decided, Controlled,
      AutoAcknowledges
<1>7. QED
  BY <1>1, <1>2, <1>3, <1>4, <1>5, <1>6 DEF Sound

(* The callback returns and the closure is deactivated. *)
LEMMA ReturnStep ==
  ASSUME PubackInv, CallbackReturns
  PROVE  PubackInv'
<1> USE DEF PubackInv, PubackTypeOK, Position, closureVars, CallbackReturns,
    Deactivate
<1>1. PubackTypeOK'
  BY DEF Event
<1>2. Position'
  OBVIOUS
<1>3. ASSUME NEW p \in Publishes PROVE Fresh(p)'
  BY <1>3 DEF Sound, Fresh, Controlled
<1>4. ASSUME NEW p \in Publishes PROVE Closure(p)'
  BY <1>4 DEF Sound, Fresh, Closure
<1>5. ASSUME NEW p \in Publishes PROVE Undisturbed(p)'
  BY <1>5 DEF Sound, Fresh, Closure, Undisturbed, Controlled, AutoAcknowledges
<1>6. ASSUME NEW p \in Publishes PROVE NotLost(p)'
  BY <1>6 DEF Sound, Fresh, Closure, NotLost, Decided, Controlled,
      AutoAcknowledges
<1>7. QED
  BY <1>1, <1>2, <1>3, <1>4, <1>5, <1>6 DEF Sound

(* The callback raises: the PUBLISH is no longer undisturbed. *)
LEMMA RaiseStep ==
  ASSUME PubackInv, CallbackRaises
  PROVE  PubackInv'
<1> USE DEF PubackInv, PubackTypeOK, Position, closureVars, CallbackRaises,
    Befalls
<1>1. PubackTypeOK'
  BY DEF Event
<1>2. Position'
  OBVIOUS
<1>3. ASSUME NEW p \in Publishes PROVE Fresh(p)'
  BY <1>3 DEF Sound, Fresh, Controlled
<1>4. ASSUME NEW p \in Publishes PROVE Closure(p)'
  BY <1>4 DEF Sound, Fresh, Closure
<1>5. ASSUME NEW p \in Publishes PROVE Undisturbed(p)'
  <2>1. CASE p = handled
    <3>1. "raise" \in mishaps'[p]
      BY <2>1
    <3>2. QED
      BY <3>1 DEF Undisturbed
  <2>2. CASE p # handled
    <3>1. mishaps'[p] = mishaps[p] /\ Undisturbed(p) /\ p # handled'
      BY <2>2 DEF Sound
    <3>2. QED
      BY <3>1, <2>2 DEF Undisturbed
  <2>3. QED
    BY <2>1, <2>2
<1>6. ASSUME NEW p \in Publishes PROVE NotLost(p)'
  BY <1>6 DEF Sound, Fresh, Closure, NotLost, Decided, Controlled,
      AutoAcknowledges
<1>7. QED
  BY <1>1, <1>2, <1>3, <1>4, <1>5, <1>6 DEF Sound

(* _on_publish returns whether the closure was used. *)
LEMMA ValueStep ==
  ASSUME PubackInv, ReturnTaken
  PROVE  PubackInv'
<1> USE DEF PubackInv, PubackTypeOK, Position, closureVars, ReturnTaken,
    ReturnedValue
<1>1. PubackTypeOK'
  BY DEF Event
<1>2. Position'
  OBVIOUS
<1>3. ASSUME NEW p \in Publishes PROVE Fresh(p)'
  BY <1>3 DEF Sound, Fresh, Controlled
<1>4. ASSUME NEW p \in Publishes PROVE Closure(p)'
  BY <1>4 DEF Sound, Fresh, Closure
<1>5. ASSUME NEW p \in Publishes PROVE Undisturbed(p)'
  BY <1>5 DEF Sound, Fresh, Closure, Undisturbed, Controlled, AutoAcknowledges
<1>6. ASSUME NEW p \in Publishes PROVE NotLost(p)'
  BY <1>6 DEF Sound, Fresh, Closure, NotLost, Decided, Controlled,
      AutoAcknowledges
<1>7. QED
  BY <1>1, <1>2, <1>3, <1>4, <1>5, <1>6 DEF Sound

(* The binding acknowledges unless the application took control. *)
LEMMA FinishStep ==
  ASSUME PubackInv, Finish
  PROVE  PubackInv'
<1> USE DEF PubackInv, PubackTypeOK, Position, closureVars, Finish,
    Acknowledge
<1>1. PubackTypeOK'
  BY DEF Event
<1>2. Position'
  OBVIOUS
<1>3. ASSUME NEW p \in Publishes PROVE Fresh(p)'
  BY <1>3 DEF Sound, Fresh, Controlled
<1>4. ASSUME NEW p \in Publishes PROVE Closure(p)'
  BY <1>4 DEF Sound, Fresh, Closure
<1>5. ASSUME NEW p \in Publishes PROVE Undisturbed(p)'
  BY <1>5 DEF Sound, Fresh, Closure, Undisturbed, Controlled, AutoAcknowledges
<1>6. ASSUME NEW p \in Publishes PROVE NotLost(p)'
  BY <1>6 DEF Sound, Fresh, Closure, NotLost, Decided, Controlled,
      AutoAcknowledges
<1>7. QED
  BY <1>1, <1>2, <1>3, <1>4, <1>5, <1>6 DEF Sound

(* The application takes control inside its callback. *)
LEMMA AcquireStep ==
  ASSUME PubackInv, AcquireInCallback
  PROVE  PubackInv'
<1> USE DEF PubackInv, PubackTypeOK, Position, closureVars, AcquireInCallback,
    MayAcquire, Give
<1>1. PubackTypeOK'
  BY DEF Event
<1>2. Position'
  OBVIOUS
<1>3. ASSUME NEW p \in Publishes PROVE Fresh(p)'
  BY <1>3 DEF Sound, Fresh, Controlled
<1>4. ASSUME NEW p \in Publishes PROVE Closure(p)'
  BY <1>4 DEF Sound, Fresh, Closure
<1>5. ASSUME NEW p \in Publishes PROVE Undisturbed(p)'
  BY <1>5 DEF Sound, Fresh, Closure, Undisturbed, Controlled, AutoAcknowledges
<1>6. ASSUME NEW p \in Publishes PROVE NotLost(p)'
  BY <1>6 DEF Sound, Fresh, Closure, NotLost, Decided, Controlled,
      AutoAcknowledges
<1>7. QED
  BY <1>1, <1>2, <1>3, <1>4, <1>5, <1>6 DEF Sound

(* Another thread passes the checks of the closure. *)
LEMMA CheckStep ==
  ASSUME PubackInv, NEW t \in Threads, NEW q \in Publishes, AcquireCheck(t, q)
  PROVE  PubackInv'
<1> USE DEF PubackInv, PubackTypeOK, Position, closureVars, AcquireCheck,
    MayAcquire, Befalls
<1>1. PubackTypeOK'
  BY DEF Event
<1>2. Position'
  OBVIOUS
<1>3. ASSUME NEW p \in Publishes PROVE Fresh(p)'
  BY <1>3 DEF Sound, Fresh, Controlled
<1>4. ASSUME NEW p \in Publishes PROVE Closure(p)'
  BY <1>4 DEF Sound, Fresh, Closure
<1>5. ASSUME NEW p \in Publishes PROVE Undisturbed(p)'
  <2>1. CASE p = q
    <3>1. CASE state[p] = "over" /\ UNCHANGED mishaps
      BY <1>5, <2>1, <3>1 DEF Sound, Closure, Undisturbed
    <3>2. CASE Befalls("cross_thread", p)
      <4>1. "cross_thread" \in mishaps'[p]
        BY <3>2
      <4>2. QED
        BY <4>1 DEF Undisturbed
    <3>3. QED
      BY <2>1, <3>1, <3>2
  <2>2. CASE p # q
    <3>1. mishaps'[p] = mishaps[p] /\ \A u \in Threads : acquire'[u] = p => acquire[u] = p
      BY <2>2
    <3>2. QED
      BY <1>5, <3>1 DEF Sound, Undisturbed, Controlled, AutoAcknowledges
  <2>3. QED
    BY <2>1, <2>2
<1>6. ASSUME NEW p \in Publishes PROVE NotLost(p)'
  BY <1>6 DEF Sound, Fresh, Closure, NotLost, Decided, Controlled,
      AutoAcknowledges
<1>7. QED
  BY <1>1, <1>2, <1>3, <1>4, <1>5, <1>6 DEF Sound

(* It gets a handle, of a PUBLISH that is disturbed. *)
LEMMA TakeStep ==
  ASSUME PubackInv, NEW t \in Threads, AcquireTake(t)
  PROVE  PubackInv'
<1> USE DEF PubackInv, PubackTypeOK, Position, closureVars, AcquireTake, Give
<1>1. PubackTypeOK'
  BY DEF Event
<1>2. Position'
  OBVIOUS
<1>3. ASSUME NEW p \in Publishes PROVE Fresh(p)'
  BY <1>3 DEF Sound, Fresh, Controlled
<1>4. ASSUME NEW p \in Publishes PROVE Closure(p)'
  BY <1>4 DEF Sound, Fresh, Closure
<1>5. ASSUME NEW p \in Publishes PROVE Undisturbed(p)'
  BY <1>5 DEF Sound, Fresh, Closure, Undisturbed, Controlled, AutoAcknowledges
<1>6. ASSUME NEW p \in Publishes PROVE NotLost(p)'
  BY <1>6 DEF Sound, Fresh, Closure, NotLost, Decided, Controlled,
      AutoAcknowledges
<1>7. QED
  BY <1>1, <1>2, <1>3, <1>4, <1>5, <1>6 DEF Sound

(* The application uses a handle. *)
LEMMA InvokeStep ==
  ASSUME PubackInv, NEW q \in Publishes, Invoke(q)
  PROVE  PubackInv'
<1> USE DEF PubackInv, PubackTypeOK, Position, closureVars, Invoke,
    Acknowledge
<1>1. PubackTypeOK'
  BY DEF Event
<1>2. Position'
  OBVIOUS
<1>3. ASSUME NEW p \in Publishes PROVE Fresh(p)'
  BY <1>3 DEF Sound, Fresh, Controlled
<1>4. ASSUME NEW p \in Publishes PROVE Closure(p)'
  BY <1>4 DEF Sound, Fresh, Closure
<1>5. ASSUME NEW p \in Publishes PROVE Undisturbed(p)'
  BY <1>5 DEF Sound, Fresh, Closure, Undisturbed, Controlled, AutoAcknowledges
<1>6. ASSUME NEW p \in Publishes PROVE NotLost(p)'
  BY <1>6 DEF Sound, Fresh, Closure, NotLost, Decided, Controlled,
      AutoAcknowledges
<1>7. QED
  BY <1>1, <1>2, <1>3, <1>4, <1>5, <1>6 DEF Sound

-----------------------------------------------------------------------------
(* The invariant that the theorems rest on. *)
THEOREM PubackInvariance == PubackSpec => []PubackInv
<1>1. PubackInit => PubackInv
  BY DEF PubackInit, PubackInv, PubackTypeOK, Event, Position, Sound, Fresh, Closure,
      Undisturbed, NotLost
<1>2. PubackInv /\ [PubackNext]_pubackVars => PubackInv'
  <2>1. CASE UNCHANGED pubackVars
    BY <2>1 DEF pubackVars, PubackInv, PubackTypeOK, Position, Sound, Fresh, Closure,
        Undisturbed, NotLost,
       Decided, Controlled, AutoAcknowledges
  <2>2. ASSUME PubackInv, PublishHandlerStep PROVE PubackInv'
    BY <2>2, ConversionFailing, CallFailing, NoCallbackStep, CallStep, ReturnStep, RaiseStep,
       ValueStep, FinishStep DEF PublishHandlerStep
  <2>3. ASSUME PubackInv, PubackNext PROVE PubackInv'
    BY <2>2, <2>3, Received, AcquireStep, CheckStep, TakeStep, InvokeStep DEF PubackNext
  <2>4. QED
    BY <2>1, <2>3
<1>3. QED
  BY <1>1, <1>2, PTL DEF PubackSpec

(* Every variable of the handling keeps its type. *)
THEOREM PubackTypeCorrect == PubackSpec => []PubackTypeOK
<1>1. PubackInv => PubackTypeOK
  BY DEF PubackInv
<1>2. QED
  BY <1>1, PubackInvariance, PTL

(* A handle that acquire_publish_acknowledgement_control() gives out inside a
   callback that returns is exclusive control of the PUBACK, whatever happens to
   other PUBLISH packets and however late the closure is called. *)
THEOREM HandleIsControl == PubackSpec => []UndisturbedHandleMeansControl
<1>1. ASSUME PubackInv PROVE UndisturbedHandleMeansControl
  <2>1. SUFFICES ASSUME NEW p \in Publishes, mishaps[p] \subseteq {"conversion"}
                 PROVE  /\ handles[p] > 0 /\ ~invoked[p] => control[p] = "held"
                        /\ handles[p] + Cardinality({t \in Threads : acquire[t] = p}) <= 1
    BY DEF UndisturbedHandleMeansControl
  <2>2. Undisturbed(p) /\ handles[p] \in Nat
    BY <1>1 DEF PubackInv, Sound, PubackTypeOK
  <2>3. {t \in Threads : acquire[t] = p} = {}
    BY <2>1, <2>2 DEF Undisturbed
  <2>4. Cardinality({t \in Threads : acquire[t] = p}) = 0
    BY <2>3, FS_EmptySet
  <2>5. QED
    BY <2>1, <2>2, <2>4 DEF Undisturbed
<1>2. QED
  BY <1>1, PubackInvariance, PTL

(* No PUBACK of a PUBLISH that could be converted is lost: when the handler is
   over it was sent, or the application has a handle to send it. *)
THEOREM NoPubackLost == PubackSpec => []ConvertedPubackNotLost
<1>1. PubackInv => ConvertedPubackNotLost
  BY DEF PubackInv, Sound, NotLost, ConvertedPubackNotLost
<1>2. QED
  BY <1>1, PubackInvariance, PTL
=============================================================================
