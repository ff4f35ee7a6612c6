----------------------------- MODULE Mqtt5Client -----------------------------
(***************************************************************************)
(* The MQTT 5 client: Client and _ClientCore (awscrt/mqtt5.py) with        *)
(* mqtt5_client_binding, the lifecycle events, the completion of publish,  *)
(* subscribe and unsubscribe, and termination (source/mqtt5_client.c).     *)
(* The websocket handshake is in HandshakeTransform, received messages are *)
(* in Mqtt5Puback.                                                         *)
(*                                                                         *)
(* The client's event-loop thread runs the callbacks; `thread` is the kind *)
(* of callback it is in, and application threads act in between.  The state*)
(* machine of the native client is external: `native` and `desired` follow *)
(* aws-c-mqtt, as far as it decides which callbacks may come.              *)
(***************************************************************************)
EXTENDS HandshakeTransform, FiniteSets

CONSTANTS
    Ops             \* calls of publish, subscribe and unsubscribe

VARIABLES
    binding,   \* the mqtt5_client_binding
    capsule,   \* Client._binding
    coreRefs,  \* references of C to the _ClientCore
    held,      \* the application holds the Client
    thread,    \* the callback the event-loop thread is in
    op,        \* each operation
    future,    \* the future it returned
    meta,      \* operations with a live *_complete_userdata
    current,   \* the operation whose completion is being reported, as a set
    (* the native client, outside this repository *)
    native,    \* its state
    desired    \* the state it was told to reach

opVars == <<op, future, meta, current>>
vars == <<binding, capsule, coreRefs, held, thread, op, future, meta, current, native,
          desired, tAt, tFuture, tArgs, completions, mishap>>

TypeOK ==
    /\ TransformTypeOK
    /\ binding \in {"none", "live", "freed"}
    /\ capsule \in {"none", "live", "dead"}
    /\ coreRefs \in Nat
    /\ held \in BOOLEAN
    /\ thread \in {"idle", "event", "op"}
    /\ op \in [Ops -> {"no", "raised", "pending", "done", "lost"}]
    /\ future \in [Ops -> {"pending", "result", "exception", "cancelled"}]
    /\ meta \subseteq Ops /\ current \subseteq Ops
    /\ native \in {"none", "stopped", "connecting", "connected", "waiting", "terminated"}
    /\ desired \in {"stopped", "started", "terminated"}

Init ==
    /\ TransformInit
    /\ binding = "none" /\ capsule = "none" /\ coreRefs = 0 /\ held = FALSE
    /\ thread = "idle"
    /\ op = [o \in Ops |-> "no"] /\ future = [o \in Ops |-> "pending"]
    /\ meta = {} /\ current = {}
    /\ native = "none" /\ desired = "stopped"

Pending == {o \in Ops : op[o] = "pending"}
Idle == thread = "idle" /\ HandlerIdle

-----------------------------------------------------------------------------
(* Creation and termination.                                                *)

(* Client.__init__ and aws_py_mqtt5_client_new.  A failure leaves nothing
   behind: s_mqtt5_python_client_destructor finds no native client and runs
   s_mqtt5_client_on_terminate itself, which gives back the core if it had
   been stored. *)
ClientNew(ok) ==
    /\ binding = "none"
    /\ IF ok
       THEN /\ binding' = "live" /\ capsule' = "live" /\ held' = TRUE
            /\ coreRefs' = 1
            /\ native' = "stopped"
       ELSE /\ binding' = "freed" /\ capsule' = "dead"
            /\ native' = "terminated"
            /\ UNCHANGED <<coreRefs, held>>
    /\ UNCHANGED <<thread, desired, opVars, transformVars>>

(* Mutant: the destructor does not release the native client. *)
StaysAsDesired == desired

(* s_mqtt5_python_client_destructor releases the native client, which then
   stops, fails what is incomplete and terminates. *)
ReleaseNative == "terminated"

(* The application drops the Client. *)
DropClient ==
    /\ held
    /\ held' = FALSE /\ capsule' = "dead"
    /\ desired' = ReleaseNative
    /\ UNCHANGED <<binding, coreRefs, thread, native, opVars, transformVars>>

(* Mutant: the core stays referenced. *)
KeepCore == coreRefs

(* Py_XDECREF(client->client_core) *)
DropCore == coreRefs - 1

(* s_mqtt5_client_on_terminate, the last callback. *)
OnTerminate ==
    /\ native = "stopped" /\ desired = "terminated" /\ Pending = {} /\ Idle
    /\ native' = "terminated"
    /\ binding' = "freed"
    /\ coreRefs' = DropCore
    /\ UNCHANGED <<capsule, held, thread, desired, opVars, transformVars>>

-----------------------------------------------------------------------------
(* Connectivity.                                                            *)

(* Client.start and Client.stop *)
Want(d) ==
    /\ held
    /\ desired' = d
    /\ UNCHANGED <<binding, capsule, coreRefs, held, thread, native, opVars, transformVars>>

(* s_lifecycle_event_attempting_connect.  ~tArgs is a bound: one handshake's
   arguments are around at a time. *)
AttemptingConnect ==
    /\ native \in {"stopped", "waiting"} /\ desired = "started" /\ Idle /\ ~tArgs
    /\ native' = "connecting" /\ thread' = "event"
    /\ tAt' = "none" /\ tFuture' = "none" /\ completions' = 0 /\ mishap' = FALSE
    /\ UNCHANGED <<tArgs, binding, capsule, coreRefs, held, desired, opVars>>

(* s_ws_handshake_transform, for a client that uses websockets. *)
HandshakeTransform(start) ==
    /\ native = "connecting" /\ tAt = "none" /\ Idle
    /\ start
    /\ coreRefs' = IF tArgs' THEN coreRefs + 1 ELSE coreRefs
    /\ UNCHANGED <<binding, capsule, held, thread, native, desired, opVars>>

(* The handshake goes on; its data lets go of the core when nothing refers to
   it any more (s_mqtt5_ws_handshake_transform_data_destructor). *)
TransformGoesOn(step) ==
    /\ step
    /\ coreRefs' = IF DataHeld /\ ~DataHeld' THEN coreRefs - 1 ELSE coreRefs
    /\ UNCHANGED <<binding, capsule, held, thread, native, desired, opVars>>

(* s_lifecycle_event_connection_success *)
ConnectionSuccess ==
    /\ native = "connecting" /\ Answered /\ Idle
    /\ native' = "connected" /\ thread' = "event"
    /\ UNCHANGED <<binding, capsule, coreRefs, held, desired, opVars, transformVars>>

(* s_lifecycle_event_connection_failure *)
ConnectionFailure ==
    /\ native = "connecting" /\ Answered /\ Idle
    /\ native' = "waiting" /\ thread' = "event"
    /\ UNCHANGED <<binding, capsule, coreRefs, held, desired, opVars, transformVars>>

(* s_lifecycle_event_disconnection *)
Disconnection ==
    /\ native = "connected" /\ Idle
    /\ native' = "waiting" /\ thread' = "event"
    /\ UNCHANGED <<binding, capsule, coreRefs, held, desired, opVars, transformVars>>

(* s_lifecycle_event_stopped *)
Stopped ==
    /\ native = "waiting" /\ desired # "started" /\ Idle
    /\ native' = "stopped" /\ thread' = "event"
    /\ UNCHANGED <<binding, capsule, coreRefs, held, desired, opVars, transformVars>>

(* The application's lifecycle callback returns.  If it raised, or if the
   packet could not be converted and it was not called, s_lifecycle_event_*
   writes the error and goes on. *)
EventReturns ==
    /\ thread = "event"
    /\ thread' = "idle"
    /\ UNCHANGED <<binding, capsule, coreRefs, held, native, desired, opVars, transformVars>>

-----------------------------------------------------------------------------
(* Operations.                                                              *)

(* Mutant: publish_failed keeps the userdata. *)
LeakMeta(o, accepted) == meta \union {o}

(* The userdata, with a reference to the callback, exists once the arguments
   are converted; publish_failed, subscribe_failed and unsubscribe_failed
   free it. *)
MetaAfterCall(o, accepted) == IF accepted THEN meta \union {o} ELSE meta

(* Client.publish, subscribe, unsubscribe.  A call is refused when an argument
   cannot be converted or the native client fails it, and raises then. *)
Call(o, accepted) ==
    /\ held /\ op[o] = "no"
    /\ op' = [op EXCEPT ![o] = IF accepted THEN "pending" ELSE "raised"]
    /\ meta' = MetaAfterCall(o, accepted)
    /\ UNCHANGED <<binding, capsule, coreRefs, held, thread, future, current, native,
                   desired, transformVars>>

(* set_result and set_exception raise on a cancelled future; the error is
   written and forgotten. *)
Settle(o, f) == [future EXCEPT ![o] = IF @ = "pending" THEN f ELSE @]

(* s_on_publish_complete_fn, s_on_subscribe_complete_fn and
   s_on_unsubscribe_complete_fn: with an acknowledgement while connected, or
   with an error (no connection, a timeout, termination). *)
OnComplete(o, ok) ==
    /\ op[o] = "pending" /\ Idle
    /\ native \notin {"none", "terminated"}
    /\ ok => native = "connected"
    /\ thread' = "op" /\ current' = {o}
    /\ op' = [op EXCEPT ![o] = "done"]
    /\ future' = Settle(o, IF ok THEN "result" ELSE "exception")
    /\ UNCHANGED <<binding, capsule, coreRefs, held, meta, native, desired, transformVars>>

(* The same for an acknowledgement whose user properties or reason string
   cannot be converted: the error is written and the callback is not called. *)
OnUnconvertibleAck(o) ==
    /\ op[o] = "pending" /\ Idle /\ native = "connected"
    /\ thread' = "op" /\ current' = {o}
    /\ op' = [op EXCEPT ![o] = "lost"]
    /\ UNCHANGED <<binding, capsule, coreRefs, held, future, meta, native, desired,
                   transformVars>>

(* cleanup: of the completion functions. *)
OnCompleteReturns ==
    /\ thread = "op"
    /\ thread' = "idle" /\ current' = {}
    /\ meta' = meta \ current
    /\ UNCHANGED <<binding, capsule, coreRefs, held, op, future, native, desired, transformVars>>

(* The application cancels the future of an operation. *)
CancelFuture(o) ==
    /\ op[o] # "no" /\ future[o] = "pending"
    /\ future' = [future EXCEPT ![o] = "cancelled"]
    /\ UNCHANGED <<binding, capsule, coreRefs, held, thread, op, meta, current, native,
                   desired, transformVars>>

-----------------------------------------------------------------------------
NativeStep ==
    \/ OnTerminate \/ ConnectionSuccess \/ ConnectionFailure \/ Stopped
    \/ Disconnection
    \/ AttemptingConnect
    \/ HandshakeTransform(TransformCalled) \/ HandshakeTransform(TransformFails)
    \/ HandshakeTransform(TransformSkipped)

Returns == EventReturns \/ OnCompleteReturns \/ TransformGoesOn(HandlerStep)

Application ==
    \/ \E ok \in BOOLEAN : ClientNew(ok)
    \/ DropClient \/ \E d \in {"started", "stopped"} : Want(d)
    \/ TransformGoesOn(SetDone) \/ TransformGoesOn(DropArgs)
    \/ \E o \in Ops : (\E a \in BOOLEAN : Call(o, a)) \/ CancelFuture(o)

Next ==
    \/ NativeStep \/ Returns \/ Application
    \/ \E o \in Ops : (\E ok \in BOOLEAN : OnComplete(o, ok)) \/ OnUnconvertibleAck(o)

Spec == Init /\ [][Next]_vars

(* Callbacks return.  A client that was told to terminate goes down: an
   attempt under way succeeds or fails, a connection is closed, what is
   incomplete fails. *)
FairSpec ==
    /\ Spec
    /\ WF_vars(Returns)
    /\ WF_vars(desired = "terminated" /\ (OnTerminate \/ Stopped))
    /\ SF_vars(desired = "terminated" /\ ConnectionFailure)
    /\ SF_vars(desired = "terminated" /\ Disconnection)
    /\ \A o \in Ops : SF_vars(desired = "terminated" /\ OnComplete(o, FALSE))

-----------------------------------------------------------------------------
(* Properties.                                                              *)

(* The binding and the core it refers to are there whenever the native client
   may call back or the application may call down, and gone once neither can
   be: not freed under a callback, not leaked.  The handshake's data keeps
   the core, and nothing else does. *)
BindingOutlivesCallbacks ==
    /\ (binding = "live") <=> (native \notin {"none", "terminated"})
    /\ thread # "idle" \/ held => binding = "live"
    /\ coreRefs = (IF binding = "live" THEN 1 ELSE 0) + (IF DataHeld THEN 1 ELSE 0)

(* The userdata of an operation lives until its completion was reported, not
   longer when the call raised; and a future the application did not cancel is
   settled by the completion, unless the acknowledgement was unreadable. *)
OperationsSettled ==
    /\ meta = Pending \union current
    /\ \A o \in Ops : /\ op[o] = "done" => future[o] # "pending"
                      /\ op[o] # "done" => future[o] \in {"pending", "cancelled"}

(* complete_fn is called once per handshake, whatever the application's
   function does, except when it raises while another thread calls set_done()
   or raises something that is no Exception. *)
TransformCompletedOnce == mishap \/ completions <= 1

AfterTermination ==
    binding = "freed" =>
        /\ binding' = "freed" /\ thread' = "idle"
        /\ UNCHANGED <<op, meta, native>> /\ coreRefs' <= coreRefs

(* s_mqtt5_client_on_terminate is the last callback: afterwards the binding is
   gone for good, no operation is accepted or reported, and the core only loses
   the reference of a handshake that is left over. *)
TerminationIsLast == [][AfterTermination]_vars

(* The application's transform function returned and nobody called set_done():
   the native client waits for it. *)
Unanswered == native = "connecting" /\ tAt = "over" /\ completions = 0

(* A client the application dropped terminates and is freed, and fails its
   pending operations first, in whatever state it was; also when the transform
   function raised.  Only a handshake nobody answers can hold it up. *)
AbandonedClientIsFreed ==
    (capsule = "dead") ~> (binding = "freed" /\ Pending = {}) \/ Unanswered

=============================================================================
