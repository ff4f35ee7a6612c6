------------------------- MODULE HandshakeTransform -------------------------
(***************************************************************************)
(* The websocket handshake of an MQTT connection: s_ws_handshake_transform *)
(* (source/mqtt5_client.c, source/mqtt_client_connection.c) hands the      *)
(* request to the application's transform function through                 *)
(* _ws_handshake_transform (awscrt/mqtt5.py, awscrt/mqtt.py), and the      *)
(* native client goes on when complete_fn is called, which must happen     *)
(* once.  The application calls set_done() inside the function or, later or*)
(* meanwhile, from another thread.                                         *)
(*                                                                         *)
(* The done callback of the Future calls complete_fn, so a Future that is  *)
(* resolved and the call of complete_fn are one step.  A second set_done() *)
(* raises InvalidStateError in its caller.                                 *)
(***************************************************************************)
EXTENDS Naturals

VARIABLES
    tAt,          \* where the event-loop thread is in the handler
    tFuture,      \* the done future of the handshake
    tArgs,        \* the application holds the WebsocketHandshakeTransformArgs
    completions,  \* calls of complete_fn
    mishap        \* history: the function raised in one of the ways below

transformVars == <<tAt, tFuture, tArgs, completions, mishap>>

TransformTypeOK ==
    /\ tAt \in {"none", "called", "raised", "setting", "over"}
    /\ tFuture \in {"none", "pending", "done"}
    /\ tArgs \in BOOLEAN
    /\ completions \in Nat
    /\ mishap \in BOOLEAN

TransformInit ==
    /\ tAt = "none" /\ tFuture = "none" /\ tArgs = FALSE
    /\ completions = 0 /\ mishap = FALSE

(* s_ws_handshake_transform up to the application's function. *)
TransformCalled ==
    /\ tAt' = "called" /\ tFuture' = "pending" /\ tArgs' = TRUE
    /\ completions' = 0 /\ mishap' = FALSE

(* s_ws_handshake_transform cannot make the Python objects, or the Connection
   is gone: it completes the handshake with an error by itself. *)
TransformFails ==
    /\ tAt' = "over" /\ tFuture' = "none" /\ tArgs' = FALSE
    /\ completions' = 1 /\ mishap' = FALSE

(* No application function: _ws_handshake_transform completes at once. *)
TransformSkipped ==
    /\ tAt' = "over" /\ tFuture' = "none" /\ tArgs' = FALSE
    /\ completions' = 1 /\ mishap' = FALSE

(* set_done() by the function itself or by another thread. *)
SetDone ==
    /\ tArgs /\ tFuture = "pending"
    /\ tFuture' = "done" /\ completions' = completions + 1
    /\ mishap' = (mishap \/ tAt = "setting")
    /\ UNCHANGED <<tAt, tArgs>>

(* The function returns, whether or not set_done() was called. *)
TransformReturns ==
    /\ tAt = "called"
    /\ tAt' = "over"
    /\ UNCHANGED <<tFuture, tArgs, completions, mishap>>

(* It raises an Exception, which _ws_handshake_transform catches. *)
TransformRaises ==
    /\ tAt = "called"
    /\ tAt' = "raised"
    /\ UNCHANGED <<tFuture, tArgs, completions, mishap>>

(* Mutant: the exception is handed over without a look at the future. *)
AlwaysSetDone == tAt' = "setting"

(* except Exception: if not future.done() ... *)
TestDone == tAt' = IF tFuture = "done" THEN "over" ELSE "setting"

CheckDone ==
    /\ tAt = "raised"
    /\ TestDone
    /\ UNCHANGED <<tFuture, tArgs, completions, mishap>>

(* ... transform_args.set_done(e).  When another thread was faster, this
   raises, the exception leaves _ws_handshake_transform, and the C handler
   calls complete_fn because the call of Python failed. *)
SetDoneAfterRaise ==
    /\ tAt = "setting"
    /\ tAt' = "over" /\ tFuture' = "done"
    /\ completions' = completions + 1
    /\ UNCHANGED <<tArgs, mishap>>

(* The function raises something that is no Exception (KeyboardInterrupt,
   SystemExit): it reaches the C handler, which calls complete_fn. *)
RaisesBaseException ==
    /\ tAt = "called"
    /\ tAt' = "over"
    /\ completions' = completions + 1
    /\ mishap' = TRUE
    /\ UNCHANGED <<tFuture, tArgs>>

(* The application drops the arguments; the future goes with them. *)
DropArgs ==
    /\ tAt = "over" /\ tArgs
    /\ tArgs' = FALSE
    /\ UNCHANGED <<tAt, tFuture, completions, mishap>>

HandlerStep ==
    \/ TransformReturns \/ TransformRaises \/ CheckDone \/ SetDoneAfterRaise
    \/ RaisesBaseException

(* The C handler is not running: another callback may. *)
HandlerIdle == tAt \in {"none", "over"}

(* The native client may go on. *)
Answered == tAt = "none" \/ completions > 0

(* The capsule with the handshake's data, which refers to the client's core,
   is referenced by the running handler and by the done callback. *)
DataHeld == tAt \in {"called", "raised", "setting"} \/ tArgs
=============================================================================
