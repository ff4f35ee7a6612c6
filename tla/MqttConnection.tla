--------------------------- MODULE MqttConnection ---------------------------
(***************************************************************************)
(* The MQTT 3.1.1 Connection (awscrt/mqtt.py) over its binding             *)
(* (source/mqtt_client_connection.c).  Two threads: the application and the*)
(* event loop that delivers native callbacks.  The binding has only a weak *)
(* reference to the Connection, so each callback first takes a strong one  *)
(* and gives it back at its end; when the application let go meanwhile, the*)
(* capsule's destructor runs there, on the event-loop thread.              *)
(*                                                                         *)
(* Futures may be cancelled by the application: they are not set running.  *)
(*                                                                         *)
(* A C function of the binding runs with the GIL from end to end and is one*)
(* step here, with one exception: connect() looks at the binding's slot and*)
(* stores into it in two steps, which free-threaded builds (module.c:1197) *)
(* do not keep together.                                                   *)
(***************************************************************************)
EXTENDS Naturals

CONSTANTS
    Op,          \* publish, subscribe, unsubscribe and resubscribe calls
    MaxAttempts  \* bound: calls of connect() and reconnect()

ASSUME MaxAttemptsAssumption == MaxAttempts \in Nat

VARIABLES
    held,      \* the application references the Connection
    cbRef,     \* a callback of the event-loop thread holds a strong reference
    capsule,   \* "open", "leaving": its destructor's disconnect runs, "released"
    native,    \* state of the native connection
    binding,   \* "live" until the termination callback frees it
    slot,      \* the attempt whose on_connect is stored in the binding, or 0
    attempt,   \* connect futures, by attempt; "checked" inside the call
    overlapped, \* two calls of connect() or reconnect() ran at the same time
    op,        \* what became of each operation
    opFut,     \* the future of each operation
    refs,      \* Python callbacks the binding holds for each operation
    tree,      \* subscriptions in the native topic tree, with their callback
    rr         \* the request-response client built on the connection

attemptVars == <<slot, attempt, overlapped>>
connVars == <<held, cbRef, capsule, native, binding, attemptVars>>
opVars == <<op, opFut, refs, tree>>
mqttVars == <<connVars, opVars, rr>>

Attempt == 1 .. MaxAttempts
Kind == {"publish", "subscribe", "unsubscribe", "resubscribe"}
(* A result, an exception and a cancellation are told apart nowhere. *)
FutureState == {"none", "pending", "settled"}

TypeOK ==
    /\ held \in BOOLEAN /\ cbRef \in BOOLEAN
    /\ capsule \in {"open", "leaving", "released"}
    /\ native \in {"idle", "connecting", "connected", "interrupted", "disconnecting"}
    /\ binding \in {"live", "freed"}
    /\ slot \in 0 .. MaxAttempts
    /\ attempt \in [Attempt -> FutureState \cup {"checked"}]
    /\ overlapped \in BOOLEAN
    /\ op \in [Op -> {"none", "queued", "empty", "ended"}]
    /\ opFut \in [Op -> FutureState]
    /\ refs \in [Op -> SUBSET {"message", "ack"}]
    /\ tree \subseteq Op
    /\ rr \in {"none", "live", "releasing", "gone"}

Init ==
    /\ held = TRUE /\ cbRef = FALSE /\ capsule = "open"
    /\ native = "idle" /\ binding = "live" /\ slot = 0
    /\ attempt = [a \in Attempt |-> "none"] /\ overlapped = FALSE
    /\ op = [o \in Op |-> "none"] /\ opFut = [o \in Op |-> "none"]
    /\ refs = [o \in Op |-> {}] /\ tree = {} /\ rr = "none"

(* Resolving a Future the application has cancelled raises InvalidStateError
   in the callback, which the binding reports as unraisable. *)
Settle(f) == IF f = "pending" THEN "settled" ELSE f

PyAlive == held \/ cbRef
(* A native connection without references shuts itself down. *)
Terminating ==
    /\ capsule = "released" /\ native # "disconnecting"
    /\ rr \in {"none", "gone"}

(* Mutant: the destructor frees the binding itself. *)
DestroyFreesBinding ==
    /\ capsule' = "released" /\ binding' = "freed"
    /\ UNCHANGED native

(* Mutant: the destructor counts on the disconnect it cannot begin. *)
DestroyWaits ==
    IF native \in {"connected", "interrupted"}
    THEN native' = "disconnecting" /\ capsule' = "leaving" /\ UNCHANGED binding
    ELSE capsule' = "leaving" /\ UNCHANGED <<native, binding>>

(* s_mqtt_python_connection_destructor: disconnect, and release the native
   connection when that has ended; if it is not connected, release it now. *)
Destroy ==
    IF native \in {"connected", "interrupted"}
    THEN native' = "disconnecting" /\ capsule' = "leaving" /\ UNCHANGED binding
    ELSE capsule' = "released" /\ UNCHANGED <<native, binding>>

LetGo(last) ==
    IF last /\ capsule = "open" THEN Destroy ELSE UNCHANGED <<native, capsule, binding>>

----------------------------------------------------------------------------
(* Application calls. *)

NextAttempt(a) == a \in Attempt /\ attempt[a] = "none" /\ \A b \in 1 .. a - 1 : attempt[b] # "none"

(* Mutant: connect() does not look for an attempt in progress. *)
NoCheck == TRUE

(* "Connection already in progress" while on_connect is stored. *)
SlotEmpty == slot = 0

InCall == {a \in Attempt : attempt[a] = "checked"}

(* The call comes past the look at the slot, or raises before: the exception
   becomes the future's. *)
BeginAttempt(a) ==
    /\ held /\ NextAttempt(a)
    /\ \/ attempt' = [attempt EXCEPT ![a] = "settled"]
       \/ SlotEmpty /\ attempt' = [attempt EXCEPT ![a] = "checked"]
    /\ overlapped' = (overlapped \/ InCall # {})
    /\ UNCHANGED <<held, cbRef, capsule, native, binding, slot, opVars>>

Connect(a) == BeginAttempt(a)
Reconnect(a) == a > 1 /\ BeginAttempt(a)

(* Mutant: the slot keeps the callback of a refused attempt. *)
SlotAfterRefusal(a) == a

(* Whatever is stored in the slot is cleared. *)
SlotCleared(a) == 0

(* on_connect is stored and the native connection told to connect; what does
   not convert and what the native connection refuses clears the slot. *)
StartAttempt(a) ==
    /\ attempt[a] = "checked"
    /\ \/ /\ native = "idle" /\ native' = "connecting"
          /\ slot' = a /\ attempt' = [attempt EXCEPT ![a] = "pending"]
       \/ /\ slot' = SlotCleared(a) /\ attempt' = [attempt EXCEPT ![a] = "settled"]
          /\ UNCHANGED native
    /\ UNCHANGED <<held, cbRef, capsule, binding, overlapped, opVars>>

(* Refused unless connected: the future then holds the exception. *)
Disconnect ==
    /\ held /\ native \in {"connected", "interrupted"}
    /\ native' = "disconnecting"
    /\ UNCHANGED <<held, cbRef, capsule, binding, attemptVars, opVars>>

(* The callbacks each kind of operation hands to the binding. *)
Callbacks(k) == IF k = "subscribe" THEN {"message", "ack"} ELSE {"ack"}

(* Mutant: the references of a refused operation are not given back. *)
RefusedKeepsRefs(o, k) == refs' = [refs EXCEPT ![o] = Callbacks(k)]

Refused(o, k) == refs' = [refs EXCEPT ![o] = {}]

(* Bad arguments, a QoS the library has not, or a native refusal: every
   method catches the exception and stores it in the future it returns. *)
Refuse(o, k) ==
    /\ held /\ op[o] = "none"
    /\ op' = [op EXCEPT ![o] = "ended"]
    /\ opFut' = [opFut EXCEPT ![o] = "settled"]
    /\ Refused(o, k)
    /\ UNCHANGED <<connVars, tree>>

Accept(o, k, inTree) ==
    /\ held /\ op[o] = "none"
    /\ op' = [op EXCEPT ![o] = "queued"]
    /\ opFut' = [opFut EXCEPT ![o] = "pending"]
    /\ refs' = [refs EXCEPT ![o] = Callbacks(k)]
    /\ tree' = inTree
    /\ UNCHANGED <<connVars>>

Publish(o) == Refuse(o, "publish") \/ Accept(o, "publish", tree)
Subscribe(o) == Refuse(o, "subscribe") \/ Accept(o, "subscribe", tree \cup {o})
Unsubscribe(o) == Refuse(o, "unsubscribe") \/ Accept(o, "unsubscribe", tree)

(* Without topics the native call gives packet id 0, the binding drops the
   callback and returns 0; the test `packet_id is None` fails. *)
ResubscribeExistingTopics(o) ==
    \/ Refuse(o, "resubscribe")
    \/ tree # {} /\ Accept(o, "resubscribe", tree)
    \/ /\ held /\ op[o] = "none" /\ tree = {}
       /\ op' = [op EXCEPT ![o] = "empty"]
       /\ opFut' = [opFut EXCEPT ![o] = "pending"]
       /\ refs' = [refs EXCEPT ![o] = {}]
       /\ UNCHANGED <<connVars, tree>>

CancelOp(o) ==
    /\ opFut[o] = "pending"
    /\ opFut' = [opFut EXCEPT ![o] = "settled"]
    /\ UNCHANGED <<connVars, op, refs, tree>>

CancelConnect(a) ==
    /\ attempt[a] = "pending"
    /\ attempt' = [attempt EXCEPT ![a] = "settled"]
    /\ UNCHANGED <<held, cbRef, capsule, native, binding, slot, overlapped, opVars>>

(* The application drops its last reference, which no call of its own has. *)
Drop ==
    /\ held /\ InCall = {}
    /\ held' = FALSE
    /\ LetGo(~cbRef)
    /\ UNCHANGED <<cbRef, attemptVars, opVars>>

----------------------------------------------------------------------------
(* Native callbacks, on the event-loop thread. *)

(* A strong reference is taken from the weak proxy; with the Connection gone
   the event goes nowhere. *)
Notify ==
    /\ ~cbRef /\ binding = "live"
    /\ cbRef' = PyAlive

(* s_on_connect empties the slot and calls what was in it, if anything. *)
OnConnect(ok) ==
    /\ native = "connecting"
    /\ attempt' = [a \in Attempt |-> IF a = slot THEN Settle(attempt[a]) ELSE attempt[a]]
    /\ slot' = 0
    /\ Notify
    /\ native' = IF ok THEN "connected" ELSE "idle"
    /\ UNCHANGED <<held, capsule, binding, overlapped, opVars>>

(* The connection is lost; the native client reconnects by itself. *)
Interrupted ==
    /\ native = "connected" /\ Notify
    /\ native' = "interrupted"
    /\ UNCHANGED <<held, capsule, binding, attemptVars, opVars>>

Resumed ==
    /\ native = "interrupted" /\ Notify
    /\ native' = "connected"
    /\ UNCHANGED <<held, capsule, binding, attemptVars, opVars>>

(* The disconnect ends: on_disconnect resolves the future, and the closed
   handler runs unless the destructor has cleared it. *)
OnDisconnect ==
    /\ native = "disconnecting" /\ ~cbRef
    /\ native' = "idle"
    /\ IF capsule = "open" THEN Notify ELSE UNCHANGED cbRef
    /\ capsule' = IF capsule = "leaving" THEN "released" ELSE capsule
    /\ UNCHANGED <<held, binding, attemptVars, opVars>>

CallbackEnd ==
    /\ cbRef
    /\ cbRef' = FALSE
    /\ LetGo(~held)
    /\ UNCHANGED <<held, attemptVars, opVars>>

AckDropped(o) == refs[o] \ {"ack"}

(* Mutant: the callback returns without resolving the future. *)
Unanswered(o) == opFut

Answered(o) == [opFut EXCEPT ![o] = Settle(@)]

(* puback, suback, unsuback: an error, a QoS of 128 (SubscribeError) or the
   answer.  Unsubscribing takes a topic out of the tree, whose clean-up
   releases the message callback. *)
Complete(o, gone) ==
    /\ ~cbRef /\ binding = "live" /\ op[o] = "queued"
    /\ op' = [op EXCEPT ![o] = "ended"]
    /\ opFut' = Answered(o)
    /\ tree' = tree \ gone
    /\ refs' = [q \in Op |->
                  (IF q = o THEN AckDropped(o) ELSE refs[q])
                    \ (IF q \in gone THEN {"message"} ELSE {})]
    /\ UNCHANGED <<connVars>>

OnAck(o) == \E gone \in SUBSET ({o} \cap tree) : Complete(o, gone)
OnUnsuback(o) == \E q \in tree : refs[o] = {"ack"} /\ Complete(o, {q})

(* All references of the native connection are gone and its tasks have ended:
   open operations are completed with an error before that.  The binding goes
   with its slot; the future of an attempt under way stays as it is. *)
Terminated ==
    /\ Terminating /\ binding = "live" /\ ~cbRef
    /\ \A o \in Op : op[o] # "queued"
    /\ binding' = "freed" /\ slot' = 0
    /\ native' = "idle"
    /\ tree' = {}
    /\ refs' = [o \in Op |-> refs[o] \ {"message"}]
    /\ UNCHANGED <<held, cbRef, capsule, attempt, overlapped, op, opFut>>

ApplicationStep ==
    \/ \E a \in Attempt : Connect(a) \/ Reconnect(a) \/ StartAttempt(a) \/ CancelConnect(a)
    \/ \E o \in Op : \/ Publish(o) \/ Subscribe(o) \/ Unsubscribe(o)
                     \/ ResubscribeExistingTopics(o) \/ CancelOp(o)
    \/ Disconnect \/ Drop

EventLoopStep ==
    \/ \E ok \in BOOLEAN : OnConnect(ok)
    \/ Interrupted \/ Resumed \/ OnDisconnect \/ CallbackEnd
    \/ \E o \in Op : OnAck(o) \/ OnUnsuback(o)
    \/ Terminated

----------------------------------------------------------------------------
(* The binding, which every native callback reads, is there while one of them
   can still come: the capsule, a connection attempt, a disconnect, a queued
   operation or a running callback keeps it. *)
BindingOutlivesCallbacks ==
    \/ capsule # "released" \/ native # "idle" \/ cbRef
    \/ (\E o \in Op : op[o] = "queued")
    => binding = "live"

(* As long as the binding lives, a connect future that is pending has its
   callback in the slot, so that the outcome of the attempt reaches it: a later
   connect() neither replaces nor clears it, and no callback that took the slot
   leaves a future behind.  Two calls that overlap, as only free-threaded builds
   let them, can lose it; and a Connection dropped while it connects may free
   its binding with the slot, and the future then stays pending. *)
PendingAttemptInSlot ==
    ~overlapped => \A a \in Attempt : attempt[a] = "pending" /\ binding = "live" => slot = a

(* The slot is taken only while the native connection tries to connect: after an
   attempt that was refused, failed or succeeded, connect() is not refused for
   an attempt that nothing will end. *)
SlotIsGivenBack == slot # 0 => native = "connecting"

(* The binding references an operation's callback exactly until it was called
   or refused, and a message callback exactly while the topic is in the tree. *)
CallbackReferences ==
    /\ \A o \in Op : "ack" \in refs[o] <=> op[o] = "queued"
    /\ tree = {o \in Op : "message" \in refs[o]}

Abandoned == ~held /\ rr \in {"none", "gone"}

(* Every operation the native connection accepted resolves its future, provided
   that the connection comes up again and again, however often it is interrupted
   in between, or that nobody refers to it any more.  (On a Connection that never
   connects it stays queued: there is no timeout by default.) *)
OperationsSettle ==
    []<>(native = "connected" \/ Abandoned)
        => \A o \in Op : op[o] = "queued" ~> opFut[o] # "pending"

(* A Connection nobody refers to is disconnected and its binding freed. *)
DroppedConnectionTerminates ==
    Abandoned ~> binding = "freed"
=============================================================================
