---------------------------- MODULE Mqtt5Puback ----------------------------
(***************************************************************************)
(* Who acknowledges a received PUBLISH: s_on_publish_received              *)
(* (source/mqtt5_client.c), _ClientCore._on_publish and                    *)
(* Client.invoke_publish_acknowledgement (awscrt/mqtt5.py).                *)
(*                                                                         *)
(* For QoS 1 the binding takes control of the PUBACK away from the native  *)
(* client before anything else, calls Python, and acknowledges by itself   *)
(* unless Python says that the application took control.  The application  *)
(* takes control with a closure it may keep and call later or from another *)
(* thread; puback_taken and callback_active are that closure's variables.  *)
(***************************************************************************)
EXTENDS Naturals, FiniteSets

CONSTANTS
    Publishes,  \* PUBLISH packets received
    Threads,    \* application threads besides the callback thread
    Events,     \* which unusual events happen, see Event
    None        \* no PUBLISH

(* The application's callback raises; a property of the PUBLISH cannot be
   converted to Python; another thread calls the closure while the callback
   is still running. *)
Event == {"raise", "conversion", "cross_thread"}
ASSUME EventsAssumption == Events \subseteq Event
ASSUME NoneAssumption == None \notin Publishes

VARIABLES
    at,       \* where the event-loop thread is in s_on_publish_received
    handled,  \* the PUBLISH being handled
    result,   \* what _on_publish returned: taken, free or error
    state,    \* each PUBLISH: new, handling, over
    control,  \* the native client's record of its PUBACK
    taken,    \* puback_taken
    active,   \* callback_active
    acquire,  \* each other thread's progress in the closure: the PUBLISH, or none
    handles,  \* number of handles given out
    invoked,  \* the application used a handle
    mishaps   \* history: the unusual events that befell each PUBLISH

pubackVars == <<at, handled, result, state, control, taken, active, acquire, handles,
                invoked, mishaps>>

PubackTypeOK ==
    /\ at \in {"idle", "convert", "user", "returning", "finish"}
    /\ handled \in Publishes \union {None}
    /\ result \in {"taken", "free", "error"}
    /\ state \in [Publishes -> {"new", "handling", "over"}]
    /\ control \in [Publishes -> {"none", "held", "acked"}]
    /\ taken \in [Publishes -> BOOLEAN]
    /\ active \in [Publishes -> BOOLEAN]
    /\ acquire \in [Threads -> Publishes \union {None}]
    /\ handles \in [Publishes -> Nat]
    /\ invoked \in [Publishes -> BOOLEAN]
    /\ mishaps \in [Publishes -> SUBSET Event]

PubackInit ==
    /\ at = "idle" /\ handled = None /\ result = "free"
    /\ state = [p \in Publishes |-> "new"]
    /\ control = [p \in Publishes |-> "none"]
    /\ taken = [p \in Publishes |-> FALSE]
    /\ active = [p \in Publishes |-> FALSE]
    /\ acquire = [t \in Threads |-> None]
    /\ handles = [p \in Publishes |-> 0]
    /\ invoked = [p \in Publishes |-> FALSE]
    /\ mishaps = [p \in Publishes |-> {}]

(* A PUBLISH of QoS 1: puback_control_id != 0. *)
Controlled(p) == control[p] # "none"

closureVars == <<taken, active, acquire, handles, invoked>>

Befalls(e, p) == e \in Events /\ mishaps' = [mishaps EXCEPT ![p] = @ \union {e}]

-----------------------------------------------------------------------------
(* s_on_publish_received.                                                   *)

(* Entry: for QoS 1, acquire the acknowledgement from the native client. *)
OnPublishReceived(p, qos) ==
    /\ at = "idle" /\ state[p] = "new"
    /\ handled' = p
    /\ at' = "convert"
    /\ state' = [state EXCEPT ![p] = "handling"]
    /\ control' = [control EXCEPT ![p] = IF qos = 1 THEN "held" ELSE "none"]
    /\ UNCHANGED <<result, closureVars, mishaps>>

(* A conversion of the packet's properties fails: goto cleanup. *)
ConversionFails ==
    /\ Befalls("conversion", handled)
    /\ at = "convert"
    /\ at' = "idle" /\ handled' = None
    /\ state' = [state EXCEPT ![handled] = "over"]
    /\ UNCHANGED <<result, control, closureVars>>

(* aws_mqtt5_client_invoke_publish_acknowledgement: an error unless held. *)
Acknowledge(p) ==
    control' = [control EXCEPT ![p] = IF @ = "held" THEN "acked" ELSE @]

(* Mutant: on an error of _on_publish nothing is acknowledged. *)
FreeOnlyWhenReturned == result = "free"

(* Not taken, or _on_publish failed: the binding acknowledges. *)
AutoAcknowledges == result \in {"free", "error"}

(* The end of s_on_publish_received, after _on_publish. *)
Finish ==
    /\ at = "finish"
    /\ at' = "idle" /\ handled' = None
    /\ state' = [state EXCEPT ![handled] = "over"]
    /\ IF AutoAcknowledges THEN Acknowledge(handled) ELSE UNCHANGED control
    /\ UNCHANGED <<result, closureVars, mishaps>>

-----------------------------------------------------------------------------
(* _ClientCore._on_publish.                                                 *)

(* The call fails before it reaches the application: PyObject_CallMethod cannot
   decode a string, or making the PublishPacket raises. *)
CallFails ==
    /\ at = "convert"
    /\ at' = "finish" /\ result' = "error"
    /\ UNCHANGED <<handled, state, control, closureVars, mishaps>>

(* No on_publish callback: return False. *)
NoCallback ==
    /\ at = "convert"
    /\ at' = "finish" /\ result' = "free"
    /\ UNCHANGED <<handled, state, control, closureVars, mishaps>>

(* Make the closure (QoS 1 only) and call the application. *)
CallApplication ==
    /\ at = "convert"
    /\ at' = "user"
    /\ active' = [active EXCEPT ![handled] = TRUE]
    /\ UNCHANGED <<handled, result, state, control, taken, acquire, handles, invoked, mishaps>>

(* callback_active = False *)
Deactivate == active' = [active EXCEPT ![handled] = FALSE]

CallbackReturns ==
    /\ at = "user"
    /\ at' = "returning"
    /\ Deactivate
    /\ UNCHANGED <<handled, result, state, control, taken, acquire, handles, invoked, mishaps>>

(* return puback_taken *)
ReturnedValue == IF taken[handled] THEN "taken" ELSE "free"

ReturnTaken ==
    /\ at = "returning"
    /\ at' = "finish"
    /\ result' = ReturnedValue
    /\ UNCHANGED <<handled, state, control, closureVars, mishaps>>

(* The application's exception leaves _on_publish at once. *)
CallbackRaises ==
    /\ Befalls("raise", handled)
    /\ at = "user"
    /\ at' = "finish" /\ result' = "error"
    /\ UNCHANGED <<handled, state, control, closureVars>>

-----------------------------------------------------------------------------
(* acquire_publish_acknowledgement_control().                               *)

(* Mutant: acquiring twice is not refused. *)
MayAcquireAgain(p) == Controlled(p) /\ active[p]

(* Its two checks; a call that fails one raises RuntimeError. *)
MayAcquire(p) == Controlled(p) /\ ~taken[p] /\ active[p]

Give(p) ==
    /\ taken' = [taken EXCEPT ![p] = TRUE]
    /\ handles' = [handles EXCEPT ![p] = @ + 1]

(* Inside the callback: no other step of this thread comes between. *)
AcquireInCallback ==
    /\ at = "user" /\ MayAcquire(handled)
    /\ Give(handled)
    /\ UNCHANGED <<at, handled, result, state, control, active, acquire, invoked, mishaps>>

(* From another thread the checks and the assignment are two steps.  Without
   "cross_thread" a thread calls the closure only when handling is over. *)
AcquireCheck(t, p) ==
    /\ acquire[t] = None
    /\ \/ state[p] = "over" /\ UNCHANGED mishaps
       \/ state[p] = "handling" /\ Befalls("cross_thread", p)
    /\ MayAcquire(p)
    /\ acquire' = [acquire EXCEPT ![t] = p]
    /\ UNCHANGED <<at, handled, result, state, control, taken, active, handles, invoked>>

AcquireTake(t) ==
    /\ acquire[t] # None
    /\ Give(acquire[t])
    /\ acquire' = [acquire EXCEPT ![t] = None]
    /\ UNCHANGED <<at, handled, result, state, control, active, invoked, mishaps>>

(* Client.invoke_publish_acknowledgement(handle) from any thread. *)
Invoke(p) ==
    /\ handles[p] > 0 /\ ~invoked[p]
    /\ invoked' = [invoked EXCEPT ![p] = TRUE]
    /\ Acknowledge(p)
    /\ UNCHANGED <<at, handled, result, state, taken, active, acquire, handles, mishaps>>

-----------------------------------------------------------------------------
PublishHandlerStep ==
    \/ ConversionFails \/ CallFails \/ NoCallback \/ CallApplication
    \/ CallbackReturns \/ CallbackRaises \/ ReturnTaken \/ Finish

PubackNext ==
    \/ \E p \in Publishes : \E qos \in {0, 1} : OnPublishReceived(p, qos)
    \/ PublishHandlerStep
    \/ AcquireInCallback
    \/ \E t \in Threads : AcquireTake(t) \/ \E p \in Publishes : AcquireCheck(t, p)
    \/ \E p \in Publishes : Invoke(p)

PubackSpec == PubackInit /\ [][PubackNext]_pubackVars

-----------------------------------------------------------------------------
(* A handle is exclusive control, for a PUBLISH whose callback returns and which
   no other thread meddles with: nobody else sends its PUBACK, and the closure
   gives out no second one, however late it is called.  Mishaps of one PUBLISH
   never reach another one's PUBACK. *)
UndisturbedHandleMeansControl ==
    \A p \in Publishes :
        mishaps[p] \subseteq {"conversion"} =>
            /\ handles[p] > 0 /\ ~invoked[p] => control[p] = "held"
            /\ handles[p] + Cardinality({t \in Threads : acquire[t] = p}) <= 1

Decided(p) == Controlled(p) => control[p] = "acked" \/ handles[p] > 0

(* When s_on_publish_received is over, a PUBLISH of QoS 1 that could be converted
   is acknowledged or the application has a handle for it: neither an exception
   of the application nor an acquire racing with the callback's end loses it. *)
ConvertedPubackNotLost ==
    \A p \in Publishes : state[p] = "over" /\ "conversion" \notin mishaps[p] => Decided(p)
=============================================================================
