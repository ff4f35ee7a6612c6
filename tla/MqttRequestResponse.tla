------------------------ MODULE MqttRequestResponse ------------------------
(***************************************************************************)
(* The MQTT request-response client (awscrt/mqtt_request_response.py) over *)
(* its binding (source/mqtt_request_response.c), on a 3.1.1 Connection.    *)
(* The native client holds the native connection, so the connection's      *)
(* binding has to live until the client and its operations are gone.       *)
(*                                                                         *)
(* A streaming operation has a binding of its own: its capsule's destructor*)
(* releases the native operation and then stores NULL in the binding, while*)
(* the event loop's termination callback frees that same binding.  The GIL *)
(* keeps the two apart; free-threaded builds do not.                       *)
(***************************************************************************)
EXTENDS MqttConnection

CONSTANTS Request   \* calls of make_request()

VARIABLES
    rrHeld,    \* the application references the Client
    req,       \* the state of each request in the native client
    stream,    \* the one streaming operation
    streamMem  \* its binding: "none", "live" or "freed"

rrVars == <<rr, rrHeld, req, stream, streamMem>>
vars == <<mqttVars, rrHeld, req, stream, streamMem>>

RrTypeOK ==
    /\ TypeOK
    /\ rrHeld \in BOOLEAN
    /\ req \in [Request -> {"none", "open", "ended"}]
    /\ stream \in {"none", "created", "active", "storing", "released"}
    /\ streamMem \in {"none", "live", "freed"}

RrInit ==
    /\ Init
    /\ rrHeld = FALSE
    /\ req = [r \in Request |-> "none"]
    /\ stream = "none" /\ streamMem = "none"

(* Client.__init__: options that do not validate, or that the native client
   refuses, raise and leave nothing; otherwise the client references the
   native connection. *)
ClientNew ==
    /\ held /\ rr = "none"
    /\ rr' = "live" /\ rrHeld' = TRUE
    /\ UNCHANGED <<connVars, opVars, req, stream, streamMem>>

(* RequestOptions.validate(), arguments that do not convert and a submission that
   the native client refuses: make_request() raises, or has completed the future
   it returns. *)
NotSubmitted(r) == req' = [req EXCEPT ![r] = "ended"]

Submitted(r) == req' = [req EXCEPT ![r] = "open"]

MakeRequest(r) ==
    /\ rrHeld /\ req[r] = "none"
    /\ NotSubmitted(r) \/ Submitted(r)
    /\ UNCHANGED <<connVars, opVars, rr, rrHeld, stream, streamMem>>

(* on_request_complete: the response, or the error of a timeout or of the
   client's shutdown. *)
OnRequestComplete(r) ==
    /\ req[r] = "open" /\ rr # "gone"
    /\ req' = [req EXCEPT ![r] = "ended"]
    /\ UNCHANGED <<connVars, opVars, rr, rrHeld, stream, streamMem>>

(* create_stream: the native client's refusal frees the new binding. *)
CreateStream ==
    /\ rrHeld /\ stream = "none"
    /\ \/ stream' = "created" /\ streamMem' = "live"
       \/ stream' = "released" /\ streamMem' = "freed"
    /\ UNCHANGED <<connVars, opVars, rr, rrHeld, req>>

(* StreamingOperation.open(): from here on status events and publishes can
   reach the listeners; opening it again changes nothing. *)
Open ==
    /\ stream = "created"
    /\ stream' = "active"
    /\ UNCHANGED <<connVars, opVars, rr, rrHeld, req, streamMem>>

(* The capsule's destructor: the native operation is released... *)
DropStream ==
    /\ stream \in {"created", "active"}
    /\ stream' = "storing"
    /\ UNCHANGED <<connVars, opVars, rr, rrHeld, req, streamMem>>

(* ...and the NULL that release returns is stored in the binding.  Without the
   GIL of other builds, a free-threaded one may have freed it before. *)
StoreNull ==
    /\ stream = "storing"
    /\ stream' = "released"
    /\ UNCHANGED <<connVars, opVars, rr, rrHeld, req, streamMem>>

(* The termination callback, once the native operation is released. *)
StreamTerminated ==
    /\ stream \in {"storing", "released"} /\ streamMem = "live"
    /\ streamMem' = "freed"
    /\ UNCHANGED <<connVars, opVars, rr, rrHeld, req, stream>>

(* The application drops the Client: the capsule releases the native one... *)
DropClient ==
    /\ rrHeld
    /\ rrHeld' = FALSE /\ rr' = "releasing"
    /\ UNCHANGED <<connVars, opVars, req, stream, streamMem>>

(* ...which ends when its operations have, and releases the connection. *)
ClientGone ==
    /\ rr = "releasing"
    /\ \A r \in Request : req[r] # "open"
    /\ streamMem # "live"
    /\ rr' = "gone"
    /\ UNCHANGED <<connVars, opVars, rrHeld, req, stream, streamMem>>

RrStep ==
    \/ ClientNew \/ DropClient \/ ClientGone
    \/ \E r \in Request : MakeRequest(r) \/ OnRequestComplete(r)
    \/ CreateStream \/ Open \/ DropStream \/ StoreNull \/ StreamTerminated

Next ==
    \/ (ApplicationStep \/ EventLoopStep) /\ UNCHANGED rrVars
    \/ RrStep

(* The connection is up, or is being destroyed and fails what it has queued. *)
Answering == native = "connected" \/ Terminating

(* Native tasks run and the application's C calls return.  The peer answers an
   operation if the connection is up often enough; nothing makes a connection
   come up. *)
Fairness ==
    /\ WF_vars((\E ok \in BOOLEAN : OnConnect(ok)) /\ UNCHANGED rrVars)
    /\ WF_vars((OnDisconnect \/ CallbackEnd \/ Terminated) /\ UNCHANGED rrVars)
    /\ \A o \in Op : SF_vars(Answering /\ OnAck(o) /\ UNCHANGED rrVars)

Spec == RrInit /\ [][Next]_vars /\ Fairness
=============================================================================
