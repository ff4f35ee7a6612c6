------------------------------ MODULE WebSocket ------------------------------
(***************************************************************************)
(* One client WebSocket: connect, WebSocket and _WebSocketCore             *)
(* (awscrt/websocket.py) with the callbacks, the capsule and the send      *)
(* operations of source/websocket.c.                                       *)
(*                                                                         *)
(* The event-loop thread runs one callback at a time; `thread` says which. *)
(* Each callback is two steps, the call into Python and the return of the  *)
(* user's callback, so that application threads (and the user's callback   *)
(* itself) may close, send or drop the WebSocket in between.               *)
(* The native websocket of aws-c-http is external: it is modelled by the   *)
(* order in which it calls the callbacks of this repository.               *)
(***************************************************************************)
EXTENDS Naturals, FiniteSets

CONSTANT Sends     \* calls of WebSocket.send_frame

(* A send is not confused with the other owners of the WebSocket. *)
ASSUME SendsAssumption == Sends \intersect {"setup", "user"} = {}

VARIABLES
    coreRefs,   \* references to the _WebSocketCore
    calling,    \* connect() has not returned: its frame holds `core`
    capsule,    \* WebSocket._binding, the PyCapsule around the native websocket
    holders,    \* who keeps the WebSocket object, hence the capsule, alive
    thread,     \* the callback the event-loop thread is in
    current,    \* the send whose completion is being reported, as a set
    frameAttr,  \* the core has a _current_incoming_frame
    fatal,      \* an exception left a core method: AWS_FATAL_ASSERT
    ops,        \* websocket_send_op allocated, with payload buffer and callback
    reported,   \* times the completion of each send was reported
    sent,       \* what send_frame did: not called, accepted or raised
    raised,     \* a user callback of a connected WebSocket raised
    (* the native websocket, outside this repository *)
    native,     \* its state
    reading,    \* no callback returned False yet: it still reads frames
    inFrame,    \* it is between the begin and the complete of a frame
    queued      \* sends it accepted and has not completed

coreVars == <<coreRefs, calling>>
frameVars == <<frameAttr, fatal, inFrame, reading>>
sendVars == <<current, ops, reported, sent, queued>>
vars == <<coreRefs, calling, capsule, holders, thread, current, frameAttr, fatal,
          ops, reported, sent, raised, native, reading, inFrame, queued>>

FrameCallback == {"begin", "payload", "complete"}

TypeOK ==
    /\ coreRefs \in Nat
    /\ calling \in BOOLEAN
    /\ capsule \in {"none", "live", "dead"}
    /\ holders \subseteq {"setup", "user"} \union Sends
    /\ thread \in {"idle", "setup", "setup_error", "send", "shutdown"} \union FrameCallback
    /\ current \subseteq Sends
    /\ frameAttr \in BOOLEAN
    /\ fatal \in BOOLEAN
    /\ ops \subseteq Sends
    /\ reported \in [Sends -> Nat]
    /\ sent \in [Sends -> {"no", "accepted", "raised"}]
    /\ raised \in BOOLEAN
    /\ native \in {"none", "connecting", "open", "closing", "finishing", "gone"}
    /\ reading \in BOOLEAN
    /\ inFrame \in BOOLEAN
    /\ queued \subseteq Sends

Init ==
    /\ coreRefs = 0 /\ calling = FALSE
    /\ capsule = "none" /\ holders = {} /\ thread = "idle"
    /\ frameAttr = FALSE /\ fatal = FALSE /\ inFrame = FALSE /\ reading = TRUE
    /\ current = {} /\ ops = {} /\ queued = {}
    /\ reported = [s \in Sends |-> 0] /\ sent = [s \in Sends |-> "no"]
    /\ raised = FALSE /\ native = "none"

(* aws_websocket_close, and what aws_websocket_release does to a websocket
   that is still open.  Closing a websocket twice has no effect. *)
AfterClose(n) == IF n = "open" THEN "closing" ELSE n

-----------------------------------------------------------------------------
(* connect()                                                                *)

(* connect() and aws_py_websocket_client_connect.  `core` is referenced by
   the Python frame and, for the callbacks, by C; when the native call fails
   the latter reference is given back. *)
Connect(ok) ==
    /\ native = "none" /\ ~calling
    /\ calling' = TRUE
    /\ coreRefs' = IF ok THEN 2 ELSE 1
    /\ native' = IF ok THEN "connecting" ELSE "gone"
    /\ UNCHANGED <<capsule, holders, thread, raised, frameVars, sendVars>>

(* connect() returns, or raises: its frame drops `core`. *)
ConnectReturns ==
    /\ calling
    /\ calling' = FALSE
    /\ coreRefs' = coreRefs - 1
    /\ UNCHANGED <<capsule, holders, thread, raised, native, frameVars, sendVars>>

(* connect() rejected its read-window arguments, or C an argument, before
   anything was allocated for the callbacks. *)
ConnectRejected ==
    /\ native = "none" /\ ~calling
    /\ native' = "gone"
    /\ UNCHANGED <<coreVars, capsule, holders, thread, raised, frameVars, sendVars>>

-----------------------------------------------------------------------------
(* The WebSocket object: it dies with its last holder.                      *)

(* s_websocket_capsule_destructor *)
CapsuleDestructor(n) == AfterClose(n)

(* Holder h lets go.  n: the native state the step leads to otherwise. *)
LetGo(h, n) ==
    /\ holders' = holders \ h
    /\ IF capsule = "live" /\ holders \subseteq h
       THEN capsule' = "dead" /\ native' = CapsuleDestructor(n)
       ELSE UNCHANGED capsule /\ native' = n

(* The application drops the WebSocket it stored. *)
DropWebSocket ==
    /\ "user" \in holders
    /\ LetGo({"user"}, native)
    /\ UNCHANGED <<coreVars, thread, raised, frameVars, sendVars>>

(* WebSocket.close *)
Close ==
    /\ "user" \in holders
    /\ native' = AfterClose(native)
    /\ UNCHANGED <<coreVars, capsule, holders, thread, raised, frameVars, sendVars>>

-----------------------------------------------------------------------------
(* Connection setup and shutdown.                                           *)

(* s_websocket_on_connection_setup and _WebSocketCore._on_connection_setup,
   up to the user's callback.  On success there is a capsule, and a WebSocket
   that owns it and is referenced by the data passed to the callback. *)
OnConnectionSetup(ok) ==
    /\ native = "connecting" /\ thread = "idle"
    /\ thread' = IF ok THEN "setup" ELSE "setup_error"
    /\ native' = IF ok THEN "open" ELSE "gone"
    /\ capsule' = IF ok THEN "live" ELSE "none"
    /\ holders' = IF ok THEN {"setup"} ELSE {}
    /\ UNCHANGED <<coreVars, raised, frameVars, sendVars>>

(* The user's on_connection_setup stores the WebSocket. *)
StoreWebSocket ==
    /\ thread = "setup"
    /\ holders' = holders \union {"user"}
    /\ UNCHANGED <<coreVars, capsule, thread, raised, native, frameVars, sendVars>>

(* Mutant: the exception is printed, the WebSocket stays as it is. *)
PrintOnly(n, r) == n

(* An exception r of the user's callback is printed and the WebSocket closed. *)
CloseIfRaised(n, r) == IF r THEN AfterClose(n) ELSE n

(* The user's on_connection_setup returned, or raised (r): the data is dropped
   and the callback gives back its reference to the capsule. *)
SetupReturns(r) ==
    /\ thread = "setup"
    /\ thread' = "idle"
    /\ raised' = (raised \/ r)
    /\ LetGo({"setup"}, CloseIfRaised(native, r))
    /\ UNCHANGED <<coreVars, frameVars, sendVars>>

(* Mutant: the core is not released. *)
KeepCore == coreRefs

(* Py_DECREF of the core after the last callback. *)
ReleaseCore == coreRefs - 1

(* The user's callback was told of the failure; whether it raised makes no
   difference.  There will be no further callback. *)
SetupErrorReturns ==
    /\ thread = "setup_error"
    /\ thread' = "idle"
    /\ coreRefs' = ReleaseCore
    /\ UNCHANGED <<calling, capsule, holders, raised, native, frameVars, sendVars>>

(* s_websocket_on_connection_shutdown: called once everything else has been
   reported. *)
OnConnectionShutdown ==
    /\ native = "finishing" /\ queued = {} /\ ~inFrame /\ thread = "idle"
    /\ thread' = "shutdown" /\ native' = "gone"
    /\ UNCHANGED <<coreVars, capsule, holders, raised, frameVars, sendVars>>

(* The user's on_connection_shutdown returned or raised. *)
ShutdownReturns ==
    /\ thread = "shutdown"
    /\ thread' = "idle"
    /\ coreRefs' = ReleaseCore
    /\ UNCHANGED <<calling, capsule, holders, raised, native, frameVars, sendVars>>

-----------------------------------------------------------------------------
(* Incoming frames.                                                         *)

CanRead == native \in {"open", "closing"} /\ reading /\ thread = "idle"

(* s_websocket_on_incoming_frame_begin.  The frame is stored before the
   user's callback can raise. *)
OnIncomingFrameBegin ==
    /\ CanRead /\ ~inFrame
    /\ inFrame' = TRUE /\ frameAttr' = TRUE
    /\ thread' = "begin"
    /\ UNCHANGED <<coreVars, capsule, holders, raised, native, fatal, reading, sendVars>>

(* s_websocket_on_incoming_frame_payload reads _current_incoming_frame. *)
OnIncomingFramePayload ==
    /\ CanRead /\ inFrame
    /\ thread' = "payload"
    /\ fatal' = (fatal \/ ~frameAttr)
    /\ UNCHANGED <<coreVars, capsule, holders, raised, native, frameAttr, inFrame,
                   reading, sendVars>>

(* s_websocket_on_incoming_frame_complete: the frame was received, or the
   native websocket is finishing and reports an error for it. *)
OnIncomingFrameComplete ==
    /\ inFrame /\ thread = "idle"
    /\ CanRead \/ native = "finishing"
    /\ thread' = "complete"
    /\ fatal' = (fatal \/ ~frameAttr)       \* read, then del
    /\ frameAttr' = FALSE /\ inFrame' = FALSE
    /\ UNCHANGED <<coreVars, capsule, holders, raised, native, reading, sendVars>>

(* Only _on_incoming_frame_complete deletes the frame, so that the payload
   and complete callbacks that follow an exception still find it. *)
KeepFrame(r) == frameAttr

(* The user's frame callback returned.  When it raised the core returns False,
   and the native websocket stops reading and closes. *)
FrameReturns(r) ==
    /\ thread \in FrameCallback
    /\ thread' = "idle"
    /\ raised' = (raised \/ r)
    /\ reading' = (reading /\ ~r)
    /\ native' = CloseIfRaised(native, r)
    /\ frameAttr' = KeepFrame(r)
    /\ UNCHANGED <<coreVars, capsule, holders, fatal, inFrame, sendVars>>

-----------------------------------------------------------------------------
(* Sending.                                                                 *)

(* Mutant: the closure refers to the WebSocket weakly. *)
WeakClosure(s) == {}

(* The closure send_frame makes over on_complete calls self.close(), so it
   keeps the WebSocket. *)
ClosureHolds(s) == {s}

(* Mutant: the op is kept when the native call fails. *)
LeakOp(s, accepted) == ops \union {s}

(* aws_py_websocket_send_frame: the op holds the payload and the closure, and
   is destroyed at `error:` when the native call fails. *)
AfterSend(s, accepted) == IF accepted THEN ops \union {s} ELSE ops

(* WebSocket.send_frame.  The native websocket may refuse (a bad frame, or a
   websocket on its way down) and does once it is finishing. *)
SendFrame(s, accepted) ==
    /\ "user" \in holders /\ sent[s] = "no"
    /\ accepted => native \in {"open", "closing"}
    /\ sent' = [sent EXCEPT ![s] = IF accepted THEN "accepted" ELSE "raised"]
    /\ ops' = AfterSend(s, accepted)
    /\ queued' = IF accepted THEN queued \union {s} ELSE queued
    /\ holders' = IF accepted THEN holders \union ClosureHolds(s) ELSE holders
    /\ UNCHANGED <<coreVars, capsule, thread, current, reported, raised, native, frameVars>>

(* s_websocket_on_send_frame_complete up to the user's on_complete: the frame
   was written, or the websocket is going down. *)
OnSendFrameComplete(s) ==
    /\ s \in queued /\ thread = "idle"
    /\ native \in {"open", "closing", "finishing"}
    /\ thread' = "send" /\ current' = {s}
    /\ queued' = queued \ {s}
    /\ reported' = [reported EXCEPT ![s] = @ + 1]
    /\ UNCHANGED <<coreVars, capsule, holders, ops, sent, raised, native, frameVars>>

(* on_complete returned or raised; s_websocket_send_op_destroy. *)
SendCompleteReturns(r) ==
    /\ thread = "send"
    /\ thread' = "idle" /\ current' = {}
    /\ raised' = (raised \/ r)
    /\ ops' = ops \ current
    /\ LetGo(current, CloseIfRaised(native, r))
    /\ UNCHANGED <<coreVars, reported, sent, queued, frameVars>>

-----------------------------------------------------------------------------
(* The native websocket by itself.                                          *)

(* The peer closes, or the connection breaks. *)
PeerCloses ==
    /\ native = "open"
    /\ native' = "closing"
    /\ UNCHANGED <<coreVars, capsule, holders, thread, raised, frameVars, sendVars>>

(* The channel is down: what is unfinished will be reported as failed. *)
Finish ==
    /\ native = "closing" /\ thread = "idle"
    /\ native' = "finishing"
    /\ UNCHANGED <<coreVars, capsule, holders, thread, raised, frameVars, sendVars>>

-----------------------------------------------------------------------------
Callbacks ==
    \/ \E ok \in BOOLEAN : OnConnectionSetup(ok)
    \/ OnConnectionShutdown
    \/ OnIncomingFrameBegin \/ OnIncomingFramePayload \/ OnIncomingFrameComplete
    \/ \E s \in Sends : OnSendFrameComplete(s)

Returns ==
    \/ \E r \in BOOLEAN : SetupReturns(r) \/ FrameReturns(r) \/ SendCompleteReturns(r)
    \/ SetupErrorReturns \/ ShutdownReturns \/ ConnectReturns

Application ==
    \/ \E ok \in BOOLEAN : Connect(ok)
    \/ ConnectRejected \/ StoreWebSocket \/ DropWebSocket \/ Close
    \/ \E s \in Sends, a \in BOOLEAN : SendFrame(s, a)

Next == Callbacks \/ Returns \/ Application \/ PeerCloses \/ Finish

Spec == Init /\ [][Next]_vars

(* User callbacks return.  A websocket that is being closed gets to its last
   callback: aws-c-http bounds the closing handshake by a timeout, and then
   reports what is unfinished.  Nothing is assumed of a healthy connection:
   frames may stop half-way and sends may stay queued for ever. *)
FairSpec ==
    /\ Spec
    /\ WF_vars(Returns)
    /\ SF_vars(Finish)
    /\ SF_vars(OnConnectionShutdown)
    /\ SF_vars(native = "finishing" /\ OnIncomingFrameComplete)
    /\ \A s \in Sends : SF_vars(native = "finishing" /\ OnSendFrameComplete(s))

-----------------------------------------------------------------------------
(* Properties.                                                              *)

(* C still is in, or may yet make, a callback into the core. *)
MayCallBack == native \notin {"none", "gone"} \/ thread # "idle"

(* The _WebSocketCore lives exactly as long as connect() runs or a callback
   may use it: it is not freed under a callback, not released twice, and not
   leaked, whether connect fails, setup fails or the connection is shut down
   ("kept alive by C until the final callback occurs"). *)
CoreOutlivesCallbacks == (coreRefs > 0) <=> (calling \/ MayCallBack)

(* No callback kills the process: the payload and complete callbacks find the
   _current_incoming_frame of the begin that precedes them, also when a user
   callback raised in between or the connection was lost in mid-frame. *)
NeverFatal == ~fatal

(* Exactly the sends the native websocket holds, and the one being reported,
   have an op: a payload is never read after its buffer was released, the op
   of a refused or finished send is not leaked.  A completion is reported once
   for an accepted send, and never for one that raised. *)
SendsSettledOnce ==
    /\ ops = queued \union current
    /\ \A s \in Sends :
          reported[s] = IF sent[s] = "accepted" /\ s \notin queued THEN 1 ELSE 0

(* While C reports a setup or a send, the WebSocket on which the Python code
   will call close() if the user's callback raises has a live capsule, also
   when the application has dropped it. *)
CallbackCanClose == thread \in {"setup", "send"} => capsule = "live"

(* "If this callback raises an exception, the connection will shut down." *)
RaisingShutsDown == raised ~> (native = "gone" /\ thread = "idle")

=============================================================================
