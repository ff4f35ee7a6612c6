--------------------------- MODULE HttpConnection ---------------------------
(***************************************************************************)
(* Lifetime of one HTTP client connection and of the streams made on it:   *)
(* HttpClientConnectionBase._generic_new and _HttpClientConnectionCore     *)
(* (awscrt/http.py), the reference-counted http_connection_binding         *)
(* (source/http_connection.c) and the http_stream_binding                  *)
(* (source/http_stream.c).                                                 *)
(*                                                                         *)
(* The connection's event-loop thread runs the callbacks; application      *)
(* threads create and drop the Python objects.  A callback is cut at every *)
(* point where it calls into Python and where it releases something, so    *)
(* application steps fall between, as they do when the interpreter switches*)
(* threads or runs without a GIL.  `thread` is where the event-loop thread *)
(* stands.  The two calls of the capsule destructor are two steps too.     *)
(***************************************************************************)
EXTENDS Integers, FiniteSets

CONSTANT Streams   \* requests the application may make on the connection

(* Streams are not confused with the other things a reference can be to. *)
ASSUME StreamsAssumption == Streams \intersect {"setup", "user", "connection"} = {}

VARIABLES
    (* C side *)
    binding,      \* the http_connection_binding: not allocated, live or freed
    refCount,     \* its aws_ref_count
    coreRef,      \* it holds a reference to py_core
    capsule,      \* the PyCapsule around it
    thread,       \* where the event-loop thread is, see above
    outcome,      \* error of the callback under way: TRUE when there is one
    (* the native connection, outside this repository *)
    native,       \* its state
    nativeRef,    \* the binding has not released it yet
    (* Python side *)
    connectFuture,  \* the future _generic_new returned
    coreHasFuture,  \* _HttpClientConnectionCore._connect_future is not None
    shutdownFuture, \* _HttpClientConnectionCore._shutdown_future
    holders,        \* who keeps the capsule alive
    wanted,         \* the application still holds connectFuture or its result
    (* streams *)
    stream,       \* state of each native stream
    pyRefs,       \* reference count of each Python stream object
    userRef,      \* the application refers to the stream
    activating    \* a thread is inside http_client_stream_activate

connVars == <<binding, refCount, coreRef, capsule>>
pyVars == <<connectFuture, coreHasFuture, shutdownFuture>>
streamVars == <<stream, pyRefs, userRef, activating>>
vars == <<binding, refCount, coreRef, capsule, thread, outcome, native, nativeRef,
          connectFuture, coreHasFuture, shutdownFuture, holders, wanted,
          stream, pyRefs, userRef, activating>>

FutureState == {"pending", "finished", "exception", "cancelled"}

(* "setup" stands for the reference s_on_client_connection_setup itself has. *)
Holder == {"setup", "user"} \union Streams

ThreadAt == {"idle", "setup_py", "setup_end", "settings_py", "shutdown_py",
             "shutdown_release", "complete_py"}

TypeOK ==
    /\ binding \in {"none", "live", "freed"}
    /\ refCount \in Nat
    /\ coreRef \in BOOLEAN
    /\ capsule \in {"none", "live", "releasing", "dead"}
    /\ thread \in [at : ThreadAt, on : Streams \union {"connection"}]
    /\ outcome \in BOOLEAN
    /\ native \in {"none", "connecting", "open", "closing", "shutdown"}
    /\ nativeRef \in BOOLEAN
    /\ connectFuture \in FutureState
    /\ coreHasFuture \in BOOLEAN
    /\ shutdownFuture \in FutureState \union {"none"}
    /\ holders \subseteq Holder
    /\ wanted \in BOOLEAN
    /\ stream \in [Streams -> {"none", "made", "active", "complete", "released"}]
    /\ pyRefs \in [Streams -> Int]
    /\ userRef \in [Streams -> BOOLEAN]
    /\ activating \in [Streams -> BOOLEAN]

Idle == [at |-> "idle", on |-> "connection"]
Conn(a) == [at |-> a, on |-> "connection"]

Init ==
    /\ binding = "none" /\ refCount = 0 /\ coreRef = FALSE /\ capsule = "none"
    /\ thread = Idle /\ outcome = FALSE
    /\ native = "none" /\ nativeRef = FALSE
    /\ connectFuture = "pending" /\ coreHasFuture = TRUE
    /\ shutdownFuture = "none"
    /\ holders = {} /\ wanted = TRUE
    /\ stream = [s \in Streams |-> "none"]
    /\ pyRefs = [s \in Streams |-> 0]
    /\ userRef = [s \in Streams |-> FALSE]
    /\ activating = [s \in Streams |-> FALSE]

(* aws_ref_count_release; the last one runs s_connection_destroy. *)
Release ==
    /\ refCount' = refCount - 1
    /\ IF refCount = 1
       THEN binding' = "freed" /\ coreRef' = FALSE
       ELSE UNCHANGED <<binding, coreRef>>

(* set_result/set_exception raises when the future was cancelled. *)
Resolve(f, s) == IF f = "pending" THEN s ELSE f

-----------------------------------------------------------------------------
(* Creating the connection.                                                 *)

(* aws_py_http_client_connection_new, called by _generic_new.  "early" fails
   before the binding is allocated; "option" fails in a conversion, before
   py_core is stored; "connect" fails in aws_http_client_connect.  Every
   failure makes _generic_new put the exception into the future. *)
ConnectionNew(o) ==
    /\ binding = "none" /\ connectFuture = "pending"
    /\ \/ /\ o = "early"
          /\ UNCHANGED <<binding, refCount, coreRef, native>>
       \/ /\ o \in {"option", "connect"}
          /\ binding' = "freed"            \* ref_count 1, released at done:
          /\ UNCHANGED <<refCount, coreRef, native>>
       \/ /\ o = "ok"
          /\ binding' = "live" /\ refCount' = 1 /\ coreRef' = TRUE
          /\ native' = "connecting"
    /\ connectFuture' = IF o = "ok" THEN "pending" ELSE "exception"
    /\ UNCHANGED <<capsule, thread, outcome, nativeRef, coreHasFuture,
                   shutdownFuture, holders, wanted, streamVars>>

(* Mutant: do not take a reference for the connection thread. *)
NoThreadRef == refCount

(* s_on_client_connection_setup takes a reference for the callbacks of the
   connection thread, next to the one the capsule will own. *)
WithThreadRef == refCount + 1

(* s_on_client_connection_setup up to the call into Python.  failure is TRUE
   when the connection could not be made; noCapsule when it was made and
   PyCapsule_New failed, which Python is told as an error too. *)
OnConnectionSetup(failure, noCapsule) ==
    /\ native = "connecting" /\ thread = Idle
    /\ failure => ~noCapsule
    /\ native' = IF failure THEN "none" ELSE "open"
    /\ nativeRef' = ~failure
    /\ refCount' = IF failure THEN refCount ELSE WithThreadRef
    /\ capsule' = IF failure \/ noCapsule THEN "none" ELSE "live"
    /\ holders' = IF failure \/ noCapsule THEN {} ELSE {"setup"}
    /\ outcome' = (failure \/ noCapsule)
    /\ thread' = Conn("setup_py")
    /\ UNCHANGED <<binding, coreRef, pyVars, wanted, streamVars>>

(* _on_connection_setup reports a failed connection, and one of the wrong
   version, through the future. *)
ConnectFailed == Resolve(connectFuture, "exception")

(* _HttpClientConnectionCore._on_connection_setup.  On success the connection
   object owns the capsule and is the result of the future: whoever holds the
   future holds the capsule.  When the future was cancelled, set_result raises
   after _shutdown_future was stored, and the connection object dies with the
   frame.  `mismatch`: the negotiated version is not the expected one. *)
PyOnConnectionSetup(mismatch) ==
    /\ thread = Conn("setup_py")
    /\ thread' = Conn("setup_end")
    /\ IF outcome \/ mismatch
       THEN /\ connectFuture' = ConnectFailed
            /\ UNCHANGED <<coreHasFuture, shutdownFuture, holders>>
       ELSE /\ shutdownFuture' = "pending"
            /\ connectFuture' = Resolve(connectFuture, "finished")
            /\ coreHasFuture' = (connectFuture = "cancelled")
            /\ holders' = IF connectFuture = "pending" /\ wanted
                          THEN holders \union {"user"} ELSE holders
    /\ UNCHANGED <<connVars, outcome, native, nativeRef, wanted, streamVars>>

(* Mutant: the version without a capsule keeps the initial reference. *)
KeepInitialRef == UNCHANGED <<binding, refCount, coreRef>>

(* Nobody will own the initial reference: release it. *)
ReleaseInitialRef == Release

(* The rest of s_on_client_connection_setup. *)
SetupEnd ==
    /\ thread = Conn("setup_end")
    /\ thread' = Idle
    /\ IF capsule = "none"
       THEN /\ ReleaseInitialRef
            /\ nativeRef' = FALSE    \* aws_http_connection_release, if it was made
            /\ UNCHANGED <<capsule, holders>>
       ELSE /\ holders' = holders \ {"setup"}      \* Py_XDECREF(capsule)
            /\ capsule' = IF holders = {"setup"} THEN "releasing" ELSE capsule
            /\ UNCHANGED <<binding, refCount, coreRef, nativeRef>>
    /\ UNCHANGED <<outcome, native, pyVars, wanted, streamVars>>

-----------------------------------------------------------------------------
(* The capsule destructor, in the thread that dropped the last holder.      *)

(* s_connection_capsule_destructor: release the native connection ... *)
DestructorReleasesNative ==
    /\ capsule = "releasing" /\ nativeRef
    /\ nativeRef' = FALSE
    /\ UNCHANGED <<connVars, thread, outcome, native, pyVars, holders, wanted, streamVars>>

(* ... then the binding's reference. *)
DestructorReleasesBinding ==
    /\ capsule = "releasing" /\ ~nativeRef
    /\ capsule' = "dead"
    /\ Release
    /\ UNCHANGED <<thread, outcome, native, nativeRef, pyVars, holders, wanted, streamVars>>

(* Holder h lets go of the connection object. *)
LetGo(h) ==
    /\ holders' = holders \ {h}
    /\ capsule' = IF holders = {h} THEN "releasing" ELSE capsule

-----------------------------------------------------------------------------
(* The native connection.                                                   *)

NativeStreams == {s \in Streams : stream[s] \in {"made", "active", "complete"}}

(* It starts to close when the application or the peer closes it ... *)
Close ==
    /\ native = "open"
    /\ native' = "closing"
    /\ UNCHANGED <<connVars, thread, outcome, nativeRef, pyVars, holders, wanted, streamVars>>

PeerCloses == native = "open" /\ Close
UserCloses == "user" \in holders /\ native = "open" /\ Close

(* ... or when nothing refers to it any more. *)
Unreferenced == native = "open" /\ ~nativeRef /\ NativeStreams = {} /\ Close

(* s_http2_on_remote_settings_change: any time until shutdown. *)
OnRemoteSettingsChange ==
    /\ native \in {"open", "closing"} /\ thread = Idle
    /\ thread' = Conn("settings_py")
    /\ UNCHANGED <<connVars, outcome, native, nativeRef, pyVars, holders, wanted, streamVars>>

RemoteSettingsReturn ==
    /\ thread = Conn("settings_py")
    /\ thread' = Idle
    /\ UNCHANGED <<connVars, outcome, native, nativeRef, pyVars, holders, wanted, streamVars>>

(* s_on_connection_shutdown enters Python once the streams are complete. *)
OnConnectionShutdown(error) ==
    /\ native = "closing" /\ thread = Idle
    /\ \A s \in Streams : stream[s] # "active"
    /\ native' = "shutdown"
    /\ outcome' = error
    /\ thread' = Conn("shutdown_py")
    /\ UNCHANGED <<connVars, nativeRef, pyVars, holders, wanted, streamVars>>

(* _on_shutdown: ignored when no connection object was ever made. *)
ShutdownResult ==
    IF shutdownFuture = "none" THEN "none"
    ELSE Resolve(shutdownFuture, IF outcome THEN "exception" ELSE "finished")

PyOnShutdown ==
    /\ thread = Conn("shutdown_py")
    /\ thread' = Conn("shutdown_release")
    /\ shutdownFuture' = ShutdownResult
    /\ UNCHANGED <<connVars, outcome, native, nativeRef, connectFuture,
                   coreHasFuture, holders, wanted, streamVars>>

ShutdownRelease ==
    /\ thread = Conn("shutdown_release")
    /\ thread' = Idle
    /\ Release
    /\ UNCHANGED <<capsule, outcome, native, nativeRef, pyVars, holders, wanted, streamVars>>

-----------------------------------------------------------------------------
(* The application and the connection.                                      *)

CancelConnect ==
    /\ wanted /\ connectFuture = "pending" /\ binding # "none"
    /\ connectFuture' = "cancelled"
    /\ UNCHANGED <<connVars, thread, outcome, native, nativeRef, coreHasFuture,
                   shutdownFuture, holders, wanted, streamVars>>

(* AIOHttpClientConnectionUnified.close() awaits shutdown_future. *)
CancelShutdown ==
    /\ shutdownFuture = "pending" /\ "user" \in holders
    /\ shutdownFuture' = "cancelled"
    /\ UNCHANGED <<connVars, thread, outcome, native, nativeRef, connectFuture,
                   coreHasFuture, holders, wanted, streamVars>>

(* Drop the future and, if it has one, the connection. *)
DropConnection ==
    /\ wanted /\ (binding # "none" \/ connectFuture # "pending")
    /\ wanted' = FALSE
    /\ IF "user" \in holders THEN LetGo("user") ELSE UNCHANGED <<holders, capsule>>
    /\ UNCHANGED <<binding, refCount, coreRef, thread, outcome, native, nativeRef,
                   pyVars, streamVars>>

-----------------------------------------------------------------------------
(* Streams.                                                                 *)

(* _init_common / aws_py_http_client_stream_new: the stream's capsule holds
   the connection object.  When the native request fails, the new capsule is
   dropped and with it that reference; nothing changes. *)
MakeRequest(s) ==
    /\ "user" \in holders /\ stream[s] = "none"
    /\ native = "open"
    /\ stream' = [stream EXCEPT ![s] = "made"]
    /\ pyRefs' = [pyRefs EXCEPT ![s] = 1]
    /\ userRef' = [userRef EXCEPT ![s] = TRUE]
    /\ holders' = holders \union {s}
    /\ UNCHANGED <<connVars, thread, outcome, native, nativeRef, pyVars, wanted, activating>>

(* aws_py_http_client_stream_activate: the call's arguments refer to the
   stream while it runs.  The native call may fail. *)
Activate(s) ==
    /\ userRef[s] /\ stream[s] = "made" /\ ~activating[s]
    /\ native = "open"
    /\ activating' = [activating EXCEPT ![s] = TRUE]
    /\ pyRefs' = [pyRefs EXCEPT ![s] = @ + 1]
    /\ stream' = [stream EXCEPT ![s] = "active"]
    /\ UNCHANGED <<connVars, thread, outcome, native, nativeRef, pyVars, holders,
                   wanted, userRef>>

(* Py_INCREF(py_stream) and return, which drops the argument reference. *)
PinAndReturn(s) == [pyRefs EXCEPT ![s] = @ + 1 - 1]

ActivateReturn(s) ==
    /\ activating[s]
    /\ activating' = [activating EXCEPT ![s] = FALSE]
    /\ pyRefs' = PinAndReturn(s)
    /\ UNCHANGED <<connVars, thread, outcome, native, nativeRef, pyVars, holders,
                   wanted, stream, userRef>>

(* s_on_stream_complete enters _on_complete of the stream. *)
OnStreamComplete(s) ==
    /\ stream[s] = "active" /\ thread = Idle
    /\ stream' = [stream EXCEPT ![s] = "complete"]
    /\ thread' = [at |-> "complete_py", on |-> s]
    /\ UNCHANGED <<connVars, outcome, native, nativeRef, pyVars, holders, wanted,
                   pyRefs, userRef, activating>>

(* Mutant: aws_py_weakref_get_ref's own reference is not given back. *)
DecrefOnce(s) == [pyRefs EXCEPT ![s] = @ + 1 - 1]

(* A strong reference from the weak one, then two DECREFs. *)
DecrefTwice(s) == [pyRefs EXCEPT ![s] = @ + 1 - 2]

StreamCompleteDecref(s) ==
    /\ thread = [at |-> "complete_py", on |-> s]
    /\ thread' = Idle
    /\ pyRefs' = DecrefTwice(s)
    /\ UNCHANGED <<connVars, outcome, native, nativeRef, pyVars, holders, wanted,
                   stream, userRef, activating>>

DropStream(s) ==
    /\ userRef[s] /\ ~activating[s]
    /\ userRef' = [userRef EXCEPT ![s] = FALSE]
    /\ pyRefs' = [pyRefs EXCEPT ![s] = @ - 1]
    /\ UNCHANGED <<connVars, thread, outcome, native, nativeRef, pyVars, holders,
                   wanted, stream, activating>>

(* The Python stream object dies: s_stream_capsule_destructor. *)
StreamDealloc(s) ==
    /\ s \in holders /\ pyRefs[s] = 0
    /\ stream' = [stream EXCEPT ![s] = "released"]
    /\ LetGo(s)
    /\ UNCHANGED <<binding, refCount, coreRef, thread, outcome, native, nativeRef,
                   pyVars, wanted, pyRefs, userRef, activating>>

-----------------------------------------------------------------------------
SetupCallback == \E f, n \in BOOLEAN : OnConnectionSetup(f, n)
ShutdownCallback == \E e \in BOOLEAN : OnConnectionShutdown(e)
CallbackStep ==
    \/ \E m \in BOOLEAN : PyOnConnectionSetup(m)
    \/ SetupEnd \/ RemoteSettingsReturn \/ PyOnShutdown \/ ShutdownRelease
    \/ \E s \in Streams : StreamCompleteDecref(s)
Destructor == DestructorReleasesNative \/ DestructorReleasesBinding

Next ==
    \/ \E o \in {"early", "option", "connect", "ok"} : ConnectionNew(o)
    \/ SetupCallback \/ ShutdownCallback \/ CallbackStep \/ Destructor
    \/ PeerCloses \/ UserCloses \/ Unreferenced \/ OnRemoteSettingsChange
    \/ CancelConnect \/ CancelShutdown \/ DropConnection
    \/ \E s \in Streams : \/ MakeRequest(s) \/ Activate(s) \/ ActivateReturn(s)
                          \/ OnStreamComplete(s) \/ DropStream(s) \/ StreamDealloc(s)

(* A callback, a destructor and activate() run to their end.  The native
   client answers a connection attempt, completes the streams of a closing
   connection and shuts it down; its event loop serves these in order, so
   later settings frames do not postpone them for ever (strong fairness). *)
Fairness ==
    /\ WF_vars(SetupCallback) /\ SF_vars(ShutdownCallback)
    /\ WF_vars(CallbackStep) /\ WF_vars(Destructor) /\ WF_vars(Unreferenced)
    /\ \A s \in Streams : /\ WF_vars(ActivateReturn(s)) /\ WF_vars(StreamDealloc(s))
                          /\ SF_vars(OnStreamComplete(s))

Spec == Init /\ [][Next]_vars
FairSpec == Spec /\ Fairness

-----------------------------------------------------------------------------
(* The connection thread may still run a callback with the binding. *)
CallbackMayRun ==
    \/ native \in {"connecting", "open", "closing"}
    \/ thread.at \in {"setup_py", "setup_end", "shutdown_py", "shutdown_release"}

CapsuleOwns == capsule \in {"live", "releasing"}

(* The binding, and the Python core it refers to, exist exactly as long as
   the connection thread may run a callback with it or a capsule points to
   it: s_on_connection_shutdown, s_http2_on_remote_settings_change and the
   capsule destructor never see freed memory, in whichever order the last two
   references go, and no failure path leaves the binding behind. *)
BindingLivesWithItsUsers ==
    /\ (binding = "live") <=> (CallbackMayRun \/ CapsuleOwns)
    /\ coreRef <=> (binding = "live")

(* The pin of activate() holds exactly while the native stream is active or
   its completion runs.  It is taken only after the native call, yet an early
   on_complete cannot free the stream or the connection it was made on; and it
   is taken back once, after which the stream lives through the application's
   reference alone. *)
StreamIsPinned ==
    \A s \in Streams :
        /\ stream[s] = "active" \/ thread = [at |-> "complete_py", on |-> s] =>
              pyRefs[s] > 0 /\ s \in holders /\ capsule = "live" /\ nativeRef
        /\ stream[s] = "complete" /\ thread.on # s /\ ~activating[s] =>
              pyRefs[s] = (IF userRef[s] THEN 1 ELSE 0)

(* A connection nobody refers to any more is shut down, its shutdown_future
   completed and its binding freed, also if it was abandoned or cancelled while
   it was being set up. *)
AbandonedConnectionIsFreed ==
    (~wanted /\ \A s \in Streams : ~userRef[s]) ~> (binding # "live" /\ shutdownFuture # "pending")
=============================================================================
