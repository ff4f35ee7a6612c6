------------------------------ MODULE S3Client ------------------------------
(***************************************************************************)
(* S3Client and S3Request (awscrt/s3.py, source/s3_client.c,               *)
(* source/s3_meta_request.c) on the default bootstrap of awscrt/io.py.     *)
(*                                                                         *)
(* The binding of a client or of a request outlives its Python object: it  *)
(* goes with the native shutdown, and what it references (the _core objects*)
(* with bootstrap, providers, callbacks) goes with it.  A native request   *)
(* keeps its native client.  Callbacks of one request come one at a time.  *)
(***************************************************************************)
EXTENDS IoDefaults

CONSTANTS
    Request,
    ClientThread, \* the threads that make S3 clients
    MaxParts   \* bound: progress reports of the native request

ASSUME S3Assumption == MaxParts \in Nat /\ ClientThread \subseteq Thread

VARIABLES
    client,    \* each thread's client
    bootstrap, \* the bootstrap its _S3ClientCore references
    request,   \* native state of each request
    owner,     \* the thread whose client made it
    held,      \* the application references the S3Request
    future,    \* finished_future
    onDone,    \* calls of the on_done callback
    raised,    \* a callback raised and its exception is stored
    outcome,   \* what on_finish made of the result
    moved,     \* parts transferred
    pending,   \* size_transferred: parts recorded and not yet reported
    reported,  \* parts reported to on_progress
    unknown    \* requests whose checksum algorithm raised in S3ChecksumAlgorithm()

s3Vars == <<client, bootstrap, request, owner, held, future, onDone, raised,
            outcome, moved, pending, reported, unknown>>
vars == <<ioVars, s3Vars>>

TypeOK ==
    /\ IoTypeOK
    /\ client \in [Thread -> {"none", "live", "released", "ended"}]
    /\ bootstrap \in [Thread -> Object \cup {NoObject}]
    /\ request \in [Request -> {"none", "running", "failing", "finished", "ended"}]
    /\ held \in [Request -> BOOLEAN] /\ raised \in [Request -> BOOLEAN]
    /\ owner \in [Request -> Thread \cup {Nobody}]
    /\ future \in [Request -> {"pending", "done", "cancelled"}]
    /\ outcome \in [Request -> {"none", "success", "exception", "error"}]
    /\ onDone \in [Request -> 0 .. 1]
    /\ {moved, pending, reported} \subseteq [Request -> Nat]
    /\ unknown \subseteq Request

Init ==
    /\ IoInit
    /\ client = [t \in Thread |-> "none"] /\ bootstrap = [t \in Thread |-> NoObject]
    /\ request = [r \in Request |-> "none"] /\ owner = [r \in Request |-> Nobody]
    /\ held = [r \in Request |-> FALSE] /\ future = [r \in Request |-> "pending"]
    /\ onDone = [r \in Request |-> 0] /\ raised = [r \in Request |-> FALSE]
    /\ outcome = [r \in Request |-> "none"]
    /\ moved = [r \in Request |-> 0] /\ pending = [r \in Request |-> 0]
    /\ reported = [r \in Request |-> 0] /\ unknown = {}

requestVars == <<request, owner, held, future, onDone, raised, outcome, moved, pending, reported,
                 unknown>>

----------------------------------------------------------------------------
(* S3Client(): the core takes over the bootstrap; a failed s3_client_new drops
   the capsule, whose destructor frees the binding at once. *)
NewClient(t) ==
    /\ t \in ClientThread /\ client[t] = "none" /\ result[t][1] = "bootstrap"
    /\ result' = [result EXCEPT ![t] = NoObject]
    /\ \/ /\ client' = [client EXCEPT ![t] = "live"]
          /\ bootstrap' = [bootstrap EXCEPT ![t] = result[t]]
       \/ client' = [client EXCEPT ![t] = "ended"] /\ UNCHANGED bootstrap
    /\ UNCHANGED <<lock, default, frames, uses, made, dropped, ended, requestVars>>

(* S3Client() without a bootstrap asks for the default one; the application asks
   for the default of any class and drops it when it likes. *)
AskForDefault(t, c) == GetStaticDefault(t, c) /\ UNCHANGED s3Vars

LetGo(t) == DropResult(t) /\ UNCHANGED s3Vars

DropClient(t) ==
    /\ client[t] = "live"
    /\ client' = [client EXCEPT ![t] = "released"]
    /\ UNCHANGED <<ioVars, bootstrap, requestVars>>

(* The native client shuts down when its requests have. *)
ClientUnused(t) ==
    /\ client[t] = "released"
    /\ \A r \in Request : owner[r] = t => request[r] = "ended"

(* Mutant: s_destroy frees the binding with its reference to the core. *)
CoreLeft(t) == bootstrap[t]

(* s_destroy drops the core, and the core its bootstrap. *)
CoreDropped(t) == NoObject

(* on_shutdown sets the event, then s_destroy. *)
ClientShutdown(t) ==
    /\ ClientUnused(t)
    /\ client' = [client EXCEPT ![t] = "ended"]
    /\ bootstrap' = [bootstrap EXCEPT ![t] = CoreDropped(t)]
    /\ UNCHANGED <<ioVars, requestVars>>

(* S3Request(): arguments that do not validate, an unknown signing config or a
   native refusal raise, and the half-made request is dropped. *)
StartRequest(t, r) ==
    \/ /\ request' = [request EXCEPT ![r] = "running"]
       /\ owner' = [owner EXCEPT ![r] = t]
       /\ held' = [held EXCEPT ![r] = TRUE]
    \/ /\ request' = [request EXCEPT ![r] = "ended"]
       /\ UNCHANGED <<owner, held>>

MakeRequest(t, r) ==
    /\ client[t] = "live" /\ request[r] = "none"
    /\ StartRequest(t, r)
    /\ UNCHANGED <<ioVars, client, bootstrap, future, onDone, raised, outcome, moved, pending, reported, unknown>>

(* on_headers or on_body raises: the exception is stored, and False makes the
   native request fail with AWS_ERROR_CRT_CALLBACK_EXCEPTION. *)
CallbackRaises(r) ==
    /\ request[r] = "running"
    /\ raised' = [raised EXCEPT ![r] = TRUE]
    /\ request' = [request EXCEPT ![r] = "failing"]
    /\ UNCHANGED <<ioVars, client, bootstrap, owner, held, future, onDone, outcome, moved, pending, reported, unknown>>

(* Mutant: what was reported is recorded again. *)
KeepRecorded(r) == pending[r] + 1

(* size_transferred after a report. *)
ResetRecorded(r) == 0

(* s_s3_request_on_progress: record; report when a second has passed since the
   last report. *)
OnProgress(r, report) ==
    /\ request[r] = "running" /\ moved[r] < MaxParts
    /\ moved' = [moved EXCEPT ![r] = @ + 1]
    /\ reported' = [reported EXCEPT ![r] = IF report THEN @ + pending[r] + 1 ELSE @]
    /\ pending' = [pending EXCEPT ![r] = IF report THEN ResetRecorded(r) ELSE @ + 1]
    /\ UNCHANGED <<ioVars, client, bootstrap, request, owner, held, future, onDone, raised, outcome, unknown>>

(* _finished_future.set_result raises when the application cancelled the
   future, and S3ChecksumAlgorithm() raises ValueError for a number it has no
   name for; on_done, which follows both, is then not called. *)
DoneCalls(r, known) == IF future[r] = "pending" /\ known THEN 1 ELSE 0

(* s_s3_request_on_finish and _on_finish: the remaining progress of a success,
   the stored exception or the error, the future, on_done. *)
OnFinish(r, ok, known) ==
    /\ request[r] = "running" \/ (request[r] = "failing" /\ ~ok)
    /\ request' = [request EXCEPT ![r] = "finished"]
    /\ reported' = [reported EXCEPT ![r] = IF ok THEN @ + pending[r] ELSE @]
    /\ pending' = [pending EXCEPT ![r] = IF ok THEN 0 ELSE @]
    /\ outcome' = [outcome EXCEPT ![r] =
                     IF ok THEN "success"
                     ELSE IF request[r] = "failing" /\ raised[r] THEN "exception" ELSE "error"]
    /\ future' = [future EXCEPT ![r] = IF @ = "pending" THEN "done" ELSE @]
    /\ onDone' = [onDone EXCEPT ![r] = DoneCalls(r, known)]
    /\ unknown' = IF future[r] = "pending" /\ ~known THEN unknown \cup {r} ELSE unknown
    /\ UNCHANGED <<ioVars, client, bootstrap, owner, held, raised, moved>>

(* cancel() makes the native request fail, unless it has ended. *)
CancelRequest(r) ==
    /\ held[r] /\ request[r] = "running"
    /\ request' = [request EXCEPT ![r] = "failing"]
    /\ UNCHANGED <<ioVars, client, bootstrap, owner, held, future, onDone, raised, outcome, moved, pending, reported, unknown>>

CancelFuture(r) ==
    /\ owner[r] # Nobody /\ future[r] = "pending"
    /\ future' = [future EXCEPT ![r] = "cancelled"]
    /\ UNCHANGED <<ioVars, client, bootstrap, request, owner, held, onDone, raised, outcome, moved, pending, reported, unknown>>

DropRequest(r) ==
    /\ held[r]
    /\ held' = [held EXCEPT ![r] = FALSE]
    /\ UNCHANGED <<ioVars, client, bootstrap, request, owner, future, onDone, raised, outcome, moved, pending, reported, unknown>>

(* The capsule's reference and the transfer's are gone: the binding is freed
   and the shutdown event set. *)
RequestShutdown(r) ==
    /\ request[r] = "finished" /\ ~held[r]
    /\ request' = [request EXCEPT ![r] = "ended"]
    /\ UNCHANGED <<ioVars, client, bootstrap, owner, held, future, onDone, raised, outcome, moved, pending, reported, unknown>>

(* A bootstrap that a client's core references is not shut down. *)
ObjectShutdown(x) ==
    /\ \A t \in Thread : bootstrap[t] # x
    /\ ShutdownComplete(x)
    /\ UNCHANGED s3Vars

IoStep ==
    \/ \E t \in Thread : CreatorStep(t) /\ UNCHANGED s3Vars
    \/ \E t \in Thread, c \in Class : AskForDefault(t, c)
    \/ \E t \in Thread : LetGo(t)
    \/ \E c \in Class : ReleaseStaticDefault(c) /\ UNCHANGED s3Vars

Next ==
    \/ IoStep
    \/ \E x \in Object : ObjectShutdown(x)
    \/ \E t \in Thread : \/ NewClient(t) \/ DropClient(t) \/ ClientShutdown(t)
                         \/ \E r \in Request : MakeRequest(t, r)
    \/ \E r \in Request : \/ CallbackRaises(r) \/ CancelRequest(r) \/ CancelFuture(r)
                          \/ DropRequest(r) \/ RequestShutdown(r)
                          \/ \E b \in BOOLEAN : OnProgress(r, b)
                          \/ \E ok, known \in BOOLEAN : OnFinish(r, ok, known)

(* A thread inside a call goes on, and a native object nobody uses any more ends
   its shutdown.  Nothing is assumed of requests that run. *)
Fairness ==
    /\ \A t \in Thread : /\ WF_vars(CreatorStep(t) /\ UNCHANGED s3Vars)
                         /\ WF_vars(ClientShutdown(t))
    /\ \A r \in Request : WF_vars(RequestShutdown(r))
    /\ \A x \in Object : WF_vars(ObjectShutdown(x))

Spec == Init /\ [][Next]_vars /\ Fairness

----------------------------------------------------------------------------
(* The application has finished: no call runs, no result, client or request is
   held and no request is under way. *)
Finished ==
    /\ \A t \in Thread : ~Running(t) /\ result[t] = NoObject /\ client[t] # "live"
    /\ \A r \in Request : ~held[r] /\ request[r] \in {"none", "finished", "ended"}

(* Shutdown is asynchronous and handed on from request to client, bootstrap,
   resolver and event loops by the references of the bindings.  Once the
   application has finished, every object shuts down (and its shutdown_event is
   set) except the defaults the classes keep and what those are made from. *)
AbandonedShutsDown == <>[]Finished => <>[](Made \ ended \subseteq KeptByClasses)

(* on_progress, the future and on_done tell the whole story: what was reported
   adds up, with the part still recorded, to what was transferred, completely
   so after a success; a finished request has settled its future, and called
   on_done unless the application had cancelled the future or the result names a
   checksum algorithm that Python does not know. *)
RequestIsReported ==
    \A r \in Request :
        /\ reported[r] + pending[r] = moved[r]
        /\ outcome[r] = "success" => reported[r] = moved[r]
        /\ outcome[r] # "none" =>
             \/ future[r] = "cancelled"
             \/ future[r] = "done" /\ (onDone[r] = 1 \/ r \in unknown)
=============================================================================
