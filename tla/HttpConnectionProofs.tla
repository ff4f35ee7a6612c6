------------------------ MODULE HttpConnectionProofs ------------------------
(***************************************************************************)
(* Proofs about HttpConnection for any number of streams: type correctness,*)
(* that the reference count accounts for the binding's users, and that the *)
(* Python reference counts of the streams account for theirs.              *)
(***************************************************************************)
EXTENDS HttpConnection, TLAPS

InSetup == thread.at \in {"setup_py", "setup_end"}
InShutdown == thread.at \in {"shutdown_py", "shutdown_release"}

(* The reference aws_py_http_client_connection_new created.  It passes to the
   capsule; without a capsule s_on_client_connection_setup releases it. *)
InitialRef == native = "connecting" \/ (InSetup /\ capsule = "none") \/ CapsuleOwns

(* The reference of the connection thread's callbacks. *)
ThreadRef == native \in {"open", "closing"} \/ InShutdown

(* The count is the number of owners, and the binding lives while there is one. *)
Ownership ==
    /\ refCount = (IF InitialRef THEN 1 ELSE 0) + (IF ThreadRef THEN 1 ELSE 0)
    /\ (binding = "live") <=> (refCount > 0)
    /\ coreRef <=> (binding = "live")

(* Which phases of the callbacks, the capsule and the native connection go
   together: what makes each release the release of a reference that is owned. *)
Phases ==
    /\ binding = "none" => native = "none" /\ ~InSetup /\ ~InShutdown /\ capsule = "none"
    /\ native = "connecting" => ~InSetup /\ ~InShutdown /\ capsule = "none"
    /\ InSetup => capsule = "none" \/ "setup" \in holders
    /\ thread.at = "setup_py" => (outcome <=> capsule = "none")
    /\ InShutdown => native = "shutdown"
    /\ holders # {} => capsule = "live"

OwnershipInv == TypeOK /\ Ownership /\ Phases

-----------------------------------------------------------------------------
(* Types.                                                                   *)

(* A release by an owner never takes the count below zero. *)
LEMMA ReleaseType ==
  ASSUME OwnershipInv, Release, InitialRef \/ ThreadRef
  PROVE  /\ refCount' \in Nat /\ coreRef' \in BOOLEAN
         /\ binding' \in {"none", "live", "freed"}
<1>1. refCount \in Nat /\ coreRef \in BOOLEAN /\ binding \in {"none", "live", "freed"}
  BY DEF OwnershipInv, TypeOK
<1>2. refCount > 0
  BY DEF OwnershipInv, Ownership
<1>3. refCount' \in Nat
  BY <1>1, <1>2 DEF Release
<1>4. coreRef' \in BOOLEAN /\ binding' \in {"none", "live", "freed"}
  BY <1>1 DEF Release
<1>5. QED
  BY <1>3, <1>4

(* A future that is settled stays a future. *)
LEMMA ResolveType ==
  ASSUME NEW f \in FutureState, NEW s \in FutureState
  PROVE  Resolve(f, s) \in FutureState
  BY DEF Resolve

(* Steps that release a reference of the binding. *)
LEMMA ReleasingType ==
  ASSUME OwnershipInv, Release, InitialRef \/ ThreadRef,
         thread' \in [at : ThreadAt, on : Streams \union {"connection"}],
         capsule' \in {"none", "live", "releasing", "dead"},
         nativeRef' \in BOOLEAN,
         UNCHANGED <<outcome, native, pyVars, holders, wanted, streamVars>>
  PROVE  TypeOK'
<1>1. /\ refCount' \in Nat /\ coreRef' \in BOOLEAN
      /\ binding' \in {"none", "live", "freed"}
  BY ReleaseType
<1>2. QED
  BY <1>1 DEF OwnershipInv, TypeOK, pyVars, streamVars

(* Places of the event-loop thread. *)
LEMMA PlaceType ==
  /\ Idle \in [at : ThreadAt, on : Streams \union {"connection"}]
  /\ \A a \in ThreadAt : Conn(a) \in [at : ThreadAt, on : Streams \union {"connection"}]
  /\ \A s \in Streams : [at |-> "complete_py", on |-> s]
                            \in [at : ThreadAt, on : Streams \union {"connection"}]
  /\ Idle.at = "idle" /\ \A a \in ThreadAt : Conn(a).at = a
  BY DEF Idle, Conn, ThreadAt

(* Type correctness of every step, one case per action. *)
LEMMA TypeStep ==
  ASSUME OwnershipInv, [Next]_vars
  PROVE  TypeOK'
<1>0. TypeOK
  BY DEF OwnershipInv
<1> DEFINE Place == [at : ThreadAt, on : Streams \union {"connection"}]
<1>p. /\ Idle \in Place /\ thread \in Place
      /\ \A a \in ThreadAt : Conn(a) \in Place
      /\ \A s \in Streams : [at |-> "complete_py", on |-> s] \in Place
  BY <1>0, PlaceType DEF TypeOK
<1>a. \A a \in {"setup_py", "setup_end", "settings_py", "shutdown_py", "shutdown_release"} :
         a \in ThreadAt /\ Conn(a).at = a
  BY PlaceType DEF ThreadAt
<1> HIDE DEF Place
<1>1. ASSUME NEW o \in {"early", "option", "connect", "ok"}, ConnectionNew(o) PROVE TypeOK'
  <2>1. /\ binding' \in {"none", "live", "freed"} /\ refCount' \in Nat /\ coreRef' \in BOOLEAN
        /\ native' \in {"none", "connecting", "open", "closing", "shutdown"}
    <3>1. \/ UNCHANGED <<binding, refCount, coreRef, native>>
          \/ binding' = "freed" /\ UNCHANGED <<refCount, coreRef, native>>
          \/ binding' = "live" /\ refCount' = 1 /\ coreRef' = TRUE /\ native' = "connecting"
      BY <1>1 DEF ConnectionNew
    <3>2. coreRef' \in BOOLEAN
      BY <1>0, <3>1 DEF TypeOK
    <3>3. binding' \in {"none", "live", "freed"} /\ refCount' \in Nat
      BY <1>0, <3>1 DEF TypeOK
    <3>4. native' \in {"none", "connecting", "open", "closing", "shutdown"}
      BY <1>0, <3>1 DEF TypeOK
    <3>5. QED
      BY <3>2, <3>3, <3>4
  <2>2. connectFuture' \in FutureState
    BY <1>1 DEF ConnectionNew, FutureState
  <2>3. UNCHANGED <<capsule, thread, outcome, nativeRef, coreHasFuture,
                    shutdownFuture, holders, wanted, streamVars>>
    BY <1>1 DEF ConnectionNew
  <2>4. QED
    BY <1>0, <2>1, <2>2, <2>3 DEF TypeOK, streamVars
<1>2. ASSUME NEW f \in BOOLEAN, NEW n \in BOOLEAN, OnConnectionSetup(f, n) PROVE TypeOK'
  <2>1. /\ native' \in {"none", "connecting", "open", "closing", "shutdown"}
        /\ nativeRef' \in BOOLEAN /\ outcome' \in BOOLEAN
        /\ capsule' \in {"none", "live", "releasing", "dead"}
    BY <1>2 DEF OnConnectionSetup
  <2>2. refCount' \in Nat
    BY <1>0, <1>2 DEF OnConnectionSetup, WithThreadRef, TypeOK
  <2>3. holders' \subseteq Holder
    BY <1>2 DEF OnConnectionSetup, Holder
  <2>4. thread' \in Place
    BY <1>2, <1>p, <1>a DEF OnConnectionSetup
  <2>5. UNCHANGED <<binding, coreRef, pyVars, wanted, streamVars>>
    BY <1>2 DEF OnConnectionSetup
  <2>6. QED
    BY <1>0, <2>1, <2>2, <2>3, <2>4, <2>5 DEF TypeOK, pyVars, streamVars, Place
<1>3. ASSUME NEW m \in BOOLEAN, PyOnConnectionSetup(m) PROVE TypeOK'
  <2>1. thread' \in Place
    BY <1>3, <1>p, <1>a DEF PyOnConnectionSetup
  <2>2. connectFuture' \in FutureState
    BY <1>0, <1>3, ResolveType DEF PyOnConnectionSetup, ConnectFailed, TypeOK, FutureState
  <2>3. coreHasFuture' \in BOOLEAN /\ shutdownFuture' \in FutureState \union {"none"}
    BY <1>0, <1>3 DEF PyOnConnectionSetup, TypeOK, FutureState
  <2>4. holders' \subseteq Holder
    BY <1>0, <1>3 DEF PyOnConnectionSetup, TypeOK, Holder
  <2>5. UNCHANGED <<connVars, outcome, native, nativeRef, wanted, streamVars>>
    BY <1>3 DEF PyOnConnectionSetup
  <2>6. QED
    BY <1>0, <2>1, <2>2, <2>3, <2>4, <2>5 DEF TypeOK, connVars, streamVars, Place
<1>4. CASE SetupEnd
  <2>0. thread' \in Place /\ InSetup
    BY <1>4, <1>p, <1>a DEF SetupEnd, InSetup
  <2>1. CASE capsule = "none"
    <3>1. /\ Release /\ nativeRef' = FALSE
          /\ UNCHANGED <<capsule, outcome, native, pyVars, holders, wanted, streamVars>>
      BY <1>4, <2>1 DEF SetupEnd, ReleaseInitialRef
    <3>2. InitialRef /\ capsule' \in {"none", "live", "releasing", "dead"}
      BY <2>0, <2>1, <3>1 DEF InitialRef
    <3>3. QED
      BY <2>0, <3>1, <3>2, ReleasingType DEF Place
  <2>2. CASE capsule # "none"
    <3>1. /\ holders' \subseteq holders /\ capsule' \in {"releasing", capsule}
          /\ UNCHANGED <<binding, refCount, coreRef, outcome, native, nativeRef, pyVars,
                         wanted, streamVars>>
      BY <1>4, <2>2 DEF SetupEnd
    <3>2. QED
      BY <1>0, <2>0, <3>1 DEF TypeOK, pyVars, streamVars, Place
  <2>3. QED
    BY <2>1, <2>2
<1>5. CASE DestructorReleasesNative
  BY <1>0, <1>5 DEF DestructorReleasesNative, TypeOK, connVars, pyVars, streamVars
<1>6. CASE DestructorReleasesBinding
  <2>1. /\ Release /\ InitialRef /\ capsule' \in {"none", "live", "releasing", "dead"}
        /\ UNCHANGED <<thread, outcome, native, nativeRef, pyVars, holders, wanted, streamVars>>
    BY <1>6 DEF DestructorReleasesBinding, InitialRef, CapsuleOwns
  <2>2. thread' \in Place /\ nativeRef' \in BOOLEAN
    BY <1>0, <1>p, <2>1 DEF TypeOK
  <2>3. QED
    BY <2>1, <2>2, ReleasingType DEF Place
<1>7. CASE Close
  BY <1>0, <1>7 DEF Close, TypeOK, connVars, pyVars, streamVars
<1>8. CASE OnRemoteSettingsChange \/ RemoteSettingsReturn
  <2>1. thread' \in Place
    BY <1>8, <1>p, <1>a DEF OnRemoteSettingsChange, RemoteSettingsReturn
  <2>2. UNCHANGED <<connVars, outcome, native, nativeRef, pyVars, holders, wanted, streamVars>>
    BY <1>8 DEF OnRemoteSettingsChange, RemoteSettingsReturn
  <2>3. QED
    BY <1>0, <2>1, <2>2 DEF TypeOK, connVars, pyVars, streamVars, Place
<1>9. ASSUME NEW e \in BOOLEAN, OnConnectionShutdown(e) PROVE TypeOK'
  <2>1. thread' \in Place /\ outcome' \in BOOLEAN /\ native' = "shutdown"
    BY <1>9, <1>p, <1>a DEF OnConnectionShutdown
  <2>2. UNCHANGED <<connVars, nativeRef, pyVars, holders, wanted, streamVars>>
    BY <1>9 DEF OnConnectionShutdown
  <2>3. QED
    BY <1>0, <2>1, <2>2 DEF TypeOK, connVars, pyVars, streamVars, Place
<1>10. CASE PyOnShutdown
  <2>1. thread' \in Place
    BY <1>10, <1>p, <1>a DEF PyOnShutdown
  <2>2. shutdownFuture' \in FutureState \union {"none"}
    BY <1>0, <1>10 DEF PyOnShutdown, ShutdownResult, Resolve, TypeOK, FutureState
  <2>3. UNCHANGED <<connVars, outcome, native, nativeRef, connectFuture,
                    coreHasFuture, holders, wanted, streamVars>>
    BY <1>10 DEF PyOnShutdown
  <2>4. QED
    BY <1>0, <2>1, <2>2, <2>3 DEF TypeOK, connVars, streamVars, Place
<1>11. CASE ShutdownRelease
  <2>1. /\ Release /\ UNCHANGED <<capsule, outcome, native, nativeRef, pyVars, holders,
                                  wanted, streamVars>>
    BY <1>11 DEF ShutdownRelease
  <2>2. thread' \in Place /\ ThreadRef
    BY <1>11, <1>p, <1>a DEF ShutdownRelease, ThreadRef, InShutdown
  <2>3. nativeRef' \in BOOLEAN /\ capsule' \in {"none", "live", "releasing", "dead"}
    BY <1>0, <2>1 DEF TypeOK
  <2>4. QED
    BY <2>1, <2>2, <2>3, ReleasingType DEF Place
<1>12. CASE CancelConnect
  BY <1>0, <1>12 DEF CancelConnect, TypeOK, connVars, streamVars, FutureState
<1>13. CASE CancelShutdown
  BY <1>0, <1>13 DEF CancelShutdown, TypeOK, connVars, streamVars, FutureState
<1>14. CASE DropConnection
  <2>1. wanted' = FALSE /\ holders' \subseteq holders /\ capsule' \in {"releasing", capsule}
    BY <1>14 DEF DropConnection, LetGo
  <2>2. UNCHANGED <<binding, refCount, coreRef, thread, outcome, native, nativeRef,
                    pyVars, streamVars>>
    BY <1>14 DEF DropConnection
  <2>3. /\ wanted' \in BOOLEAN /\ holders' \subseteq Holder
        /\ capsule' \in {"none", "live", "releasing", "dead"}
    BY <1>0, <2>1 DEF TypeOK
  <2>4. QED
    BY <1>0, <2>2, <2>3 DEF TypeOK, pyVars, streamVars
<1>15. ASSUME NEW s \in Streams, MakeRequest(s) PROVE TypeOK'
  <2>1. holders' \subseteq Holder
    BY <1>0, <1>15 DEF MakeRequest, TypeOK, Holder
  <2>2. QED
    BY <1>0, <1>15, <2>1 DEF MakeRequest, TypeOK, connVars, pyVars
<1>16. ASSUME NEW s \in Streams, Activate(s) PROVE TypeOK'
  BY <1>0, <1>16 DEF Activate, TypeOK, connVars, pyVars
<1>17. ASSUME NEW s \in Streams, ActivateReturn(s) PROVE TypeOK'
  BY <1>0, <1>17 DEF ActivateReturn, PinAndReturn, TypeOK, connVars, pyVars
<1>18. ASSUME NEW s \in Streams, OnStreamComplete(s) PROVE TypeOK'
  <2>1. thread' \in Place
    BY <1>18, <1>p DEF OnStreamComplete
  <2>2. QED
    BY <1>0, <1>18, <2>1 DEF OnStreamComplete, TypeOK, connVars, pyVars, Place
<1>19. ASSUME NEW s \in Streams, StreamCompleteDecref(s) PROVE TypeOK'
  <2>1. thread' \in Place
    BY <1>19, <1>p DEF StreamCompleteDecref
  <2>2. QED
    BY <1>0, <1>19, <2>1 DEF StreamCompleteDecref, DecrefTwice, TypeOK, connVars, pyVars, Place
<1>20. ASSUME NEW s \in Streams, DropStream(s) PROVE TypeOK'
  BY <1>0, <1>20 DEF DropStream, TypeOK, connVars, pyVars
<1>21. ASSUME NEW s \in Streams, StreamDealloc(s) PROVE TypeOK'
  BY <1>0, <1>21 DEF StreamDealloc, LetGo, TypeOK, pyVars
<1>22. CASE UNCHANGED vars
  BY <1>0, <1>22 DEF vars, TypeOK
<1>23. QED
  BY <1>1, <1>2, <1>3, <1>4, <1>5, <1>6, <1>7, <1>8, <1>9, <1>10, <1>11, <1>12, <1>13,
     <1>14, <1>15, <1>16, <1>17, <1>18, <1>19, <1>20, <1>21, <1>22
  DEF Next, SetupCallback, ShutdownCallback, CallbackStep, Destructor, PeerCloses,
      UserCloses, Unreferenced

-----------------------------------------------------------------------------
(* Ownership.                                                               *)

(* Steps that move no reference of the binding. *)
LEMMA QuietStep ==
  ASSUME OwnershipInv, UNCHANGED <<binding, refCount, coreRef, capsule, holders>>,
         native' = native \/ (native = "open" /\ native' = "closing"),
         outcome' = outcome,
         \/ thread' = thread
         \/ {thread.at, thread'.at} \subseteq {"idle", "settings_py", "complete_py"}
  PROVE  Ownership' /\ Phases'
<1>1. InSetup' <=> InSetup
  BY DEF InSetup
<1>2. InShutdown' <=> InShutdown
  BY DEF InShutdown
<1>3. native' \in {"open", "closing"} <=> native \in {"open", "closing"}
  OBVIOUS
<1>4. native' = "connecting" <=> native = "connecting"
  OBVIOUS
<1>5. (InitialRef' <=> InitialRef) /\ (ThreadRef' <=> ThreadRef)
  BY <1>1, <1>2, <1>3, <1>4 DEF InitialRef, ThreadRef, CapsuleOwns
<1>6. Ownership'
  BY <1>5 DEF OwnershipInv, Ownership
<1>7. thread'.at = "setup_py" <=> thread.at = "setup_py"
  OBVIOUS
<1>8. Phases'
  <2>1. Phases
    BY DEF OwnershipInv
  <2>2. binding' = "none" =>
            native' = "none" /\ ~InSetup' /\ ~InShutdown' /\ capsule' = "none"
    BY <1>1, <1>2, <2>1 DEF Phases
  <2>3. native' = "connecting" => ~InSetup' /\ ~InShutdown' /\ capsule' = "none"
    BY <1>1, <1>2, <2>1 DEF Phases
  <2>4. InShutdown' => native' = "shutdown"
    BY <1>2, <2>1 DEF Phases
  <2>5. InSetup' => capsule' = "none" \/ "setup" \in holders'
    BY <1>1, <2>1 DEF Phases
  <2>6. thread'.at = "setup_py" => (outcome' <=> capsule' = "none")
    BY <1>7, <2>1 DEF Phases
  <2>7. holders' # {} => capsule' = "live"
    BY <2>1 DEF Phases
  <2>8. QED
    BY <2>2, <2>3, <2>4, <2>5, <2>6, <2>7 DEF Phases
<1>9. QED
  BY <1>6, <1>8

(* Releasing one of the references that are owned. *)
LEMMA ReleaseOwnership ==
  ASSUME OwnershipInv, Release,
         \/ InitialRef /\ ~InitialRef' /\ (ThreadRef' <=> ThreadRef)
         \/ ThreadRef /\ ~ThreadRef' /\ (InitialRef' <=> InitialRef)
  PROVE  Ownership' /\ binding' # "none"
<1>1. /\ refCount = (IF InitialRef THEN 1 ELSE 0) + (IF ThreadRef THEN 1 ELSE 0)
      /\ (binding = "live") <=> (refCount > 0)
      /\ coreRef <=> (binding = "live")
  BY DEF OwnershipInv, Ownership
<1>2. refCount \in {1, 2} /\ refCount' = refCount - 1 /\ binding = "live" /\ coreRef
  BY <1>1 DEF Release
<1>3. refCount' = (IF InitialRef' THEN 1 ELSE 0) + (IF ThreadRef' THEN 1 ELSE 0)
  BY <1>1, <1>2
<1>4. CASE refCount = 1
  BY <1>2, <1>3, <1>4 DEF Release, Ownership
<1>5. CASE refCount = 2
  BY <1>2, <1>3, <1>5 DEF Release, Ownership
<1>6. QED
  BY <1>2, <1>4, <1>5

(* Nothing is acquired or released, and the owners stay the same. *)
LEMMA SameOwners ==
  ASSUME OwnershipInv, UNCHANGED <<binding, refCount, coreRef>>,
         InitialRef' <=> InitialRef, ThreadRef' <=> ThreadRef
  PROVE  Ownership'
  BY DEF OwnershipInv, Ownership

(* A holder that is not the setup callback lets go of the connection object. *)
LEMMA LetGoStep ==
  ASSUME OwnershipInv, NEW h \in holders, h # "setup", LetGo(h),
         UNCHANGED <<binding, refCount, coreRef, thread, outcome, native>>
  PROVE  Ownership' /\ Phases'
<1>1. Phases /\ capsule = "live"
  BY DEF OwnershipInv, Phases
<1>2. holders' = holders \ {h} /\ capsule' \in {"live", "releasing"}
      /\ (holders' # {} => capsule' = "live")
  BY <1>1 DEF LetGo
<1>3. (InSetup' <=> InSetup) /\ (InShutdown' <=> InShutdown)
  BY DEF InSetup, InShutdown
<1>4. Ownership'
  BY <1>1, <1>2, <1>3, SameOwners DEF InitialRef, ThreadRef, CapsuleOwns
<1>5. binding' # "none" /\ native' # "connecting"
  BY <1>1 DEF Phases
<1>6. InSetup' => capsule' = "live" /\ "setup" \in holders'
  <2>1. InSetup => "setup" \in holders
    BY <1>1 DEF Phases
  <2>2. QED
    BY <1>2, <1>3, <2>1
<1>7. thread'.at = "setup_py" => ~outcome' /\ capsule' = "live"
  <2>1. thread.at = "setup_py" => ~outcome /\ InSetup
    BY <1>1 DEF Phases, InSetup
  <2>2. QED
    BY <1>3, <1>6, <2>1
<1>8. Phases'
  BY <1>1, <1>2, <1>3, <1>5, <1>6, <1>7 DEF Phases
<1>9. QED
  BY <1>4, <1>8

(* Every step keeps the count equal to the number of owners. *)
LEMMA OwnershipStep ==
  ASSUME OwnershipInv, [Next]_vars
  PROVE  OwnershipInv'
<1>0. TypeOK' /\ Phases /\ Ownership
  BY TypeStep DEF OwnershipInv
<1>i. /\ Idle.at = "idle" /\ Conn("setup_py").at = "setup_py"
      /\ Conn("setup_end").at = "setup_end" /\ Conn("settings_py").at = "settings_py"
      /\ Conn("shutdown_py").at = "shutdown_py"
      /\ Conn("shutdown_release").at = "shutdown_release"
  BY DEF Idle, Conn
<1> SUFFICES Ownership' /\ Phases'
  BY <1>0 DEF OwnershipInv
<1>1. ASSUME NEW o \in {"early", "option", "connect", "ok"}, ConnectionNew(o)
      PROVE  Ownership' /\ Phases'
  <2>1. /\ binding = "none" /\ native = "none" /\ ~InSetup /\ ~InShutdown /\ capsule = "none"
        /\ UNCHANGED <<capsule, thread, outcome, holders>>
    BY <1>0, <1>1 DEF ConnectionNew, Phases
  <2>2. ~InSetup' /\ ~InShutdown' /\ holders' = {}
    BY <1>0, <2>1 DEF InSetup, InShutdown, Phases
  <2>3. ~InitialRef /\ ~ThreadRef
    BY <2>1 DEF InitialRef, ThreadRef, CapsuleOwns
  <2>4. refCount = 0 /\ ~coreRef
    BY <1>0, <2>1, <2>3 DEF Ownership
  <2>5. CASE binding' \in {"none", "freed"} /\ UNCHANGED <<refCount, coreRef, native>>
    <3>1. ~InitialRef' /\ ~ThreadRef'
      BY <2>1, <2>2, <2>5 DEF InitialRef, ThreadRef, CapsuleOwns
    <3>2. Ownership'
      BY <2>4, <2>5, <3>1 DEF Ownership
    <3>3. Phases'
      BY <2>1, <2>2, <2>5 DEF Phases, InSetup
    <3>4. QED
      BY <3>2, <3>3
  <2>6. CASE binding' = "live" /\ refCount' = 1 /\ coreRef' = TRUE /\ native' = "connecting"
    <3>1. InitialRef' /\ ~ThreadRef'
      BY <2>2, <2>6 DEF InitialRef, ThreadRef
    <3>2. Ownership'
      BY <2>6, <3>1 DEF Ownership
    <3>3. Phases'
      BY <2>1, <2>2, <2>6 DEF Phases, InSetup
    <3>4. QED
      BY <3>2, <3>3
  <2>7. QED
    BY <1>1, <2>1, <2>5, <2>6 DEF ConnectionNew
<1>2. ASSUME NEW f \in BOOLEAN, NEW n \in BOOLEAN, OnConnectionSetup(f, n)
      PROVE  Ownership' /\ Phases'
  <2>1. /\ native = "connecting" /\ thread = Idle /\ thread' = Conn("setup_py")
        /\ UNCHANGED <<binding, coreRef>>
    BY <1>2 DEF OnConnectionSetup
  <2>2. InSetup' /\ ~InShutdown' /\ ~InShutdown /\ thread'.at = "setup_py"
    BY <1>i, <2>1 DEF InSetup, InShutdown
  <2>3. InitialRef /\ ~ThreadRef
    BY <2>1, <2>2 DEF InitialRef, ThreadRef
  <2>4. refCount = 1 /\ binding = "live" /\ coreRef
    BY <1>0, <2>3 DEF Ownership
  <2>5. CASE f
    <3>1. native' = "none" /\ refCount' = 1 /\ capsule' = "none" /\ holders' = {} /\ outcome'
      BY <1>2, <2>4, <2>5 DEF OnConnectionSetup
    <3>2. InitialRef' /\ ~ThreadRef'
      BY <2>2, <3>1 DEF InitialRef, ThreadRef
    <3>3. Ownership'
      BY <2>1, <2>4, <3>1, <3>2 DEF Ownership
    <3>4. Phases'
      BY <2>1, <2>2, <2>4, <3>1 DEF Phases
    <3>5. QED
      BY <3>3, <3>4
  <2>6. CASE ~f
    <3>1. native' = "open" /\ refCount' = 2
      BY <1>2, <2>4, <2>6 DEF OnConnectionSetup, WithThreadRef
    <3>2. \/ capsule' = "none" /\ holders' = {} /\ outcome'
          \/ capsule' = "live" /\ holders' = {"setup"} /\ ~outcome'
      BY <1>2, <2>6 DEF OnConnectionSetup
    <3>3. InitialRef' /\ ThreadRef'
      BY <2>2, <3>1, <3>2 DEF InitialRef, ThreadRef, CapsuleOwns
    <3>4. Ownership'
      BY <2>1, <2>4, <3>1, <3>3 DEF Ownership
    <3>5. Phases'
      BY <2>1, <2>2, <2>4, <3>1, <3>2 DEF Phases
    <3>6. QED
      BY <3>4, <3>5
  <2>7. QED
    BY <2>5, <2>6
<1>3. ASSUME NEW m \in BOOLEAN, PyOnConnectionSetup(m) PROVE Ownership' /\ Phases'
  <2>1. /\ thread = Conn("setup_py") /\ thread' = Conn("setup_end")
        /\ UNCHANGED <<binding, refCount, coreRef, capsule, outcome, native>>
    BY <1>3 DEF PyOnConnectionSetup, connVars
  <2>2. /\ InSetup /\ InSetup' /\ ~InShutdown /\ ~InShutdown'
        /\ thread.at = "setup_py" /\ thread'.at # "setup_py"
    BY <1>i, <2>1 DEF InSetup, InShutdown
  <2>3. Ownership'
    BY <2>1, <2>2, SameOwners DEF InitialRef, ThreadRef, CapsuleOwns
  <2>4. holders' = holders \/ (~outcome /\ holders' = holders \union {"user"})
    BY <1>3 DEF PyOnConnectionSetup
  <2>5. /\ holders' # {} => capsule' = "live"
        /\ capsule' = "none" \/ "setup" \in holders'
    <3>1. ~outcome => capsule # "none"
      BY <1>0, <2>2 DEF Phases
    <3>2. /\ holders # {} => capsule = "live"
          /\ capsule = "none" \/ "setup" \in holders
      BY <1>0, <2>2 DEF Phases
    <3>3. QED
      BY <2>1, <2>4, <3>1, <3>2
  <2>6. binding' # "none" /\ native' # "connecting"
    BY <1>0, <2>1, <2>2 DEF Phases
  <2>7. Phases'
    BY <2>2, <2>5, <2>6 DEF Phases
  <2>8. QED
    BY <2>3, <2>7
<1>4. CASE SetupEnd
  <2>1. /\ thread = Conn("setup_end") /\ thread' = Idle /\ UNCHANGED <<outcome, native>>
    BY <1>4 DEF SetupEnd
  <2>2. /\ InSetup /\ ~InSetup' /\ ~InShutdown /\ ~InShutdown' /\ thread'.at # "setup_py"
    BY <1>i, <2>1 DEF InSetup, InShutdown
  <2>3. binding # "none" /\ native # "connecting"
    BY <1>0, <2>2 DEF Phases
  <2>4. CASE capsule = "none"
    <3>1. Release /\ UNCHANGED <<capsule, holders>>
      BY <1>4, <2>4 DEF SetupEnd, ReleaseInitialRef
    <3>2. InitialRef /\ ~InitialRef' /\ (ThreadRef' <=> ThreadRef)
      BY <2>1, <2>2, <2>3, <2>4, <3>1 DEF InitialRef, ThreadRef, CapsuleOwns
    <3>3. Ownership' /\ binding' # "none"
      BY <3>1, <3>2, ReleaseOwnership
    <3>4. holders' # {} => capsule' = "live"
      BY <1>0, <3>1 DEF Phases
    <3>5. Phases'
      BY <2>1, <2>2, <2>3, <3>3, <3>4 DEF Phases
    <3>6. QED
      BY <3>3, <3>5
  <2>5. CASE capsule # "none"
    <3>1. "setup" \in holders /\ capsule = "live"
      BY <1>0, <2>2, <2>5 DEF Phases
    <3>2. /\ holders' = holders \ {"setup"}
          /\ capsule' = IF holders = {"setup"} THEN "releasing" ELSE capsule
          /\ UNCHANGED <<binding, refCount, coreRef>>
      BY <1>4, <2>5 DEF SetupEnd
    <3>3. capsule' \in {"live", "releasing"} /\ (holders' # {} => capsule' = "live")
      BY <3>1, <3>2
    <3>4. Ownership'
      BY <2>1, <2>2, <3>1, <3>2, <3>3, SameOwners DEF InitialRef, ThreadRef, CapsuleOwns
    <3>5. Phases'
      BY <2>1, <2>2, <2>3, <3>2, <3>3 DEF Phases
    <3>6. QED
      BY <3>4, <3>5
  <2>6. QED
    BY <2>4, <2>5
<1>5. CASE DestructorReleasesNative
  BY <1>5, QuietStep DEF DestructorReleasesNative, connVars
<1>6. CASE DestructorReleasesBinding
  <2>1. /\ capsule = "releasing" /\ capsule' = "dead" /\ Release
        /\ UNCHANGED <<thread, outcome, native, holders>>
    BY <1>6 DEF DestructorReleasesBinding
  <2>2. holders = {} /\ native # "connecting" /\ ~InSetup
    BY <1>0, <2>1 DEF Phases
  <2>3. (InSetup' <=> InSetup) /\ (InShutdown' <=> InShutdown)
    BY <2>1 DEF InSetup, InShutdown
  <2>4. InitialRef /\ ~InitialRef' /\ (ThreadRef' <=> ThreadRef)
    BY <2>1, <2>2, <2>3 DEF InitialRef, ThreadRef, CapsuleOwns
  <2>5. Ownership' /\ binding' # "none"
    BY <2>1, <2>4, ReleaseOwnership
  <2>6. thread'.at # "setup_py"
    BY <2>2, <2>3 DEF InSetup
  <2>7. InShutdown' => native' = "shutdown"
    BY <1>0, <2>1, <2>3 DEF Phases
  <2>8. Phases'
    BY <2>1, <2>2, <2>3, <2>5, <2>6, <2>7 DEF Phases
  <2>9. QED
    BY <2>5, <2>8
<1>7. CASE Close
  BY <1>7, QuietStep DEF Close, connVars
<1>8. CASE OnRemoteSettingsChange \/ RemoteSettingsReturn
  <2>1. {thread.at, thread'.at} \subseteq {"idle", "settings_py", "complete_py"}
    BY <1>8, <1>i DEF OnRemoteSettingsChange, RemoteSettingsReturn
  <2>2. UNCHANGED <<binding, refCount, coreRef, capsule, holders, native, outcome>>
    BY <1>8 DEF OnRemoteSettingsChange, RemoteSettingsReturn, connVars
  <2>3. QED
    BY <2>1, <2>2, QuietStep
<1>9. ASSUME NEW e \in BOOLEAN, OnConnectionShutdown(e) PROVE Ownership' /\ Phases'
  <2>1. /\ native = "closing" /\ native' = "shutdown" /\ thread = Idle
        /\ thread' = Conn("shutdown_py")
        /\ UNCHANGED <<binding, refCount, coreRef, capsule, holders>>
    BY <1>9 DEF OnConnectionShutdown, connVars
  <2>2. ~InSetup /\ ~InSetup' /\ InShutdown' /\ thread'.at # "setup_py"
    BY <1>i, <2>1 DEF InSetup, InShutdown
  <2>3. Ownership'
    BY <2>1, <2>2, SameOwners DEF InitialRef, ThreadRef, CapsuleOwns
  <2>4. binding' # "none" /\ (holders' # {} => capsule' = "live")
    BY <1>0, <2>1 DEF Phases
  <2>5. Phases'
    BY <2>1, <2>2, <2>4 DEF Phases
  <2>6. QED
    BY <2>3, <2>5
<1>10. CASE PyOnShutdown
  <2>1. /\ thread = Conn("shutdown_py") /\ thread' = Conn("shutdown_release")
        /\ UNCHANGED <<binding, refCount, coreRef, capsule, holders, native>>
    BY <1>10 DEF PyOnShutdown, connVars
  <2>2. ~InSetup /\ ~InSetup' /\ InShutdown /\ InShutdown' /\ thread'.at # "setup_py"
    BY <1>i, <2>1 DEF InSetup, InShutdown
  <2>3. Ownership'
    BY <2>1, <2>2, SameOwners DEF InitialRef, ThreadRef, CapsuleOwns
  <2>4. Phases'
    BY <1>0, <2>1, <2>2 DEF Phases
  <2>5. QED
    BY <2>3, <2>4
<1>11. CASE ShutdownRelease
  <2>1. /\ thread = Conn("shutdown_release") /\ thread' = Idle /\ Release
        /\ UNCHANGED <<capsule, outcome, native, holders>>
    BY <1>11 DEF ShutdownRelease
  <2>2. ~InSetup /\ ~InSetup' /\ InShutdown /\ ~InShutdown' /\ thread'.at # "setup_py"
    BY <1>i, <2>1 DEF InSetup, InShutdown
  <2>3. native = "shutdown" /\ (holders # {} => capsule = "live")
    BY <1>0, <2>2 DEF Phases
  <2>4. ThreadRef /\ ~ThreadRef' /\ (InitialRef' <=> InitialRef)
    BY <2>1, <2>2, <2>3 DEF InitialRef, ThreadRef, CapsuleOwns
  <2>5. Ownership' /\ binding' # "none"
    BY <2>1, <2>4, ReleaseOwnership
  <2>6. Phases'
    BY <2>1, <2>2, <2>3, <2>5 DEF Phases
  <2>7. QED
    BY <2>5, <2>6
<1>12. CASE CancelConnect \/ CancelShutdown
  BY <1>12, QuietStep DEF CancelConnect, CancelShutdown, connVars
<1>13. CASE DropConnection
  <2>1. UNCHANGED <<binding, refCount, coreRef, thread, outcome, native>>
    BY <1>13 DEF DropConnection
  <2>2. CASE "user" \in holders
    BY <1>13, <2>1, <2>2, LetGoStep DEF DropConnection
  <2>3. CASE UNCHANGED <<holders, capsule>>
    BY <2>1, <2>3, QuietStep
  <2>4. QED
    BY <1>13, <2>2, <2>3 DEF DropConnection
<1>14. ASSUME NEW s \in Streams, MakeRequest(s) PROVE Ownership' /\ Phases'
  <2>1. /\ "user" \in holders /\ holders' = holders \union {s}
        /\ UNCHANGED <<binding, refCount, coreRef, capsule, thread, outcome, native>>
    BY <1>14 DEF MakeRequest, connVars
  <2>2. (InSetup' <=> InSetup) /\ (InShutdown' <=> InShutdown)
    BY <2>1 DEF InSetup, InShutdown
  <2>3. Ownership'
    BY <2>1, <2>2, SameOwners DEF InitialRef, ThreadRef, CapsuleOwns
  <2>4. Phases'
    BY <1>0, <2>1, <2>2 DEF Phases
  <2>5. QED
    BY <2>3, <2>4
<1>15. ASSUME NEW s \in Streams, Activate(s) \/ ActivateReturn(s) \/ DropStream(s)
       PROVE  Ownership' /\ Phases'
  BY <1>15, QuietStep DEF Activate, ActivateReturn, DropStream, connVars
<1>16. ASSUME NEW s \in Streams, OnStreamComplete(s) \/ StreamCompleteDecref(s)
       PROVE  Ownership' /\ Phases'
  <2>1. {thread.at, thread'.at} \subseteq {"idle", "settings_py", "complete_py"}
    BY <1>16, <1>i DEF OnStreamComplete, StreamCompleteDecref
  <2>2. UNCHANGED <<binding, refCount, coreRef, capsule, holders, native, outcome>>
    BY <1>16 DEF OnStreamComplete, StreamCompleteDecref, connVars
  <2>3. QED
    BY <2>1, <2>2, QuietStep
<1>17. ASSUME NEW s \in Streams, StreamDealloc(s) PROVE Ownership' /\ Phases'
  <2>1. s \in holders /\ LetGo(s) /\ UNCHANGED <<binding, refCount, coreRef, thread, outcome, native>>
    BY <1>17 DEF StreamDealloc
  <2>2. s # "setup"
    BY StreamsAssumption
  <2>3. QED
    BY <2>1, <2>2, LetGoStep
<1>18. CASE UNCHANGED vars
  BY <1>18, QuietStep DEF vars
<1>19. QED
  BY <1>1, <1>2, <1>3, <1>4, <1>5, <1>6, <1>7, <1>8, <1>9, <1>10, <1>11, <1>12, <1>13,
     <1>14, <1>15, <1>16, <1>17, <1>18
  DEF Next, SetupCallback, ShutdownCallback, CallbackStep, Destructor, PeerCloses,
      UserCloses, Unreferenced

(* No binding exists before the connection is requested. *)
LEMMA OwnershipInit == Init => OwnershipInv
<1> SUFFICES ASSUME Init PROVE OwnershipInv
  OBVIOUS
<1>1. TypeOK
  <2>1. thread \in [at : ThreadAt, on : Streams \union {"connection"}]
    BY PlaceType DEF Init
  <2>2. /\ stream \in [Streams -> {"none", "made", "active", "complete", "released"}]
        /\ pyRefs \in [Streams -> Int]
        /\ userRef \in [Streams -> BOOLEAN] /\ activating \in [Streams -> BOOLEAN]
    BY DEF Init
  <2>3. /\ coreRef \in BOOLEAN /\ outcome \in BOOLEAN /\ nativeRef \in BOOLEAN
        /\ coreHasFuture \in BOOLEAN /\ wanted \in BOOLEAN
    BY DEF Init
  <2>4. /\ binding \in {"none", "live", "freed"} /\ refCount \in Nat
        /\ capsule \in {"none", "live", "releasing", "dead"}
        /\ native \in {"none", "connecting", "open", "closing", "shutdown"}
        /\ connectFuture \in FutureState /\ shutdownFuture \in FutureState \union {"none"}
        /\ holders \subseteq Holder
    BY DEF Init, FutureState
  <2>5. QED
    BY <2>1, <2>2, <2>3, <2>4 DEF TypeOK
<1>2. thread.at = "idle" /\ ~InSetup /\ ~InShutdown
  BY PlaceType DEF Init, InSetup, InShutdown
<1>3. ~InitialRef /\ ~ThreadRef
  BY <1>2 DEF Init, InitialRef, ThreadRef, CapsuleOwns
<1>4. Ownership
  BY <1>3 DEF Init, Ownership
<1>5. Phases
  BY <1>2 DEF Init, Phases
<1>6. QED
  BY <1>1, <1>4, <1>5 DEF OwnershipInv

(* Every variable keeps its type; in particular the reference count of the
   binding is never taken below zero. *)
THEOREM TypeCorrect == Spec => []TypeOK
<1>1. OwnershipInv => TypeOK
  BY DEF OwnershipInv
<1>2. QED
  BY <1>1, OwnershipInit, OwnershipStep, PTL DEF Spec

(* The binding is live exactly while a callback of the connection thread may
   use it or the capsule points to it, in every interleaving of callbacks,
   destructors and application steps, and for any number of streams. *)
THEOREM BindingLifetime == Spec => []BindingLivesWithItsUsers
<1>1. OwnershipInv => BindingLivesWithItsUsers
  <2> SUFFICES ASSUME OwnershipInv PROVE BindingLivesWithItsUsers
    OBVIOUS
  <2>1. Ownership /\ Phases
    BY DEF OwnershipInv
  <2>2. (binding = "live") <=> (InitialRef \/ ThreadRef)
    BY <2>1 DEF Ownership
  <2>3. InSetup => capsule = "none" \/ CapsuleOwns
    BY <2>1 DEF Phases, CapsuleOwns
  <2>4. CallbackMayRun <=> native \in {"connecting", "open", "closing"} \/ InSetup \/ InShutdown
    BY DEF CallbackMayRun, InSetup, InShutdown
  <2>5. (CallbackMayRun \/ CapsuleOwns) <=> (InitialRef \/ ThreadRef)
    BY <2>3, <2>4 DEF InitialRef, ThreadRef
  <2>6. QED
    BY <2>1, <2>2, <2>5 DEF BindingLivesWithItsUsers, Ownership
<1>2. QED
  BY <1>1, OwnershipInit, OwnershipStep, PTL DEF Spec
-----------------------------------------------------------------------------
(* Streams.                                                                 *)

Completing(s) == thread = [at |-> "complete_py", on |-> s]
Pinned(s) == stream[s] = "active" \/ Completing(s)

(* The references to the Python object of one stream: the application's and
   the pin.  While activate() runs, its argument stands in for a pin that is
   not taken yet, and the pin it takes at its end for one that on_complete has
   given back already: the sum is the same whether activate() runs or not. *)
Counted(s) ==
    pyRefs[s] = (IF userRef[s] THEN 1 ELSE 0) + (IF Pinned(s) THEN 1 ELSE 0)

(* Which references go with which state of the native stream. *)
StreamPhases(s) ==
    /\ s \in holders <=> stream[s] \in {"made", "active", "complete"}
    /\ userRef[s] => s \in holders
    /\ activating[s] => userRef[s] /\ stream[s] \in {"active", "complete"}
    /\ Completing(s) => stream[s] = "complete"

PinInv ==
    /\ capsule = "live" => nativeRef
    /\ \A s \in Streams : Counted(s) /\ StreamPhases(s)

(* Steps of the connection: they touch no stream, and no stream's hold on the
   connection. *)
LEMMA ConnectionStepKeepsPins ==
  ASSUME PinInv, UNCHANGED streamVars,
         \A s \in Streams : (s \in holders)' <=> s \in holders,
         thread' = thread \/ (thread.on = "connection" /\ thread'.on = "connection"),
         capsule' = "live" => nativeRef'
  PROVE  PinInv'
<1>1. ASSUME NEW s \in Streams PROVE Completing(s)' <=> Completing(s)
  BY StreamsAssumption DEF Completing
<1>2. ASSUME NEW s \in Streams PROVE Counted(s)' /\ StreamPhases(s)'
  <2>1. Counted(s) /\ StreamPhases(s)
    BY DEF PinInv
  <2>2. QED
    BY <1>1, <2>1 DEF Counted, StreamPhases, Pinned, streamVars
<1>3. QED
  BY <1>2 DEF PinInv

(* What a step of stream s leaves alone. *)
Untouched(r) ==
    /\ (r \in holders)' <=> r \in holders
    /\ stream'[r] = stream[r] /\ pyRefs'[r] = pyRefs[r]
    /\ userRef'[r] = userRef[r] /\ activating'[r] = activating[r]

(* Steps of stream s that leave the others alone. *)
LEMMA StreamStepKeepsPins ==
  ASSUME OwnershipInv, PinInv, NEW s \in Streams,
         Counted(s)', StreamPhases(s)',
         \A r \in Streams \ {s} : Untouched(r) /\ (Completing(r)' <=> Completing(r)),
         capsule' = "live" => nativeRef'
  PROVE  PinInv'
<1>1. ASSUME NEW r \in Streams \ {s} PROVE Counted(r)' /\ StreamPhases(r)'
  <2>1. Counted(r) /\ StreamPhases(r)
    BY DEF PinInv
  <2>2. QED
    BY <2>1 DEF Counted, StreamPhases, Pinned, Untouched
<1>2. QED
  BY <1>1 DEF PinInv

(* The steps of a request: made, activated, completed, dropped. *)
LEMMA RequestKeepsPins ==
  ASSUME OwnershipInv, PinInv, NEW s \in Streams,
         \/ MakeRequest(s) \/ Activate(s) \/ ActivateReturn(s) \/ OnStreamComplete(s)
         \/ StreamCompleteDecref(s) \/ DropStream(s) \/ StreamDealloc(s)
  PROVE  PinInv'
<1>1. TypeOK /\ Counted(s) /\ StreamPhases(s) /\ (capsule = "live" => nativeRef)
  BY DEF OwnershipInv, PinInv
<1>c. thread' = thread => \A r \in Streams : Completing(r)' <=> Completing(r)
  BY DEF Completing
<1>3. CASE MakeRequest(s)
  <2>1. capsule' = capsule /\ nativeRef' = nativeRef /\ thread' = thread
    BY <1>3 DEF MakeRequest, connVars
  <2>2. ~Completing(s) /\ ~activating[s]
    BY <1>1, <1>3 DEF MakeRequest, StreamPhases
  <2>3. Counted(s)' /\ StreamPhases(s)'
    BY <1>1, <1>3, <2>1, <2>2
    DEF MakeRequest, TypeOK, Counted, StreamPhases, Pinned, Completing
  <2>4. \A r \in Streams \ {s} : Untouched(r)
    BY <1>1, <1>3, <2>1 DEF MakeRequest, TypeOK, Untouched
  <2>5. QED
    BY <1>1, <1>c, <2>1, <2>2, <2>3, <2>4, StreamStepKeepsPins
<1>4. CASE Activate(s)
  <2>1. capsule' = capsule /\ nativeRef' = nativeRef /\ thread' = thread
    BY <1>4 DEF Activate, connVars
  <2>2. ~Completing(s)
    BY <1>1, <1>4 DEF Activate, StreamPhases
  <2>3. Counted(s)' /\ StreamPhases(s)'
    BY <1>1, <1>4, <2>1, <2>2
    DEF Activate, TypeOK, Counted, StreamPhases, Pinned, Completing
  <2>4. \A r \in Streams \ {s} : Untouched(r)
    BY <1>1, <1>4, <2>1 DEF Activate, TypeOK, Untouched
  <2>5. QED
    BY <1>1, <1>c, <2>1, <2>2, <2>3, <2>4, StreamStepKeepsPins
<1>5. CASE ActivateReturn(s)
  <2>1. capsule' = capsule /\ nativeRef' = nativeRef /\ thread' = thread
    BY <1>5 DEF ActivateReturn, connVars
  <2>2. Counted(s)' /\ StreamPhases(s)'
    BY <1>1, <1>5, <2>1
    DEF ActivateReturn, PinAndReturn, TypeOK, Counted, StreamPhases, Pinned, Completing
  <2>3. \A r \in Streams \ {s} : Untouched(r)
    BY <1>1, <1>5, <2>1 DEF ActivateReturn, PinAndReturn, TypeOK, Untouched
  <2>4. QED
    BY <1>1, <1>c, <2>1, <2>2, <2>3, StreamStepKeepsPins
<1>6. CASE OnStreamComplete(s)
  <2>1. /\ capsule' = capsule /\ nativeRef' = nativeRef /\ thread = Idle
        /\ thread' = [at |-> "complete_py", on |-> s]
    BY <1>6 DEF OnStreamComplete, connVars
  <2>2. Completing(s)' /\ \A r \in Streams \ {s} : ~Completing(r) /\ ~Completing(r)'
    BY <2>1 DEF Completing, Idle
  <2>3. Counted(s)' /\ StreamPhases(s)'
    BY <1>1, <1>6, <2>2 DEF OnStreamComplete, TypeOK, Counted, StreamPhases, Pinned
  <2>4. \A r \in Streams \ {s} : Untouched(r)
    BY <1>1, <1>6, <2>1 DEF OnStreamComplete, TypeOK, Untouched
  <2>5. QED
    BY <1>1, <2>1, <2>2, <2>3, <2>4, StreamStepKeepsPins
<1>7. CASE StreamCompleteDecref(s)
  <2>1. /\ capsule' = capsule /\ nativeRef' = nativeRef /\ Completing(s) /\ thread' = Idle
    BY <1>7 DEF StreamCompleteDecref, connVars, Completing
  <2>2. ~Completing(s)' /\ \A r \in Streams \ {s} : ~Completing(r) /\ ~Completing(r)'
    BY <2>1 DEF Completing, Idle
  <2>3. Counted(s)' /\ StreamPhases(s)'
    BY <1>1, <1>7, <2>1, <2>2
    DEF StreamCompleteDecref, DecrefTwice, TypeOK, Counted, StreamPhases, Pinned
  <2>4. \A r \in Streams \ {s} : Untouched(r)
    BY <1>1, <1>7, <2>1 DEF StreamCompleteDecref, DecrefTwice, TypeOK, Untouched
  <2>5. QED
    BY <1>1, <2>1, <2>2, <2>3, <2>4, StreamStepKeepsPins
<1>8. CASE DropStream(s)
  <2>1. capsule' = capsule /\ nativeRef' = nativeRef /\ thread' = thread
    BY <1>8 DEF DropStream, connVars
  <2>2. Counted(s)' /\ StreamPhases(s)'
    BY <1>1, <1>8, <2>1 DEF DropStream, TypeOK, Counted, StreamPhases, Pinned, Completing
  <2>3. \A r \in Streams \ {s} : Untouched(r)
    BY <1>1, <1>8, <2>1 DEF DropStream, TypeOK, Untouched
  <2>4. QED
    BY <1>1, <1>c, <2>1, <2>2, <2>3, StreamStepKeepsPins
<1>9. CASE StreamDealloc(s)
  <2>1. /\ thread' = thread /\ nativeRef' = nativeRef /\ holders' = holders \ {s}
        /\ capsule' \in {"releasing", capsule}
    BY <1>9 DEF StreamDealloc, LetGo
  <2>2. ~userRef[s] /\ ~Pinned(s)
    BY <1>1, <1>9 DEF StreamDealloc, Counted
  <2>3. Counted(s)' /\ StreamPhases(s)'
    BY <1>1, <1>9, <2>1, <2>2
    DEF StreamDealloc, TypeOK, Counted, StreamPhases, Pinned, Completing
  <2>4. \A r \in Streams \ {s} : Untouched(r)
    BY <1>1, <1>9, <2>1 DEF StreamDealloc, TypeOK, Untouched
  <2>5. QED
    BY <1>1, <1>c, <2>1, <2>2, <2>3, <2>4, StreamStepKeepsPins
<1>10. QED
  BY <1>3, <1>4, <1>5, <1>6, <1>7, <1>8, <1>9

(* Every step keeps the accounts of the streams. *)
LEMMA PinStep ==
  ASSUME OwnershipInv, PinInv, [Next]_vars
  PROVE  PinInv'
<1>0. /\ TypeOK /\ Phases /\ (capsule = "live" => nativeRef)
      /\ \A s \in Streams : s \notin {"setup", "user", "connection"}
  BY StreamsAssumption DEF OwnershipInv, PinInv
<1>i. /\ Idle.on = "connection" /\ \A a \in ThreadAt : Conn(a).on = "connection"
      /\ {"setup_py", "setup_end", "settings_py", "shutdown_py", "shutdown_release"}
            \subseteq ThreadAt
  BY DEF Idle, Conn, ThreadAt
<1>1. ASSUME NEW o \in {"early", "option", "connect", "ok"}, ConnectionNew(o) PROVE PinInv'
  BY <1>0, <1>1, ConnectionStepKeepsPins DEF ConnectionNew
<1>2. ASSUME NEW f \in BOOLEAN, NEW n \in BOOLEAN, OnConnectionSetup(f, n) PROVE PinInv'
  <2>1. holders = {}
    BY <1>0, <1>2 DEF OnConnectionSetup, Phases
  <2>2. /\ UNCHANGED streamVars /\ holders' \subseteq {"setup"}
        /\ thread = Idle /\ thread' = Conn("setup_py")
        /\ capsule' = "live" => nativeRef'
    BY <1>2 DEF OnConnectionSetup
  <2>3. QED
    BY <1>0, <1>i, <2>1, <2>2, ConnectionStepKeepsPins
<1>3. ASSUME NEW m \in BOOLEAN, PyOnConnectionSetup(m) PROVE PinInv'
  <2>1. /\ UNCHANGED streamVars /\ UNCHANGED <<capsule, nativeRef>>
        /\ holders' \in {holders, holders \union {"user"}}
        /\ thread = Conn("setup_py") /\ thread' = Conn("setup_end")
    BY <1>3 DEF PyOnConnectionSetup, connVars
  <2>2. QED
    BY <1>0, <1>i, <2>1, ConnectionStepKeepsPins
<1>4. CASE SetupEnd
  <2>1. /\ UNCHANGED streamVars /\ holders' \in {holders, holders \ {"setup"}}
        /\ thread = Conn("setup_end") /\ thread' = Idle
        /\ capsule' = "live" => nativeRef'
    BY <1>0, <1>4 DEF SetupEnd
  <2>2. QED
    BY <1>0, <1>i, <2>1, ConnectionStepKeepsPins
<1>5. CASE Destructor
  <2>1. /\ UNCHANGED <<streamVars, holders, thread>> /\ capsule' # "live"
    BY <1>5 DEF Destructor, DestructorReleasesNative, DestructorReleasesBinding, connVars
  <2>2. QED
    BY <2>1, ConnectionStepKeepsPins
<1>6. CASE Close \/ CancelConnect \/ CancelShutdown
  <2>1. UNCHANGED <<streamVars, holders, thread, capsule, nativeRef>>
    BY <1>6 DEF Close, CancelConnect, CancelShutdown, connVars
  <2>2. QED
    BY <1>0, <2>1, ConnectionStepKeepsPins
<1>7. ASSUME \/ OnRemoteSettingsChange \/ RemoteSettingsReturn \/ PyOnShutdown \/ ShutdownRelease
             \/ \E e \in BOOLEAN : OnConnectionShutdown(e)
      PROVE  PinInv'
  <2>1. UNCHANGED <<streamVars, holders, capsule, nativeRef>>
    BY <1>7 DEF OnRemoteSettingsChange, RemoteSettingsReturn, PyOnShutdown, ShutdownRelease,
                OnConnectionShutdown, connVars
  <2>2. thread.on = "connection" /\ thread'.on = "connection"
    BY <1>7, <1>i DEF OnRemoteSettingsChange, RemoteSettingsReturn, PyOnShutdown,
                      ShutdownRelease, OnConnectionShutdown
  <2>3. QED
    BY <1>0, <2>1, <2>2, ConnectionStepKeepsPins
<1>8. CASE DropConnection
  <2>1. /\ UNCHANGED <<streamVars, thread, nativeRef>> /\ capsule' \in {"releasing", capsule}
        /\ holders' \in {holders, holders \ {"user"}}
    BY <1>8 DEF DropConnection, LetGo
  <2>2. QED
    BY <1>0, <2>1, ConnectionStepKeepsPins
<1>9. CASE UNCHANGED vars
  <2>1. UNCHANGED <<streamVars, holders, thread, capsule, nativeRef>>
    BY <1>9 DEF vars, streamVars
  <2>2. QED
    BY <1>0, <2>1, ConnectionStepKeepsPins
<1>10. QED
  BY <1>1, <1>2, <1>3, <1>4, <1>5, <1>6, <1>7, <1>8, <1>9, RequestKeepsPins
  DEF Next, SetupCallback, ShutdownCallback, CallbackStep, PeerCloses, UserCloses, Unreferenced

(* Before the first request no stream is referred to. *)
LEMMA PinInit == Init => PinInv
<1> SUFFICES ASSUME Init PROVE PinInv
  OBVIOUS
<1>1. ASSUME NEW s \in Streams PROVE Counted(s) /\ StreamPhases(s)
  <2>1. ~Completing(s)
    BY DEF Init, Idle, Completing
  <2>2. QED
    BY <2>1 DEF Init, Counted, StreamPhases, Pinned
<1>2. QED
  BY <1>1 DEF Init, PinInv

(* While a native stream is active or completes, its Python object, the
   connection it was made on and the native connection are all kept; after the
   completion the object is left with the application's reference alone.  This
   holds however on_complete interleaves with an activate() that has not
   returned, for any number of streams. *)
THEOREM PinHolds == Spec => []StreamIsPinned
<1>1. OwnershipInv /\ PinInv => StreamIsPinned
  <2> SUFFICES ASSUME OwnershipInv, PinInv, NEW s \in Streams
               PROVE  /\ Pinned(s) => pyRefs[s] > 0 /\ s \in holders /\ capsule = "live" /\ nativeRef
                      /\ stream[s] = "complete" /\ thread.on # s /\ ~activating[s] =>
                            pyRefs[s] = (IF userRef[s] THEN 1 ELSE 0)
    BY DEF StreamIsPinned, Pinned, Completing
  <2>1. Counted(s) /\ StreamPhases(s) /\ (capsule = "live" => nativeRef)
    BY DEF PinInv
  <2>2. holders # {} => capsule = "live"
    BY DEF OwnershipInv, Phases
  <2>3. ASSUME Pinned(s)
        PROVE  pyRefs[s] > 0 /\ s \in holders /\ capsule = "live" /\ nativeRef
    BY <2>1, <2>2, <2>3 DEF Counted, StreamPhases, Pinned
  <2>4. ASSUME stream[s] = "complete", thread.on # s
        PROVE  pyRefs[s] = (IF userRef[s] THEN 1 ELSE 0)
    BY <2>1, <2>4 DEF Counted, Pinned, Completing
  <2>5. QED
    BY <2>3, <2>4
<1>2. OwnershipInv /\ PinInv /\ [Next]_vars => (OwnershipInv /\ PinInv)'
  BY OwnershipStep, PinStep
<1>3. Init => OwnershipInv /\ PinInv
  BY OwnershipInit, PinInit
<1>4. QED
  BY <1>1, <1>2, <1>3, PTL DEF Spec
=============================================================================
