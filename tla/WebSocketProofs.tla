-------------------------- MODULE WebSocketProofs --------------------------
(***************************************************************************)
(* Proofs about WebSocket for any set of sends: types, the lifetime of the *)
(* core, the frame attribute, the send operations and the capsule.         *)
(***************************************************************************)
EXTENDS WebSocket, TLAPS

(* Each reference to the core has an owner: the frame of connect(), and C as
   long as a callback is under way or to come. *)
CoreCounted ==
    coreRefs = (IF calling THEN 1 ELSE 0) + (IF MayCallBack THEN 1 ELSE 0)

(* Which callbacks go with which states of the native websocket. *)
Phases ==
    /\ native \in {"none", "connecting"} => thread = "idle" /\ holders = {} /\ capsule = "none"
    /\ native = "none" => ~calling
    /\ thread \in {"setup_error", "shutdown"} => native = "gone"
    /\ thread \in {"setup", "send"} \union FrameCallback =>
          native \in {"open", "closing", "finishing"}

(* The attribute mirrors the native websocket's position in a frame. *)
FrameMirrored == ~fatal /\ (frameAttr <=> inFrame)

(* The sends by what has become of them. *)
SendLedger ==
    /\ queued \intersect current = {}
    /\ \A s \in queued \union current : sent[s] = "accepted"
    /\ thread # "send" => current = {}

(* Who holds the WebSocket: the setup callback, and each op's closure. *)
Held ==
    /\ (capsule = "live") <=> (holders # {})
    /\ thread = "setup" => "setup" \in holders
    /\ thread = "send" => \E s \in Sends : current = {s}
    /\ ops \subseteq holders
    /\ "setup" \in holders => thread = "setup"

WebSocketInv ==
    /\ TypeOK
    /\ CoreCounted
    /\ Phases
    /\ FrameMirrored
    /\ SendsSettledOnce
    /\ SendLedger
    /\ Held

-----------------------------------------------------------------------------
(* What one step does to each part of the invariant, action by action. *)

(* Every step keeps the types. *)
LEMMA TypeStep ==
  ASSUME WebSocketInv, Next
  PROVE  TypeOK'
<1>1. ASSUME NEW ok \in BOOLEAN, OnConnectionSetup(ok) PROVE  TypeOK'
  BY <1>1
  DEF OnConnectionSetup, coreVars, frameVars, sendVars, WebSocketInv, TypeOK,
      FrameCallback
<1>2. CASE OnConnectionShutdown
  BY <1>2
  DEF OnConnectionShutdown, coreVars, frameVars, sendVars, WebSocketInv, TypeOK,
      FrameCallback
<1>3. CASE OnIncomingFrameBegin
  BY <1>3
  DEF OnIncomingFrameBegin, CanRead, coreVars, sendVars, WebSocketInv, TypeOK,
      FrameCallback
<1>4. CASE OnIncomingFramePayload
  BY <1>4
  DEF OnIncomingFramePayload, CanRead, coreVars, sendVars, WebSocketInv, TypeOK,
      FrameCallback
<1>5. CASE OnIncomingFrameComplete
  BY <1>5
  DEF OnIncomingFrameComplete, CanRead, coreVars, sendVars, WebSocketInv, TypeOK,
      FrameCallback
<1>6. ASSUME NEW s \in Sends, OnSendFrameComplete(s) PROVE  TypeOK'
  BY <1>6
  DEF OnSendFrameComplete, coreVars, frameVars, WebSocketInv, TypeOK, FrameCallback
<1>7. ASSUME NEW r \in BOOLEAN, SetupReturns(r) PROVE  TypeOK'
  BY <1>7
  DEF SetupReturns, LetGo, CapsuleDestructor, CloseIfRaised, AfterClose, coreVars,
      frameVars, sendVars, WebSocketInv, TypeOK, FrameCallback
<1>8. ASSUME NEW r \in BOOLEAN, FrameReturns(r) PROVE  TypeOK'
  BY <1>8
  DEF FrameReturns, CloseIfRaised, AfterClose, KeepFrame, FrameCallback, coreVars,
      sendVars, WebSocketInv, TypeOK
<1>9. ASSUME NEW r \in BOOLEAN, SendCompleteReturns(r) PROVE  TypeOK'
  BY <1>9
  DEF SendCompleteReturns, LetGo, CapsuleDestructor, CloseIfRaised, AfterClose,
      coreVars, frameVars, WebSocketInv, TypeOK, FrameCallback
<1>10. CASE SetupErrorReturns
  <2>1. coreRefs \in Nat /\ coreRefs > 0
    BY <1>10 DEF SetupErrorReturns, WebSocketInv, TypeOK, CoreCounted, MayCallBack
  <2>2. coreRefs - 1 \in Nat
    BY <2>1
  <2>3. QED
    BY <1>10, <2>2 DEF SetupErrorReturns, ReleaseCore, WebSocketInv, TypeOK, FrameCallback, frameVars, sendVars
<1>11. CASE ShutdownReturns
  <2>1. coreRefs \in Nat /\ coreRefs > 0
    BY <1>11 DEF ShutdownReturns, WebSocketInv, TypeOK, CoreCounted, MayCallBack
  <2>2. coreRefs - 1 \in Nat
    BY <2>1
  <2>3. QED
    BY <1>11, <2>2 DEF ShutdownReturns, ReleaseCore, WebSocketInv, TypeOK, FrameCallback, frameVars, sendVars
<1>12. CASE ConnectReturns
  <2>1. coreRefs \in Nat /\ coreRefs > 0
    BY <1>12 DEF ConnectReturns, WebSocketInv, TypeOK, CoreCounted
  <2>2. coreRefs - 1 \in Nat
    BY <2>1
  <2>3. QED
    BY <1>12, <2>2 DEF ConnectReturns, WebSocketInv, TypeOK, frameVars, sendVars
<1>13. ASSUME NEW ok \in BOOLEAN, Connect(ok) PROVE  TypeOK'
  BY <1>13
  DEF Connect, frameVars, sendVars, WebSocketInv, TypeOK, FrameCallback
<1>14. CASE ConnectRejected
  BY <1>14
  DEF ConnectRejected, coreVars, frameVars, sendVars, WebSocketInv, TypeOK,
      FrameCallback
<1>15. CASE StoreWebSocket
  BY <1>15
  DEF StoreWebSocket, coreVars, frameVars, sendVars, WebSocketInv, TypeOK,
      FrameCallback
<1>16. CASE DropWebSocket
  BY <1>16
  DEF DropWebSocket, LetGo, CapsuleDestructor, AfterClose, coreVars, frameVars,
      sendVars, WebSocketInv, TypeOK, FrameCallback
<1>17. CASE Close
  BY <1>17
  DEF Close, AfterClose, coreVars, frameVars, sendVars, WebSocketInv, TypeOK,
      FrameCallback
<1>18. ASSUME NEW s \in Sends, NEW a \in BOOLEAN, SendFrame(s, a) PROVE  TypeOK'
  <2>1. sent' \in [Sends -> {"no", "accepted", "raised"}]
    BY <1>18 DEF SendFrame, WebSocketInv, TypeOK
  <2>2. /\ ops' \subseteq Sends /\ queued' \subseteq Sends
        /\ holders' \subseteq {"setup", "user"} \union Sends
    BY <1>18 DEF SendFrame, AfterSend, ClosureHolds, WebSocketInv, TypeOK
  <2>3. QED
    BY <1>18, <2>1, <2>2 DEF SendFrame, WebSocketInv, TypeOK, coreVars, frameVars
<1>19. CASE PeerCloses
  BY <1>19
  DEF PeerCloses, coreVars, frameVars, sendVars, WebSocketInv, TypeOK, FrameCallback
<1>20. CASE Finish
  BY <1>20
  DEF Finish, coreVars, frameVars, sendVars, WebSocketInv, TypeOK, FrameCallback
<1>21. QED
  BY <1>1, <1>2, <1>3, <1>4, <1>5, <1>6, <1>7, <1>8, <1>9, <1>10, <1>11, <1>12, <1>13,
     <1>14, <1>15, <1>16, <1>17, <1>18, <1>19, <1>20 DEF Next, Callbacks, Returns, Application

(* Every step accounts for the references of the core. *)
LEMMA CoreStep ==
  ASSUME WebSocketInv, Next
  PROVE  CoreCounted'
<1>1. ASSUME NEW ok \in BOOLEAN, OnConnectionSetup(ok) PROVE  CoreCounted'
  BY <1>1
  DEF OnConnectionSetup, coreVars, frameVars, sendVars, WebSocketInv, CoreCounted,
      MayCallBack, Phases, TypeOK, FrameCallback
<1>2. CASE OnConnectionShutdown
  BY <1>2
  DEF OnConnectionShutdown, coreVars, frameVars, sendVars, WebSocketInv, CoreCounted,
      MayCallBack, Phases, TypeOK, FrameCallback
<1>3. CASE OnIncomingFrameBegin
  BY <1>3
  DEF OnIncomingFrameBegin, CanRead, coreVars, sendVars, WebSocketInv, CoreCounted,
      MayCallBack, Phases, TypeOK, FrameCallback
<1>4. CASE OnIncomingFramePayload
  BY <1>4
  DEF OnIncomingFramePayload, CanRead, coreVars, sendVars, WebSocketInv, CoreCounted,
      MayCallBack, Phases, TypeOK, FrameCallback
<1>5. CASE OnIncomingFrameComplete
  BY <1>5
  DEF OnIncomingFrameComplete, CanRead, coreVars, sendVars, WebSocketInv, CoreCounted,
      MayCallBack, Phases, TypeOK, FrameCallback
<1>6. ASSUME NEW s \in Sends, OnSendFrameComplete(s) PROVE  CoreCounted'
  BY <1>6
  DEF OnSendFrameComplete, coreVars, frameVars, WebSocketInv, CoreCounted,
      MayCallBack, Phases, TypeOK, FrameCallback
<1>7. ASSUME NEW r \in BOOLEAN, SetupReturns(r) PROVE  CoreCounted'
  BY <1>7
  DEF SetupReturns, LetGo, CapsuleDestructor, CloseIfRaised, AfterClose, coreVars,
      frameVars, sendVars, WebSocketInv, CoreCounted, MayCallBack, Phases, TypeOK,
      FrameCallback
<1>8. ASSUME NEW r \in BOOLEAN, FrameReturns(r) PROVE  CoreCounted'
  BY <1>8
  DEF FrameReturns, CloseIfRaised, AfterClose, KeepFrame, FrameCallback, coreVars,
      sendVars, WebSocketInv, CoreCounted, MayCallBack, Phases, TypeOK
<1>9. ASSUME NEW r \in BOOLEAN, SendCompleteReturns(r) PROVE  CoreCounted'
  BY <1>9
  DEF SendCompleteReturns, LetGo, CapsuleDestructor, CloseIfRaised, AfterClose,
      coreVars, frameVars, WebSocketInv, CoreCounted, MayCallBack, Phases, TypeOK,
      FrameCallback
<1>10. CASE SetupErrorReturns
  BY <1>10
  DEF SetupErrorReturns, ReleaseCore, frameVars, sendVars, WebSocketInv, CoreCounted,
      MayCallBack, Phases, TypeOK, FrameCallback
<1>11. CASE ShutdownReturns
  BY <1>11
  DEF ShutdownReturns, ReleaseCore, frameVars, sendVars, WebSocketInv, CoreCounted,
      MayCallBack, Phases, TypeOK, FrameCallback
<1>12. CASE ConnectReturns
  BY <1>12
  DEF ConnectReturns, frameVars, sendVars, WebSocketInv, CoreCounted, MayCallBack,
      Phases, TypeOK, FrameCallback
<1>13. ASSUME NEW ok \in BOOLEAN, Connect(ok) PROVE  CoreCounted'
  BY <1>13
  DEF Connect, frameVars, sendVars, WebSocketInv, CoreCounted, MayCallBack, Phases,
      TypeOK, FrameCallback
<1>14. CASE ConnectRejected
  BY <1>14
  DEF ConnectRejected, coreVars, frameVars, sendVars, WebSocketInv, CoreCounted,
      MayCallBack, Phases, TypeOK, FrameCallback
<1>15. CASE StoreWebSocket
  BY <1>15
  DEF StoreWebSocket, coreVars, frameVars, sendVars, WebSocketInv, CoreCounted,
      MayCallBack, Phases, TypeOK, FrameCallback
<1>16. CASE DropWebSocket
  BY <1>16
  DEF DropWebSocket, LetGo, CapsuleDestructor, AfterClose, coreVars, frameVars,
      sendVars, WebSocketInv, CoreCounted, MayCallBack, Phases, TypeOK, FrameCallback
<1>17. CASE Close
  BY <1>17
  DEF Close, AfterClose, coreVars, frameVars, sendVars, WebSocketInv, CoreCounted,
      MayCallBack, Phases, TypeOK, FrameCallback
<1>18. ASSUME NEW s \in Sends, NEW a \in BOOLEAN, SendFrame(s, a) PROVE  CoreCounted'
  BY <1>18
  DEF SendFrame, AfterSend, ClosureHolds, coreVars, frameVars, WebSocketInv,
      CoreCounted, MayCallBack, Phases, TypeOK, FrameCallback
<1>19. CASE PeerCloses
  BY <1>19
  DEF PeerCloses, coreVars, frameVars, sendVars, WebSocketInv, CoreCounted,
      MayCallBack, Phases, TypeOK, FrameCallback
<1>20. CASE Finish
  BY <1>20
  DEF Finish, coreVars, frameVars, sendVars, WebSocketInv, CoreCounted, MayCallBack,
      Phases, TypeOK, FrameCallback
<1>21. QED
  BY <1>1, <1>2, <1>3, <1>4, <1>5, <1>6, <1>7, <1>8, <1>9, <1>10, <1>11, <1>12, <1>13,
     <1>14, <1>15, <1>16, <1>17, <1>18, <1>19, <1>20 DEF Next, Callbacks, Returns, Application

(* Callbacks and native states stay in step. *)
LEMMA PhasesStep ==
  ASSUME WebSocketInv, Next
  PROVE  Phases'
<1>1. ASSUME NEW ok \in BOOLEAN, OnConnectionSetup(ok) PROVE  Phases'
  BY <1>1
  DEF OnConnectionSetup, coreVars, frameVars, sendVars, WebSocketInv, Phases, Held,
      TypeOK, FrameCallback
<1>2. CASE OnConnectionShutdown
  BY <1>2
  DEF OnConnectionShutdown, coreVars, frameVars, sendVars, WebSocketInv, Phases, Held,
      TypeOK, FrameCallback
<1>3. CASE OnIncomingFrameBegin
  BY <1>3
  DEF OnIncomingFrameBegin, CanRead, coreVars, sendVars, WebSocketInv, Phases, Held,
      TypeOK, FrameCallback
<1>4. CASE OnIncomingFramePayload
  BY <1>4
  DEF OnIncomingFramePayload, CanRead, coreVars, sendVars, WebSocketInv, Phases, Held,
      TypeOK, FrameCallback
<1>5. CASE OnIncomingFrameComplete
  BY <1>5
  DEF OnIncomingFrameComplete, CanRead, coreVars, sendVars, WebSocketInv, Phases,
      Held, TypeOK, FrameCallback
<1>6. ASSUME NEW s \in Sends, OnSendFrameComplete(s) PROVE  Phases'
  BY <1>6
  DEF OnSendFrameComplete, coreVars, frameVars, WebSocketInv, Phases, Held, TypeOK,
      FrameCallback
<1>7. ASSUME NEW r \in BOOLEAN, SetupReturns(r) PROVE  Phases'
  BY <1>7
  DEF SetupReturns, LetGo, CapsuleDestructor, CloseIfRaised, AfterClose, coreVars,
      frameVars, sendVars, WebSocketInv, Phases, Held, TypeOK, FrameCallback
<1>8. ASSUME NEW r \in BOOLEAN, FrameReturns(r) PROVE  Phases'
  BY <1>8
  DEF FrameReturns, CloseIfRaised, AfterClose, KeepFrame, FrameCallback, coreVars,
      sendVars, WebSocketInv, Phases, Held, TypeOK
<1>9. ASSUME NEW r \in BOOLEAN, SendCompleteReturns(r) PROVE  Phases'
  BY <1>9
  DEF SendCompleteReturns, LetGo, CapsuleDestructor, CloseIfRaised, AfterClose,
      coreVars, frameVars, WebSocketInv, Phases, Held, TypeOK, FrameCallback
<1>10. CASE SetupErrorReturns
  BY <1>10
  DEF SetupErrorReturns, ReleaseCore, frameVars, sendVars, WebSocketInv, Phases, Held,
      TypeOK, FrameCallback
<1>11. CASE ShutdownReturns
  BY <1>11
  DEF ShutdownReturns, ReleaseCore, frameVars, sendVars, WebSocketInv, Phases, Held,
      TypeOK, FrameCallback
<1>12. CASE ConnectReturns
  BY <1>12
  DEF ConnectReturns, frameVars, sendVars, WebSocketInv, Phases, Held, TypeOK,
      FrameCallback
<1>13. ASSUME NEW ok \in BOOLEAN, Connect(ok) PROVE  Phases'
  BY <1>13
  DEF Connect, frameVars, sendVars, WebSocketInv, Phases, Held, TypeOK, FrameCallback
<1>14. CASE ConnectRejected
  BY <1>14
  DEF ConnectRejected, coreVars, frameVars, sendVars, WebSocketInv, Phases, Held,
      TypeOK, FrameCallback
<1>15. CASE StoreWebSocket
  BY <1>15
  DEF StoreWebSocket, coreVars, frameVars, sendVars, WebSocketInv, Phases, Held,
      TypeOK, FrameCallback
<1>16. CASE DropWebSocket
  BY <1>16
  DEF DropWebSocket, LetGo, CapsuleDestructor, AfterClose, coreVars, frameVars,
      sendVars, WebSocketInv, Phases, Held, TypeOK, FrameCallback
<1>17. CASE Close
  BY <1>17
  DEF Close, AfterClose, coreVars, frameVars, sendVars, WebSocketInv, Phases, Held,
      TypeOK, FrameCallback
<1>18. ASSUME NEW s \in Sends, NEW a \in BOOLEAN, SendFrame(s, a) PROVE  Phases'
  BY <1>18
  DEF SendFrame, AfterSend, ClosureHolds, coreVars, frameVars, WebSocketInv, Phases,
      Held, TypeOK, FrameCallback
<1>19. CASE PeerCloses
  BY <1>19
  DEF PeerCloses, coreVars, frameVars, sendVars, WebSocketInv, Phases, Held, TypeOK,
      FrameCallback
<1>20. CASE Finish
  BY <1>20
  DEF Finish, coreVars, frameVars, sendVars, WebSocketInv, Phases, Held, TypeOK,
      FrameCallback
<1>21. QED
  BY <1>1, <1>2, <1>3, <1>4, <1>5, <1>6, <1>7, <1>8, <1>9, <1>10, <1>11, <1>12, <1>13,
     <1>14, <1>15, <1>16, <1>17, <1>18, <1>19, <1>20 DEF Next, Callbacks, Returns, Application

(* The attribute keeps mirroring the native frame. *)
LEMMA FrameStep ==
  ASSUME WebSocketInv, Next
  PROVE  FrameMirrored'
<1>1. CASE OnIncomingFrameBegin
  BY <1>1
  DEF OnIncomingFrameBegin, CanRead, coreVars, sendVars, WebSocketInv, FrameMirrored,
      TypeOK
<1>2. CASE OnIncomingFramePayload
  BY <1>2
  DEF OnIncomingFramePayload, CanRead, coreVars, sendVars, WebSocketInv,
      FrameMirrored, TypeOK
<1>3. CASE OnIncomingFrameComplete
  BY <1>3
  DEF OnIncomingFrameComplete, CanRead, coreVars, sendVars, WebSocketInv,
      FrameMirrored, TypeOK
<1>4. ASSUME NEW r \in BOOLEAN, FrameReturns(r) PROVE  FrameMirrored'
  BY <1>4
  DEF FrameReturns, CloseIfRaised, AfterClose, KeepFrame, FrameCallback, coreVars,
      sendVars, WebSocketInv, FrameMirrored, TypeOK
<1>5. ASSUME UNCHANGED <<fatal, frameAttr, inFrame>> PROVE  FrameMirrored'
  BY <1>5
  DEF WebSocketInv, FrameMirrored
<1>6. QED
  BY <1>1, <1>2, <1>3, <1>4, <1>5
  DEF Next, Callbacks, Returns, Application, OnConnectionSetup, OnConnectionShutdown,
      OnSendFrameComplete, SetupReturns, SendCompleteReturns, SetupErrorReturns,
      ShutdownReturns, ConnectReturns, Connect, ConnectRejected, StoreWebSocket,
      DropWebSocket, Close, SendFrame, PeerCloses, Finish, coreVars, frameVars,
      sendVars

(* An op goes with each unfinished send, and completions are reported once. *)
LEMMA SettledStep ==
  ASSUME WebSocketInv, Next
  PROVE  SendsSettledOnce'
<1>1. ASSUME NEW s \in Sends, OnSendFrameComplete(s) PROVE  SendsSettledOnce'
  BY <1>1
  DEF OnSendFrameComplete, coreVars, frameVars, WebSocketInv, SendsSettledOnce,
      SendLedger, TypeOK
<1>2. ASSUME NEW r \in BOOLEAN, SendCompleteReturns(r) PROVE  SendsSettledOnce'
  BY <1>2
  DEF SendCompleteReturns, LetGo, CapsuleDestructor, CloseIfRaised, AfterClose,
      coreVars, frameVars, WebSocketInv, SendsSettledOnce, SendLedger, TypeOK
<1>3. ASSUME NEW s \in Sends, NEW a \in BOOLEAN, SendFrame(s, a) PROVE  SendsSettledOnce'
  BY <1>3
  DEF SendFrame, AfterSend, ClosureHolds, coreVars, frameVars, WebSocketInv,
      SendsSettledOnce, SendLedger, TypeOK
<1>4. ASSUME UNCHANGED <<current, ops, reported, sent, queued>> PROVE  SendsSettledOnce'
  BY <1>4
  DEF WebSocketInv, SendsSettledOnce
<1>5. QED
  BY <1>1, <1>2, <1>3, <1>4
  DEF Next, Callbacks, Returns, Application, OnConnectionSetup, OnConnectionShutdown,
      OnIncomingFrameBegin, OnIncomingFramePayload, OnIncomingFrameComplete,
      SetupReturns, FrameReturns, SetupErrorReturns, ShutdownReturns, ConnectReturns,
      Connect, ConnectRejected, StoreWebSocket, DropWebSocket, Close, PeerCloses,
      Finish, coreVars, frameVars, sendVars

(* The ledger of the sends is kept. *)
LEMMA LedgerStep ==
  ASSUME WebSocketInv, Next
  PROVE  SendLedger'
<1>1. ASSUME NEW ok \in BOOLEAN, OnConnectionSetup(ok) PROVE  SendLedger'
  BY <1>1
  DEF OnConnectionSetup, coreVars, frameVars, sendVars, WebSocketInv, SendLedger,
      TypeOK
<1>2. CASE OnConnectionShutdown
  BY <1>2
  DEF OnConnectionShutdown, coreVars, frameVars, sendVars, WebSocketInv, SendLedger,
      TypeOK
<1>3. CASE OnIncomingFrameBegin
  BY <1>3
  DEF OnIncomingFrameBegin, CanRead, coreVars, sendVars, WebSocketInv, SendLedger,
      TypeOK
<1>4. CASE OnIncomingFramePayload
  BY <1>4
  DEF OnIncomingFramePayload, CanRead, coreVars, sendVars, WebSocketInv, SendLedger,
      TypeOK
<1>5. CASE OnIncomingFrameComplete
  BY <1>5
  DEF OnIncomingFrameComplete, CanRead, coreVars, sendVars, WebSocketInv, SendLedger,
      TypeOK
<1>6. ASSUME NEW s \in Sends, OnSendFrameComplete(s) PROVE  SendLedger'
  BY <1>6
  DEF OnSendFrameComplete, coreVars, frameVars, WebSocketInv, SendLedger, TypeOK
<1>7. ASSUME NEW r \in BOOLEAN, SetupReturns(r) PROVE  SendLedger'
  BY <1>7
  DEF SetupReturns, LetGo, CapsuleDestructor, CloseIfRaised, AfterClose, coreVars,
      frameVars, sendVars, WebSocketInv, SendLedger, TypeOK
<1>8. ASSUME NEW r \in BOOLEAN, FrameReturns(r) PROVE  SendLedger'
  BY <1>8
  DEF FrameReturns, CloseIfRaised, AfterClose, KeepFrame, FrameCallback, coreVars,
      sendVars, WebSocketInv, SendLedger, TypeOK
<1>9. ASSUME NEW r \in BOOLEAN, SendCompleteReturns(r) PROVE  SendLedger'
  BY <1>9
  DEF SendCompleteReturns, LetGo, CapsuleDestructor, CloseIfRaised, AfterClose,
      coreVars, frameVars, WebSocketInv, SendLedger, TypeOK
<1>10. CASE SetupErrorReturns
  BY <1>10
  DEF SetupErrorReturns, ReleaseCore, frameVars, sendVars, WebSocketInv, SendLedger,
      TypeOK
<1>11. CASE ShutdownReturns
  BY <1>11
  DEF ShutdownReturns, ReleaseCore, frameVars, sendVars, WebSocketInv, SendLedger,
      TypeOK
<1>12. ASSUME NEW s \in Sends, NEW a \in BOOLEAN, SendFrame(s, a) PROVE  SendLedger'
  BY <1>12
  DEF SendFrame, AfterSend, ClosureHolds, coreVars, frameVars, WebSocketInv,
      SendLedger, TypeOK
<1>13. ASSUME UNCHANGED <<current, sent, queued, thread>> PROVE  SendLedger'
  BY <1>13
  DEF WebSocketInv, SendLedger
<1>14. QED
  BY <1>1, <1>2, <1>3, <1>4, <1>5, <1>6, <1>7, <1>8, <1>9, <1>10, <1>11, <1>12, <1>13
  DEF Next, Callbacks, Returns, Application, ConnectReturns, Connect, ConnectRejected,
      StoreWebSocket, DropWebSocket, Close, PeerCloses, Finish, coreVars, frameVars,
      sendVars

(* The holders of the WebSocket are accounted for. *)
LEMMA HeldStep ==
  ASSUME WebSocketInv, Next
  PROVE  Held'
<1>1. ASSUME NEW ok \in BOOLEAN, OnConnectionSetup(ok) PROVE  Held'
  BY <1>1, SendsAssumption
  DEF OnConnectionSetup, coreVars, frameVars, sendVars, WebSocketInv,
      SendsSettledOnce, SendLedger, Held, Phases, TypeOK, FrameCallback
<1>2. CASE OnConnectionShutdown
  BY <1>2, SendsAssumption
  DEF OnConnectionShutdown, coreVars, frameVars, sendVars, WebSocketInv,
      SendsSettledOnce, SendLedger, Held, Phases, TypeOK, FrameCallback
<1>3. CASE OnIncomingFrameBegin
  BY <1>3, SendsAssumption
  DEF OnIncomingFrameBegin, CanRead, coreVars, sendVars, WebSocketInv,
      SendsSettledOnce, SendLedger, Held, Phases, TypeOK, FrameCallback
<1>4. CASE OnIncomingFramePayload
  BY <1>4, SendsAssumption
  DEF OnIncomingFramePayload, CanRead, coreVars, sendVars, WebSocketInv,
      SendsSettledOnce, SendLedger, Held, Phases, TypeOK, FrameCallback
<1>5. CASE OnIncomingFrameComplete
  BY <1>5, SendsAssumption
  DEF OnIncomingFrameComplete, CanRead, coreVars, sendVars, WebSocketInv,
      SendsSettledOnce, SendLedger, Held, Phases, TypeOK, FrameCallback
<1>6. ASSUME NEW s \in Sends, OnSendFrameComplete(s) PROVE  Held'
  BY <1>6, SendsAssumption
  DEF OnSendFrameComplete, coreVars, frameVars, WebSocketInv, SendsSettledOnce,
      SendLedger, Held, Phases, TypeOK, FrameCallback
<1>7. ASSUME NEW r \in BOOLEAN, SetupReturns(r) PROVE  Held'
  BY <1>7, SendsAssumption
  DEF SetupReturns, LetGo, CapsuleDestructor, CloseIfRaised, AfterClose, coreVars,
      frameVars, sendVars, WebSocketInv, SendsSettledOnce, SendLedger, Held, Phases,
      TypeOK, FrameCallback
<1>8. ASSUME NEW r \in BOOLEAN, FrameReturns(r) PROVE  Held'
  BY <1>8, SendsAssumption
  DEF FrameReturns, CloseIfRaised, AfterClose, KeepFrame, FrameCallback, coreVars,
      sendVars, WebSocketInv, SendsSettledOnce, SendLedger, Held, Phases, TypeOK
<1>9. ASSUME NEW r \in BOOLEAN, SendCompleteReturns(r) PROVE  Held'
  BY <1>9, SendsAssumption
  DEF SendCompleteReturns, LetGo, CapsuleDestructor, CloseIfRaised, AfterClose,
      coreVars, frameVars, WebSocketInv, SendsSettledOnce, SendLedger, Held, Phases,
      TypeOK, FrameCallback
<1>10. CASE SetupErrorReturns
  BY <1>10, SendsAssumption
  DEF SetupErrorReturns, ReleaseCore, frameVars, sendVars, WebSocketInv,
      SendsSettledOnce, SendLedger, Held, Phases, TypeOK, FrameCallback
<1>11. CASE ShutdownReturns
  BY <1>11, SendsAssumption
  DEF ShutdownReturns, ReleaseCore, frameVars, sendVars, WebSocketInv,
      SendsSettledOnce, SendLedger, Held, Phases, TypeOK, FrameCallback
<1>12. CASE ConnectReturns
  BY <1>12, SendsAssumption
  DEF ConnectReturns, frameVars, sendVars, WebSocketInv, SendsSettledOnce, SendLedger,
      Held, Phases, TypeOK, FrameCallback
<1>13. ASSUME NEW ok \in BOOLEAN, Connect(ok) PROVE  Held'
  BY <1>13, SendsAssumption
  DEF Connect, frameVars, sendVars, WebSocketInv, SendsSettledOnce, SendLedger, Held,
      Phases, TypeOK, FrameCallback
<1>14. CASE ConnectRejected
  BY <1>14, SendsAssumption
  DEF ConnectRejected, coreVars, frameVars, sendVars, WebSocketInv, SendsSettledOnce,
      SendLedger, Held, Phases, TypeOK, FrameCallback
<1>15. CASE StoreWebSocket
  BY <1>15, SendsAssumption
  DEF StoreWebSocket, coreVars, frameVars, sendVars, WebSocketInv, SendsSettledOnce,
      SendLedger, Held, Phases, TypeOK, FrameCallback
<1>16. CASE DropWebSocket
  BY <1>16, SendsAssumption
  DEF DropWebSocket, LetGo, CapsuleDestructor, AfterClose, coreVars, frameVars,
      sendVars, WebSocketInv, SendsSettledOnce, SendLedger, Held, Phases, TypeOK,
      FrameCallback
<1>17. CASE Close
  BY <1>17, SendsAssumption
  DEF Close, AfterClose, coreVars, frameVars, sendVars, WebSocketInv,
      SendsSettledOnce, SendLedger, Held, Phases, TypeOK, FrameCallback
<1>18. ASSUME NEW s \in Sends, NEW a \in BOOLEAN, SendFrame(s, a) PROVE  Held'
  BY <1>18, SendsAssumption
  DEF SendFrame, AfterSend, ClosureHolds, coreVars, frameVars, WebSocketInv,
      SendsSettledOnce, SendLedger, Held, Phases, TypeOK, FrameCallback
<1>19. CASE PeerCloses
  BY <1>19, SendsAssumption
  DEF PeerCloses, coreVars, frameVars, sendVars, WebSocketInv, SendsSettledOnce,
      SendLedger, Held, Phases, TypeOK, FrameCallback
<1>20. CASE Finish
  BY <1>20, SendsAssumption
  DEF Finish, coreVars, frameVars, sendVars, WebSocketInv, SendsSettledOnce,
      SendLedger, Held, Phases, TypeOK, FrameCallback
<1>21. QED
  BY <1>1, <1>2, <1>3, <1>4, <1>5, <1>6, <1>7, <1>8, <1>9, <1>10, <1>11, <1>12, <1>13,
     <1>14, <1>15, <1>16, <1>17, <1>18, <1>19, <1>20 DEF Next, Callbacks, Returns, Application

-----------------------------------------------------------------------------
(* The invariant holds at first and is kept by every step. *)
LEMMA Invariance == Spec => []WebSocketInv
<1>1. ASSUME Init PROVE WebSocketInv
  <2>1. TypeOK
    BY <1>1 DEF Init, TypeOK
  <2>2. CoreCounted /\ Phases /\ FrameMirrored
    BY <1>1 DEF Init, CoreCounted, MayCallBack, Phases, FrameMirrored, FrameCallback
  <2>3. SendsSettledOnce
    BY <1>1 DEF Init, SendsSettledOnce
  <2>4. SendLedger /\ Held
    BY <1>1, <2>3 DEF Init, SendLedger, Held
  <2>5. QED
    BY <2>1, <2>2, <2>3, <2>4 DEF WebSocketInv
<1>2. WebSocketInv /\ [Next]_vars => WebSocketInv'
  <2>1. ASSUME WebSocketInv, Next PROVE WebSocketInv'
    BY <2>1, TypeStep, CoreStep, PhasesStep, FrameStep, SettledStep, LedgerStep, HeldStep
    DEF WebSocketInv
  <2>2. ASSUME WebSocketInv, UNCHANGED vars PROVE WebSocketInv'
    BY <2>2 DEF vars, WebSocketInv, TypeOK, CoreCounted, MayCallBack, Phases,
         FrameMirrored, SendsSettledOnce, SendLedger, Held
  <2>3. QED
    BY <2>1, <2>2
<1>3. QED
  BY <1>1, <1>2, PTL DEF Spec

(* The types hold in every reachable state, for any set of sends: no reference
   of the core is given back that is not owned. *)
THEOREM TypeCorrect == Spec => []TypeOK
<1>1. WebSocketInv => TypeOK
  BY DEF WebSocketInv
<1>2. QED
  BY <1>1, Invariance, PTL

(* The core is alive exactly while connect() runs or C may call it back. *)
THEOREM CoreLifetime == Spec => []CoreOutlivesCallbacks
<1>1. WebSocketInv => CoreOutlivesCallbacks
  BY DEF WebSocketInv, CoreCounted, CoreOutlivesCallbacks
<1>2. QED
  BY <1>1, Invariance, PTL

(* The frame callbacks never hit the fatal assertion. *)
THEOREM FramesAreSafe == Spec => []NeverFatal
<1>1. WebSocketInv => NeverFatal
  BY DEF WebSocketInv, FrameMirrored, NeverFatal
<1>2. QED
  BY <1>1, Invariance, PTL

(* Buffers live as long as their sends, and each accepted send is reported
   once, whatever the number of sends in flight. *)
THEOREM SendsAreSettled == Spec => []SendsSettledOnce
<1>1. WebSocketInv => SendsSettledOnce
  BY DEF WebSocketInv
<1>2. QED
  BY <1>1, Invariance, PTL

(* close() in a raising setup or send callback has a live capsule. *)
THEOREM ClosingIsSafe == Spec => []CallbackCanClose
<1>1. ASSUME WebSocketInv PROVE CallbackCanClose
  <2>1. CASE thread = "setup"
    BY <1>1, <2>1 DEF WebSocketInv, Held, CallbackCanClose
  <2>2. CASE thread = "send"
    <3>1. PICK s \in Sends : current = {s}
      BY <1>1, <2>2 DEF WebSocketInv, Held
    <3>2. s \in holders
      BY <1>1, <3>1 DEF WebSocketInv, Held, SendsSettledOnce
    <3>3. QED
      BY <1>1, <3>2 DEF WebSocketInv, Held, CallbackCanClose
  <2>3. QED
    BY <2>1, <2>2 DEF CallbackCanClose
<1>2. QED
  BY <1>1, Invariance, PTL
=============================================================================
