--------------------- MODULE MqttRequestResponseProofs ---------------------
(***************************************************************************)
(* Proofs about the MQTT 3.1.1 Connection with a request-response client on*)
(* it, for any operations, requests and number of connection attempts: type*)
(* correctness, the lifetimes of the bindings and the bookkeeping of the   *)
(* callbacks they hold.                                                    *)
(***************************************************************************)
EXTENDS MqttRequestResponse, TLAPS

(* The capsule is destroyed by whoever drops the last strong reference. *)
CapsuleWithObject == PyAlive <=> capsule = "open"

(* An operation that was not tried has left nothing in the binding. *)
Untried == \A o \in Op : op[o] = "none" => refs[o] = {}

(* Unless they overlapped, a call of connect() that is past the check is the only
   one, and the slot is still empty. *)
Separate ==
    ~overlapped => \A a \in Attempt : attempt[a] = "checked" =>
                      slot = 0 /\ \A b \in Attempt : attempt[b] = "checked" => b = a

(* A call of the application has a reference to the Connection. *)
CallsHold == InCall # {} => held

AttemptInv == PendingAttemptInSlot /\ SlotIsGivenBack /\ Separate /\ CallsHold

ConnectionInv ==
    /\ TypeOK
    /\ CapsuleWithObject /\ BindingOutlivesCallbacks
    /\ AttemptInv
    /\ Untried /\ CallbackReferences

(* A request or a streaming operation the native client still works on. *)
ClientBusy == (\E r \in Request : req[r] = "open") \/ streamMem = "live"

(* The native client has a reference to the native connection, and its
   operations have one to the client. *)
ClientReferences ==
    /\ rrHeld <=> rr = "live"
    /\ ClientBusy => rr \in {"live", "releasing"}
    /\ rr \in {"live", "releasing"} => binding = "live"

RrInv == RrTypeOK /\ ConnectionInv /\ ClientReferences

(* While a request or a streaming operation of the request-response client is
   under way, the connection's binding, which its MQTT callbacks go through, is
   there: also when the application has dropped the Connection, the Client and
   the operation. *)
ClientKeepsConnection == ClientBusy => binding = "live"

-----------------------------------------------------------------------------
(* The Connection.  Each step leaves the request-response client alone.      *)

(* Where the native connection may be after the capsule's destructor. *)
LEMMA LetGoStep ==
  ASSUME TypeOK, NEW last \in BOOLEAN, LetGo(last)
  PROVE  /\ binding' = binding
         /\ capsule' \in {"open", "leaving", "released"}
         /\ native' \in {"idle", "connecting", "connected", "interrupted", "disconnecting"}
         /\ capsule' = "open" <=> (capsule = "open" /\ ~last)
         /\ ~last \/ capsule # "open" => UNCHANGED <<capsule, native>>
         /\ native = "connecting" => native' = "connecting"
  BY DEF TypeOK, LetGo, Destroy

(* While the capsule is open the binding is live: a call of the application
   never meets a freed binding. *)
LEMMA HeldMeansLive ==
  ASSUME ConnectionInv
  PROVE  /\ held \/ cbRef => capsule = "open" /\ binding = "live"
         /\ capsule = "open" => held \/ cbRef
  BY DEF ConnectionInv, CapsuleWithObject, PyAlive, BindingOutlivesCallbacks

(* Steps that leave the operations alone and free nothing. *)
LEMMA EventStep ==
  ASSUME ConnectionInv, UNCHANGED <<opVars, binding>>, TypeOK', AttemptInv',
         CapsuleWithObject', binding = "live" \/ UNCHANGED <<capsule, native, cbRef>>
  PROVE  ConnectionInv'
<1>1. BindingOutlivesCallbacks'
  BY DEF ConnectionInv, BindingOutlivesCallbacks, opVars
<1>2. Untried' /\ CallbackReferences'
  BY DEF ConnectionInv, Untried, CallbackReferences, opVars
<1>3. QED
  BY <1>1, <1>2 DEF ConnectionInv

(* Steps that leave the attempts alone: the slot is taken only while the native
   connection tries to connect, and those steps do not end that. *)
LEMMA AttemptsQuiet ==
  ASSUME AttemptInv, UNCHANGED <<attemptVars, binding>>, InCall # {} => held',
         native = "connecting" => native' = "connecting"
  PROVE  AttemptInv'
BY DEF AttemptInv, PendingAttemptInSlot, SlotIsGivenBack, Separate, CallsHold, InCall, attemptVars

(* connect() and reconnect(), up to the look at the slot *)
LEMMA BeginStep ==
  ASSUME ConnectionInv, NEW a \in Attempt, BeginAttempt(a), rr' = rr
  PROVE  ConnectionInv'
<1>0. /\ TypeOK /\ Separate /\ CapsuleWithObject /\ PendingAttemptInSlot /\ SlotIsGivenBack /\ CallsHold
      /\ held /\ attempt[a] = "none"
      /\ UNCHANGED <<held, cbRef, capsule, native, binding, slot, opVars>>
  BY DEF ConnectionInv, AttemptInv, BeginAttempt, NextAttempt
<1>1. attempt' = [attempt EXCEPT ![a] = "settled"] \/ attempt' = [attempt EXCEPT ![a] = "checked"]
  BY DEF BeginAttempt
<1>2. /\ overlapped' \in BOOLEAN
      /\ overlapped => overlapped'
      /\ InCall # {} => overlapped'
  BY <1>0 DEF BeginAttempt, TypeOK
<1>3. TypeOK'
  BY <1>0, <1>1, <1>2 DEF TypeOK, FutureState, opVars
<1>4. Separate'
  <2> SUFFICES ASSUME ~overlapped' PROVE Separate'
    BY DEF Separate
  <2>1. InCall = {} /\ ~overlapped
    BY <1>2
  <2>2. CASE attempt' = [attempt EXCEPT ![a] = "settled"]
    BY <1>0, <2>1, <2>2 DEF Separate, InCall, TypeOK
  <2>3. CASE attempt' = [attempt EXCEPT ![a] = "checked"] /\ SlotEmpty
    <3>1. \A b \in Attempt : attempt'[b] = "checked" => b = a
      BY <1>0, <2>1, <2>3 DEF InCall, TypeOK
    <3>2. QED
      BY <1>0, <2>3, <3>1 DEF Separate, SlotEmpty
  <2>4. QED
    BY <2>2, <2>3 DEF BeginAttempt
<1>5. PendingAttemptInSlot'
  BY <1>0, <1>1, <1>2 DEF PendingAttemptInSlot, TypeOK
<1>6. CapsuleWithObject' /\ SlotIsGivenBack' /\ CallsHold'
  BY <1>0 DEF CapsuleWithObject, PyAlive, SlotIsGivenBack, CallsHold
<1>7. QED
  BY <1>0, <1>3, <1>4, <1>5, <1>6, EventStep DEF AttemptInv

(* The store into the slot and the native call. *)
LEMMA StartStep ==
  ASSUME ConnectionInv, NEW a \in Attempt, StartAttempt(a), rr' = rr
  PROVE  ConnectionInv'
<1>0. /\ TypeOK /\ Separate /\ CapsuleWithObject /\ PendingAttemptInSlot /\ SlotIsGivenBack /\ CallsHold
      /\ attempt[a] = "checked" /\ UNCHANGED <<held, cbRef, capsule, binding, overlapped, opVars>>
  BY DEF ConnectionInv, AttemptInv, StartAttempt
<1>1. held /\ binding = "live"
  BY <1>0, HeldMeansLive DEF CallsHold, InCall
<1>2. a \in 0 .. MaxAttempts /\ a # 0 /\ 0 \in 0 .. MaxAttempts
  BY MaxAttemptsAssumption DEF Attempt
<1>a. ~overlapped => \A b \in Attempt : attempt[b] # "pending" /\ (attempt[b] = "checked" => b = a)
  BY <1>0, <1>1, MaxAttemptsAssumption DEF Separate, PendingAttemptInSlot, Attempt
<1>3. CASE /\ native' = "connecting" /\ slot' = a
           /\ attempt' = [attempt EXCEPT ![a] = "pending"]
  <2>1. TypeOK'
    BY <1>0, <1>2, <1>3 DEF TypeOK, FutureState, opVars
  <2>2. Separate' /\ PendingAttemptInSlot'
    BY <1>0, <1>1, <1>a, <1>3 DEF Separate, PendingAttemptInSlot, TypeOK
  <2>3. CapsuleWithObject' /\ SlotIsGivenBack' /\ CallsHold'
    BY <1>0, <1>1, <1>3 DEF CapsuleWithObject, PyAlive, SlotIsGivenBack, CallsHold
  <2>4. QED
    BY <1>0, <1>1, <2>1, <2>2, <2>3, EventStep DEF AttemptInv
<1>4. CASE /\ slot' = 0 /\ native' = native
           /\ attempt' = [attempt EXCEPT ![a] = "settled"]
  <2>1. TypeOK'
    BY <1>0, <1>2, <1>4 DEF TypeOK, FutureState, opVars
  <2>2. Separate'
    BY <1>0, <1>4 DEF Separate, TypeOK
  <2>3. PendingAttemptInSlot'
    BY <1>0, <1>a, <1>4 DEF PendingAttemptInSlot, TypeOK
  <2>4. CapsuleWithObject' /\ SlotIsGivenBack' /\ CallsHold'
    BY <1>0, <1>1, <1>4 DEF CapsuleWithObject, PyAlive, SlotIsGivenBack, CallsHold
  <2>5. QED
    BY <1>0, <1>1, <2>1, <2>2, <2>3, <2>4, EventStep DEF AttemptInv
<1>5. QED
  BY <1>3, <1>4 DEF StartAttempt, SlotCleared

(* An operation is refused, or accepted, or finds nothing to do. *)
LEMMA OperationStep ==
  ASSUME ConnectionInv, NEW o \in Op, rr' = rr,
         Publish(o) \/ Subscribe(o) \/ Unsubscribe(o) \/ ResubscribeExistingTopics(o)
  PROVE  ConnectionInv'
<1>0. TypeOK /\ op[o] = "none" /\ held /\ UNCHANGED connVars
  BY DEF ConnectionInv, Publish, Subscribe, Unsubscribe, ResubscribeExistingTopics, Refuse, Accept
<1>1. binding = "live" /\ refs[o] = {} /\ o \notin tree
  BY <1>0, HeldMeansLive DEF ConnectionInv, Untried, CallbackReferences
<1>2. \E s \in {"queued", "empty", "ended"}, f \in FutureState, k \in SUBSET {"message", "ack"} :
         /\ op' = [op EXCEPT ![o] = s] /\ opFut' = [opFut EXCEPT ![o] = f]
         /\ refs' = [refs EXCEPT ![o] = k]
         /\ tree' = (IF "message" \in k THEN tree \cup {o} ELSE tree)
         /\ "ack" \in k <=> s = "queued"
  <2>1. \A k \in Kind : Refuse(o, k) =>
            /\ op' = [op EXCEPT ![o] = "ended"] /\ opFut' = [opFut EXCEPT ![o] = "settled"]
            /\ refs' = [refs EXCEPT ![o] = {}] /\ tree' = tree
    BY DEF Refuse, Refused
  <2>2. \A k \in Kind, T \in SUBSET Op : Accept(o, k, T) =>
            /\ op' = [op EXCEPT ![o] = "queued"] /\ opFut' = [opFut EXCEPT ![o] = "pending"]
            /\ refs' = [refs EXCEPT ![o] = Callbacks(k)] /\ tree' = T
    BY DEF Accept
  <2>3. /\ Callbacks("publish") = {"ack"} /\ Callbacks("unsubscribe") = {"ack"}
        /\ Callbacks("resubscribe") = {"ack"} /\ Callbacks("subscribe") = {"message", "ack"}
    BY DEF Callbacks
  <2>4. {"publish", "subscribe", "unsubscribe", "resubscribe"} = Kind
    BY DEF Kind
  <2>5. tree \in SUBSET Op /\ tree \cup {o} \in SUBSET Op
    BY <1>0 DEF TypeOK
  <2>6. \/ /\ op' = [op EXCEPT ![o] = "ended"] /\ opFut' = [opFut EXCEPT ![o] = "settled"]
           /\ refs' = [refs EXCEPT ![o] = {}] /\ tree' = tree
        \/ /\ op' = [op EXCEPT ![o] = "queued"] /\ opFut' = [opFut EXCEPT ![o] = "pending"]
           /\ refs' = [refs EXCEPT ![o] = {"ack"}] /\ tree' = tree
        \/ /\ op' = [op EXCEPT ![o] = "queued"] /\ opFut' = [opFut EXCEPT ![o] = "pending"]
           /\ refs' = [refs EXCEPT ![o] = {"message", "ack"}] /\ tree' = tree \cup {o}
        \/ /\ op' = [op EXCEPT ![o] = "empty"] /\ opFut' = [opFut EXCEPT ![o] = "pending"]
           /\ refs' = [refs EXCEPT ![o] = {}] /\ tree' = tree
    BY <2>1, <2>2, <2>3, <2>4, <2>5
    DEF Publish, Subscribe, Unsubscribe, ResubscribeExistingTopics
  <2>7. /\ {} \in SUBSET {"message", "ack"} /\ {"ack"} \in SUBSET {"message", "ack"}
        /\ {"message", "ack"} \in SUBSET {"message", "ack"}
        /\ "settled" \in FutureState /\ "pending" \in FutureState
        /\ "message" \notin {"ack"} /\ "message" \notin {} /\ "ack" \notin {}
    BY DEF FutureState
  <2>8. QED
    BY <2>6, <2>7, Zenon
<1>3. PICK s \in {"queued", "empty", "ended"}, f \in FutureState, k \in SUBSET {"message", "ack"} :
         /\ op' = [op EXCEPT ![o] = s] /\ opFut' = [opFut EXCEPT ![o] = f]
         /\ refs' = [refs EXCEPT ![o] = k]
         /\ tree' = (IF "message" \in k THEN tree \cup {o} ELSE tree)
         /\ "ack" \in k <=> s = "queued"
  BY <1>2
<1>4. TypeOK'
  BY <1>0, <1>3 DEF TypeOK, connVars, attemptVars
<1>5. CapsuleWithObject' /\ BindingOutlivesCallbacks'
  BY <1>0, <1>1 DEF ConnectionInv, CapsuleWithObject, PyAlive, BindingOutlivesCallbacks, connVars
<1>6. AttemptInv'
  BY <1>0, AttemptsQuiet DEF ConnectionInv, AttemptInv, CallsHold, connVars
<1>7. Untried' /\ CallbackReferences'
  BY <1>0, <1>1, <1>3 DEF ConnectionInv, Untried, CallbackReferences, TypeOK
<1>8. QED
  BY <1>4, <1>5, <1>6, <1>7 DEF ConnectionInv

(* The answer to an operation, which may take a topic out of the tree. *)
LEMMA CompleteStep ==
  ASSUME ConnectionInv, NEW o \in Op, NEW gone \in SUBSET tree, Complete(o, gone), rr' = rr
  PROVE  ConnectionInv'
<1>0. TypeOK /\ op[o] = "queued" /\ binding = "live" /\ UNCHANGED connVars
  BY DEF ConnectionInv, Complete
<1>1. TypeOK'
  BY <1>0 DEF Complete, Answered, AckDropped, Settle, FutureState, TypeOK, connVars, attemptVars
<1>2. CapsuleWithObject' /\ BindingOutlivesCallbacks'
  BY <1>0 DEF ConnectionInv, CapsuleWithObject, PyAlive, BindingOutlivesCallbacks, connVars
<1>3. AttemptInv'
  BY <1>0, AttemptsQuiet DEF ConnectionInv, AttemptInv, CallsHold, connVars
<1>4. \A q \in Op :
         /\ "ack" \in refs'[q] <=> "ack" \in refs[q] /\ q # o
         /\ "message" \in refs'[q] <=> "message" \in refs[q] /\ q \notin gone
         /\ op'[q] = IF q = o THEN "ended" ELSE op[q]
         /\ refs'[q] \subseteq refs[q]
  BY <1>0 DEF Complete, AckDropped, TypeOK
<1>5. Untried'
  BY <1>4 DEF ConnectionInv, Untried
<1>6. CallbackReferences'
  <2>1. \A q \in Op : "ack" \in refs'[q] <=> op'[q] = "queued"
    BY <1>0, <1>4 DEF ConnectionInv, CallbackReferences
  <2>2. tree' = tree \ gone /\ tree = {q \in Op : "message" \in refs[q]}
    BY DEF ConnectionInv, CallbackReferences, Complete
  <2>3. tree' = {q \in Op : "message" \in refs'[q]}
    BY <1>4, <2>2
  <2>4. QED
    BY <2>1, <2>3 DEF CallbackReferences
<1>7. QED
  BY <1>1, <1>2, <1>3, <1>5, <1>6 DEF ConnectionInv

(* The other calls of the application. *)
LEMMA ApplicationKeeps ==
  ASSUME ConnectionInv, ApplicationStep, rr' = rr
  PROVE  ConnectionInv'
<1>0. TypeOK /\ AttemptInv /\ CapsuleWithObject
  BY DEF ConnectionInv
<1>c. InCall # {} => held
  BY <1>0 DEF AttemptInv, CallsHold
<1>1. ASSUME NEW a \in Attempt, CancelConnect(a) PROVE ConnectionInv'
  <2>1. TypeOK'
    BY <1>0, <1>1 DEF CancelConnect, TypeOK, FutureState, opVars
  <2>2. AttemptInv'
    BY <1>0, <1>1 DEF CancelConnect, AttemptInv, PendingAttemptInSlot, SlotIsGivenBack, Separate,
                      CallsHold, InCall, TypeOK
  <2>3. QED
    BY <1>0, <1>1, <2>1, <2>2, EventStep DEF CancelConnect, CapsuleWithObject, PyAlive
<1>2. ASSUME NEW o \in Op, CancelOp(o) PROVE ConnectionInv'
  <2>1. TypeOK'
    BY <1>0, <1>2 DEF CancelOp, TypeOK, FutureState, connVars, attemptVars
  <2>2. AttemptInv'
    BY <1>0, <1>c, <1>2, AttemptsQuiet DEF CancelOp, connVars
  <2>3. QED
    BY <1>2, <2>1, <2>2 DEF CancelOp, ConnectionInv, CapsuleWithObject, PyAlive,
          BindingOutlivesCallbacks, Untried, CallbackReferences, connVars
<1>3. CASE Disconnect
  <2>1. TypeOK' /\ CapsuleWithObject'
    BY <1>0, <1>3 DEF Disconnect, TypeOK, CapsuleWithObject, PyAlive, attemptVars, opVars
  <2>a. AttemptInv'
    BY <1>0, <1>3, AttemptsQuiet DEF Disconnect
  <2>2. binding = "live"
    BY <1>3, HeldMeansLive DEF Disconnect
  <2>3. QED
    BY <1>3, <2>1, <2>a, <2>2, EventStep DEF Disconnect
<1>4. CASE Drop
  <2>1. /\ held /\ InCall = {} /\ held' = FALSE /\ UNCHANGED <<cbRef, attemptVars, opVars>>
        /\ LetGo(~cbRef) /\ (~cbRef) \in BOOLEAN
    BY <1>4 DEF Drop
  <2>2. /\ binding' = binding /\ capsule' \in {"open", "leaving", "released"}
        /\ native' \in {"idle", "connecting", "connected", "interrupted", "disconnecting"}
        /\ capsule' = "open" <=> (capsule = "open" /\ cbRef)
        /\ native = "connecting" => native' = "connecting"
    BY <1>0, <2>1, LetGoStep
  <2>3. TypeOK'
    BY <1>0, <2>1, <2>2 DEF TypeOK, attemptVars, opVars
  <2>4. AttemptInv'
    BY <1>0, <1>c, <2>1, <2>2, AttemptsQuiet
  <2>5. CapsuleWithObject' /\ binding = "live"
    BY <2>1, <2>2, HeldMeansLive DEF CapsuleWithObject, PyAlive
  <2>6. QED
    BY <2>1, <2>2, <2>3, <2>4, <2>5, EventStep
<1>5. QED
  BY <1>1, <1>2, <1>3, <1>4, BeginStep, StartStep, OperationStep DEF ApplicationStep, Connect, Reconnect

(* The callbacks of the event-loop thread. *)
LEMMA EventLoopKeeps ==
  ASSUME ConnectionInv, EventLoopStep, rr' = rr
  PROVE  ConnectionInv'
<1>0. TypeOK /\ AttemptInv /\ CapsuleWithObject
  BY DEF ConnectionInv
<1>c. InCall # {} => held
  BY <1>0 DEF AttemptInv, CallsHold
<1>1. ASSUME NEW ok \in BOOLEAN, OnConnect(ok) PROVE ConnectionInv'
  <2>1. /\ binding = "live" /\ ~cbRef /\ slot' = 0 /\ cbRef' = held
        /\ native' \in {"connected", "idle"}
        /\ UNCHANGED <<held, capsule, binding, overlapped, opVars>>
    BY <1>0, <1>1 DEF OnConnect, Notify, PyAlive, TypeOK
  <2>2. /\ attempt' \in [Attempt -> FutureState \cup {"checked"}]
        /\ \A a \in Attempt :
              /\ attempt'[a] = "checked" <=> attempt[a] = "checked"
              /\ attempt'[a] = "pending" => attempt[a] = "pending" /\ a # slot
    BY <1>0, <1>1 DEF OnConnect, Settle, FutureState, TypeOK
  <2>3. TypeOK'
    BY <1>0, <2>1, <2>2, MaxAttemptsAssumption DEF TypeOK, opVars
  <2>4. AttemptInv'
    BY <1>0, <2>1, <2>2 DEF AttemptInv, PendingAttemptInSlot, SlotIsGivenBack, Separate, CallsHold, InCall
  <2>5. CapsuleWithObject'
    BY <1>0, <2>1 DEF CapsuleWithObject, PyAlive
  <2>6. QED
    BY <2>1, <2>3, <2>4, <2>5, EventStep
<1>2. CASE Interrupted \/ Resumed
  <2>1. /\ binding = "live" /\ ~cbRef /\ cbRef' = held /\ native' \in {"connected", "interrupted"}
        /\ native # "connecting"
        /\ UNCHANGED <<held, capsule, binding, attemptVars, opVars>>
    BY <1>0, <1>2 DEF Interrupted, Resumed, Notify, PyAlive, TypeOK
  <2>2. TypeOK' /\ AttemptInv'
    BY <1>0, <1>c, <2>1, AttemptsQuiet DEF TypeOK, attemptVars, opVars
  <2>3. CapsuleWithObject'
    BY <1>0, <2>1 DEF CapsuleWithObject, PyAlive
  <2>4. QED
    BY <2>1, <2>2, <2>3, EventStep
<1>3. CASE OnDisconnect
  <2>1. binding = "live"
    BY <1>3 DEF OnDisconnect, ConnectionInv, BindingOutlivesCallbacks
  <2>2. /\ ~cbRef /\ native = "disconnecting" /\ native' = "idle"
        /\ cbRef' = (capsule = "open" /\ held)
        /\ capsule' = IF capsule = "leaving" THEN "released" ELSE capsule
        /\ UNCHANGED <<held, binding, attemptVars, opVars>>
    BY <1>0, <1>3 DEF OnDisconnect, Notify, PyAlive, TypeOK
  <2>3. TypeOK' /\ AttemptInv'
    BY <1>0, <1>c, <2>2, AttemptsQuiet DEF TypeOK, attemptVars, opVars
  <2>4. CapsuleWithObject'
    BY <1>0, <2>2 DEF CapsuleWithObject, PyAlive, TypeOK
  <2>5. QED
    BY <2>1, <2>2, <2>3, <2>4, EventStep
<1>4. CASE CallbackEnd
  <2>1. /\ cbRef /\ cbRef' = FALSE /\ UNCHANGED <<held, attemptVars, opVars>>
        /\ LetGo(~held) /\ (~held) \in BOOLEAN
    BY <1>4 DEF CallbackEnd
  <2>2. /\ binding' = binding /\ capsule' \in {"open", "leaving", "released"}
        /\ native' \in {"idle", "connecting", "connected", "interrupted", "disconnecting"}
        /\ capsule' = "open" <=> (capsule = "open" /\ held)
        /\ native = "connecting" => native' = "connecting"
    BY <1>0, <2>1, LetGoStep
  <2>3. TypeOK'
    BY <1>0, <2>1, <2>2 DEF TypeOK, attemptVars, opVars
  <2>4. AttemptInv'
    BY <1>0, <1>c, <2>1, <2>2, AttemptsQuiet
  <2>5. CapsuleWithObject' /\ binding = "live"
    BY <2>1, <2>2, HeldMeansLive DEF CapsuleWithObject, PyAlive
  <2>6. QED
    BY <2>1, <2>2, <2>3, <2>4, <2>5, EventStep
<1>5. ASSUME NEW o \in Op, OnAck(o) \/ OnUnsuback(o) PROVE ConnectionInv'
  <2>1. \E gone \in SUBSET tree : Complete(o, gone)
    BY <1>5 DEF OnAck, OnUnsuback
  <2>2. QED
    BY <2>1, CompleteStep
<1>6. CASE Terminated
  <2>1. /\ capsule = "released" /\ ~cbRef /\ \A o \in Op : op[o] # "queued"
        /\ binding' = "freed" /\ native' = "idle" /\ slot' = 0 /\ tree' = {}
        /\ refs' = [o \in Op |-> refs[o] \ {"message"}]
        /\ UNCHANGED <<held, cbRef, capsule, attempt, overlapped, op, opFut>>
    BY <1>6 DEF Terminated, Terminating
  <2>2. TypeOK'
    BY <1>0, <2>1, MaxAttemptsAssumption DEF TypeOK
  <2>3. CapsuleWithObject' /\ BindingOutlivesCallbacks'
    BY <1>0, <2>1 DEF CapsuleWithObject, PyAlive, BindingOutlivesCallbacks
  <2>a. AttemptInv'
    BY <1>0, <2>1 DEF AttemptInv, PendingAttemptInSlot, SlotIsGivenBack, Separate, CallsHold, InCall
  <2>4. Untried' /\ CallbackReferences'
    BY <2>1 DEF ConnectionInv, Untried, CallbackReferences
  <2>5. QED
    BY <2>2, <2>3, <2>a, <2>4 DEF ConnectionInv
<1>7. QED
  BY <1>1, <1>2, <1>3, <1>4, <1>5, <1>6 DEF EventLoopStep

-----------------------------------------------------------------------------
(* The request-response client.                                             *)

(* A step of the Connection frees its binding only when no client is left. *)
LEMMA ConnectionKeepsClient ==
  ASSUME RrInv, ApplicationStep \/ EventLoopStep, UNCHANGED rrVars, ConnectionInv'
  PROVE  RrInv'
<1>1. RrTypeOK'
  BY DEF RrInv, RrTypeOK, rrVars, ConnectionInv
<1>3. binding' = binding \/ rr \in {"none", "gone"}
  <2>1. \A a \in Attempt : Connect(a) \/ Reconnect(a) \/ StartAttempt(a) \/ CancelConnect(a)
           => binding' = binding
    BY DEF Connect, Reconnect, BeginAttempt, StartAttempt, CancelConnect
  <2>2. \A o \in Op :
           \/ Publish(o) \/ Subscribe(o) \/ Unsubscribe(o)
           \/ ResubscribeExistingTopics(o) \/ CancelOp(o) \/ OnAck(o) \/ OnUnsuback(o)
           => binding' = binding
    BY DEF Publish, Subscribe, Unsubscribe, ResubscribeExistingTopics, CancelOp, OnAck, OnUnsuback,
           Refuse, Accept, Complete, connVars
  <2>3. Disconnect \/ Drop \/ CallbackEnd => binding' = binding
    BY DEF Disconnect, Drop, CallbackEnd, LetGo, Destroy
  <2>4. (\E ok \in BOOLEAN : OnConnect(ok)) \/ Interrupted \/ Resumed \/ OnDisconnect
           => binding' = binding
    BY DEF OnConnect, Interrupted, Resumed, OnDisconnect
  <2>5. Terminated => rr \in {"none", "gone"}
    BY DEF Terminated, Terminating
  <2>6. QED
    BY <2>1, <2>2, <2>3, <2>4, <2>5 DEF ApplicationStep, EventLoopStep
<1>4. ClientReferences'
  BY <1>3 DEF RrInv, ClientReferences, ClientBusy, rrVars
<1>5. QED
  BY <1>1, <1>4 DEF RrInv

(* A step of the client leaves the Connection alone. *)
LEMMA ClientStep ==
  ASSUME RrInv, RrStep
  PROVE  RrInv'
<1>0. /\ TypeOK /\ RrTypeOK /\ ConnectionInv /\ ClientReferences
  BY DEF RrInv, RrTypeOK
<1>1. UNCHANGED <<connVars, opVars>>
  BY DEF RrStep, ClientNew, DropClient, ClientGone, MakeRequest, OnRequestComplete,
         CreateStream, Open, DropStream, StoreNull, StreamTerminated
<1>2. ASSUME rr' \in {"none", "live", "releasing", "gone"} PROVE TypeOK' /\ ConnectionInv'
  BY <1>0, <1>1, <1>2
  DEF TypeOK, ConnectionInv, CapsuleWithObject, PyAlive, BindingOutlivesCallbacks,
      AttemptInv, PendingAttemptInSlot, SlotIsGivenBack, Separate, CallsHold, InCall, Untried,
      CallbackReferences, connVars, attemptVars, opVars
<1>3. binding' = binding
  BY <1>1 DEF connVars
<1>4. CASE ClientNew
  <2>1. binding = "live"
    BY <1>0, <1>4, HeldMeansLive DEF ClientNew
  <2>2. /\ rr' = "live" /\ rrHeld' = TRUE /\ UNCHANGED <<req, stream, streamMem>>
    BY <1>4 DEF ClientNew
  <2>3. RrTypeOK'
    BY <1>0, <1>2, <2>2 DEF RrTypeOK
  <2>4. ClientReferences'
    BY <1>0, <1>3, <2>1, <2>2 DEF ClientReferences, ClientBusy
  <2>5. QED
    BY <1>2, <2>2, <2>3, <2>4 DEF RrInv
<1>5. CASE DropClient
  <2>1. /\ rrHeld /\ rr' = "releasing" /\ rrHeld' = FALSE
        /\ UNCHANGED <<req, stream, streamMem>>
    BY <1>5 DEF DropClient
  <2>2. RrTypeOK'
    BY <1>0, <1>2, <2>1 DEF RrTypeOK
  <2>3. ClientReferences'
    BY <1>0, <1>3, <2>1 DEF ClientReferences, ClientBusy
  <2>4. QED
    BY <1>2, <2>1, <2>2, <2>3 DEF RrInv
<1>6. CASE ClientGone
  <2>1. /\ rr = "releasing" /\ ~ClientBusy /\ rr' = "gone"
        /\ UNCHANGED <<rrHeld, req, stream, streamMem>>
    BY <1>6 DEF ClientGone, ClientBusy
  <2>2. RrTypeOK'
    BY <1>0, <1>2, <2>1 DEF RrTypeOK
  <2>3. ClientReferences'
    BY <1>0, <2>1 DEF ClientReferences, ClientBusy
  <2>4. QED
    BY <1>2, <2>1, <2>2, <2>3 DEF RrInv
<1>7. ASSUME NEW r \in Request, MakeRequest(r) \/ OnRequestComplete(r)
      PROVE  RrInv'
  <2>1. /\ UNCHANGED <<rr, rrHeld, stream, streamMem>>
        /\ \A q \in Request : req'[q] = "open" => req[q] = "open" \/ rrHeld
    BY <1>0, <1>7 DEF MakeRequest, NotSubmitted, Submitted,
                      OnRequestComplete, RrTypeOK
  <2>2. /\ req' \in [Request -> {"none", "open", "ended"}]
    BY <1>0, <1>7 DEF MakeRequest, NotSubmitted, Submitted,
                      OnRequestComplete, Settle, FutureState, RrTypeOK
  <2>3. rr' \in {"none", "live", "releasing", "gone"}
    BY <1>0, <2>1 DEF TypeOK
  <2>4. RrTypeOK'
    BY <1>0, <1>2, <2>1, <2>2, <2>3 DEF RrTypeOK
  <2>5. ClientReferences'
    BY <1>0, <1>3, <2>1 DEF ClientReferences, ClientBusy
  <2>6. QED
    BY <1>2, <2>3, <2>4, <2>5 DEF RrInv
<1>8. CASE CreateStream \/ Open \/ DropStream \/ StoreNull \/ StreamTerminated
  <2>1. UNCHANGED <<rr, rrHeld, req>>
    BY <1>8 DEF CreateStream, Open, DropStream, StoreNull, StreamTerminated
  <2>2. /\ stream' \in {"none", "created", "active", "storing", "released"}
        /\ streamMem' \in {"none", "live", "freed"}
        /\ streamMem' = "live" => streamMem = "live" \/ rrHeld
       
    BY <1>0, <1>8 DEF CreateStream, Open, DropStream, StoreNull, StreamTerminated,
                      RrTypeOK
  <2>3. rr' \in {"none", "live", "releasing", "gone"}
    BY <1>0, <2>1 DEF TypeOK
  <2>4. RrTypeOK'
    BY <1>0, <1>2, <2>1, <2>2, <2>3 DEF RrTypeOK
  <2>5. ClientReferences'
    BY <1>0, <1>3, <2>1, <2>2 DEF ClientReferences, ClientBusy
  <2>6. QED
    BY <1>2, <2>2, <2>3, <2>4, <2>5 DEF RrInv
<1>9. QED
  BY <1>4, <1>5, <1>6, <1>7, <1>8 DEF RrStep

-----------------------------------------------------------------------------
(* RrInv holds in every reachable state. *)
THEOREM Invariance == Spec => []RrInv
<1>1. RrInit => RrInv
  <2> SUFFICES ASSUME RrInit PROVE RrInv
    OBVIOUS
  <2>0. TypeOK
    <3>0. 0 \in 0 .. MaxAttempts
      BY MaxAttemptsAssumption
    <3>1. /\ slot \in 0 .. MaxAttempts /\ held \in BOOLEAN /\ cbRef \in BOOLEAN
      BY <3>0, Zenon DEF RrInit, Init
    <3>2. /\ refs \in [Op -> SUBSET {"message", "ack"}] /\ tree \subseteq Op
      BY DEF RrInit, Init
    <3>3. QED
      BY <3>1, <3>2 DEF RrInit, Init, TypeOK, FutureState
  <2>1. TypeOK /\ RrTypeOK
    BY <2>0 DEF RrInit, RrTypeOK, FutureState
  <2>2. ConnectionInv
    BY <2>1 DEF RrInit, Init, ConnectionInv, CapsuleWithObject, PyAlive, BindingOutlivesCallbacks,
                AttemptInv, PendingAttemptInSlot, SlotIsGivenBack, Separate, CallsHold, InCall,
                Untried, CallbackReferences
  <2>3. ClientReferences
    BY DEF RrInit, Init, ClientReferences, ClientBusy
  <2>4. QED
    BY <2>1, <2>2, <2>3 DEF RrInv
<1>2. RrInv /\ [Next]_vars => RrInv'
  <2> SUFFICES ASSUME RrInv, [Next]_vars PROVE RrInv'
    OBVIOUS
  <2>1. CASE (ApplicationStep \/ EventLoopStep) /\ UNCHANGED rrVars
    <3>1. ConnectionInv /\ rr' = rr
      BY <2>1 DEF RrInv, rrVars
    <3>2. ConnectionInv'
      BY <2>1, <3>1, ApplicationKeeps, EventLoopKeeps
    <3>3. QED
      BY <2>1, <3>2, ConnectionKeepsClient
  <2>2. CASE RrStep
    BY <2>2, ClientStep
  <2>3. CASE UNCHANGED vars
    <3>1. UNCHANGED <<connVars, opVars, rrVars>>
      BY <2>3 DEF vars, mqttVars, rrVars
    <3>2. TypeOK' /\ RrTypeOK'
      BY <3>1 DEF RrInv, RrTypeOK, TypeOK, connVars, attemptVars, opVars, rrVars
    <3>3. ConnectionInv'
      BY <3>1, <3>2 DEF RrInv, ConnectionInv, CapsuleWithObject, PyAlive,
            BindingOutlivesCallbacks, AttemptInv, PendingAttemptInSlot, SlotIsGivenBack, Separate,
            CallsHold, InCall, Untried, CallbackReferences, connVars, attemptVars, opVars
    <3>4. ClientReferences'
      BY <3>1 DEF RrInv, ClientReferences, ClientBusy, connVars, rrVars
    <3>5. QED
      BY <3>2, <3>3, <3>4 DEF RrInv
  <2>4. QED
    BY <2>1, <2>2, <2>3 DEF Next
<1>3. QED
  BY <1>1, <1>2, PTL DEF Spec

(* Every variable of the connection and of the client keeps its type. *)
THEOREM TypeCorrect == Spec => []RrTypeOK
<1>1. RrInv => RrTypeOK
  BY DEF RrInv
<1>2. QED
  BY <1>1, Invariance, PTL

(* A native callback of the connection never finds its binding freed: whenever
   one can still come the binding is live, for any number of operations. *)
THEOREM BindingLifetime == Spec => []BindingOutlivesCallbacks
<1>1. RrInv => BindingOutlivesCallbacks
  BY DEF RrInv, ConnectionInv
<1>2. QED
  BY <1>1, Invariance, PTL

(* The future of a pending connect() or reconnect() is the one that on_connect
   will resolve, however many attempts are made. *)
THEOREM AttemptReachesFuture == Spec => []PendingAttemptInSlot
<1>1. RrInv => PendingAttemptInSlot
  BY DEF RrInv, ConnectionInv, AttemptInv
<1>2. QED
  BY <1>1, Invariance, PTL

(* The binding's references to Python callbacks are exactly those of the queued
   operations and of the topics in the tree. *)
THEOREM ReferencesBalance == Spec => []CallbackReferences
<1>1. RrInv => CallbackReferences
  BY DEF RrInv, ConnectionInv
<1>2. QED
  BY <1>1, Invariance, PTL

(* connect() is refused for an attempt in progress only while the native
   connection is trying: the slot never outlives the attempt. *)
THEOREM SlotReturns == Spec => []SlotIsGivenBack
<1>1. RrInv => SlotIsGivenBack
  BY DEF RrInv, ConnectionInv, AttemptInv
<1>2. QED
  BY <1>1, Invariance, PTL

(* Requests and streaming operations keep the connection's binding, through the
   native client and the native connection. *)
THEOREM OperationsKeepConnection == Spec => []ClientKeepsConnection
<1>1. RrInv => ClientKeepsConnection
  BY DEF RrInv, ClientReferences, ClientKeepsConnection
<1>2. QED
  BY <1>1, Invariance, PTL
=============================================================================
