--------------------------- MODULE LifetimeProofs ---------------------------
(***************************************************************************)
(* Proofs about two components whose Python objects serve native callbacks *)
(* that come on other threads: Signing, for any providers, configurations  *)
(* and calls, and, from LoopPhase on, EventStreamRpc, for any continuations*)
(* and messages.  What a callback uses is there, whatever the application  *)
(* has dropped, and is let go of after the last one.                       *)
(***************************************************************************)
EXTENDS Signing, EventStreamRpc, SequenceTheorems, TLAPS

(* What has shut down was made, and is held or asked by nobody. *)
Alive ==
    /\ \A p \in down : kind[p] # "none"
    /\ held \cap down = {}
    /\ \A q \in Provider \ down : members[q] \cap down = {}
    /\ \A k \in Call : InFlight(k) => with[k] \in Provider \ down

(* A config that is alive has a provider that is. *)
Configured ==
    /\ \A c \in Config \cap held : config[c].made
    /\ \A c \in Config : ConfigAlive(c) => config[c].provider \notin down

(* A signing that points to a config references it. *)
Signings == \A k \in Call : signs[k] # None => k \in refs /\ config[signs[k]].made

(* The native expiration is the one asked for, cut to its width: replace() may
   send it through Python as often as it likes. *)
Expires == \A c \in Config : config[c].made => config[c].expiration = ToNative(asked[c])

KeepInv == TypeOK /\ Alive /\ Configured /\ Signings /\ Expires

(* Every expiration asked for has a native form, and what the getter shows of a
   native form is sent back as the same one. *)
LEMMA RoundTrip ==
  /\ \A e \in Expirations \cup {None} : ToNative(e) \in 0 .. U64 - 1
  /\ \A n \in 0 .. U64 - 1 : ToNative(FromNative(n)) = n
<1>1. ASSUME NEW e \in Expirations \cup {None} PROVE ToNative(e) \in 0 .. U64 - 1
  <2>1. CASE e = None
    BY <2>1, ExpirationsAssumption DEF ToNative
  <2>2. CASE e # None
    <3>1. e \in Nat /\ U64 \in Nat \ {0}
      BY <2>2, ExpirationsAssumption
    <3>2. e % U64 \in 0 .. U64 - 1
      BY <3>1
    <3>3. QED
      BY <2>2, <3>2 DEF ToNative
  <2>3. QED
    BY <2>1, <2>2
<1>2. ASSUME NEW n \in 0 .. U64 - 1 PROVE ToNative(FromNative(n)) = n
  <2>1. CASE n = 0
    BY <2>1 DEF ToNative, FromNative
  <2>2. CASE n # 0
    <3>1. n # None /\ n % U64 = n
      BY ExpirationsAssumption
    <3>2. QED
      BY <2>2, <3>1 DEF ToNative, FromNative
  <2>3. QED
    BY <2>1, <2>2
<1>3. QED
  BY <1>1, <1>2

(* A provider made of what the application holds. *)
LEMMA NewKeeps ==
  ASSUME KeepInv, NEW p \in Provider, NEW k \in {"sync", "async", "delegate", "chain"},
         NEW ms \in SUBSET (held \cap Provider), New(p, k, ms)
  PROVE  KeepInv'
<1>0. TypeOK /\ Alive /\ Configured /\ Signings /\ Expires
  BY DEF KeepInv
<1>1. p \notin down /\ p \notin Config
  BY <1>0, ObjectsAssumption DEF New, Alive
<1>2. TypeOK'
  BY <1>0 DEF New, TypeOK
<1>3. Alive'
  <2>1. \A q \in down : kind'[q] # "none"
    BY <1>0 DEF New, Alive, TypeOK
  <2>2. held' \cap down = {}
    BY <1>0, <1>1 DEF New, Alive
  <2>3. \A q \in Provider \ down : members'[q] \cap down = {}
    BY <1>0 DEF New, Alive, TypeOK
  <2>4. QED
    BY <1>0, <2>1, <2>2, <2>3 DEF New, Alive, InFlight
<1>4. Configured'
  BY <1>0, <1>1 DEF New, Configured, ConfigAlive
<1>5. Signings' /\ Expires'
  BY <1>0 DEF New, Signings, Expires
<1>6. QED
  BY <1>2, <1>3, <1>4, <1>5 DEF KeepInv

(* Every constructor of a provider. *)
LEMMA NewProviderKeeps ==
  ASSUME KeepInv, NEW p \in Provider, NewProvider(p)
  PROVE  KeepInv'
<1>1. {} \in SUBSET (held \cap Provider)
  OBVIOUS
<1>2. CASE NewChain(p)
  BY <1>2, NewKeeps DEF NewChain
<1>3. QED
  BY <1>1, <1>2, NewKeeps
  DEF NewProvider, NewDefaultChain, NewProfile, NewCognito, NewX509, NewStatic, NewProcess,
      NewEnvironment, NewDelegate

(* A provider shuts down when nobody is left that references it. *)
LEMMA ShutdownKeeps ==
  ASSUME KeepInv, NEW p \in Provider, ShutdownComplete(p)
  PROVE  KeepInv'
<1>0. TypeOK /\ Alive /\ Configured /\ Signings /\ Expires
  BY DEF KeepInv
<1>1. /\ kind[p] # "none" /\ down' = down \cup {p} /\ p \notin held
      /\ UNCHANGED <<kind, members, config, asked, held, call, with, signs, refs, fut>>
      /\ \A c \in Config : ConfigAlive(c) => config[c].provider # p
      /\ \A q \in Provider \ down : p \notin members[q]
      /\ \A k \in Call : InFlight(k) => with[k] # p
  BY DEF ShutdownComplete, Unreferenced, Referenced
<1>2. TypeOK'
  BY <1>0, <1>1 DEF TypeOK
<1>3. Alive'
  BY <1>0, <1>1 DEF Alive, InFlight
<1>4. Configured'
  BY <1>0, <1>1 DEF Configured, ConfigAlive
<1>5. Signings' /\ Expires'
  BY <1>0, <1>1 DEF Signings, Expires
<1>6. QED
  BY <1>2, <1>3, <1>4, <1>5 DEF KeepInv

(* Dropping an object only takes references away. *)
LEMMA DropKeeps ==
  ASSUME KeepInv, NEW x, Drop(x)
  PROVE  KeepInv'
<1>0. TypeOK /\ Alive /\ Configured /\ Signings /\ Expires
  BY DEF KeepInv
<1>1. held' \subseteq held /\ UNCHANGED <<kind, members, down, config, asked, call, with, signs, refs, fut>>
  BY DEF Drop
<1>2. TypeOK' /\ Alive'
  BY <1>0, <1>1 DEF TypeOK, Alive, InFlight
<1>3. Configured' /\ Signings' /\ Expires'
  BY <1>0, <1>1 DEF Configured, ConfigAlive, Signings, Expires
<1>4. QED
  BY <1>2, <1>3 DEF KeepInv

(* A config is made with a provider that is alive and an expiration, asked for by
   the application or read back from another config. *)
LEMMA ConfigKeeps ==
  ASSUME KeepInv, NEW c \in Config, NEW p \in Provider \cup {None}, p \notin down,
         NEW e, NEW x \in Expirations \cup {None}, ToNative(e) = ToNative(x),
         ConfigNew(c, p, e), asked' = [asked EXCEPT ![c] = x]
  PROVE  KeepInv'
<1>0. TypeOK /\ Alive /\ Configured /\ Signings /\ Expires
  BY DEF KeepInv
<1> DEFINE new == [provider |-> p, expiration |-> ToNative(e), made |-> TRUE]
<1>1. /\ ~config[c].made /\ config' = [config EXCEPT ![c] = new] /\ held' = held \cup {c}
      /\ UNCHANGED <<kind, members, down, call, with, signs, refs, fut>>
  BY DEF ConfigNew
<1>2. /\ new \in [provider : Provider \cup {None}, expiration : 0 .. U64 - 1, made : BOOLEAN]
      /\ new.made /\ new.provider = p /\ new.expiration = ToNative(x)
  BY RoundTrip
<1> HIDE DEF new
<1>3. /\ config'[c] = new /\ \A d \in Config : d # c => config'[d] = config[d]
      /\ c \notin down
  BY <1>0, <1>1, ObjectsAssumption DEF TypeOK
<1>4. TypeOK'
  BY <1>0, <1>1, <1>2 DEF TypeOK
<1>5. Alive'
  BY <1>0, <1>1, <1>3 DEF Alive, InFlight
<1>6. Configured'
  <2>1. \A d \in Config : d # c => (ConfigAlive(d)' <=> ConfigAlive(d))
    BY <1>1, <1>3 DEF ConfigAlive
  <2>2. QED
    BY <1>0, <1>1, <1>2, <1>3, <2>1 DEF Configured
<1>7. Signings'
  BY <1>0, <1>1, <1>2, <1>3 DEF Signings, TypeOK
<1>8. Expires'
  <2>1. asked'[c] = x /\ \A d \in Config : d # c => asked'[d] = asked[d]
    BY <1>0 DEF TypeOK
  <2>2. QED
    BY <1>0, <1>2, <1>3, <2>1 DEF Expires, ToNative
<1>9. QED
  BY <1>4, <1>5, <1>6, <1>7, <1>8 DEF KeepInv

(* The constructor of a config, and replace(). *)
LEMMA ConfigStepKeeps ==
  ASSUME KeepInv, NEW c \in Config, NewSigningConfig(c) \/ \E d \in Config : Replace(c, d)
  PROVE  KeepInv'
<1>0. TypeOK /\ Alive /\ Configured /\ Expires
  BY DEF KeepInv
<1>1. CASE NewSigningConfig(c)
  <2>1. PICK e \in Expirations, p \in (held \cap Provider) \cup {None} :
           ConfigNew(c, p, e) /\ asked' = [asked EXCEPT ![c] = e]
    BY <1>1 DEF NewSigningConfig
  <2>2. p \notin down
    BY <1>0, ObjectsAssumption DEF Alive, TypeOK
  <2>3. QED
    BY <2>1, <2>2, ConfigKeeps
<1>2. ASSUME NEW d \in Config, Replace(c, d) PROVE KeepInv'
  <2>1. /\ config[c].made /\ ConfigAlive(c) /\ asked[c] \in Expirations \cup {None}
        /\ config[c].provider \in Provider \cup {None}
    BY <1>0, <1>2 DEF Replace, Configured, ConfigAlive, TypeOK
  <2>2. config[c].provider \notin down /\ config[c].expiration = ToNative(asked[c])
    BY <1>0, <2>1 DEF Configured, Expires
  <2>3. ToNative(FromNative(config[c].expiration)) = ToNative(asked[c])
    BY <2>1, <2>2, RoundTrip
  <2>4. /\ ConfigNew(d, config[c].provider, FromNative(config[c].expiration))
        /\ asked' = [asked EXCEPT ![d] = asked[c]]
    BY <1>2 DEF Replace
  <2>5. QED
    BY <2>1, <2>2, <2>3, <2>4, ConfigKeeps
<1>3. QED
  BY <1>1, <1>2

(* A call begins with what the application holds. *)
LEMMA CallBegins ==
  ASSUME KeepInv, NEW k \in Call,
         \/ \E p \in Provider : GetCredentials(k, p)
         \/ \E c \in Config : AwsSignRequest(k, c)
  PROVE  KeepInv'
<1>0. TypeOK /\ Alive /\ Configured /\ Signings /\ Expires
  BY DEF KeepInv
<1>1. ASSUME NEW p \in Provider, GetCredentials(k, p) PROVE KeepInv'
  <2>1. p \in Provider \ down /\ with' = [with EXCEPT ![k] = p]
        /\ UNCHANGED <<kind, members, down, config, asked, held, signs, refs>>
    BY <1>0, <1>1 DEF GetCredentials, Alive
  <2>2. TypeOK'
    BY <1>0, <1>1 DEF GetCredentials, TypeOK
  <2>3. \A j \in Call : j # k => with'[j] = with[j] /\ (InFlight(j)' <=> InFlight(j))
    BY <1>0, <1>1 DEF GetCredentials, TypeOK, InFlight
  <2>4. with'[k] = p
    BY <1>0, <2>1 DEF TypeOK
  <2>5. Alive'
    BY <1>0, <2>1, <2>3, <2>4 DEF Alive
  <2>6. Configured' /\ Signings' /\ Expires'
    BY <1>0, <2>1 DEF Configured, ConfigAlive, Signings, Expires
  <2>7. QED
    BY <2>2, <2>5, <2>6 DEF KeepInv
<1>2. ASSUME NEW c \in Config, AwsSignRequest(k, c) PROVE KeepInv'
  <2>1. /\ c \in held /\ config[c].made /\ config[c].provider \in (Provider \ down) \cup {None}
        /\ UNCHANGED <<kind, members, down, config, asked, held>>
    BY <1>0, <1>2 DEF AwsSignRequest, Configured, ConfigAlive, TypeOK
  <2>2. \A j \in Call : j # k => (InFlight(j)' <=> InFlight(j))
    BY <1>0, <1>2 DEF AwsSignRequest, TypeOK, InFlight
  <2>3. CASE /\ config[c].provider # None
             /\ call' = [call EXCEPT ![k] = "fetching"] /\ fut' = [fut EXCEPT ![k] = "pending"]
             /\ with' = [with EXCEPT ![k] = config[c].provider]
             /\ signs' = [signs EXCEPT ![k] = c] /\ refs' = refs \cup {k}
    <3>1. TypeOK'
      BY <1>0, <2>1, <2>3 DEF TypeOK
    <3>2. /\ with'[k] = config[c].provider /\ signs'[k] = c
          /\ \A j \in Call : j # k => with'[j] = with[j] /\ signs'[j] = signs[j]
      BY <1>0, <2>3 DEF TypeOK
    <3>3. Alive'
      BY <1>0, <2>1, <2>2, <2>3, <3>2 DEF Alive
    <3>4. \A d \in Config : ConfigAlive(d)' => ConfigAlive(d)
      BY <1>0, <2>1, <2>3, <3>2 DEF ConfigAlive, TypeOK
    <3>5. Configured'
      BY <1>0, <2>1, <3>4 DEF Configured
    <3>6. Signings' /\ Expires'
      BY <1>0, <2>1, <2>3, <3>2 DEF Signings, Expires
    <3>7. QED
      BY <3>1, <3>3, <3>5, <3>6 DEF KeepInv
  <2>4. CASE /\ call' = [call EXCEPT ![k] = "over"] /\ UNCHANGED <<with, signs, refs>>
             /\ fut' = fut \/ fut' = [fut EXCEPT ![k] = "settled"]
    <3>1. TypeOK'
      BY <1>0, <2>1, <2>4 DEF TypeOK
    <3>2. ~InFlight(k)'
      BY <1>0, <2>4 DEF TypeOK, InFlight
    <3>3. Alive'
      BY <1>0, <2>1, <2>2, <2>4, <3>2 DEF Alive
    <3>4. Configured' /\ Signings' /\ Expires'
      BY <1>0, <2>1, <2>4 DEF Configured, ConfigAlive, Signings, Expires
    <3>5. QED
      BY <3>1, <3>3, <3>4 DEF KeepInv
  <2>5. QED
    BY <1>2, <2>3, <2>4 DEF AwsSignRequest, ReferenceConfig
<1>3. QED
  BY <1>1, <1>2

(* A call goes on and ends. *)
LEMMA CallGoesOn ==
  ASSUME KeepInv, NEW k \in Call, CallStep(k) \/ CancelFuture(k)
  PROVE  KeepInv'
<1>0. TypeOK /\ Alive /\ Configured /\ Signings /\ Expires
  BY DEF KeepInv
<1>1. UNCHANGED <<kind, members, down, config, asked, held, with>>
  BY DEF CallStep, Fetched, OnComplete, SigningDataDestroyed, NativeCallEnds, CancelFuture
<1>2. TypeOK'
  BY <1>0 DEF CallStep, Fetched, OnComplete, Resolved, SigningDataDestroyed, NativeCallEnds,
      CancelFuture, TypeOK
<1>3. \A j \in Call : InFlight(j)' => InFlight(j)
  BY <1>0 DEF CallStep, Fetched, OnComplete, SigningDataDestroyed, NativeCallEnds, CancelFuture,
      InFlight, TypeOK
<1>4. Alive'
  BY <1>0, <1>1, <1>3 DEF Alive
<1>5. CASE UNCHANGED <<signs, refs>>
  BY <1>0, <1>1, <1>2, <1>4, <1>5 DEF KeepInv, Configured, ConfigAlive, Signings,
      Expires
<1>6. CASE SigningDataDestroyed(k)
  <2>1. /\ signs' = [signs EXCEPT ![k] = None] /\ refs' = refs \ {k}
        /\ signs'[k] = None /\ \A j \in Call : j # k => signs'[j] = signs[j]
    BY <1>0, <1>6 DEF SigningDataDestroyed, TypeOK
  <2>2. \A d \in Config : ConfigAlive(d)' => ConfigAlive(d)
    BY <1>0, <1>1, <2>1 DEF ConfigAlive, TypeOK
  <2>3. Configured' /\ Signings' /\ Expires'
    BY <1>0, <1>1, <2>1, <2>2 DEF Configured, Signings, Expires
  <2>4. QED
    BY <1>2, <1>4, <2>3 DEF KeepInv
<1>7. QED
  BY <1>5, <1>6 DEF CallStep, Fetched, OnComplete, NativeCallEnds, CancelFuture

(* KeepInv holds in every reachable state. *)
THEOREM Invariance == Spec => []KeepInv
<1>1. Init => KeepInv
  <2> SUFFICES ASSUME Init PROVE KeepInv
    OBVIOUS
  <2>1. TypeOK
    BY ExpirationsAssumption DEF Init, TypeOK, NoConfig
  <2>2. Alive /\ Configured /\ Signings /\ Expires
    BY DEF Init, Alive, InFlight, Configured, ConfigAlive, NoConfig, Signings,
        Expires
  <2>3. QED
    BY <2>1, <2>2 DEF KeepInv
<1>2. KeepInv /\ [Next]_vars => KeepInv'
  <2> SUFFICES ASSUME KeepInv, [Next]_vars PROVE KeepInv'
    OBVIOUS
  <2>1. CASE UNCHANGED vars
    BY <2>1 DEF vars, KeepInv, TypeOK, Alive, InFlight, Configured, ConfigAlive, Signings,
        Expires
  <2>2. CASE Next
    BY <2>2, NewProviderKeeps, ShutdownKeeps, ConfigStepKeeps, DropKeeps, CallBegins,
        CallGoesOn DEF Next
  <2>3. QED
    BY <2>1, <2>2
<1>3. QED
  BY <1>1, <1>2, PTL DEF Spec

(* Every variable of the providers, configs and calls keeps its type. *)
THEOREM TypeCorrect == Spec => []TypeOK
<1>1. KeepInv => TypeOK
  BY DEF KeepInv
<1>2. QED
  BY <1>1, Invariance, PTL

(* While a get_credentials() or aws_sign_request() is in flight its provider, the
   members of a chain and the config that should_sign_header goes through are
   there, for any number of them and whatever the application drops. *)
THEOREM ObjectsAreKept == Spec => []CallsKeepTheirObjects
<1>1. KeepInv => CallsKeepTheirObjects
  <2> SUFFICES ASSUME KeepInv, NEW k \in Call, InFlight(k)
               PROVE  /\ with[k] \notin down
                      /\ members[with[k]] \cap down = {}
                      /\ signs[k] # None => ConfigAlive(signs[k])
    BY DEF CallsKeepTheirObjects
  <2>1. with[k] \in Provider \ down /\ members[with[k]] \cap down = {}
    BY DEF KeepInv, Alive
  <2>2. signs[k] # None => ConfigAlive(signs[k])
    BY DEF KeepInv, Signings, ConfigAlive
  <2>3. QED
    BY <2>1, <2>2
<1>2. QED
  BY <1>1, Invariance, PTL

(* expiration_in_seconds is what the application asked for after any number of
   replace() calls, or what 64 bits keep of it, for every width of the native
   field and numbers of any size. *)
THEOREM ExpirationIsKept == Spec => []ReplaceKeepsExpiration
<1>1. KeepInv => ReplaceKeepsExpiration
  <2> SUFFICES ASSUME KeepInv, NEW c \in Config, config[c].made
               PROVE  LET shown == FromNative(config[c].expiration)
                      IN  IF Fits(asked[c]) THEN shown = asked[c]
                          ELSE IF asked[c] % U64 = 0 THEN shown = None
                          ELSE shown \in 1 .. U64 - 1 /\ shown % U64 = asked[c] % U64
    BY DEF ReplaceKeepsExpiration
  <2> DEFINE e == asked[c]
  <2>1. config[c].expiration = ToNative(e) /\ e \in {None} \cup (Nat \ {0})
    BY ExpirationsAssumption DEF KeepInv, TypeOK, Expires
  <2> HIDE DEF e
  <2>2. CASE e = None
    BY <2>1, <2>2 DEF Fits, ToNative, FromNative, e
  <2>3. CASE e # None
    <3>1. e \in Nat \ {0} /\ U64 \in Nat \ {0} /\ config[c].expiration = e % U64
      BY <2>1, <2>3, ExpirationsAssumption DEF ToNative
    <3>2. /\ e % U64 \in 0 .. U64 - 1 /\ (e % U64) % U64 = e % U64
          /\ e < U64 => e % U64 = e
      <4> DEFINE m == e % U64
      <4>1. m \in 0 .. U64 - 1
        BY <3>1
      <4>2. \A n \in 0 .. U64 - 1 : n % U64 = n
        BY <3>1
      <4>3. e < U64 => e \in 0 .. U64 - 1
        BY <3>1
      <4>4. QED
        BY <4>1, <4>2, <4>3
    <3>3. QED
      BY <2>3, <3>1, <3>2 DEF Fits, FromNative, e
  <2>4. QED
    BY <2>2, <2>3
<1>2. QED
  BY <1>1, Invariance, PTL

-----------------------------------------------------------------------------
(* The event-stream RPC client.                                             *)

USE ProtocolAssumption

(* Where the event-loop thread can be, and what it is there for. *)
LoopPhase ==
    /\ loop[1] \in {"setup", "failed", "shutdown"} => loop[2] = Protocol
    /\ loop[1] = "setup" => conn \in {"open", "closing"}
    /\ loop[1] \in {"failed", "shutdown"} => conn = "ended"
    /\ loop[1] = "closed" => loop[2] \in Cont /\ stream[loop[2]] = "closed"
    /\ loop[1] = "message" =>
          \/ loop[2] = Protocol /\ conn \in {"open", "closing"}
          \/ loop[2] \in Cont /\ stream[loop[2]] \in {"active", "closing"}

(* The connection's binding refers to its object from connect() until the end
   of the last callback, and at no other time ... *)
ConnectionSelf ==
    self[Protocol] <=> conn \in {"connecting", "open", "closing"}
                       \/ loop[1] \in {"failed", "shutdown"}

(* ... and the one of a continuation from activate() until then. *)
ContinuationSelf(c) ==
    self[c] <=> stream[c] \in {"active", "closing"} \/ (loop[1] = "closed" /\ loop[2] = c)

SelfInv ==
    /\ RpcTypeOK /\ LoopPhase /\ ConnectionSelf
    /\ \A c \in Cont : ContinuationSelf(c)

-----------------------------------------------------------------------------
(* Types.                                                                   *)

Places == {"idle", "setup", "failed", "shutdown", "closed", "flushed", "lost", "message"}

(* What is accepted for sending is queued behind what was accepted before. *)
LEMMA EnqueueType ==
  ASSUME RpcTypeOK, NEW m \in Message, NEW x \in Object, NEW t \in BOOLEAN, Enqueue(m, x, t)
  PROVE  inFlight' \in Seq(Sent) /\ flushFuture' \in [Message -> FutureState]
<1>1. [id |-> m, to |-> x, terminate |-> t] \in Sent
  BY DEF Sent
<1>2. inFlight \in Seq(Sent) /\ inFlight' = Append(inFlight, [id |-> m, to |-> x, terminate |-> t])
  BY DEF RpcTypeOK, Enqueue
<1>3. inFlight' \in Seq(Sent)
  BY <1>1, <1>2, AppendProperties
<1>4. flushFuture' \in [Message -> FutureState]
  BY DEF RpcTypeOK, Enqueue, FutureState
<1>5. QED
  BY <1>3, <1>4

(* A step of the application. *)
LEMMA ApplicationType ==
  ASSUME RpcTypeOK, ApplicationStep
  PROVE  RpcTypeOK'
<1>0. Protocol \in Object /\ Cont \subseteq Object
  BY DEF Object
<1>1. CASE Connect
  BY <1>0, <1>1 DEF Connect, RpcTypeOK, FutureState
<1>2. CASE Close
  BY <1>2 DEF Close, RpcTypeOK
<1>3. ASSUME NEW c \in Cont, NewStream(c) PROVE RpcTypeOK'
  BY <1>0, <1>3 DEF NewStream, RpcTypeOK, FutureState
<1>4. ASSUME NEW c \in Cont, NEW m \in Message, Activate(m, c) PROVE RpcTypeOK'
  <2>1. inFlight' \in Seq(Sent) /\ flushFuture' \in [Message -> FutureState]
    BY <1>0, <1>4, EnqueueType DEF Activate, RpcTypeOK
  <2>2. /\ self' \in [Object -> BOOLEAN]
        /\ stream' \in [Cont -> {"none", "new", "active", "closing", "closed"}]
    BY <1>0, <1>4 DEF Activate, RpcTypeOK
  <2>3. QED
    BY <1>4, <2>1, <2>2 DEF Activate, RpcTypeOK
<1>5. ASSUME NEW m \in Message, NEW x \in Object, NEW t \in BOOLEAN, SendMessage(m, x, t)
      PROVE  RpcTypeOK'
  <2>1. Enqueue(m, x, t /\ x # Protocol) /\ (t /\ x # Protocol) \in BOOLEAN
    BY <1>5 DEF SendMessage
  <2>2. inFlight' \in Seq(Sent) /\ flushFuture' \in [Message -> FutureState]
    BY <2>1, EnqueueType
  <2>3. QED
    BY <1>5, <2>2 DEF SendMessage, RpcTypeOK
<1>6. ASSUME NEW x \in Object, DropObject(x) PROVE RpcTypeOK'
  BY <1>6 DEF DropObject, RpcTypeOK
<1>7. QED
  BY <1>1, <1>2, <1>3, <1>4, <1>5, <1>6 DEF ApplicationStep

(* A step of the event-loop thread, or of the native side. *)
LEMMA LoopType ==
  ASSUME RpcTypeOK, \/ CallbackBegins \/ CallbackReturns \/ MessageArrives
                 \/ \E c \in Cont : StreamEnds(c)
  PROVE  RpcTypeOK'
<1>0. /\ Protocol \in Object /\ Cont \subseteq Object
      /\ Idle \in Places \X (Object \cup Message)
      /\ \A a \in Places, x \in Object \cup Message : <<a, x>> \in Places \X (Object \cup Message)
  BY DEF Object, Idle, Places
<1>1. ASSUME NEW ok \in BOOLEAN, OnConnectionSetup(ok) PROVE RpcTypeOK'
  BY <1>0, <1>1 DEF OnConnectionSetup, RpcTypeOK, Places
<1>2. ASSUME NEW ok \in BOOLEAN, OnMessageFlush(ok) PROVE RpcTypeOK'
  <2>1. Head(inFlight) \in Sent /\ inFlight' \in Seq(Sent)
    BY <1>2, HeadTailProperties DEF OnMessageFlush, RpcTypeOK
  <2>2. Head(inFlight).id \in Message
    BY <2>1 DEF Sent
  <2>3. loop' \in Places \X (Object \cup Message)
    BY <1>0, <1>2, <2>2 DEF OnMessageFlush, Places
  <2>4. stream' \in [Cont -> {"none", "new", "active", "closing", "closed"}]
    BY <1>2 DEF OnMessageFlush, RpcTypeOK
  <2>5. QED
    BY <1>2, <2>1, <2>3, <2>4 DEF OnMessageFlush, RpcTypeOK, Places
<1>3. CASE OnConnectionShutdown
  BY <1>0, <1>3 DEF OnConnectionShutdown, RpcTypeOK, Places
<1>4. ASSUME NEW c \in Cont, OnContinuationClosed(c) PROVE RpcTypeOK'
  BY <1>0, <1>4 DEF OnContinuationClosed, RpcTypeOK, Places
<1>5. ASSUME NEW x \in Object, OnMessage(x) PROVE RpcTypeOK'
  BY <1>0, <1>5 DEF OnMessage, RpcTypeOK, Places
<1>6. CASE MessageReturns
  BY <1>0, <1>6 DEF MessageReturns, RpcTypeOK, Places
<1>7. ASSUME NEW r \in BOOLEAN, SetupReturns(r) PROVE RpcTypeOK'
  BY <1>0, <1>7 DEF SetupReturns, CloseIfRaised, Finally, FutureState,
      RpcTypeOK, Places
<1>8. ASSUME NEW r \in BOOLEAN, SetupFailedReturns(r) PROVE RpcTypeOK'
  BY <1>0, <1>8 DEF SetupFailedReturns, Finally, FutureState, RpcTypeOK, Places
<1>9. ASSUME NEW r \in BOOLEAN, ShutdownReturns(r) PROVE RpcTypeOK'
  BY <1>0, <1>9 DEF ShutdownReturns, ClearSelf, Finally, FutureState,
      RpcTypeOK, Places
<1>10. ASSUME NEW r \in BOOLEAN, ClosedReturns(r) PROVE RpcTypeOK'
  BY <1>0, <1>10 DEF ClosedReturns, ClearSelf, Finally, FutureState, RpcTypeOK,
      Places
<1>11. ASSUME NEW r \in BOOLEAN, FlushReturns(r) PROVE RpcTypeOK'
  BY <1>0, <1>11 DEF FlushReturns, Finally, FutureState, RpcTypeOK, Places
<1>12. ASSUME NEW c \in Cont, StreamEnds(c) PROVE RpcTypeOK'
  BY <1>12 DEF StreamEnds, RpcTypeOK
<1>13. QED
  BY <1>0, <1>1, <1>2, <1>3, <1>4, <1>5, <1>6, <1>7, <1>8, <1>9, <1>10, <1>11, <1>12
  DEF CallbackBegins, CallbackReturns, MessageArrives, OnProtocolMessage,
      OnContinuationMessage

-----------------------------------------------------------------------------
(* References of the bindings.                                              *)

(* The conjuncts of SelfInv other than the types. *)
SelfParts == LoopPhase /\ ConnectionSelf /\ \A c \in Cont : ContinuationSelf(c)

(* What the application does: only connect() and activate() touch self_py, and
   both only where no callback is left to come. *)
LEMMA ApplicationSelf ==
  ASSUME SelfInv, ApplicationStep
  PROVE  SelfParts'
<1> USE DEF SelfParts, LoopPhase, ConnectionSelf, ContinuationSelf, Object
<1>0. RpcTypeOK /\ SelfParts
  BY DEF SelfInv
<1>1. CASE Connect
  BY <1>0, <1>1 DEF Connect, RpcTypeOK
<1>2. CASE Close
  BY <1>0, <1>2 DEF Close, RpcTypeOK
<1>3. ASSUME NEW d \in Cont, NewStream(d) PROVE SelfParts'
  BY <1>0, <1>3 DEF NewStream, RpcTypeOK
<1>4. ASSUME NEW d \in Cont, NEW m \in Message, Activate(m, d) PROVE SelfParts'
  <2>0. /\ ~self[d] /\ loop' = loop /\ conn' = conn
        /\ ~(loop[1] = "closed" /\ loop[2] = d) /\ stream[d] \notin {"active", "closing"}
    BY <1>0, <1>4 DEF Activate, NotActivated
  <2>1. CASE /\ self' = [self EXCEPT ![d] = TRUE] /\ stream' = [stream EXCEPT ![d] = "active"]
    BY <1>0, <2>0, <2>1 DEF RpcTypeOK
  <2>2. CASE /\ self' = [self EXCEPT ![d] = FALSE] /\ stream' = stream
    BY <1>0, <2>0, <2>2 DEF RpcTypeOK
  <2>3. QED
    BY <1>4, <2>1, <2>2 DEF Activate
<1>5. ASSUME NEW m \in Message, NEW x \in Object, NEW t \in BOOLEAN, SendMessage(m, x, t)
      PROVE  SelfParts'
  BY <1>0, <1>5 DEF SendMessage
<1>6. ASSUME NEW x \in Object, DropObject(x) PROVE SelfParts'
  BY <1>0, <1>6 DEF DropObject
<1>7. QED
  BY <1>1, <1>2, <1>3, <1>4, <1>5, <1>6 DEF ApplicationStep

(* The callbacks and the native side: a reference goes only with the callback
   that is the last one for its object. *)
LEMMA LoopSelf ==
  ASSUME SelfInv,
         \/ CallbackBegins \/ CallbackReturns \/ MessageArrives
         \/ \E c \in Cont : StreamEnds(c)
  PROVE  SelfParts'
<1> USE DEF SelfParts, LoopPhase, ConnectionSelf, ContinuationSelf, Object, Idle
<1>0. RpcTypeOK /\ SelfParts
  BY DEF SelfInv
<1>1. ASSUME NEW ok \in BOOLEAN, OnConnectionSetup(ok) PROVE SelfParts'
  BY <1>0, <1>1 DEF OnConnectionSetup, RpcTypeOK
<1>2. ASSUME NEW ok \in BOOLEAN, OnMessageFlush(ok) PROVE SelfParts'
  <2>1. /\ loop[1] = "idle" /\ loop'[1] \in {"flushed", "lost"} /\ UNCHANGED <<conn, self>>
    BY <1>2 DEF OnMessageFlush
  <2>2. \A c \in Cont : stream'[c] = stream[c] \/ (stream[c] = "active" /\ stream'[c] = "closing")
    BY <1>0, <1>2 DEF OnMessageFlush, RpcTypeOK
  <2>3. QED
    BY <1>0, <2>1, <2>2
<1>3. CASE OnConnectionShutdown
  BY <1>0, <1>3 DEF OnConnectionShutdown, RpcTypeOK
<1>4. ASSUME NEW d \in Cont, OnContinuationClosed(d) PROVE SelfParts'
  BY <1>0, <1>4 DEF OnContinuationClosed, RpcTypeOK
<1>5. CASE OnProtocolMessage
  BY <1>0, <1>5 DEF OnProtocolMessage, OnMessage
<1>6. ASSUME NEW d \in Cont, OnContinuationMessage(d) PROVE SelfParts'
  BY <1>0, <1>6 DEF OnContinuationMessage, OnMessage
<1>7. CASE MessageReturns
  BY <1>0, <1>7 DEF MessageReturns
<1>8. ASSUME NEW r \in BOOLEAN, SetupReturns(r) PROVE SelfParts'
  BY <1>0, <1>8 DEF SetupReturns, CloseIfRaised, RpcTypeOK
<1>9. ASSUME NEW r \in BOOLEAN, SetupFailedReturns(r) PROVE SelfParts'
  BY <1>0, <1>9 DEF SetupFailedReturns, RpcTypeOK
<1>10. ASSUME NEW r \in BOOLEAN, ShutdownReturns(r) PROVE SelfParts'
  BY <1>0, <1>10 DEF ShutdownReturns, ClearSelf, RpcTypeOK
<1>11. ASSUME NEW r \in BOOLEAN, ClosedReturns(r) PROVE SelfParts'
  BY <1>0, <1>11 DEF ClosedReturns, ClearSelf, RpcTypeOK
<1>12. ASSUME NEW r \in BOOLEAN, FlushReturns(r) PROVE SelfParts'
  BY <1>0, <1>12 DEF FlushReturns
<1>13. ASSUME NEW d \in Cont, StreamEnds(d) PROVE SelfParts'
  BY <1>0, <1>13 DEF StreamEnds, RpcTypeOK
<1>14. QED
  BY <1>1, <1>2, <1>3, <1>4, <1>5, <1>6, <1>7, <1>8, <1>9, <1>10, <1>11, <1>12, <1>13
  DEF CallbackBegins, CallbackReturns, MessageArrives

-----------------------------------------------------------------------------
(* SelfInv holds in every reachable state. *)
THEOREM RpcInvariance == RpcSpec => []SelfInv
<1>1. RpcInit => SelfInv
  <2> SUFFICES ASSUME RpcInit PROVE SelfInv
    OBVIOUS
  <2>1. RpcTypeOK
    BY DEF RpcInit, RpcTypeOK, Idle, Object, FutureState
  <2>2. LoopPhase /\ ConnectionSelf /\ \A c \in Cont : ContinuationSelf(c)
    BY DEF RpcInit, LoopPhase, ConnectionSelf, ContinuationSelf, Idle, Object
  <2>3. QED
    BY <2>1, <2>2 DEF SelfInv
<1>2. SelfInv /\ [RpcNext]_rpcVars => SelfInv'
  <2> SUFFICES ASSUME SelfInv, [RpcNext]_rpcVars PROVE SelfInv'
    OBVIOUS
  <2>0. RpcTypeOK
    BY DEF SelfInv
  <2>1. CASE UNCHANGED rpcVars
    BY <2>1 DEF SelfInv, rpcVars, RpcTypeOK, LoopPhase, ConnectionSelf, ContinuationSelf
  <2>2. CASE RpcNext
    <3>1. RpcTypeOK'
      BY <2>0, <2>2, ApplicationType, LoopType DEF RpcNext
    <3>2. SelfParts'
      BY <2>2, ApplicationSelf, LoopSelf DEF RpcNext
    <3>3. QED
      BY <3>1, <3>2 DEF SelfInv, SelfParts
  <2>3. QED
    BY <2>1, <2>2
<1>3. QED
  BY <1>1, <1>2, PTL DEF RpcSpec

(* Every variable keeps its type. *)
THEOREM RpcTypeCorrect == RpcSpec => []RpcTypeOK
<1>1. SelfInv => RpcTypeOK
  BY DEF SelfInv
<1>2. QED
  BY <1>1, RpcInvariance, PTL

(* Every callback that can still come, or is running, finds the Python object
   of its binding, for any number of continuations, whatever the application
   drops and however often it calls activate(). *)
THEOREM SelfIsFound == RpcSpec => []CallbacksFindSelf
<1>1. SelfInv => CallbacksFindSelf
  BY DEF SelfInv, LoopPhase, ConnectionSelf, ContinuationSelf, CallbacksFindSelf
<1>2. QED
  BY <1>1, RpcInvariance, PTL

(* Once the event-loop thread is out of the last callback of a connection or of
   a continuation, the binding refers to the Python object no more. *)
THEOREM SelfIsReleased == RpcSpec => []NoCircularReference
<1>1. SelfInv => NoCircularReference
  BY DEF SelfInv, ConnectionSelf, ContinuationSelf, NoCircularReference, Idle
<1>2. QED
  BY <1>1, RpcInvariance, PTL
=============================================================================
