------------------------------ MODULE Signing ------------------------------
(***************************************************************************)
(* Credentials providers, signing configurations and the asynchronous calls*)
(* made with them (awscrt/auth.py, source/auth_credentials.c,              *)
(* source/auth_signing_config.c, source/auth_signer.c).                    *)
(*                                                                         *)
(* Who keeps whom: a config references its provider, a chain its members,  *)
(* a signing its config and request until the completion callback is over, *)
(* and the native call the native provider, a little longer.  A provider's *)
(* binding, with the Python delegate, goes when its native part has shut   *)
(* down.  The application drops what it holds at any time.                 *)
(***************************************************************************)
EXTENDS Naturals

CONSTANTS
    Provider, Config, Call,
    None,        \* the Python value
    Expirations, \* expiration_in_seconds the application asks for: None or above 0
    U64          \* 2^64, the width of the native expiration

ASSUME ExpirationsAssumption ==
    None \notin Nat /\ U64 \in Nat \ {0} /\ Expirations \subseteq {None} \cup (Nat \ {0})
ASSUME ObjectsAssumption == Provider \intersect Config = {} /\ None \notin Provider \cup Config

VARIABLES
    kind,     \* what each provider is, "none" before it is made
    members,  \* providers that a chain asks, in turn
    down,     \* providers whose native part has shut down
    config,   \* provider and native expiration of each config
    asked,    \* the expiration its constructor, or that of its origin, was given
    held,     \* providers and configs that the application references
    call,     \* state of each get_credentials() or aws_sign_request()
    with,     \* the provider each call asks
    signs,    \* the config whose binding each signing points to
    refs,     \* the signings that reference their config
    fut       \* the future of each call

vars == <<kind, members, down, config, asked, held, call, with, signs, refs, fut>>

NoConfig == [provider |-> None, expiration |-> 0, made |-> FALSE]

TypeOK ==
    /\ kind \in [Provider -> {"none", "sync", "async", "delegate", "chain"}]
    /\ members \in [Provider -> SUBSET Provider]
    /\ down \subseteq Provider
    /\ config \in [Config -> [provider : Provider \cup {None}, expiration : 0 .. U64 - 1, made : BOOLEAN]]
    /\ asked \in [Config -> Expirations \cup {None}]
    /\ held \subseteq Provider \cup Config
    /\ call \in [Call -> {"none", "fetching", "signed", "completing", "leaving", "over"}]
    /\ with \in [Call -> Provider \cup {None}]
    /\ signs \in [Call -> Config \cup {None}] /\ refs \subseteq Call
    /\ fut \in [Call -> {"none", "pending", "settled"}]

Init ==
    /\ kind = [p \in Provider |-> "none"] /\ members = [p \in Provider |-> {}] /\ down = {}
    /\ config = [c \in Config |-> NoConfig] /\ asked = [c \in Config |-> None]
    /\ held = {}
    /\ call = [k \in Call |-> "none"] /\ with = [k \in Call |-> None]
    /\ signs = [k \in Call |-> None] /\ refs = {} /\ fut = [k \in Call |-> "none"]

InFlight(k) == call[k] \in {"fetching", "signed", "completing", "leaving"}

(* A config is referenced by the application and by the signings using it. *)
ConfigAlive(c) == config[c].made /\ (c \in held \/ \E k \in refs : signs[k] = c)

(* A native provider is referenced through its capsule (application, config),
   by the chains it is a member of and by the calls that ask it. *)
Referenced(p) ==
    \/ p \in held
    \/ \E c \in Config : ConfigAlive(c) /\ config[c].provider = p
    \/ \E q \in Provider \ down : p \in members[q]
    \/ \E k \in Call : InFlight(k) /\ with[k] = p

----------------------------------------------------------------------------
(* Providers.  A failed constructor raises and leaves nothing. *)

New(p, k, ms) ==
    /\ kind[p] = "none"
    /\ kind' = [kind EXCEPT ![p] = k] /\ members' = [members EXCEPT ![p] = ms]
    /\ held' = held \cup {p}
    /\ UNCHANGED <<down, config, asked, call, with, signs, refs, fut>>

(* Providers that ask a service, on the bootstrap given or the default one. *)
NewDefaultChain(p) == New(p, "async", {})
NewProfile(p) == New(p, "async", {})
NewCognito(p) == New(p, "async", {})
NewX509(p) == New(p, "async", {})

(* Providers that answer within the call. *)
NewStatic(p) == New(p, "sync", {})
NewProcess(p) == New(p, "sync", {})
NewEnvironment(p) == New(p, "sync", {})
NewDelegate(p) == New(p, "delegate", {})

NewChain(p) == \E ms \in SUBSET (held \cap Provider) : ms # {} /\ New(p, "chain", ms)

Unreferenced(p) == ~Referenced(p)

(* The native shutdown ends: the binding and the delegate go. *)
ShutdownComplete(p) ==
    /\ kind[p] # "none" /\ p \notin down /\ Unreferenced(p)
    /\ down' = down \cup {p}
    /\ UNCHANGED <<kind, members, config, asked, held, call, with, signs, refs, fut>>

Drop(x) ==
    /\ x \in held
    /\ held' = held \ {x}
    /\ UNCHANGED <<kind, members, down, config, asked, call, with, signs, refs, fut>>

----------------------------------------------------------------------------
(* Configurations.  The C layer knows no None: 0 stands for it.  The format "K"
   takes a number of any size and keeps its low 64 bits. *)

(* Mutant: None is stored as the largest value, as credentials do. *)
ToNativeMax(e) == IF e = None THEN U64 - 1 ELSE e % U64

ToNative(e) == IF e = None THEN 0 ELSE e % U64
FromNative(n) == IF n = 0 THEN None ELSE n

ConfigNew(c, p, e) ==
    /\ ~config[c].made
    /\ config' = [config EXCEPT ![c] = [provider |-> p, expiration |-> ToNative(e), made |-> TRUE]]
    /\ held' = held \cup {c}
    /\ UNCHANGED <<kind, members, down, call, with, signs, refs, fut>>

NewSigningConfig(c) ==
    \E e \in Expirations, p \in (held \cap Provider) \cup {None} :
        ConfigNew(c, p, e) /\ asked' = [asked EXCEPT ![c] = e]

(* replace() reads every attribute and constructs a config from them.  The
   getter of a provider that is None returns NULL without an exception, which
   the interpreter turns into a SystemError: no config is made. *)
Replace(c, d) ==
    /\ c \in held /\ config[c].provider # None
    /\ ConfigNew(d, config[c].provider, FromNative(config[c].expiration))
    /\ asked' = [asked EXCEPT ![d] = asked[c]]

----------------------------------------------------------------------------
(* Calls *)

Answers(p) == kind[p] \in {"sync", "delegate"}

(* get_credentials(): what the C function raises becomes the exception of the
   future; a provider that answers at once has resolved it on return. *)
GetCredentials(k, p) ==
    /\ p \in held /\ call[k] = "none"
    /\ with' = [with EXCEPT ![k] = p]
    /\ \/ ~Answers(p) /\ call' = [call EXCEPT ![k] = "fetching"] /\ fut' = [fut EXCEPT ![k] = "pending"]
       \/ call' = [call EXCEPT ![k] = "over"] /\ fut' = [fut EXCEPT ![k] = "settled"]
    /\ UNCHANGED <<kind, members, down, config, asked, held, signs, refs>>

(* Mutant: the signing data does not reference the config. *)
NoReference(k) == refs

ReferenceConfig(k) == refs \cup {k}

(* aws_sign_request(): a config that cannot sign and a delegate that fails
   raise; nobody has the future then. *)
AwsSignRequest(k, c) ==
    /\ c \in held /\ call[k] = "none"
    /\ \/ /\ config[c].provider # None /\ ~Answers(config[c].provider)
          /\ call' = [call EXCEPT ![k] = "fetching"] /\ fut' = [fut EXCEPT ![k] = "pending"]
          /\ with' = [with EXCEPT ![k] = config[c].provider]
          /\ signs' = [signs EXCEPT ![k] = c] /\ refs' = ReferenceConfig(k)
       \/ /\ config[c].provider # None /\ Answers(config[c].provider)
          /\ call' = [call EXCEPT ![k] = "over"] /\ fut' = [fut EXCEPT ![k] = "settled"]
          /\ UNCHANGED <<with, signs, refs>>
       \/ call' = [call EXCEPT ![k] = "over"] /\ UNCHANGED <<with, signs, refs, fut>>
    /\ UNCHANGED <<kind, members, down, config, asked, held>>

(* The provider answered on its thread; with the credentials the request is
   signed, which calls should_sign_header through the config's binding. *)
Fetched(k) ==
    /\ call[k] = "fetching"
    /\ call' = [call EXCEPT ![k] = "signed"]
    /\ UNCHANGED <<kind, members, down, config, asked, held, with, signs, refs, fut>>

(* Mutant: _on_complete leaves the future alone after an error. *)
NotResolved(k) == fut

Resolved(k) == [fut EXCEPT ![k] = IF @ = "pending" THEN "settled" ELSE @]

(* _on_complete, success or error.  A cancelled future makes set_result raise,
   and set_exception in the handler again: the binding reports it. *)
OnComplete(k) ==
    /\ call[k] = "signed"
    /\ call' = [call EXCEPT ![k] = "completing"]
    /\ fut' = Resolved(k)
    /\ UNCHANGED <<kind, members, down, config, asked, held, with, signs, refs>>

(* The callback has returned: the signing data drops its references... *)
SigningDataDestroyed(k) ==
    /\ call[k] = "completing"
    /\ call' = [call EXCEPT ![k] = "leaving"]
    /\ signs' = [signs EXCEPT ![k] = None] /\ refs' = refs \ {k}
    /\ UNCHANGED <<kind, members, down, config, asked, held, with, fut>>

(* ...and then the native call releases the provider. *)
NativeCallEnds(k) ==
    /\ call[k] = "leaving"
    /\ call' = [call EXCEPT ![k] = "over"]
    /\ UNCHANGED <<kind, members, down, config, asked, held, with, signs, refs, fut>>

CancelFuture(k) ==
    /\ fut[k] = "pending"
    /\ fut' = [fut EXCEPT ![k] = "settled"]
    /\ UNCHANGED <<kind, members, down, config, asked, held, call, with, signs, refs>>

NewProvider(p) ==
    \/ NewDefaultChain(p) \/ NewProfile(p) \/ NewCognito(p) \/ NewX509(p)
    \/ NewStatic(p) \/ NewProcess(p) \/ NewEnvironment(p) \/ NewDelegate(p) \/ NewChain(p)

CallStep(k) == Fetched(k) \/ OnComplete(k) \/ SigningDataDestroyed(k) \/ NativeCallEnds(k)

Next ==
    \/ \E p \in Provider : NewProvider(p) \/ ShutdownComplete(p)
    \/ \E c \in Config : NewSigningConfig(c) \/ \E d \in Config : Replace(c, d)
    \/ \E x \in Provider \cup Config : Drop(x)
    \/ \E k \in Call : \/ \E p \in Provider : GetCredentials(k, p)
                       \/ \E c \in Config : AwsSignRequest(k, c)
                       \/ CallStep(k) \/ CancelFuture(k)

(* Native fetches end, by a timeout at the latest, and callbacks return. *)
Fairness ==
    /\ \A k \in Call : WF_vars(CallStep(k))
    /\ \A p \in Provider : WF_vars(ShutdownComplete(p))

Spec == Init /\ [][Next]_vars /\ Fairness

----------------------------------------------------------------------------
(* What a call in flight uses is there, whatever the application drops: the
   native provider, the members a chain will ask (their delegates are called
   from the provider's thread) and, until the completion callback is over, the
   config whose binding should_sign_header goes through. *)
CallsKeepTheirObjects ==
    \A k \in Call :
        InFlight(k) =>
            /\ with[k] \notin down
            /\ members[with[k]] \cap down = {}
            /\ signs[k] # None => ConfigAlive(signs[k])

(* An expiration that 64 bits hold. *)
Fits(e) == e = None \/ e < U64

(* A config and what replace() makes of it, however often, show the expiration
   that the application asked for, if 64 bits hold it.  Of a larger one the low
   bits are shown, or None when they are 0: replace() then sends None through
   Python and C again, and no round may lose or change more than the first. *)
ReplaceKeepsExpiration ==
    \A c \in Config : config[c].made =>
        LET shown == FromNative(config[c].expiration)
        IN  IF Fits(asked[c]) THEN shown = asked[c]
            ELSE IF asked[c] % U64 = 0 THEN shown = None
            ELSE shown \in 1 .. U64 - 1 /\ shown % U64 = asked[c] % U64

(* Every call whose future the application got resolves it. *)
CallsSettle == \A k \in Call : fut[k] = "pending" ~> fut[k] = "settled"
=============================================================================
