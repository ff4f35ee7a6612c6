----------------------------- MODULE IotMetrics -----------------------------
(***************************************************************************)
(* TLS options, client TLS contexts (awscrt/io.py) and the metrics that an *)
(* MQTT client sends in its CONNECT (awscrt/aws_iot_metrics.py): features  *)
(* read from the client's options and its TLS context, merged with those of*)
(* an SDK built on this library.                                           *)
(*                                                                         *)
(* A feature list "A/x,B/y" is a sequence of pairs; the metadata dictionary*)
(* is a sequence of pairs too, for Python dictionaries keep the order of   *)
(* insertion.                                                              *)
(***************************************************************************)
EXTENDS Naturals, Sequences, SequencesExt, Functions, Collections

CONSTANTS
    None,           \* an option left out, Python's None
    Entry,          \* what an SDK may put in its metadata, as <<key, value>>
    SdkFeature,     \* a feature that it may list there, as <<id, value>>
    MaxEntries,     \* bound on the entries of its metadata
    Mqtt5Settings,  \* the options of an MQTT 5 client that the metrics read
    Proxies         \* the kinds of proxy options

(* The kinds of certificate; the ids and the values of the library's features. *)
Kinds == {"files", "pkcs11", "pkcs12", "windows"}
FeatureIds == {"A", "B", "C", "D", "E", "F", "G", "H", "I", "J", "K"}
FeatureCodes == {"3", "5", "A", "B", "C", "D", "E", "F", "H", "I"}
AnyFeature == (FeatureIds \X FeatureCodes) \cup SdkFeature
Features == Seq(AnyFeature)

ASSUME MetricsAssumption ==
    /\ None \notin Kinds /\ MaxEntries \in Nat
    /\ \A e \in Entry : e[1] = "IoTSDKFeature" => e[2] \in Seq(SdkFeature)

VARIABLES
    tlsOptions,  \* a TlsContextOptions, which stays open to changes
    tlsContext,  \* the client context made from it
    metrics      \* the last metrics made, with what they were made from

metricsVars == <<tlsOptions, tlsContext, metrics>>

NoOptions == [source |-> None, material |-> None, minTls |-> "DEFAULT", cipher |-> "DEFAULT",
              verify |-> TRUE]
NoMetrics == [user |-> <<>>, crt |-> <<>>, entries |-> <<>>, context |-> None]

TlsOptions == [source : Kinds \cup {None}, material : Kinds \cup {None}, minTls : {"DEFAULT", "TLSv1_3"},
               cipher : {"DEFAULT", "PQ_DEFAULT"}, verify : BOOLEAN]
Metadata == Seq(Entry \cup {<<"CRTVersion", "crt">>, <<"IoTSDKMetricsVersion", "1">>}
                \cup {"IoTSDKFeature"} \X Features)

MetricsTypeOK ==
    /\ {tlsOptions, tlsContext} \subseteq TlsOptions \cup {None}
    /\ metrics \in [user : Seq(Entry), crt : Features, entries : Metadata, context : TlsOptions \cup {None}]

MetricsInit == tlsOptions = None /\ tlsContext = None /\ metrics = NoMetrics

----------------------------------------------------------------------------
(* TLS options: one factory method per kind of certificate *)

ClientOptions(kind) == [NoOptions EXCEPT !.source = kind, !.material = kind]
CreateClientWithMtls == ClientOptions("files")
CreateClientWithMtlsPkcs11 == ClientOptions("pkcs11")
CreateClientWithMtlsPkcs12 == ClientOptions("pkcs12")
CreateClientWithMtlsWindowsCertStorePath == ClientOptions("windows")
CreateServer == [NoOptions EXCEPT !.material = "files", !.verify = FALSE]
CreateServerPkcs12 == [NoOptions EXCEPT !.material = "pkcs12", !.verify = FALSE]

MakeOptions ==
    /\ tlsOptions' \in {NoOptions, CreateClientWithMtls, CreateClientWithMtlsPkcs11,
                        CreateClientWithMtlsPkcs12, CreateClientWithMtlsWindowsCertStorePath,
                        CreateServer, CreateServerPkcs12}
    /\ UNCHANGED <<tlsContext, metrics>>

(* The two settings that an application assigns. *)
ChangeOptions ==
    /\ tlsOptions # None
    /\ \/ tlsOptions' = [tlsOptions EXCEPT !.minTls = "TLSv1_3"]
       \/ tlsOptions' = [tlsOptions EXCEPT !.cipher = "PQ_DEFAULT"]
    /\ UNCHANGED <<tlsContext, metrics>>

(* The context copies what the metrics read. *)
NewClientTlsContext ==
    /\ tlsOptions # None
    /\ tlsContext' = tlsOptions
    /\ UNCHANGED <<tlsOptions, metrics>>

----------------------------------------------------------------------------
(* Values of the features; an unknown setting has none. *)

Get(mapping, x) == IF x \in DOMAIN mapping THEN mapping[x] ELSE None
RetryJitterMetricsValue(m) == Get([NONE |-> "A", FULL |-> "B", DECORRELATED |-> "C"], m)
SessionBehaviorMetricsValue(b) == Get([CLEAN |-> "A", POST_SUCCESS |-> "B", ALWAYS |-> "C"], b)
QueueBehaviorMetricsValue(b) == Get([NON_QOS1 |-> "A", QOS0 |-> "B", ALL |-> "C"], b)
OutboundAliasMetricsValue(b) == Get([MANUAL |-> "A", LRU |-> "B", DISABLED |-> "C"], b)
InboundAliasMetricsValue(b) == 
    Get([x \in {"ENABLED", "DISABLED"} |-> IF x = "ENABLED" THEN "A" ELSE "B"], b)
ProtocolVersionMetricsValue(p) == Get([MQTT311 |-> "3", MQTT5 |-> "5"], p)
SocketImplementationMetricsValue(platform) == IF platform = "win32" THEN "B" ELSE "A"
HttpProxyTypeMetricsValue(proxy) == IF proxy = "tls" THEN "B" ELSE "A"
CertificateSourceMetricsValue(s) == Get([files |-> "A", pkcs11 |-> "B", windows |-> "C", pkcs12 |-> "E"], s)
TlsCipherPreferenceMetricsValue(p) == Get([PQ_2021 |-> "F", PQ_DEFAULT |-> "H", TLS12_2025 |-> "I"], p)
MinimumTlsVersionMetricsValue(v) ==
    Get([SSLv3 |-> "A", TLSv1 |-> "B", TLSv1_1 |-> "C", TLSv1_2 |-> "D", TLSv1_3 |-> "E"], v)

Feature(id, value) == IF value = None THEN <<>> ELSE <<<<id, value>>>>
ProxyFeature(proxy) == IF proxy = None THEN <<>> ELSE Feature("H", HttpProxyTypeMetricsValue(proxy))
TlsFeatures(ctx) ==
    IF ctx = None THEN <<>>
    ELSE Feature("I", CertificateSourceMetricsValue(ctx.source))
         \o Feature("J", TlsCipherPreferenceMetricsValue(ctx.cipher))
         \o Feature("K", MinimumTlsVersionMetricsValue(ctx.minTls))

(* The features of an MQTT 5 client, in the order of their ids. *)
EncodedFeatureList(opt, ctx, platform) ==
    Feature("A", RetryJitterMetricsValue(opt.jitter)) \o Feature("B", SessionBehaviorMetricsValue(opt.session))
      \o Feature("C", QueueBehaviorMetricsValue(opt.queue))
      \o Feature("D", OutboundAliasMetricsValue(opt.outbound)) \o Feature("E", InboundAliasMetricsValue(opt.inbound))
      \o Feature("F", ProtocolVersionMetricsValue("MQTT5"))
      \o Feature("G", SocketImplementationMetricsValue(platform))
      \o ProxyFeature(opt.proxy) \o TlsFeatures(ctx)

EncodedFeatureListMqtt3(proxy, ctx, platform) ==
    Feature("F", ProtocolVersionMetricsValue("MQTT311"))
      \o Feature("G", SocketImplementationMetricsValue(platform))
      \o ProxyFeature(proxy) \o TlsFeatures(ctx)

----------------------------------------------------------------------------
(* Dictionaries filled from lists *)

(* The dictionary after each pair. *)
Filled(dict, pairs) ==
    LET filled[i \in 0 .. Len(pairs)] == IF i = 0 THEN dict ELSE Put(filled[i - 1], pairs[i])
    IN  filled
PutAll(dict, pairs) == Filled(dict, pairs)[Len(pairs)]

(* The value that a list gives to a key last. *)
Places(dict, key) == {i \in DOMAIN dict : dict[i][1] = key}
Value(dict, key) == dict[Max(Places(dict, key))][2]

(* Mutant: the library's own values win. *)
MergeCrtLast(crt, user) == PutAll(PutAll(<<>>, user), crt)

MergeFeatureLists(crt, user) == PutAll(PutAll(<<>>, crt), user)

LastOf(user, key, default) == IF key \in Keys(user) THEN Value(user, key) ELSE default

Reserved == {"CRTVersion", "IoTSDKMetricsVersion", "IoTSDKFeature"}

OwnEntries(user) == Select(user, {e \in ToSet(user) : e[1] \notin Reserved})

(* isdigit() and int(): a version is compared as a number. *)
Agrees(version) == version \in {"1", "01"}

(* _create_metrics: the user's features count only under this version. *)
UserFeatures(user) ==
    IF Agrees(LastOf(user, "IoTSDKMetricsVersion", None)) THEN LastOf(user, "IoTSDKFeature", <<>>) ELSE <<>>

CreateMetrics(user, crt) ==
    PutAll(<<<<"CRTVersion", "crt">>>>, OwnEntries(user))
      \o <<<<"IoTSDKFeature", MergeFeatureLists(crt, UserFeatures(user))>>, <<"IoTSDKMetricsVersion", "1">>>>

UserMetrics == BoundedSeq(Entry, MaxEntries)

Platforms == {"win32", "linux"}  \* sys.platform

Report(user, crt) ==
    /\ metrics' = [user |-> user, crt |-> crt, entries |-> CreateMetrics(user, crt), context |-> tlsContext]
    /\ UNCHANGED <<tlsOptions, tlsContext>>

CreateMetricsMqtt5 ==
    \E user \in UserMetrics, opt \in Mqtt5Settings, platform \in Platforms :
        metrics = NoMetrics /\ Report(user, EncodedFeatureList(opt, tlsContext, platform))

CreateMetricsMqtt3 ==
    \E user \in UserMetrics, proxy \in Proxies, platform \in Platforms :
        metrics = NoMetrics /\ Report(user, EncodedFeatureListMqtt3(proxy, tlsContext, platform))

MetricsNext ==
    \/ metrics = NoMetrics /\ (MakeOptions \/ ChangeOptions \/ NewClientTlsContext)
    \/ CreateMetricsMqtt5 \/ CreateMetricsMqtt3

----------------------------------------------------------------------------
MetricsSpec == MetricsInit /\ [][MetricsNext]_metricsVars

(* The metrics have each key and each feature once.  The library's version is
   never the user's, and his entries under keys that are not reserved are there
   with the last of their values; every feature of the library is there, with
   the value of the user where versions agree and he gives one, and his others
   follow.  The certificate they tell of is the one in the context, whatever
   became of the options since. *)
MetricsMerge ==
    metrics # NoMetrics =>
        LET features == Value(metrics.entries, "IoTSDKFeature")
            agreed == Agrees(LastOf(metrics.user, "IoTSDKMetricsVersion", None))
            given == IF agreed THEN LastOf(metrics.user, "IoTSDKFeature", <<>>) ELSE <<>>
        IN  /\ Unique(metrics.entries) /\ Unique(features)
            /\ Value(metrics.entries, "CRTVersion") = "crt"
            /\ Keys(metrics.entries) = Reserved \cup Keys(metrics.user)
            /\ \A key \in Keys(metrics.user) \ Reserved :
                 Value(metrics.entries, key) = Value(metrics.user, key)
            /\ Keys(features) = Keys(metrics.crt) \cup Keys(given)
            /\ \A p \in ToSet(features) :
                 p[2] = IF p[1] \in Keys(given) THEN Value(given, p[1]) ELSE Value(metrics.crt, p[1])
            /\ \A i \in DOMAIN metrics.crt : features[i][1] = metrics.crt[i][1]
            /\ \A p \in ToSet(metrics.crt) :
                 p[1] = "I" => p[2] = CertificateSourceMetricsValue(metrics.context.material)
=============================================================================
