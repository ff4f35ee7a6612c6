------------------------------- MODULE MCData -------------------------------
(***************************************************************************)
(* The three value types of the library that keep no thread and call no    *)
(* callback of the network: CBOR, HTTP headers, and the TLS settings with  *)
(* the metrics made of them.  They share nothing, so a behaviour is of one *)
(* of them and the others stay as they began.                              *)
(***************************************************************************)
EXTENDS Cbor, HttpHeaders, IotMetrics

(* CBOR: numbers at the edges of the widths; scalars, lists and dictionaries of
   them, and lists in lists. *)
MCInts == {-U64 - 1, -U64, -Long - 1, -Long, -1, 0, Long - 1, Long, U64 - 1, U64}
MCScalars == {<<"int", n>> : n \in {-Long, U64}} \cup {<<"text", 1>>, <<"null", 0>>, <<"object", 0>>}
SampleValues ==
    {<<"int", n>> : n \in MCInts} \cup MCScalars
      \cup {<<"list", s>> : s \in BoundedSeq(MCScalars, 2)}
      \cup {<<"list", <<<<"list", <<>>>>>>>>, <<"list", <<<<"list", <<<<"list", <<>>>>>>>>>>>>}
      \cup {<<"dict", <<<<k, v>>>>>> : k, v \in MCScalars} \cup {<<"dict", <<>>>>}
MCValues == SampleValues  \* which TLC evaluates once

(* Headers: two names that differ in the case of an ASCII letter, and two in the
   case of another letter ("E'" stands for it). *)
MCAsciiLower(name) == IF name = "A" THEN "a" ELSE name
MCLower(name) == IF name = "E'" THEN "e'" ELSE MCAsciiLower(name)
MCPairs == {<<"A", 1>>, <<"a", 2>>, <<"E'", 1>>}

(* Metrics: what an SDK passes; MQTT 5 settings vary together, each over its
   values. *)
MCEntry == ({"CRTVersion", "Other"} \X {"x"}) \cup ({"IoTSDKMetricsVersion"} \X {"01", "2"})
           \cup ({"IoTSDKFeature"} \X {<<<<"S", "u">>, <<"F", "u">>, <<"S", "v">>>>})
MCSdkFeature == {"S", "F"} \X {"u", "v"}
MCSettings ==
    {[jitter |-> None, session |-> None, queue |-> None, outbound |-> None, inbound |-> None, proxy |-> None],
     [jitter |-> "FULL", session |-> "CLEAN", queue |-> "ALL", outbound |-> "LRU", inbound |-> "ENABLED", proxy |-> "tls"],
     [jitter |-> "DEFAULT", session |-> "ALWAYS", queue |-> "QOS0", outbound |-> None, inbound |-> "DISABLED", proxy |-> "plain"]}
MCProxies == {None, "plain", "tls"}

VARIABLE part  \* the value that is at work

vars == <<part, cborVars, headersVars, metricsVars>>

Init ==
    /\ part \in {"cbor", "headers", "metrics"}
    /\ CborInit /\ HeadersInit /\ MetricsInit

Next ==
    /\ UNCHANGED part
    /\ \/ part = "cbor" /\ CborNext /\ UNCHANGED <<headersVars, metricsVars>>
       \/ part = "headers" /\ HeadersNext /\ UNCHANGED <<cborVars, metricsVars>>
       \/ part = "metrics" /\ MetricsNext /\ UNCHANGED <<cborVars, headersVars>>

Spec == Init /\ [][Next]_vars
=============================================================================
