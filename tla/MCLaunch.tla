------------------------------ MODULE MCLaunch ------------------------------
(***************************************************************************)
(* Model checking Launch: a configuration that works, and every one that   *)
(* differs from it in one key, or in the headers and one more key, by a    *)
(* value of each kind the parsers tell apart.                              *)
(***************************************************************************)
EXTENDS Launch

SomeEnvironments ==
  {[complete |-> TRUE, metricsEnabled |-> TRUE, metricsInterval |-> 10],
   [complete |-> TRUE, metricsEnabled |-> TRUE, metricsInterval |-> 0],
   [complete |-> TRUE, metricsEnabled |-> FALSE, metricsInterval |-> 0],
   [complete |-> FALSE, metricsEnabled |-> TRUE, metricsInterval |-> 10]}

Number(halves) == <<"number", halves>>
Text(s) == <<"string", s>>
Flag(b) == <<"bool", b>>
Null == <<"null">>

Base ==
  [url |-> Text("url"), compression |-> Text("gzip"), rollbackBeforeResend |-> Flag(TRUE),
   resendOnReorg |-> Flag(TRUE)]

Headers(name, value) == <<"strings", (name :> value)>>

\* The ways a key may differ.
Values ==
  [url |-> {Null, Text("")},
   timeout |-> {Number(0), Number(121)},
   headers |-> {Headers(<<"accept", "mixed">>, "of the customer"),
                Headers(<<"content-encoding", "mixed">>, "of the customer"),
                Headers(<<"x-block-stream-from-block", "mixed">>, "of the customer"),
                Headers(<<"x-block-stream-direction", "lower">>, "of the customer"),
                Headers(<<"x-own", "mixed">>, "malformed"),
                Headers(<<"x-own", "malformed">>, "of the customer"),
                <<"strings", << >> >>, <<"map">>},
   rollbackBeforeResend |-> {Flag(FALSE), Text("true")},
   resendOnReorg |-> {Flag(FALSE), Null},
   compression |-> {Text("none"), Text("snappy"), Text("zip"), Null},
   retryAttempts |-> {Number(0), Number(1), Number(200), Text("5")},
   retryDelay |-> {Number(-2), Number(120)},
   retryStrategy |-> {Text("linear"), Text("random")}]

Keys == DOMAIN Values

Differing(data, key) == {(key :> value) @@ data : value \in Values[key]}

SomeConfigs ==
  {Base} \cup UNION {Differing(Base, key) : key \in Keys}
    \cup UNION {Differing(data, key) : data \in Differing(Base, "headers"), key \in Keys}

Stream(type, config, function, size, url, ranges) ==
  [destinationType |-> type, config |-> config, function |-> function,
   maxBatchSize |-> size, grpcUrl |-> url, byteRanges |-> ranges]

SomeAnswers ==
  {Stream("webhook", config, "none", 2, "well-formed", "inside") : config \in SomeConfigs}
    \cup {Stream(type, Base, "none", 2, "well-formed", "inside") : type \in DestinationTypes}
    \cup {Stream("webhook", Base, function, size, "well-formed", "inside") :
            function \in Function, size \in {-1, 0, 2, 3}}
    \cup {Stream("webhook", Base, function, 2, url, ranges) :
            function \in Function, url \in {"well-formed", "malformed"},
            ranges \in {"inside", "outside"}}
=============================================================================
