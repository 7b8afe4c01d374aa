---------------------------- MODULE SinkConfig ----------------------------
(***************************************************************************)
(* What the sink makes of the configuration of its destination, a JSON     *)
(* object that the state manager hands over unchecked: the two parsers of  *)
(* it (lib/sink_config.go, lib/destination_configs/webhook.go), what is    *)
(* derived from the result (services/stream_config.go), the delays between *)
(* retries (lib/retry_delay.go), and the headers of a request.             *)
(*                                                                         *)
(* The object is a function from its keys to values <<type, value>>; a key *)
(* that holds null is like one that is missing.  A number is counted in    *)
(* halves, so that int(num) has something to cut off.  An object all of    *)
(* whose values are strings has the type "strings".                        *)
(***************************************************************************)
EXTENDS Integers, FiniteSets, TLC

RetryStrategies == {"fixed", "linear", "exponential"}

Compressions == {"none", "gzip", "snappy", "lz4"}

DestinationTypes == {"webhook", "s3", "kafka", "noop", "postgres"}

\* Get...FromMap says ok.
Is(data, key, type) == key \in DOMAIN data /\ data[key][1] = type

Get(data, key, type, default) == IF Is(data, key, type) THEN data[key][2] ELSE default

\* int(num)
NumberOr(data, key, default) ==
  IF Is(data, key, "number") THEN data[key][2] \div 2 ELSE default

NumberIn(data, key, last) == Is(data, key, "number") => data[key][2] \in 0 .. 2 * last

StringIn(data, key, values) == Is(data, key, "string") => data[key][2] \in values

-----------------------------------------------------------------------------
(***************************************************************************)
(* The sink's own part of the configuration.  What is missing, or has the  *)
(* wrong type, takes its default.                                          *)
(***************************************************************************)

\* NewSinkConfig returns no error.
ValidSinkConfig(data) ==
  /\ NumberIn(data, "retryAttempts", 99)
  /\ NumberIn(data, "retryDelay", 60)
  /\ StringIn(data, "retryStrategy", RetryStrategies)
  /\ StringIn(data, "compression", Compressions)

NewSinkConfig(data) ==
  [retryAttempts |-> NumberOr(data, "retryAttempts", 3),
   retryDelay |-> NumberOr(data, "retryDelay", 5),
   retryStrategy |-> Get(data, "retryStrategy", "string", "fixed"),
   rollbackBeforeResend |-> Get(data, "rollbackBeforeResend", "bool", FALSE),
   resendOnReorg |-> Get(data, "resendOnReorg", "bool", FALSE),
   compression |-> Get(data, "compression", "string", "none")]

\* Mutant: a linear delay that counts from nought.
CalculateDelayFromNought(strategy, attempt, delay) ==
  IF strategy = "linear" THEN delay * (attempt - 1) ELSE delay

\* math.Pow(2, n)
PowerOfTwo[n \in Nat] == IF n = 0 THEN 1 ELSE 2 * PowerOfTwo[n - 1]

\* The pause before the attempt-th retry, in the unit of delay.  An int64 of
\* nanoseconds holds it until the pauses before it add up to 292 years.
CalculateDelay(strategy, attempt, delay) ==
  IF strategy = "fixed" \/ attempt \in {0, 1} THEN delay
  ELSE IF strategy = "linear" THEN delay * attempt
  ELSE delay * PowerOfTwo[attempt - 1]

-----------------------------------------------------------------------------
(***************************************************************************)
(* The webhook's part, with keys that have no default.  The name of a      *)
(* header is <<lower case form, how it is spelled>>.                       *)
(***************************************************************************)

\* The headers the sink sets itself, and others it does not let a customer set;
\* the rest of the list is about the transport and the browser.
blacklistedHeaders ==
  {"host", "connection", "content-length", "content-encoding", "content-type", "vary",
   "user-agent", "x-block-stream-id", "x-block-stream-direction",
   "x-block-stream-from-block", "x-block-stream-to-block"}

ToLower(name) == name[1]

\* Mutant: only the lower case spelling is looked up.
AllowedAsSpelled(name) ==
  name[2] # "malformed" /\ (name[2] = "lower" => ToLower(name) \notin blacklistedHeaders)

\* validateHeaderKey: the pattern, and the list.
validateHeaderKey(name) ==
  name[2] # "malformed" /\ ToLower(name) \notin blacklistedHeaders

\* validateHeaderValue: empty, overlong, padded and unprintable values are all
\* "malformed".
validateHeaderValue(value) == value # "malformed"

ValidateHeaders(headers) ==
  /\ Cardinality(DOMAIN headers) \in 1 .. 10
  /\ \A name \in DOMAIN headers : validateHeaderKey(name) /\ validateHeaderValue(headers[name])

\* NewWebhookDestinationConfig returns no error.
ValidWebhookConfig(data) ==
  /\ Is(data, "url", "string") /\ data["url"][2] \notin {"", "malformed"}
  /\ NumberIn(data, "timeout", 60)
  /\ Is(data, "headers", "strings") => ValidateHeaders(data["headers"][2])
  /\ Is(data, "rollbackBeforeResend", "bool")
  /\ Is(data, "compression", "string") /\ data["compression"][2] \in {"none", "gzip"}

\* The url and the timeout, 30 seconds when missing and none at all when 0, are
\* those of the HTTP client.
NewWebhookDestinationConfig(data) ==
  [timeout |-> NumberOr(data, "timeout", 30),
   headers |-> Get(data, "headers", "strings", << >>),
   rollbackBeforeResend |-> data["rollbackBeforeResend"][2],
   compression |-> data["compression"][2]]

-----------------------------------------------------------------------------
(***************************************************************************)
(* What a stream with this configuration does.  A panic of these is a      *)
(* matter of who calls them, see Launch.                                   *)
(***************************************************************************)

\* DestinationType does not panic.
HasDestinationType(stream) == stream.destinationType \in {"webhook", "noop"}

\* Neither do Compressors and PayloadBuilder.
HasCompressor(stream) == NewSinkConfig(stream.config).compression \in {"none", "gzip"}

\* Nor does Destination.
HasDestination(stream) ==
  stream.destinationType = "webhook" => ValidWebhookConfig(stream.config)

\* The branch of the type s3 is left out: DestinationType panics first.
ReorgActionOf(stream) ==
  LET config == NewSinkConfig(stream.config)
  IN IF ~ config.resendOnReorg THEN "IGNORE"
     ELSE IF config.rollbackBeforeResend THEN "ROLLBACK_AND_RESEND" ELSE "RESEND"

\* EncodingType of the output compressor.
EncodingType(compression) == IF compression = "gzip" THEN "gzip" ELSE ""

\* What Send adds to a request for a batch of this direction and encoding.
getBatchHeaders(config, direction, encoding) ==
  [name \in {"content-type", "accept", "user-agent", "x-block-stream-id",
             "x-block-stream-from-block", "x-block-stream-to-block"}
            \cup (IF config.rollbackBeforeResend THEN {"x-block-stream-direction"} ELSE {})
            \cup (IF encoding # "" THEN {"content-encoding", "vary"} ELSE {})
     |-> CASE name = "x-block-stream-direction" -> direction
           [] name = "content-encoding" -> encoding
           [] OTHER -> "of the sink"]

\* createRequest: what a header of a request with a body may hold.  The client's
\* own headers replace those of the call, whatever their spelling; of two
\* spellings of one name the last wins, in the order a Go map is walked.
HeaderValues(name, headers, clientHeaders) ==
  LET spellings == {n \in DOMAIN clientHeaders : ToLower(n) = name}
  IN IF name = "content-type" THEN {"application/json"}
     ELSE IF spellings # {} THEN {clientHeaders[n] : n \in spellings}
     ELSE IF name \in DOMAIN headers THEN {headers[name]} ELSE {}
=============================================================================
