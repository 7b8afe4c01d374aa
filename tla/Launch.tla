------------------------------- MODULE Launch -------------------------------
(***************************************************************************)
(* The life of the process: the services are constructed, their start      *)
(* hooks run, the runner works in the background, and the stop hooks run,  *)
(* last one first, while goroutines of the pipeline may still be at work.  *)
(* The container is go.uber.org/fx: it resolves the parameters of a        *)
(* constructor one after the other, runs the hooks in the order in which   *)
(* the constructors appended them, and after a failed start stops what has *)
(* been started.  A panic in a hook or on a goroutine ends the process at  *)
(* once.                                                                   *)
(*                                                                         *)
(* Of the pipeline (module Pipeline) this module has only what outlives an *)
(* attempt or can panic: the connection, the block function's V8 isolate,  *)
(* the batch size and the byte ranges of the blocks.  What the machine may *)
(* refuse the process (memory, a host name, the output of the log) is left *)
(* out.                                                                    *)
(***************************************************************************)
EXTENDS SinkConfig, Sequences

CONSTANTS
  Environments,  \* what .env may hold: [complete, metricsEnabled, metricsInterval]
  Answers,       \* the streams the state manager may answer GetStream with
  NoStream,      \* before the stream is loaded
  LargestChannel, \* the largest capacity Go makes a channel with
  MaxAttempts    \* PIPELINE_RETRY_MAX_ATTEMPTS

Function == {"none", "disabled", "works", "throws", "undecodable", "missing"}

ASSUME LaunchAssumption ==
  /\ \A e \in Environments :
       /\ e.complete \in BOOLEAN /\ e.metricsEnabled \in BOOLEAN
       /\ e.metricsInterval \in Int
  /\ \A s \in Answers :
       /\ s.destinationType \in DestinationTypes
       /\ s.function \in Function     \* what there is of a block function
       /\ s.maxBatchSize \in Int      \* as the JSON has it
       /\ s.grpcUrl \in {"well-formed", "malformed"}
       \* whether the server's byte ranges lie in the files kept for them
       /\ s.byteRanges \in {"inside", "outside"}
  /\ NoStream \notin Answers
  /\ LargestChannel \in Nat
  /\ MaxAttempts \in Nat \ {0}

VARIABLES
  phase,      \* construct, start, run, rollback, stop, exited or crashed
  wanted,     \* constructors the container is at work on, the innermost first
  built,      \* services constructed
  hooks,      \* the services that appended hooks, in order
  started,    \* how many of them have been started and not stopped
  env,        \* the configuration read from .env
  stream,     \* streamConfig.stream
  connection, \* blockStream.grpcConnection: none, open or closed
  isolate,    \* the block function's V8 isolate: none, live or disposed
  calling,    \* a task of the pool is in the block function
  pusher,     \* the goroutine that pushes metrics: none, begin, ticking, ended
  runner,     \* pc and attempt of runPipeline
  signalled,  \* history: a signal asked the process to stop
  stopError   \* a stop hook returned an error

goroutines == <<connection, calling, runner>>
vars == <<phase, wanted, built, hooks, started, env, stream, connection, isolate, calling,
          pusher, runner, signalled, stopError>>

-----------------------------------------------------------------------------
(***************************************************************************)
(* Construction.                                                           *)
(***************************************************************************)

\* The services a constructor takes, in the order of its parameters.
StateManagerParams == <<"Logger", "Config">>
StreamConfigParams == <<"StateManager">>
BlockStreamParams == <<"Logger", "StreamConfig">>
BatchParams == <<"Logger", "StreamConfig">>
MetricsParams == <<"Logger", "Config">>
BlockDownloaderParams == <<"Logger", "StreamConfig", "Metrics">>
BlockFunctionParams == <<"StreamConfig">>
BatchProcessorParams ==
  <<"StreamConfig", "BlockDownloader", "Metrics", "BlockFunction", "Config", "Logger">>
BatchSenderParams == <<"Logger", "StreamConfig", "StreamCursor", "StateManager", "Metrics">>
RunnerParams ==
  <<"Logger", "StreamCursor", "BlockStream", "Batch", "BatchProcessor", "BatchSender">>

\* Mutant: the cursor gets at the configuration in another way.
StreamCursorParamsWithoutConfig == <<"Logger", "StateManager">>

StreamCursorParams == <<"Logger", "StreamConfig", "StateManager">>

Params ==
  [Config |-> << >>, Logger |-> <<"Config">>, StateManager |-> StateManagerParams,
   StreamConfig |-> StreamConfigParams, StreamCursor |-> StreamCursorParams,
   BlockStream |-> BlockStreamParams, Batch |-> BatchParams, Metrics |-> MetricsParams,
   BlockDownloader |-> BlockDownloaderParams, BlockFunction |-> BlockFunctionParams,
   BatchProcessor |-> BatchProcessorParams, BatchSender |-> BatchSenderParams,
   Runner |-> RunnerParams]

Service == DOMAIN Params

\* The services that do not append a hook.
Hookless == {"Config", "Logger", "StateManager", "BlockDownloader"}

\* CreateApp invokes a function of these two.
Invoked == <<"Runner", "Metrics">>

IdleRunner == [pc |-> "idle", attempt |-> 1]

Init ==
  /\ phase = "construct"
  /\ wanted = Invoked
  /\ built = {}
  /\ hooks = << >>
  /\ started = 0
  /\ env \in Environments
  /\ stream = NoStream
  /\ connection = "none"
  /\ isolate = "none"
  /\ calling = FALSE
  /\ pusher = "none"
  /\ runner = IdleRunner
  /\ signalled = FALSE
  /\ stopError = FALSE

Unbuilt(s) == {i \in 1 .. Len(Params[s]) : Params[s][i] \notin built}

\* The first parameter that is not there yet is constructed first.
Resolve ==
  /\ wanted # << >> /\ Unbuilt(Head(wanted)) # {}
  /\ LET first == CHOOSE i \in Unbuilt(Head(wanted)) :
                    \A j \in Unbuilt(Head(wanted)) : i <= j
     IN wanted' = <<Params[Head(wanted)][first]>> \o wanted
  /\ UNCHANGED <<phase, built, hooks, started, isolate>>

\* newConfig panics when .env is not there or lacks what is required.
ReadConfigFails ==
  /\ wanted # << >> /\ Head(wanted) = "Config"
  /\ ~ env.complete
  /\ phase' = "crashed"
  /\ UNCHANGED <<wanted, built, hooks, started, isolate>>

\* A constructor runs, once, and appends its hook.
Construct ==
  /\ wanted # << >> /\ Unbuilt(Head(wanted)) = {}
  /\ LET s == Head(wanted) IN
       /\ s = "Config" => env.complete
       /\ built' = built \cup {s}
       /\ hooks' = IF s \in built \cup Hookless THEN hooks ELSE Append(hooks, s)
       /\ isolate' = IF s = "BlockFunction" THEN "live" ELSE isolate
  /\ wanted' = Tail(wanted)
  /\ phase' = IF wanted' = << >> THEN "start" ELSE "construct"
  /\ UNCHANGED started

ConstructionStep ==
  /\ phase = "construct"
  /\ Resolve \/ ReadConfigFails \/ Construct
  /\ UNCHANGED <<env, stream, goroutines, pusher, signalled, stopError>>

-----------------------------------------------------------------------------
(***************************************************************************)
(* The start hooks.                                                        *)
(***************************************************************************)

Starting == hooks[started + 1]

HookReturns ==
  /\ started' = started + 1
  /\ phase' = IF started' = Len(hooks) THEN "run" ELSE "start"

\* The hook returns an error, and the container stops what it has started.
HookFails == phase' = "rollback" /\ UNCHANGED started

HookPanics == phase' = "crashed" /\ UNCHANGED started

\* FunctionEnabled
FunctionEnabled == stream.function \notin {"none", "disabled"}

\* A hook takes what it needs from the stream; there may be none, or a panic.
Takes(possible) == IF stream # NoStream /\ possible THEN HookReturns ELSE HookPanics

\* StreamConfig: an error of GetStream is a panic, one of NewSinkConfig is not.
LoadStream ==
  /\ Starting = "StreamConfig"
  /\ \/ HookPanics /\ UNCHANGED stream
     \/ \E answer \in Answers :
          IF ValidSinkConfig(answer.config)
            THEN HookReturns /\ stream' = answer
            ELSE HookFails /\ UNCHANGED stream
  /\ UNCHANGED <<pusher, runner>>

\* Metrics: the goroutine that pushes them, when they are enabled.
StartMetrics ==
  /\ Starting = "Metrics"
  /\ HookReturns
  /\ pusher' = IF env.metricsEnabled THEN "begin" ELSE "none"
  /\ UNCHANGED <<stream, runner>>

\* Runner: go runPipeline
StartRunner ==
  /\ Starting = "Runner"
  /\ HookReturns
  /\ runner' = [runner EXCEPT !.pc = "request"]
  /\ UNCHANGED <<stream, pusher>>

StartStreamCursor == Starting = "StreamCursor" /\ Takes(TRUE)

\* Which has a stop hook alone.
StartBlockStream == Starting = "BlockStream" /\ HookReturns

\* The reorg action depends on the type of the destination.
StartBatch == Starting = "Batch" /\ Takes(HasDestinationType(stream))

\* The code is decoded and run; of a function that is enabled there may be none.
StartBlockFunction ==
  /\ Starting = "BlockFunction"
  /\ IF stream # NoStream /\ stream.function \in {"undecodable", "throws"} THEN HookFails
     ELSE Takes(stream.function # "missing")

StartBatchProcessor ==
  Starting = "BatchProcessor" /\ Takes(HasDestinationType(stream) /\ HasCompressor(stream))

StartBatchSender ==
  Starting = "BatchSender" /\ Takes(HasDestinationType(stream) /\ HasDestination(stream))

Configure ==
  /\ \/ StartStreamCursor \/ StartBlockStream \/ StartBatch \/ StartBlockFunction
     \/ StartBatchProcessor \/ StartBatchSender
  /\ UNCHANGED <<stream, pusher, runner>>

StartStep ==
  /\ phase = "start"
  /\ LoadStream \/ StartMetrics \/ StartRunner \/ Configure
  /\ UNCHANGED <<wanted, built, hooks, env, connection, isolate, calling, signalled,
                 stopError>>

-----------------------------------------------------------------------------
(***************************************************************************)
(* The goroutines, which go on until the process ends.                     *)
(***************************************************************************)

Up == phase \notin {"exited", "crashed"}

\* closeConnection returns an error: gRPC refuses to close a connection twice.
CloseFails == connection = "closed"

Closed == IF connection = "open" THEN "closed" ELSE connection

\* Mutant: the attempts are not counted against their maximum.
EndlessAttempts == runner' = [pc |-> "request", attempt |-> runner.attempt + 1]

\* The attempt is over with an error that can be retried, or is not.
AttemptFails ==
  runner' = IF runner.attempt < MaxAttempts
              THEN [pc |-> "request", attempt |-> runner.attempt + 1]
              ELSE [runner EXCEPT !.pc = "shutdown"]

\* createConnection, up to grpc.NewClient.
CloseOld ==
  /\ runner.pc = "request"
  /\ IF CloseFails THEN AttemptFails ELSE runner' = [runner EXCEPT !.pc = "dial"]
  /\ connection' = Closed
  /\ UNCHANGED phase

\* The rest of createConnection, and of the start of an attempt: the request may be
\* refused, a channel is made for the batch size, the goroutines start.
Dial ==
  /\ runner.pc = "dial"
  /\ IF stream.grpcUrl = "malformed"
       THEN AttemptFails /\ UNCHANGED <<phase, connection>>
       ELSE /\ connection' = "open"
            /\ \/ AttemptFails /\ UNCHANGED phase
               \/ IF stream.maxBatchSize \notin 0 .. LargestChannel
                    THEN phase' = "crashed" /\ UNCHANGED runner
                    ELSE runner' = [runner EXCEPT !.pc = "attempt"] /\ UNCHANGED phase

\* Mutant: an attempt closes its connection when it is over.
AttemptEndsAndCloses ==
  /\ runner.pc \in {"request", "attempt"}
  /\ \/ runner.pc = "attempt" /\ AttemptFails
     \/ runner' = [runner EXCEPT !.pc = "shutdown"]
  /\ connection' = Closed
  /\ UNCHANGED phase

\* An error of the attempt, or its end; also before it has begun, when the stream
\* is not running or has ended.
AttemptEnds ==
  /\ runner.pc \in {"request", "attempt"}
  /\ \/ runner.pc = "attempt" /\ AttemptFails
     \/ runner' = [runner EXCEPT !.pc = "shutdown"]
  /\ UNCHANGED <<phase, connection>>

\* Mutant: the runner ends without telling the container.
ShutdownUntold ==
  /\ runner.pc = "shutdown"
  /\ runner' = [runner EXCEPT !.pc = "asked"]
  /\ UNCHANGED <<phase, connection>>

\* shutdown, after its five seconds.
Shutdown ==
  /\ runner.pc = "shutdown"
  /\ runner' = [runner EXCEPT !.pc = "asked"]
  /\ phase' = IF phase = "run" THEN "stop" ELSE phase
  /\ UNCHANGED connection

RunnerStep ==
  /\ Up
  /\ CloseOld \/ Dial \/ AttemptEnds \/ Shutdown
  /\ UNCHANGED <<wanted, built, hooks, started, env, stream, isolate, calling, pusher,
                 signalled, stopError>>

\* Goroutines of an attempt may be at work, of one that is long over too.
AttemptsAtWork ==
  stream # NoStream /\ (runner.pc \in {"attempt", "shutdown", "asked"} \/ runner.attempt > 1)

\* A processor panics: no block fits a batch of none, so the batcher hands an empty
\* one on, which String refuses; or getBlockData slices outside the file it keeps.
ProcessorPanics ==
  /\ Up
  /\ AttemptsAtWork
  /\ stream.maxBatchSize = 0 \/ stream.byteRanges = "outside"
  /\ phase' = "crashed"
  /\ UNCHANGED <<wanted, built, hooks, started, env, stream, goroutines, isolate, pusher,
                 signalled, stopError>>

\* A task of the pool, of an attempt that may be long over, enters the block
\* function, and comes back.  In an isolate that was disposed anything happens, of
\* which the worst is the end of the process.
FunctionStep ==
  /\ Up
  /\ AttemptsAtWork
  /\ FunctionEnabled
  /\ calling' = ~ calling
  /\ phase' \in IF isolate = "disposed" THEN {phase, "crashed"} ELSE {phase}
  /\ UNCHANGED <<wanted, built, hooks, started, env, stream, connection, isolate, pusher,
                 runner, signalled, stopError>>

MetricsStopped ==
  phase \in {"rollback", "stop"} /\ "Metrics" \notin {hooks[i] : i \in 1 .. started}

\* startSendingMetricsInterval: a ticker needs an interval.  A push that fails is
\* logged.
PusherStep ==
  /\ Up
  /\ \/ /\ pusher = "begin"
        /\ IF env.metricsInterval <= 0
             THEN phase' = "crashed" /\ UNCHANGED pusher
             ELSE pusher' = "ticking" /\ UNCHANGED phase
     \/ /\ pusher = "ticking" /\ MetricsStopped
        /\ pusher' = "ended"
        /\ UNCHANGED phase
  /\ UNCHANGED <<wanted, built, hooks, started, env, stream, goroutines, isolate, signalled,
                 stopError>>

-----------------------------------------------------------------------------
(***************************************************************************)
(* The stop hooks, from the last one started.                              *)
(***************************************************************************)

\* SIGINT or SIGTERM; nothing tells the pipeline.
Signal ==
  /\ phase = "run"
  /\ phase' = "stop"
  /\ signalled' = TRUE
  /\ UNCHANGED <<wanted, built, hooks, started, env, stream, goroutines, isolate, pusher,
                 stopError>>

StopHook ==
  /\ phase \in {"rollback", "stop"} /\ started > 0
  /\ LET hook == hooks[started] IN
       /\ isolate' = IF hook = "BlockFunction" THEN "disposed" ELSE isolate
       /\ connection' = IF hook = "BlockStream" THEN Closed ELSE connection
       /\ stopError' = (stopError \/ (hook = "BlockStream" /\ CloseFails))
  /\ started' = started - 1
  /\ UNCHANGED <<phase, calling, runner>>

Exit ==
  /\ phase \in {"rollback", "stop"} /\ started = 0
  /\ phase' = "exited"
  /\ UNCHANGED <<started, goroutines, isolate, stopError>>

StopStep ==
  /\ StopHook \/ Exit
  /\ UNCHANGED <<wanted, built, hooks, env, stream, pusher, signalled>>

Next ==
  \/ ConstructionStep
  \/ StartStep
  \/ RunnerStep
  \/ ProcessorPanics
  \/ FunctionStep
  \/ PusherStep
  \/ Signal
  \/ StopStep

Spec == Init /\ [][Next]_vars

\* The container's goroutine and the runner's are scheduled.
Fairness ==
  /\ WF_vars(ConstructionStep)
  /\ WF_vars(StartStep)
  /\ WF_vars(RunnerStep)
  /\ WF_vars(StopStep)

FairSpec == Spec /\ Fairness

-----------------------------------------------------------------------------
(***************************************************************************)
(* Properties.                                                             *)
(***************************************************************************)

TypeOK ==
  /\ phase \in {"construct", "start", "run", "rollback", "stop", "exited", "crashed"}
  /\ \A i \in 1 .. Len(wanted) : wanted[i] \in Service
  /\ built \subseteq Service
  /\ \A i \in 1 .. Len(hooks) : hooks[i] \in built \ Hookless
  /\ started \in 0 .. Len(hooks)
  /\ env \in Environments
  /\ stream \in Answers \cup {NoStream}
  /\ connection \in {"none", "open", "closed"}
  /\ isolate \in {"none", "live", "disposed"}
  /\ calling \in BOOLEAN
  /\ pusher \in {"none", "begin", "ticking", "ended"}
  /\ runner \in [pc : {"idle", "request", "dial", "attempt", "shutdown", "asked"},
                 attempt : 1 .. MaxAttempts]
  /\ signalled \in BOOLEAN
  /\ stopError \in BOOLEAN

\* A configuration that some service cannot work with ends the process before the
\* pipeline runs, whatever the order of the hooks: once it runs, the process dies
\* of nothing but metrics without an interval (the environment is not checked for
\* it), a batch size of none or that no channel can be made for (nor is the
\* stream), a byte range outside the file kept for it (nor are the server's
\* blocks), and a block function called in an isolate that a stop hook has
\* disposed.  And no hook runs before the stream it reads was loaded.
CrashesAreExplained ==
  phase = "crashed" =>
    \/ pusher = "begin" /\ env.metricsInterval <= 0
    \/ IF runner.pc = "idle"
         THEN \/ ~ env.complete
              \/ IF stream = NoStream THEN Starting = "StreamConfig"
                 ELSE \/ ~ HasDestinationType(stream) \/ ~ HasCompressor(stream)
                      \/ ~ HasDestination(stream) \/ stream.function = "missing"
         ELSE \/ stream.maxBatchSize \notin 1 .. LargestChannel
              \/ stream.byteRanges = "outside"
              \/ isolate = "disposed" /\ FunctionEnabled

\* When the runner ends the process itself, no stop hook fails and nothing stays
\* open, however often it has connected anew and in whatever state an attempt left
\* the connection.  Only a signal finds the runner between closing one connection
\* and opening the next.
ShutdownIsClean ==
  phase = "exited" /\ runner.pc # "idle" /\ ~ signalled =>
    ~ stopError /\ connection # "open" /\ isolate = "disposed"

Own(config, direction, encoding, name, value) ==
  HeaderValues(name, getBatchHeaders(config, direction, encoding), config.headers) = {value}

\* A receiver can tell what it gets, whatever headers the customer has added to
\* the requests: the stream's headers and the encoding are those of the sink, and
\* when blocks may be rolled back the direction is always told.  The sink and its
\* destination each parse the configuration in their own way.
ReceiverIsToldWhatItGets ==
  phase = "run" /\ stream.destinationType = "webhook" =>
    LET config == NewWebhookDestinationConfig(stream.config)
        encoding == EncodingType(NewSinkConfig(stream.config).compression)
    IN \A direction \in {"->", "<-"} :
         /\ Own(config, direction, encoding, "x-block-stream-from-block", "of the sink")
         /\ Own(config, direction, encoding, "x-block-stream-to-block", "of the sink")
         /\ encoding # "" => Own(config, direction, encoding, "content-encoding", encoding)
         /\ encoding = "" =>
              HeaderValues("content-encoding", getBatchHeaders(config, direction, encoding),
                           config.headers) = {}
         /\ ReorgActionOf(stream) = "ROLLBACK_AND_RESEND" =>
              Own(config, direction, encoding, "x-block-stream-direction", direction)

\* Once the runner is through with its attempts, or a signal came, the process
\* ends, whatever goroutines are still at work.
ProcessEnds == runner.pc = "shutdown" \/ signalled ~> ~ Up
=============================================================================
