---------------------------- MODULE LaunchProofs ----------------------------
(***************************************************************************)
(* What can end the process before its time, that it ends cleanly when the *)
(* runner asks for it, and that a receiver is told what it gets: for every *)
(* environment, every stream and any number of attempts.                   *)
(*                                                                         *)
(* Each of these rests on the order of the hooks, which nobody writes      *)
(* down: it follows from the parameters of the constructors.  The hook     *)
(* that loads the stream is before those that read it, the runner's is the *)
(* last, and each service has one hook at most.                            *)
(***************************************************************************)
EXTENDS Launch, SequenceTheorems, TLAPS

\* What the constructor of s takes.
Uses(s) == {Params[s][i] : i \in 1 .. Len(Params[s])}

\* What is built is built after all it uses, and so are the hooks.
Wired ==
  /\ wanted \in Seq(Service) /\ hooks \in Seq(Service) /\ built \subseteq Service
  /\ \A s \in built : Uses(s) \subseteq built
  /\ \A i \in 1 .. Len(hooks) : hooks[i] \in built \ Hookless
  /\ \A s \in built \ Hookless : \E i \in 1 .. Len(hooks) : hooks[i] = s
  /\ \A i, j \in 1 .. Len(hooks) : hooks[i] = hooks[j] => i = j
  /\ \A i \in 1 .. Len(hooks) : \A s \in Uses(hooks[i]) \ Hookless :
       \E j \in 1 .. Len(hooks) : j < i /\ hooks[j] = s
  /\ "Runner" \in built => Len(hooks) > 0 /\ hooks[Len(hooks)] = "Runner"

\* The runner is constructed last but one, and before it everything it uses: the
\* metrics, which are left, are there by then.
AllWanted ==
  IF phase = "construct"
    THEN \/ wanted = <<"Metrics">> /\ "Runner" \in built
         \/ /\ Len(wanted) >= 2 /\ wanted[Len(wanted)] = "Metrics"
            /\ wanted[Len(wanted) - 1] = "Runner" /\ "Runner" \notin built
            /\ \A i \in 1 .. Len(wanted) - 2 : wanted[i] # "Runner"
    ELSE phase # "crashed" => "Runner" \in built

Phases ==
  /\ phase = "construct" => started = 0
  /\ phase = "start" => started < Len(hooks)
  /\ phase = "run" => started = Len(hooks)
  /\ phase \in {"construct", "start", "rollback"} => runner = IdleRunner
  /\ runner.pc = "idle" => runner.attempt = 1
  /\ signalled => phase \in {"stop", "exited", "crashed"}
  /\ phase \in {"construct", "start", "run"} => ~ stopError

\* The start hook of s has run.
Passed(s) == \E i \in 1 .. started : hooks[i] = s

\* What a hook that has run has found out about the stream.
Loaded ==
  /\ stream # NoStream => stream \in Answers /\ ValidSinkConfig(stream.config)
  /\ phase \in {"construct", "start", "run"} =>
       /\ Passed("StreamConfig") <=> stream # NoStream
       /\ Passed("BatchSender") => HasDestinationType(stream) /\ HasDestination(stream)
       /\ Passed("BatchProcessor") => HasCompressor(stream)

\* As long as nobody stops the process the runner closes a connection only to open
\* another.
Connected ==
  /\ phase \in {"construct", "start"} => connection = "none"
  /\ phase = "run" =>
       /\ connection # "none" => stream.grpcUrl # "malformed"
       /\ connection = "closed" => runner.pc = "dial"

\* What the stop hooks leave behind when the runner has asked for them.
Stopping ==
  /\ phase = "stop" =>
       \A i \in 1 .. Len(hooks) : i > started /\ hooks[i] = "BlockFunction" => isolate = "disposed"
  /\ phase = "stop" /\ ~ signalled =>
       /\ runner.pc = "asked" /\ ~ stopError
       /\ \A i \in 1 .. Len(hooks) : hooks[i] = "BlockStream" =>
            IF i > started THEN connection # "open" ELSE connection # "closed"

Inv ==
  /\ TypeOK /\ Wired /\ AllWanted /\ Phases /\ Loaded /\ Connected /\ Stopping
  /\ CrashesAreExplained /\ ShutdownIsClean

-----------------------------------------------------------------------------
(***************************************************************************)
(* The constructors.                                                       *)
(***************************************************************************)

\* The services, and what their constructors take.
LEMMA ServiceFacts ==
  /\ Service = {"Config", "Logger", "StateManager", "StreamConfig", "StreamCursor", "BlockStream",
                "Batch", "Metrics", "BlockDownloader", "BlockFunction", "BatchProcessor",
                "BatchSender", "Runner"}
  /\ Params["Config"] = << >> /\ Params["Logger"] = <<"Config">>
  /\ Params["StateManager"] = <<"Logger", "Config">>
  /\ Params["StreamConfig"] = <<"StateManager">>
  /\ Params["StreamCursor"] = <<"Logger", "StreamConfig", "StateManager">>
  /\ Params["BlockStream"] = <<"Logger", "StreamConfig">>
  /\ Params["Batch"] = <<"Logger", "StreamConfig">>
  /\ Params["Metrics"] = <<"Logger", "Config">>
  /\ Params["BlockDownloader"] = <<"Logger", "StreamConfig", "Metrics">>
  /\ Params["BlockFunction"] = <<"StreamConfig">>
  /\ Params["BatchProcessor"] =
       <<"StreamConfig", "BlockDownloader", "Metrics", "BlockFunction", "Config", "Logger">>
  /\ Params["BatchSender"] =
       <<"Logger", "StreamConfig", "StreamCursor", "StateManager", "Metrics">>
  /\ Params["Runner"] =
       <<"Logger", "StreamCursor", "BlockStream", "Batch", "BatchProcessor", "BatchSender">>
BY DEF Service, Params, StateManagerParams, StreamConfigParams, StreamCursorParams,
       BlockStreamParams, BatchParams, MetricsParams, BlockDownloaderParams, BlockFunctionParams,
       BatchProcessorParams, BatchSenderParams, RunnerParams

\* The same as sets.
LEMMA UsesFacts ==
  /\ Uses("Config") = {} /\ Uses("Logger") = {"Config"}
  /\ Uses("StateManager") = {"Logger", "Config"}
  /\ Uses("StreamConfig") = {"StateManager"}
  /\ Uses("StreamCursor") = {"Logger", "StreamConfig", "StateManager"}
  /\ Uses("BlockStream") = {"Logger", "StreamConfig"}
  /\ Uses("Batch") = {"Logger", "StreamConfig"}
  /\ Uses("Metrics") = {"Logger", "Config"}
  /\ Uses("BlockDownloader") = {"Logger", "StreamConfig", "Metrics"}
  /\ Uses("BlockFunction") = {"StreamConfig"}
  /\ Uses("BatchProcessor") =
       {"StreamConfig", "BlockDownloader", "Metrics", "BlockFunction", "Config", "Logger"}
  /\ Uses("BatchSender") = {"Logger", "StreamConfig", "StreamCursor", "StateManager", "Metrics"}
  /\ Uses("Runner") =
       {"Logger", "StreamCursor", "BlockStream", "Batch", "BatchProcessor", "BatchSender"}
<1>1. /\ \A x : {<<x>>[i] : i \in 1 .. Len(<<x>>)} = {x}
  OBVIOUS
<1>2. \A x, y : {<<x, y>>[i] : i \in 1 .. Len(<<x, y>>)} = {x, y}
  OBVIOUS
<1>3. \A x, y, z : {<<x, y, z>>[i] : i \in 1 .. Len(<<x, y, z>>)} = {x, y, z}
  OBVIOUS
<1>4. \A x, y, z, u, v :
        {<<x, y, z, u, v>>[i] : i \in 1 .. Len(<<x, y, z, u, v>>)} = {x, y, z, u, v}
  OBVIOUS
<1>5. \A x, y, z, u, v, w :
        {<<x, y, z, u, v, w>>[i] : i \in 1 .. Len(<<x, y, z, u, v, w>>)} = {x, y, z, u, v, w}
  OBVIOUS
<1> QED BY <1>1, <1>2, <1>3, <1>4, <1>5, ServiceFacts DEF Uses

\* No constructor takes the runner.
LEMMA UsesServices == \A s \in Service : Uses(s) \subseteq Service \ {"Runner"}
BY ServiceFacts, UsesFacts, SMTT(30)

\* A set of places among the parameters of a constructor has a first one.
LEMMA FirstPlace ==
  ASSUME NEW s \in Service, NEW U, U \subseteq 1 .. Len(Params[s]), U # {}
  PROVE  \E i \in U : \A j \in U : i <= j
<1>1. Len(Params[s]) \in 0 .. 6
  <2>1. \A x, y, z, u, v, w :
          /\ Len(<< >>) = 0 /\ Len(<<x>>) = 1 /\ Len(<<x, y>>) = 2 /\ Len(<<x, y, z>>) = 3
          /\ Len(<<x, y, z, u, v>>) = 5 /\ Len(<<x, y, z, u, v, w>>) = 6
    OBVIOUS
  <2>2. /\ Len(Params["Config"]) = 0 /\ Len(Params["Logger"]) = 1
        /\ Len(Params["StateManager"]) = 2 /\ Len(Params["StreamConfig"]) = 1
        /\ Len(Params["StreamCursor"]) = 3 /\ Len(Params["BlockStream"]) = 2
        /\ Len(Params["Batch"]) = 2 /\ Len(Params["Metrics"]) = 2
        /\ Len(Params["BlockDownloader"]) = 3 /\ Len(Params["BlockFunction"]) = 1
        /\ Len(Params["BatchProcessor"]) = 6 /\ Len(Params["BatchSender"]) = 5
        /\ Len(Params["Runner"]) = 6
    BY <2>1, ServiceFacts
  <2>3. s \in {"Config", "Logger", "StateManager", "StreamConfig", "StreamCursor", "BlockStream",
               "Batch", "Metrics", "BlockDownloader", "BlockFunction", "BatchProcessor",
               "BatchSender", "Runner"}
    BY ServiceFacts
  <2> QED BY <2>2, <2>3
<1>2. U \subseteq {1, 2, 3, 4, 5, 6}
  <2> SUFFICES ASSUME NEW n \in U PROVE n \in {1, 2, 3, 4, 5, 6}
    OBVIOUS
  <2>1. n \in 1 .. Len(Params[s])
    OBVIOUS
  <2>2. PICK m \in 0 .. 6 : m = Len(Params[s])
    BY <1>1
  <2>3. n \in 1 .. m
    BY <2>1, <2>2
  <2> QED BY <2>3
<1>3. 1 \notin U /\ 2 \notin U /\ 3 \notin U /\ 4 \notin U /\ 5 \notin U => 6 \in U
  BY <1>2
<1>4. /\ 1 \in U => \A j \in U : 1 <= j
      /\ 1 \notin U => \A j \in U : 2 <= j
      /\ 1 \notin U /\ 2 \notin U => \A j \in U : 3 <= j
      /\ 1 \notin U /\ 2 \notin U /\ 3 \notin U => \A j \in U : 4 <= j
      /\ 1 \notin U /\ 2 \notin U /\ 3 \notin U /\ 4 \notin U => \A j \in U : 5 <= j
      /\ 1 \notin U /\ 2 \notin U /\ 3 \notin U /\ 4 \notin U /\ 5 \notin U =>
           \A j \in U : 6 <= j
  BY <1>2
<1> QED BY <1>3, <1>4

-----------------------------------------------------------------------------
(***************************************************************************)
(* Construction.                                                           *)
(***************************************************************************)

\* The container resolves a parameter that is not there yet.
LEMMA ResolveWired ==
  ASSUME Wired, AllWanted, phase = "construct", Resolve
  PROVE  Wired' /\ AllWanted'
<1>1. wanted \in Seq(Service) /\ wanted # << >> /\ Head(wanted) \in Service
      /\ Len(wanted) \in Nat /\ Len(wanted) > 0 /\ Head(wanted) = wanted[1]
  BY HeadTailProperties, EmptySeq DEF Resolve, Wired
<1>2. PICK first \in Unbuilt(Head(wanted)) : wanted' = <<Params[Head(wanted)][first]>> \o wanted
  BY <1>1, FirstPlace DEF Resolve, Unbuilt
<1>3. PICK p \in Service \ {"Runner"} : p = Params[Head(wanted)][first] /\ p \notin built
                                        /\ p \in Uses(Head(wanted))
  BY <1>1, <1>2, UsesServices DEF Unbuilt, Uses
<1>4. /\ wanted' \in Seq(Service) /\ Len(wanted') = Len(wanted) + 1 /\ wanted'[1] = p
      /\ \A i \in 1 .. Len(wanted) : wanted'[i + 1] = wanted[i]
  BY <1>1, <1>2, <1>3
<1>5. Wired'
  BY <1>4 DEF Wired, Resolve
<1>6. AllWanted'
  <2>1. UNCHANGED <<phase, built>>
    BY DEF Resolve
  <2>2. CASE wanted = <<"Metrics">> /\ "Runner" \in built
    <3>1. Uses("Metrics") \subseteq built
      BY <2>2, UsesFacts DEF Wired
    <3> QED BY <1>1, <1>3, <2>2, <3>1
  <2>3. CASE Len(wanted) >= 2 /\ "Runner" \notin built
    <3>1. wanted[Len(wanted)] = "Metrics" /\ wanted[Len(wanted) - 1] = "Runner"
          /\ \A i \in 1 .. Len(wanted) - 2 : wanted[i] # "Runner"
      BY <1>1, <2>3 DEF AllWanted
    <3>2. wanted'[Len(wanted')] = "Metrics" /\ wanted'[Len(wanted') - 1] = "Runner"
      BY <1>1, <1>4, <2>3, <3>1
    <3>3. ASSUME NEW i \in 1 .. Len(wanted') - 2 PROVE wanted'[i] # "Runner"
      <4>1. CASE i = 1
        BY <1>3, <1>4, <4>1
      <4>2. CASE i # 1
        <5>1. i - 1 \in 1 .. Len(wanted) - 2 /\ wanted'[(i - 1) + 1] = wanted[i - 1]
          BY <1>1, <1>4, <4>2
        <5> QED BY <3>1, <5>1
      <4> QED BY <4>1, <4>2
    <3> QED BY <1>1, <1>4, <2>1, <2>3, <3>2, <3>3 DEF AllWanted
  <2> QED BY <2>2, <2>3 DEF AllWanted
<1> QED BY <1>5, <1>6

\* A sequence of one element.
LEMMA OnlyElement ==
  ASSUME NEW S, NEW s \in Seq(S), Len(s) = 1
  PROVE  s = <<s[1]>>
<1>1. s[1] \in S /\ <<s[1]>> \in Seq(S) /\ Len(<<s[1]>>) = 1
  BY ElementOfSeq
<1>2. \A i \in 1 .. Len(s) : s[i] = <<s[1]>>[i]
  OBVIOUS
<1> QED BY <1>1, <1>2, SeqEqual

\* A constructor runs when all it takes is there: its hook comes behind theirs.
LEMMA ConstructWired ==
  ASSUME Wired, AllWanted, phase = "construct", Construct
  PROVE  Wired' /\ AllWanted' /\ (phase' = "start" => Len(hooks') > 0)
<1> DEFINE s == Head(wanted)
<1>1. /\ s \in Service /\ s = wanted[1] /\ Len(wanted) \in Nat /\ Len(wanted) > 0
      /\ Tail(wanted) \in Seq(Service) /\ Len(Tail(wanted)) = Len(wanted) - 1
      /\ \A i \in 1 .. Len(wanted) - 1 : Tail(wanted)[i] = wanted[i + 1]
  <2>1. wanted \in Seq(Service) /\ wanted # << >>
    BY DEF Construct, Wired
  <2> QED BY <2>1, HeadTailProperties, EmptySeq
<1>2. Uses(s) \subseteq built /\ s \notin Uses(s)
  <2>1. Uses(s) \subseteq built
    BY DEF Construct, Unbuilt, Uses
  <2> QED BY <1>1, <2>1, ServiceFacts, UsesFacts
<1>3. /\ wanted' = Tail(wanted) /\ built' = built \cup {s}
      /\ hooks' = IF s \in built \cup Hookless THEN hooks ELSE Append(hooks, s)
      /\ phase' = IF wanted' = << >> THEN "start" ELSE "construct"
  BY DEF Construct
<1>4. hooks \in Seq(Service) /\ Len(hooks) \in Nat
  BY DEF Wired
<1> HIDE DEF s
<1>5. ASSUME s \notin built \cup Hookless
      PROVE  /\ hooks' \in Seq(Service) /\ Len(hooks') = Len(hooks) + 1
             /\ hooks'[Len(hooks) + 1] = s
             /\ \A i \in 1 .. Len(hooks) : hooks'[i] = hooks[i]
  BY <1>1, <1>3, <1>4, <1>5
<1>6. CASE wanted = <<"Metrics">> /\ "Runner" \in built
  <2>1. s = "Metrics" /\ wanted' = << >>
    BY <1>1, <1>3, <1>6
  <2>2. "Metrics" \in built
    <3>1. "BatchProcessor" \in built
      BY <1>6, UsesFacts DEF Wired
    <3> QED BY <3>1, UsesFacts DEF Wired
  <2>3. hooks' = hooks /\ built' = built /\ phase' = "start"
    BY <1>3, <2>1, <2>2
  <2> QED BY <1>6, <2>1, <2>3 DEF Wired, AllWanted
<1>7. CASE Len(wanted) >= 2 /\ "Runner" \notin built
  <2>1. wanted[Len(wanted)] = "Metrics" /\ wanted[Len(wanted) - 1] = "Runner"
        /\ \A i \in 1 .. Len(wanted) - 2 : wanted[i] # "Runner"
    BY <1>1, <1>7 DEF AllWanted
  <2>2. wanted' # << >> /\ phase' = "construct"
    BY <1>1, <1>3, <1>7
  <2>3. ASSUME s = "Runner" PROVE AllWanted'
    <3>1. Len(wanted) = 2
      <4>1. wanted[1] = "Runner" /\ (1 \in 1 .. Len(wanted) - 2 => wanted[1] # "Runner")
        BY <1>1, <2>1, <2>3
      <4>2. 1 \notin 1 .. Len(wanted) - 2
        BY <4>1
      <4> QED BY <1>1, <1>7, <4>2
    <3>2. wanted' = <<"Metrics">>
      <4>1. Len(wanted') = 1 /\ wanted' \in Seq(Service)
        BY <1>1, <1>3, <3>1
      <4>2. wanted'[1] = wanted[2] /\ wanted[2] = "Metrics"
        <5>1. 1 \in 1 .. Len(wanted) - 1 /\ 1 + 1 = 2
          BY <3>1
        <5>2. Tail(wanted)[1] = wanted[2]
          BY <1>1, <5>1
        <5>3. wanted[2] = "Metrics"
          BY <2>1, <3>1
        <5> QED BY <1>3, <5>2, <5>3
      <4>3. wanted' = <<wanted'[1]>>
        BY <4>1, OnlyElement
      <4> QED BY <4>2, <4>3
    <3>3. "Runner" \in built'
      BY <1>3, <2>3
    <3> QED BY <2>2, <3>2, <3>3 DEF AllWanted
  <2>4. ASSUME s # "Runner" PROVE AllWanted'
    <3>1. Len(wanted) # 2
      BY <1>1, <2>1, <2>4
    <3>2. wanted'[Len(wanted')] = "Metrics" /\ wanted'[Len(wanted') - 1] = "Runner"
          /\ Len(wanted') >= 2
      BY <1>1, <1>3, <1>7, <2>1, <3>1
    <3>3. ASSUME NEW i \in 1 .. Len(wanted') - 2 PROVE wanted'[i] # "Runner"
      BY <1>1, <1>3, <1>7, <2>1
    <3>4. "Runner" \notin built'
      BY <1>3, <1>7, <2>4
    <3>5. \A i \in 1 .. Len(wanted') - 2 : wanted'[i] # "Runner"
      BY <3>3
    <3> QED BY <2>2, <3>2, <3>4, <3>5 DEF AllWanted
  <2>5. AllWanted'
    BY <2>3, <2>4
  <2>6. Wired'
    <3>1. CASE s \in built \cup Hookless
      <4>1. hooks' = hooks /\ s # "Runner"
        BY <1>3, <1>7, <3>1 DEF Hookless
      <4> QED BY <1>1, <1>2, <1>3, <3>1, <4>1 DEF Wired
    <3>2. CASE s \notin built \cup Hookless
      <4>1. \A i \in 1 .. Len(hooks) : hooks'[i] \in built \ Hookless /\ hooks'[i] # s
        BY <1>5, <3>2 DEF Wired
      <4>2. \A i \in 1 .. Len(hooks') : i \in 1 .. Len(hooks) \/ i = Len(hooks) + 1
        BY <1>4, <1>5, <3>2
      <4>3. \A i \in 1 .. Len(hooks') : hooks'[i] \in built' \ Hookless
        BY <1>3, <1>5, <3>2, <4>1, <4>2
      <4>4. \A t \in built' \ Hookless : \E i \in 1 .. Len(hooks') : hooks'[i] = t
        BY <1>3, <1>4, <1>5, <3>2 DEF Wired
      <4>5. \A i, j \in 1 .. Len(hooks') : hooks'[i] = hooks'[j] => i = j
        BY <1>5, <3>2, <4>1, <4>2 DEF Wired
      <4>6. ASSUME NEW i \in 1 .. Len(hooks'), NEW t \in Uses(hooks'[i]) \ Hookless
            PROVE  \E j \in 1 .. Len(hooks') : j < i /\ hooks'[j] = t
        <5>1. CASE i \in 1 .. Len(hooks)
          <6>1. \E j \in 1 .. Len(hooks) : j < i /\ hooks[j] = t
            BY <1>5, <3>2, <4>6, <5>1 DEF Wired
          <6> QED BY <1>4, <1>5, <3>2, <6>1
        <5>2. CASE i = Len(hooks) + 1
          <6>1. t \in built \ Hookless
            BY <1>2, <1>5, <3>2, <4>6, <5>2
          <6>2. \E j \in 1 .. Len(hooks) : hooks[j] = t
            BY <6>1 DEF Wired
          <6> QED BY <1>4, <1>5, <3>2, <5>2, <6>2
        <5> QED BY <4>2, <5>1, <5>2
      <4>7. "Runner" \in built' => Len(hooks') > 0 /\ hooks'[Len(hooks')] = "Runner"
        BY <1>3, <1>4, <1>5, <1>7, <3>2
      <4>8. /\ wanted' \in Seq(Service) /\ built' \subseteq Service
            /\ \A t \in built' : Uses(t) \subseteq built'
        BY <1>1, <1>2, <1>3 DEF Wired
      <4> QED BY <1>5, <3>2, <4>3, <4>4, <4>5, <4>6, <4>7, <4>8 DEF Wired
    <3> QED BY <3>1, <3>2
  <2> QED BY <2>2, <2>5, <2>6
<1> QED BY <1>6, <1>7 DEF AllWanted

\* What is built stays built when nobody builds.
LEMMA WiredKept ==
  ASSUME Wired, AllWanted, UNCHANGED <<wanted, built, hooks>>,
         \/ phase' \in {phase, "crashed"}
         \/ phase # "crashed" /\ {phase, phase'} \cap {"construct"} = {}
  PROVE  Wired' /\ AllWanted'
<1>1. Wired'
  BY DEF Wired
<1>2. AllWanted'
  BY DEF AllWanted
<1> QED BY <1>1, <1>2

\* Once everything is constructed, every service the runner needs has its hook, and
\* the runner's is the last.
LEMMA HooksAreThere ==
  ASSUME Wired, AllWanted, phase \notin {"construct", "crashed"}
  PROVE  /\ \A s \in {"BlockStream", "BlockFunction", "BatchProcessor", "BatchSender"} :
              \E i \in 1 .. Len(hooks) : hooks[i] = s
         /\ Len(hooks) \in Nat /\ Len(hooks) > 0 /\ hooks[Len(hooks)] = "Runner"
<1>1. "Runner" \in built
  BY DEF AllWanted
<1>2. {"BlockStream", "BatchProcessor", "BatchSender"} \subseteq built
  BY <1>1, UsesFacts DEF Wired
<1>3. "BlockFunction" \in built
  BY <1>2, UsesFacts DEF Wired
<1>4. {"BlockStream", "BlockFunction", "BatchProcessor", "BatchSender"} \cap Hookless = {}
  BY DEF Hookless
<1>5. Len(hooks) \in Nat
  BY DEF Wired
<1> QED BY <1>1, <1>2, <1>3, <1>4, <1>5 DEF Wired

\* The hooks that read the stream come after the one that loads it.
LEMMA StreamIsFirst ==
  ASSUME Wired, NEW i \in 1 .. Len(hooks),
         hooks[i] \in {"StreamCursor", "Batch", "BlockFunction", "BatchProcessor", "BatchSender"}
  PROVE  \E j \in 1 .. Len(hooks) : j < i /\ hooks[j] = "StreamConfig"
<1>1. "StreamConfig" \in Uses(hooks[i]) /\ "StreamConfig" \notin Hookless
  BY UsesFacts DEF Hookless
<1> QED BY <1>1 DEF Wired

\* At the start nothing is built.
LEMMA InitInv == Init => Inv
<1> SUFFICES ASSUME Init PROVE Inv
  OBVIOUS
<1>1. /\ wanted = <<"Runner", "Metrics">> /\ built = {} /\ hooks = << >> /\ phase = "construct"
      /\ Len(hooks) = 0
  BY DEF Init, Invoked
<1>2. wanted \in Seq(Service) /\ Len(wanted) = 2 /\ wanted[1] = "Runner" /\ wanted[2] = "Metrics"
  BY <1>1, ServiceFacts
<1>3. Wired /\ AllWanted
  <2>1. hooks \in Seq(Service)
    BY <1>1
  <2>2. Wired
    BY <1>1, <1>2, <2>1 DEF Wired
  <2>3. AllWanted
    BY <1>1, <1>2 DEF AllWanted
  <2> QED BY <2>2, <2>3
<1>4. TypeOK
  <2>1. \A i \in 1 .. Len(wanted) : wanted[i] \in Service
    BY <1>2
  <2>2. /\ started = 0 /\ env \in Environments /\ stream = NoStream /\ connection = "none"
        /\ isolate = "none" /\ calling = FALSE /\ pusher = "none" /\ runner = IdleRunner
        /\ signalled = FALSE /\ stopError = FALSE
    BY DEF Init
  <2>3. runner \in [pc : {"idle", "request", "dial", "attempt", "shutdown", "asked"},
                    attempt : 1 .. MaxAttempts]
    BY <2>2, LaunchAssumption DEF IdleRunner
  <2>4. /\ started \in 0 .. Len(hooks) /\ built \subseteq Service
        /\ \A i \in 1 .. Len(hooks) : hooks[i] \in built \ Hookless
    BY <1>1, <2>2
  <2>5. phase = "construct"
    BY <1>1
  <2> QED BY <2>1, <2>2, <2>3, <2>4, <2>5 DEF TypeOK
<1>5. Phases /\ Loaded /\ Connected /\ Stopping /\ CrashesAreExplained /\ ShutdownIsClean
  BY <1>1 DEF Init, IdleRunner, Phases, Passed, Loaded, Connected, Stopping, CrashesAreExplained,
              ShutdownIsClean
<1> QED BY <1>3, <1>4, <1>5 DEF Inv

\* A step of the container that constructs.
LEMMA ConstructionInv ==
  ASSUME Inv, ConstructionStep
  PROVE  Inv'
<1>1. /\ phase = "construct" /\ started = 0 /\ runner = IdleRunner /\ ~ signalled /\ ~ stopError
      /\ UNCHANGED <<env, stream, connection, calling, runner, pusher, signalled, stopError,
                     started>>
  BY DEF Inv, Phases, ConstructionStep, Resolve, ReadConfigFails, Construct, goroutines
<1>2. CASE Resolve
  <2>1. Wired' /\ AllWanted'
    BY <1>1, <1>2, ResolveWired DEF Inv
  <2>2. UNCHANGED <<phase, built, hooks, isolate>>
    BY <1>2 DEF Resolve
  <2>3. \A i \in 1 .. Len(wanted') : wanted'[i] \in Service
    BY <2>1 DEF Wired
  <2>4. TypeOK'
    BY <1>1, <2>2, <2>3 DEF Inv, TypeOK
  <2>5. Phases' /\ Loaded' /\ Connected' /\ Stopping' /\ CrashesAreExplained' /\ ShutdownIsClean'
    BY <1>1, <2>2 DEF Inv, Phases, Passed, Loaded, Connected, Stopping, CrashesAreExplained,
                      ShutdownIsClean, IdleRunner
  <2> QED BY <2>1, <2>4, <2>5 DEF Inv
<1>3. CASE ReadConfigFails
  <2>1. UNCHANGED <<wanted, built, hooks, isolate>> /\ phase' = "crashed" /\ ~ env.complete
    BY <1>3 DEF ReadConfigFails
  <2>2. Wired' /\ AllWanted'
    BY <2>1, WiredKept DEF Inv
  <2>3. TypeOK'
    BY <1>1, <2>1 DEF Inv, TypeOK
  <2>4. Phases' /\ Loaded' /\ Connected' /\ Stopping' /\ ShutdownIsClean'
    BY <1>1, <2>1 DEF Inv, Phases, Passed, Loaded, Connected, Stopping, ShutdownIsClean, IdleRunner
  <2>5. CrashesAreExplained'
    BY <1>1, <2>1 DEF CrashesAreExplained, IdleRunner
  <2> QED BY <2>2, <2>3, <2>4, <2>5 DEF Inv
<1>4. CASE Construct
  <2>1. Wired' /\ AllWanted' /\ (phase' = "start" => Len(hooks') > 0)
    BY <1>1, <1>4, ConstructWired DEF Inv
  <2>2. phase' \in {"construct", "start"} /\ isolate' \in {"live", isolate}
    BY <1>4 DEF Construct
  <2>3. Len(hooks') \in Nat
    BY <2>1 DEF Wired
  <2>4. TypeOK'
    <3>1. /\ \A i \in 1 .. Len(wanted') : wanted'[i] \in Service
          /\ built' \subseteq Service
          /\ \A i \in 1 .. Len(hooks') : hooks'[i] \in built' \ Hookless
      BY <2>1 DEF Wired
    <3>2. started' \in 0 .. Len(hooks')
      BY <1>1, <2>3
    <3> QED BY <1>1, <2>2, <3>1, <3>2 DEF Inv, TypeOK
  <2>5. Phases'
    BY <1>1, <2>1, <2>2 DEF Phases, IdleRunner
  <2>6. Loaded'
    BY <1>1, <2>2 DEF Inv, Passed, Loaded
  <2>7. Connected' /\ Stopping' /\ CrashesAreExplained' /\ ShutdownIsClean'
    BY <1>1, <2>2 DEF Inv, Connected, Stopping, CrashesAreExplained, ShutdownIsClean
  <2> QED BY <2>1, <2>4, <2>5, <2>6, <2>7 DEF Inv
<1> QED BY <1>2, <1>3, <1>4 DEF ConstructionStep

-----------------------------------------------------------------------------
(***************************************************************************)
(* The start hooks.                                                        *)
(***************************************************************************)

\* Why the hook that is to be started may panic.
Explained ==
  IF stream = NoStream THEN Starting = "StreamConfig"
  ELSE \/ ~ HasDestinationType(stream) \/ ~ HasCompressor(stream)
       \/ ~ HasDestination(stream) \/ stream.function = "missing"

\* A start hook returns, with what it has found out; or it fails; or it panics.
LEMMA StartEffect ==
  ASSUME Inv, StartStep
  PROVE  /\ pusher' \in {pusher, "begin", "none"}
         /\ Starting = "StreamConfig" => stream = NoStream
         /\ \/ /\ HookReturns
               /\ IF Starting = "StreamConfig"
                    THEN stream' \in Answers /\ ValidSinkConfig(stream'.config)
                    ELSE stream' = stream
               /\ runner' = IF Starting = "Runner" THEN [runner EXCEPT !.pc = "request"] ELSE runner
               /\ Starting = "BatchSender" => HasDestinationType(stream) /\ HasDestination(stream)
               /\ Starting = "BatchProcessor" => HasCompressor(stream)
            \/ HookFails /\ UNCHANGED <<stream, runner>>
            \/ HookPanics /\ UNCHANGED <<stream, pusher, runner>> /\ Explained
<1>1. phase = "start" /\ started \in 0 .. Len(hooks) /\ started < Len(hooks) /\ Len(hooks) \in Nat
  BY DEF Inv, StartStep, Phases, TypeOK, Wired
<1>2. started + 1 \in 1 .. Len(hooks)
  BY <1>1
<1>3. Starting \in {"StreamCursor", "Batch", "BlockFunction", "BatchProcessor", "BatchSender"} =>
        stream # NoStream
  <2> SUFFICES ASSUME Starting \in {"StreamCursor", "Batch", "BlockFunction", "BatchProcessor",
                                    "BatchSender"}
               PROVE  stream # NoStream
    OBVIOUS
  <2>1. PICK j \in 1 .. Len(hooks) : j < started + 1 /\ hooks[j] = "StreamConfig"
    BY <1>2, StreamIsFirst DEF Inv, Starting
  <2>2. j \in 1 .. started
    BY <1>1, <2>1
  <2> QED BY <1>1, <2>1, <2>2 DEF Inv, Loaded, Passed
<1>4. Starting = "StreamConfig" => stream = NoStream
  <2> SUFFICES ASSUME Starting = "StreamConfig", NEW j \in 1 .. started
               PROVE  hooks[j] # "StreamConfig"
    BY <1>1 DEF Inv, Loaded, Passed
  <2>1. j \in 1 .. Len(hooks) /\ j # started + 1
    BY <1>1
  <2> QED BY <1>2, <2>1 DEF Inv, Wired, Starting
<1>5. CASE LoadStream
  BY <1>4, <1>5 DEF LoadStream, Explained
<1>6. CASE StartMetrics
  BY <1>4, <1>6 DEF StartMetrics
<1>7. CASE StartRunner
  BY <1>4, <1>7 DEF StartRunner
<1>8. CASE Configure
  <2>1. UNCHANGED <<stream, pusher, runner>>
    BY <1>8 DEF Configure
  <2>2. CASE StartStreamCursor \/ StartBatch \/ StartBatchProcessor \/ StartBatchSender
    BY <1>3, <1>4, <2>1, <2>2 DEF StartStreamCursor, StartBatch,
       StartBatchProcessor, StartBatchSender, Takes, Explained
  <2>3. CASE StartBlockStream
    BY <1>4, <2>1, <2>3 DEF StartBlockStream
  <2>4. CASE StartBlockFunction
    BY <1>3, <1>4, <2>1, <2>4 DEF StartBlockFunction, Takes, Explained
  <2> QED BY <1>8, <2>2, <2>3, <2>4 DEF Configure
<1> QED BY <1>5, <1>6, <1>7, <1>8 DEF StartStep

\* A start hook runs, fails or panics.
LEMMA StartInv ==
  ASSUME Inv, StartStep
  PROVE  Inv'
<1>1. /\ phase = "start" /\ started \in 0 .. Len(hooks) /\ started < Len(hooks)
      /\ Len(hooks) \in Nat
      /\ runner = IdleRunner /\ ~ signalled /\ ~ stopError
  BY DEF Inv, StartStep, Phases, TypeOK, Wired
<1>2. UNCHANGED <<wanted, built, hooks, env, connection, isolate, calling, signalled, stopError>>
  BY DEF StartStep
<1>3. phase' \in {"start", "run", "rollback", "crashed"}
  BY StartEffect DEF HookReturns, HookFails, HookPanics
<1>4. Wired' /\ AllWanted'
  BY <1>1, <1>2, <1>3, WiredKept DEF Inv
<1>5. pusher' \in {"none", "begin", "ticking", "ended"}
  BY StartEffect DEF Inv, TypeOK
<1>6. CASE /\ HookReturns
           /\ IF Starting = "StreamConfig"
                THEN stream' \in Answers /\ ValidSinkConfig(stream'.config)
                ELSE stream' = stream
           /\ runner' = IF Starting = "Runner" THEN [runner EXCEPT !.pc = "request"] ELSE runner
           /\ Starting = "BatchSender" => HasDestinationType(stream) /\ HasDestination(stream)
           /\ Starting = "BatchProcessor" => HasCompressor(stream)
  <2>1. /\ started' = started + 1 /\ started' \in 1 .. Len(hooks)
        /\ phase' = IF started' = Len(hooks) THEN "run" ELSE "start"
    BY <1>1, <1>2, <1>6 DEF HookReturns
  <2>2. runner' = IdleRunner \/ (runner'.pc = "request" /\ runner' \in
           [pc : {"idle", "request", "dial", "attempt", "shutdown", "asked"},
            attempt : 1 .. MaxAttempts])
    BY <1>1, <1>6, LaunchAssumption DEF IdleRunner
  <2>3. /\ stream' \in Answers \cup {NoStream}
        /\ stream' # NoStream => ValidSinkConfig(stream'.config)
    BY <1>6 DEF Inv, Loaded, TypeOK
  <2>4. TypeOK'
    BY <1>1, <1>2, <1>3, <1>5, <2>1, <2>2, <2>3, LaunchAssumption DEF Inv, TypeOK, IdleRunner
  <2>5. Phases'
    <3>1. phase' = "start" => runner' = IdleRunner
      <4> SUFFICES ASSUME started' # Len(hooks) PROVE Starting # "Runner"
        BY <1>1, <1>6, <2>1
      <4>1. /\ hooks[Len(hooks)] = "Runner"
            /\ started + 1 \in 1 .. Len(hooks) /\ Len(hooks) \in 1 .. Len(hooks)
        BY <1>1, <2>1, HooksAreThere DEF Inv
      <4> QED BY <2>1, <4>1 DEF Inv, Wired, Starting
    <3> QED BY <1>1, <1>2, <2>1, <2>2, <3>1 DEF Phases, IdleRunner
  <2>6. \A s : Passed(s)' <=> Passed(s) \/ Starting = s
    <3>1. \A i \in 1 .. started' : i \in 1 .. started \/ i = started + 1
      BY <1>1, <2>1
    <3>2. \A i \in 1 .. started : i \in 1 .. started'
      BY <1>1, <2>1
    <3>3. started + 1 \in 1 .. started'
      BY <1>1, <2>1
    <3> QED BY <1>2, <3>1, <3>2, <3>3 DEF Passed, Starting
  <2>7. Loaded'
    <3>1. NoStream \notin Answers
      BY LaunchAssumption
    <3>2. Passed("StreamConfig") <=> stream # NoStream
      BY <1>1 DEF Inv, Loaded
    <3>3. Passed("StreamConfig")' <=> stream' # NoStream
      BY <1>6, <2>6, <3>1, <3>2
    <3>4. ASSUME NEW t \in {"BatchSender", "BatchProcessor"}, Passed(t)
          PROVE  stream # NoStream /\ stream' = stream
      <4>1. PICK i \in 1 .. started : hooks[i] = t
        BY <3>4 DEF Passed
      <4>2. PICK j \in 1 .. Len(hooks) : j < i /\ hooks[j] = "StreamConfig"
        BY <1>1, <4>1, StreamIsFirst DEF Inv
      <4>3. j \in 1 .. started
        BY <1>1, <4>1, <4>2
      <4> QED BY <1>6, <3>2, <4>2, <4>3, StartEffect DEF Passed
    <3>5. Passed("BatchSender")' => HasDestinationType(stream') /\ HasDestination(stream')
      BY <1>1, <1>6, <2>6, <3>4 DEF Inv, Loaded
    <3>6. Passed("BatchProcessor")' => HasCompressor(stream')
      BY <1>1, <1>6, <2>6, <3>4 DEF Inv, Loaded
    <3> QED BY <2>3, <3>3, <3>5, <3>6 DEF Loaded
  <2>8. Connected' /\ Stopping' /\ CrashesAreExplained' /\ ShutdownIsClean'
    BY <1>1, <1>2, <1>3, <2>1 DEF Inv, Connected, Stopping, CrashesAreExplained,
      ShutdownIsClean, IdleRunner
  <2> QED BY <1>4, <2>4, <2>5, <2>7, <2>8 DEF Inv
<1>7. CASE HookFails /\ UNCHANGED <<stream, runner>>
  <2>1. phase' = "rollback" /\ started' = started
    BY <1>7 DEF HookFails
  <2>2. TypeOK' /\ Phases'
    BY <1>1, <1>2, <1>5, <1>7, <2>1 DEF Inv, TypeOK, Phases, IdleRunner
  <2>3. Loaded' /\ Connected' /\ Stopping' /\ CrashesAreExplained' /\ ShutdownIsClean'
    BY <1>1, <1>2, <1>7, <2>1 DEF Inv, Loaded, Connected, Stopping,
      CrashesAreExplained, ShutdownIsClean
  <2> QED BY <1>4, <2>2, <2>3 DEF Inv
<1>8. CASE HookPanics /\ UNCHANGED <<stream, pusher, runner>> /\ Explained
  <2>1. phase' = "crashed" /\ started' = started
    BY <1>8 DEF HookPanics
  <2>2. TypeOK' /\ Phases'
    BY <1>1, <1>2, <1>5, <1>8, <2>1 DEF Inv, TypeOK, Phases, IdleRunner
  <2>3. Loaded' /\ Connected' /\ Stopping' /\ ShutdownIsClean'
    BY <1>1, <1>2, <1>8, <2>1 DEF Inv, Loaded, Connected, Stopping, ShutdownIsClean
  <2>4. CrashesAreExplained'
    BY <1>1, <1>2, <1>8, <2>1 DEF CrashesAreExplained, Explained, Starting, IdleRunner
  <2> QED BY <1>4, <2>2, <2>3, <2>4 DEF Inv
<1> QED BY <1>6, <1>7, <1>8, StartEffect

-----------------------------------------------------------------------------
(***************************************************************************)
(* The goroutines.                                                         *)
(***************************************************************************)

\* A step that changes none of what the hooks are about.
LEMMA HooksKept ==
  ASSUME Inv, UNCHANGED <<wanted, built, hooks, started, env, stream>>,
         phase' \in {phase, "crashed"} \/ (phase = "run" /\ phase' = "stop")
  PROVE  Wired' /\ AllWanted' /\ Loaded'
<1>1. Wired' /\ AllWanted'
  BY WiredKept DEF Inv
<1>2. Loaded'
  BY DEF Inv, Loaded, Passed
<1> QED BY <1>1, <1>2

\* The runner takes no step before its hook has run, nor after it has asked for the
\* end.
LEMMA RunnerIsUp ==
  ASSUME Inv, RunnerStep
  PROVE  /\ runner.pc \in {"request", "dial", "attempt", "shutdown"}
         /\ phase \in {"run", "stop"}
         /\ phase = "run" \/ signalled
<1>1. runner.pc \in {"request", "dial", "attempt", "shutdown"}
  BY DEF RunnerStep, CloseOld, Dial, AttemptEnds, Shutdown
<1>2. phase \in {"run", "stop"}
  BY <1>1 DEF Inv, TypeOK, Phases, IdleRunner, RunnerStep, Up
<1> QED BY <1>1, <1>2 DEF Inv, Stopping

\* The end of an attempt leaves the runner where it makes a request or is through.
LEMMA AttemptFailsEffect ==
  ASSUME Inv, AttemptFails
  PROVE  /\ runner' \in [pc : {"request", "shutdown"}, attempt : 1 .. MaxAttempts]
<1>1. runner.attempt \in 1 .. MaxAttempts /\ MaxAttempts \in Nat
  BY LaunchAssumption DEF Inv, TypeOK
<1>2. CASE runner.attempt < MaxAttempts
  BY <1>1, <1>2 DEF AttemptFails
<1>3. CASE ~ (runner.attempt < MaxAttempts)
  BY <1>1, <1>3 DEF AttemptFails, Inv, TypeOK
<1> QED BY <1>2, <1>3

\* What a step of the runner does to the connection and the phase.
LEMMA RunnerEffect ==
  ASSUME Inv, RunnerStep
  PROVE  /\ runner' \in [pc : {"request", "dial", "attempt", "shutdown", "asked"},
                         attempt : 1 .. MaxAttempts]
         /\ connection' \in {"none", "open", "closed"}
         /\ \/ phase' = phase /\ runner'.pc # "asked"
            \/ /\ phase' = "crashed" /\ stream.maxBatchSize \notin 0 .. LargestChannel
            \/ /\ runner.pc = "shutdown" /\ runner'.pc = "asked" /\ UNCHANGED connection
               /\ phase' = IF phase = "run" THEN "stop" ELSE phase
         /\ phase = "run" =>
              /\ connection' # "none" => stream.grpcUrl # "malformed"
              /\ connection' = "closed" => runner'.pc = "dial"
<1>1. /\ runner \in [pc : {"idle", "request", "dial", "attempt", "shutdown", "asked"},
                     attempt : 1 .. MaxAttempts]
      /\ connection \in {"none", "open", "closed"}
      /\ phase = "run" =>
           /\ connection # "none" => stream.grpcUrl # "malformed"
           /\ connection = "closed" => runner.pc = "dial"
  BY DEF Inv, TypeOK, Connected
<1>2. runner' = [runner EXCEPT !.pc = "dial"] =>
        runner' \in [pc : {"dial"}, attempt : 1 .. MaxAttempts]
  BY <1>1
<1>3. runner' = [runner EXCEPT !.pc = "attempt"] =>
        runner' \in [pc : {"attempt"}, attempt : 1 .. MaxAttempts]
  BY <1>1
<1>4. runner' = [runner EXCEPT !.pc = "shutdown"] =>
        runner' \in [pc : {"shutdown"}, attempt : 1 .. MaxAttempts]
  BY <1>1
<1>5. runner' = [runner EXCEPT !.pc = "asked"] =>
        runner' \in [pc : {"asked"}, attempt : 1 .. MaxAttempts]
  BY <1>1
<1>6. CASE CloseOld
  <2>1. CASE CloseFails
    BY <1>1, <1>6, <2>1, AttemptFailsEffect DEF CloseOld, CloseFails, Closed
  <2>2. CASE ~ CloseFails
    BY <1>1, <1>2, <1>6, <2>2 DEF CloseOld, CloseFails, Closed
  <2> QED BY <2>1, <2>2
<1>7. CASE Dial
  <2>1. runner.pc = "dial"
    BY <1>7 DEF Dial
  <2>2. CASE AttemptFails /\ UNCHANGED <<phase, connection>> /\ stream.grpcUrl = "malformed"
    BY <1>1, <2>2, AttemptFailsEffect
  <2>3. CASE connection' = "open" /\ AttemptFails /\ UNCHANGED phase /\ stream.grpcUrl # "malformed"
    BY <1>1, <2>3, AttemptFailsEffect
  <2>4. CASE connection' = "open" /\ phase' = "crashed" /\ UNCHANGED runner
             /\ stream.maxBatchSize \notin 0 .. LargestChannel /\ stream.grpcUrl # "malformed"
    BY <1>1, <2>1, <2>4
  <2>5. CASE connection' = "open" /\ runner' = [runner EXCEPT !.pc = "attempt"] /\ UNCHANGED phase
             /\ stream.grpcUrl # "malformed"
    BY <1>1, <1>3, <2>5
  <2> QED BY <1>7, <2>2, <2>3, <2>4, <2>5 DEF Dial
<1>8. CASE AttemptEnds
  <2>1. runner' \in [pc : {"request", "shutdown"}, attempt : 1 .. MaxAttempts]
    BY <1>4, <1>8, AttemptFailsEffect DEF AttemptEnds
  <2> QED BY <1>1, <1>8, <2>1 DEF AttemptEnds
<1>9. CASE Shutdown
  BY <1>1, <1>5, <1>9 DEF Shutdown
<1> QED BY <1>6, <1>7, <1>8, <1>9 DEF RunnerStep

\* A step of the runner.
LEMMA RunnerInv ==
  ASSUME Inv, RunnerStep
  PROVE  Inv'
<1>1. /\ UNCHANGED <<wanted, built, hooks, started, env, stream, isolate, calling, pusher,
                     signalled, stopError>>
      /\ phase \in {"run", "stop"} /\ (phase = "run" \/ signalled)
      /\ runner.pc \in {"request", "dial", "attempt", "shutdown"}
  BY RunnerIsUp DEF RunnerStep
<1>2. phase' \in {phase, "crashed"} \/ (phase = "run" /\ phase' = "stop")
  BY RunnerEffect
<1>3. Wired' /\ AllWanted' /\ Loaded'
  BY <1>1, <1>2, HooksKept
<1>4. TypeOK'
  BY <1>1, <1>2, RunnerEffect DEF Inv, TypeOK
<1>5. Phases'
  BY <1>1, <1>2, RunnerEffect DEF Inv, Phases
<1>6. Connected' /\ ShutdownIsClean'
  BY <1>1, <1>2, RunnerEffect DEF Connected, ShutdownIsClean
<1>7. CrashesAreExplained'
  <2>1. stream.maxBatchSize \notin 0 .. LargestChannel =>
          stream.maxBatchSize \notin 1 .. LargestChannel
    BY LaunchAssumption
  <2>2. runner'.pc # "idle"
    BY RunnerEffect
  <2> QED BY <1>1, <2>1, <2>2, RunnerEffect DEF CrashesAreExplained
<1>8. Stopping'
  <2>1. CASE phase' # "stop"
    BY <2>1 DEF Stopping
  <2>2. CASE phase' = "stop" /\ phase = "stop"
    BY <1>1, <2>2 DEF Inv, Stopping
  <2>3. CASE phase' = "stop" /\ phase = "run"
    <3>1. runner'.pc = "asked" /\ connection # "closed" /\ ~ stopError /\ started = Len(hooks)
          /\ UNCHANGED connection
      BY <1>1, <2>3, RunnerEffect DEF Inv, Phases, Connected
    <3>2. \A i \in 1 .. Len(hooks) : ~ (i > started)
      BY <3>1 DEF Inv, TypeOK
    <3> QED BY <1>1, <3>1, <3>2 DEF Stopping
  <2> QED BY <1>1, <1>2, <2>1, <2>2, <2>3
<1> QED BY <1>3, <1>4, <1>5, <1>6, <1>7, <1>8 DEF Inv

\* The goroutines of an attempt were started by the runner.
LEMMA WorkNeedsRunner ==
  ASSUME Inv, AttemptsAtWork
  PROVE  runner.pc # "idle"
BY DEF Inv, Phases, TypeOK, IdleRunner, AttemptsAtWork

\* A processor that panics, a task in the block function, and the goroutine that
\* pushes metrics, change nothing the invariant is about, but that the process may
\* end.
LEMMA BesidesInv ==
  ASSUME Inv, ProcessorPanics \/ FunctionStep \/ PusherStep
  PROVE  Inv'
<1>1. /\ UNCHANGED <<wanted, built, hooks, started, env, stream, connection, isolate, runner,
                     signalled, stopError>>
      /\ phase' \in {phase, "crashed"} /\ Up
  BY DEF ProcessorPanics, FunctionStep, PusherStep, goroutines
<1>2. Wired' /\ AllWanted' /\ Loaded'
  BY <1>1, HooksKept
<1>3. TypeOK'
  <2>1. calling' \in BOOLEAN /\ pusher' \in {"none", "begin", "ticking", "ended"}
    BY DEF Inv, TypeOK, ProcessorPanics, FunctionStep, PusherStep, goroutines
  <2> QED BY <1>1, <2>1 DEF Inv, TypeOK
<1>4. Phases' /\ Connected' /\ Stopping' /\ ShutdownIsClean'
  BY <1>1 DEF Inv, Phases, Connected, Stopping, ShutdownIsClean
<1>5. CrashesAreExplained'
  <2> SUFFICES ASSUME phase' = "crashed" PROVE CrashesAreExplained'
    BY DEF CrashesAreExplained
  <2>1. phase # "crashed"
    BY <1>1 DEF Up
  <2>2. CASE FunctionStep
    <3>1. isolate = "disposed" /\ FunctionEnabled /\ runner.pc # "idle"
      BY <2>1, <2>2, WorkNeedsRunner DEF FunctionStep
    <3> QED BY <1>1, <3>1 DEF CrashesAreExplained, FunctionEnabled
  <2>4. CASE ProcessorPanics
    <3>1. runner.pc # "idle"
      BY <2>4, WorkNeedsRunner DEF ProcessorPanics
    <3>2. stream.maxBatchSize \notin 1 .. LargestChannel \/ stream.byteRanges = "outside"
      BY <2>4, LaunchAssumption DEF ProcessorPanics
    <3> QED BY <1>1, <3>1, <3>2 DEF CrashesAreExplained
  <2>3. CASE PusherStep
    <3>1. pusher' = "begin" /\ env.metricsInterval <= 0
      BY <2>1, <2>3 DEF PusherStep
    <3> QED BY <1>1, <3>1 DEF CrashesAreExplained
  <2> QED BY <2>2, <2>3, <2>4
<1> QED BY <1>2, <1>3, <1>4, <1>5 DEF Inv

-----------------------------------------------------------------------------
(***************************************************************************)
(* The stop hooks.                                                         *)
(***************************************************************************)

\* A signal finds every hook started.
LEMMA SignalInv ==
  ASSUME Inv, Signal
  PROVE  Inv'
<1>1. /\ UNCHANGED <<wanted, built, hooks, started, env, stream, connection, isolate, calling,
                     runner, pusher, stopError>>
      /\ phase = "run" /\ phase' = "stop" /\ signalled' = TRUE
  BY DEF Signal, goroutines
<1>2. Wired' /\ AllWanted' /\ Loaded'
  BY <1>1, HooksKept
<1>3. TypeOK' /\ Phases' /\ Connected' /\ CrashesAreExplained' /\ ShutdownIsClean'
  BY <1>1 DEF Inv, TypeOK, Phases, Connected, CrashesAreExplained, ShutdownIsClean
<1>4. Stopping'
  <2>1. \A i \in 1 .. Len(hooks) : ~ (i > started)
    BY <1>1 DEF Inv, TypeOK, Phases
  <2> QED BY <1>1, <2>1 DEF Stopping
<1> QED BY <1>2, <1>3, <1>4 DEF Inv

\* The stop hooks run from the last one started, and then the process exits.
LEMMA StopInv ==
  ASSUME Inv, StopStep
  PROVE  Inv'
<1>1. /\ UNCHANGED <<wanted, built, hooks, env, stream, calling, runner, pusher, signalled>>
      /\ phase \in {"rollback", "stop"}
  BY DEF StopStep, StopHook, Exit, goroutines
<1>2. phase' \in {phase, "exited"}
  BY DEF StopStep, StopHook, Exit
<1>3. Wired' /\ AllWanted'
  BY <1>1, <1>2, WiredKept DEF Inv
<1>4. Loaded'
  BY <1>1, <1>2 DEF Inv, Loaded
<1>5. CASE StopHook
  <2>1. /\ started \in 1 .. Len(hooks) /\ started' = started - 1 /\ phase' = phase
        /\ isolate' = IF hooks[started] = "BlockFunction" THEN "disposed" ELSE isolate
        /\ connection' = IF hooks[started] = "BlockStream" THEN Closed ELSE connection
        /\ stopError' = (stopError \/ (hooks[started] = "BlockStream" /\ CloseFails))
    BY <1>5 DEF StopHook, Inv, TypeOK
  <2>2. TypeOK'
    BY <1>1, <2>1 DEF Inv, TypeOK, Closed
  <2>3. Phases' /\ Connected' /\ CrashesAreExplained' /\ ShutdownIsClean'
    BY <1>1, <2>1 DEF Inv, Phases, Connected, CrashesAreExplained, ShutdownIsClean
  <2>4. \A i \in 1 .. Len(hooks) : i > started' <=> i > started \/ i = started
    BY <2>1
  <2>5. Stopping'
    <3> SUFFICES ASSUME phase = "stop" PROVE Stopping'
      BY <2>1 DEF Stopping
    <3>1. \A i \in 1 .. Len(hooks) : i > started' /\ hooks[i] = "BlockFunction" =>
            isolate' = "disposed"
      BY <2>1, <2>4 DEF Inv, Stopping
    <3>2. ASSUME ~ signalled
          PROVE  ~ stopError' /\ \A i \in 1 .. Len(hooks) : hooks[i] = "BlockStream" =>
                   IF i > started' THEN connection' # "open" ELSE connection' # "closed"
      <4>1. /\ ~ stopError
            /\ \A i \in 1 .. Len(hooks) : hooks[i] = "BlockStream" =>
                 IF i > started THEN connection # "open" ELSE connection # "closed"
        BY <3>2 DEF Inv, Stopping
      <4>2. CASE hooks[started] = "BlockStream"
        <5>1. \A i \in 1 .. Len(hooks) : hooks[i] = "BlockStream" => i = started
          BY <2>1, <4>2 DEF Inv, Wired
        <5>2. connection # "closed"
          BY <2>1, <4>1, <4>2
        <5> QED BY <2>1, <2>4, <4>1, <4>2, <5>1, <5>2 DEF Closed, CloseFails
      <4>3. CASE hooks[started] # "BlockStream"
        BY <2>1, <2>4, <4>1, <4>3
      <4> QED BY <4>2, <4>3
    <3>3. ~ signalled => runner.pc = "asked"
      BY DEF Inv, Stopping
    <3> QED BY <1>1, <2>1, <3>1, <3>2, <3>3 DEF Stopping
  <2> QED BY <1>3, <1>4, <2>2, <2>3, <2>5 DEF Inv
<1>6. CASE Exit
  <2>1. /\ started = 0 /\ phase' = "exited"
        /\ UNCHANGED <<started, connection, isolate, stopError>>
    BY <1>6 DEF Exit, goroutines
  <2>2. TypeOK' /\ Phases' /\ Connected' /\ CrashesAreExplained' /\ Stopping'
    BY <1>1, <2>1 DEF Inv, TypeOK, Phases, Connected, CrashesAreExplained, Stopping
  <2>3. ShutdownIsClean'
    <3> SUFFICES ASSUME runner.pc # "idle", ~ signalled
                 PROVE  ~ stopError /\ connection # "open" /\ isolate = "disposed"
      BY <1>1, <2>1 DEF ShutdownIsClean
    <3>1. phase = "stop"
      BY <1>1 DEF Inv, Phases, IdleRunner
    <3>2. /\ \E i \in 1 .. Len(hooks) : i > started /\ hooks[i] = "BlockFunction"
          /\ \E i \in 1 .. Len(hooks) : i > started /\ hooks[i] = "BlockStream"
      BY <1>1, <2>1, HooksAreThere DEF Inv
    <3> QED BY <3>1, <3>2 DEF Inv, Stopping
  <2> QED BY <1>3, <1>4, <2>2, <2>3 DEF Inv
<1> QED BY <1>5, <1>6 DEF StopStep

-----------------------------------------------------------------------------
(***************************************************************************)
(* What is proved.                                                         *)
(***************************************************************************)

\* The inductive invariant: the order of the hooks, and what holds by it in each
\* phase.
THEOREM InvHolds == Spec => []Inv
<1>1. Inv /\ UNCHANGED vars => Inv'
  <2> SUFFICES ASSUME Inv, UNCHANGED vars PROVE Inv'
    OBVIOUS
  <2>1. UNCHANGED <<phase, wanted, built, hooks, started, env, stream, connection, isolate, calling,
                    pusher, runner, signalled, stopError>>
    BY DEF vars, goroutines
  <2>2. Wired' /\ AllWanted' /\ Loaded'
    BY <2>1, HooksKept
  <2>3. TypeOK' /\ Phases' /\ Connected' /\ Stopping'
    BY <2>1 DEF Inv, TypeOK, Phases, Connected, Stopping
  <2>4. CrashesAreExplained' /\ ShutdownIsClean'
    BY <2>1 DEF Inv, CrashesAreExplained, ShutdownIsClean, Starting, FunctionEnabled
  <2> QED BY <2>2, <2>3, <2>4 DEF Inv
<1>2. Inv /\ [Next]_vars => Inv'
  BY <1>1, ConstructionInv, StartInv, RunnerInv, BesidesInv, SignalInv, StopInv DEF Next
<1> QED BY <1>2, InitInv, PTL DEF Spec

\* Every variable keeps its type: the hooks are those of services that are built and
\* have one, and none is started or stopped twice.
THEOREM TypeCorrect == Spec => []TypeOK
BY InvHolds, PTL DEF Inv

\* Whatever the environment and the stream are, the process dies early of nothing
\* but what the property names; a configuration that some service cannot work with
\* never reaches the pipeline.
THEOREM CrashesHaveTheirReasons == Spec => []CrashesAreExplained
BY InvHolds, PTL DEF Inv

\* However often the runner has connected anew: when it ends the process itself, no
\* stop hook fails and nothing stays open.
THEOREM ShutdownLeavesNothing == Spec => []ShutdownIsClean
BY InvHolds, PTL DEF Inv
-----------------------------------------------------------------------------
(***************************************************************************)
(* The headers of a request.                                               *)
(***************************************************************************)

\* None of the customer's headers that were let through is one of the sink's.
LEMMA CustomersHeaders ==
  ASSUME NEW data, ValidWebhookConfig(data),
         NEW n \in DOMAIN NewWebhookDestinationConfig(data).headers
  PROVE  ToLower(n) \notin blacklistedHeaders
<1>1. NewWebhookDestinationConfig(data).headers = Get(data, "headers", "strings", << >>)
  BY DEF NewWebhookDestinationConfig
<1>2. CASE Is(data, "headers", "strings")
  BY <1>1, <1>2 DEF Get, ValidWebhookConfig, ValidateHeaders, validateHeaderKey
<1>3. CASE ~ Is(data, "headers", "strings")
  BY <1>1, <1>3 DEF Get
<1> QED BY <1>2, <1>3

\* So a name of the sink's has the value the sink gives it, or none.
LEMMA SinksHeaders ==
  ASSUME NEW data, ValidWebhookConfig(data), NEW headers,
         NEW name \in blacklistedHeaders \ {"content-type"}
  PROVE  HeaderValues(name, headers, NewWebhookDestinationConfig(data).headers) =
           IF name \in DOMAIN headers THEN {headers[name]} ELSE {}
<1>1. {n \in DOMAIN NewWebhookDestinationConfig(data).headers : ToLower(n) = name} = {}
  BY CustomersHeaders
<1> QED BY <1>1 DEF HeaderValues

\* What a receiver is told about a stream whose configuration the webhook accepts.
LEMMA Told ==
  ASSUME NEW s, ValidWebhookConfig(s.config), NEW direction, NEW encoding,
         NEW config, config = NewWebhookDestinationConfig(s.config)
  PROVE  /\ Own(config, direction, encoding, "x-block-stream-from-block", "of the sink")
         /\ Own(config, direction, encoding, "x-block-stream-to-block", "of the sink")
         /\ encoding # "" => Own(config, direction, encoding, "content-encoding", encoding)
         /\ encoding = "" =>
              HeaderValues("content-encoding", getBatchHeaders(config, direction, encoding),
                           config.headers) = {}
         /\ ReorgActionOf(s) = "ROLLBACK_AND_RESEND" =>
              Own(config, direction, encoding, "x-block-stream-direction", direction)
<1>1. ReorgActionOf(s) = "ROLLBACK_AND_RESEND" => config.rollbackBeforeResend
  <2>1. Is(s.config, "rollbackBeforeResend", "bool")
    BY DEF ValidWebhookConfig
  <2> QED BY <2>1 DEF ReorgActionOf, NewSinkConfig, NewWebhookDestinationConfig, Get
<1>2. PICK headers : headers = getBatchHeaders(config, direction, encoding)
  OBVIOUS
<1>3. /\ \A name \in {"x-block-stream-from-block", "x-block-stream-to-block"} :
           name \in DOMAIN headers /\ headers[name] = "of the sink"
      /\ config.rollbackBeforeResend =>
           /\ "x-block-stream-direction" \in DOMAIN headers
           /\ headers["x-block-stream-direction"] = direction
      /\ "content-encoding" \in DOMAIN headers <=> encoding # ""
      /\ encoding # "" => headers["content-encoding"] = encoding
  <2>1. /\ {"x-block-stream-from-block", "x-block-stream-to-block"} \subseteq DOMAIN headers
        /\ config.rollbackBeforeResend => "x-block-stream-direction" \in DOMAIN headers
        /\ "content-encoding" \in DOMAIN headers <=> encoding # ""
    BY <1>2 DEF getBatchHeaders
  <2>2. \A name \in DOMAIN headers :
          headers[name] = CASE name = "x-block-stream-direction" -> direction
                            [] name = "content-encoding" -> encoding
                            [] OTHER -> "of the sink"
    BY <1>2 DEF getBatchHeaders
  <2> QED BY <2>1, <2>2
<1>4. \A name \in {"x-block-stream-from-block", "x-block-stream-to-block",
                   "content-encoding", "x-block-stream-direction"} :
        HeaderValues(name, headers, config.headers) =
          IF name \in DOMAIN headers THEN {headers[name]} ELSE {}
  BY SinksHeaders DEF blacklistedHeaders
<1>5. \A name, value :
        Own(config, direction, encoding, name, value) <=>
          HeaderValues(name, headers, config.headers) = {value}
  BY <1>2 DEF Own
<1>6. /\ Own(config, direction, encoding, "x-block-stream-from-block", "of the sink")
      /\ Own(config, direction, encoding, "x-block-stream-to-block", "of the sink")
  BY <1>3, <1>4, <1>5
<1>7. encoding # "" => Own(config, direction, encoding, "content-encoding", encoding)
  BY <1>3, <1>4, <1>5
<1>8. encoding = "" => HeaderValues("content-encoding", headers, config.headers) = {}
  BY <1>3, <1>4
<1>9. ReorgActionOf(s) = "ROLLBACK_AND_RESEND" =>
        Own(config, direction, encoding, "x-block-stream-direction", direction)
  BY <1>1, <1>3, <1>4, <1>5
<1> QED BY <1>2, <1>6, <1>7, <1>8, <1>9

\* A hook that loaded the stream, and one that built its destination, are behind
\* every run of the pipeline: both parsers have accepted the configuration.
LEMMA BothHaveParsed ==
  ASSUME Inv, phase = "run", stream.destinationType = "webhook"
  PROVE  ValidSinkConfig(stream.config) /\ ValidWebhookConfig(stream.config)
<1>1. "Runner" \in built /\ started = Len(hooks)
  BY DEF Inv, AllWanted, Phases
<1>2. Passed("StreamConfig") /\ Passed("BatchSender")
  <2>1. {"StreamConfig", "BatchSender"} \subseteq built \ Hookless
    BY <1>1, UsesFacts DEF Inv, Wired, Hookless
  <2> QED BY <1>1, <2>1 DEF Inv, Wired, Passed
<1> QED BY <1>2 DEF Inv, Loaded, HasDestination

\* Whatever the configuration is that both parsers accept, and whatever headers the
\* customer has added: a receiver can tell which blocks it gets, how they are
\* encoded and, when blocks may be rolled back, in which direction.
THEOREM ReceiverIsTold == Spec => []ReceiverIsToldWhatItGets
<1>1. Inv => ReceiverIsToldWhatItGets
  BY BothHaveParsed, Told DEF ReceiverIsToldWhatItGets
<1> QED BY <1>1, InvHolds, PTL
=============================================================================
