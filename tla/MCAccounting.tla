---------------------------- MODULE MCAccounting ----------------------------
(***************************************************************************)
(* Model checking Accounting: destinations that fail, under each way to    *)
(* retry, and the faults of commits, attempts and processes, under one.    *)
(***************************************************************************)
EXTENDS Accounting

MakeScenario(strategy, attempts, sends, commits, failures, restarts, ticks) ==
  [retryStrategy |-> strategy, retryAttempts |-> attempts, retryDelay |-> 1, sends |-> sends,
   commits |-> commits, failures |-> failures, restarts |-> restarts, ticks |-> ticks]

\* Retries in each strategy, and no attempts at all; commits that fail before a
\* restart, alone or next to a failed send; attempts that overlap, also when a batch
\* was given up and the process restarted.
SomeScenarios ==
  {MakeScenario(strategy, 3, 3, 0, 0, 0, 4) : strategy \in RetryStrategies}
    \cup {MakeScenario("fixed", 0, 0, 0, 0, 0, 1),
          MakeScenario("fixed", 2, 1, 1, 0, 1, 1),
          MakeScenario("fixed", 1, 0, 1, 0, 1, 2),
          MakeScenario("fixed", 2, 0, 0, 1, 0, 3),
          MakeScenario("fixed", 1, 1, 0, 1, 1, 1)}
=============================================================================
