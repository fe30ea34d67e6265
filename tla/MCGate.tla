------------------------------- MODULE MCGate -------------------------------
(* Instances of Gate for TLC.  One permit is two units, so that a weight of  *)
(* half a permit exists.                                                     *)
EXTENDS Gate

\* Main and vision requests of a whole and of half a permit.
MCRequests == 1..4
MCWeight == <<2, 1, 2, 1>>
MCIntention == <<"main", "main", "vision", "vision">>

\* The breaker's runs: three whole permits.
MCThree == 1..3
MCThreeWeight == <<2, 2, 2>>
MCThreeIntention == <<"main", "main", "vision">>

\* The patient run: equal weights within an intention, and enough light vision
\* requests to fill the gate.
MCSix == 1..6
MCSixWeight == <<2, 2, 1, 1, 1, 1>>
MCSixIntention == <<"main", "main", "vision", "vision", "vision", "vision">>

MCConfig(main, vision, depth, threshold) ==
  [reservations |-> [i \in Intentions |-> IF i = "main" THEN main ELSE vision],
   maxQueueDepth |-> depth, threshold |-> threshold]

\* The breaker never opens in the semaphore's runs, and the semaphore has one
\* configuration in the breaker's.
MCSemaphoreConfigs == {MCConfig(2, 2, 2, 3), MCConfig(2, 0, 2, 3)}
MCPatientConfigs == {MCConfig(2, 2, 4, 3)}
MCBreakerConfigs == {MCConfig(2, 0, 1, 2), MCConfig(2, 0, 1, 1)}
=============================================================================
