-------------------------- MODULE MCServiceOutage --------------------------
(* Instances of ServiceOutage: the agent alone, the agent beside one CLI,  *)
(* and the CLI's nested blocks.                                            *)
EXTENDS ServiceOutage

CONSTANTS watcher, display

NoFaults == [f \in Fault |-> 0]

\* One agent job: klipper, then the port watcher (and a third unit).
AgentOutages == [p \in Proc |-> <<<<Klipper, watcher>>>>]
LongOutages == [p \in Proc |-> <<<<Klipper, watcher, display>>>>]
AgentFaults == [NoFaults EXCEPT !["crash"] = 2, !["stop"] = 2]

\* The CLI's update-all wraps the batch's own stop; both ask for the same units
\* when the PlatformIO families keep their default and every unit is known.
PairOutages ==
    [p \in Proc |-> IF p = Agent THEN <<<<Klipper, watcher>>>>
                    ELSE <<<<Klipper, watcher>>, <<Klipper, watcher>>>>]
PairFaults == [f \in Fault |-> 1]
=============================================================================
