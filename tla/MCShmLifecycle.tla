--------------------------- MODULE MCShmLifecycle ---------------------------
(* ShmLifecycle with a few processes for TLC. *)
EXTENDS ShmLifecycle

World(overlap, faults) == [overlap |-> overlap, faults |-> faults]

\* An orderly world, one in which producers race and every system call may fail,
\* and one in which the pids of the killed are found alive.
ThreeWorlds ==
  { World("none", {"create"}), World("any", {"open", "create"}), World("none", {"reuse"}) }

\* Two producers are started at the same time, and nothing fails.
StartRace == { World("any", {}) }

\* A producer is started before the one that was stopped has ended.
RestartRace == { World("restart", {}) }

=============================================================================
