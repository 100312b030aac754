--------------------------- MODULE MCJobLifecycle ---------------------------
\* Small instances of JobLifecycle for TLC.
EXTENDS JobLifecycle, TLC

\* All jobs belong to the first agent of the instance.
SoleAgent == [j \in Jobs |-> CHOOSE a \in Agents : TRUE]

\* What no step reads, the history and the columns completed_at, is left out of
\* the states that a run without a property of it tells apart.
WithoutHistory ==
  <<[k \in Jobs |-> <<job[k].status, job[k].attempt>>],
    [k \in Jobs |-> IF retry[k] = Nobody THEN Nobody ELSE <<retry[k].pc, retry[k].status>>],
    agent, queue, request, creating, kill, registry, worker>>

Symmetry == Permutations(Workers)
=============================================================================
