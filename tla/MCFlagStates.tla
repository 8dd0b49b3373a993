---------------------------- MODULE MCFlagStates ----------------------------
EXTENDS FlagStates, TLC

\* Bodies of which one edits the config and sets a time to enable, the other
\* toggles and sets a time to disable.
MCPatches == {[config |-> 1, enableAt |-> 1], [enabled |-> TRUE, disableAt |-> 1]}

MCPayload == [enabled |-> TRUE, config |-> None, variants |-> 1,
              enableAt |-> None, disableAt |-> None]

\* Nothing tells requests, schedulers or environments apart; used where no
\* liveness is checked.
MCSymmetry == Permutations(Requests) \cup Permutations(Schedulers) \cup Permutations(Envs)
=============================================================================
