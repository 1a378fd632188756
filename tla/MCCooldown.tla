---------------------------- MODULE MCCooldown ----------------------------
(* Instances of Cooldown for TLC: durations in clock ticks.                *)
EXTENDS Cooldown, TLC

CONSTANTS m1, m2

\* Enough to hold two models for different reasons.
MCTwoModels == Models \X {"success", "quota", "unauthorized"}
\* Two models that are free, held for a shorter or a longer time, or
\* unavailable without a deadline; every outcome for the credential itself.
MCAggregate ==
    (Models \X {"success", "transient", "unauthorized", "other"})
    \cup ({NoModel} \X (Failures \cup {"success"}))
MCSymmetry == Permutations(Models)
=============================================================================
