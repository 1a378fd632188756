------------------------------- MODULE Selection -------------------------------
(***************************************************************************)
(* What a selection rests on: the model registry, which this module        *)
(* extends; the picks of the scheduler from credentials with every kind of *)
(* hold; and the turns that credentials take there.  "part" says which of  *)
(* them takes steps.  The scheduler comes with what is proved about it.    *)
(***************************************************************************)
EXTENDS ModelRegistry

CONSTANTS
    PickAuths, PickSnapshots, PickTime,    \* of Scheduler, for the picks
    TurnAuths, TurnSnapshots, TurnTime,    \* and for the turns
    Routes, Mixed

VARIABLES part,
    clock, strategy, owner, metas, shards, mixedCursor, turn

schedulerVars == <<clock, strategy, owner, metas, shards, mixedCursor, turn>>

Picks == INSTANCE SchedulerProofs WITH
    Auths <- PickAuths, Providers <- Routes, Snapshots <- PickSnapshots,
    MaxTime <- PickTime, now <- clock

Turns == INSTANCE SchedulerProofs WITH
    Auths <- TurnAuths, Providers <- Routes, Snapshots <- TurnSnapshots,
    MaxTime <- TurnTime, now <- clock

\* Numbered credentials, times that count from zero, and all the routes mixed.
ASSUME PicksSound == Picks!SchedulerSound

\* The same for the turns, with each route named once.
ASSUME RotationSound == Turns!TurnsSound

-----------------------------------------------------------------------------
\* The indexes and the picks of the scheduler; see Scheduler.  CountsExact and
\* CacheFresh are the registry's own.
IndexesConsistent == part = "picks" => Picks!IndexesConsistent
PickIsBest        == part = "picks" => Picks!PickIsBest
FairTurns         == part = "turns" => Turns!FairTurns
=============================================================================
