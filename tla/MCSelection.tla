----------------------------- MODULE MCSelection -----------------------------
(***************************************************************************)
(* Small instances of what a selection rests on: the model registry        *)
(* itself, the scheduler with every kind of snapshot of two credentials,   *)
(* and the rotation of three credentials that are ready or held.  "part"   *)
(* says which of them takes steps.                                         *)
(***************************************************************************)
EXTENDS Selection, TLC

CONSTANTS Parts, c1, c2, v1, v2, m1, r1, r2

Snapshot(priority, ws, next, recover) ==
    [supports |-> TRUE, priority |-> priority, ws |-> ws, next |-> next,
     recover |-> recover, exceeded |-> recover # 0]

\* Holds of every kind for credentials of one priority and of two: none, a
\* plain one, one for quota, and a short one inside a quota window; and a
\* credential the registry does not have the model for.
MCHolds ==
    {Snapshot(0, FALSE, 0, 0), Snapshot(1, TRUE, 0, 0),
     Snapshot(0, FALSE, 1, 0), Snapshot(1, FALSE, 2, 2),
     Snapshot(0, FALSE, 1, 2),
     [Snapshot(0, FALSE, 0, 0) EXCEPT !.supports = FALSE]}

\* Enough to disturb a rotation: ready and held.
MCRotation == {Snapshot(0, FALSE, 0, 0), Snapshot(0, FALSE, 1, 0)}

MCPair      == {1, 2}
MCTriple    == {1, 2, 3}
MCRoutes    == {"p1", "p2"}
MCMixed     == <<"p1", "p2">>

MCVars == <<part, vars, schedulerVars>>

\* Only the part that takes steps starts in more than one way.
MCInit ==
    /\ part \in Parts
    /\ Init
    /\ IF part = "turns" THEN Turns!Init ELSE Picks!Init
    /\ part = "registry" => strategy = "fill-first"

MCNext ==
    \/ part = "registry" /\ Next       /\ UNCHANGED <<part, schedulerVars>>
    \/ part = "picks"    /\ Picks!Next /\ UNCHANGED <<part, vars>>
    \/ part = "turns"    /\ Turns!Next /\ UNCHANGED <<part, vars>>

MCSpec == MCInit /\ [][MCNext]_MCVars

\* Fill first takes no turns: the rotations are not followed through it.  The
\* third credential is one of the first provider.
MCTurning == part = "turns" => strategy = "round-robin" /\ owner[3] # "p2"

MCSymmetry == Permutations(Clients) \cup Permutations(Providers)
=============================================================================
