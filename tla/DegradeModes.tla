---------------------------- MODULE DegradeModes ----------------------------
(***************************************************************************)
(* common/degrade/degrade.go: the modes, their order and the serving       *)
(* matrix every handler and the cache manager consult.                     *)
(***************************************************************************)
EXTENDS Naturals

ModeNormal == 0
ModeDegraded == 1
ModeProtected == 2
ModeEmergency == 3

Modes == {ModeNormal, ModeDegraded, ModeProtected, ModeEmergency}

\* Mode.Severity; the ordinal of a value that is not a mode counts as 0.
Severity(m) == IF m \in Modes THEN m ELSE 0

LevelDisplay == 1
LevelAuth == 2
LevelWrite == 3

Levels == {LevelDisplay, LevelAuth, LevelWrite}

CanServe(m, level) ==
    \/ m = ModeNormal
    \/ m \in {ModeDegraded, ModeProtected} /\ level \in {LevelDisplay, LevelAuth}
    \/ m = ModeEmergency /\ level = LevelAuth
=============================================================================
