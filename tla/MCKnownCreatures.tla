-------------------------- MODULE MCKnownCreatures --------------------------
(* Instances of KnownCreatures: the player's own ID and a few others that   *)
(* are interchangeable.                                                     *)
EXTENDS KnownCreatures, TLC

CONSTANTS cr1, cr2  \* creatures other than the player

MCCreatures == {Self, cr1, cr2}
MCSymmetry == Permutations({cr1, cr2})
=============================================================================
