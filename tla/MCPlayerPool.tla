---------------------------- MODULE MCPlayerPool ----------------------------
(* Two connections and two characters over a pool of one or two slots.       *)
EXTENDS PlayerPool

CONSTANTS ch1, ch2, c1, c2, s1, s2

OneSlot == {s1}
TwoSlots == {s1, s2}
MCCharacters == {ch1, ch2}
MCConns == {c1, c2}
=============================================================================
