------------------------- MODULE CharacterOwnership -------------------------
(* What the game service promises about a character: it is in the world at   *)
(* most once, at most one connection speaks for it, a connection speaks for  *)
(* at most one character, whoever brings it back into the world finds it as  *)
(* it was when it last left, and its things with it.  The one exception is   *)
(* part of the promise: where a character that fell leaves the world, its    *)
(* things may be lost, and so may those of one other that is away.           *)
EXTENDS Naturals

CONSTANTS Characters, Conns, Nobody

VARIABLES world,    \* the characters in the world
          fallen,   \* those of them who died
          owner,    \* the connection that speaks for each, or Nobody
          kept,     \* how often each has left: what its stored data records
          played,   \* the stored data it came back with, while in the world
          things    \* the stored things: "own", "none" or "spoiled"

vars == <<world, fallen, owner, kept, played, things>>

Init == /\ world = {}
        /\ fallen = {}
        /\ owner = [ch \in Characters |-> Nobody]
        /\ kept = [ch \in Characters |-> 0]
        /\ played = [ch \in Characters |-> 0]
        /\ things = [ch \in Characters |-> "own"]

Unbound(c) == \A ch \in Characters : owner[ch] # c

Enter(ch, c) == /\ ch \notin world
                /\ Unbound(c)
                /\ world' = world \cup {ch}
                /\ owner' = [owner EXCEPT ![ch] = c]
                /\ UNCHANGED <<fallen, kept, played, things>>

TakeOver(ch, c) == /\ ch \in world \ fallen
                   /\ Unbound(c)
                   /\ owner' = [owner EXCEPT ![ch] = c]
                   /\ UNCHANGED <<world, fallen, kept, played, things>>

Lose(ch) == /\ ch \in world
            /\ owner' = [owner EXCEPT ![ch] = Nobody]
            /\ UNCHANGED <<world, fallen, kept, played, things>>

Fall(ch) == /\ ch \in world
            /\ fallen' = fallen \cup {ch}
            /\ UNCHANGED <<world, owner, kept, played, things>>

\* The things of one who fell are put away after everything else.
Store(ch) == /\ ch \in world
             /\ kept[ch] = played[ch]
             /\ kept' = [kept EXCEPT ![ch] = @ + 1]
             /\ things' = [things EXCEPT ![ch] = IF ch \in fallen THEN "none" ELSE "own"]
             /\ UNCHANGED <<world, fallen, owner, played>>

PutAway(ch) == things' = [things EXCEPT ![ch] = "own"]
Spoil(ch) == \E other \in {ch} \cup (Characters \ world) :
                things' = [x \in Characters |-> IF x \in {ch, other} THEN "spoiled"
                                                ELSE things[x]]

Leave(ch) == /\ ch \in world
             /\ kept[ch] = played[ch] + 1
             /\ world' = world \ {ch}
             /\ fallen' = fallen \ {ch}
             /\ owner' = [owner EXCEPT ![ch] = Nobody]
             /\ played' = [played EXCEPT ![ch] = kept[ch]]
             /\ \/ UNCHANGED things
                \/ ch \in fallen /\ (PutAway(ch) \/ Spoil(ch))
             /\ UNCHANGED kept

Next == \E ch \in Characters :
           \/ \E c \in Conns : Enter(ch, c) \/ TakeOver(ch, c)
           \/ Lose(ch) \/ Fall(ch) \/ Store(ch) \/ Leave(ch)

Spec == Init /\ [][Next]_vars
=============================================================================
