------------------------------- MODULE Stream -------------------------------
(* What each direction of a game connection promises: the items put in come *)
(* out once, in the order they went in, until the connection is cut; after  *)
(* a cut nothing more goes in and the tail that has not come out is lost.   *)
(* How many items one step moves is left open: the game service's packets   *)
(* and the chunks of a transmission buffer are both streams.                *)
EXTENDS Naturals, Sequences

VARIABLES queue,    \* what has gone in and has not come out
          out,      \* what has come out, oldest first
          open      \* FALSE once the connection is being given up

vars == <<queue, out, open>>

Prefix(s, t) == /\ Len(s) <= Len(t)
                /\ s = SubSeq(t, 1, Len(s))

Init == /\ queue = <<>>
        /\ out = <<>>
        /\ open = TRUE

Put == /\ open
       /\ Prefix(queue, queue')
       /\ UNCHANGED <<out, open>>

Take == /\ \E n \in 1..Len(queue) :
               /\ out' = out \o SubSeq(queue, 1, n)
               /\ queue' = SubSeq(queue, n + 1, Len(queue))
        /\ UNCHANGED open

Cut == /\ open' = FALSE
       /\ Prefix(queue', queue)
       /\ UNCHANGED out

Next == Put \/ Take \/ Cut

Spec == Init /\ [][Next]_vars
=============================================================================
