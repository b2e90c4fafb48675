--------------------------- MODULE MovementLedger ---------------------------
(* fusion32::protocol772::MovementLedger: the walks this client has asked   *)
(* for and not yet heard about, oldest first, and what became of the rest.  *)
(* The ledger is a value; every operation maps it to the next one, and what *)
(* the operation answers is an operator of the same arguments.              *)
EXTENDS Integers, Sequences, FiniteSets

CONSTANTS
    Fields,     \* the fields of the map, <<x, y>> on one floor
    Steps       \* the step shapes asked for, as offsets

ASSUME FieldsAssumption == Fields \subseteq Int \X Int
ASSUME StepsAssumption ==
    Steps \subseteq ((-1..1) \X (-1..1)) \ {<<0, 0>>}

Apply(from, step) == <<from[1] + step[1], from[2] + step[2]>>

(* A request: its number, the step asked for, and whether it was sent       *)
(* before the deadline ExpireBefore is called with.                         *)
Request == [id: Nat \ {0}, step: Steps, late: BOOLEAN]
Ledger  == [pending: Seq(Request), requested: Nat, accepted: Nat, rejected: Nat,
            external: Nat, unanswered: Nat]

EmptyLedger == [pending |-> <<>>, requested |-> 0, accepted |-> 0, rejected |-> 0,
                external |-> 0, unanswered |-> 0]

(* next_id_ and counts_.requested move together.                            *)
NoteRequestSent(l, step) ==
    [l EXCEPT !.requested = @ + 1,
              !.pending = Append(@, [id |-> l.requested + 1, step |-> step, late |-> FALSE])]

Oldest(l) == Head(l.pending)

(* The oldest outstanding walk asked for exactly this step.                 *)
IsOwnStep(l, from, to) == l.pending # <<>> /\ Apply(from, Oldest(l).step) = to

(* The definitions named Bug... are plausible mistakes in the operator they  *)
(* stand before; nothing uses them.                                         *)
BugPushConsumes(l, from, to) ==
    IF from = to THEN l
    ELSE IF IsOwnStep(l, from, to)
         THEN [l EXCEPT !.accepted = @ + 1, !.pending = Tail(@)]
         ELSE [l EXCEPT !.external = @ + 1,
                        !.pending = IF @ = <<>> THEN @ ELSE Tail(@)]

(* A move that does not move changes nothing, and a push does not consume   *)
(* the request it interrupts.                                               *)
NoteLocalMove(l, from, to) ==
    IF from = to THEN l
    ELSE IF IsOwnStep(l, from, to)
         THEN [l EXCEPT !.accepted = @ + 1, !.pending = Tail(@)]
         ELSE [l EXCEPT !.external = @ + 1]

BugRefusalStays(l) == [l EXCEPT !.rejected = @ + 1]

BugNewestRefused(l) ==
    [l EXCEPT !.rejected = @ + 1,
              !.pending = IF @ = <<>> THEN @ ELSE SubSeq(@, 1, Len(@) - 1)]

NoteSnapback(l) ==
    [l EXCEPT !.rejected = @ + 1,
              !.pending = IF @ = <<>> THEN @ ELSE Tail(@)]

(* ExpireBefore drops from the front while the front is late.               *)
LateFront(l) == {n \in 1..Len(l.pending) : \A i \in 1..n : l.pending[i].late}
Expired(l) == Cardinality(LateFront(l))

BugNeverExpires(l) == l

ExpireBefore(l) ==
    [l EXCEPT !.unanswered = @ + Expired(l),
              !.pending = SubSeq(@, Expired(l) + 1, Len(@))]

============================================================================
