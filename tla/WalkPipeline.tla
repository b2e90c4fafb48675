---------------------------- MODULE WalkPipeline ----------------------------
(* A walk from the key press to the report of its answer.                   *)
(*                                                                         *)
(* The game thread numbers a key press and posts an intent.  The worker     *)
(* drains intents, sends a walk command for each and notes it in the        *)
(* ledger.  The server keeps at most one walk per player on its to-do list: *)
(* it moves the player, refuses with a snapback, drops the walk for a newer *)
(* one with a snapback, or -- when the player was displaced out of reach --  *)
(* gives it up without a word.  The worker reads what arrives in passes: a  *)
(* snapback is noted at once, a move changes the mirrored world and is      *)
(* noted when the pass is over and the mirror is compared with the view.    *)
EXTENDS MovementLedger, FiniteSets

CONSTANTS
    MaxWalks,       \* bound on the key presses
    Disturbances,   \* bound on displacements, snapbacks of other origin and
                    \* answers that outlast the deadline
    PassLimit,      \* answers read before the view is compared: at most 8 reads
    SlowLink        \* an answer may take longer than the three seconds

ASSUME BoundsAssumption ==
    /\ MaxWalks \in Nat /\ Disturbances \in Nat /\ PassLimit \in Nat \ {0}
    /\ SlowLink \in BOOLEAN /\ Fields # {}

VARIABLES
    presses,    \* NextInputId: key presses so far
    intents,    \* Intents: posted and not yet drained, <<input, step>>
    ledger,     \* Ledger
    inputFor,   \* InputForRequest: pairs <<request, input>>
    mirror,     \* the local player's field in WorldState
    shown,      \* the local player's field in the WorldView
    wpc,        \* where the worker is in its loop
    read,       \* answers read in this pass
    up,         \* walk commands on their way, <<request, step>>
    down,       \* answers on their way
    pos,        \* the player's field on the server
    todo,       \* TDGo on the to-do list: <<>> or <<[id, dest]>>
    troubles,   \* disturbances so far
    batched,    \* some pass has read more than one answer
    reports,    \* what the worker reported, in order
    truth       \* what the server did with each request

client  == <<presses, intents, ledger, inputFor, mirror, shown, wpc, read, batched,
             reports>>
server  == <<pos, todo, troubles, truth>>
vars    == <<client, up, down, server>>

Requests == 1..MaxWalks
Moved(id, to) == [kind |-> "move", id |-> id, to |-> to]
Snap(id)      == [kind |-> "snapback", id |-> id, to |-> <<>>]

Init ==
    /\ presses = 0 /\ intents = <<>> /\ ledger = EmptyLedger /\ inputFor = {}
    /\ pos \in Fields /\ mirror = pos /\ shown = pos
    /\ wpc = "drain" /\ read = 0 /\ batched = FALSE /\ up = <<>> /\ down = <<>>
    /\ todo = <<>> /\ troubles = 0 /\ reports = <<>>
    /\ truth = [r \in Requests |-> "open"]

----------------------------------------------------------------------------
(* The client.                                                              *)

RequestWalk(step) ==
    /\ presses < MaxWalks
    /\ presses' = presses + 1
    /\ intents' = Append(intents, <<presses + 1, step>>)
    /\ UNCHANGED <<ledger, inputFor, mirror, shown, wpc, read, batched, up, down,
                   reports, server>>

Draining == wpc \in {"drain", "drainAgain"}

(* One turn of the loop of DrainIntents.                                    *)
SendWalk ==
    /\ Draining /\ intents # <<>>
    /\ LET input == Head(intents)[1]
           step  == Head(intents)[2]
           id    == ledger.requested + 1
       IN  /\ ledger' = NoteRequestSent(ledger, step)
           /\ up' = Append(up, <<id, step>>)
           /\ inputFor' = inputFor \cup {<<id, input>>}
    /\ intents' = Tail(intents)
    /\ UNCHANGED <<presses, mirror, shown, wpc, read, batched, down, reports, server>>

(* TakeInputFor: looked up once and forgotten; 0 when there is none.        *)
InputOf(id) == IF \E p \in inputFor : p[1] = id
               THEN (CHOOSE p \in inputFor : p[1] = id)[2] ELSE 0
TakeInputFor(id) == inputFor' = {p \in inputFor : p[1] # id}

Report(kind, id, input, cause) ==
    reports' = Append(reports, [kind |-> kind, id |-> id, input |-> input, cause |-> cause])

(* The end of DrainIntents: the requests older than the deadline go.        *)
DrainEnds ==
    /\ Draining /\ intents = <<>>
    /\ ledger' = ExpireBefore(ledger)
    /\ IF ledger'.unanswered > ledger.unanswered
       THEN Report("WalkUnanswered", 0, 0, 0) ELSE UNCHANGED reports
    /\ wpc' = IF wpc = "drain" THEN "read" ELSE "drain"
    /\ read' = 0
    /\ UNCHANGED <<presses, intents, inputFor, mirror, shown, batched, up, down, server>>

(* ProcessPayload of a move that names this client's creature.              *)
ReadMove ==
    /\ wpc = "read" /\ read < PassLimit /\ down # <<>> /\ Head(down).kind = "move"
    /\ mirror' = Head(down).to /\ down' = Tail(down)
    /\ read' = read + 1 /\ batched' = (batched \/ read > 0)
    /\ UNCHANGED <<presses, intents, ledger, inputFor, shown, wpc, up, reports, server>>

(* ProcessPayload of a snapback: noted while the pass is still running.     *)
ReadSnapback ==
    /\ wpc = "read" /\ read < PassLimit /\ down # <<>> /\ Head(down).kind = "snapback"
    /\ LET id == IF ledger.pending = <<>> THEN 0 ELSE Oldest(ledger).id
       IN  /\ Report("WalkRejected", id, InputOf(id), Head(down).id)
           /\ TakeInputFor(id)
    /\ ledger' = NoteSnapback(ledger)
    /\ down' = Tail(down)
    /\ read' = read + 1 /\ batched' = (batched \/ read > 0)
    /\ UNCHANGED <<presses, intents, mirror, shown, wpc, up, server>>

(* A read that timed out, or the last one of the pass.                      *)
PassEnds ==
    /\ wpc = "read" /\ wpc' = "publish"
    /\ UNCHANGED <<presses, intents, ledger, inputFor, mirror, shown, read, batched, up, down,
                   reports, server>>

BugOnlyOwnStepsShown ==
    /\ wpc = "publish" /\ wpc' = "drainAgain"
    /\ ledger' = NoteLocalMove(ledger, shown, mirror)
    /\ shown' = IF IsOwnStep(ledger, shown, mirror) THEN mirror ELSE shown
    /\ UNCHANGED <<presses, intents, inputFor, mirror, read, batched, up, down, reports, server>>

(* PublishWorldEvents and ClassifyLocalMove: one move, from where the view  *)
(* last saw the player to where the mirror has them now.                    *)
PublishWorldEvents ==
    /\ wpc = "publish" /\ wpc' = "drainAgain"
    /\ ledger' = NoteLocalMove(ledger, shown, mirror)
    /\ shown' = mirror
    /\ IF shown = mirror
       THEN UNCHANGED <<reports, inputFor>>
       ELSE IF IsOwnStep(ledger, shown, mirror)
            THEN LET id == Oldest(ledger).id
                 IN  Report("WalkAccepted", id, InputOf(id), 0) /\ TakeInputFor(id)
            ELSE Report("ExternalRelocation", 0, 0, 0) /\ UNCHANGED inputFor
    /\ UNCHANGED <<presses, intents, mirror, read, batched, up, down, server>>

(* The clock passes the deadline of the oldest request that is not late.    *)
AnswerUnderway(id) ==
    \/ \E i \in 1..Len(up) : up[i][1] = id
    \/ \E i \in 1..Len(todo) : todo[i].id = id
    \/ \E i \in 1..Len(down) : down[i].id = id
    \/ wpc \in {"read", "publish"} /\ truth[id] \in {"moved", "astray"} /\ shown # mirror

RequestAges ==
    \E i \in 1..Len(ledger.pending) :
        /\ ~ledger.pending[i].late
        /\ \A j \in 1..i - 1 : ledger.pending[j].late
        /\ IF AnswerUnderway(ledger.pending[i].id)
           THEN SlowLink /\ troubles < Disturbances /\ troubles' = troubles + 1
           ELSE UNCHANGED troubles
        /\ ledger' = [ledger EXCEPT !.pending[i].late = TRUE]
        /\ UNCHANGED <<presses, intents, inputFor, mirror, shown, wpc, read, batched, up,
                       down, reports, pos, todo, truth>>

----------------------------------------------------------------------------
(* The server, one player.                                                  *)

Answer(msg) == down' = Append(down, msg)
Ruled(id, how) == truth' = [truth EXCEPT ![id] = how]

BugOlderWalkKept ==
    /\ up # <<>> /\ up' = Tail(up)
    /\ todo' = Append(todo, [id |-> Head(up)[1], dest |-> Apply(pos, Head(up)[2])])
    /\ UNCHANGED <<client, down, pos, troubles, truth>>

(* CGoDirection: the walk still on the list is refused, and the new one     *)
(* names its field from where the player stands now.                        *)
CGoDirection ==
    /\ up # <<>> /\ up' = Tail(up)
    /\ todo' = <<[id |-> Head(up)[1], dest |-> Apply(pos, Head(up)[2])]>>
    /\ IF todo # <<>>
       THEN Answer(Snap(todo[1].id)) /\ Ruled(todo[1].id, "refused")
       ELSE UNCHANGED <<down, truth>>
    /\ UNCHANGED <<client, pos, troubles>>

Reachable(dest) ==
    /\ dest[1] - pos[1] \in -1..1
    /\ dest[2] - pos[2] \in -1..1

(* TCreature::Go moves the player.                                          *)
GoMoves ==
    /\ todo # <<>> /\ todo' = <<>>
    /\ Reachable(todo[1].dest) /\ todo[1].dest \in Fields
    /\ pos' = todo[1].dest
    /\ Answer(Moved(todo[1].id, todo[1].dest)) /\ Ruled(todo[1].id, "moved")
    /\ UNCHANGED <<client, up, troubles>>

(* The field is not free, or another command cleared the to-do list.        *)
GoRefused ==
    /\ todo # <<>> /\ todo' = <<>>
    /\ Reachable(todo[1].dest)
    /\ Answer(Snap(todo[1].id)) /\ Ruled(todo[1].id, "refused")
    /\ UNCHANGED <<client, up, pos, troubles>>

(* A drunken player staggers, a step climbs or a field sends them on: the   *)
(* walk is spent, and ends on a field nobody asked for.                     *)
GoAstray(to) ==
    /\ troubles < Disturbances /\ troubles' = troubles + 1
    /\ todo # <<>> /\ todo' = <<>>
    /\ Reachable(todo[1].dest) /\ to \notin {pos, todo[1].dest} /\ pos' = to
    /\ Answer(Moved(todo[1].id, to)) /\ Ruled(todo[1].id, "astray")
    /\ UNCHANGED <<client, up>>

(* NOTACCESSIBLE: only a text, which the ledger does not see.               *)
GoOutOfReach ==
    /\ todo # <<>> /\ todo' = <<>>
    /\ ~Reachable(todo[1].dest)
    /\ Ruled(todo[1].id, "silent")
    /\ UNCHANGED <<client, up, down, pos, troubles>>

(* Another creature walks into the player, or magic moves them.             *)
Displaced(to) ==
    /\ troubles < Disturbances /\ troubles' = troubles + 1
    /\ to # pos /\ pos' = to /\ Answer(Moved(0, to))
    /\ UNCHANGED <<client, up, todo, truth>>

(* A refusal of some other command that carries a snapback.                 *)
StraySnapback ==
    /\ troubles < Disturbances /\ troubles' = troubles + 1
    /\ Answer(Snap(0))
    /\ UNCHANGED <<client, up, pos, todo, truth>>

----------------------------------------------------------------------------
PlayerStep   == \E s \in Steps : RequestWalk(s)
WorkerStep   == \/ SendWalk \/ DrainEnds \/ ReadMove \/ ReadSnapback \/ PassEnds
                \/ PublishWorldEvents
ServerStep   == CGoDirection \/ GoMoves \/ GoRefused \/ GoOutOfReach
Trouble      == StraySnapback \/ \E f \in Fields : Displaced(f) \/ GoAstray(f)

Next == PlayerStep \/ WorkerStep \/ RequestAges \/ ServerStep \/ Trouble

Spec == Init /\ [][Next]_vars

(* The worker loops for as long as the session lives, a message that is     *)
(* there is read in some pass, and the server works its to-do list off.     *)
Fairness == /\ WF_vars(WorkerStep) /\ SF_vars(ReadMove) /\ SF_vars(ReadSnapback)
            /\ WF_vars(ServerStep) /\ WF_vars(RequestAges)

FairSpec == Spec /\ Fairness

----------------------------------------------------------------------------
(* Properties.                                                              *)

Kinds == {"WalkRejected", "WalkAccepted", "ExternalRelocation", "WalkUnanswered"}

TypeOK ==
    /\ presses \in 0..MaxWalks /\ intents \in Seq((1..MaxWalks) \X Steps)
    /\ ledger \in Ledger
    /\ up \in Seq(Requests \X Steps)
    /\ down \in Seq([kind: {"move", "snapback"}, id: 0..MaxWalks, to: Fields \cup {<<>>}])
    /\ reports \in Seq([kind: Kinds, id: 0..MaxWalks, input: 0..MaxWalks, cause: 0..MaxWalks])
    /\ inputFor \subseteq (1..MaxWalks) \X (1..MaxWalks)
    /\ mirror \in Fields /\ shown \in Fields /\ pos \in Fields
    /\ wpc \in {"drain", "read", "publish", "drainAgain"} /\ read \in 0..PassLimit
    /\ troubles \in 0..Disturbances /\ Len(todo) <= 1
    /\ truth \in [Requests -> {"open", "moved", "refused", "silent", "astray"}]

(* The counters the journal is read by account for every walk that was      *)
(* sent: each is accepted, refused, given up or still outstanding, and only *)
(* refusals can exceed what was asked for.                                  *)
LedgerBalances ==
    LET settled == ledger.accepted + ledger.unanswered + Len(ledger.pending)
    IN  settled <= ledger.requested /\ ledger.requested <= settled + ledger.rejected

(* Requests are answered in the order they were made and at most once, and  *)
(* a report that names a request names the key press it came from.          *)
Naming == {i \in 1..Len(reports) : reports[i].id # 0}
ReportsInOrder ==
    /\ \A i, j \in Naming : i < j => reports[i].id < reports[j].id
    /\ \A i \in Naming : reports[i].input = reports[i].id

(* Undisturbed, and with a view compared after every answer, the ledger     *)
(* tells the truth: every report is about the request the server ruled on,  *)
(* and says what it ruled.                                                  *)
ReportsAreTrue ==
    troubles = 0 /\ ~batched =>
        \A i \in 1..Len(reports) :
            \/ /\ reports[i].kind = "WalkAccepted" /\ truth[reports[i].id] = "moved"
            \/ /\ reports[i].kind = "WalkRejected" /\ truth[reports[i].cause] = "refused"
               /\ reports[i].id = reports[i].cause

(* "Records a refusal, and says which request it answered": the request a   *)
(* WalkRejected names is the one the server refused.                        *)
RefusalNamesItsRequest ==
    \A i \in 1..Len(reports) :
        reports[i].kind = "WalkRejected" => reports[i].id = reports[i].cause

(* "A reply that never comes must not be allowed to claim a later move":    *)
(* no walk the server gave up in silence is reported as accepted.           *)
SilenceClaimsNothing ==
    \A i \in 1..Len(reports) :
        reports[i].kind = "WalkAccepted" => truth[reports[i].id] # "silent"

(* The picture follows the server: when nothing is in flight and a pass is  *)
(* over, the player is drawn where the server has them.                     *)
ViewCatchesUp == down = <<>> /\ wpc \in {"drainAgain", "drain"} => shown = pos

(* A walk is not outstanding for ever, whatever became of it.               *)
WalksAreSettled ==
    \A r \in Requests :
        (\E i \in 1..Len(ledger.pending) : ledger.pending[i].id = r)
            ~> ~(\E i \in 1..Len(ledger.pending) : ledger.pending[i].id = r)

============================================================================
