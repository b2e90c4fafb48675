--------------------------- MODULE OwnershipProofs ---------------------------
(* Proofs about what the pool keeps of a character: the query manager's      *)
(* count of its logins, its data, and that it is owned once and comes back   *)
(* with what it left with.                                                   *)
EXTENDS PlayerPoolProofs

-----------------------------------------------------------------------------
(* The query manager's count.                                                *)

\* What is proved of the pool in PlayerPoolProofs.
PoolInv == VoiceInv /\ InOrder

LEMMA InitPool == Init => PoolInv
  BY InitVoice, InitSlots DEF PoolInv, InOrder

LEMMA StepPool == PoolInv /\ [Next]_vars => PoolInv'
  BY StepVoice, StepInOrder DEF PoolInv

\* The logins of a character on their way, and its player.
LoggingIn(ch) == {c \in Conns : /\ conns[c].state \in {"CONNECTED", "LOGIN"}
                                /\ conns[c].who = ch}
Here(ch) == IF Player(ch).there /\ ~Leaving(ch) THEN 1 ELSE 0

OnlineInv ==
    /\ isOnline \in [Characters -> Int]
    /\ \A ch \in Characters : isOnline[ch] >= Cardinality(LoggingIn(ch)) + Here(ch)

LEMMA OnlineFacts ==
    ASSUME NEW ch \in Characters
    PROVE  /\ IsFiniteSet(LoggingIn(ch)) /\ Cardinality(LoggingIn(ch)) \in Nat
           /\ Here(ch) \in Nat
           /\ OnlineInv => /\ isOnline[ch] \in Int
                           /\ isOnline[ch] >= Cardinality(LoggingIn(ch)) + Here(ch)
<1>1. LoggingIn(ch) \in SUBSET Conns
  BY DEF LoggingIn
<1>2. IsFiniteSet(LoggingIn(ch))
  BY <1>1, TableAssumption, FS_Subset
<1>3. OnlineInv => isOnline[ch] \in Int
  BY DEF OnlineInv
<1>4. OnlineInv => isOnline[ch] >= Cardinality(LoggingIn(ch)) + Here(ch)
  BY DEF OnlineInv
<1> QED BY <1>2, <1>3, <1>4, FS_CardinalityType DEF Here

\* If the logins and the player change by no more than the count, it stays
\* enough.
LEMMA OnlineBalance ==
    ASSUME OnlineInv, NEW ch \in Characters, NEW l \in Int, NEW h \in Int,
           isOnline' \in [Characters -> Int],
           Cardinality(LoggingIn(ch)') \in Nat,
           Cardinality(LoggingIn(ch)') <= Cardinality(LoggingIn(ch)) + l,
           Here(ch)' <= Here(ch) + h, isOnline'[ch] >= isOnline[ch] + l + h
    PROVE  isOnline'[ch] >= Cardinality(LoggingIn(ch)') + Here(ch)'
<1>1. PICK L, L1, H, H1, n, n1 \in Int :
         /\ L = Cardinality(LoggingIn(ch)) /\ L1 = Cardinality(LoggingIn(ch)')
         /\ H = Here(ch) /\ H1 = Here(ch)' /\ n = isOnline[ch] /\ n1 = isOnline'[ch]
  <2>1. /\ Cardinality(LoggingIn(ch)) \in Int /\ Cardinality(LoggingIn(ch)') \in Int
        /\ isOnline[ch] \in Int /\ isOnline'[ch] \in Int
    BY OnlineFacts
  <2>2. Here(ch) \in Int /\ Here(ch)' \in Int
    BY DEF Here
  <2> HIDE DEF Here, LoggingIn
  <2> QED BY ONLY <2>1, <2>2, Zenon
<1>2. n >= L + H /\ L1 <= L + l /\ H1 <= H + h /\ n1 >= n + l + h
  BY <1>1, OnlineFacts
<1>3. n1 >= L1 + H1
  BY ONLY <1>2, l \in Int, h \in Int, SMT
<1> QED BY <1>1, <1>3

\* What a step does to the count, when it moves one connection only.
Counts(c, ch) ==
    \/ /\ isOnline'[ch] >= isOnline[ch]
       /\ c \in LoggingIn(ch)' => c \in LoggingIn(ch)
    \/ isOnline'[ch] >= isOnline[ch] + 1
    \/ /\ isOnline'[ch] >= isOnline[ch] - 1
       /\ c \in LoggingIn(ch) /\ c \notin LoggingIn(ch)'

LEMMA CountedIsEnough ==
    ASSUME OnlineInv, NEW c \in Conns, NEW ch \in Characters, Counts(c, ch),
           isOnline' \in [Characters -> Int],
           \A d \in Conns : d # c => conns'[d] = conns[d],
           UNCHANGED <<players, game>>
    PROVE  isOnline'[ch] >= Cardinality(LoggingIn(ch)') + Here(ch)'
<1> DEFINE S == LoggingIn(ch)
           T == LoggingIn(ch)'
<1>1. /\ IsFiniteSet(S) /\ isOnline[ch] \in Int /\ isOnline'[ch] \in Int
      /\ T \ {c} \subseteq S
  <2>1. IsFiniteSet(S) /\ isOnline[ch] \in Int /\ isOnline'[ch] \in Int
    BY OnlineFacts
  <2> QED BY <2>1 DEF LoggingIn
<1>2. PICK z, u, d \in Int : z = 0 /\ u = 1 /\ d = 0 - 1
  OBVIOUS
<1>3. Here(ch)' <= Here(ch) + z
  BY <1>2 DEF Here, Player, Leaving
<1>4. ASSUME NEW l \in Int, Cardinality(T) \in Nat, Cardinality(T) <= Cardinality(S) + l,
             isOnline'[ch] >= isOnline[ch] + l
      PROVE  isOnline'[ch] >= Cardinality(LoggingIn(ch)') + Here(ch)'
  <2>1. isOnline'[ch] >= isOnline[ch] + l + z
    BY <1>1, <1>2, <1>4
  <2> QED BY <1>2, <1>3, <1>4, <2>1, OnlineBalance
<1>5. CASE isOnline'[ch] >= isOnline[ch] /\ (c \in T => c \in S)
  <2>1. T \subseteq S
    BY <1>1, <1>5
  <2> HIDE DEF S, T
  <2>2. /\ Cardinality(T) \in Nat /\ Cardinality(S) \in Nat
        /\ Cardinality(T) <= Cardinality(S)
    BY <1>1, <2>1, FewerNeed
  <2>3. Cardinality(T) <= Cardinality(S) + z /\ isOnline'[ch] >= isOnline[ch] + z
    BY <1>1, <1>2, <1>5, <2>2
  <2> QED BY <1>2, <1>4, <2>2, <2>3
<1>6. CASE isOnline'[ch] >= isOnline[ch] + 1
  <2>1. T \subseteq S \cup {c}
    BY <1>1
  <2> HIDE DEF S, T
  <2>2. /\ Cardinality(T) \in Nat /\ Cardinality(T) <= Cardinality(S) + u
        /\ isOnline'[ch] >= isOnline[ch] + u
    BY <1>1, <1>2, <1>6, <2>1, OneMoreNeeds
  <2> QED BY <1>2, <1>4, <2>2
<1>7. CASE isOnline'[ch] >= isOnline[ch] - 1 /\ c \in S /\ c \notin T
  <2>1. T \subseteq S \ {c}
    BY <1>1, <1>7
  <2> HIDE DEF S, T
  <2>2. /\ Cardinality(T) \in Nat /\ Cardinality(S) \in Nat
        /\ Cardinality(T) <= Cardinality(S) - 1
    BY <1>1, <1>7, <2>1, OneLessNeeds
  <2>3. Cardinality(T) <= Cardinality(S) + d /\ isOnline'[ch] >= isOnline[ch] + d
    BY <1>1, <1>2, <1>7, <2>2
  <2> QED BY <1>2, <1>4, <2>2, <2>3
<1> QED BY <1>5, <1>6, <1>7 DEF Counts

\* The count of one character changes.
LEMMA CountChanges ==
    ASSUME isOnline \in [Characters -> Int], NEW ch \in Characters, NEW k \in Int,
           isOnline' = [isOnline EXCEPT ![ch] = @ + k]
    PROVE  /\ isOnline' \in [Characters -> Int]
           /\ isOnline'[ch] = isOnline[ch] + k
           /\ \A h \in Characters : h # ch => isOnline'[h] = isOnline[h]
  OBVIOUS

LEMMA CommLogs ==
    ASSUME VoiceInv, SlotInv, OnlineInv, NEW c \in Conns, CommunicationThread(c),
           NEW ch \in Characters
    PROVE  isOnline' \in [Characters -> Int] /\ Counts(c, ch)
<1>1. /\ conns[c].at # "idle" => conns[c].who \in Characters /\ conns[c].state = "CONNECTED"
      /\ At(c, "check") => slots[conns[c].slot].character = conns[c].who
      /\ isOnline \in [Characters -> Int]
  BY LoginFacts DEF OnlineInv, At
<1>2. \A d \in Conns : /\ d \in LoggingIn(ch) <=> conns[d].state \in {"CONNECTED", "LOGIN"}
                                                  /\ conns[d].who = ch
                       /\ d \in LoggingIn(ch)' <=> conns'[d].state \in {"CONNECTED", "LOGIN"}
                                                   /\ conns'[d].who = ch
  BY DEF LoggingIn
<1>3. PICK u, l \in Int : u = 1 /\ l = 0 - 1
  OBVIOUS
<1>4. ASSUME isOnline' = isOnline, c \in LoggingIn(ch)' => c \in LoggingIn(ch)
      PROVE  isOnline' \in [Characters -> Int] /\ Counts(c, ch)
  BY <1>1, <1>4 DEF Counts
<1>5. CASE Register(c)
  <2>1. PICK h \in Characters :
          /\ conns' = [conns EXCEPT ![c] = [@ EXCEPT !.state = "CONNECTED",
                                                     !.who = h, !.at = "assign"]]
          /\ isOnline' = [isOnline EXCEPT ![h] = @ + 1]
    BY <1>5 DEF Register
  <2>2. conns'[c].who = h
    BY <2>1 DEF VoiceInv, Shaped, ConnRecord
  <2>3. isOnline' = [isOnline EXCEPT ![h] = @ + u]
    BY <1>3, <2>1
  <2>4. /\ isOnline' \in [Characters -> Int] /\ isOnline'[h] = isOnline[h] + u
        /\ \A g \in Characters : g # h => isOnline'[g] = isOnline[g]
    BY <1>1, <2>3, CountChanges
  <2>5. isOnline[ch] \in Int
    BY <1>1
  <2> QED BY <1>2, <1>3, <2>2, <2>4, <2>5 DEF Counts
<1>6. CASE FindNoSlot(c) \/ ForgetSlot(c) \/ BlockLogin(c)
  <2>1. conns'[c].who = Nobody /\ c \notin LoggingIn(ch)'
    BY <1>2, <1>6, ConnEffects, Distinct DEF ConnBecomes
  <2>2. conns[c].at # "idle"
    BY <1>6 DEF FindNoSlot, ForgetSlot, BlockLogin, At
  <2>3. PICK h \in Characters : h = conns[c].who
    BY <1>1, <2>2
  <2>5. /\ isOnline' \in [Characters -> Int] /\ isOnline'[h] = isOnline[h] + l
        /\ \A g \in Characters : g # h => isOnline'[g] = isOnline[g]
    <3>1. isOnline[h] \in Int /\ isOnline[h] - 1 = isOnline[h] + l
      BY <1>1, <1>3
    <3>2. CASE FindNoSlot(c) \/ ForgetSlot(c)
      <4>1. isOnline' = [isOnline EXCEPT ![conns[c].who] = @ - 1]
        BY <3>2 DEF FindNoSlot, ForgetSlot
      <4>2. isOnline' = [isOnline EXCEPT ![h] = @ + l]
        BY <2>3, <3>1, <4>1
      <4> QED BY <1>1, <4>2, CountChanges
    <3>3. CASE BlockLogin(c)
      <4>1. isOnline' = [g \in Characters |-> isOnline[g] - (IF g = h THEN 1 ELSE 0)]
        BY <1>1, <2>3, <3>3 DEF BlockLogin
      <4> QED BY <1>1, <1>3, <4>1
    <3> QED BY <1>6, <3>2, <3>3
  <2>6. isOnline[ch] \in Int
    BY <1>1
  <2>7. ch = h => c \in LoggingIn(ch)
    BY <1>1, <1>2, <2>2, <2>3
  <2> QED BY <1>3, <2>1, <2>5, <2>6, <2>7 DEF Counts
<1>7. CASE \/ LoadSlot(c) \/ KeepSlot(c) \/ UnlockSlot(c) \/ CallGameThread(c)
           \/ FreeConnection(c) \/ AssignSlot(c) \/ LoadFails(c)
  <2>1. isOnline' = isOnline
    BY <1>7 DEF LoadSlot, LoadFails, KeepSlot, UnlockSlot, CallGameThread,
       FreeConnection, AssignSlot
  <2>2. \/ conns'[c].state = "FREE"
        \/ conns'[c].who = conns[c].who /\ conns[c].state = "CONNECTED"
    <3>1. CASE AssignSlot(c)
      <4>1. PICK i \in Slots, fresh \in BOOLEAN :
               conns' = [conns EXCEPT ![c].slot = i,
                                      ![c].at = IF fresh THEN "load" ELSE "check"]
        BY <3>1 DEF AssignSlot
      <4>2. PICK p : p = IF fresh THEN "load" ELSE "check"
        OBVIOUS
      <4>3. conns'[c].who = conns[c].who
        BY <4>1, <4>2, AssignEffect DEF ConnBecomes
      <4> QED BY <1>1, <3>1, <4>3 DEF AssignSlot, At
    <3>2. CASE FreeConnection(c)
      BY <3>2, ConnEffects DEF ConnBecomes
    <3>3. CASE LoadSlot(c) \/ LoadFails(c) \/ KeepSlot(c) \/ UnlockSlot(c) \/ CallGameThread(c)
      <4>1. conns'[c].who = conns[c].who
        BY <3>3, ConnEffects DEF ConnBecomes
      <4>2. conns[c].at # "idle"
        BY <3>3 DEF LoadSlot, LoadFails, KeepSlot, UnlockSlot, CallGameThread, At
      <4> QED BY <1>1, <4>1, <4>2
    <3> QED BY <1>7, <3>1, <3>2, <3>3
  <2> QED BY <1>2, <1>4, <2>1, <2>2
<1> QED BY <1>5, <1>6, <1>7 DEF CommunicationThread

\* The game thread only takes logins off, and nobody enters but in Attach.
LEMMA GameLogs ==
    ASSUME VoiceInv, SlotInv, GameThread, NEW ch \in Characters
    PROVE  /\ LoggingIn(ch)' \subseteq LoggingIn(ch)
           /\ \A d \in Conns : conns'[d] # conns[d] => d \notin LoggingIn(ch)'
           /\ Cardinality(LoggingIn(ch)') \in Nat
           /\ Cardinality(LoggingIn(ch)') <= Cardinality(LoggingIn(ch))
           /\ \A c \in Conns : c \in LoggingIn(ch) /\ conns'[c] # conns[c] =>
                 Cardinality(LoggingIn(ch)') <= Cardinality(LoggingIn(ch)) - 1
<1> DEFINE S == LoggingIn(ch)
           T == LoggingIn(ch)'
<1>1. ASSUME NEW d \in Conns, conns'[d] # conns[d]
      PROVE  d \notin T
  <2>1. Orderly
    BY GameOrderly
  <2>2. conns'[d].state \notin {"CONNECTED", "LOGIN"}
    BY <1>1, <2>1 DEF Orderly, Kept1, LetGo1, Admitted
  <2> QED BY <2>2 DEF LoggingIn
<1>2. T \subseteq S
  BY <1>1 DEF LoggingIn
<1>3. IsFiniteSet(S)
  BY OnlineFacts
<1> HIDE DEF S, T
<1>4. /\ Cardinality(S) \in Nat /\ Cardinality(T) \in Nat
      /\ Cardinality(T) <= Cardinality(S)
  BY <1>2, <1>3, FewerNeed
<1>5. ASSUME NEW c \in Conns, c \in S, conns'[c] # conns[c]
      PROVE  Cardinality(T) <= Cardinality(S) - 1
  <2>1. T \subseteq S \ {c}
    BY <1>1, <1>2, <1>5
  <2> QED BY <1>3, <1>5, <2>1, OneLessNeeds
<1> QED BY <1>1, <1>2, <1>4, <1>5 DEF S, T

LEMMA GameHere ==
    ASSUME VoiceInv, SlotInv, HoldInv', GameThread, ~Attach, NEW ch \in Characters
    PROVE  Here(ch)' <= Here(ch) + 0
<1>1. ASSUME players'[ch].there, ~Leaving(ch)'
      PROVE  players[ch].there /\ ~Leaving(ch)
  <2>1. PICK i \in Slots : i = players'[ch].slot
    BY <1>1 DEF HoldInv, GameHolds, PlayerHold
  <2>2. ch \in PlayersIn(i)'
    BY <1>1, <2>1 DEF PlayersIn, InWorld
  <2>3. ch \in PlayersIn(i)
    BY <2>2, GamePlayers
  <2> QED BY <2>3 DEF PlayersIn, InWorld
<1> QED BY <1>1 DEF Here, Player

\* A login that the game thread answers is counted off.
LEMMA JoinLogs ==
    ASSUME VoiceInv, SlotInv, HoldInv', OnlineInv, NEW c \in Conns,
           JoinRefused(c) \/ TakeOver(c)
    PROVE  OnlineInv'
<1>1. GameThread /\ ~Attach
  BY PlayingStays DEF GameThread, JoinRefused, TakeOver, Attach
<1>2. conns[c].state = "LOGIN" /\ conns[c] \in ConnRecord
  BY LoginFacts DEF JoinRefused, TakeOver
<1>3. PICK h \in Characters : h = conns[c].character /\ h = conns[c].who
  BY <1>2, JoinFacts
<1>4. PICK z, l \in Int : z = 0 /\ l = 0 - 1
  OBVIOUS
<1>5. isOnline' = [isOnline EXCEPT ![h] = @ + l]
  <2>1. isOnline' = [isOnline EXCEPT ![h] = @ - 1]
    BY <1>3 DEF JoinRefused, TakeOver
  <2>2. isOnline[h] - 1 = isOnline[h] + l
    BY <1>4 DEF OnlineInv
  <2> QED BY <2>1, <2>2
<1>6. /\ isOnline' \in [Characters -> Int] /\ isOnline'[h] = isOnline[h] + l
      /\ \A g \in Characters : g # h => isOnline'[g] = isOnline[g]
  BY <1>5, CountChanges DEF OnlineInv
<1>7. conns'[c] # conns[c]
  <2>1. conns'[c].state # "LOGIN"
    <3>1. CASE JoinRefused(c)
      BY <3>1 DEF JoinRefused, Disconnected, Free, VoiceInv, Shaped
    <3>2. CASE TakeOver(c)
      BY <1>2, <3>2 DEF TakeOver, LoggedOut, VoiceInv, Shaped, ConnRecord
    <3> QED BY <3>1, <3>2
  <2> QED BY <1>2, <2>1
<1>8. c \in LoggingIn(h)
  BY <1>2, <1>3 DEF LoggingIn
<1>9. ASSUME NEW ch \in Characters
      PROVE  isOnline'[ch] >= Cardinality(LoggingIn(ch)') + Here(ch)'
  <2>1. Here(ch)' <= Here(ch) + z
    BY <1>1, <1>4, GameHere
  <2>2. /\ Cardinality(LoggingIn(ch)') \in Nat /\ Cardinality(LoggingIn(ch)) \in Nat
        /\ Cardinality(LoggingIn(ch)') <= Cardinality(LoggingIn(ch))
        /\ isOnline[ch] \in Int
    BY <1>1, GameLogs, OnlineFacts
  <2>3. CASE ch = h
    <3>1. Cardinality(LoggingIn(ch)') <= Cardinality(LoggingIn(ch)) - 1
      BY <1>1, <1>7, <1>8, <2>3, GameLogs
    <3>2. Cardinality(LoggingIn(ch)') <= Cardinality(LoggingIn(ch)) + l
      BY <1>4, <2>2, <3>1
    <3>3. isOnline'[ch] >= isOnline[ch] + l + z
      BY <1>4, <1>6, <2>2, <2>3
    <3> QED BY <1>4, <1>6, <2>1, <2>2, <3>2, <3>3, OnlineBalance
  <2>4. CASE ch # h
    <3>1. Cardinality(LoggingIn(ch)') <= Cardinality(LoggingIn(ch)) + z
      BY <1>4, <2>2
    <3>2. isOnline'[ch] >= isOnline[ch] + z + z
      BY <1>4, <1>6, <2>2, <2>4
    <3> QED BY <1>4, <1>6, <2>1, <2>2, <3>1, <3>2, OnlineBalance
  <2> QED BY <2>3, <2>4
<1> QED BY <1>6, <1>9 DEF OnlineInv

\* The player takes over the place of its login.
LEMMA AttachLogs ==
    ASSUME VoiceInv, SlotInv, HoldInv', OnlineInv, Attach
    PROVE  OnlineInv'
<1>1. GameThread
  BY DEF GameThread, GameStep
<1>2. PICK c \in Conns : c = game.who /\ conns[c].state = "LOGIN"
  BY DEF Attach, VoiceInv, Waiting
<1>3. conns[c] \in ConnRecord
  BY LoginFacts
<1>4. PICK h \in Characters : h = conns[c].character /\ h = conns[c].who
  BY <1>2, JoinFacts
<1>5. PICK z, u, l \in Int : z = 0 /\ u = 1 /\ l = 0 - 1
  OBVIOUS
<1>6. /\ isOnline' = isOnline
      /\ conns' = [conns EXCEPT ![c].state = "GAME"]
      /\ \A g \in Characters : g # h => players'[g] = players[g]
      /\ game' = Loop /\ game.at = "attach"
  BY <1>2, <1>4 DEF Attach
<1>7. conns'[c] # conns[c]
  <2>1. conns'[c].state = "GAME"
    BY <1>3, <1>6 DEF ConnRecord, VoiceInv, Shaped
  <2> QED BY <1>2, <2>1
<1>8. c \in LoggingIn(h)
  BY <1>2, <1>4 DEF LoggingIn
<1>9. ASSUME NEW ch \in Characters
      PROVE  isOnline'[ch] >= Cardinality(LoggingIn(ch)') + Here(ch)'
  <2>1. /\ Cardinality(LoggingIn(ch)') \in Nat /\ Cardinality(LoggingIn(ch)) \in Nat
        /\ Cardinality(LoggingIn(ch)') <= Cardinality(LoggingIn(ch))
        /\ isOnline[ch] \in Int
    BY <1>1, GameLogs, OnlineFacts
  <2>2. isOnline' \in [Characters -> Int]
    BY <1>6 DEF OnlineInv
  <2>3. CASE ch = h
    <3>1. Cardinality(LoggingIn(ch)') <= Cardinality(LoggingIn(ch)) - 1
      BY <1>1, <1>7, <1>8, <2>3, GameLogs
    <3>2. Cardinality(LoggingIn(ch)') <= Cardinality(LoggingIn(ch)) + l
      BY <1>5, <2>1, <3>1
    <3>3. isOnline'[ch] >= isOnline[ch] + l + u
      BY <1>5, <1>6, <2>1
    <3>4. Here(ch)' <= Here(ch) + u
      BY <1>5 DEF Here
    <3> QED BY <1>5, <2>1, <2>2, <3>2, <3>3, <3>4, OnlineBalance
  <2>4. CASE ch # h
    <3>1. Cardinality(LoggingIn(ch)') <= Cardinality(LoggingIn(ch)) + z
      BY <1>5, <2>1
    <3>2. isOnline'[ch] >= isOnline[ch] + z + z
      BY <1>5, <1>6, <2>1
    <3>3. Here(ch)' <= Here(ch) + z
      BY <1>5, <1>6, <2>4 DEF Here, Player, Leaving, Loop
    <3> QED BY <1>5, <2>1, <2>2, <3>1, <3>2, <3>3, OnlineBalance
  <2> QED BY <2>3, <2>4
<1> QED BY <1>6, <1>9 DEF OnlineInv

\* ~TPlayer gives up the place of its player.
LEMMA DeleteLogs ==
    ASSUME VoiceInv, SlotInv, HoldInv', OnlineInv, NEW h \in Characters, Delete(h)
    PROVE  OnlineInv'
<1>1. GameThread /\ ~Attach
  BY PlayingStays DEF GameThread, Delete, Attach
<1>2. PICK z, l \in Int : z = 0 /\ l = 0 - 1
  OBVIOUS
<1>3. isOnline' = [isOnline EXCEPT ![h] = @ + l]
  <2>1. isOnline' = [isOnline EXCEPT ![h] = @ - 1]
    BY DEF Delete
  <2>2. isOnline[h] - 1 = isOnline[h] + l
    BY <1>2 DEF OnlineInv
  <2> QED BY <2>1, <2>2
<1>4. /\ isOnline' \in [Characters -> Int] /\ isOnline'[h] = isOnline[h] + l
      /\ \A g \in Characters : g # h => isOnline'[g] = isOnline[g]
  BY <1>3, CountChanges DEF OnlineInv
<1>5. Leaving(h)' /\ ~Leaving(h) /\ Player(h).there
  BY PlayingStays DEF Delete, Leaving
<1>6. ASSUME NEW ch \in Characters
      PROVE  isOnline'[ch] >= Cardinality(LoggingIn(ch)') + Here(ch)'
  <2>1. /\ Cardinality(LoggingIn(ch)') \in Nat /\ Cardinality(LoggingIn(ch)) \in Nat
        /\ Cardinality(LoggingIn(ch)') <= Cardinality(LoggingIn(ch))
        /\ isOnline[ch] \in Int
    BY <1>1, GameLogs, OnlineFacts
  <2>2. Cardinality(LoggingIn(ch)') <= Cardinality(LoggingIn(ch)) + z
    BY <1>2, <2>1
  <2>3. CASE ch = h
    <3>1. Here(ch)' <= Here(ch) + l
      BY <1>2, <1>5, <2>3 DEF Here
    <3>2. isOnline'[ch] >= isOnline[ch] + z + l
      BY <1>2, <1>4, <2>1, <2>3
    <3> QED BY <1>2, <1>4, <2>1, <2>2, <3>1, <3>2, OnlineBalance
  <2>4. CASE ch # h
    <3>1. Here(ch)' <= Here(ch) + z
      BY <1>1, <1>2, GameHere
    <3>2. isOnline'[ch] >= isOnline[ch] + z + z
      BY <1>2, <1>4, <2>1, <2>4
    <3> QED BY <1>2, <1>4, <2>1, <2>2, <3>1, <3>2, OnlineBalance
  <2> QED BY <2>3, <2>4
<1> QED BY <1>4, <1>6 DEF OnlineInv

LEMMA GameOnline ==
    ASSUME VoiceInv, SlotInv, HoldInv', OnlineInv, GameThread
    PROVE  OnlineInv'
<1>1. CASE Attach
  BY <1>1, AttachLogs
<1>2. CASE \E c \in Conns : JoinRefused(c) \/ TakeOver(c)
  BY <1>2, JoinLogs
<1>3. CASE \E ch \in Characters : Delete(ch)
  BY <1>3, DeleteLogs
<1>4. CASE /\ ~Attach /\ ~ \E c \in Conns : JoinRefused(c) \/ TakeOver(c)
           /\ ~ \E ch \in Characters : Delete(ch)
  <2>1. isOnline' = isOnline
    BY <1>4 DEF GameThread, GameStep, AttachFails, ReleaseSlot, Bury, SendMails, TakeReply, JoinNew,
       LogOut, LetGo, Die, OrderMail
  <2>2. PICK z \in Int : z = 0
    OBVIOUS
  <2>3. ASSUME NEW ch \in Characters
        PROVE  isOnline'[ch] >= Cardinality(LoggingIn(ch)') + Here(ch)'
    <3>1. /\ Cardinality(LoggingIn(ch)') \in Nat /\ Cardinality(LoggingIn(ch)) \in Nat
          /\ Cardinality(LoggingIn(ch)') <= Cardinality(LoggingIn(ch))
          /\ isOnline[ch] \in Int
      BY GameLogs, OnlineFacts
    <3>2. /\ Cardinality(LoggingIn(ch)') <= Cardinality(LoggingIn(ch)) + z
          /\ isOnline'[ch] >= isOnline[ch] + z + z
      BY <2>1, <2>2, <3>1
    <3>3. Here(ch)' <= Here(ch) + z
      BY <1>4, <2>2, GameHere
    <3>4. isOnline' \in [Characters -> Int]
      BY <2>1 DEF OnlineInv
    <3> QED BY <2>2, <3>1, <3>2, <3>3, <3>4, OnlineBalance
  <2> QED BY <2>1, <2>3 DEF OnlineInv
<1> QED BY <1>1, <1>2, <1>3, <1>4

LEMMA StepOnline ==
    ASSUME VoiceInv, SlotInv, SlotInv', OnlineInv, [Next]_vars
    PROVE  OnlineInv'
<1>1. VoiceInv /\ SlotInv /\ HoldInv'
  BY DEF SlotInv, HoldInv
<1>2. CASE UNCHANGED vars
  BY <1>2 DEF vars, OnlineInv, LoggingIn, Here, Player, Leaving
<1>3. CASE GameThread
  BY <1>1, <1>3, GameOnline
<1>4. CASE ReaderThread \/ WriterThread
  <2>1. UNCHANGED <<conns, players, game, isOnline>>
    BY <1>4 DEF ReaderThread, ReaderTakesOrder, ReaderAssigns, ReaderFindsNoSlot,
       ReaderLoads, ReaderLoadFails, ReaderForgets, ReaderGivesUp, ReaderKeeps,
       ReaderTriesAgain, ReaderReplies, unread, WriterThread, WriterAttaches, WriterSaves,
       WriterPicks, unwritten
  <2> QED BY <2>1 DEF OnlineInv, LoggingIn, Here, Player, Leaving
<1>5. CASE \E c \in Conns : CommunicationThread(c)
  <2>1. PICK c \in Conns : CommunicationThread(c)
    BY <1>5
  <2>2. /\ UNCHANGED <<players, game>>
        /\ \A d \in Conns : d # c => conns'[d] = conns[d]
    BY <1>1, <2>1, CommKeeps
  <2>3. ASSUME NEW ch \in Characters
        PROVE  /\ isOnline' \in [Characters -> Int]
               /\ isOnline'[ch] >= Cardinality(LoggingIn(ch)') + Here(ch)'
    <3>1. isOnline' \in [Characters -> Int] /\ Counts(c, ch)
      BY <1>1, <2>1, CommLogs
    <3> QED BY <2>2, <3>1, CountedIsEnough
  <2>4. isOnline' \in [Characters -> Int]
    <3>1. CASE Characters = {}
      BY <2>1, <3>1, <1>1, LoginFacts DEF CommunicationThread, Register, AssignSlot,
         FindNoSlot, LoadSlot, LoadFails, ForgetSlot, BlockLogin, KeepSlot, UnlockSlot,
         CallGameThread, FreeConnection, OnlineInv, At
    <3> QED BY <2>3, <3>1
  <2> QED BY <2>3, <2>4 DEF OnlineInv
<1> QED BY <1>2, <1>3, <1>4, <1>5 DEF Next

LEMMA InitOnline == ASSUME Init PROVE OnlineInv
<1>1. isOnline = [ch \in Characters |-> 0]
  BY DEF Init
<1>2. ASSUME NEW ch \in Characters
      PROVE  isOnline[ch] >= Cardinality(LoggingIn(ch)) + Here(ch)
  <2>1. LoggingIn(ch) = {}
    BY DEF LoggingIn, Init, Free
  <2>2. Here(ch) = 0
    BY DEF Here, Player, Init, Absent
  <2> QED BY <1>1, <2>1, <2>2, FS_EmptySet
<1> QED BY <1>1, <1>2 DEF OnlineInv

LoginsInOrder == misled \/ OnlineInv

LEMMA StepLogins ==
    PoolInv /\ PoolInv' /\ LoginsInOrder /\ [Next]_vars => LoginsInOrder'
<1> SUFFICES ASSUME PoolInv, PoolInv', LoginsInOrder, [Next]_vars, ~misled'
             PROVE  OnlineInv'
  BY DEF LoginsInOrder
<1>1. ~misled
  BY MisledStays
<1> QED BY <1>1, StepOnline DEF PoolInv, InOrder, LoginsInOrder

\* Unless a load failed under somebody, the query manager never counts fewer
\* logins of a character than are on their way or in the world, whichever
\* thread counts them off.
THEOREM LoginsAreCounted == Spec => []OnlineIsCounted
<1>1. Init => LoginsInOrder
  BY InitOnline DEF LoginsInOrder
<1>2. LoginsInOrder => OnlineIsCounted
  BY DEF LoginsInOrder, OnlineInv, OnlineIsCounted, LoggingIn, Here
<1> QED BY <1>1, <1>2, InitPool, StepPool, StepLogins, PTL DEF Spec

-----------------------------------------------------------------------------
(* The data of a character.                                                  *)

\* The pool keeps every character and its data.
SameData ==
    \A i \in Slots : /\ slots'[i].character = slots[i].character
                     /\ slots'[i].data = slots[i].data
                     /\ slots[i].dirty => slots'[i].dirty

LEMMA SlotSame ==
    ASSUME slots \in [Slots -> SlotRecord], NEW i, NEW r,
           slots' = [slots EXCEPT ![i] = r],
           i \in Slots => /\ r.character = slots[i].character /\ r.data = slots[i].data
                          /\ slots[i].dirty => r.dirty
    PROVE  SameData
<1> HIDE DEF SlotRecord
<1>1. ASSUME NEW j \in Slots, j # i PROVE slots'[j] = slots[j]
  BY <1>1
<1>2. i \in Slots => slots'[i] = r
  OBVIOUS
<1> QED BY <1>1, <1>2 DEF SameData

LEMMA LockSame ==
    ASSUME slots \in [Slots -> SlotRecord], NEW i, NEW t,
           slots' = [slots EXCEPT ![i].locked = t]
    PROVE  SameData
<1> DEFINE s == slots[i]
           r == [s EXCEPT !.locked = t]
<1>1. slots' = [slots EXCEPT ![i] = r]
  OBVIOUS
<1>2. i \in Slots => s \in SlotRecord
  OBVIOUS
<1>3. i \in Slots => r.character = s.character /\ r.data = s.data /\ r.dirty = s.dirty
  <2> HIDE DEF s
  <2> QED BY <1>2 DEF SlotRecord
<1> HIDE DEF r
<1> QED BY <1>1, <1>3, SlotSame

LEMMA CountSame ==
    ASSUME slots \in [Slots -> SlotRecord], NEW i, NEW n,
           slots' = [slots EXCEPT ![i].sticky = n]
    PROVE  SameData
<1> DEFINE s == slots[i]
           r == [s EXCEPT !.sticky = n]
<1>1. slots' = [slots EXCEPT ![i] = r]
  OBVIOUS
<1>2. i \in Slots => s \in SlotRecord
  OBVIOUS
<1>3. i \in Slots => r.character = s.character /\ r.data = s.data /\ r.dirty = s.dirty
  <2> HIDE DEF s
  <2> QED BY <1>2 DEF SlotRecord
<1> HIDE DEF r
<1> QED BY <1>1, <1>3, SlotSame

LEMMA StickSame ==
    ASSUME slots \in [Slots -> SlotRecord], NEW i, NEW t,
           Stick(i) \/ Unstick(i) \/ Release(i, t)
    PROVE  SameData
<1>1. CASE Stick(i)
  <2> DEFINE n == slots[i].sticky + 1
  <2>1. slots' = [slots EXCEPT ![i].sticky = n]
    BY <1>1 DEF Stick
  <2> HIDE DEF n
  <2> QED BY <2>1, CountSame
<1>2. CASE Unstick(i)
  <2> DEFINE n == slots[i].sticky - 1
  <2>1. slots' = [slots EXCEPT ![i].sticky = n]
    BY <1>2 DEF Unstick
  <2> HIDE DEF n
  <2> QED BY <2>1, CountSame
<1>3. CASE Release(i, t)
  <2> DEFINE l == IF slots[i].locked = t THEN Nobody ELSE slots[i].locked
  <2>1. slots' = [slots EXCEPT ![i].locked = l]
    BY <1>3 DEF Release
  <2> HIDE DEF l
  <2> QED BY <2>1, LockSame
<1> QED BY <1>1, <1>2, <1>3

LEMMA SendSame ==
    ASSUME slots \in [Slots -> SlotRecord], NEW i, NEW l,
           slots' = [slots EXCEPT ![i] = [@ EXCEPT !.dirty = TRUE,
                                   !.sticky = slots[i].sticky - 1, !.locked = l]]
    PROVE  SameData
<1> DEFINE s == slots[i]
           n == slots[i].sticky - 1
           r == [s EXCEPT !.dirty = TRUE, !.sticky = n, !.locked = l]
<1>1. slots' = [slots EXCEPT ![i] = r]
  OBVIOUS
<1>2. i \in Slots => s \in SlotRecord
  OBVIOUS
<1>3. i \in Slots => r.character = s.character /\ r.data = s.data /\ r.dirty
  <2> HIDE DEF s, n
  <2> QED BY <1>2 DEF SlotRecord
<1> HIDE DEF r
<1> QED BY <1>1, <1>3, SlotSame

\* What the stored data of a character says, whoever has its slot.
LEMMA KeptIs ==
    ASSUME Unique, Unique', NEW ch \in Characters
    PROVE  /\ \A i \in Slots : slots[i].character = ch =>
                 Kept(ch) = IF BeingLoaded(i) THEN file[ch] ELSE slots[i].data
           /\ ~Loaded(ch) => Kept(ch) = file[ch]
           /\ \A i \in Slots : slots'[i].character = ch =>
                 Kept(ch)' = IF BeingLoaded(i)' THEN file'[ch] ELSE slots'[i].data
           /\ ~Loaded(ch)' => Kept(ch)' = file'[ch]
<1>1. ch # Nobody
  BY Distinct
<1>2. ASSUME NEW i \in Slots, slots[i].character = ch
      PROVE  Kept(ch) = IF BeingLoaded(i) THEN file[ch] ELSE slots[i].data
  <2>1. SlotsOf(ch) = {i}
    BY <1>1, <1>2 DEF SlotsOf, Unique
  <2> HIDE DEF BeingLoaded
  <2> QED BY <2>1 DEF Kept
<1>3. ASSUME NEW i \in Slots, slots'[i].character = ch
      PROVE  Kept(ch)' = IF BeingLoaded(i)' THEN file'[ch] ELSE slots'[i].data
  <2>1. SlotsOf(ch)' = {i}
    BY <1>1, <1>3 DEF SlotsOf, Unique
  <2>2. PICK L : L = SlotsOf(ch)'
    OBVIOUS
  <2>3. \A j \in Slots : BeingLoaded(j)' \in BOOLEAN
    BY DEF BeingLoaded
  <2> QED BY <2>1 DEF Kept
<1>4. ~Loaded(ch) => Kept(ch) = file[ch]
  BY DEF Loaded, Kept
<1>5. ~Loaded(ch)' => Kept(ch)' = file'[ch]
  BY DEF Loaded, Kept
<1> QED BY <1>2, <1>3, <1>4, <1>5

\* What can be told of stored data d of a character, if what the characters
\* in hidden have stored may be spoiled.
Seen(hidden, ch, d) == <<d.visits, IF ch \in hidden THEN Nobody ELSE d.things>>

LEMMA SeenOther ==
    ASSUME NEW S, NEW T, NEW ch, ch \in S <=> ch \in T, NEW d
    PROVE  Seen(S, ch, d) = Seen(T, ch, d)
  BY DEF Seen

LEMMA SeenLess ==
    ASSUME NEW S, NEW T, NEW ch, ch \in S => ch \in T, NEW d, NEW e,
           Seen(S, ch, d) = Seen(S, ch, e)
    PROVE  Seen(T, ch, d) = Seen(T, ch, e)
  BY DEF Seen

\* A clean slot that is not being loaded says what the file says.
FileMatches ==
    \A i \in Slots : slots[i].character # Nobody /\ ~BeingLoaded(i) /\ ~slots[i].dirty
                     => Seen(spoiled, slots[i].character, slots[i].data)
                           = Seen(spoiled, slots[i].character, file[slots[i].character])

\* A step that changes nobody's stored data.
KeepsData ==
    /\ spoiled' = spoiled
    /\ FileMatches'
    /\ \A ch \in Characters : Seen(spoiled, ch, Kept(ch)') = Seen(spoiled, ch, Kept(ch))

LEMMA LoadedIsLocked ==
    ASSUME VoiceInv, SlotInv, NEW i \in Slots, BeingLoaded(i)
    PROVE  /\ slots[i].locked \in Conns \cup {Reader} /\ slots[i].locked # Nobody
           /\ slots[i].locked # Game /\ slots[i].locked # Writer
           /\ slots[i].character # Nobody
           /\ \A c \in Conns : At(c, "load") /\ conns[c].slot = i => slots[i].locked = c
           /\ reader.at = "load" /\ reader.slot = i => slots[i].locked = Reader
<1>1. /\ \A c \in Conns : At(c, "load") /\ conns[c].slot = i => slots[i].locked = c
      /\ reader.at = "load" /\ reader.slot = i => slots[i].locked = Reader
  BY DEF SlotInv, ConnHolds, ConnHold, FilersHold, Own, At
<1>2. slots[i].locked \in Conns \cup {Reader}
  BY <1>1 DEF BeingLoaded
<1>3. slots[i].locked # Nobody /\ slots[i].locked # Game /\ slots[i].locked # Writer
  BY <1>2, Distinct
<1>4. slots[i].character # Nobody
  BY LoginFacts, ReaderFacts DEF BeingLoaded, At
<1> QED BY <1>1, <1>2, <1>3, <1>4

LEMMA QuietData ==
    ASSUME Unique, Unique', FileMatches, SameData, file' = file, spoiled' = spoiled,
           \A i \in Slots : BeingLoaded(i)' <=> BeingLoaded(i)
    PROVE  KeepsData
<1>1. FileMatches'
  <2> SUFFICES ASSUME NEW i \in Slots, slots'[i].character # Nobody, ~BeingLoaded(i)',
                      ~slots'[i].dirty
               PROVE  Seen(spoiled', slots'[i].character, slots'[i].data)
                         = Seen(spoiled', slots'[i].character, file'[slots'[i].character])
    BY DEF FileMatches
  <2> QED BY DEF FileMatches, SameData
<1>2. ASSUME NEW ch \in Characters PROVE Kept(ch)' = Kept(ch)
  <2>1. CASE Loaded(ch)
    <3>1. PICK i \in Slots : slots[i].character = ch
      BY <2>1 DEF Loaded, SlotsOf
    <3>2. slots'[i].character = ch /\ slots'[i].data = slots[i].data
      BY <3>1 DEF SameData
    <3> QED BY <3>1, <3>2, KeptIs
  <2>2. CASE ~Loaded(ch)
    <3>1. ~Loaded(ch)'
      BY <2>2 DEF Loaded, SlotsOf, SameData
    <3> QED BY <2>2, <3>1, KeptIs
  <2> QED BY <2>1, <2>2
<1> QED BY <1>1, <1>2 DEF KeepsData

LEMMA LoadData ==
    ASSUME slots \in [Slots -> SlotRecord], Unique, Unique', FileMatches,
           spoiled' = spoiled, file' = file, NEW i \in Slots, slots[i].character \in Characters,
           Load(i, slots[i].character), BeingLoaded(i), ~BeingLoaded(i)',
           \A j \in Slots : j # i => (BeingLoaded(j)' <=> BeingLoaded(j))
    PROVE  KeepsData
<1> DEFINE s == slots[i]
           d == file[s.character]
           r == [s EXCEPT !.data = d]
<1>1. slots' = [slots EXCEPT ![i] = r] /\ s \in SlotRecord
  BY DEF Load
<1>2. r.character = s.character /\ r.data = d
  <2> HIDE DEF s, d
  <2> QED BY <1>1 DEF SlotRecord
<1> HIDE DEF r
<1>3. /\ slots'[i].character = slots[i].character
      /\ slots'[i].data = file[slots[i].character]
      /\ \A j \in Slots : j # i => slots'[j] = slots[j]
  <2> HIDE DEF SlotRecord
  <2> QED BY <1>1, <1>2
<1>4. FileMatches'
  <2> SUFFICES ASSUME NEW j \in Slots, slots'[j].character # Nobody, ~BeingLoaded(j)',
                      ~slots'[j].dirty
               PROVE  Seen(spoiled', slots'[j].character, slots'[j].data)
                         = Seen(spoiled', slots'[j].character, file'[slots'[j].character])
    BY DEF FileMatches
  <2>1. CASE j = i
    BY <1>3, <2>1
  <2>2. CASE j # i
    BY <1>3, <2>2 DEF FileMatches
  <2> QED BY <2>1, <2>2
<1>5. ASSUME NEW ch \in Characters PROVE Kept(ch)' = Kept(ch)
  <2>1. CASE ch = slots[i].character
    BY <1>3, <2>1, KeptIs
  <2>2. CASE ch # slots[i].character /\ Loaded(ch)
    <3>1. PICK j \in Slots : slots[j].character = ch
      BY <2>2 DEF Loaded, SlotsOf
    <3>2. j # i /\ slots'[j] = slots[j]
      BY <1>3, <2>2, <3>1
    <3> QED BY <3>1, <3>2, KeptIs
  <2>3. CASE ch # slots[i].character /\ ~Loaded(ch)
    <3>1. ~Loaded(ch)'
      BY <1>3, <2>3 DEF Loaded, SlotsOf
    <3> QED BY <2>3, <3>1, KeptIs
  <2> QED BY <2>1, <2>2, <2>3
<1> QED BY <1>4, <1>5 DEF KeepsData

\* A slot whose load fails had nothing that was not in the file.
LEMMA LostData ==
    ASSUME slots \in [Slots -> SlotRecord], Unique, Unique', FileMatches,
           spoiled' = spoiled, file' = file, NEW i \in Slots, FailToLoad(i),
           BeingLoaded(i), \A j \in Slots : j # i => (BeingLoaded(j)' <=> BeingLoaded(j))
    PROVE  KeepsData
<1> DEFINE s == slots[i]
           d == Fresh(Nobody)
           r == [s EXCEPT !.character = Nobody, !.data = d]
<1>1. slots' = [slots EXCEPT ![i] = r] /\ s \in SlotRecord
  BY DEF FailToLoad
<1>2. r.character = Nobody
  <2> HIDE DEF s, d
  <2> QED BY <1>1 DEF SlotRecord
<1> HIDE DEF r
<1>3. slots'[i].character = Nobody /\ \A j \in Slots : j # i => slots'[j] = slots[j]
  <2> HIDE DEF SlotRecord
  <2> QED BY <1>1, <1>2
<1>4. FileMatches'
  <2> SUFFICES ASSUME NEW j \in Slots, slots'[j].character # Nobody, ~BeingLoaded(j)',
                      ~slots'[j].dirty
               PROVE  Seen(spoiled', slots'[j].character, slots'[j].data)
                         = Seen(spoiled', slots'[j].character, file'[slots'[j].character])
    BY DEF FileMatches
  <2> QED BY <1>3 DEF FileMatches
<1>5. ASSUME NEW ch \in Characters PROVE Kept(ch)' = Kept(ch)
  <2>1. CASE ch = slots[i].character
    <3>1. ~Loaded(ch)'
      BY <1>3, <2>1, Distinct DEF Loaded, SlotsOf, Unique
    <3> QED BY <2>1, <3>1, KeptIs
  <2>2. CASE ch # slots[i].character /\ Loaded(ch)
    <3>1. PICK j \in Slots : slots[j].character = ch
      BY <2>2 DEF Loaded, SlotsOf
    <3>2. j # i /\ slots'[j] = slots[j]
      BY <1>3, <2>2, <3>1
    <3> QED BY <3>1, <3>2, KeptIs
  <2>3. CASE ch # slots[i].character /\ ~Loaded(ch)
    <3>1. ~Loaded(ch)'
      BY <1>3, <2>3, Distinct DEF Loaded, SlotsOf
    <3> QED BY <2>3, <3>1, KeptIs
  <2> QED BY <2>1, <2>2, <2>3
<1> QED BY <1>4, <1>5 DEF KeepsData

LEMMA SavedFile ==
    ASSUME file \in [Characters -> Stored], NEW i \in Slots, slots[i].character \in SomeCharacter,
           file' = Saved(i)
    PROVE  /\ \A h \in Characters : h # slots[i].character => file'[h] = file[h]
           /\ slots[i].character # Nobody /\ slots[i].dirty =>
                 file'[slots[i].character] = slots[i].data
           /\ ~slots[i].dirty => file' = file
  BY DEF Saved, SomeCharacter

\* A slot that is given to another character was saved, if it was not clean.
LEMMA GiveData ==
    ASSUME VoiceInv, SlotInv, Unique', FileMatches, spoiled' = spoiled,
           NEW i \in Slots, NEW t \in Threads,
           NEW ch \in Characters, Assign(ch, t, i, TRUE),
           BeingLoaded(i)', \A j \in Slots : j # i => (BeingLoaded(j)' <=> BeingLoaded(j))
    PROVE  KeepsData
<1>1. /\ slots \in [Slots -> SlotRecord] /\ file \in [Characters -> Stored] /\ Unique
      /\ slots[i].character \in SomeCharacter
  BY SlotFields DEF VoiceInv, Shaped, SlotInv
<1>2. ~Loaded(ch) /\ i \in Takeable /\ file' = Saved(i)
  BY DEF Assign
<1>3. /\ Becomes(i, ch, t, 0)
      /\ slots[i].character = Nobody \/ slots[i].locked = Nobody
  BY <1>1, <1>2, AssignBecomes DEF Assign
<1>4. ~BeingLoaded(i)
  BY <1>3, LoadedIsLocked
<1>5. slots[i].character # ch
  BY <1>2 DEF Loaded, SlotsOf
<1>6. slots[i].character # Nobody =>
         /\ slots[i].character \in Characters
         /\ Seen(spoiled, slots[i].character, file'[slots[i].character])
               = Seen(spoiled, slots[i].character, slots[i].data)
  <2> SUFFICES ASSUME slots[i].character # Nobody
               PROVE  Seen(spoiled, slots[i].character, file'[slots[i].character])
                         = Seen(spoiled, slots[i].character, slots[i].data)
    BY <1>1 DEF SomeCharacter
  <2>1. CASE slots[i].dirty
    <3>1. file'[slots[i].character] = slots[i].data
      BY <1>1, <1>2, <2>1, SavedFile
    <3> QED BY <3>1
  <2>2. CASE ~slots[i].dirty
    <3>1. file' = file
      BY <1>1, <1>2, <2>2, SavedFile
    <3> QED BY <1>4, <2>2, <3>1 DEF FileMatches
  <2> QED BY <2>1, <2>2
<1>7. \A h \in Characters : h # slots[i].character => file'[h] = file[h]
  BY <1>1, <1>2, SavedFile
<1>8. slots'[i].character = ch /\ \A j \in Slots : j # i => slots'[j] = slots[j]
  BY <1>3 DEF Becomes
<1>9. FileMatches'
  <2> SUFFICES ASSUME NEW j \in Slots, slots'[j].character # Nobody, ~BeingLoaded(j)',
                      ~slots'[j].dirty
               PROVE  Seen(spoiled', slots'[j].character, slots'[j].data)
                         = Seen(spoiled', slots'[j].character, file'[slots'[j].character])
    BY DEF FileMatches
  <2>1. j # i /\ slots'[j] = slots[j] /\ ~BeingLoaded(j)
    BY <1>8
  <2>2. slots[j].character \in Characters
    BY <1>1, <2>1, SlotFields DEF SomeCharacter
  <2>3. slots[j].character # slots[i].character
    BY <1>1, <2>1 DEF Unique
  <2>4. Seen(spoiled, slots[j].character, slots[j].data)
           = Seen(spoiled, slots[j].character, file[slots[j].character])
    BY <2>1 DEF FileMatches
  <2> QED BY <1>7, <2>1, <2>2, <2>3, <2>4
<1>10. ASSUME NEW h \in Characters
       PROVE  Seen(spoiled, h, Kept(h)') = Seen(spoiled, h, Kept(h))
  <2>1. CASE h = ch
    BY <1>1, <1>2, <1>5, <1>7, <1>8, <2>1, KeptIs
  <2>2. CASE h = slots[i].character
    <3>1. ~Loaded(h)'
      <4>1. \A j \in Slots : slots'[j].character # h
        BY <1>1, <1>5, <1>8, <2>2, Distinct DEF Unique
      <4> QED BY <4>1 DEF Loaded, SlotsOf
    <3>2. Kept(h) = slots[i].data
      BY <1>1, <1>4, <2>2, KeptIs
    <3>3. Seen(spoiled, h, file'[h]) = Seen(spoiled, h, slots[i].data)
      BY <1>6, <2>2, Distinct
    <3> QED BY <1>1, <3>1, <3>2, <3>3, KeptIs
  <2>3. CASE h # ch /\ h # slots[i].character /\ Loaded(h)
    <3>1. PICK j \in Slots : slots[j].character = h
      BY <2>3 DEF Loaded, SlotsOf
    <3>2. j # i /\ slots'[j] = slots[j]
      BY <1>8, <2>3, <3>1
    <3> QED BY <1>1, <1>7, <2>3, <3>1, <3>2, KeptIs
  <2>4. CASE h # ch /\ h # slots[i].character /\ ~Loaded(h)
    <3>1. ~Loaded(h)'
      BY <1>8, <2>4 DEF Loaded, SlotsOf
    <3> QED BY <1>1, <1>7, <2>4, <3>1, KeptIs
  <2> QED BY <2>1, <2>2, <2>3, <2>4
<1> QED BY <1>9, <1>10 DEF KeepsData

LEMMA CommData ==
    ASSUME VoiceInv, SlotInv, Unique', FileMatches, NEW c \in Conns, CommunicationThread(c)
    PROVE  KeepsData
<1>1. /\ slots \in [Slots -> SlotRecord] /\ Unique /\ conns \in [Conns -> ConnRecord]
      /\ c \in Threads
  BY LoginFacts DEF VoiceInv, Shaped, SlotInv
<1>2. /\ reader' = reader /\ spoiled' = spoiled
      /\ \A d \in Conns : d # c => conns'[d] = conns[d]
  <2>1. spoiled' = spoiled
    BY DEF CommunicationThread, Register, AssignSlot, FindNoSlot, LoadSlot, LoadFails,
       ForgetSlot, BlockLogin, KeepSlot, UnlockSlot, CallGameThread, FreeConnection, others
  <2> QED BY <2>1, CommKeeps
<1>3. ASSUME NEW i \in Slots,
             (conns'[c].at = "load" /\ conns'[c].slot = i)
                <=> (conns[c].at = "load" /\ conns[c].slot = i)
      PROVE  BeingLoaded(i)' <=> BeingLoaded(i)
  BY <1>2, <1>3 DEF BeingLoaded, At
<1>4. CASE AssignSlot(c)
  <2>1. PICK i \in Slots, fresh \in BOOLEAN :
          /\ Assign(conns[c].who, c, i, fresh)
          /\ conns' = [conns EXCEPT ![c].slot = i,
                                    ![c].at = IF fresh THEN "load" ELSE "check"]
    BY <1>4 DEF AssignSlot
  <2>2. conns[c].at = "assign" /\ conns[c].who \in Characters
    BY <1>4, LoginFacts DEF AssignSlot, At
  <2>3. PICK ch \in Characters : ch = conns[c].who
    BY <2>2
  <2>4. PICK p : p = IF fresh THEN "load" ELSE "check"
    OBVIOUS
  <2>5. conns'[c].at = p /\ conns'[c].slot = i
    <3>1. conns' = [conns EXCEPT ![c].slot = i, ![c].at = p]
      BY <2>1, <2>4
    <3>2. ConnBecomes(c, conns[c].state, p, conns[c].who, i)
      BY <3>1, AssignEffect
    <3> QED BY <3>2 DEF ConnBecomes
  <2>6. CASE fresh
    <3>1. BeingLoaded(i)'
      BY <2>4, <2>5, <2>6 DEF BeingLoaded, At
    <3>2. \A j \in Slots : j # i => (BeingLoaded(j)' <=> BeingLoaded(j))
      BY <1>3, <2>2, <2>5
    <3>3. Assign(ch, c, i, TRUE)
      <4>1. fresh = TRUE
        BY <2>6
      <4> QED BY <2>1, <2>3, <4>1
    <3> QED BY <1>1, <3>1, <3>2, <3>3, <1>2, GiveData
  <2>7. CASE ~fresh
    <3>1. \A j \in Slots : BeingLoaded(j)' <=> BeingLoaded(j)
      BY <1>3, <2>2, <2>4, <2>5, <2>7
    <3>2. /\ file' = file
          /\ \/ slots' = [slots EXCEPT ![i].locked = c]
             \/ Stick(i)
      BY <2>1, <2>7 DEF Assign, Stick
    <3>3. SameData
      BY <1>1, <3>2, LockSame, StickSame
    <3> QED BY <1>1, <3>1, <3>2, <3>3, <1>2, QuietData
  <2> QED BY <2>6, <2>7
<1>5. CASE LoadSlot(c)
  <2>1. PICK i \in Slots : i = conns[c].slot
    BY <1>5, LoginFacts DEF LoadSlot, At
  <2>2. /\ conns[c].at = "load" /\ conns'[c].at = "check"
        /\ Load(i, slots[i].character) /\ file' = file
        /\ slots[i].character \in Characters
    BY <1>5, <2>1, ConnEffects, LoginFacts DEF LoadSlot, At, ConnBecomes
  <2>3. BeingLoaded(i)
    BY <2>1, <2>2 DEF BeingLoaded, At
  <2>4. ~BeingLoaded(i)'
    <3>1. slots[i].locked = c
      BY <2>1, <2>2, <2>3, LoadedIsLocked DEF At
    <3>2. \A d \in Conns : d # c => ~(conns[d].at = "load" /\ conns[d].slot = i)
      BY <2>3, <3>1, LoadedIsLocked DEF At
    <3>3. ~(reader.at = "load" /\ reader.slot = i)
      BY <2>3, <3>1, LoadedIsLocked, Distinct
    <3> QED BY <1>2, <2>2, <3>2, <3>3 DEF BeingLoaded, At
  <2>5. \A j \in Slots : j # i => (BeingLoaded(j)' <=> BeingLoaded(j))
    BY <1>3, <2>1, <2>2
  <2> QED BY <1>1, <2>2, <2>3, <2>4, <2>5, <1>2, LoadData
<1>6. CASE LoadFails(c)
  <2>1. PICK i \in Slots : i = conns[c].slot
    BY <1>6, LoginFacts DEF LoadFails, At
  <2>2. /\ conns[c].at = "load" /\ conns'[c].at = "forget"
        /\ FailToLoad(i) /\ file' = file
    BY <1>6, <2>1, ConnEffects DEF LoadFails, At, ConnBecomes
  <2>3. BeingLoaded(i)
    BY <2>1, <2>2 DEF BeingLoaded, At
  <2>4. \A j \in Slots : j # i => (BeingLoaded(j)' <=> BeingLoaded(j))
    BY <1>3, <2>1, <2>2
  <2> QED BY <1>1, <1>2, <2>2, <2>3, <2>4, LostData
<1>7. CASE \/ Register(c) \/ FindNoSlot(c) \/ ForgetSlot(c) \/ BlockLogin(c) \/ KeepSlot(c)
           \/ UnlockSlot(c) \/ CallGameThread(c) \/ FreeConnection(c)
  <2>1. conns[c].at # "load"
    <3>1. CASE Register(c) \/ FreeConnection(c)
      BY <3>1, LoginFacts DEF Register, FreeConnection
    <3> QED BY <1>7, <3>1 DEF FindNoSlot, ForgetSlot, BlockLogin, KeepSlot, UnlockSlot,
            CallGameThread, At
  <2>2. conns'[c].at # "load"
    BY <1>7, ConnEffects DEF ConnBecomes
  <2>3. \A j \in Slots : BeingLoaded(j)' <=> BeingLoaded(j)
    BY <1>3, <2>1, <2>2
  <2>4. file' = file /\ SameData
    <3>1. CASE Register(c) \/ FindNoSlot(c) \/ CallGameThread(c) \/ FreeConnection(c)
      BY <3>1 DEF Register, FindNoSlot, CallGameThread, FreeConnection, SameData
    <3>2. CASE BlockLogin(c) \/ KeepSlot(c) \/ UnlockSlot(c)
      BY <1>1, <3>2, StickSame DEF BlockLogin, KeepSlot, UnlockSlot
    <3>3. CASE ForgetSlot(c)
      <4>1. slots' = [slots EXCEPT ![conns[c].slot].locked = Nobody] /\ file' = file
        BY <3>3 DEF ForgetSlot, Forget
      <4> QED BY <1>1, <4>1, LockSame
    <3> QED BY <1>7, <3>1, <3>2, <3>3
  <2> QED BY <1>1, <2>3, <2>4, <1>2, QuietData
<1> QED BY <1>4, <1>5, <1>6, <1>7 DEF CommunicationThread

LEMMA ReaderData ==
    ASSUME VoiceInv, SlotInv, Unique', FileMatches, ReaderThread
    PROVE  KeepsData
<1>1. /\ slots \in [Slots -> SlotRecord] /\ Unique /\ Reader \in Threads
  BY ReaderFacts DEF SlotInv
<1>2. conns' = conns /\ spoiled' = spoiled
  BY DEF ReaderThread, ReaderTakesOrder, ReaderAssigns, ReaderFindsNoSlot, ReaderLoads,
     ReaderLoadFails, ReaderForgets, ReaderGivesUp, ReaderKeeps, ReaderTriesAgain,
     ReaderReplies, unread
<1>3. ASSUME NEW i \in Slots,
             (reader'.at = "load" /\ reader'.slot = i)
                <=> (reader.at = "load" /\ reader.slot = i)
      PROVE  BeingLoaded(i)' <=> BeingLoaded(i)
  BY <1>2, <1>3 DEF BeingLoaded, At
<1>4. CASE ReaderAssigns
  <2>1. PICK i \in Slots, fresh \in BOOLEAN :
          /\ Assign(reader.who, Reader, i, fresh)
          /\ reader' = [reader EXCEPT !.slot = i,
                                      !.at = IF fresh THEN "load" ELSE "look"]
    BY <1>4 DEF ReaderAssigns
  <2>2. reader.at = "assign" /\ reader.who \in Characters
    BY <1>4, ReaderFacts DEF ReaderAssigns
  <2>3. PICK ch \in Characters : ch = reader.who
    BY <2>2
  <2>4. PICK p : p = IF fresh THEN "load" ELSE "look"
    OBVIOUS
  <2>5. reader'.at = p /\ reader'.slot = i
    BY <2>1, <2>4, ReaderEffects DEF ReaderBecomes
  <2>6. CASE fresh
    <3>1. BeingLoaded(i)'
      BY <2>4, <2>5, <2>6 DEF BeingLoaded
    <3>2. \A j \in Slots : j # i => (BeingLoaded(j)' <=> BeingLoaded(j))
      BY <1>3, <2>2, <2>5
    <3>3. Assign(ch, Reader, i, TRUE)
      <4>1. fresh = TRUE
        BY <2>6
      <4> QED BY <2>1, <2>3, <4>1
    <3> QED BY <1>1, <3>1, <3>2, <3>3, <1>2, GiveData
  <2>7. CASE ~fresh
    <3>1. \A j \in Slots : BeingLoaded(j)' <=> BeingLoaded(j)
      BY <1>3, <2>2, <2>4, <2>5, <2>7
    <3>2. /\ file' = file
          /\ \/ slots' = [slots EXCEPT ![i].locked = Reader]
             \/ Stick(i)
      BY <2>1, <2>7 DEF Assign, Stick
    <3>3. SameData
      BY <1>1, <3>2, LockSame, StickSame
    <3> QED BY <1>1, <3>1, <3>2, <3>3, <1>2, QuietData
  <2> QED BY <2>6, <2>7
<1>5. CASE ReaderLoads
  <2>1. PICK i \in Slots : i = reader.slot
    BY <1>5, ReaderFacts DEF ReaderLoads
  <2>2. /\ reader.at = "load" /\ reader'.at = "look"
        /\ Load(i, reader.who) /\ file' = file
    BY <1>5, <2>1, ReaderEffects DEF ReaderLoads, ReaderBecomes
  <2>3. /\ BeingLoaded(i) /\ slots[i].locked = Reader
        /\ slots[i].character = reader.who
    BY <2>1, <2>2, ReaderFacts DEF BeingLoaded
  <2>4. ~BeingLoaded(i)'
    <3>1. \A d \in Conns : ~(conns[d].at = "load" /\ conns[d].slot = i)
      BY <2>3, LoadedIsLocked, Distinct DEF At
    <3> QED BY <1>2, <2>2, <3>1 DEF BeingLoaded, At
  <2>5. \A j \in Slots : j # i => (BeingLoaded(j)' <=> BeingLoaded(j))
    BY <1>3, <2>1, <2>2
  <2>6. slots[i].character \in Characters
    BY <1>1, <2>3, LoadedIsLocked, SlotFields DEF SomeCharacter
  <2> QED BY <1>1, <2>2, <2>3, <2>4, <2>5, <2>6, <1>2, LoadData
<1>6. CASE ReaderLoadFails
  <2>1. PICK i \in Slots : i = reader.slot
    BY <1>6, ReaderFacts DEF ReaderLoadFails
  <2>2. /\ reader.at = "load" /\ reader'.at = "forget"
        /\ FailToLoad(i) /\ file' = file
    BY <1>6, <2>1, ReaderEffects DEF ReaderLoadFails, ReaderBecomes
  <2>3. BeingLoaded(i)
    BY <2>1, <2>2 DEF BeingLoaded
  <2>4. \A j \in Slots : j # i => (BeingLoaded(j)' <=> BeingLoaded(j))
    BY <1>3, <2>1, <2>2
  <2> QED BY <1>1, <1>2, <2>2, <2>3, <2>4, LostData
<1>7. CASE \/ ReaderTakesOrder \/ ReaderFindsNoSlot \/ ReaderForgets \/ ReaderGivesUp
           \/ ReaderKeeps \/ ReaderTriesAgain \/ ReaderReplies
  <2>1. reader.at # "load"
    BY <1>7 DEF ReaderTakesOrder, ReaderFindsNoSlot, ReaderForgets, ReaderGivesUp,
       ReaderKeeps, ReaderTriesAgain, ReaderReplies
  <2>2. reader'.at # "load"
    BY <1>7, ReaderEffects DEF ReaderBecomes
  <2>3. \A j \in Slots : BeingLoaded(j)' <=> BeingLoaded(j)
    BY <1>3, <2>1, <2>2
  <2>4. file' = file /\ SameData
    <3>1. CASE ReaderTakesOrder \/ ReaderFindsNoSlot \/ ReaderGivesUp \/ ReaderTriesAgain
      BY <3>1 DEF ReaderTakesOrder, ReaderFindsNoSlot, ReaderGivesUp, ReaderTriesAgain, SameData
    <3>2. CASE ReaderKeeps \/ ReaderReplies
      BY <1>1, <3>2, StickSame DEF ReaderKeeps, ReaderReplies
    <3>3. CASE ReaderForgets
      <4>1. slots' = [slots EXCEPT ![reader.slot].locked = Nobody] /\ file' = file
        BY <3>3 DEF ReaderForgets, Forget
      <4> QED BY <1>1, <4>1, LockSame
    <3> QED BY <1>7, <3>1, <3>2, <3>3
  <2> QED BY <1>1, <2>3, <2>4, <1>2, QuietData
<1> QED BY <1>4, <1>5, <1>6, <1>7 DEF ReaderThread

LEMMA WriterData ==
    ASSUME VoiceInv, SlotInv, Unique', FileMatches, WriterThread
    PROVE  KeepsData
<1>1. /\ slots \in [Slots -> SlotRecord] /\ Unique /\ file \in [Characters -> Stored]
  BY DEF SlotInv, VoiceInv, Shaped
<1>2. UNCHANGED <<conns, reader, spoiled>>
  BY DEF WriterThread, WriterAttaches, WriterSaves, WriterPicks, unwritten
<1>3. \A i \in Slots : BeingLoaded(i)' <=> BeingLoaded(i)
  BY <1>2 DEF BeingLoaded, At
<1>4. CASE ~WriterSaves
  <2>1. file' = file /\ SameData
    <3>1. CASE UNCHANGED slots
      BY <1>4, <3>1 DEF WriterThread, WriterAttaches, WriterPicks, SameData
    <3>2. CASE ~UNCHANGED slots
      BY <1>1, <1>4, <3>2, LockSame DEF WriterThread, WriterAttaches, WriterPicks
    <3> QED BY <3>1, <3>2
  <2> QED BY <1>1, <1>3, <2>1, <1>2, QuietData
<1>5. CASE WriterSaves /\ slots[writer.slot].locked # Writer
  <2>1. file' = file /\ SameData
    BY <1>5 DEF WriterSaves, SameData
  <2> QED BY <1>1, <1>3, <2>1, <1>2, QuietData
<1>6. CASE WriterSaves /\ slots[writer.slot].locked = Writer
  <2>1. PICK i \in Slots : i = writer.slot /\ slots[i].locked = Writer
    BY <1>6, WriterFacts DEF WriterSaves
  <2>2. slots[i].character \in SomeCharacter
    BY <1>1, SlotFields
  <2>3. ~BeingLoaded(i)
    BY <2>1, LoadedIsLocked
  <2> DEFINE s == slots[i]
             r == [s EXCEPT !.dirty = FALSE, !.locked = Nobody]
  <2>4. slots' = [slots EXCEPT ![i] = r] /\ file' = Saved(i)
    BY <1>6, <2>1 DEF WriterSaves
  <2>5. r.character = s.character /\ r.data = s.data
    <3>1. s \in SlotRecord
      BY <1>1
    <3> HIDE DEF s
    <3> QED BY <3>1 DEF SlotRecord
  <2> HIDE DEF r
  <2>6. /\ slots'[i].character = slots[i].character /\ slots'[i].data = slots[i].data
        /\ \A j \in Slots : j # i => slots'[j] = slots[j]
    <3> HIDE DEF SlotRecord
    <3> QED BY <1>1, <2>4, <2>5
  <2>7. \A h \in Characters : h # slots[i].character => file'[h] = file[h]
    BY <1>1, <2>2, <2>4, SavedFile
  <2>8. slots[i].character # Nobody =>
           Seen(spoiled, slots[i].character, file'[slots[i].character])
              = Seen(spoiled, slots[i].character, slots[i].data)
    <3> SUFFICES ASSUME slots[i].character # Nobody
                 PROVE  Seen(spoiled, slots[i].character, file'[slots[i].character])
                           = Seen(spoiled, slots[i].character, slots[i].data)
      OBVIOUS
    <3>1. CASE slots[i].dirty
      <4>1. file'[slots[i].character] = slots[i].data
        BY <1>1, <2>2, <2>4, <3>1, SavedFile
      <4> QED BY <4>1
    <3>2. CASE ~slots[i].dirty
      <4>1. file' = file
        BY <1>1, <2>2, <2>4, <3>2, SavedFile
      <4> QED BY <2>3, <3>2, <4>1 DEF FileMatches
    <3> QED BY <3>1, <3>2
  <2>9. FileMatches'
    <3> SUFFICES ASSUME NEW j \in Slots, slots'[j].character # Nobody, ~BeingLoaded(j)',
                        ~slots'[j].dirty
                 PROVE  Seen(spoiled', slots'[j].character, slots'[j].data)
                         = Seen(spoiled', slots'[j].character, file'[slots'[j].character])
      BY DEF FileMatches
    <3>1. CASE j = i
      BY <1>2, <2>6, <2>8, <3>1
    <3>2. CASE j # i
      <4>1. slots'[j] = slots[j] /\ ~BeingLoaded(j)
        BY <1>3, <2>6, <3>2
      <4>2. slots[j].character \in Characters
        BY <1>1, <4>1, SlotFields DEF SomeCharacter
      <4>3. slots[j].character # slots[i].character
        BY <1>1, <3>2, <4>1 DEF Unique
      <4> QED BY <1>2, <2>7, <4>1, <4>2, <4>3 DEF FileMatches
    <3> QED BY <3>1, <3>2
  <2>10. ASSUME NEW h \in Characters
         PROVE  Seen(spoiled, h, Kept(h)') = Seen(spoiled, h, Kept(h))
    <3>1. CASE h = slots[i].character
      BY <1>1, <1>3, <2>3, <2>6, <3>1, KeptIs
    <3>2. CASE h # slots[i].character /\ Loaded(h)
      <4>1. PICK j \in Slots : slots[j].character = h
        BY <3>2 DEF Loaded, SlotsOf
      <4>2. j # i /\ slots'[j] = slots[j]
        BY <2>6, <3>2, <4>1
      <4> QED BY <1>1, <1>3, <2>7, <3>2, <4>1, <4>2, KeptIs
    <3>3. CASE h # slots[i].character /\ ~Loaded(h)
      <4>1. ~Loaded(h)'
        BY <2>6, <3>3 DEF Loaded, SlotsOf
      <4> QED BY <1>1, <2>7, <3>3, <4>1, KeptIs
    <3> QED BY <3>1, <3>2, <3>3
  <2> QED BY <1>2, <2>9, <2>10 DEF KeepsData
<1> QED BY <1>4, <1>5, <1>6

\* The game thread leaves loading to the others.
LEMMA GameLoads ==
    ASSUME VoiceInv, SlotInv, GameThread
    PROVE  \A i \in Slots : BeingLoaded(i)' <=> BeingLoaded(i)
<1>1. reader' = reader
  BY DEF GameThread, GameStep, Attach, AttachFails, ReleaseSlot, Bury, SendMails, TakeReply,
     JoinNew, JoinRefused, TakeOver, LogOut, LetGo, Die, Delete, OrderMail, rest
<1>2. \A d \in Conns : conns[d].at = "load" => conns'[d] = conns[d]
  BY AtWorkStays
<1>3. \A d \in Conns : conns'[d].at = "load" => conns'[d] = conns[d]
  BY ChangedIsDone
<1> QED BY <1>1, <1>2, <1>3 DEF BeingLoaded, At

LEMMA GameData ==
    ASSUME VoiceInv, SlotInv, Unique', FileMatches, GameThread,
           ~Bury, ~ \E ch \in Characters : Delete(ch)
    PROVE  KeepsData
<1>1. slots \in [Slots -> SlotRecord] /\ Unique
  BY DEF SlotInv, VoiceInv, Shaped
<1>2. file' = file /\ spoiled' = spoiled
  BY DEF GameThread, GameStep, Attach, AttachFails, ReleaseSlot, SendMails, TakeReply, JoinNew,
     JoinRefused, TakeOver, LogOut, LetGo, Die, OrderMail
<1>3. SameData
  <2>1. CASE UNCHANGED slots
    BY <2>1 DEF SameData
  <2>2. CASE Attach \/ TakeReply
    BY <1>1, <2>1, <2>2, LockSame DEF Attach, TakeReply
  <2>3. CASE ReleaseSlot
    BY <1>1, <2>3, StickSame DEF ReleaseSlot
  <2>4. CASE SendMails
    BY <1>1, <2>4, SendSame DEF SendMails
  <2>5. CASE \E c \in Conns : JoinRefused(c)
    <3>1. PICK c \in Conns : JoinRefused(c)
      BY <2>5
    <3>2. PICK i : Unstick(i) \/ UNCHANGED slots
      BY <3>1 DEF JoinRefused
    <3>3. CASE Unstick(i)
      BY <1>1, <3>3, StickSame
    <3> QED BY <2>1, <3>2, <3>3
  <2>6. CASE \E c \in Conns : TakeOver(c)
    BY <1>1, <2>1, <2>6, StickSame DEF TakeOver, Unstick
  <2> QED BY <2>1, <2>2, <2>3, <2>4, <2>5, <2>6 DEF GameThread, GameStep, AttachFails, JoinNew,
          LogOut, LetGo, Die, OrderMail
<1> QED BY <1>1, <1>2, <1>3, GameLoads, QuietData

\* ~TPlayer stores what was played.
LEMMA DeleteData ==
    ASSUME VoiceInv, SlotInv, Unique', FileMatches, NEW ch \in Characters, Delete(ch)
    PROVE  /\ FileMatches'
           /\ spoiled' = spoiled \ {ch}
           /\ Kept(ch)' = Left(ch)
           /\ \A h \in Characters : h # ch => Kept(h)' = Kept(h)
<1>1. slots \in [Slots -> SlotRecord] /\ Unique
  BY DEF SlotInv, VoiceInv, Shaped
<1>2. \A i \in Slots : BeingLoaded(i)' <=> BeingLoaded(i)
  BY GameLoads DEF GameThread
<1>3. PICK i \in Slots : /\ i = players[ch].slot /\ slots[i].character = ch
                         /\ slots[i].locked = Game
  BY PlayFacts, PlayingStays DEF Delete, Player
<1>4. ~BeingLoaded(i)
  BY <1>3, LoadedIsLocked
<1>5. PICK d : d = Left(ch)
  OBVIOUS
<1> DEFINE s == slots[i]
           n == slots[i].sticky - 1
           r == [s EXCEPT !.dirty = TRUE, !.data = d, !.sticky = n]
<1>6. slots' = [slots EXCEPT ![i] = r] /\ file' = file /\ spoiled' = spoiled \ {ch}
  BY <1>3, <1>5 DEF Delete, Player
<1>7. r.character = s.character /\ r.data = d /\ r.dirty
  <2>1. s \in SlotRecord
    BY <1>1
  <2> HIDE DEF s, n
  <2> QED BY <2>1 DEF SlotRecord
<1> HIDE DEF r
<1>8. /\ slots'[i].character = ch /\ slots'[i].data = d /\ slots'[i].dirty
      /\ \A j \in Slots : j # i => slots'[j] = slots[j]
  <2> HIDE DEF SlotRecord
  <2> QED BY <1>1, <1>3, <1>6, <1>7
<1>9. FileMatches'
  <2> SUFFICES ASSUME NEW j \in Slots, slots'[j].character # Nobody, ~BeingLoaded(j)',
                      ~slots'[j].dirty
               PROVE  Seen(spoiled', slots'[j].character, slots'[j].data)
                         = Seen(spoiled', slots'[j].character, file'[slots'[j].character])
    BY DEF FileMatches
  <2>1. j # i /\ slots'[j] = slots[j] /\ ~BeingLoaded(j)
    BY <1>2, <1>8
  <2>2. slots[j].character # ch
    BY <1>1, <1>3, <2>1, Distinct DEF Unique
  <2>3. Seen(spoiled, slots[j].character, slots[j].data)
           = Seen(spoiled, slots[j].character, file[slots[j].character])
    BY <2>1 DEF FileMatches
  <2>4. Seen(spoiled', slots[j].character, slots[j].data)
           = Seen(spoiled, slots[j].character, slots[j].data)
        /\ Seen(spoiled', slots[j].character, file[slots[j].character])
           = Seen(spoiled, slots[j].character, file[slots[j].character])
    BY <1>6, <2>2, SeenOther
  <2> QED BY <1>6, <2>1, <2>3, <2>4
<1>10. Kept(ch)' = d
  BY <1>1, <1>2, <1>4, <1>8, KeptIs
<1>11. ASSUME NEW h \in Characters, h # ch PROVE Kept(h)' = Kept(h)
  <2>1. CASE Loaded(h)
    <3>1. PICK j \in Slots : slots[j].character = h
      BY <2>1 DEF Loaded, SlotsOf
    <3>2. j # i /\ slots'[j] = slots[j]
      BY <1>3, <1>8, <1>11, <3>1
    <3> QED BY <1>1, <1>2, <1>6, <3>1, <3>2, KeptIs
  <2>2. CASE ~Loaded(h)
    <3>1. ~Loaded(h)'
      BY <1>8, <1>11, <2>2 DEF Loaded, SlotsOf
    <3> QED BY <1>1, <1>6, <2>2, <3>1, KeptIs
  <2> QED BY <2>1, <2>2
<1> QED BY <1>5, <1>6, <1>9, <1>10, <1>11

\* What can be told of stored data tells the visits and the things.
LEMMA SeenSays ==
    ASSUME KeepsData, NEW ch \in Characters
    PROVE  Kept(ch)'.visits = Kept(ch).visits /\ Things(ch)' = Things(ch)
<1>1. PICK k, k1 : k = Kept(ch) /\ k1 = Kept(ch)'
  OBVIOUS
<1>2. Seen(spoiled, ch, k1) = Seen(spoiled, ch, k) /\ spoiled' = spoiled
  BY <1>1 DEF KeepsData
<1>3. k1.visits = k.visits /\ (ch \notin spoiled => k1.things = k.things)
  BY <1>2 DEF Seen
<1>4. Things(ch)' = Things(ch)
  <2>1. CASE ch \in spoiled
    BY <1>2, <2>1 DEF Things
  <2>2. CASE ch \notin spoiled
    BY <1>1, <1>2, <1>3, <2>2 DEF Things
  <2> QED BY <2>1, <2>2
<1> QED BY <1>1, <1>3, <1>4

\* What Bury may do to the stored things of a dead player: put them away, or
\* hit them and those of an absent one.
LatePutAway(g) ==
    /\ spoiled' = spoiled
    /\ Kept(g)' = Kept(g) \/ Kept(g)'.things = g
    /\ \A h \in Characters : h # g => Kept(h)' = Kept(h)
LateSpoils(g) ==
    \E other \in {g} \cup (Characters \ InWorld) :
        /\ spoiled' = spoiled \cup {g, other}
        /\ \A h \in Characters : h # g /\ h # other => Kept(h)' = Kept(h)

\* What is stored late changes nobody's visits.
LEMMA LateData ==
    ASSUME VoiceInv, SlotInv, Unique', FileMatches, Bury, NEW g \in Characters,
           g = game.who, SaveInventoryLate(game.slot, g)
    PROVE  /\ FileMatches'
           /\ \A h \in Characters : Kept(h)'.visits = Kept(h).visits
           /\ LatePutAway(g) \/ LateSpoils(g)
<1>1. slots \in [Slots -> SlotRecord] /\ Unique /\ g # Nobody
  BY Distinct DEF SlotInv, VoiceInv, Shaped
<1>2. PICK i \in Slots : i = game.slot
  BY DEF Bury, SlotInv, GameHolds, GameHold
<1>3. /\ \A j \in Slots : BeingLoaded(j)' <=> BeingLoaded(j)
      /\ file' = file
  BY GameLoads DEF GameThread, GameStep, Bury
<1> DEFINE s == slots[i]
           e == slots[i].data
           d == [e EXCEPT !.things = g]
           r == [s EXCEPT !.data = d]
<1>4. slots' = [slots EXCEPT ![i] = r]
  BY <1>2 DEF SaveInventoryLate
<1>5. d.visits = e.visits /\ d.things = g
  <2>1. e \in Stored
    BY <1>1, SlotFields
  <2> HIDE DEF e
  <2> QED BY <2>1 DEF Stored
<1>6. r.character = s.character /\ r.dirty = s.dirty /\ r.data = d
  <2>1. s \in SlotRecord
    BY <1>1
  <2> HIDE DEF s, d
  <2> QED BY <2>1 DEF SlotRecord
<1> HIDE DEF r, d
<1>7. /\ slots'[i].character = slots[i].character /\ slots'[i].dirty = slots[i].dirty
      /\ slots'[i].data.visits = slots[i].data.visits /\ slots'[i].data.things = g
      /\ \A j \in Slots : j # i => slots'[j] = slots[j]
  <2>1. slots'[i] = r /\ \A j \in Slots : j # i => slots'[j] = slots[j]
    <3> HIDE DEF SlotRecord
    <3> QED BY <1>1, <1>4
  <2> QED BY <1>5, <1>6, <2>1
<1>8. \/ spoiled' = spoiled /\ slots[i].character = g /\ slots[i].dirty
      \/ spoiled' = spoiled \cup ({g, slots[i].character} \ {Nobody})
  BY <1>2 DEF SaveInventoryLate
<1>9. FileMatches'
  <2> SUFFICES ASSUME NEW j \in Slots, slots'[j].character # Nobody, ~BeingLoaded(j)',
                      ~slots'[j].dirty
               PROVE  Seen(spoiled', slots'[j].character, slots'[j].data)
                         = Seen(spoiled', slots'[j].character, file'[slots'[j].character])
    BY DEF FileMatches
  <2>1. slots'[j].character = slots[j].character /\ ~BeingLoaded(j) /\ ~slots[j].dirty
    BY <1>3, <1>7
  <2>2. Seen(spoiled, slots[j].character, slots[j].data)
           = Seen(spoiled, slots[j].character, file[slots[j].character])
    BY <2>1 DEF FileMatches
  <2>3. Seen(spoiled', slots[j].character, slots[j].data)
           = Seen(spoiled', slots[j].character, file[slots[j].character])
    <3>1. slots[j].character \in spoiled => slots[j].character \in spoiled'
      BY <1>8
    <3> QED BY <2>2, <3>1, SeenLess
  <2>4. CASE j # i
    BY <1>3, <1>7, <2>3, <2>4
  <2>5. CASE j = i
    <3>1. slots[j].character \in spoiled'
      BY <1>8, <2>1, <2>5
    <3>2. Seen(spoiled', slots[j].character, slots'[j].data)
             = Seen(spoiled', slots[j].character, slots[j].data)
      BY <1>7, <2>5, <3>1 DEF Seen
    <3> QED BY <1>3, <2>1, <2>3, <3>2
  <2> QED BY <2>4, <2>5
<1>10. ASSUME NEW h \in Characters, h # slots[i].character PROVE Kept(h)' = Kept(h)
  <2>1. CASE Loaded(h)
    <3>1. PICK j \in Slots : slots[j].character = h
      BY <2>1 DEF Loaded, SlotsOf
    <3>2. slots'[j] = slots[j]
      BY <1>7, <1>10, <3>1
    <3> QED BY <1>1, <1>3, <3>1, <3>2, KeptIs
  <2>2. CASE ~Loaded(h)
    <3>1. ~Loaded(h)'
      BY <1>7, <1>10, <2>2 DEF Loaded, SlotsOf
    <3> QED BY <1>1, <1>3, <2>2, <3>1, KeptIs
  <2> QED BY <2>1, <2>2
<1>11. ASSUME NEW h \in Characters, h = slots[i].character
       PROVE  Kept(h)' = Kept(h) \/ (Kept(h) = slots[i].data /\ Kept(h)' = slots'[i].data)
  BY <1>1, <1>3, <1>7, <1>11, KeptIs
<1>12. \A h \in Characters : Kept(h)'.visits = Kept(h).visits
  BY <1>7, <1>10, <1>11
<1>13. CASE spoiled' = spoiled /\ slots[i].character = g
  <2>1. Kept(g)' = Kept(g) \/ Kept(g)' = slots'[i].data
    BY <1>11, <1>13
  <2>2. Kept(g)' = Kept(g) \/ Kept(g)'.things = g
    BY <1>7, <2>1
  <2>3. \A h \in Characters : h # g => Kept(h)' = Kept(h)
    BY <1>10, <1>13
  <2>4. LatePutAway(g)
    BY <1>13, <2>2, <2>3 DEF LatePutAway
  <2> QED BY <1>9, <1>12, <2>4
<1>14. CASE spoiled' = spoiled \cup ({g, slots[i].character} \ {Nobody})
  <2>1. PICK other : other = IF slots[i].character = Nobody THEN g ELSE slots[i].character
    OBVIOUS
  <2>2. spoiled' = spoiled \cup {g, other}
    BY <1>1, <1>14, <2>1
  <2>3. \A h \in Characters : h # g /\ h # other => Kept(h)' = Kept(h)
    BY <1>10, <2>1, Distinct
  <2>4. other \in {g} \cup (Characters \ InWorld)
    <3> SUFFICES ASSUME other # g PROVE other \in Characters \ InWorld
      OBVIOUS
    <3>1. other = slots[i].character /\ other # Nobody /\ other \in Characters
      BY <1>1, <2>1, SlotFields DEF SomeCharacter
    <3>2. ~Leaving(other)
      BY DEF Leaving
    <3>3. ASSUME players[other].there PROVE FALSE
      <4>1. players[other].slot \in Slots /\ slots[players[other].slot].character = other
        BY <3>1, <3>2, <3>3, PlayFacts
      <4>2. players[other].slot = i
        BY <1>1, <3>1, <4>1 DEF Unique
      <4>3. players[other].slot # game.slot
        BY <3>1, <3>3 DEF Bury, SlotInv, GameHolds, GameHold
      <4> QED BY <1>2, <4>2, <4>3
    <3> QED BY <3>1, <3>3 DEF InWorld
  <2>5. LateSpoils(g)
    <3> HIDE DEF Kept, InWorld
    <3> QED BY <2>2, <2>3, <2>4, Zenon DEF LateSpoils
  <2> QED BY <1>9, <1>12, <2>5
<1> QED BY <1>8, <1>9, <1>12, <1>13, <1>14

LEMMA BuryKept ==
    ASSUME VoiceInv, SlotInv, Unique', FileMatches, Bury
    PROVE  /\ FileMatches'
           /\ \A h \in Characters : Kept(h)'.visits = Kept(h).visits
           /\ \/ KeepsData
              \/ /\ players[game.who].isDead
                 /\ LatePutAway(game.who) \/ LateSpoils(game.who)
<1>1. CASE UNCHANGED <<slots, spoiled>>
  <2>1. \A j \in Slots : BeingLoaded(j)' <=> BeingLoaded(j)
    BY GameLoads DEF GameThread, GameStep
  <2>2. file' = file /\ SameData
    BY <1>1 DEF Bury, SameData
  <2>3. KeepsData
    BY <1>1, <2>1, <2>2, QuietData DEF SlotInv
  <2> QED BY <2>3, SeenSays DEF KeepsData
<1>2. CASE Player(game.who).isDead /\ SaveInventoryLate(game.slot, game.who)
  <2>1. PICK g \in Characters : g = game.who
    BY DEF Bury, SlotInv, GameHolds, GameHold
  <2> QED BY <1>2, <2>1, LateData DEF Player
<1> QED BY <1>1, <1>2 DEF Bury

\* A player has the data its slot had, and what is stored is one save ahead
\* of it once ~TPlayer has begun.
PlayedMatches ==
    \A ch \in Characters : players[ch].there =>
        Kept(ch).visits = players[ch].data.visits + (IF Leaving(ch) THEN 1 ELSE 0)

DataInv == FileMatches /\ PlayedMatches

LEMMA KeptTyped ==
    ASSUME VoiceInv, SlotInv, NEW ch \in Characters
    PROVE  Kept(ch) \in Stored
<1>1. file \in [Characters -> Stored] /\ slots \in [Slots -> SlotRecord]
  BY DEF VoiceInv, Shaped
<1>2. CASE Loaded(ch)
  <2>1. PICK i \in Slots : SlotsOf(ch) = {i}
    BY <1>2, Distinct DEF Loaded, SlotsOf, SlotInv, Unique
  <2>2. slots[i].data \in Stored
    BY <1>1, SlotFields
  <2> HIDE DEF BeingLoaded
  <2> QED BY <1>1, <2>1, <2>2 DEF Kept
<1>3. CASE ~Loaded(ch)
  BY <1>1, <1>3 DEF Loaded, Kept
<1> QED BY <1>2, <1>3

\* ~TPlayer is begun by Delete and done with Bury.
LEMMA LeavingStays ==
    ASSUME VoiceInv, SlotInv, GameThread, ~Bury, NEW ch \in Characters, ~Delete(ch)
    PROVE  Leaving(ch)' <=> Leaving(ch)
<1>1. CASE Playing
  <2>1. ~Leaving(ch)
    BY <1>1, PlayingStays
  <2>2. CASE \E h \in Characters : Delete(h)
    <3>1. PICK h \in Characters : Delete(h)
      BY <2>2
    <3>2. h # ch
      BY <3>1
    <3>3. game'.who = h
      BY <3>1 DEF Delete
    <3> QED BY <2>1, <3>2, <3>3 DEF Leaving
  <2>3. CASE UNCHANGED game
    BY <2>1, <2>3 DEF Leaving
  <2>4. CASE \E c \in Conns : JoinNew(c)
    BY <2>1, <2>4 DEF JoinNew, Leaving
  <2>5. CASE TakeReply
    BY <2>1, <2>3, <2>5 DEF TakeReply, Leaving
  <2>6. ~Attach /\ ~AttachFails /\ ~ReleaseSlot /\ ~SendMails
    BY <1>1 DEF Playing, Loop, Attach, AttachFails, ReleaseSlot, SendMails
  <2>7. \/ UNCHANGED game \/ TakeReply \/ \E c \in Conns : JoinNew(c)
        \/ \E h \in Characters : Delete(h)
    BY <2>6 DEF GameThread, GameStep, JoinRefused, TakeOver, LogOut, LetGo, Die, OrderMail
  <2> QED BY <2>2, <2>3, <2>4, <2>5, <2>7
<1>2. CASE ~Playing
  <2>1. GameStep /\ ~TakeReply
    BY <1>2, Zenon DEF GameThread, GameStep, TakeReply, JoinNew, JoinRefused, TakeOver, LogOut,
       LetGo, Die, Delete, OrderMail
  <2>2. CASE Attach \/ SendMails
    <3>1. game.at \notin {"release", "bury"} /\ game' = Loop
      BY <2>2 DEF Attach, SendMails
    <3> QED BY <3>1 DEF Leaving, Loop
  <2>3. CASE ReleaseSlot
    <3>1. game.at = "release" /\ game = [at |-> game.at, who |-> game.who, slot |-> game.slot]
      BY <2>3 DEF ReleaseSlot, VoiceInv, Waiting
    <3>2. PICK w, s : game = [at |-> "release", who |-> w, slot |-> s]
      BY <3>1
    <3>3. game' = [at |-> "bury", who |-> w, slot |-> s]
      BY <2>3, <3>2 DEF ReleaseSlot
    <3> QED BY <3>2, <3>3 DEF Leaving
  <2> QED BY <2>1, <2>2, <2>3, AttachWorks DEF GameStep
<1> QED BY <1>1, <1>2

\* Who enters gets the data in the slot, which is what is kept.
LEMMA AttachData ==
    ASSUME VoiceInv, SlotInv, Attach
    PROVE  \E c \in Conns, ch \in Characters :
              /\ conns[c].state = "LOGIN" /\ ~players[ch].there
              /\ players'[ch].there /\ players'[ch].connection = c
              /\ players'[ch].data = Kept(ch) /\ ~players'[ch].isDead
              /\ \A h \in Characters : h # ch => players'[h] = players[h]
              /\ \A h \in Characters : ~Leaving(h) /\ ~Leaving(h)'
<1>1. PICK c \in Conns : c = game.who /\ conns[c].state = "LOGIN"
  BY DEF Attach, VoiceInv, Waiting
<1>2. PICK ch \in Characters : ch = conns[c].character /\ ~players[ch].there
  BY <1>1, JoinFacts DEF Attach, VoiceInv, Waiting, InWorld
<1>3. PICK i \in SlotsOf(ch) :
          /\ slots[i].locked = Nobody
          /\ players' = [players EXCEPT ![ch] =
                [Absent EXCEPT !.there = TRUE, !.slot = i, !.connection = c,
                               !.data = slots[i].data]]
  BY <1>1, <1>2 DEF Attach
<1>4. i \in Slots /\ slots[i].character = ch
  BY <1>3 DEF SlotsOf
<1> DEFINE d == slots[i].data
           r == [Absent EXCEPT !.there = TRUE, !.slot = i, !.connection = c, !.data = d]
<1>5. r.there /\ r.connection = c /\ r.data = d /\ ~r.isDead
  BY DEF Absent
<1> HIDE DEF r
<1>6. players'[ch] = r /\ \A h \in Characters : h # ch => players'[h] = players[h]
  <2>1. players \in [Characters -> PlayerRecord]
    BY DEF VoiceInv, Shaped
  <2>2. players' = [players EXCEPT ![ch] = r]
    BY <1>3 DEF r
  <2> HIDE DEF PlayerRecord
  <2> QED BY <2>1, <2>2
<1>7. Kept(ch) = d
  <2>1. ~BeingLoaded(i)
    BY <1>3, <1>4, LoadedIsLocked
  <2>2. SlotsOf(ch) = {i}
    BY <1>4, Distinct DEF SlotInv, Unique, SlotsOf
  <2> HIDE DEF BeingLoaded
  <2> QED BY <2>1, <2>2 DEF Kept
<1>8. \A h \in Characters : ~Leaving(h) /\ ~Leaving(h)'
  BY DEF Attach, Leaving, Loop
<1> QED BY <1>1, <1>2, <1>5, <1>6, <1>7, <1>8

LEMMA BuryData ==
    ASSUME VoiceInv, SlotInv, Bury
    PROVE  \E ch \in Characters :
              /\ ch = game.who /\ Leaving(ch) /\ players[ch].there
              /\ players'[ch] = Absent
              /\ \A h \in Characters : h # ch => players'[h] = players[h]
              /\ \A h \in Characters : h # ch => ~Leaving(h)
              /\ \A h \in Characters : ~Leaving(h)'
<1>1. PICK ch \in Characters : ch = game.who /\ players[ch].there
  BY DEF Bury, SlotInv, GameHolds, GameHold
<1>2. players'[ch] = Absent /\ \A h \in Characters : h # ch => players'[h] = players[h]
  <2>1. players \in [Characters -> PlayerRecord]
    BY DEF VoiceInv, Shaped
  <2> HIDE DEF PlayerRecord
  <2> QED BY <1>1, <2>1 DEF Bury
<1>3. Leaving(ch) /\ (\A h \in Characters : h # ch => ~Leaving(h))
      /\ (\A h \in Characters : ~Leaving(h)')
  BY <1>1 DEF Bury, Leaving, Loop
<1> QED BY <1>1, <1>2, <1>3

LEMMA OnlyGamePlays ==
    ASSUME VoiceInv, [Next]_vars, ~GameThread
    PROVE  UNCHANGED <<players, game, mails>>
<1>1. ASSUME NEW c \in Conns, CommunicationThread(c) PROVE UNCHANGED <<players, game, mails>>
  BY <1>1 DEF CommunicationThread, Register, AssignSlot, FindNoSlot, LoadSlot, LoadFails,
     ForgetSlot, BlockLogin, KeepSlot, UnlockSlot, CallGameThread, FreeConnection, others
<1>2. ReaderThread \/ WriterThread => UNCHANGED <<players, game, mails>>
  BY DEF ReaderThread, ReaderTakesOrder, ReaderAssigns, ReaderFindsNoSlot,
     ReaderLoads, ReaderLoadFails, ReaderForgets, ReaderGivesUp, ReaderKeeps,
     ReaderTriesAgain, ReaderReplies, unread, WriterThread, WriterAttaches, WriterSaves,
     WriterPicks, unwritten
<1>3. UNCHANGED vars => UNCHANGED <<players, game, mails>>
  BY DEF vars
<1> QED BY <1>1, <1>2, <1>3 DEF Next

LEMMA StepData ==
    ASSUME VoiceInv, SlotInv, SlotInv', DataInv, [Next]_vars
    PROVE  /\ DataInv'
           /\ ~Bury /\ ~(\E ch \in Characters : Delete(ch)) => KeepsData
<1>1. Unique' /\ FileMatches
  BY DEF SlotInv, DataInv
<1>2. CASE \E ch \in Characters : Delete(ch)
  <2>1. PICK ch \in Characters : Delete(ch)
    BY <1>2
  <2>2. /\ FileMatches' /\ Kept(ch)' = Left(ch)
        /\ \A h \in Characters : h # ch => Kept(h)' = Kept(h)
    BY <1>1, <2>1, DeleteData
  <2>3. Left(ch).visits = players[ch].data.visits + 1
    BY DEF Left, Player
  <2>4. /\ Leaving(ch)' /\ players' = players
        /\ \A h \in Characters : ~Leaving(h)
        /\ \A h \in Characters : h # ch => ~Leaving(h)'
    BY <2>1, PlayingStays DEF Delete, Leaving
  <2>5. ASSUME NEW h \in Characters, players'[h].there
        PROVE  Kept(h)'.visits = players'[h].data.visits + (IF Leaving(h)' THEN 1 ELSE 0)
    BY <2>2, <2>3, <2>4, <2>5 DEF DataInv, PlayedMatches
  <2> QED BY <1>2, <2>2, <2>5 DEF DataInv, PlayedMatches
<1>3. CASE Bury
  <2>1. FileMatches' /\ \A h \in Characters : Kept(h)'.visits = Kept(h).visits
    BY <1>1, <1>3, BuryKept
  <2>2. PICK ch \in Characters :
          /\ players'[ch] = Absent
          /\ \A g \in Characters : g # ch => players'[g] = players[g] /\ ~Leaving(g)
          /\ \A g \in Characters : ~Leaving(g)'
    BY <1>3, BuryData
  <2>3. ASSUME NEW h \in Characters, players'[h].there
        PROVE  Kept(h)'.visits = players'[h].data.visits + (IF Leaving(h)' THEN 1 ELSE 0)
    <3>1. h # ch
      BY <2>2, <2>3 DEF Absent
    <3> QED BY <2>1, <2>2, <2>3, <3>1 DEF DataInv, PlayedMatches
  <2> QED BY <1>3, <2>1, <2>3 DEF DataInv, PlayedMatches
<1>4. CASE ~Bury /\ ~ \E ch \in Characters : Delete(ch)
  <2>1. KeepsData
    <3>1. CASE UNCHANGED vars
      <4>1. /\ SameData /\ file' = file /\ spoiled' = spoiled
            /\ (\A i \in Slots : BeingLoaded(i)' <=> BeingLoaded(i))
        BY <3>1 DEF vars, SameData, BeingLoaded, At
      <4> QED BY <1>1, <4>1, QuietData DEF SlotInv
    <3> QED BY <1>1, <1>4, <3>1, CommData, GameData, ReaderData, WriterData DEF Next
  <2>2. ASSUME NEW h \in Characters, players'[h].there
        PROVE  Kept(h)'.visits = players'[h].data.visits + (IF Leaving(h)' THEN 1 ELSE 0)
    <3>1. Kept(h)'.visits = Kept(h).visits
      BY <2>1, SeenSays
    <3>2. players[h].there =>
             Kept(h).visits = players[h].data.visits + (IF Leaving(h) THEN 1 ELSE 0)
      BY DEF DataInv, PlayedMatches
    <3>3. CASE Attach
      <4>1. PICK ch \in Characters :
              /\ players'[ch].data = Kept(ch)
              /\ \A g \in Characters : g # ch => players'[g] = players[g]
              /\ \A g \in Characters : ~Leaving(g) /\ ~Leaving(g)'
        BY <3>3, AttachData
      <4>2. CASE h = ch
        <5>1. Kept(h).visits \in Nat
          BY KeptTyped DEF Stored
        <5> QED BY <3>1, <4>1, <4>2, <5>1
      <4>3. CASE h # ch
        BY <2>2, <3>1, <3>2, <4>1, <4>3
      <4> QED BY <4>2, <4>3
    <3>4. CASE GameThread /\ ~Attach
      <4>1. players'[h].there = players[h].there /\ players'[h].data = players[h].data
        BY <1>4, <3>4, PlayersStay
      <4>2. Leaving(h)' <=> Leaving(h)
        BY <1>4, <3>4, LeavingStays
      <4> QED BY <2>2, <3>1, <3>2, <4>1, <4>2
    <3>5. CASE UNCHANGED <<players, game>>
      <4>1. Leaving(h)' <=> Leaving(h)
        BY <3>5 DEF Leaving
      <4> QED BY <2>2, <3>1, <3>2, <3>5, <4>1
    <3>6. GameThread \/ UNCHANGED <<players, game>>
      BY OnlyGamePlays
    <3> QED BY <3>3, <3>4, <3>5, <3>6
  <2> QED BY <2>1, <2>2 DEF DataInv, PlayedMatches, KeepsData
<1> QED BY <1>2, <1>3, <1>4

-----------------------------------------------------------------------------
(* The game service keeps its promise.                                       *)

\* What a connection owns changes for one character at a time.
LEMMA OwnerBecomes ==
    ASSUME NEW ch \in Characters, NEW o, players'[ch].connection = o,
           \A h \in Characters : h # ch => players'[h] = players[h]
    PROVE  [h \in Characters |-> players'[h].connection]
              = [[h \in Characters |-> players[h].connection] EXCEPT ![ch] = o]
<1> DEFINE F == [h \in Characters |-> players'[h].connection]
           G == [[h \in Characters |-> players[h].connection] EXCEPT ![ch] = o]
<1>1. \A h \in Characters : F[h] = G[h]
  OBVIOUS
<1>2. DOMAIN F = Characters /\ DOMAIN G = Characters
  OBVIOUS
<1> QED BY <1>1, <1>2

\* The state of the promise: who fell, who owns whom, and what is remembered.
Fallen == {ch \in InWorld : players[ch].isDead}
Owner == [ch \in Characters |-> players[ch].connection]
Visits == [ch \in Characters |-> Kept(ch).visits]
Played == [ch \in Characters |-> IF players[ch].there THEN players[ch].data.visits
                                 ELSE Kept(ch).visits]
Belongings == [ch \in Characters |-> Things(ch)]

\* What is remembered of everybody stays.
LEMMA Remembered ==
    ASSUME KeepsData
    PROVE  /\ \A ch \in Characters : Kept(ch)'.visits = Kept(ch).visits
           /\ UNCHANGED <<Visits, Belongings>>
<1>1. \A ch \in Characters : Kept(ch)'.visits = Kept(ch).visits /\ Things(ch)' = Things(ch)
  BY SeenSays
<1>2. Visits' = Visits /\ Belongings' = Belongings
  BY <1>1 DEF Visits, Belongings
<1> QED BY <1>1, <1>2

LEMMA PlayedStays ==
    ASSUME \A ch \in Characters : /\ players'[ch].there = players[ch].there
                                  /\ players'[ch].data = players[ch].data
                                  /\ Kept(ch)'.visits = Kept(ch).visits
    PROVE  Played' = Played
<1>1. \A ch \in Characters :
         (IF players'[ch].there THEN players'[ch].data.visits ELSE Kept(ch)'.visits)
            = (IF players[ch].there THEN players[ch].data.visits ELSE Kept(ch).visits)
  OBVIOUS
<1> QED BY <1>1 DEF Played

\* A step that keeps who is there, who fell, who owns it and what is
\* remembered is no step of the promise.
LEMMA Unseen ==
    ASSUME KeepsData,
           \A ch \in Characters : /\ players'[ch].there = players[ch].there
                                  /\ players'[ch].connection = players[ch].connection
                                  /\ players'[ch].data = players[ch].data
                                  /\ players'[ch].isDead = players[ch].isDead
    PROVE  UNCHANGED Ownership!vars
<1>1. InWorld' = InWorld
  BY DEF InWorld
<1>2. Fallen' = Fallen
  BY <1>1 DEF Fallen, InWorld
<1>3. Owner' = Owner
  BY DEF Owner
<1>4. Visits' = Visits /\ Belongings' = Belongings /\ Played' = Played
  BY Remembered, PlayedStays
<1> QED BY <1>1, <1>2, <1>3, <1>4
        DEF Ownership!vars, Fallen, Owner, Visits, Played, Belongings

\* A connection under registration speaks for nobody.
LEMMA LoginUnbound ==
    ASSUME VoiceInv, NEW c \in Conns, conns[c].state = "LOGIN"
    PROVE  \A h \in Characters : Owner[h] # c
  BY DEF Owner, VoiceInv, OneVoice

LEMMA AttachKeepsPromise ==
    ASSUME VoiceInv, SlotInv, KeepsData, Attach
    PROVE  Ownership!Next
<1>1. PICK c \in Conns, ch \in Characters :
         /\ conns[c].state = "LOGIN" /\ ~players[ch].there
         /\ players'[ch].there /\ players'[ch].connection = c
         /\ players'[ch].data = Kept(ch) /\ ~players'[ch].isDead
         /\ \A h \in Characters : h # ch => players'[h] = players[h]
  BY AttachData
<1>2. ch \notin InWorld /\ InWorld' = InWorld \cup {ch}
  BY <1>1 DEF InWorld
<1>3. Owner' = [Owner EXCEPT ![ch] = c]
  BY <1>1, OwnerBecomes DEF Owner
<1>4. Fallen' = Fallen
  BY <1>1, <1>2 DEF Fallen, InWorld
<1>5. /\ \A h \in Characters : Kept(h)'.visits = Kept(h).visits
      /\ Visits' = Visits /\ Belongings' = Belongings
  BY Remembered
<1>6. Played' = Played
  <2>1. \A h \in Characters :
           (IF players'[h].there THEN players'[h].data.visits ELSE Kept(h)'.visits)
              = (IF players[h].there THEN players[h].data.visits ELSE Kept(h).visits)
    BY <1>1, <1>5
  <2> QED BY <2>1 DEF Played
<1>7. \A h \in Characters : Owner[h] # c
  BY <1>1, LoginUnbound
<1>8. Ownership!Enter(ch, c)
  BY <1>2, <1>3, <1>4, <1>5, <1>6, <1>7
     DEF Ownership!Enter, Ownership!Unbound, Fallen, Owner, Visits, Played, Belongings
<1> QED BY <1>8 DEF Ownership!Next

LEMMA TakeOverKeepsPromise ==
    ASSUME VoiceInv, SlotInv, KeepsData, NEW c \in Conns, TakeOver(c)
    PROVE  Ownership!Next
<1>1. conns[c].state = "LOGIN"
  BY DEF TakeOver
<1>2. PICK ch \in Characters : ch = conns[c].character
  BY <1>1, JoinFacts
<1>3. /\ players[ch].there /\ ~players[ch].isDead
      /\ players' = [players EXCEPT ![ch] = [@ EXCEPT !.connection = c,
                        !.loggingOut = FALSE, !.logoutAllowed = FALSE]]
  BY <1>2 DEF TakeOver, Player, InWorld
<1> DEFINE p == players[ch]
           r == [p EXCEPT !.connection = c, !.loggingOut = FALSE, !.logoutAllowed = FALSE]
<1>4. p \in PlayerRecord /\ players \in [Characters -> PlayerRecord]
  BY DEF VoiceInv, Shaped
<1>5. r.connection = c /\ r.there = p.there /\ r.data = p.data /\ r.isDead = p.isDead
  <2> HIDE DEF p
  <2> QED BY <1>4 DEF PlayerRecord
<1>6. players'[ch] = r /\ \A h \in Characters : h # ch => players'[h] = players[h]
  <2> HIDE DEF PlayerRecord
  <2> QED BY <1>3, <1>4
<1> HIDE DEF r
<1>7. \A h \in Characters : /\ players'[h].there = players[h].there
                            /\ players'[h].data = players[h].data
                            /\ players'[h].isDead = players[h].isDead
  BY <1>5, <1>6
<1>8. ch \in InWorld /\ InWorld' = InWorld
  BY <1>3, <1>7 DEF InWorld
<1>9. ch \notin Fallen /\ Fallen' = Fallen
  BY <1>3, <1>7, <1>8 DEF Fallen, InWorld
<1>10. Owner' = [Owner EXCEPT ![ch] = c]
  BY <1>5, <1>6, OwnerBecomes DEF Owner
<1>11. Visits' = Visits /\ Belongings' = Belongings /\ Played' = Played
  BY <1>7, Remembered, PlayedStays
<1>12. \A h \in Characters : Owner[h] # c
  BY <1>1, LoginUnbound
<1>13. Ownership!TakeOver(ch, c)
  BY <1>8, <1>9, <1>10, <1>11, <1>12
     DEF Ownership!TakeOver, Ownership!Unbound, Fallen, Owner, Visits, Played, Belongings
<1> QED BY <1>13 DEF Ownership!Next

LEMMA LogOutKeepsPromise ==
    ASSUME VoiceInv, SlotInv, KeepsData, NEW c \in Conns, NEW asked \in BOOLEAN,
           LogOut(c, asked)
    PROVE  Ownership!Next
<1>1. PICK ch \in Characters : ch = conns[c].character /\ players[ch].connection = c
  BY DEF LogOut, VoiceInv, Placed, RecordPlaced, OneVoice
<1>2. players[ch].there
  BY <1>1, Distinct DEF VoiceInv, Silent
<1> DEFINE p == players[ch]
           y == p.logoutAllowed \/ (asked /\ ~p.isDead)
           r == [p EXCEPT !.connection = Nobody, !.loggingOut = TRUE, !.logoutAllowed = y]
<1>3. players' = [players EXCEPT ![ch] = r]
  BY <1>1 DEF LogOut, Player
<1>4. p \in PlayerRecord /\ players \in [Characters -> PlayerRecord]
  BY DEF VoiceInv, Shaped
<1>5. r.connection = Nobody /\ r.there = p.there /\ r.data = p.data /\ r.isDead = p.isDead
  <2> HIDE DEF p, y
  <2> QED BY <1>4 DEF PlayerRecord
<1> HIDE DEF r
<1>6. players'[ch] = r /\ \A h \in Characters : h # ch => players'[h] = players[h]
  <2> HIDE DEF PlayerRecord
  <2> QED BY <1>3, <1>4
<1>7. \A h \in Characters : /\ players'[h].there = players[h].there
                            /\ players'[h].data = players[h].data
                            /\ players'[h].isDead = players[h].isDead
  BY <1>5, <1>6
<1>8. ch \in InWorld /\ InWorld' = InWorld
  BY <1>2, <1>7 DEF InWorld
<1>9. Fallen' = Fallen
  BY <1>7, <1>8 DEF Fallen, InWorld
<1>10. Owner' = [Owner EXCEPT ![ch] = Nobody]
  BY <1>5, <1>6, OwnerBecomes DEF Owner
<1>11. Visits' = Visits /\ Belongings' = Belongings /\ Played' = Played
  BY <1>7, Remembered, PlayedStays
<1>12. Ownership!Lose(ch)
  BY <1>8, <1>9, <1>10, <1>11
     DEF Ownership!Lose, Fallen, Owner, Visits, Played, Belongings
<1> QED BY <1>12 DEF Ownership!Next

LEMMA DieKeepsPromise ==
    ASSUME VoiceInv, KeepsData, NEW ch \in Characters, Die(ch)
    PROVE  Ownership!Next
<1> DEFINE p == players[ch]
           r == [p EXCEPT !.isDead = TRUE, !.loggingOut = TRUE]
<1>1. players[ch].there /\ players' = [players EXCEPT ![ch] = r]
  BY DEF Die, Player
<1>2. p \in PlayerRecord /\ players \in [Characters -> PlayerRecord]
  BY DEF VoiceInv, Shaped
<1>3. r.isDead /\ r.there = p.there /\ r.data = p.data /\ r.connection = p.connection
  <2> HIDE DEF p
  <2> QED BY <1>2 DEF PlayerRecord
<1> HIDE DEF r
<1>4. players'[ch] = r /\ \A h \in Characters : h # ch => players'[h] = players[h]
  <2> HIDE DEF PlayerRecord
  <2> QED BY <1>1, <1>2
<1>5. \A h \in Characters : /\ players'[h].there = players[h].there
                            /\ players'[h].data = players[h].data
                            /\ players'[h].connection = players[h].connection
  BY <1>3, <1>4
<1>6. ch \in InWorld /\ InWorld' = InWorld
  BY <1>1, <1>5 DEF InWorld
<1>7. Fallen' = Fallen \cup {ch}
  BY <1>3, <1>4, <1>6 DEF Fallen, InWorld
<1>8. Owner' = Owner
  BY <1>5 DEF Owner
<1>9. Visits' = Visits /\ Belongings' = Belongings /\ Played' = Played
  BY <1>5, Remembered, PlayedStays
<1>10. Ownership!Fall(ch)
  BY <1>6, <1>7, <1>8, <1>9 DEF Ownership!Fall, Fallen, Owner, Visits, Played, Belongings
<1> QED BY <1>10 DEF Ownership!Next

LEMMA DeleteKeepsPromise ==
    ASSUME VoiceInv, SlotInv, Unique', DataInv, NEW ch \in Characters, Delete(ch)
    PROVE  Ownership!Next
<1>1. /\ spoiled' = spoiled \ {ch} /\ Kept(ch)' = Left(ch)
      /\ \A h \in Characters : h # ch => Kept(h)' = Kept(h)
  BY DeleteData DEF DataInv
<1>2. players[ch].there /\ ~Leaving(ch) /\ players' = players
  BY PlayingStays DEF Delete, Player
<1>3. Kept(ch).visits = players[ch].data.visits
  <2>1. players[ch].data.visits + 0 = players[ch].data.visits
    <3>1. players[ch] \in PlayerRecord
      BY DEF VoiceInv, Shaped
    <3>2. players[ch].data \in Stored
      BY ONLY <3>1 DEF PlayerRecord
    <3>3. players[ch].data.visits \in Nat
      BY ONLY <3>2 DEF Stored
    <3> QED BY ONLY <3>3
  <2> QED BY <1>2, <2>1 DEF DataInv, PlayedMatches
<1>4. /\ Kept(ch)'.visits = Kept(ch).visits + 1
      /\ Kept(ch)'.things = IF players[ch].isDead THEN Nobody ELSE ch
  <2>1. /\ Left(ch).visits = players[ch].data.visits + 1
        /\ Left(ch).things = IF players[ch].isDead THEN Nobody ELSE ch
    BY DEF Left, Player
  <2> QED BY <1>1, <1>3, <2>1
<1>5. ch \in InWorld /\ InWorld' = InWorld /\ Fallen' = Fallen /\ Owner' = Owner
  BY <1>2 DEF InWorld, Fallen, Owner
<1>6. Visits' = [Visits EXCEPT ![ch] = @ + 1]
  <2>1. \A h \in Characters : Visits'[h] = [Visits EXCEPT ![ch] = @ + 1][h]
    BY <1>1, <1>4 DEF Visits
  <2> QED BY <2>1 DEF Visits
<1>7. Belongings' = [Belongings EXCEPT ![ch] = IF ch \in Fallen THEN "none" ELSE "own"]
  <2>1. Things(ch)' = IF ch \in Fallen THEN "none" ELSE "own"
    <3>1. ch \notin spoiled' /\ ch # Nobody /\ (ch \in Fallen <=> players[ch].isDead)
      BY <1>1, <1>2, Distinct DEF Fallen, InWorld
    <3> QED BY <1>4, <3>1 DEF Things
  <2>2. ASSUME NEW h \in Characters, h # ch PROVE Things(h)' = Things(h)
    BY <1>1, <2>2 DEF Things
  <2> DEFINE t == IF ch \in Fallen THEN "none" ELSE "own"
  <2> HIDE DEF t
  <2>3. \A h \in Characters : Belongings'[h] = [Belongings EXCEPT ![ch] = t][h]
    BY <2>1, <2>2 DEF Belongings, t
  <2>4. Belongings' = [Belongings EXCEPT ![ch] = t]
    BY <2>3 DEF Belongings
  <2> QED BY <2>4 DEF t
<1>8. Played' = Played
  <2>1. \A h \in Characters :
           (IF players'[h].there THEN players'[h].data.visits ELSE Kept(h)'.visits)
              = (IF players[h].there THEN players[h].data.visits ELSE Kept(h).visits)
    BY <1>1, <1>2
  <2> QED BY <2>1 DEF Played
<1>9. Visits[ch] = Played[ch]
  BY <1>2, <1>3 DEF Visits, Played
<1>10. Ownership!Store(ch)
  BY <1>5, <1>6, <1>7, <1>8, <1>9
     DEF Ownership!Store, Fallen, Owner, Visits, Played, Belongings
<1> QED BY <1>10 DEF Ownership!Next

\* The late write of a dead player puts its things away, or spoils them and
\* those of one who is not in the world.
LEMMA LateThings ==
    ASSUME NEW ch \in Characters, LatePutAway(ch) \/ LateSpoils(ch)
    PROVE  \/ Belongings' = Belongings
           \/ Belongings' = [Belongings EXCEPT ![ch] = "own"]
           \/ \E other \in {ch} \cup (Characters \ InWorld) :
                 Belongings' = [h \in Characters |-> IF h \in {ch, other} THEN "spoiled"
                                                     ELSE Belongings[h]]
<1>1. CASE LatePutAway(ch)
  <2>1. \A h \in Characters : h # ch => Things(h)' = Things(h)
    BY <1>1 DEF LatePutAway, Things
  <2>2. Things(ch)' = Things(ch) \/ Things(ch)' = "own"
    <3>1. CASE ch \in spoiled \/ Kept(ch)' = Kept(ch)
      BY <1>1, <3>1 DEF LatePutAway, Things
    <3>2. CASE ch \notin spoiled /\ Kept(ch)'.things = ch
      <4>1. ch \notin spoiled'
        BY <1>1, <3>2 DEF LatePutAway
      <4>2. ch # Nobody
        BY Distinct
      <4> QED BY <3>2, <4>1, <4>2 DEF Things
    <3> QED BY <1>1, <3>1, <3>2 DEF LatePutAway
  <2>3. CASE Things(ch)' = Things(ch)
    BY <2>1, <2>3 DEF Belongings
  <2>4. CASE Things(ch)' = "own"
    <3>1. \A h \in Characters : Belongings'[h] = [Belongings EXCEPT ![ch] = "own"][h]
      BY <2>1, <2>4 DEF Belongings
    <3>2. Belongings' = [Belongings EXCEPT ![ch] = "own"]
      BY <3>1 DEF Belongings
    <3> QED BY <3>2
  <2> QED BY <2>2, <2>3, <2>4
<1>2. CASE LateSpoils(ch)
  <2>1. PICK other \in {ch} \cup (Characters \ InWorld) :
           /\ spoiled' = spoiled \cup {ch, other}
           /\ \A h \in Characters : h # ch /\ h # other => Kept(h)' = Kept(h)
    BY <1>2, Zenon DEF LateSpoils
  <2>2. \A h \in Characters : h \notin {ch, other} => Things(h)' = Things(h)
    BY <2>1 DEF Things
  <2>3. \A h \in Characters : h \in {ch, other} => Things(h)' = "spoiled"
    BY <2>1 DEF Things
  <2>4. Belongings' = [h \in Characters |-> IF h \in {ch, other} THEN "spoiled"
                                            ELSE Belongings[h]]
    BY <2>2, <2>3 DEF Belongings
  <2> QED BY <2>1, <2>4
<1> QED BY <1>1, <1>2

LEMMA BuryKeepsPromise ==
    ASSUME VoiceInv, SlotInv, Unique', DataInv, Bury
    PROVE  Ownership!Next
<1>1. PICK ch \in Characters :
         /\ ch = game.who /\ Leaving(ch) /\ players[ch].there /\ players'[ch] = Absent
         /\ \A h \in Characters : h # ch => players'[h] = players[h]
  BY BuryData
<1>2. /\ \A h \in Characters : Kept(h)'.visits = Kept(h).visits
      /\ \/ KeepsData
         \/ players[ch].isDead /\ (LatePutAway(ch) \/ LateSpoils(ch))
  BY <1>1, BuryKept DEF DataInv
<1>3. Kept(ch).visits = players[ch].data.visits + 1
  BY <1>1 DEF DataInv, PlayedMatches
<1>4. ~players'[ch].there /\ players'[ch].connection = Nobody
  BY <1>1 DEF Absent
<1>5. ch \in InWorld /\ InWorld' = InWorld \ {ch}
  BY <1>1, <1>4 DEF InWorld
<1>6. Fallen' = Fallen \ {ch}
  BY <1>1, <1>5 DEF Fallen, InWorld
<1>7. Owner' = [Owner EXCEPT ![ch] = Nobody]
  BY <1>1, <1>4, OwnerBecomes DEF Owner
<1>8. Visits' = Visits
  BY <1>2 DEF Visits
<1>9. Visits[ch] = Played[ch] + 1
  BY <1>1, <1>3 DEF Visits, Played
<1>10. Played' = [Played EXCEPT ![ch] = Visits[ch]]
  <2>1. \A h \in Characters : Played'[h] = [Played EXCEPT ![ch] = Visits[ch]][h]
    BY <1>1, <1>2, <1>4 DEF Played, Visits
  <2> QED BY <2>1 DEF Played
<1>11. \/ Belongings' = Belongings
       \/ ch \in Fallen /\ (Ownership!PutAway(ch) \/ Ownership!Spoil(ch))
  <2>1. CASE KeepsData
    BY <2>1, Remembered
  <2>2. CASE players[ch].isDead /\ (LatePutAway(ch) \/ LateSpoils(ch))
    <3>1. ch \in Fallen
      BY <1>5, <2>2 DEF Fallen
    <3>2. \/ Belongings' = Belongings
          \/ Belongings' = [Belongings EXCEPT ![ch] = "own"]
          \/ \E other \in {ch} \cup (Characters \ InWorld) :
                Belongings' = [h \in Characters |-> IF h \in {ch, other} THEN "spoiled"
                                                    ELSE Belongings[h]]
      BY <2>2, LateThings
    <3> QED BY <3>1, <3>2, Zenon DEF Ownership!PutAway, Ownership!Spoil, Belongings
  <2> QED BY <1>2, <2>1, <2>2
<1>12. Ownership!Leave(ch)
  BY <1>5, <1>6, <1>7, <1>8, <1>9, <1>10, <1>11
     DEF Ownership!Leave, Fallen, Owner, Visits, Played, Belongings
<1> QED BY <1>12 DEF Ownership!Next

\* The other steps of the game thread keep who is there, who fell and who owns
\* it.
LEMMA QuietGame ==
    ASSUME VoiceInv, SlotInv, GameThread, ~Attach, ~Bury,
           ~ \E c \in Conns : TakeOver(c) \/ LogOut(c, TRUE) \/ LogOut(c, FALSE),
           ~ \E ch \in Characters : Die(ch),
           NEW h \in Characters
    PROVE  /\ players'[h].there = players[h].there
           /\ players'[h].connection = players[h].connection
           /\ players'[h].data = players[h].data
           /\ players'[h].isDead = players[h].isDead
<1>1. players'[h].there = players[h].there /\ players'[h].data = players[h].data
  BY PlayersStay
<1>2. players[h] \in PlayerRecord /\ players \in [Characters -> PlayerRecord]
  BY DEF VoiceInv, Shaped
<1>3. /\ players'[h].connection = players[h].connection
      /\ players'[h].isDead = players[h].isDead
  <2>1. CASE \E c \in Conns : JoinRefused(c)
    <3>1. PICK ch : \/ players' = players
                    \/ players' = [players EXCEPT ![ch].logoutAllowed = TRUE]
      BY <2>1 DEF JoinRefused
    <3> DEFINE p == players[ch]
               r == [p EXCEPT !.logoutAllowed = TRUE]
    <3>2. /\ players' = players \/ players' = [players EXCEPT ![ch] = r]
          /\ ch \in Characters => p \in PlayerRecord
      BY <1>2, <3>1
    <3>3. ch \in Characters => r.connection = p.connection /\ r.isDead = p.isDead
      <4> HIDE DEF p
      <4> QED BY <3>2 DEF PlayerRecord
    <3> HIDE DEF r, PlayerRecord
    <3> QED BY <1>2, <3>2, <3>3
  <2>2. CASE UNCHANGED players
    BY <2>2
  <2> QED BY <2>1, <2>2 DEF GameThread, GameStep, AttachFails, ReleaseSlot, SendMails,
          TakeReply, JoinNew, LetGo, Delete, OrderMail
<1> QED BY <1>1, <1>3

LEMMA StepKeepsPromise ==
    ASSUME VoiceInv, SlotInv, SlotInv', DataInv, [Next]_vars
    PROVE  [Ownership!Next]_(Ownership!vars)
<1>1. Unique'
  BY DEF SlotInv
<1>2. CASE \E ch \in Characters : Delete(ch)
  BY <1>1, <1>2, DeleteKeepsPromise
<1>3. CASE Bury
  BY <1>1, <1>3, BuryKeepsPromise
<1>4. CASE ~Bury /\ ~ \E ch \in Characters : Delete(ch)
  <2>1. KeepsData
    BY <1>4, StepData
  <2>2. CASE GameThread
    <3>1. CASE Attach
      BY <2>1, <3>1, AttachKeepsPromise
    <3>2. CASE \E ch \in Characters : Die(ch)
      BY <2>1, <3>2, DieKeepsPromise
    <3>3. CASE \E c \in Conns : TakeOver(c)
      BY <2>1, <3>3, TakeOverKeepsPromise
    <3>4. CASE \E c \in Conns : LogOut(c, TRUE) \/ LogOut(c, FALSE)
      BY <2>1, <3>4, LogOutKeepsPromise
    <3>5. CASE /\ ~Attach /\ ~ \E ch \in Characters : Die(ch)
               /\ ~ \E c \in Conns : TakeOver(c) \/ LogOut(c, TRUE) \/ LogOut(c, FALSE)
      <4>1. UNCHANGED Ownership!vars
        BY <1>4, <2>1, <2>2, <3>5, QuietGame, Unseen
      <4> QED BY <4>1
    <3> QED BY <3>1, <3>2, <3>3, <3>4, <3>5
  <2>3. CASE ~GameThread
    <3>1. players' = players
      BY <2>3, OnlyGamePlays
    <3>2. UNCHANGED Ownership!vars
      BY <2>1, <3>1, Unseen
    <3> QED BY <3>2
  <2> QED BY <2>2, <2>3
<1> QED BY <1>2, <1>3, <1>4

LEMMA InitKeepsPromise == ASSUME Init PROVE DataInv /\ Ownership!Init
<1>1. \A i \in Slots : slots[i].character = Nobody
  BY DEF Init, Empty
<1>2. ASSUME NEW ch \in Characters PROVE Kept(ch) = Fresh(ch)
  <2>1. SlotsOf(ch) = {}
    BY <1>1, Distinct DEF SlotsOf
  <2> QED BY <2>1 DEF Kept, Init
<1>3. ASSUME NEW ch \in Characters PROVE Kept(ch).visits = 0 /\ Things(ch) = "own"
  <2>1. Fresh(ch).visits = 0 /\ Fresh(ch).things = ch
    BY DEF Fresh
  <2>2. spoiled = {}
    BY DEF Init
  <2>3. Kept(ch).visits = 0 /\ Kept(ch).things = ch
    BY <1>2, <2>1
  <2>4. Things(ch) = "own"
    BY <2>2, <2>3, Distinct DEF Things
  <2> QED BY <2>3, <2>4
<1>4. \A ch \in Characters : ~players[ch].there /\ players[ch].connection = Nobody
  BY DEF Init, Absent
<1>5. DataInv
  BY <1>1, <1>4 DEF DataInv, FileMatches, PlayedMatches
<1>6. InWorld = {} /\ Fallen = {}
  BY <1>4 DEF InWorld, Fallen
<1>7. /\ Owner = [ch \in Characters |-> Nobody]
      /\ Visits = [ch \in Characters |-> 0]
      /\ Played = [ch \in Characters |-> 0]
      /\ Belongings = [ch \in Characters |-> "own"]
  BY <1>3, <1>4 DEF Owner, Visits, Played, Belongings
<1> QED BY <1>5, <1>6, <1>7
        DEF Ownership!Init, Fallen, Owner, Visits, Played, Belongings

DataInOrder == misled \/ DataInv

\* Unless a load failed under somebody, a character has one owner at most,
\* comes back as what it left as and finds its own things, across takeovers,
\* deaths, evictions, saves, mail and failing loads; the late write of a dead
\* player breaks that for nobody's things but its own and those of one absent
\* character, and only until they leave the next time.
THEOREM KeepsItsPromise == Spec => OwnedOnceKeptWhole
<1>1. PoolInv /\ DataInOrder /\ PoolInv' /\ [Next]_vars
         => DataInOrder' /\ [misled' \/ Ownership!Next]_(Ownership!vars)
  <2> SUFFICES ASSUME PoolInv, DataInOrder, PoolInv', [Next]_vars, ~misled'
               PROVE  DataInv' /\ [Ownership!Next]_(Ownership!vars)
    BY DEF DataInOrder
  <2>1. ~misled
    BY MisledStays
  <2>2. VoiceInv /\ SlotInv /\ SlotInv' /\ DataInv
    BY <2>1 DEF PoolInv, InOrder, DataInOrder
  <2> QED BY <2>2, StepData, StepKeepsPromise
<1>2. Init => DataInOrder /\ Ownership!Init
  BY InitKeepsPromise DEF DataInOrder
<1> QED BY <1>1, <1>2, InitPool, StepPool, PTL DEF Spec, OwnedOnceKeptWhole

-----------------------------------------------------------------------------
(* The type invariant: no count falls below zero before a load has failed    *)
(* under somebody.                                                           *)

\* A player in the world sits in a slot, and so does one who leaves it.
Seated == \A ch \in Characters : players[ch].there => players[ch].slot \in Slots
GameTyped ==
    /\ game.at \in {"loop", "attach", "release", "bury", "mail"}
    /\ game.who \in Conns \cup SomeCharacter /\ game.slot \in SomeSlot
    /\ game.at \in {"release", "bury"} => game.slot \in Slots
Bounded == logins \in 0..MaxLogins /\ mails \in 0..MaxMails /\ failures \in 0..MaxFailures
Remarked == misled \in BOOLEAN /\ spoiled \in SUBSET Characters

TypeInv == Seated /\ GameTyped /\ Bounded /\ Remarked /\ isOnline \in [Characters -> Int]

LEMMA StaySeated ==
    ASSUME VoiceInv, Seated, [Next]_vars
    PROVE  Seated'
<1>1. CASE ~GameThread
  BY <1>1, OnlyGamePlays DEF Seated
<1>2. players \in [Characters -> PlayerRecord]
  BY DEF VoiceInv, Shaped
<1>3. CASE Attach
  <2>1. PICK i \in SlotsOf(conns[game.who].character) :
           players' = [players EXCEPT ![conns[game.who].character] =
              [Absent EXCEPT !.there = TRUE, !.slot = i, !.connection = game.who,
                             !.data = slots[i].data]]
    BY <1>3 DEF Attach
  <2> DEFINE ch == conns[game.who].character
             d == slots[i].data
             c == game.who
             r == [Absent EXCEPT !.there = TRUE, !.slot = i, !.connection = c, !.data = d]
  <2>2. i \in Slots
    BY <2>1 DEF SlotsOf
  <2>3. r.slot = i
    BY DEF Absent
  <2>4. players' = [players EXCEPT ![ch] = r]
    BY <2>1
  <2> HIDE DEF r, ch, PlayerRecord
  <2> QED BY <1>2, <2>2, <2>3, <2>4 DEF Seated
<1>4. CASE Bury
  <2>1. PICK ch : players' = [players EXCEPT ![ch] = Absent]
    BY <1>4 DEF Bury
  <2>2. ~Absent.there
    BY DEF Absent
  <2> HIDE DEF PlayerRecord
  <2> QED BY <1>2, <2>1, <2>2 DEF Seated
<1>5. CASE GameThread /\ ~Attach /\ ~Bury
  BY <1>5, PlayersStay DEF Seated
<1> QED BY <1>1, <1>3, <1>4, <1>5

LEMMA GameStaysTyped ==
    ASSUME VoiceInv, Seated, GameTyped, [Next]_vars
    PROVE  GameTyped'
<1>1. CASE game' = game
  BY <1>1 DEF GameTyped
<1>2. CASE game' = Loop
  BY <1>2 DEF GameTyped, Loop, SomeCharacter, SomeSlot
<1>3. CASE \E c \in Conns : JoinNew(c)
  BY <1>3 DEF JoinNew, GameTyped, SomeSlot
<1>4. CASE \E ch \in Characters : Delete(ch)
  <2>1. PICK ch \in Characters : Delete(ch)
    BY <1>4
  <2>2. players[ch].slot \in Slots
    BY <2>1 DEF Delete, Player, Seated
  <2> QED BY <2>1, <2>2 DEF Delete, Player, GameTyped, SomeCharacter, SomeSlot
<1>5. CASE ReleaseSlot
  <2>1. PICK w, s : game = [at |-> "release", who |-> w, slot |-> s]
    BY <1>5 DEF ReleaseSlot, VoiceInv, Waiting
  <2>2. game' = [at |-> "bury", who |-> w, slot |-> s]
    BY <1>5, <2>1 DEF ReleaseSlot
  <2> QED BY <2>1, <2>2 DEF GameTyped
<1>6. CASE TakeReply
  <2>1. CASE game' # game
    <3>1. PICK i \in Slots : game' = [at |-> "mail", who |-> Head(replies), slot |-> i]
      BY <1>6, <2>1 DEF TakeReply, SlotsOf
    <3>2. replies \in Seq(Characters) /\ replies # <<>>
      BY <1>6 DEF TakeReply, VoiceInv, Shaped
    <3>3. Head(replies) \in Characters
      BY <3>2, HeadTailProperties
    <3> QED BY <3>1, <3>3 DEF GameTyped, SomeCharacter, SomeSlot
  <2> QED BY <1>1, <2>1
<1>7. CASE ~GameThread
  BY <1>1, <1>7, OnlyGamePlays
<1> QED BY <1>1, <1>2, <1>3, <1>4, <1>5, <1>6, <1>7 DEF GameThread, GameStep, Attach,
        AttachFails, Bury, SendMails, JoinRefused, TakeOver, LogOut, LetGo, Die, OrderMail

\* A load that fails is counted, and may mislead somebody.
LEMMA StepFails ==
    ASSUME [Next]_vars
    PROVE  /\ \/ failures' = failures
              \/ failures < MaxFailures /\ failures' = failures + 1
           /\ misled \in BOOLEAN => misled' \in BOOLEAN
<1>1. CASE UNCHANGED <<failures, misled>>
  BY <1>1
<1>2. ASSUME NEW i, FailToLoad(i) \/ (Forget(i) /\ UNCHANGED failures)
      PROVE  /\ \/ failures' = failures
                \/ failures < MaxFailures /\ failures' = failures + 1
             /\ misled \in BOOLEAN => misled' \in BOOLEAN
  <2>1. misled \in BOOLEAN => misled' \in BOOLEAN
    BY <1>2, Zenon DEF FailToLoad, Forget
  <2>2. \/ failures' = failures
        \/ failures < MaxFailures /\ failures' = failures + 1
    BY <1>2, Zenon DEF FailToLoad
  <2> QED BY <2>1, <2>2
<1>3. ASSUME NEW c \in Conns, CommunicationThread(c), ~LoadFails(c), ~ForgetSlot(c)
      PROVE  UNCHANGED <<failures, misled>>
  BY <1>3 DEF CommunicationThread, Register, AssignSlot, FindNoSlot, LoadSlot,
     BlockLogin, KeepSlot, UnlockSlot, CallGameThread, FreeConnection, trouble
<1>4. GameThread => UNCHANGED <<failures, misled>>
  BY DEF GameThread, GameStep, Attach, AttachFails, ReleaseSlot, Bury, SendMails, TakeReply,
     JoinNew, JoinRefused, TakeOver, LogOut, LetGo, Die, Delete, OrderMail, rest, trouble
<1>5. ReaderThread /\ ~ReaderLoadFails /\ ~ReaderForgets => UNCHANGED <<failures, misled>>
  BY DEF ReaderThread, ReaderTakesOrder, ReaderAssigns, ReaderFindsNoSlot, ReaderLoads,
     ReaderGivesUp, ReaderKeeps, ReaderTriesAgain, ReaderReplies, trouble
<1>6. WriterThread \/ UNCHANGED vars => UNCHANGED <<failures, misled>>
  BY DEF WriterThread, WriterAttaches, WriterSaves, WriterPicks, unwritten, trouble, vars
<1>7. \/ UNCHANGED <<failures, misled>>
      \/ \E i : FailToLoad(i) \/ (Forget(i) /\ UNCHANGED failures)
  <2>1. CASE \E c \in Conns : LoadFails(c) \/ ForgetSlot(c)
    BY <2>1 DEF LoadFails, ForgetSlot
  <2>2. CASE ReaderLoadFails \/ ReaderForgets
    BY <2>2 DEF ReaderLoadFails, ReaderForgets
  <2> QED BY <1>3, <1>4, <1>5, <1>6, <2>1, <2>2 DEF Next
<1> QED BY <1>1, <1>2, <1>7

LEMMA StaysBounded ==
    ASSUME VoiceInv, Bounded, [Next]_vars
    PROVE  Bounded'
<1>1. logins' \in 0..MaxLogins
  <2>1. CASE \E c \in Conns : Register(c)
    BY <2>1, BoundsAssumption DEF Register, Bounded
  <2>2. CASE logins' = logins
    BY <2>2 DEF Bounded
  <2>3. ASSUME NEW c \in Conns, CommunicationThread(c), ~Register(c) PROVE logins' = logins
    BY <2>3 DEF CommunicationThread, AssignSlot, FindNoSlot, LoadSlot, LoadFails, ForgetSlot,
       BlockLogin, KeepSlot, UnlockSlot, CallGameThread, FreeConnection
  <2>4. ReaderThread \/ WriterThread \/ UNCHANGED vars => logins' = logins
    BY DEF ReaderThread, ReaderTakesOrder, ReaderAssigns, ReaderFindsNoSlot,
       ReaderLoads, ReaderLoadFails, ReaderForgets, ReaderGivesUp, ReaderKeeps,
       ReaderTriesAgain, ReaderReplies, unread, WriterThread, WriterAttaches, WriterSaves,
       WriterPicks, unwritten, vars
  <2>5. GameThread => logins' = logins
    BY DEF GameThread, GameStep, Attach, AttachFails, ReleaseSlot, Bury, SendMails, TakeReply,
       JoinNew, JoinRefused, TakeOver, LogOut, LetGo, Die, Delete, OrderMail, rest
  <2> QED BY <2>1, <2>2, <2>3, <2>4, <2>5 DEF Next
<1>2. mails' \in 0..MaxMails
  <2>1. CASE \E ch \in Characters : OrderMail(ch)
    BY <2>1, BoundsAssumption DEF OrderMail, Bounded
  <2>2. CASE mails' = mails
    BY <2>2 DEF Bounded
  <2>3. CASE ~GameThread
    BY <2>2, <2>3, OnlyGamePlays
  <2> QED BY <2>1, <2>2, <2>3 DEF GameThread, GameStep, Attach, AttachFails, ReleaseSlot,
          Bury, SendMails, TakeReply, JoinNew, JoinRefused, TakeOver, LogOut, LetGo, Die,
          Delete
<1>3. failures' \in 0..MaxFailures
  <2>1. CASE failures < MaxFailures /\ failures' = failures + 1
    BY <2>1, BoundsAssumption DEF Bounded
  <2>2. CASE failures' = failures
    BY <2>2 DEF Bounded
  <2> QED BY <2>1, <2>2, StepFails
<1> QED BY <1>1, <1>2, <1>3 DEF Bounded

\* What has gone wrong is told by a flag and a set of characters.
LEMMA StaysRemarked ==
    ASSUME VoiceInv, TypeInv, [Next]_vars
    PROVE  Remarked'
<1>1. misled' \in BOOLEAN
  BY StepFails DEF TypeInv, Remarked
<1>2. CASE spoiled' = spoiled
  BY <1>1, <1>2 DEF TypeInv, Remarked
<1>3. CASE \E ch \in Characters : Delete(ch)
  <2>1. spoiled' \in SUBSET Characters
    BY <1>3 DEF Delete, TypeInv, Remarked
  <2> QED BY <1>1, <2>1 DEF Remarked
<1>4. CASE Bury
  <2>1. game.who \in Characters
    BY <1>4 DEF Bury, VoiceInv, Waiting
  <2>2. game.slot \in Slots
    BY <1>4 DEF Bury, TypeInv, GameTyped
  <2>3. slots[game.slot].character \in SomeCharacter
    BY <2>2, SlotFields DEF VoiceInv, Shaped
  <2>4. \/ spoiled' = spoiled
        \/ spoiled' = spoiled \cup ({game.who, slots[game.slot].character} \ {Nobody})
    BY <1>4 DEF Bury, SaveInventoryLate
  <2>5. spoiled' \in SUBSET Characters
    BY <2>1, <2>3, <2>4 DEF TypeInv, Remarked, SomeCharacter
  <2> QED BY <1>1, <2>5 DEF Remarked
<1>5. ASSUME NEW c \in Conns, CommunicationThread(c) PROVE spoiled' = spoiled
  BY <1>5 DEF CommunicationThread, Register, AssignSlot, FindNoSlot, LoadSlot, LoadFails,
     ForgetSlot, BlockLogin, KeepSlot, UnlockSlot, CallGameThread, FreeConnection, others
<1>6. ReaderThread \/ WriterThread \/ UNCHANGED vars => spoiled' = spoiled
  BY DEF ReaderThread, ReaderTakesOrder, ReaderAssigns, ReaderFindsNoSlot,
     ReaderLoads, ReaderLoadFails, ReaderForgets, ReaderGivesUp, ReaderKeeps,
     ReaderTriesAgain, ReaderReplies, unread, WriterThread, WriterAttaches, WriterSaves,
     WriterPicks, unwritten, vars
<1>7. GameThread /\ ~Bury /\ ~(\E ch \in Characters : Delete(ch)) => spoiled' = spoiled
  BY DEF GameThread, GameStep, Attach, AttachFails, ReleaseSlot, SendMails, TakeReply,
     JoinNew, JoinRefused, TakeOver, LogOut, LetGo, Die, OrderMail
<1> QED BY <1>2, <1>3, <1>4, <1>5, <1>6, <1>7 DEF Next

\* Every thread counts by one, or not at all.
LEMMA OnlineStaysInt ==
    ASSUME isOnline \in [Characters -> Int], [Next]_vars
    PROVE  isOnline' \in [Characters -> Int]
<1>1. CASE \E x : isOnline' = [isOnline EXCEPT ![x] = @ + 1]
  <2>1. PICK x : isOnline' = [isOnline EXCEPT ![x] = @ + 1]
    BY <1>1
  <2> DEFINE n == isOnline[x] + 1
  <2>2. isOnline' = [isOnline EXCEPT ![x] = n] /\ (x \in Characters => n \in Int)
    BY <2>1
  <2> HIDE DEF n
  <2> QED BY <2>2
<1>2. CASE \E x : isOnline' = [isOnline EXCEPT ![x] = @ - 1]
  <2>1. PICK x : isOnline' = [isOnline EXCEPT ![x] = @ - 1]
    BY <1>2
  <2> DEFINE n == isOnline[x] - 1
  <2>2. isOnline' = [isOnline EXCEPT ![x] = n] /\ (x \in Characters => n \in Int)
    BY <2>1
  <2> HIDE DEF n
  <2> QED BY <2>2
<1>3. CASE \E x : isOnline' = [ch \in Characters |->
                                  isOnline[ch] - (IF ch = x THEN 1 ELSE 0)]
  BY <1>3
<1>4. CASE isOnline' = isOnline
  BY <1>4
<1>5. ASSUME NEW c \in Conns, CommunicationThread(c) PROVE isOnline' \in [Characters -> Int]
  <2>1. CASE Register(c)
    BY <1>1, <2>1 DEF Register
  <2>2. CASE FindNoSlot(c) \/ ForgetSlot(c)
    BY <1>2, <2>2 DEF FindNoSlot, ForgetSlot
  <2>3. CASE BlockLogin(c)
    BY <1>3, <2>3 DEF BlockLogin
  <2> QED BY <1>4, <1>5, <2>1, <2>2, <2>3 DEF CommunicationThread, AssignSlot, LoadSlot,
          LoadFails, KeepSlot, UnlockSlot, CallGameThread, FreeConnection
<1>6. ReaderThread \/ WriterThread \/ UNCHANGED vars => isOnline' = isOnline
  BY DEF ReaderThread, ReaderTakesOrder, ReaderAssigns, ReaderFindsNoSlot,
     ReaderLoads, ReaderLoadFails, ReaderForgets, ReaderGivesUp, ReaderKeeps,
     ReaderTriesAgain, ReaderReplies, unread, WriterThread, WriterAttaches, WriterSaves,
     WriterPicks, unwritten, vars
<1>7. CASE \E c \in Conns : JoinRefused(c) \/ TakeOver(c)
  BY <1>2, <1>7 DEF JoinRefused, TakeOver
<1>8. CASE \E ch \in Characters : Delete(ch)
  BY <1>2, <1>8 DEF Delete
<1>9. GameThread /\ ~(\E c \in Conns : JoinRefused(c) \/ TakeOver(c))
         /\ ~(\E ch \in Characters : Delete(ch)) => isOnline' = isOnline
  BY DEF GameThread, GameStep, Attach, AttachFails, ReleaseSlot, Bury, SendMails, TakeReply,
     JoinNew, LogOut, LetGo, Die, OrderMail
<1> QED BY <1>4, <1>5, <1>6, <1>7, <1>8, <1>9 DEF Next

LEMMA StepTyped == VoiceInv /\ TypeInv /\ [Next]_vars => TypeInv'
  BY StaySeated, GameStaysTyped, StaysBounded, StaysRemarked, OnlineStaysInt DEF TypeInv

LEMMA InitTyped == ASSUME Init PROVE TypeInv
<1>1. Seated
  BY DEF Init, Absent, Seated
<1>2. GameTyped
  BY DEF Init, Loop, GameTyped, SomeCharacter, SomeSlot
<1>3. Bounded
  BY BoundsAssumption DEF Init, Bounded
<1>4. Remarked
  BY DEF Init, Remarked
<1>5. isOnline \in [Characters -> Int]
  BY DEF Init
<1> QED BY <1>1, <1>2, <1>3, <1>4, <1>5 DEF TypeInv

\* The counts are bounded below by what they count.
LEMMA CountsAreNat ==
    ASSUME VoiceInv, SlotInv, OnlineInv
    PROVE  /\ \A i \in Slots : slots[i].sticky >= 0
           /\ \A ch \in Characters : isOnline[ch] >= 0
<1>1. ASSUME NEW i \in Slots PROVE slots[i].sticky >= 0
  <2>1. CASE slots[i].character = Nobody
    BY <2>1 DEF SlotInv, LocksKnown, LockKnown
  <2>2. CASE slots[i].character # Nobody
    <3>1. slots[i].sticky \in Int /\ Holders(i) \in Nat /\ slots[i].sticky >= Holders(i)
      BY <2>2, HoldersFinite
    <3> HIDE DEF Holders
    <3> QED BY <3>1
  <2> QED BY <2>1, <2>2
<1>2. ASSUME NEW ch \in Characters PROVE isOnline[ch] >= 0
  <2>1. PICK n \in Int, L, H \in Nat : n = isOnline[ch] /\ n >= L + H
    <3>1. /\ isOnline[ch] \in Int /\ Cardinality(LoggingIn(ch)) \in Nat /\ Here(ch) \in Nat
          /\ isOnline[ch] >= Cardinality(LoggingIn(ch)) + Here(ch)
      BY OnlineFacts
    <3> QED BY ONLY <3>1, Zenon
  <2> QED BY <2>1
<1> QED BY <1>1, <1>2

LEMMA Typed ==
    ASSUME PoolInv, LoginsInOrder, TypeInv
    PROVE  TypeOK
<1>1. misled \/ /\ \A i \in Slots : slots[i].sticky >= 0
                /\ \A ch \in Characters : isOnline[ch] >= 0
  BY CountsAreNat DEF PoolInv, InOrder, LoginsInOrder
<1>2. /\ slots \in [Slots -> SlotRecord] /\ file \in [Characters -> Stored]
      /\ conns \in [Conns -> ConnRecord] /\ players \in [Characters -> PlayerRecord]
      /\ reader \in ReaderRecord /\ writer \in WriterRecord
      /\ orders \in Seq(Characters) /\ replies \in Seq(Characters)
  BY DEF PoolInv, VoiceInv, Shaped
<1>3. /\ game.at \in {"loop", "attach", "release", "bury", "mail"}
      /\ game.who \in Conns \cup SomeCharacter /\ game.slot \in SomeSlot
  BY DEF TypeInv, GameTyped
<1>4. /\ logins \in 0..MaxLogins /\ mails \in 0..MaxMails /\ failures \in 0..MaxFailures
      /\ misled \in BOOLEAN /\ spoiled \in SUBSET Characters
      /\ isOnline \in [Characters -> Int]
  BY DEF TypeInv, Bounded, Remarked
<1> QED BY <1>1, <1>2, <1>3, <1>4, Zenon
        DEF TypeOK, SlotRecord, ConnRecord, PlayerRecord, ReaderRecord, WriterRecord

\* Every variable keeps its type, whatever fails; and until a load has failed
\* under somebody neither Sticky nor the query manager's count is lowered
\* below zero.
THEOREM PoolTypes == Spec => []TypeOK
<1>1. PoolInv /\ TypeInv /\ [Next]_vars => TypeInv'
  BY StepTyped DEF PoolInv
<1>2. Init => LoginsInOrder /\ TypeInv
  BY InitOnline, InitTyped DEF LoginsInOrder
<1>3. PoolInv /\ LoginsInOrder /\ TypeInv => TypeOK
  BY Typed
<1> QED BY <1>1, <1>2, <1>3, InitPool, StepPool, StepLogins, PTL DEF Spec
=============================================================================
