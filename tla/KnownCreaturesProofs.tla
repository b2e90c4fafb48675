------------------------- MODULE KnownCreaturesProofs -------------------------
(* Proofs about the two ends' knowledge of creatures, for every set of      *)
(* creatures, every size of the table and every length of the channel.      *)
EXTENDS KnownCreatures, DataInduction, FiniteSetTheorems

-----------------------------------------------------------------------------
\* CreateKnownCreature takes an entry of those it may take.
LEMMA LowestIsIn ==
    ASSUME NEW S \in SUBSET Entries, S # {}
    PROVE  Lowest(S) \in S
<1>1. S \in SUBSET Nat
  BY SlotsAssumption DEF Entries
<1>2. \E x \in S : \A y \in S : x <= y
  BY <1>1, LeastNumber
<1> QED BY <1>2 DEF Lowest

-----------------------------------------------------------------------------
(* What one map object does to the table.                                   *)

Word97 == [word : {97}, id : Creatures, old : Creatures \cup {0}, version : Nat]
Word98 == [word : {98}, id : Creatures, version : Nat]
Word99 == [word : {99}, id : Creatures]

LEMMA WordsAre == Words = Word97 \cup Word98 \cup Word99
  BY DEF Words, Word97, Word98, Word99

Entry  == [id : Creatures \cup {0}, state : {"FREE", "UPTODATE", "OUTDATED"}]
Tables == [Entries -> Entry]
Chains == [Creatures -> SUBSET Entries]
Drafts == [table : Tables, chain : Chains, words : Seq(Words)]

\* The chains lead to the entries in use, each entry in use is of a creature
\* in the world, and no creature has two entries.
Linked(t, ch, living) ==
    /\ \A c \in Creatures : ch[c] = {i \in Entries : t[i].id = c /\ t[i].state # "FREE"}
    /\ \A i, j \in Entries : t[i].id = t[j].id /\ t[i].id # 0 => i = j
    /\ \A i \in Entries : t[i].state # "FREE" => t[i].id \in living

\* The entry i (0 for none) and the word w by which a map object of c takes
\* the table t to tt and the chains ch to cc.
Sent(t, ch, c, view, ver, tt, cc, i, w) ==
    /\ i \in Entries =>
        /\ t[i].id = c \/ (/\ \A j \in Entries : t[j].id # c
                           /\ t[i].state = "FREE" \/ t[i].id \notin view)
        /\ tt = [t EXCEPT ![i] = [id |-> c, state |-> "UPTODATE"]]
        /\ cc = [x \in Creatures |-> IF x = c THEN {i} ELSE ch[x] \ {i}]
    /\ i \notin Entries =>
        /\ \A j \in Entries : t[j].id # c
        /\ tt = t /\ cc = ch
    /\ \/ /\ i \in Entries /\ t[i].id = c /\ t[i].state = "UPTODATE"
          /\ w = [word |-> 99, id |-> c]
       \/ /\ i \in Entries /\ t[i].id = c
          /\ w = [word |-> 98, id |-> c, version |-> ver[c]]
       \/ w = [word |-> 97, id |-> c, version |-> ver[c],
               old |-> IF i \in Entries THEN t[i].id ELSE 0]

LEMMA LinkedEntry ==
    ASSUME NEW t \in Tables, NEW ch \in Chains, NEW living \in SUBSET Creatures,
           Linked(t, ch, living),
           NEW i \in Entries, t[i].id \in Creatures, NEW j \in Entries, t[j].id = t[i].id
    PROVE  i = j /\ (t[i].state # "FREE" => ch[t[i].id] = {i})
                 /\ (t[i].state = "FREE" => ch[t[i].id] = {})
<1>1. t[i].id # 0
  BY CreaturesAssumption
<1>2. \A k \in Entries : t[k].id = t[i].id => k = i
  BY <1>1 DEF Linked
<1>3. ch[t[i].id] = {k \in Entries : t[k].id = t[i].id /\ t[k].state # "FREE"}
  BY DEF Linked
<1> QED BY <1>2, <1>3

LEMMA EntryOf ==
    ASSUME NEW m \in Drafts, NEW c \in Creatures, EntriesOf(m, c) # {}
    PROVE  /\ Lowest(EntriesOf(m, c)) \in Entries
           /\ m.table[Lowest(EntriesOf(m, c))].id = c
<1>1. EntriesOf(m, c) \in SUBSET Entries
  BY DEF EntriesOf
<1>2. Lowest(EntriesOf(m, c)) \in EntriesOf(m, c)
  BY <1>1, LowestIsIn
<1> QED BY <1>2 DEF EntriesOf

LEMMA DraftWord ==
    ASSUME NEW m \in Drafts, NEW w
    PROVE  [m EXCEPT !.words = Append(@, w)] =
           [table |-> m.table, chain |-> m.chain, words |-> Append(m.words, w)]
  BY DEF Drafts

LEMMA DraftTable ==
    ASSUME NEW m \in Drafts, NEW l
    PROVE  [m EXCEPT !.table[l].state = "UPTODATE"] =
           [table |-> [m.table EXCEPT ![l].state = "UPTODATE"],
            chain |-> m.chain, words |-> m.words]
  BY DEF Drafts

LEMMA EntryMarked ==
    ASSUME NEW t \in Tables, NEW l \in Entries,
           NEW s \in {"FREE", "UPTODATE", "OUTDATED"}
    PROVE  /\ [t EXCEPT ![l].state = s] = [t EXCEPT ![l] = [id |-> t[l].id, state |-> s]]
           /\ [t EXCEPT ![l].state = s] \in Tables
<1>1. t[l] \in Entry
  BY DEF Tables
<1> DEFINE e == [t[l] EXCEPT !.state = s]
<1>2. e = [id |-> t[l].id, state |-> s] /\ e \in Entry
  BY <1>1 DEF Entry
<1>3. [t EXCEPT ![l].state = s] = [t EXCEPT ![l] = e]
  OBVIOUS
<1> HIDE DEF e
<1> QED BY <1>2, <1>3 DEF Tables

LEMMA MapObjectSent ==
    ASSUME NEW m \in Drafts, alive \subseteq Creatures, Linked(m.table, m.chain, alive),
           version \in [Creatures -> Nat],
           NEW c \in alive, NEW view \in SUBSET alive
    PROVE  \E n \in Drafts, i \in Entries \cup {0}, w \in Words :
               /\ SendMapObject(m, c, view) = n
               /\ Sent(m.table, m.chain, c, view, version, n.table, n.chain, i, w)
               /\ n.words = Append(m.words, w)
<1> DEFINE E == EntriesOf(m, c)
           l == Lowest(E)
           goal(n, i, w) == /\ SendMapObject(m, c, view) = n
                            /\ Sent(m.table, m.chain, c, view, version,
                                    n.table, n.chain, i, w)
                            /\ n.words = Append(m.words, w)
<1>1. /\ m.table \in Tables /\ m.chain \in Chains /\ m.words \in Seq(Words)
      /\ m = [table |-> m.table, chain |-> m.chain, words |-> m.words]
  BY DEF Drafts
<1>2. c \in Creatures /\ c # 0
  BY CreaturesAssumption
<1>3. ASSUME E # {}
      PROVE  /\ l \in Entries /\ m.table[l].id = c /\ KnownCreature(m, c) = m.table[l].state
             /\ m.table[l] = [id |-> c, state |-> m.table[l].state]
             /\ m.table[l].state # "FREE" =>
                    m.chain = [x \in Creatures |-> IF x = c THEN {l} ELSE m.chain[x] \ {l}]
  <2>1. l \in Entries /\ m.table[l].id = c
    BY <1>2, <1>3, EntryOf
  <2>2. KnownCreature(m, c) = m.table[l].state
    BY <1>3 DEF KnownCreature
  <2>3. m.table[l] \in Entry
    BY <1>1, <2>1 DEF Tables
  <2>4. m.table[l] = [id |-> c, state |-> m.table[l].state]
    BY <2>1, <2>3 DEF Entry
  <2>5. ASSUME m.table[l].state # "FREE"
        PROVE  m.chain = [x \in Creatures |-> IF x = c THEN {l} ELSE m.chain[x] \ {l}]
    <3>1. m.chain[c] = {l}
      BY <1>1, <1>2, <2>1, <2>5, LinkedEntry
    <3>2. \A x \in Creatures : x # c => l \notin m.chain[x]
      BY <2>1 DEF Linked
    <3>3. \A x \in Creatures : m.chain[x] = IF x = c THEN {l} ELSE m.chain[x] \ {l}
      BY <3>1, <3>2
    <3> QED BY <1>1, <3>3 DEF Chains
  <2> HIDE DEF l
  <2> QED BY <2>1, <2>2, <2>4, <2>5
<1>4. ASSUME E = {} PROVE KnownCreature(m, c) = "FREE" /\ \A j \in Entries : m.table[j].id # c
  BY <1>4 DEF KnownCreature, EntriesOf
<1>5. CASE KnownCreature(m, c) = "UPTODATE"
  <2>1. E # {} /\ m.table[l].state = "UPTODATE"
    BY <1>3, <1>4, <1>5
  <2> DEFINE w == [word |-> 99, id |-> c]
             n == [m EXCEPT !.words = Append(@, w)]
  <2>2. w \in Words
    BY <1>2, WordsAre DEF Word99
  <2>3. n = [table |-> m.table, chain |-> m.chain, words |-> Append(m.words, w)]
    BY DraftWord
  <2>4. n \in Drafts
    <3> HIDE DEF w
    <3> QED BY <1>1, <2>2, <2>3 DEF Drafts
  <2>5. SendMapObject(m, c, view) = n
    BY <1>5 DEF SendMapObject
  <2>6. m.table = [m.table EXCEPT ![l] = [id |-> c, state |-> "UPTODATE"]]
    BY <1>1, <1>3, <2>1 DEF Tables
  <2>7. Sent(m.table, m.chain, c, view, version, m.table, m.chain, l, w)
    <3> HIDE DEF l
    <3> QED BY <1>3, <2>1, <2>6 DEF Sent
  <2>8. goal(n, l, w)
    BY <2>3, <2>5, <2>7
  <2>9. l \in Entries \cup {0}
    BY <1>3, <2>1
  <2> HIDE DEF goal, n, w, l
  <2>10. \E nn \in Drafts, ii \in Entries \cup {0}, ww \in Words : goal(nn, ii, ww)
    BY <2>2, <2>4, <2>8, <2>9
  <2> QED BY <2>10 DEF goal
<1>6. CASE KnownCreature(m, c) = "OUTDATED"
  <2>1. E # {} /\ m.table[l].state = "OUTDATED"
    BY <1>3, <1>4, <1>6
  <2> DEFINE w == [word |-> 98, id |-> c, version |-> version[c]]
             t == [m.table EXCEPT ![l].state = "UPTODATE"]
             n == [UpdateFollows(m, c) EXCEPT !.words = Append(@, w)]
  <2>2. w \in Words
    BY <1>2, WordsAre DEF Word98
  <2>0. l \in Entries /\ m.table[l].id = c
    BY <1>3, <2>1
  <2>4. t = [m.table EXCEPT ![l] = [id |-> c, state |-> "UPTODATE"]] /\ t \in Tables
    <3> HIDE DEF l
    <3> QED BY <1>1, <2>0, EntryMarked
  <2>3. n = [table |-> t, chain |-> m.chain, words |-> Append(m.words, w)]
    <3> DEFINE f == UpdateFollows(m, c)
    <3>1. f = [table |-> t, chain |-> m.chain, words |-> m.words]
      <4> HIDE DEF l
      <4> QED BY DraftTable DEF UpdateFollows, l
    <3> HIDE DEF f, t, w
    <3>2. f \in Drafts
      BY <1>1, <2>4, <3>1 DEF Drafts
    <3>3. n = [table |-> f.table, chain |-> f.chain, words |-> Append(f.words, w)]
      BY <3>2, DraftWord DEF f
    <3> QED BY <3>1, <3>3
  <2>5. n \in Drafts
    <3> HIDE DEF w, t, n
    <3> QED BY <1>1, <2>2, <2>3, <2>4 DEF Drafts
  <2>6. SendMapObject(m, c, view) = n
    BY <1>6 DEF SendMapObject
  <2>7. Sent(m.table, m.chain, c, view, version, t, m.chain, l, w)
    <3> HIDE DEF l, t
    <3> QED BY <1>3, <2>1, <2>4 DEF Sent
  <2>8. goal(n, l, w)
    <3>1. n.table = t /\ n.chain = m.chain /\ n.words = Append(m.words, w)
      BY <2>3
    <3> HIDE DEF n, t, w, l
    <3> QED BY <2>6, <2>7, <3>1
  <2>9. l \in Entries \cup {0}
    BY <1>3, <2>1
  <2> HIDE DEF goal, n, w, l
  <2>10. \E nn \in Drafts, ii \in Entries \cup {0}, ww \in Words : goal(nn, ii, ww)
    BY <2>2, <2>5, <2>8, <2>9
  <2> QED BY <2>10 DEF goal
<1>7. CASE KnownCreature(m, c) = "FREE"
  <2> DEFINE i == Settle(m, c, view)
             old == IF i = 0 THEN 0 ELSE m.table[i].id
             w == [word |-> 97, id |-> c, old |-> old, version |-> version[c]]
             t == [m.table EXCEPT ![i] = [id |-> c, state |-> "UPTODATE"]]
             k == [x \in Creatures |-> IF x = c THEN {i} ELSE m.chain[x] \ {i}]
  <2>1. SendMapObject(m, c, view) = NewKnownCreature(m, c, view)
    BY <1>7 DEF SendMapObject
  <2>2. /\ i \in Entries \cup {0}
        /\ i \in Entries =>
              m.table[i].id = c \/ (/\ \A j \in Entries : m.table[j].id # c
                                    /\ m.table[i].state = "FREE" \/ m.table[i].id \notin view)
        /\ i \notin Entries => \A j \in Entries : m.table[j].id # c
    <3> DEFINE free   == {j \in Entries : m.table[j].state = "FREE"}
               unseen == {j \in Entries : m.table[j].id \notin view}
    <3>1. CASE E # {}
      <4>1. i = l
        BY <3>1 DEF Settle
      <4> QED BY <1>3, <3>1, <4>1
    <3>2. CASE E = {} /\ free # {}
      <4>1. i = Lowest(free)
        BY <3>2 DEF Settle
      <4>2. free \in SUBSET Entries
        OBVIOUS
      <4>3. i \in free
        <5> HIDE DEF free
        <5> QED BY <3>2, <4>1, <4>2, LowestIsIn
      <4> QED BY <1>4, <3>2, <4>3
    <3>3. CASE E = {} /\ free = {} /\ unseen # {}
      <4>1. i = Lowest(unseen)
        BY <3>3 DEF Settle
      <4>2. unseen \in SUBSET Entries
        OBVIOUS
      <4>3. i \in unseen
        <5> HIDE DEF unseen
        <5> QED BY <3>3, <4>1, <4>2, LowestIsIn
      <4> QED BY <1>4, <3>3, <4>3
    <3>4. CASE E = {} /\ free = {} /\ unseen = {}
      <4>1. i = 0
        BY <3>4 DEF Settle
      <4>2. 0 \notin Entries
        BY SlotsAssumption DEF Entries
      <4> QED BY <1>4, <3>4, <4>1, <4>2
    <3> HIDE DEF E, free, unseen, i
    <3> QED BY <3>1, <3>2, <3>3, <3>4
  <2>3. 0 \notin Entries
    BY SlotsAssumption DEF Entries
  <2> HIDE DEF i
  <2>4. old \in Creatures \cup {0} /\ old = IF i \in Entries THEN m.table[i].id ELSE 0
    BY <1>1, <2>2, <2>3 DEF Tables, Entry
  <2>5. w \in Words
    <3> HIDE DEF old
    <3> QED BY <1>2, <2>4, WordsAre DEF Word97
  <2>6. CASE i = 0
    <3> DEFINE n == [m EXCEPT !.words = Append(@, w)]
    <3>1. n = [table |-> m.table, chain |-> m.chain, words |-> Append(m.words, w)]
      BY DraftWord
    <3>2. n \in Drafts
      <4> HIDE DEF w
      <4> QED BY <1>1, <2>5, <3>1 DEF Drafts
    <3>3. SendMapObject(m, c, view) = n
      BY <2>1, <2>6 DEF NewKnownCreature, i
    <3>4. Sent(m.table, m.chain, c, view, version, m.table, m.chain, i, w)
      <4>1. w = [word |-> 97, id |-> c, version |-> version[c],
                 old |-> IF i \in Entries THEN m.table[i].id ELSE 0]
        BY <2>4
      <4> HIDE DEF w, old
      <4> QED BY <2>2, <2>3, <2>6, <4>1 DEF Sent
    <3>5. goal(n, i, w)
      <4>1. n.table = m.table /\ n.chain = m.chain /\ n.words = Append(m.words, w)
        BY <3>1
      <4> HIDE DEF n, w
      <4> QED BY <3>3, <3>4, <4>1
    <3> HIDE DEF goal, n, w
    <3>6. \E nn \in Drafts, ii \in Entries \cup {0}, ww \in Words : goal(nn, ii, ww)
      BY <2>2, <2>5, <3>2, <3>5
    <3> QED BY <3>6 DEF goal
  <2>7. CASE i # 0
    <3>0. i \in Entries
      BY <2>2, <2>7
    <3> DEFINE q == IF m.table[i].state = "FREE" THEN m ELSE UnchainKnownCreature(m, m.table[i].id)
               n == [table |-> t, chain |-> k, words |-> Append(m.words, w)]
    <3>1. q.words = m.words /\ q = [table |-> q.table, chain |-> q.chain, words |-> q.words]
          /\ q.table \in Tables /\ q.chain \in Chains
          /\ [q.table EXCEPT ![i] = [id |-> c, state |-> "UPTODATE"]] = t
          /\ [q.chain EXCEPT ![c] = @ \cup {i}] = k
      <4>0. \A x \in Creatures : m.chain[x] \in SUBSET Entries
        BY <1>1 DEF Chains
      <4>1. m.chain[c] = {}
        <5>1. CASE E = {}
          BY <1>2, <1>4, <5>1 DEF Linked
        <5>2. CASE E # {}
          <6>1. m.table[l].state = "FREE"
            BY <1>3, <1>7, <5>2
          <6>2. l \in Entries /\ m.table[l].id = c
            BY <1>3, <5>2
          <6> HIDE DEF l
          <6> QED BY <1>1, <1>2, <6>1, <6>2, LinkedEntry
        <5> QED BY <5>1, <5>2
      <4>2. CASE m.table[i].state = "FREE"
        <5>1. \A x \in Creatures : i \notin m.chain[x]
          BY <3>0, <4>2 DEF Linked
        <5>2. \A x \in Creatures : [m.chain EXCEPT ![c] = @ \cup {i}][x] = k[x]
          BY <1>1, <1>2, <4>0, <4>1, <5>1 DEF Chains
        <5>3. [m.chain EXCEPT ![c] = @ \cup {i}] = k
          BY <1>1, <5>2 DEF Chains
        <5>4. q = m
          BY <4>2
        <5> HIDE DEF q, k
        <5> QED BY <1>1, <5>3, <5>4
      <4>3. CASE m.table[i].state # "FREE"
        <5> DEFINE o == m.table[i].id
        <5>1. o \in alive /\ o \in Creatures
          BY <3>0, <4>3 DEF Linked
        <5>2. m.chain[o] = {i}
          BY <1>1, <3>0, <4>3, <5>1, LinkedEntry
        <5>3. o # c
          BY <4>1, <5>2
        <5> HIDE DEF o
        <5>4. Lowest({i}) = i
          <6>1. {i} \in SUBSET Entries /\ {i} # {}
            BY <3>0
          <6> QED BY <6>1, LowestIsIn
        <5>5. q = [m EXCEPT !.table[i].state = "FREE", !.chain[o] = @ \ {i}]
          BY <4>3, <5>1, <5>2, <5>4 DEF UnchainKnownCreature, o
        <5>6. q = [table |-> [m.table EXCEPT ![i].state = "FREE"],
                   chain |-> [m.chain EXCEPT ![o] = @ \ {i}], words |-> m.words]
          BY <1>1, <5>5
        <5> HIDE DEF q
        <5>7. q.table = [m.table EXCEPT ![i].state = "FREE"]
              /\ q.chain = [m.chain EXCEPT ![o] = @ \ {i}] /\ q.words = m.words
          BY <5>6
        <5>8. q.table \in Tables /\ q.chain \in Chains
          <6>1. q.table \in Tables
            <7>1. [m.table EXCEPT ![i].state = "FREE"] \in Tables
              BY <1>1, <3>0, EntryMarked
            <7> QED BY <5>7, <7>1
          <6>2. q.chain \in Chains
            BY <1>1, <4>0, <5>1, <5>7 DEF Chains
          <6> QED BY <6>1, <6>2
        <5>9. [q.table EXCEPT ![i] = [id |-> c, state |-> "UPTODATE"]] = t
          BY <1>1, <3>0, <5>7 DEF Tables
        <5>10. [q.chain EXCEPT ![c] = @ \cup {i}] = k
          <6>1. \A x \in Creatures : x # o => i \notin m.chain[x]
            BY <3>0 DEF Linked, o
          <6>2. \A x \in Creatures : [q.chain EXCEPT ![c] = @ \cup {i}][x] = k[x]
            <7> TAKE x \in Creatures
            <7>1. CASE x = c
              BY <1>1, <1>2, <4>1, <5>3, <5>7, <7>1 DEF Chains
            <7>2. CASE x = o
              BY <1>1, <5>1, <5>3, <5>7, <7>2 DEF Chains
            <7>3. CASE x # o /\ x # c
              BY <1>1, <4>0, <5>7, <6>1, <7>3 DEF Chains
            <7> QED BY <7>1, <7>2, <7>3
          <6> QED BY <5>8, <6>2 DEF Chains
        <5> QED BY <5>6, <5>7, <5>8, <5>9, <5>10
      <4> QED BY <4>2, <4>3
    <3>2. SendMapObject(m, c, view) =
             [q EXCEPT !.table[i] = [id |-> c, state |-> "UPTODATE"],
                       !.chain[c] = @ \cup {i}, !.words = Append(@, w)]
      <4>1. q = IF i = 0 \/ m.table[i].state = "FREE" THEN m
                ELSE UnchainKnownCreature(m, IF i = 0 THEN 0 ELSE m.table[i].id)
        BY <2>7
      <4> QED BY <2>1, <2>7 DEF NewKnownCreature, i
    <3> HIDE DEF q, t, k
    <3>3. SendMapObject(m, c, view) = n
      <4> HIDE DEF w
      <4> QED BY <3>1, <3>2
    <3>4. t \in Tables /\ k \in Chains
      <4>1. t \in Tables
        BY <1>1, <1>2, <3>0 DEF Tables, Entry, t
      <4>2. \A x \in Creatures : m.chain[x] \in SUBSET Entries
        BY <1>1 DEF Chains
      <4>3. k \in Chains
        BY <3>0, <4>2 DEF Chains, k
      <4> QED BY <4>1, <4>3
    <3>5. n \in Drafts
      <4> HIDE DEF w
      <4> QED BY <1>1, <2>5, <3>4 DEF Drafts
    <3>6. Sent(m.table, m.chain, c, view, version, t, k, i, w)
      <4>1. w = [word |-> 97, id |-> c, version |-> version[c],
                 old |-> IF i \in Entries THEN m.table[i].id ELSE 0]
        BY <2>4
      <4>2. k = [x \in Creatures |-> IF x = c THEN {i} ELSE m.chain[x] \ {i}]
        BY DEF k
      <4>3. t = [m.table EXCEPT ![i] = [id |-> c, state |-> "UPTODATE"]]
        BY DEF t
      <4> HIDE DEF w, old
      <4> QED BY <2>2, <3>0, <4>1, <4>2, <4>3 DEF Sent
    <3>7. goal(n, i, w)
      <4>1. n.table = t /\ n.chain = k /\ n.words = Append(m.words, w)
        OBVIOUS
      <4> HIDE DEF n, w
      <4> QED BY <3>3, <3>6, <4>1
    <3> HIDE DEF goal, n, w
    <3>8. \E nn \in Drafts, ii \in Entries \cup {0}, ww \in Words : goal(nn, ii, ww)
      BY <2>2, <2>5, <3>5, <3>7
    <3> QED BY <3>8 DEF goal
  <2> QED BY <2>6, <2>7
<1>8. KnownCreature(m, c) \in {"FREE", "UPTODATE", "OUTDATED"}
  <2>1. CASE E = {}
    BY <1>4, <2>1
  <2>2. CASE E # {}
    BY <1>1, <1>3, <2>2 DEF Tables, Entry
  <2> QED BY <2>1, <2>2
<1> QED BY <1>5, <1>6, <1>7, <1>8

\* A map object of a creature in the world leaves the chains and the table
\* linked.
LEMMA SentKeepsLinked ==
    ASSUME NEW t \in Tables, NEW ch \in Chains, NEW living \in SUBSET Creatures,
           Linked(t, ch, living),
           NEW c \in living, NEW view \in SUBSET living, NEW ver,
           NEW tt, NEW cc, NEW i, NEW w,
           Sent(t, ch, c, view, ver, tt, cc, i, w)
    PROVE  Linked(tt, cc, living)
<1>1. CASE i \notin Entries
  BY <1>1 DEF Sent
<1>2. CASE i \in Entries
  <2>1. /\ t[i].id = c \/ \A j \in Entries : t[j].id # c
        /\ tt = [t EXCEPT ![i] = [id |-> c, state |-> "UPTODATE"]]
        /\ cc = [x \in Creatures |-> IF x = c THEN {i} ELSE ch[x] \ {i}]
    BY <1>2 DEF Sent
  <2>2. /\ tt[i].id = c /\ tt[i].state = "UPTODATE"
        /\ \A j \in Entries : j # i => tt[j] = t[j]
    BY <1>2, <2>1 DEF Tables
  <2>3. c # 0 /\ c \in Creatures
    BY CreaturesAssumption
  <2>4. \A j \in Entries : j # i => t[j].id # c
    BY <1>2, <2>1, <2>3 DEF Linked
  <2>5. ASSUME NEW x \in Creatures
        PROVE  cc[x] = {j \in Entries : tt[j].id = x /\ tt[j].state # "FREE"}
    <3>1. CASE x = c
      BY <1>2, <2>1, <2>2, <2>4, <3>1
    <3>2. CASE x # c
      <4>1. cc[x] = ch[x] \ {i}
        BY <2>1, <3>2
      <4>2. ch[x] = {j \in Entries : t[j].id = x /\ t[j].state # "FREE"}
        BY DEF Linked
      <4>3. \A j \in Entries : j \in cc[x] <=> tt[j].id = x /\ tt[j].state # "FREE"
        BY <2>2, <3>2, <4>1, <4>2
      <4>4. cc[x] \subseteq Entries
        BY <4>1, <4>2
      <4> QED BY <4>3, <4>4
    <3> QED BY <3>1, <3>2
  <2>6. \A j, k \in Entries : tt[j].id = tt[k].id /\ tt[j].id # 0 => j = k
    BY <2>2, <2>4 DEF Linked
  <2>7. \A j \in Entries : tt[j].state # "FREE" => tt[j].id \in living
    BY <2>2 DEF Linked
  <2> QED BY <2>5, <2>6, <2>7 DEF Linked
<1> QED BY <1>1, <1>2

\* The map objects of one answer, one after the other.
SentUpTo(u, order, view) ==
    /\ u \in [0..Len(order) -> Drafts]
    /\ u[0] = [table |-> table, chain |-> chain, words |-> <<>>]
    /\ \A i \in 0..Len(order) : Linked(u[i].table, u[i].chain, alive)
    /\ \A i \in 1..Len(order) : u[i] = SendMapObject(u[i - 1], order[i], view)

LEMMA MapObjectsSent ==
    ASSUME alive \subseteq Creatures, table \in Tables, chain \in Chains,
           Linked(table, chain, alive), version \in [Creatures -> Nat],
           NEW view \in SUBSET alive, NEW order \in Seq(alive)
    PROVE  \E u : /\ SentUpTo(u, order, view)
                  /\ SendMapObjects(order, view) = u[Len(order)]
<1> DEFINE n == Len(order)
           a == [table |-> table, chain |-> chain, words |-> <<>>]
           X == {m \in Drafts : Linked(m.table, m.chain, alive)}
           g == [i \in 1..n |-> [m \in X |-> SendMapObject(m, order[i], view)]]
           upTo[i \in 0..n] == IF i = 0 THEN a ELSE SendMapObject(upTo[i - 1], order[i], view)
<1>1. n \in Nat /\ \A i \in 1..n : order[i] \in alive
  OBVIOUS
<1>2. a \in X
  BY DEF Drafts
<1>3. ASSUME NEW m \in X, NEW c \in alive
      PROVE  SendMapObject(m, c, view) \in X
  <2>1. PICK q \in Drafts, i \in Entries \cup {0}, w \in Words :
            /\ SendMapObject(m, c, view) = q
            /\ Sent(m.table, m.chain, c, view, version, q.table, q.chain, i, w)
    BY <1>3, MapObjectSent
  <2>2. m.table \in Tables /\ m.chain \in Chains
    BY <1>3 DEF Drafts
  <2>3. Linked(q.table, q.chain, alive)
    BY <1>3, <2>1, <2>2, SentKeepsLinked
  <2> QED BY <2>1, <2>3
<1> HIDE DEF X, a, n, upTo
<1>4. g \in [1..n -> [X -> X]]
  BY <1>1, <1>3
<1>5. PICK f \in [0..n -> X] : Folds(f, n, a, g)
  <2> HIDE DEF g
  <2> QED BY <1>1, <1>2, <1>4, FoldExists
<1>6. f = [i \in 0..n |-> IF i = 0 THEN a ELSE SendMapObject(f[i - 1], order[i], view)]
  <2>1. \A i \in 1..n : i - 1 \in 0..n
    BY <1>1
  <2>2. \A i \in 1..n : g[i][f[i - 1]] = SendMapObject(f[i - 1], order[i], view)
    BY <1>5, <2>1
  <2>3. f = [i \in 0..n |-> IF i = 0 THEN a ELSE g[i][f[i - 1]]]
    BY <1>5 DEF Folds
  <2>4. \A i \in 0..n : i # 0 => i \in 1..n
    BY <1>1
  <2> HIDE DEF g
  <2> QED BY <2>2, <2>3, <2>4
<1>7. upTo = [i \in 0..n |-> IF i = 0 THEN a ELSE SendMapObject(upTo[i - 1], order[i], view)]
  BY <1>6 DEF upTo
<1>8. \A i \in 1..n : upTo[i] = SendMapObject(upTo[i - 1], order[i], view)
  BY <1>1, <1>7
<1>9. upTo[0] = a
  BY <1>1, <1>7
<1>10. \A i \in 0..n : upTo[i] \in X
  <2> DEFINE P == {i \in 0..n : upTo[i] \in X}
  <2>1. 0 \in P
    BY <1>1, <1>2, <1>9
  <2>2. ASSUME NEW i \in 1..n, i - 1 \in P PROVE i \in P
    <3>1. upTo[i - 1] \in X /\ order[i] \in alive
      BY <1>1, <2>2
    <3>2. SendMapObject(upTo[i - 1], order[i], view) \in X
      BY <1>3, <3>1
    <3> QED BY <1>1, <1>8, <3>2
  <2>3. Climbs(n, P)
    <3> HIDE DEF P
    <3> QED BY <2>1, <2>2 DEF Climbs
  <2>4. 0..n \subseteq P
    <3> HIDE DEF P
    <3> QED BY <1>1, <2>3, UpTo
  <2> QED BY <2>4
<1>11. SentUpTo(upTo, order, view)
  <2>1. upTo \in [0..n -> Drafts]
    BY <1>7, <1>10 DEF X
  <2>2. \A i \in 0..n : Linked(upTo[i].table, upTo[i].chain, alive)
    BY <1>10 DEF X
  <2> QED BY <1>8, <1>9, <2>1, <2>2 DEF SentUpTo, a, n
<1>12. SendMapObjects(order, view) = upTo[n]
  BY DEF SendMapObjects, upTo, a, n
<1> QED BY <1>11, <1>12 DEF n

-----------------------------------------------------------------------------
(* What the client records of the words.                                    *)

Mind == [known : SUBSET Creatures, told : [Creatures -> Nat]]

\* The word w takes what the client knows from r to s and rouses nothing.
Tells(r, w, kind, s) ==
    \A a : RecordCreature([known |-> r.known, told |-> r.told, anomalies |-> a], w, kind)
           = [known |-> s.known, told |-> s.told, anomalies |-> a]

\* The words of an answer of that kind take it from r to s.
Reads(r, words, kind, s) ==
    \E q \in [0..Len(words) -> Mind] :
        /\ q[0] = r /\ q[Len(words)] = s
        /\ \A i \in 1..Len(words) : Tells(q[i - 1], words[i], kind, q[i])

LEMMA ReadsNothing == \A r \in Mind : \A kind : Reads(r, <<>>, kind, r)
<1> TAKE r \in Mind
<1> TAKE kind
<1> DEFINE q == [i \in 0..0 |-> r]
<1>1. q \in [0..Len(<<>>) -> Mind] /\ q[0] = r /\ Len(<<>>) = 0
  OBVIOUS
<1>2. \A i \in 1..Len(<<>>) : Tells(q[i - 1], <<>>[i], kind, q[i])
  OBVIOUS
<1> HIDE DEF q
<1> QED BY <1>1, <1>2 DEF Reads

LEMMA ReadsOneMore ==
    ASSUME NEW r, NEW words \in Seq(Words), NEW kind, NEW s, Reads(r, words, kind, s),
           NEW w \in Words, NEW z \in Mind, Tells(s, w, kind, z)
    PROVE  Reads(r, Append(words, w), kind, z)
<1> DEFINE n == Len(words)
<1>1. PICK q \in [0..n -> Mind] :
          /\ q[0] = r /\ q[n] = s
          /\ \A i \in 1..n : Tells(q[i - 1], words[i], kind, q[i])
  BY DEF Reads
<1> DEFINE p == [i \in 0..(n + 1) |-> IF i = n + 1 THEN z ELSE q[i]]
<1>2. n \in Nat /\ Len(Append(words, w)) = n + 1
      /\ \A i \in 1..n : Append(words, w)[i] = words[i]
      /\ Append(words, w)[n + 1] = w
  OBVIOUS
<1> HIDE DEF n
<1>3. p \in [0..(n + 1) -> Mind] /\ p[0] = r /\ p[n + 1] = z
  BY <1>1, <1>2
<1>4. ASSUME NEW i \in 1..(n + 1)
      PROVE  Tells(p[i - 1], Append(words, w)[i], kind, p[i])
  <2>1. CASE i = n + 1
    <3>1. p[i - 1] = s /\ p[i] = z
      BY <1>1, <1>2, <2>1
    <3> QED BY <1>2, <2>1, <3>1
  <2>2. CASE i # n + 1
    <3>1. i \in 1..n /\ p[i - 1] = q[i - 1] /\ p[i] = q[i]
      BY <1>1, <1>2, <2>2
    <3> HIDE DEF p
    <3> QED BY <1>1, <1>2, <3>1
  <2> QED BY <2>1, <2>2
<1> HIDE DEF p
<1> QED BY <1>2, <1>3, <1>4 DEF Reads

\* RecordCreatures does what the words tell.
LEMMA RecordCreaturesReads ==
    ASSUME NEW words, Len(words) \in Nat, NEW kind, NEW s,
           Reads([known |-> known, told |-> told], words, kind, s)
    PROVE  RecordCreatures(words, kind)
           = [known |-> s.known, told |-> s.told, anomalies |-> anomalies]
<1> DEFINE n == Len(words)
           a == [known |-> known, told |-> told, anomalies |-> anomalies]
           upTo[i \in 0..n] == IF i = 0 THEN a ELSE RecordCreature(upTo[i - 1], words[i], kind)
<1>1. PICK q \in [0..n -> Mind] :
          /\ q[0] = [known |-> known, told |-> told] /\ q[n] = s
          /\ \A i \in 1..n : Tells(q[i - 1], words[i], kind, q[i])
  BY DEF Reads
<1> DEFINE f == [i \in 0..n |-> [known |-> q[i].known, told |-> q[i].told,
                                 anomalies |-> anomalies]]
<1>2. n \in Nat
  OBVIOUS
<1> HIDE DEF n, upTo
<1>3. f[0] = a
  BY <1>1, <1>2
<1>4. ASSUME NEW i \in 1..n PROVE f[i] = RecordCreature(f[i - 1], words[i], kind)
  <2>1. i - 1 \in 0..n /\ i \in 0..n
    BY <1>2
  <2>2. f[i - 1] = [known |-> q[i - 1].known, told |-> q[i - 1].told, anomalies |-> anomalies]
        /\ f[i] = [known |-> q[i].known, told |-> q[i].told, anomalies |-> anomalies]
    BY <2>1
  <2>3. Tells(q[i - 1], words[i], kind, q[i])
    BY <1>1
  <2> HIDE DEF f
  <2> QED BY <2>2, <2>3 DEF Tells
<1>5. f = [i \in 0..n |-> IF i = 0 THEN a ELSE RecordCreature(f[i - 1], words[i], kind)]
  <2>1. f = [i \in 0..n |-> f[i]]
    OBVIOUS
  <2>2. \A i \in 0..n : i = 0 \/ i \in 1..n
    BY <1>2
  <2> HIDE DEF f, a
  <2> QED BY <1>3, <1>4, <2>1, <2>2
<1>6. upTo = [i \in 0..n |-> IF i = 0 THEN a ELSE RecordCreature(upTo[i - 1], words[i], kind)]
  <2> HIDE DEF f, a
  <2> QED BY <1>5 DEF upTo
<1>7. upTo[n] = f[n]
  <2> DEFINE P == {i \in 0..n : upTo[i] = f[i]}
  <2> HIDE DEF f, a
  <2>1. 0 \in P
    BY <1>2, <1>3, <1>6
  <2>2. \A i \in 1..n : i - 1 \in P => i \in P
    BY <1>2, <1>4, <1>6
  <2>3. Climbs(n, P)
    <3> HIDE DEF P
    <3> QED BY <2>1, <2>2 DEF Climbs
  <2>4. 0..n \subseteq P
    <3> HIDE DEF P
    <3> QED BY <1>2, <2>3, UpTo
  <2> QED BY <1>2, <2>4
<1>8. f[n] = [known |-> s.known, told |-> s.told, anomalies |-> anomalies]
  BY <1>1, <1>2
<1>9. RecordCreatures(words, kind) = upTo[n]
  BY DEF RecordCreatures, upTo, n
<1> QED BY <1>7, <1>8, <1>9

-----------------------------------------------------------------------------
(* The table and what the client knows go together.                         *)

\* What a client that knows s has to do with the table t: a record for each
\* creature of shown and for each entry; no short word is owed for shown;
\* and, for a player alive, nothing is out of date that the table says is up
\* to date.
Agree(t, ver, st, s, shown) ==
    /\ shown \subseteq s.known
    /\ \A i \in Entries : t[i].id \in s.known \cup {0}
    /\ \A i \in Entries : t[i].id \in shown => t[i].state = "UPTODATE"
    /\ st = "GAME" => \A i \in Entries :
            t[i].state = "UPTODATE" => s.told[t[i].id] = ver[t[i].id]

\* The word a map object is sent with brings the client along with the table.
LEMMA SentTells ==
    ASSUME NEW t \in Tables, NEW ch \in Chains, NEW living \in SUBSET Creatures,
           Linked(t, ch, living),
           NEW c \in living, NEW view \in SUBSET living, NEW ver \in [Creatures -> Nat],
           NEW tt, NEW cc, NEW i, NEW w, Sent(t, ch, c, view, ver, tt, cc, i, w),
           NEW st, NEW kind, NEW r \in Mind, NEW shown \in SUBSET view,
           Agree(t, ver, st, r, shown)
    PROVE  \E s \in Mind : Tells(r, w, kind, s) /\ Agree(tt, ver, st, s, shown \cup {c})
<1>1. c \in Creatures /\ c # 0
  BY CreaturesAssumption
<1> DEFINE old  == IF i \in Entries THEN t[i].id ELSE 0
           short == w = [word |-> 99, id |-> c]
           \* The record the word evicts, if it does.
           kept == IF old # 0 /\ old # c THEN r.known \ {old} ELSE r.known
           s    == [known |-> kept \cup {c},
                    told |-> [x \in Creatures |->
                                IF x = c THEN IF short THEN r.told[c] ELSE ver[c]
                                ELSE IF x \in kept THEN r.told[x] ELSE 0]]
<1>2. /\ old \in r.known \cup {0}
      /\ r.known \in SUBSET Creatures /\ r.told \in [Creatures -> Nat]
      /\ \A x \in Creatures : r.told[x] \in Nat /\ ver[x] \in Nat
  BY DEF Agree, Mind
<1>3. s \in Mind
  <2>1. kept \in SUBSET Creatures
    BY <1>2
  <2> HIDE DEF kept, short
  <2>2. [x \in Creatures |-> IF x = c THEN IF short THEN r.told[c] ELSE ver[c]
                             ELSE IF x \in kept THEN r.told[x] ELSE 0] \in [Creatures -> Nat]
    BY <1>2
  <2> QED BY <1>1, <2>1, <2>2 DEF Mind
<1>4. \/ /\ i \in Entries /\ t[i].id = c /\ t[i].state = "UPTODATE"
         /\ w = [word |-> 99, id |-> c]
      \/ /\ i \in Entries /\ t[i].id = c
         /\ w = [word |-> 98, id |-> c, version |-> ver[c]]
      \/ w = [word |-> 97, id |-> c, version |-> ver[c], old |-> old]
  BY DEF Sent
<1>5. i \in Entries /\ t[i].id = c => c \in r.known /\ kept = r.known
  BY <1>1 DEF Agree
<1>6. Tells(r, w, kind, s)
  <2> SUFFICES ASSUME NEW a
               PROVE RecordCreature([known |-> r.known, told |-> r.told, anomalies |-> a], w, kind)
                     = [known |-> s.known, told |-> s.told, anomalies |-> a]
    BY DEF Tells
  <2> DEFINE q == [known |-> r.known, told |-> r.told, anomalies |-> a]
  <2>0. q.known = r.known /\ q.told = r.told /\ q.anomalies = a
    OBVIOUS
  <2>1. CASE i \in Entries /\ t[i].id = c /\ w = [word |-> 99, id |-> c]
    <3>1. w.word = 99 /\ w.id = c /\ short /\ kept = r.known /\ c \in r.known
      BY <1>5, <2>1
    <3>2. s.known = r.known \cup {c}
          /\ s.told = [x \in Creatures |-> IF x = c THEN r.told[c]
                                           ELSE IF x \in r.known THEN r.told[x] ELSE 0]
      BY <3>1
    <3> HIDE DEF q, short, kept, old, s
    <3>3. RecordCreature(q, w, kind).known = s.known
      BY <2>0, <3>1, <3>2 DEF RecordCreature
    <3>4. RecordCreature(q, w, kind).told = s.told
      BY <2>0, <3>1, <3>2 DEF RecordCreature
    <3>5. RecordCreature(q, w, kind).anomalies = a
      BY <2>0, <3>1, <3>2 DEF RecordCreature
    <3>6. RecordCreature(q, w, kind) = [known |-> RecordCreature(q, w, kind).known,
               told |-> RecordCreature(q, w, kind).told,
               anomalies |-> RecordCreature(q, w, kind).anomalies]
      BY DEF RecordCreature
    <3> QED BY <3>3, <3>4, <3>5, <3>6 DEF q
  <2>2. CASE i \in Entries /\ t[i].id = c /\ w = [word |-> 98, id |-> c, version |-> ver[c]]
    <3>1. w.word = 98 /\ w.id = c /\ w.version = ver[c] /\ ~ short
          /\ kept = r.known /\ c \in r.known
      <4>1. [word |-> 99, id |-> c].word = 99
        OBVIOUS
      <4> QED BY <1>5, <2>2, <4>1
    <3>2. s.known = r.known \cup {c}
          /\ s.told = [x \in Creatures |-> IF x = c THEN ver[c]
                                           ELSE IF x \in r.known THEN r.told[x] ELSE 0]
      BY <3>1
    <3> HIDE DEF q, short, kept, old, s
    <3>3. RecordCreature(q, w, kind).known = s.known
      BY <2>0, <3>1, <3>2 DEF RecordCreature
    <3>4. RecordCreature(q, w, kind).told = s.told
      BY <2>0, <3>1, <3>2 DEF RecordCreature
    <3>5. RecordCreature(q, w, kind).anomalies = a
      BY <2>0, <3>1, <3>2 DEF RecordCreature
    <3>6. RecordCreature(q, w, kind) = [known |-> RecordCreature(q, w, kind).known,
               told |-> RecordCreature(q, w, kind).told,
               anomalies |-> RecordCreature(q, w, kind).anomalies]
      BY DEF RecordCreature
    <3> QED BY <3>3, <3>4, <3>5, <3>6 DEF q
  <2>3. CASE w = [word |-> 97, id |-> c, version |-> ver[c], old |-> old]
    <3>1. w.word = 97 /\ w.id = c /\ w.version = ver[c] /\ w.old = old /\ ~ short
      <4>1. [word |-> 99, id |-> c].word = 99
        OBVIOUS
      <4> QED BY <2>3, <4>1
    <3>2. s.known = kept \cup {c}
          /\ s.told = [x \in Creatures |-> IF x = c THEN ver[c]
                                           ELSE IF x \in kept THEN r.told[x] ELSE 0]
      BY <3>1
    <3>7. kept = IF old # 0 /\ old # c THEN r.known \ {old} ELSE r.known
      OBVIOUS
    <3> HIDE DEF q, short, kept, old, s
    <3>3. RecordCreature(q, w, kind).known = s.known
      BY <2>0, <3>1, <3>2, <3>7 DEF RecordCreature
    <3>4. RecordCreature(q, w, kind).told = s.told
      BY <2>0, <3>1, <3>2, <3>7 DEF RecordCreature
    <3>5. RecordCreature(q, w, kind).anomalies = a
      BY <1>2, <2>0, <3>1, <3>2, <3>7 DEF RecordCreature
    <3>6. RecordCreature(q, w, kind) = [known |-> RecordCreature(q, w, kind).known,
               told |-> RecordCreature(q, w, kind).told,
               anomalies |-> RecordCreature(q, w, kind).anomalies]
      BY DEF RecordCreature
    <3> QED BY <3>3, <3>4, <3>5, <3>6 DEF q
  <2> QED BY <1>4, <2>1, <2>2, <2>3
<1>7. Agree(tt, ver, st, s, shown \cup {c})
  <2>1. /\ s.known = kept \cup {c}
        /\ s.told[c] = IF short THEN r.told[c] ELSE ver[c]
        /\ \A x \in kept : x # c => s.told[x] = r.told[x]
    BY <1>1, <1>2
  <2>2. CASE i \notin Entries
    <3>1. tt = t /\ kept = r.known /\ \A j \in Entries : t[j].id # c
      BY <2>2 DEF Sent
    <3> HIDE DEF s, kept, short, old
    <3>2. \A j \in Entries : t[j].id \in r.known \cup {0}
      BY DEF Agree
    <3>3. st = "GAME" => \A j \in Entries :
            t[j].state = "UPTODATE" => s.told[t[j].id] = ver[t[j].id]
      <4> SUFFICES ASSUME st = "GAME", NEW j \in Entries, t[j].state = "UPTODATE"
                   PROVE s.told[t[j].id] = ver[t[j].id]
        OBVIOUS
      <4>1. t[j].id \in living
        BY DEF Linked
      <4>2. t[j].id # 0
        BY <4>1, CreaturesAssumption
      <4>3. r.told[t[j].id] = ver[t[j].id]
        BY DEF Agree
      <4> QED BY <2>1, <3>1, <3>2, <4>2, <4>3
    <3> QED BY <2>1, <3>1, <3>2, <3>3 DEF Agree
  <2>3. CASE i \in Entries
    <3>1. /\ t[i].id = c \/ (/\ \A j \in Entries : t[j].id # c
                             /\ t[i].state = "FREE" \/ t[i].id \notin view)
          /\ tt = [t EXCEPT ![i] = [id |-> c, state |-> "UPTODATE"]]
      BY <2>3 DEF Sent
    <3>2. /\ tt[i].id = c /\ tt[i].state = "UPTODATE"
          /\ \A j \in Entries : j # i => tt[j] = t[j]
      BY <2>3, <3>1 DEF Tables
    <3>3. old = t[i].id
      BY <2>3
    <3>4. \A x \in shown : x \in kept
      <4> TAKE x \in shown
      <4>1. x \in r.known
        BY DEF Agree
      <4>2. old # c => old \notin shown
        <5>1. ASSUME old # c, old \in shown PROVE FALSE
          <6>1. t[i].state = "UPTODATE"
            BY <2>3, <3>3, <5>1 DEF Agree
          <6>2. t[i].id \in view
            BY <3>3, <5>1
          <6> QED BY <3>1, <3>3, <5>1, <6>1, <6>2
        <5> QED BY <5>1
      <4> QED BY <4>1, <4>2
    <3>5. ASSUME NEW j \in Entries, j # i PROVE t[j].id \in kept \cup {0} /\ t[j].id # c
      <4>1. t[j].id \in r.known \cup {0}
        BY DEF Agree
      <4>2. t[j].id = old => old = 0
        BY <2>3, <3>3, <3>5 DEF Linked
      <4>3. t[j].id # c
        BY <1>1, <2>3, <3>1, <3>5 DEF Linked
      <4> QED BY <4>1, <4>2, <4>3
    <3>6. st = "GAME" => s.told[c] = ver[c]
      <4>1. CASE ~ short
        BY <2>1, <4>1
      <4>2. CASE short
        <5>1. w.word = 99
          BY <4>2
        <5>2. t[i].id = c /\ t[i].state = "UPTODATE"
          <6>1. w # [word |-> 98, id |-> c, version |-> ver[c]]
            <7>1. [word |-> 98, id |-> c, version |-> ver[c]].word = 98
              OBVIOUS
            <7> QED BY <5>1, <7>1
          <6>2. w # [word |-> 97, id |-> c, version |-> ver[c], old |-> old]
            <7>1. [word |-> 97, id |-> c, version |-> ver[c], old |-> old].word = 97
              OBVIOUS
            <7> QED BY <5>1, <7>1
          <6> HIDE DEF short, old
          <6> QED BY <1>4, <6>1, <6>2
        <5>3. st = "GAME" => r.told[c] = ver[c]
          BY <2>3, <5>2 DEF Agree
        <5> QED BY <2>1, <4>2, <5>3
      <4> QED BY <4>1, <4>2
    <3> HIDE DEF s, kept, short, old
    <3>7. ASSUME st = "GAME", NEW j \in Entries, tt[j].state = "UPTODATE"
          PROVE  s.told[tt[j].id] = ver[tt[j].id]
      <4>1. CASE j = i
        BY <3>2, <3>6, <3>7, <4>1
      <4>2. CASE j # i
        <5>1. tt[j] = t[j]
          BY <3>2, <4>2
        <5>2. t[j].id \in kept /\ t[j].id # c
          <6>1. t[j].id \in living
            BY <3>7, <5>1 DEF Linked
          <6>2. t[j].id # 0
            BY <6>1, CreaturesAssumption
          <6> QED BY <3>5, <4>2, <6>2
        <5>3. r.told[t[j].id] = ver[t[j].id]
          BY <3>7, <5>1 DEF Agree
        <5> QED BY <2>1, <5>1, <5>2, <5>3
      <4> QED BY <4>1, <4>2
    <3>8. \A j \in Entries : tt[j].id \in s.known \cup {0}
      BY <2>1, <3>2, <3>5
    <3>9. ASSUME NEW j \in Entries, tt[j].id \in shown \cup {c} PROVE tt[j].state = "UPTODATE"
      <4>1. CASE j = i
        BY <3>2, <4>1
      <4>2. CASE j # i
        <5>1. t[j].id \in shown
          BY <3>2, <3>5, <3>9, <4>2
        <5> QED BY <3>2, <4>2, <5>1 DEF Agree
      <4> QED BY <4>1, <4>2
    <3>10. shown \cup {c} \subseteq s.known
      BY <2>1, <3>4
    <3> QED BY <3>7, <3>8, <3>9, <3>10 DEF Agree
  <2> QED BY <2>2, <2>3
<1> HIDE DEF s
<1> QED BY <1>3, <1>6, <1>7

Seen(order, i) == {order[j] : j \in 1..i}

LEMMA SeenOneMore ==
    ASSUME NEW order, NEW i \in Nat, i # 0
    PROVE  Seen(order, i) = Seen(order, i - 1) \cup {order[i]}
<1>1. 1..i = 1..(i - 1) \cup {i}
  OBVIOUS
<1> QED BY <1>1 DEF Seen

LEMMA NamedOneMore ==
    ASSUME NEW words \in Seq(Words), NEW w \in Words
    PROVE  Named(Append(words, w)) = Named(words) \cup {w.id}
<1> DEFINE n == Len(words)
           ws == Append(words, w)
<1>1. n \in Nat /\ Len(ws) = n + 1 /\ ws[n + 1] = w
      /\ \A i \in 1..n : ws[i] = words[i]
  OBVIOUS
<1>2. 1..(n + 1) = 1..n \cup {n + 1}
  BY <1>1
<1>3. Named(ws) = {ws[i].id : i \in 1..(n + 1)}
  BY <1>1 DEF Named
<1>4. Named(words) = {words[i].id : i \in 1..n}
  BY DEF Named
<1> HIDE DEF n, ws
<1>5. \A x : x \in Named(ws) <=> x \in Named(words) \/ x = w.id
  BY <1>1, <1>2, <1>3, <1>4
<1> QED BY <1>5 DEF ws

\* A client in step with the table reads the answer without surprise, and is
\* in step with what the table has become.
LEMMA ShownIsRead ==
    ASSUME alive \subseteq Creatures, version \in [Creatures -> Nat],
           NEW view \in SUBSET alive, NEW order \in Seq(alive),
           Seen(order, Len(order) - 1) \subseteq view,
           NEW u, SentUpTo(u, order, view),
           NEW st, NEW kind, NEW r \in Mind, NEW shown \in SUBSET view,
           Agree(table, version, st, r, shown)
    PROVE  \E s \in Mind :
              /\ Reads(r, u[Len(order)].words, kind, s)
              /\ Agree(u[Len(order)].table, version, st, s,
                       shown \cup Seen(order, Len(order)))
              /\ Named(u[Len(order)].words) = Seen(order, Len(order))
<1> DEFINE n == Len(order)
           goal(i, s) == /\ Reads(r, u[i].words, kind, s)
                         /\ Agree(u[i].table, version, st, s, shown \cup Seen(order, i))
                         /\ Named(u[i].words) = Seen(order, i)
           P == {i \in 0..n : \E s \in Mind : goal(i, s)}
<1>1. n \in Nat /\ \A i \in 1..n : order[i] \in alive
  OBVIOUS
<1>2. /\ u \in [0..n -> Drafts]
      /\ u[0] = [table |-> table, chain |-> chain, words |-> <<>>]
      /\ \A i \in 0..n : Linked(u[i].table, u[i].chain, alive)
      /\ \A i \in 1..n : u[i] = SendMapObject(u[i - 1], order[i], view)
  BY DEF SentUpTo
<1> HIDE DEF n
<1>3. 0 \in P
  <2>1. u[0].table = table /\ u[0].words = <<>>
    BY <1>2
  <2>2. Seen(order, 0) = {} /\ Named(<<>>) = {}
    BY DEF Seen, Named
  <2>3. shown \cup {} = shown
    OBVIOUS
  <2>4. Reads(r, <<>>, kind, r)
    BY ReadsNothing
  <2>5. goal(0, r)
    BY <2>1, <2>2, <2>3, <2>4
  <2> HIDE DEF goal
  <2> QED BY <1>1, <2>5
<1>4. ASSUME NEW i \in 1..n, i - 1 \in P PROVE i \in P
  <2> DEFINE m == u[i - 1]
             c == order[i]
  <2>1. i - 1 \in 0..n /\ i \in 0..n /\ i \in Nat /\ i # 0
    BY <1>1
  <2>2. m \in Drafts /\ Linked(m.table, m.chain, alive) /\ c \in alive
        /\ u[i] = SendMapObject(m, c, view)
    BY <1>1, <1>2, <2>1
  <2>3. PICK s \in Mind : goal(i - 1, s)
    BY <1>4
  <2> HIDE DEF m, c
  <2>4. PICK q \in Drafts, e \in Entries \cup {0}, w \in Words :
            /\ SendMapObject(m, c, view) = q
            /\ Sent(m.table, m.chain, c, view, version, q.table, q.chain, e, w)
            /\ q.words = Append(m.words, w)
    BY <2>2, MapObjectSent
  <2>5. w.id = c
    BY <2>4 DEF Sent
  <2>6. m.table \in Tables /\ m.chain \in Chains /\ m.words \in Seq(Words)
    BY <2>2 DEF Drafts
  <2> DEFINE sh == shown \cup Seen(order, i - 1)
  <2>7. sh \in SUBSET view
    <3>1. Seen(order, i - 1) \subseteq Seen(order, n - 1)
      BY <1>1, <2>1 DEF Seen
    <3> QED BY <3>1 DEF n
  <2>8. Reads(r, m.words, kind, s) /\ Agree(m.table, version, st, s, sh)
        /\ Named(m.words) = Seen(order, i - 1)
    BY <2>3 DEF m
  <2> HIDE DEF sh
  <2>9. PICK z \in Mind : Tells(s, w, kind, z) /\ Agree(q.table, version, st, z, sh \cup {c})
    <3>1. alive \in SUBSET Creatures
      OBVIOUS
    <3> QED BY <2>2, <2>4, <2>6, <2>7, <2>8, <3>1, SentTells
  <2>10. Reads(r, q.words, kind, z)
    BY <2>4, <2>6, <2>8, <2>9, ReadsOneMore
  <2>11. Named(q.words) = Seen(order, i) /\ sh \cup {c} = shown \cup Seen(order, i)
    <3>1. Seen(order, i) = Seen(order, i - 1) \cup {c}
      BY <2>1, SeenOneMore DEF c
    <3>2. Named(q.words) = Named(m.words) \cup {w.id}
      BY <2>4, <2>6, NamedOneMore
    <3> QED BY <2>5, <2>8, <3>1, <3>2 DEF sh
  <2>12. goal(i, z)
    <3>1. u[i] = q
      BY <2>2, <2>4
    <3> QED BY <2>9, <2>10, <2>11, <3>1
  <2> HIDE DEF goal
  <2> QED BY <2>1, <2>12
<1>5. n \in P
  <2> HIDE DEF P
  <2>1. Climbs(n, P)
    BY <1>3, <1>4 DEF Climbs
  <2>2. 0..n \subseteq P
    BY <1>1, <2>1, UpTo
  <2> QED BY <1>1, <2>2
<1>6. \E s \in Mind : goal(n, s)
  BY <1>5
<1> QED BY <1>6 DEF n

\* Orders(S) are the sequences that name each element of S.
LEMMA OrdersAreAll ==
    ASSUME NEW S, IsFiniteSet(S), NEW order \in Orders(S)
    PROVE  order \in Seq(S) /\ Seen(order, Len(order)) = S
<1> DEFINE n == Cardinality(S)
<1>1. n \in Nat
  BY FS_CardinalityType
<1>2. order \in [1..n -> S] /\ \A i, j \in 1..n : i # j => order[i] # order[j]
  BY DEF Orders
<1> HIDE DEF n
<1>3. order \in Seq(S) /\ Len(order) = n
  BY <1>1, <1>2
<1> DEFINE R == {order[i] : i \in 1..n}
<1>4. R \subseteq S
  BY <1>2
<1>5. IsFiniteSet(R) /\ Cardinality(R) = n
  <2>1. order \in Bijection(1..n, R)
    <3>1. order \in [1..n -> R]
      BY <1>2
    <3>2. \A y \in R : \E x \in 1..n : order[x] = y
      OBVIOUS
    <3> HIDE DEF R
    <3> QED BY <1>2, <3>1, <3>2 DEF Bijection, Injection, Surjection, IsInjective
  <2>2. ExistsBijection(1..n, R)
    <3> HIDE DEF R
    <3> QED BY <2>1 DEF ExistsBijection
  <2> HIDE DEF R
  <2> QED BY <1>1, <2>2, FS_CountingElements, FS_NatBijection
<1>6. R = S
  <2> HIDE DEF R
  <2> QED BY <1>4, <1>5, FS_Subset DEF n
<1> QED BY <1>3, <1>6 DEF Seen

-----------------------------------------------------------------------------
(* The answers on their way.                                                *)

MapKinds == {"FULLSCREEN", "ROW", "ADD_FIELD", "CHANGE_FIELD"}

MapAnswer == [kind : MapKinds, id : {0}, gone : SUBSET Creatures, words : Seq(Words)]
PlaceAnswer == [kind : {"MOVE_CREATURE", "DELETE_FIELD"}, id : Creatures,
                gone : SUBSET Creatures, words : {<<>>}]
AttributeAnswer == [kind : {"ATTRIBUTE"}, id : Creatures, gone : {{}},
                    words : {<<>>}, version : Nat]
AnswerTypes == MapAnswer \cup PlaceAnswer \cup AttributeAnswer

Mirrors == [known : SUBSET Creatures, told : [Creatures -> Nat], onMap : SUBSET Creatures]

\* The answer a takes the mirror r to s, and the client reports nothing.
Follows(r, a, s) ==
    \/ /\ a.kind \in MapKinds
       /\ Reads([known |-> r.known, told |-> r.told], a.words, a.kind,
                [known |-> s.known, told |-> s.told])
       /\ s.onMap = (IF a.kind = "FULLSCREEN" THEN {} ELSE r.onMap \ a.gone)
                    \cup Named(a.words)
       /\ a.kind = "CHANGE_FIELD" => Named(a.words) \subseteq r.onMap
    \/ /\ a.kind = "DELETE_FIELD" /\ a.gone \subseteq r.onMap
       /\ s.known = r.known /\ s.told = r.told /\ s.onMap = r.onMap \ a.gone
    \/ /\ a.kind = "MOVE_CREATURE" /\ a.id \in r.onMap /\ a.id \in r.known
       /\ s = r
    \/ /\ a.kind = "ATTRIBUTE" /\ a.id \in r.known
       /\ s.known = r.known /\ s.told = [r.told EXCEPT ![a.id] = a.version]
       /\ s.onMap = r.onMap

\* The answers of ch, one after the other, take it from r to f.
Trip(r, ch, f) ==
    \E q \in [0..Len(ch) -> Mirrors] :
        /\ q[0] = r /\ q[Len(ch)] = f
        /\ \A i \in 1..Len(ch) : Follows(q[i - 1], ch[i], q[i])

LEMMA TripOfNothing ==
    ASSUME NEW r \in Mirrors, NEW f
    PROVE  Trip(r, <<>>, f) <=> f = r
<1>1. ASSUME f = r PROVE Trip(r, <<>>, f)
  <2> DEFINE q == [i \in 0..0 |-> r]
  <2>1. q \in [0..Len(<<>>) -> Mirrors] /\ q[0] = r /\ q[Len(<<>>)] = f
    BY <1>1
  <2>2. \A i \in 1..Len(<<>>) : Follows(q[i - 1], <<>>[i], q[i])
    OBVIOUS
  <2> HIDE DEF q
  <2> QED BY <2>1, <2>2 DEF Trip
<1>2. ASSUME Trip(r, <<>>, f) PROVE f = r
  BY <1>2 DEF Trip
<1> QED BY <1>1, <1>2

LEMMA TripOneMore ==
    ASSUME NEW r, NEW ch \in Seq(AnswerTypes), NEW f, Trip(r, ch, f),
           NEW a \in AnswerTypes, NEW g \in Mirrors, Follows(f, a, g)
    PROVE  Trip(r, Append(ch, a), g)
<1> DEFINE n == Len(ch)
<1>1. PICK q \in [0..n -> Mirrors] :
          /\ q[0] = r /\ q[n] = f
          /\ \A i \in 1..n : Follows(q[i - 1], ch[i], q[i])
  BY DEF Trip
<1> DEFINE p == [i \in 0..(n + 1) |-> IF i = n + 1 THEN g ELSE q[i]]
<1>2. n \in Nat /\ Len(Append(ch, a)) = n + 1
      /\ \A i \in 1..n : Append(ch, a)[i] = ch[i]
      /\ Append(ch, a)[n + 1] = a
  OBVIOUS
<1> HIDE DEF n
<1>3. p \in [0..(n + 1) -> Mirrors] /\ p[0] = r /\ p[n + 1] = g
  BY <1>1, <1>2
<1>4. ASSUME NEW i \in 1..(n + 1)
      PROVE  Follows(p[i - 1], Append(ch, a)[i], p[i])
  <2>1. CASE i = n + 1
    <3>1. p[i - 1] = f /\ p[i] = g
      BY <1>1, <1>2, <2>1
    <3> QED BY <1>2, <2>1, <3>1
  <2>2. CASE i # n + 1
    <3>1. i \in 1..n /\ p[i - 1] = q[i - 1] /\ p[i] = q[i]
      BY <1>1, <1>2, <2>2
    <3> HIDE DEF p
    <3> QED BY <1>1, <1>2, <3>1
  <2> QED BY <2>1, <2>2
<1> HIDE DEF p
<1> QED BY <1>2, <1>3, <1>4 DEF Trip

LEMMA TripOneLess ==
    ASSUME NEW r, NEW ch \in Seq(AnswerTypes), ch # <<>>, NEW f, Trip(r, ch, f)
    PROVE  \E s \in Mirrors : Follows(r, Head(ch), s) /\ Trip(s, Tail(ch), f)
<1> DEFINE n == Len(ch)
<1>1. PICK q \in [0..n -> Mirrors] :
          /\ q[0] = r /\ q[n] = f
          /\ \A i \in 1..n : Follows(q[i - 1], ch[i], q[i])
  BY DEF Trip
<1> DEFINE p == [i \in 0..(n - 1) |-> q[i + 1]]
<1>2. n \in Nat /\ n > 0 /\ Len(Tail(ch)) = n - 1 /\ Head(ch) = ch[1]
      /\ \A i \in 1..(n - 1) : Tail(ch)[i] = ch[i + 1]
  OBVIOUS
<1> HIDE DEF n
<1>3. p \in [0..(n - 1) -> Mirrors] /\ p[0] = q[1] /\ p[n - 1] = f
  BY <1>1, <1>2
<1>4. ASSUME NEW i \in 1..(n - 1)
      PROVE  Follows(p[i - 1], Tail(ch)[i], p[i])
  <2>1. p[i - 1] = q[i] /\ p[i] = q[i + 1] /\ i + 1 \in 1..n /\ (i + 1) - 1 = i
    BY <1>1, <1>2
  <2>2. Follows(q[(i + 1) - 1], ch[i + 1], q[i + 1])
    BY <1>1, <2>1
  <2> HIDE DEF p
  <2> QED BY <1>2, <2>1, <2>2
<1>5. q[1] \in Mirrors /\ Follows(r, Head(ch), q[1])
  <2>1. 1 \in 1..n /\ 1 \in 0..n /\ 1 - 1 = 0
    BY <1>2
  <2> QED BY <1>1, <1>2, <2>1
<1> HIDE DEF p
<1>6. Trip(q[1], Tail(ch), f)
  BY <1>2, <1>3, <1>4 DEF Trip
<1> QED BY <1>5, <1>6

-----------------------------------------------------------------------------
(* The inductive invariant.                                                 *)

Now == [known |-> known, told |-> told, onMap |-> onMap]

Typed ==
    /\ alive \in SUBSET Creatures /\ inView \in SUBSET alive
    /\ version \in [Creatures -> Nat] /\ changes \in Nat
    /\ state \in {"FREE", "GAME", "DEAD", "LOGOUT"}
    /\ table \in Tables /\ chain \in Chains
    /\ known \in SUBSET Creatures /\ onMap \in SUBSET Creatures
    /\ told \in [Creatures -> Nat]
    /\ channel \in Seq(AnswerTypes)

\* The server's side: the chains lead to the entries in use, those are of
\* creatures in the world, and only a player that watches has a view.
Kept ==
    /\ Linked(table, chain, alive)
    /\ state = "FREE" => \A i \in Entries : table[i] = NoEntry
    /\ ~ Watching => inView = {}

\* The client's side: the answers on their way can all be applied in order,
\* and once they are, the client is in step with the table and the view.
Followed ==
    \E f \in Mirrors :
        /\ Trip(Now, channel, f)
        /\ Watching => Agree(table, version, state, f, inView) /\ f.onMap = inView

KInv == Typed /\ Kept /\ Followed /\ MirrorKeepsUp

LEMMA NowIsAMirror == Typed => Now \in Mirrors
  BY DEF Typed, Now, Mirrors

\* Creatures of the old view that the new one still has.
Stays(shown, view) == shown \in SUBSET view /\ shown \subseteq inView

\* An answer of that kind, sent, has left the client in step when it has
\* applied it: it shows those of shown and the creatures the answer names.
Shown(kind, gone, shown, named) ==
    /\ table' \in Tables /\ chain' \in Chains
    /\ channel' \in Seq(AnswerTypes)
    /\ Linked(table', chain', alive)
    /\ \E g \in Mirrors :
        /\ Trip(Now, channel', g)
        /\ Agree(table', version, state, g, shown \cup named)
        /\ g.onMap = (IF kind = "FULLSCREEN" THEN {} ELSE inView \ gone) \cup named

\* The answer that shows the creatures of order to a client in step.
LEMMA ShowsIsFollowed ==
    ASSUME KInv, Watching,
           NEW kind \in MapKinds, NEW view \in SUBSET alive, NEW order \in Seq(alive),
           Seen(order, Len(order) - 1) \subseteq view,
           NEW gone \in SUBSET Creatures, Shows(kind, order, gone, view),
           NEW shown, Stays(shown, view),
           kind = "CHANGE_FIELD" => Seen(order, Len(order)) \subseteq inView
    PROVE  Shown(kind, gone, shown, Seen(order, Len(order)))
<1> DEFINE n == Len(order)
<1>1. /\ alive \in SUBSET Creatures /\ version \in [Creatures -> Nat]
      /\ table \in Tables /\ chain \in Chains /\ channel \in Seq(AnswerTypes)
      /\ Linked(table, chain, alive)
      /\ shown \in SUBSET view /\ shown \subseteq inView
  BY DEF KInv, Typed, Kept, Stays
<1>2. PICK f \in Mirrors : Trip(Now, channel, f)
                           /\ Agree(table, version, state, f, inView) /\ f.onMap = inView
  BY DEF KInv, Followed
<1>3. n \in Nat
  OBVIOUS
<1>4. PICK u : SentUpTo(u, order, view) /\ SendMapObjects(order, view) = u[n]
  BY <1>1, <1>3, MapObjectsSent
<1> DEFINE r == [known |-> f.known, told |-> f.told]
<1>5. r \in Mind
  BY DEF Mind, Mirrors
<1>6. Agree(table, version, state, r, shown)
  <2>1. r.known = f.known /\ r.told = f.told
    OBVIOUS
  <2> HIDE DEF r
  <2> QED BY <1>1, <1>2, <2>1 DEF Agree
<1> HIDE DEF r, n
<1>7. PICK s \in Mind :
              /\ Reads(r, u[n].words, kind, s)
              /\ Agree(u[n].table, version, state, s, shown \cup Seen(order, n))
              /\ Named(u[n].words) = Seen(order, n)
  BY <1>1, <1>4, <1>5, <1>6, ShownIsRead DEF n
<1>8. u[n] \in Drafts /\ Linked(u[n].table, u[n].chain, alive)
  BY <1>3, <1>4 DEF SentUpTo, n
<1> DEFINE a == [kind |-> kind, id |-> 0, gone |-> gone, words |-> u[n].words]
           g == [known |-> s.known, told |-> s.told,
                 onMap |-> (IF kind = "FULLSCREEN" THEN {} ELSE inView \ gone) \cup Seen(order, n)]
<1>9. table' = u[n].table /\ chain' = u[n].chain /\ channel' = Append(channel, a)
  BY <1>4 DEF Shows, Answer, n
<1>10. Seen(order, n) \in SUBSET Creatures /\ inView \in SUBSET Creatures
  <2>1. \A i \in 1..n : order[i] \in alive
    BY DEF n
  <2> QED BY <2>1 DEF Seen, KInv, Typed
<1>11. g \in Mirrors
  <2>1. (IF kind = "FULLSCREEN" THEN {} ELSE inView \ gone) \cup Seen(order, n) \in SUBSET Creatures
    BY <1>10
  <2> QED BY <2>1 DEF Mirrors, Mind
<1>12. u[n].words \in Seq(Words) /\ u[n].table \in Tables /\ u[n].chain \in Chains
  BY <1>8 DEF Drafts
<1>13. a \in AnswerTypes
  BY <1>12 DEF AnswerTypes, MapAnswer
<1>14. Follows(f, a, g)
  <2>1. a.kind = kind /\ a.words = u[n].words /\ a.gone = gone
    OBVIOUS
  <2>2. g.known = s.known /\ g.told = s.told
        /\ g.onMap = (IF kind = "FULLSCREEN" THEN {} ELSE inView \ gone) \cup Seen(order, n)
    OBVIOUS
  <2>3. s = [known |-> s.known, told |-> s.told]
    BY DEF Mind
  <2> HIDE DEF a, g
  <2>4. Reads([known |-> f.known, told |-> f.told], a.words, a.kind,
              [known |-> g.known, told |-> g.told])
    BY <1>7, <2>1, <2>2, <2>3 DEF r
  <2>5. g.onMap = (IF a.kind = "FULLSCREEN" THEN {} ELSE f.onMap \ a.gone)
                    \cup Named(a.words)
    BY <1>2, <1>7, <2>1, <2>2
  <2>6. a.kind = "CHANGE_FIELD" => Named(a.words) \subseteq f.onMap
    BY <1>2, <1>7, <2>1 DEF n
  <2> QED BY <2>1, <2>4, <2>5, <2>6 DEF Follows
<1>15. Agree(u[n].table, version, state, g, shown \cup Seen(order, n))
  <2>1. g.known = s.known /\ g.told = s.told
    OBVIOUS
  <2> HIDE DEF g
  <2> QED BY <1>7, <2>1 DEF Agree
<1>16. g.onMap = (IF kind = "FULLSCREEN" THEN {} ELSE inView \ gone) \cup Seen(order, n)
  OBVIOUS
<1> HIDE DEF a, g
<1>17. Trip(Now, channel', g)
  BY <1>1, <1>2, <1>9, <1>11, <1>13, <1>14, TripOneMore
<1>18. channel' \in Seq(AnswerTypes)
  BY <1>1, <1>9, <1>13
<1> QED BY <1>8, <1>9, <1>11, <1>12, <1>15, <1>16, <1>17, <1>18 DEF n, Shown

-----------------------------------------------------------------------------
(* Every step keeps the invariant.                                          *)

LEMMA InitKInv == Init => KInv
<1> SUFFICES ASSUME Init PROVE KInv
  OBVIOUS
<1>1. Typed
  BY CreaturesAssumption DEF Init, Typed, Tables, Chains, Entry, NoEntry
<1>2. Kept
  <2>1. \A i \in Entries : table[i] = NoEntry /\ table[i].id = 0 /\ table[i].state = "FREE"
    BY DEF Init, NoEntry
  <2>2. \A c \in Creatures : chain[c] = {}
    BY DEF Init
  <2>3. inView = {}
    BY DEF Init
  <2> QED BY <2>1, <2>2, <2>3 DEF Kept, Linked
<1>3. Followed
  <2>1. Now \in Mirrors /\ Trip(Now, channel, Now)
    BY <1>1, NowIsAMirror, TripOfNothing DEF Init
  <2>2. ~ Watching
    BY DEF Init, Watching
  <2> QED BY <2>1, <2>2 DEF Followed
<1>4. MirrorKeepsUp
  BY DEF Init, MirrorKeepsUp
<1> QED BY <1>1, <1>2, <1>3, <1>4 DEF KInv

LEMMA JoinGameKInv == KInv /\ JoinGame => KInv'
<1> SUFFICES ASSUME KInv, JoinGame PROVE KInv'
  OBVIOUS
<1>1. Typed /\ Linked(table, chain, alive) /\ state = "FREE"
      /\ (\A i \in Entries : table[i] = NoEntry) /\ MirrorKeepsUp
  BY DEF KInv, Kept, JoinGame
<1>2. \A i \in Entries : table'[i] = NoEntry /\ table'[i].id = 0 /\ table'[i].state = "FREE"
  BY DEF JoinGame, NoEntry
<1>3. \A c \in Creatures : chain[c] = {}
  BY <1>1 DEF Linked, NoEntry
<1>4. Typed'
  <2>1. Self \in Creatures
    BY CreaturesAssumption
  <2>2. alive' \in SUBSET Creatures /\ inView' \in SUBSET alive' /\ changes' \in Nat
    BY <1>1, <2>1 DEF Typed, JoinGame
  <2>3. version' \in [Creatures -> Nat]
    BY <1>1, <2>1 DEF Typed, JoinGame
  <2>4. table' \in Tables /\ chain' \in Chains
    BY <1>1 DEF Typed, JoinGame, Tables, Entry, NoEntry
  <2>5. known' \in SUBSET Creatures /\ onMap' \in SUBSET Creatures
        /\ told' \in [Creatures -> Nat] /\ channel' \in Seq(AnswerTypes)
        /\ state' \in {"FREE", "GAME", "DEAD", "LOGOUT"}
    BY DEF JoinGame
  <2> QED BY <2>2, <2>3, <2>4, <2>5 DEF Typed
<1>5. Kept'
  <2>1. chain' = chain /\ state' = "GAME" /\ inView' = {}
    BY DEF JoinGame
  <2>2. Linked(table', chain', alive')
    BY <1>2, <1>3, <2>1 DEF Linked
  <2> QED BY <2>1, <2>2 DEF Kept
<1>6. Followed'
  <2>1. Now' \in Mirrors
    BY <1>4 DEF Typed, Now, Mirrors
  <2>2. channel' = <<>> /\ inView' = {} /\ onMap' = {} /\ Now'.onMap = onMap'
    BY DEF JoinGame, Now
  <2>3. Trip(Now', channel', Now')
    BY <2>1, <2>2, TripOfNothing
  <2>4. Agree(table', version', state', Now', inView')
    BY <1>2, <2>2 DEF Agree
  <2> QED BY <2>1, <2>2, <2>3, <2>4 DEF Followed
<1>7. MirrorKeepsUp'
  BY <1>1 DEF MirrorKeepsUp, JoinGame
<1> QED BY <1>4, <1>5, <1>6, <1>7 DEF KInv

LEMMA ViewIsFinite ==
    ASSUME Typed, NEW view \in SUBSET alive
    PROVE  IsFiniteSet(view)
<1>1. view \in SUBSET Creatures
  BY DEF Typed
<1> QED BY <1>1, CreaturesAssumption, FS_Subset

\* After an answer that shows, in a connection whose player has the view v.
LEMMA ShownKInv ==
    ASSUME KInv, Watching, UNCHANGED <<alive, version, changes, state, client>>,
           NEW v \in SUBSET alive, inView' = v,
           table' \in Tables, chain' \in Chains, channel' \in Seq(AnswerTypes),
           Linked(table', chain', alive),
           NEW g \in Mirrors, Trip(Now, channel', g),
           Agree(table', version, state, g, v), g.onMap = v
    PROVE  KInv'
<1>1. Typed'
  BY DEF KInv, Typed, client
<1>2. Watching' /\ state' # "FREE"
  BY DEF Watching
<1>3. Kept'
  BY <1>2 DEF Kept
<1>4. Now' = Now
  BY DEF Now, client
<1>5. Followed'
  BY <1>4 DEF Followed
<1>6. MirrorKeepsUp'
  BY DEF KInv, MirrorKeepsUp, client
<1> QED BY <1>1, <1>3, <1>5, <1>6 DEF KInv

LEMMA SendFullScreenKInv == KInv /\ SendFullScreen => KInv'
<1> SUFFICES ASSUME KInv, SendFullScreen PROVE KInv'
  OBVIOUS
<1>1. PICK view \in SUBSET alive : inView' = view
          /\ \E order \in Orders(view) : Shows("FULLSCREEN", order, {}, view)
  BY DEF SendFullScreen
<1>2. PICK order \in Orders(view) : Shows("FULLSCREEN", order, {}, view)
  BY <1>1
<1>3. /\ order \in Seq(alive) /\ Seen(order, Len(order)) = view
      /\ Seen(order, Len(order) - 1) \subseteq view
  <2>1. order \in Seq(view) /\ Seen(order, Len(order)) = view
    BY <1>1, ViewIsFinite, OrdersAreAll DEF KInv
  <2>2. Seen(order, Len(order) - 1) \subseteq Seen(order, Len(order))
    BY <2>1 DEF Seen
  <2> QED BY <2>1, <2>2
<1>4. Watching /\ UNCHANGED <<alive, version, changes, state, client>>
  BY DEF SendFullScreen
<1> DEFINE kind == "FULLSCREEN"
           gone == {}
           shown == {}
<1>5. /\ kind \in MapKinds /\ gone \in SUBSET Creatures /\ Stays(shown, view)
      /\ kind # "CHANGE_FIELD" /\ kind = "FULLSCREEN"
  BY DEF MapKinds, Stays
<1>6. Shows(kind, order, gone, view)
  BY <1>2
<1>7. shown \cup view = view
  OBVIOUS
<1> HIDE DEF kind, gone, shown
<1>8. Shown(kind, gone, shown, Seen(order, Len(order)))
  BY <1>3, <1>4, <1>5, <1>6, ShowsIsFollowed
<1>9. PICK g \in Mirrors : Trip(Now, channel', g)
                           /\ Agree(table', version, state, g, view) /\ g.onMap = view
  BY <1>3, <1>5, <1>7, <1>8 DEF Shown
<1>10. table' \in Tables /\ chain' \in Chains /\ channel' \in Seq(AnswerTypes)
       /\ Linked(table', chain', alive)
  BY <1>8 DEF Shown
<1> QED BY <1>1, <1>4, <1>9, <1>10, ShownKInv

LEMMA SendRowKInv == KInv /\ SendRow => KInv'
<1> SUFFICES ASSUME KInv, SendRow PROVE KInv'
  OBVIOUS
<1>1. PICK view \in SUBSET alive : inView' = view
          /\ \E order \in Orders(view \ inView) :
                Shows("ROW", order, inView \ view, view)
  BY DEF SendRow
<1>2. PICK order \in Orders(view \ inView) : Shows("ROW", order, inView \ view, view)
  BY <1>1
<1>3. /\ order \in Seq(alive) /\ Seen(order, Len(order)) = view \ inView
      /\ Seen(order, Len(order) - 1) \subseteq view
  <2>1. view \ inView \in SUBSET alive
    OBVIOUS
  <2>2. order \in Seq(view \ inView) /\ Seen(order, Len(order)) = view \ inView
    BY <2>1, ViewIsFinite, OrdersAreAll DEF KInv
  <2>3. Seen(order, Len(order) - 1) \subseteq Seen(order, Len(order))
    BY <2>2 DEF Seen
  <2> QED BY <2>1, <2>2, <2>3
<1>4. Watching /\ UNCHANGED <<alive, version, changes, state, client>>
  BY DEF SendRow
<1> DEFINE kind == "ROW"
           gone == inView \ view
           shown == inView \cap view
<1>5. /\ kind \in MapKinds /\ gone \in SUBSET Creatures /\ Stays(shown, view)
      /\ kind # "CHANGE_FIELD" /\ kind # "FULLSCREEN"
  BY DEF MapKinds, Stays, KInv, Typed
<1>6. Shows(kind, order, gone, view)
  BY <1>2
<1>7. shown \cup (view \ inView) = view /\ (inView \ gone) \cup (view \ inView) = view
  OBVIOUS
<1> HIDE DEF kind, gone, shown
<1>8. Shown(kind, gone, shown, Seen(order, Len(order)))
  BY <1>3, <1>4, <1>5, <1>6, ShowsIsFollowed
<1>9. PICK g \in Mirrors : Trip(Now, channel', g)
                           /\ Agree(table', version, state, g, view) /\ g.onMap = view
  BY <1>3, <1>5, <1>7, <1>8 DEF Shown
<1>10. table' \in Tables /\ chain' \in Chains /\ channel' \in Seq(AnswerTypes)
       /\ Linked(table', chain', alive)
  BY <1>8 DEF Shown
<1> QED BY <1>1, <1>4, <1>9, <1>10, ShownKInv

\* One creature shown where it stands, or where it will.
LEMMA OneShownKInv ==
    ASSUME KInv, Watching, UNCHANGED <<alive, version, changes, state, client>>,
           NEW c \in alive, NEW kind \in {"ADD_FIELD", "CHANGE_FIELD"},
           kind = "CHANGE_FIELD" => c \in inView,
           Shows(kind, <<c>>, {}, inView), inView' = inView \cup {c}
    PROVE  KInv'
<1> DEFINE order == <<c>>
           gone == {}
           view == inView
           v == inView \cup {c}
<1>1. view \in SUBSET alive /\ v \in SUBSET alive
  BY DEF KInv, Typed
<1>2. order \in Seq(alive) /\ Len(order) = 1 /\ order[1] = c
  OBVIOUS
<1>3. kind \in MapKinds /\ gone \in SUBSET Creatures /\ view \subseteq inView
      /\ kind # "FULLSCREEN" /\ inView \ gone = inView /\ inView' = v /\ view \cup {c} = v
  BY DEF MapKinds
<1>4. Shows(kind, order, gone, view)
  OBVIOUS
<1> HIDE DEF order, gone
<1>5. Seen(order, Len(order)) = {c} /\ Seen(order, Len(order) - 1) = {}
  BY <1>2 DEF Seen
<1> HIDE DEF view, v
<1>6. Shown(kind, gone, view, Seen(order, Len(order)))
  <2>1. kind = "CHANGE_FIELD" => Seen(order, Len(order)) \subseteq inView
    BY <1>5
  <2>2. Seen(order, Len(order) - 1) \subseteq view /\ Stays(view, view)
    BY <1>5 DEF Stays, view
  <2> QED BY <1>1, <1>2, <1>3, <1>4, <2>1, <2>2, ShowsIsFollowed
<1>7. PICK g \in Mirrors : Trip(Now, channel', g)
                           /\ Agree(table', version, state, g, v) /\ g.onMap = v
  <2>1. inView \cup {c} = v
    BY DEF v
  <2> QED BY <1>3, <1>5, <1>6, <2>1 DEF Shown
<1>8. table' \in Tables /\ chain' \in Chains /\ channel' \in Seq(AnswerTypes)
       /\ Linked(table', chain', alive)
  BY <1>6 DEF Shown
<1> QED BY <1>1, <1>3, <1>7, <1>8, ShownKInv

LEMMA StepInKInv == ASSUME KInv, NEW c \in Creatures, StepIn(c) PROVE KInv'
<1>1. Watching /\ UNCHANGED <<alive, version, changes, state, client>> /\ c \in alive
      /\ Shows("ADD_FIELD", <<c>>, {}, inView) /\ inView' = inView \cup {c}
  BY DEF StepIn
<1> QED BY <1>1, OneShownKInv

LEMMA TurnKInv == ASSUME KInv, NEW c \in Creatures, Turn(c) PROVE KInv'
<1>1. Watching /\ UNCHANGED <<alive, version, changes, state, client>> /\ c \in inView
      /\ Shows("CHANGE_FIELD", <<c>>, {}, inView) /\ inView' = inView
  BY DEF Turn, world
<1>2. c \in alive /\ inView' = inView \cup {c}
  BY <1>1 DEF KInv, Typed
<1> QED BY <1>1, <1>2, OneShownKInv

\* One answer sent that leaves the table as it is.
LEMMA AnswerFollowed ==
    ASSUME KInv, NEW a \in AnswerTypes, NEW f \in Mirrors, Trip(Now, channel, f),
           NEW g \in Mirrors, Follows(f, a, g), channel' = Append(channel, a)
    PROVE  channel' \in Seq(AnswerTypes) /\ Trip(Now, channel', g)
<1>1. channel \in Seq(AnswerTypes)
  BY DEF KInv, Typed
<1> QED BY <1>1, TripOneMore

LEMMA MoveCreatureKInv == ASSUME KInv, NEW c \in Creatures, MoveCreature(c) PROVE KInv'
<1> DEFINE a == [kind |-> "MOVE_CREATURE", id |-> c, gone |-> {}, words |-> <<>>]
<1>1. PICK f \in Mirrors : Trip(Now, channel, f)
                           /\ Agree(table, version, state, f, inView) /\ f.onMap = inView
  BY DEF KInv, Followed, MoveCreature
<1>2. a \in AnswerTypes
  BY DEF AnswerTypes, PlaceAnswer
<1>3. Follows(f, a, f)
  <2>1. c \in f.onMap /\ c \in f.known
    BY <1>1 DEF MoveCreature, Agree
  <2>2. a.kind = "MOVE_CREATURE" /\ a.id = c
    OBVIOUS
  <2> HIDE DEF a
  <2> QED BY <2>1, <2>2 DEF Follows
<1>4. channel' = Append(channel, a)
  BY DEF MoveCreature, Answer
<1> HIDE DEF a
<1>5. channel' \in Seq(AnswerTypes) /\ Trip(Now, channel', f)
  BY <1>1, <1>2, <1>3, <1>4, AnswerFollowed
<1>6. UNCHANGED <<world, server, client>>
  BY DEF MoveCreature
<1>7. Now' = Now /\ Watching
  BY <1>6 DEF Now, client, MoveCreature
<1>8. Typed' /\ Kept' /\ MirrorKeepsUp'
  BY <1>5, <1>6 DEF KInv, Typed, Kept, Linked, Watching, MirrorKeepsUp, world, server, client
<1>9. Followed'
  BY <1>1, <1>5, <1>6, <1>7 DEF Followed, world, server
<1> QED BY <1>8, <1>9 DEF KInv

\* A creature leaves the view: its tile's update takes it off the map.
LEMMA DeleteFollowed ==
    ASSUME KInv, Watching, NEW c \in Creatures, c \in inView,
           channel' = Answer("DELETE_FIELD", c, {c}, <<>>)
    PROVE  /\ channel' \in Seq(AnswerTypes)
           /\ \E g \in Mirrors : /\ Trip(Now, channel', g)
                                 /\ Agree(table, version, state, g, inView)
                                 /\ g.onMap = inView \ {c}
<1> DEFINE a == [kind |-> "DELETE_FIELD", id |-> c, gone |-> {c}, words |-> <<>>]
<1>1. PICK f \in Mirrors : Trip(Now, channel, f)
                           /\ Agree(table, version, state, f, inView) /\ f.onMap = inView
  BY DEF KInv, Followed
<1> DEFINE g == [known |-> f.known, told |-> f.told, onMap |-> f.onMap \ {c}]
<1>2. a \in AnswerTypes
  BY DEF AnswerTypes, PlaceAnswer
<1>3. g \in Mirrors /\ g.known = f.known /\ g.told = f.told /\ g.onMap = inView \ {c}
  BY <1>1 DEF Mirrors
<1>4. Follows(f, a, g)
  <2>1. a.kind = "DELETE_FIELD" /\ a.gone = {c}
    OBVIOUS
  <2> HIDE DEF a, g
  <2> QED BY <1>1, <1>3, <2>1 DEF Follows
<1>5. channel' = Append(channel, a)
  BY DEF Answer
<1> HIDE DEF a, g
<1>6. channel' \in Seq(AnswerTypes) /\ Trip(Now, channel', g)
  BY <1>1, <1>2, <1>3, <1>4, <1>5, AnswerFollowed
<1>7. Agree(table, version, state, g, inView)
  BY <1>1, <1>3 DEF Agree
<1> QED BY <1>3, <1>6, <1>7

LEMMA StepOutKInv == ASSUME KInv, NEW c \in Creatures, StepOut(c) PROVE KInv'
<1>1. Watching /\ c \in inView /\ channel' = Answer("DELETE_FIELD", c, {c}, <<>>)
      /\ inView' = inView \ {c} /\ UNCHANGED <<alive, version, changes, server, client>>
  BY DEF StepOut
<1>2. PICK g \in Mirrors : /\ Trip(Now, channel', g)
                           /\ Agree(table, version, state, g, inView)
                           /\ g.onMap = inView \ {c}
  BY <1>1, DeleteFollowed
<1>3. channel' \in Seq(AnswerTypes)
  BY <1>1, DeleteFollowed
<1>4. Typed' /\ Kept' /\ MirrorKeepsUp'
  BY <1>1, <1>3 DEF KInv, Typed, Kept, Linked, Watching, MirrorKeepsUp, server, client
<1>5. Now' = Now
  BY <1>1 DEF Now, client
<1>6. Agree(table', version', state', g, inView')
  BY <1>1, <1>2 DEF Agree, server
<1>7. Followed'
  BY <1>1, <1>2, <1>5, <1>6 DEF Followed
<1> QED BY <1>4, <1>7 DEF KInv

LEMMA CreateKInv == ASSUME KInv, NEW c \in Creatures, Create(c) PROVE KInv'
<1>1. /\ c \notin alive /\ changes' = changes + 1
      /\ version' = [version EXCEPT ![c] = @ + 1] /\ alive' = alive \cup {c}
      /\ UNCHANGED <<inView, server, channel, client>>
  BY DEF Create
<1>2. Typed'
  BY <1>1 DEF KInv, Typed, server, client
<1>3. Kept'
  BY <1>1 DEF KInv, Kept, Linked, Watching, server
<1>4. MirrorKeepsUp' /\ Now' = Now
  BY <1>1 DEF KInv, MirrorKeepsUp, Now, client
<1>5. PICK f \in Mirrors : Trip(Now, channel, f)
          /\ (Watching => Agree(table, version, state, f, inView) /\ f.onMap = inView)
  BY DEF KInv, Followed
<1>6. ASSUME Agree(table, version, state, f, inView)
      PROVE  Agree(table', version', state', f, inView')
  <2>1. ASSUME NEW i \in Entries, table[i].state = "UPTODATE"
        PROVE  version'[table[i].id] = version[table[i].id]
    <3>1. table[i].id \in alive
      BY <2>1 DEF KInv, Kept, Linked
    <3> QED BY <1>1, <3>1 DEF KInv, Typed
  <2> QED BY <1>1, <1>6, <2>1 DEF Agree, server
<1>7. Followed'
  BY <1>1, <1>4, <1>5, <1>6 DEF Followed, Watching, server
<1> QED BY <1>2, <1>3, <1>4, <1>7 DEF KInv

LEMMA DieKInv == KInv /\ Die => KInv'
<1> SUFFICES ASSUME KInv, Die PROVE KInv'
  OBVIOUS
<1>1. state = "GAME" /\ state' = "DEAD" /\ UNCHANGED <<world, table, chain, channel, client>>
  BY DEF Die
<1>2. Typed' /\ Kept' /\ MirrorKeepsUp' /\ Now' = Now /\ Watching
  BY <1>1 DEF KInv, Typed, Kept, Linked, Watching, MirrorKeepsUp, Now, world, client
<1>3. PICK f \in Mirrors : Trip(Now, channel, f)
          /\ Agree(table, version, state, f, inView) /\ f.onMap = inView
  BY <1>2 DEF KInv, Followed
<1>4. Agree(table', version', state', f, inView')
  BY <1>1, <1>3 DEF Agree, world
<1>5. Followed'
  BY <1>1, <1>2, <1>3, <1>4 DEF Followed, world
<1> QED BY <1>2, <1>5 DEF KInv

LEMMA LogoutKInv == KInv /\ Logout => KInv'
<1> SUFFICES ASSUME KInv, Logout PROVE KInv'
  OBVIOUS
<1>1. state' = "LOGOUT" /\ inView' = {}
      /\ UNCHANGED <<alive, version, changes, table, chain, channel, client>>
  BY DEF Logout
<1>2. Typed' /\ MirrorKeepsUp' /\ Now' = Now
  BY <1>1 DEF KInv, Typed, MirrorKeepsUp, Now, client
<1>3. Kept' /\ ~ Watching'
  BY <1>1 DEF KInv, Kept, Linked, Watching
<1>4. Followed'
  BY <1>1, <1>2, <1>3 DEF KInv, Followed
<1> QED BY <1>2, <1>3, <1>4 DEF KInv

\* Entries of a chain marked free: the chain is empty then, the rest is as
\* it was.
Freed(t, ch, c) ==
    [i \in Entries |-> IF i \in ch[c] THEN [t[i] EXCEPT !.state = "FREE"] ELSE t[i]]

LEMMA ChainFreed ==
    ASSUME NEW c \in Creatures, NEW t \in Tables, NEW ch \in Chains, NEW living,
           Linked(t, ch, living)
    PROVE  /\ Freed(t, ch, c) \in Tables /\ [ch EXCEPT ![c] = {}] \in Chains
           /\ Linked(Freed(t, ch, c), [ch EXCEPT ![c] = {}], living \ {c})
           /\ \A i \in Entries : /\ Freed(t, ch, c)[i].id = t[i].id
                                 /\ Freed(t, ch, c)[i] = t[i] \/ t[i].id = c
                                 /\ Freed(t, ch, c)[i].state = "UPTODATE"
                                        => t[i] = Freed(t, ch, c)[i]
                                 /\ t[i].state = "FREE" => t[i] = Freed(t, ch, c)[i]
<1> DEFINE tt == Freed(t, ch, c)
           cc == [ch EXCEPT ![c] = {}]
<1>0. tt = [i \in Entries |-> IF i \in ch[c] THEN [t[i] EXCEPT !.state = "FREE"] ELSE t[i]]
      /\ cc = [ch EXCEPT ![c] = {}]
  BY DEF Freed
<1> HIDE DEF tt, cc
<1>1. \A i \in Entries : t[i] \in Entry
  BY DEF Tables
<1>2. ASSUME NEW i \in Entries
      PROVE  /\ tt[i] \in Entry /\ tt[i].id = t[i].id
             /\ i \in ch[c] => tt[i].state = "FREE" /\ t[i].id = c /\ t[i].state # "FREE"
             /\ i \notin ch[c] => tt[i] = t[i]
  <2>1. CASE i \in ch[c]
    <3>1. tt[i] = [t[i] EXCEPT !.state = "FREE"]
      BY <1>0, <2>1
    <3>2. t[i] \in Entry
      BY <1>1
    <3>3. tt[i] \in Entry /\ tt[i].id = t[i].id /\ tt[i].state = "FREE"
      BY <3>1, <3>2 DEF Entry
    <3>4. t[i].id = c /\ t[i].state # "FREE"
      BY <2>1 DEF Linked
    <3> QED BY <2>1, <3>3, <3>4
  <2>2. CASE i \notin ch[c]
    BY <1>0, <1>1, <2>2
  <2> QED BY <2>1, <2>2
<1>3. tt \in Tables
  BY <1>0, <1>2 DEF Tables
<1>4. cc \in Chains /\ cc[c] = {} /\ \A x \in Creatures : x # c => cc[x] = ch[x]
  BY <1>0 DEF Chains
<1>5. ASSUME NEW i \in Entries
      PROVE  /\ tt[i] = t[i] \/ t[i].id = c
             /\ tt[i].state = "UPTODATE" => t[i] = tt[i]
             /\ t[i].state = "FREE" => t[i] = tt[i]
             /\ t[i].id = c => tt[i].state = "FREE"
  <2>1. t[i].id = c /\ t[i].state # "FREE" => i \in ch[c]
    BY DEF Linked
  <2> QED BY <1>2, <2>1
<1>6. ASSUME NEW x \in Creatures
      PROVE  cc[x] = {i \in Entries : tt[i].id = x /\ tt[i].state # "FREE"}
  <2>1. CASE x = c
    BY <1>2, <1>4, <1>5, <2>1
  <2>2. CASE x # c
    <3>1. ch[x] = {i \in Entries : t[i].id = x /\ t[i].state # "FREE"}
      BY DEF Linked
    <3>2. \A i \in Entries : t[i].id = x => tt[i] = t[i]
      BY <1>2, <2>2
    <3>3. cc[x] = ch[x]
      BY <1>4, <2>2
    <3> HIDE DEF Linked
    <3> QED BY <1>2, <3>1, <3>2, <3>3
  <2> QED BY <2>1, <2>2
<1>7. \A i, j \in Entries : tt[i].id = tt[j].id /\ tt[i].id # 0 => i = j
  BY <1>2 DEF Linked
<1>8. \A i \in Entries : tt[i].state # "FREE" => tt[i].id \in living \ {c}
  BY <1>2, <1>5 DEF Linked
<1>9. Linked(tt, cc, living \ {c})
  BY <1>6, <1>7, <1>8 DEF Linked
<1> QED BY <1>2, <1>3, <1>4, <1>5, <1>9 DEF tt, cc

LEMMA RemoveKInv == ASSUME KInv, NEW c \in Creatures, Remove(c) PROVE KInv'
<1>1. /\ c \in alive
      /\ channel' = IF c \in inView THEN Answer("DELETE_FIELD", c, {c}, <<>>) ELSE channel
      /\ inView' = IF c = Self THEN {} ELSE inView \ {c}
      /\ state' = IF c = Self /\ Watching THEN "LOGOUT" ELSE state
      /\ alive' = alive \ {c}
      /\ table' = [i \in Entries |-> IF i \in chain[c] THEN [table[i] EXCEPT !.state = "FREE"]
                                     ELSE table[i]]
      /\ chain' = [chain EXCEPT ![c] = {}]
      /\ UNCHANGED <<version, changes, client>>
  BY DEF Remove
<1>2. Typed /\ table \in Tables /\ chain \in Chains /\ Linked(table, chain, alive)
  BY DEF KInv, Typed, Kept
<1>3. /\ table' \in Tables /\ chain' \in Chains /\ Linked(table', chain', alive')
      /\ \A i \in Entries : /\ table'[i].id = table[i].id
                            /\ table'[i] = table[i] \/ table[i].id = c
                            /\ table'[i].state = "UPTODATE" => table[i] = table'[i]
                            /\ table[i].state = "FREE" => table[i] = table'[i]
  <2>1. table' = Freed(table, chain, c) /\ chain' = [chain EXCEPT ![c] = {}]
        /\ alive' = alive \ {c}
    BY <1>1 DEF Freed
  <2> QED BY <1>2, <2>1, ChainFreed
<1>4. PICK g \in Mirrors :
          /\ channel' \in Seq(AnswerTypes) /\ Trip(Now, channel', g)
          /\ Watching => Agree(table, version, state, g, inView) /\ g.onMap = inView \ {c}
  <2>1. CASE c \in inView
    <3>1. Watching
      BY <2>1 DEF KInv, Kept
    <3>2. channel' = Answer("DELETE_FIELD", c, {c}, <<>>)
      BY <1>1, <2>1
    <3> QED BY <2>1, <3>1, <3>2, DeleteFollowed
  <2>2. CASE c \notin inView
    <3>1. channel' = channel /\ channel \in Seq(AnswerTypes) /\ inView \ {c} = inView
      BY <1>1, <1>2, <2>2 DEF Typed
    <3> QED BY <3>1 DEF KInv, Followed
  <2> QED BY <2>1, <2>2
<1>5. Typed'
  <2>1. state' \in {"FREE", "GAME", "DEAD", "LOGOUT"}
    BY <1>1, <1>2 DEF Typed
  <2>2. alive' \in SUBSET Creatures /\ inView' \in SUBSET alive'
    BY <1>1, <1>2 DEF Typed
  <2> QED BY <1>1, <1>2, <1>3, <1>4, <2>1, <2>2 DEF Typed, client
<1>6. Watching' => Watching /\ state' = state /\ inView' = inView \ {c}
  <2>1. CASE c = Self
    BY <1>1, <2>1 DEF Watching
  <2>2. CASE c # Self
    BY <1>1, <2>2 DEF Watching
  <2> QED BY <2>1, <2>2
<1>7. Kept'
  <2>1. state' = "FREE" => \A i \in Entries : table'[i] = NoEntry
    <3> SUFFICES ASSUME state' = "FREE", NEW i \in Entries PROVE table'[i] = NoEntry
      OBVIOUS
    <3>1. state = "FREE"
      BY <1>1
    <3>2. table[i] = NoEntry /\ table[i].state = "FREE"
      BY <3>1 DEF KInv, Kept, NoEntry
    <3> QED BY <1>3, <3>2
  <2>2. ~ Watching' => inView' = {}
    <3>1. CASE c = Self
      BY <1>1, <3>1
    <3>2. CASE c # Self
      <4>1. state' = state
        BY <1>1, <3>2
      <4>2. ~ Watching' => ~ Watching
        BY <4>1 DEF Watching
      <4> QED BY <1>1, <3>2, <4>2 DEF KInv, Kept
    <3> QED BY <3>1, <3>2
  <2> QED BY <1>3, <2>1, <2>2 DEF Kept
<1>8. Now' = Now /\ MirrorKeepsUp'
  BY <1>1 DEF Now, MirrorKeepsUp, KInv, client
<1>9. ASSUME Watching' PROVE Agree(table', version', state', g, inView') /\ g.onMap = inView'
  <2>1. Agree(table, version, state, g, inView) /\ g.onMap = inView \ {c}
        /\ state' = state /\ inView' = inView \ {c} /\ version' = version
    BY <1>1, <1>4, <1>6, <1>9
  <2>2. \A i \in Entries : table'[i].id \in inView' => table'[i].state = "UPTODATE"
    BY <1>3, <2>1 DEF Agree
  <2>3. state' = "GAME" => \A i \in Entries :
            table'[i].state = "UPTODATE" => g.told[table'[i].id] = version'[table'[i].id]
    BY <1>3, <2>1 DEF Agree
  <2>4. inView' \subseteq g.known /\ \A i \in Entries : table'[i].id \in g.known \cup {0}
    BY <1>3, <2>1 DEF Agree
  <2> QED BY <2>1, <2>2, <2>3, <2>4 DEF Agree
<1>10. Followed'
  BY <1>4, <1>8, <1>9 DEF Followed
<1> QED BY <1>5, <1>7, <1>8, <1>10 DEF KInv

LEMMA AnnounceKInv == ASSUME KInv, NEW c \in Creatures, AnnounceChangedCreature(c) PROVE KInv'
<1> DEFINE reached == {i \in chain[c] : state = "GAME" /\ table[i].state # "OUTDATED"}
           a == [kind |-> "ATTRIBUTE", id |-> c, gone |-> {}, words |-> <<>>,
                 version |-> version'[c]]
<1>1. /\ c \in alive /\ changes' = changes + 1 /\ version' = [version EXCEPT ![c] = @ + 1]
      /\ UNCHANGED <<alive, inView, state, chain, client>>
      /\ c \in inView => /\ channel' = IF reached = {} THEN channel ELSE Append(channel, a)
                         /\ table' = table
      /\ c \notin inView =>
            /\ table' = [i \in Entries |-> IF i \in reached
                                           THEN [table[i] EXCEPT !.state = "OUTDATED"]
                                           ELSE table[i]]
            /\ channel' = channel
  BY DEF AnnounceChangedCreature
<1>2. Typed /\ Linked(table, chain, alive) /\ MirrorKeepsUp
  BY DEF KInv, Kept
<1>3. version' \in [Creatures -> Nat] /\ version'[c] \in Nat
      /\ \A x \in Creatures : x # c => version'[x] = version[x]
  BY <1>1, <1>2 DEF Typed
<1>4. \A i \in reached : i \in Entries /\ state = "GAME" /\ table[i].id = c
                         /\ table[i].state = "UPTODATE"
  <2> TAKE i \in reached
  <2>1. i \in Entries /\ table[i].id = c /\ table[i].state # "FREE" /\ table[i].state # "OUTDATED"
    BY <1>2 DEF Linked
  <2>2. table[i] \in Entry
    BY <1>2, <2>1 DEF Typed, Tables
  <2> QED BY <2>1, <2>2 DEF Entry
<1>5. \A i \in Entries : state = "GAME" /\ table[i].id = c /\ table[i].state = "UPTODATE"
                         => i \in reached
  BY <1>2 DEF Linked
<1> HIDE DEF reached
<1>6. table' \in Tables
      /\ \A i \in Entries : /\ table'[i].id = table[i].id
                            /\ table'[i].state = table[i].state
                               \/ /\ i \in reached /\ c \notin inView
                                  /\ table'[i].state = "OUTDATED"
                            /\ i \in reached /\ c \notin inView => table'[i].state = "OUTDATED"
  <2>1. CASE c \in inView
    BY <1>1, <1>2, <2>1 DEF Typed
  <2>2. CASE c \notin inView
    <3>1. table' = [i \in Entries |-> IF i \in reached
                                      THEN [table[i] EXCEPT !.state = "OUTDATED"]
                                      ELSE table[i]]
      BY <1>1, <2>2
    <3>2. ASSUME NEW i \in Entries
          PROVE  /\ table'[i] \in Entry /\ table'[i].id = table[i].id
                 /\ i \in reached => table'[i].state = "OUTDATED"
                 /\ i \notin reached => table'[i] = table[i]
      <4>1. table[i] \in Entry
        BY <1>2 DEF Typed, Tables
      <4>2. CASE i \in reached
        <5>1. table'[i] = [table[i] EXCEPT !.state = "OUTDATED"]
          BY <3>1, <4>2
        <5> QED BY <4>1, <4>2, <5>1 DEF Entry
      <4>3. CASE i \notin reached
        BY <3>1, <4>1, <4>3
      <4> QED BY <4>2, <4>3
    <3>3. table' \in Tables
      BY <3>1, <3>2 DEF Tables
    <3> QED BY <2>2, <3>2, <3>3
  <2> QED BY <2>1, <2>2
<1>7. Linked(table', chain', alive')
  <2>1. \A i \in Entries : /\ table'[i].id = table[i].id
                           /\ table'[i].state # "FREE" <=> table[i].state # "FREE"
    BY <1>4, <1>6
  <2>2. ASSUME NEW x \in Creatures
        PROVE  chain'[x] = {i \in Entries : table'[i].id = x /\ table'[i].state # "FREE"}
    <3>1. chain[x] = {i \in Entries : table[i].id = x /\ table[i].state # "FREE"}
      BY <1>2 DEF Linked
    <3> QED BY <1>1, <2>1, <3>1
  <2>3. \A i, j \in Entries : table'[i].id = table'[j].id /\ table'[i].id # 0 => i = j
    BY <1>2, <2>1 DEF Linked
  <2>4. \A i \in Entries : table'[i].state # "FREE" => table'[i].id \in alive'
    BY <1>1, <1>2, <2>1 DEF Linked
  <2> QED BY <2>2, <2>3, <2>4 DEF Linked
<1>8. Kept'
  <2>1. state' = "FREE" => \A i \in Entries : table'[i] = NoEntry
    <3> SUFFICES ASSUME state' = "FREE" PROVE \A i \in Entries : table'[i] = NoEntry
      OBVIOUS
    <3>1. state = "FREE" /\ reached = {}
      BY <1>1, <1>4
    <3>2. table' = table
      BY <1>1, <1>2, <3>1 DEF Typed, Tables
    <3> QED BY <3>1, <3>2 DEF KInv, Kept
  <2>2. ~ Watching' => inView' = {}
    BY <1>1 DEF KInv, Kept, Watching
  <2> QED BY <1>7, <2>1, <2>2 DEF Kept
<1>9. Now' = Now /\ MirrorKeepsUp'
  BY <1>1, <1>2 DEF Now, MirrorKeepsUp, client
<1>10. a \in AnswerTypes
  BY <1>3 DEF AnswerTypes, AttributeAnswer
<1>11. PICK f \in Mirrors : Trip(Now, channel, f)
          /\ (Watching => Agree(table, version, state, f, inView) /\ f.onMap = inView)
  BY DEF KInv, Followed
<1>12. channel \in Seq(AnswerTypes)
  BY <1>2 DEF Typed
<1>13. channel' \in Seq(AnswerTypes) /\ Followed'
  <2>1. CASE c \in inView /\ reached # {}
    <3>1. state = "GAME" /\ Watching
      BY <1>4, <2>1 DEF Watching
    <3>2. Agree(table, version, state, f, inView) /\ f.onMap = inView
      BY <1>11, <3>1
    <3> DEFINE g == [known |-> f.known, told |-> [f.told EXCEPT ![c] = version'[c]],
                     onMap |-> f.onMap]
    <3>3. /\ g.known = f.known /\ g.onMap = f.onMap /\ g.told = [f.told EXCEPT ![c] = version'[c]]
          /\ f.told \in [Creatures -> Nat] /\ g.told \in [Creatures -> Nat]
      BY <1>3 DEF Mirrors
    <3>4. g \in Mirrors
      BY <3>3 DEF Mirrors
    <3>5. a.kind = "ATTRIBUTE" /\ a.id = c /\ a.version = version'[c]
      OBVIOUS
    <3>6. channel' = Append(channel, a)
      BY <1>1, <2>1
    <3> HIDE DEF a, g
    <3>7. Follows(f, a, g)
      BY <2>1, <3>2, <3>3, <3>5 DEF Follows, Agree
    <3>8. channel' \in Seq(AnswerTypes) /\ Trip(Now, channel', g)
      BY <1>10, <1>11, <3>4, <3>6, <3>7, AnswerFollowed
    <3>9. Agree(table', version', state', g, inView')
      <4>1. table' = table /\ inView' = inView /\ state' = state
        BY <1>1, <2>1
      <4>2. ASSUME NEW i \in Entries, table[i].state = "UPTODATE"
            PROVE  g.told[table[i].id] = version'[table[i].id]
        <5>1. table[i].id \in Creatures
          BY <1>2, <4>2 DEF Linked, Typed
        <5>2. f.told[table[i].id] = version[table[i].id]
          BY <3>1, <3>2, <4>2 DEF Agree
        <5>3. CASE table[i].id = c
          BY <3>3, <5>1, <5>3
        <5>4. CASE table[i].id # c
          BY <1>3, <3>3, <5>1, <5>2, <5>4
        <5> QED BY <5>3, <5>4
      <4> QED BY <3>2, <3>3, <4>1, <4>2 DEF Agree
    <3>10. g.onMap = inView'
      BY <1>1, <3>2, <3>3
    <3> QED BY <1>9, <3>4, <3>8, <3>9, <3>10 DEF Followed
  <2>2. CASE c \notin inView \/ reached = {}
    <3>1. channel' = channel
      BY <1>1, <2>2
    <3>2. ASSUME Agree(table, version, state, f, inView)
          PROVE  Agree(table', version', state', f, inView')
      <4>1. inView' = inView /\ state' = state
        BY <1>1
      <4>2. ASSUME state = "GAME", NEW i \in Entries, table'[i].state = "UPTODATE"
            PROVE  f.told[table'[i].id] = version'[table'[i].id]
        <5>1. table[i].state = "UPTODATE" /\ table'[i].id = table[i].id /\ i \notin reached
          BY <1>6, <2>2, <4>2
        <5>2. table[i].id # c
          BY <1>5, <4>2, <5>1
        <5>3. table[i].id \in Creatures
          BY <1>2, <5>1 DEF Linked, Typed
        <5>4. f.told[table[i].id] = version[table[i].id]
          BY <3>2, <4>2, <5>1 DEF Agree
        <5> QED BY <1>3, <5>1, <5>2, <5>3, <5>4
      <4>3. \A i \in Entries : table'[i].id \in inView => table'[i].state = "UPTODATE"
        <5> SUFFICES ASSUME NEW i \in Entries, table'[i].id \in inView
                     PROVE table'[i].state = "UPTODATE"
          OBVIOUS
        <5>1. table[i].id \in inView /\ table[i].state = "UPTODATE"
          BY <1>6, <3>2 DEF Agree
        <5>2. i \in reached => c \in inView
          BY <1>4, <5>1
        <5> QED BY <1>6, <5>1, <5>2
      <4>4. \A i \in Entries : table'[i].id \in f.known \cup {0}
        BY <1>6, <3>2 DEF Agree
      <4> QED BY <3>2, <4>1, <4>2, <4>3, <4>4 DEF Agree
    <3>3. Watching' = Watching /\ inView' = inView
      BY <1>1 DEF Watching
    <3> QED BY <1>9, <1>11, <1>12, <3>1, <3>2, <3>3 DEF Followed
  <2> QED BY <2>1, <2>2
<1>14. Typed'
  BY <1>1, <1>2, <1>3, <1>6, <1>13 DEF Typed, client
<1> QED BY <1>8, <1>9, <1>13, <1>14 DEF KInv

-----------------------------------------------------------------------------
(* Disconnect clears the table, one entry after the other.                  *)

Links == [table : Tables, chain : Chains]

\* One round of its loop.
Cleared(m, i) ==
    LET n == IF m.table[i].state = "FREE" THEN m ELSE UnchainKnownCreature(m, m.table[i].id)
    IN  [n EXCEPT !.table[i] = NoEntry]

LEMMA LinksEntry ==
    ASSUME NEW t, NEW k, NEW n, n = [table |-> t, chain |-> k], NEW i, NEW e
    PROVE  /\ n.table = t /\ n.chain = k
           /\ [n EXCEPT !.table[i] = e] = [table |-> [t EXCEPT ![i] = e], chain |-> k]
  OBVIOUS

LEMMA EntryCleared ==
    ASSUME alive \in SUBSET Creatures, NEW m \in Links, Linked(m.table, m.chain, alive),
           NEW i \in Entries
    PROVE  /\ Cleared(m, i) \in Links
           /\ Cleared(m, i).table = [m.table EXCEPT ![i] = NoEntry]
           /\ Linked(Cleared(m, i).table, Cleared(m, i).chain, alive)
<1> DEFINE o == m.table[i].id
           n == IF m.table[i].state = "FREE" THEN m ELSE UnchainKnownCreature(m, o)
           t == [m.table EXCEPT ![i] = NoEntry]
           k == [x \in Creatures |-> m.chain[x] \ {i}]
           z == [n EXCEPT !.table[i] = NoEntry]
<1>1. /\ m.table \in Tables /\ m.chain \in Chains
      /\ m = [table |-> m.table, chain |-> m.chain]
      /\ \A x \in Creatures : m.chain[x] \in SUBSET Entries
  BY DEF Links, Chains
<1>2. z = [table |-> t, chain |-> k]
  <2>1. CASE m.table[i].state = "FREE"
    <3>1. \A x \in Creatures : i \notin m.chain[x]
      BY <2>1 DEF Linked
    <3>2. k = m.chain
      BY <1>1, <3>1 DEF Chains
    <3>3. n = m
      BY <2>1
    <3>4. z = [table |-> [m.table EXCEPT ![i] = NoEntry], chain |-> m.chain]
      <4> HIDE DEF n
      <4> QED BY <3>3 DEF Links
    <3> QED BY <3>2, <3>4
  <2>2. CASE m.table[i].state # "FREE"
    <3>1. o \in alive /\ o \in Creatures
      BY <2>2 DEF Linked
    <3>2. m.chain[o] = {i}
      BY <1>1, <2>2, <3>1, LinkedEntry
    <3>3. Lowest({i}) = i
      <4>1. {i} \in SUBSET Entries /\ {i} # {}
        OBVIOUS
      <4> QED BY <4>1, LowestIsIn
    <3>4. \A x \in Creatures : x # o => i \notin m.chain[x]
      BY DEF Linked
    <3> HIDE DEF o
    <3>5. n = [m EXCEPT !.table[i].state = "FREE", !.chain[o] = @ \ {i}]
      BY <2>2, <3>1, <3>2, <3>3 DEF UnchainKnownCreature, o
    <3>6. n = [table |-> [m.table EXCEPT ![i].state = "FREE"],
               chain |-> [m.chain EXCEPT ![o] = @ \ {i}]]
      <4> HIDE DEF n
      <4> QED BY <3>5 DEF Links
    <3>7. n.table = [m.table EXCEPT ![i].state = "FREE"] /\ n.chain = [m.chain EXCEPT ![o] = @ \ {i}]
          /\ z = [table |-> [n.table EXCEPT ![i] = NoEntry], chain |-> n.chain]
      <4> DEFINE tt == [m.table EXCEPT ![i].state = "FREE"]
                 kk == [m.chain EXCEPT ![o] = @ \ {i}]
      <4>1. n = [table |-> tt, chain |-> kk]
        BY <3>6
      <4> HIDE DEF n, tt, kk
      <4>2. /\ n.table = tt /\ n.chain = kk
            /\ [n EXCEPT !.table[i] = NoEntry] = [table |-> [tt EXCEPT ![i] = NoEntry], chain |-> kk]
        BY <4>1, LinksEntry
      <4> QED BY <4>2 DEF tt, kk
    <3> HIDE DEF n, z
    <3>8. n.table \in Tables
      <4>1. [m.table EXCEPT ![i].state = "FREE"] \in Tables
        BY <1>1, EntryMarked
      <4> QED BY <3>7, <4>1
    <3>9. [n.table EXCEPT ![i] = NoEntry] = t
      BY <1>1, <3>7, <3>8 DEF Tables
    <3>10. n.chain = k
      <4>1. \A x \in Creatures : n.chain[x] = k[x]
        BY <1>1, <3>1, <3>4, <3>7 DEF Chains
      <4>2. n.chain = [x \in Creatures |-> n.chain[x]]
        BY <1>1, <3>7 DEF Chains
      <4> QED BY <4>1, <4>2
    <3> QED BY <3>7, <3>9, <3>10
  <2> QED BY <2>1, <2>2
<1>3. Cleared(m, i) = z
  BY DEF Cleared
<1> HIDE DEF z, n
<1>4. t \in Tables /\ k \in Chains
  <2>1. NoEntry \in Entry
    BY DEF NoEntry, Entry
  <2> QED BY <1>1, <2>1 DEF Tables, Chains
<1>5. /\ t[i] = NoEntry /\ \A j \in Entries : j # i => t[j] = m.table[j]
      /\ \A x \in Creatures : k[x] = m.chain[x] \ {i}
  BY <1>1 DEF Tables
<1> HIDE DEF t, k
<1>6. Linked(t, k, alive)
  <2>1. t[i].id = 0 /\ t[i].state = "FREE"
    BY <1>5 DEF NoEntry
  <2>2. ASSUME NEW x \in Creatures
        PROVE  k[x] = {j \in Entries : t[j].id = x /\ t[j].state # "FREE"}
    <3>1. m.chain[x] = {j \in Entries : m.table[j].id = x /\ m.table[j].state # "FREE"}
      BY DEF Linked
    <3>2. k[x] = m.chain[x] \ {i}
      BY <1>5
    <3> QED BY <1>5, <2>1, <3>1, <3>2
  <2>3. \A j, l \in Entries : t[j].id = t[l].id /\ t[j].id # 0 => j = l
    BY <1>5, <2>1 DEF Linked
  <2>4. \A j \in Entries : t[j].state # "FREE" => t[j].id \in alive
    BY <1>5, <2>1 DEF Linked
  <2> QED BY <2>2, <2>3, <2>4 DEF Linked
<1>7. z.table = t /\ z.chain = k /\ z \in Links
  BY <1>2, <1>4 DEF Links
<1> QED BY <1>3, <1>6, <1>7 DEF t

LEMMA DisconnectClears ==
    ASSUME KInv, Disconnect
    PROVE  /\ table' \in Tables /\ chain' \in Chains /\ Linked(table', chain', alive)
           /\ \A i \in Entries : table'[i] = NoEntry
<1> DEFINE a == [table |-> table, chain |-> chain]
           X == {m \in Links : Linked(m.table, m.chain, alive)}
           g == [i \in 1..Slots |-> [m \in X |-> Cleared(m, i)]]
           cleared[i \in 0..Slots] ==
               IF i = 0 THEN [table |-> table, chain |-> chain]
               ELSE LET m == cleared[i - 1]
                        n == IF m.table[i].state = "FREE" THEN m
                             ELSE UnchainKnownCreature(m, m.table[i].id)
                    IN  [n EXCEPT !.table[i] = NoEntry]
           Is(f) == f = [i \in 0..Slots |-> IF i = 0 THEN a ELSE Cleared(f[i - 1], i)]
<1>1. Slots \in Nat /\ Slots # 0 /\ Entries = 1..Slots /\ 0..Slots = {0} \cup Entries
  BY SlotsAssumption DEF Entries
<1>2. a \in X
  BY DEF KInv, Typed, Kept, Links
<1>3. ASSUME NEW m \in X, NEW i \in Entries PROVE Cleared(m, i) \in X
  BY EntryCleared DEF KInv, Typed
<1>4. table' = cleared[Slots].table /\ chain' = cleared[Slots].chain
  BY DEF Disconnect
<1>5. Is(cleared) <=> cleared = [i \in 0..Slots |->
               IF i = 0 THEN [table |-> table, chain |-> chain]
               ELSE LET m == cleared[i - 1]
                        n == IF m.table[i].state = "FREE" THEN m
                             ELSE UnchainKnownCreature(m, m.table[i].id)
                    IN  [n EXCEPT !.table[i] = NoEntry]]
  <2> HIDE DEF cleared
  <2> QED BY DEF Cleared
<1>6. g \in [1..Slots -> [X -> X]]
  <2> HIDE DEF X
  <2> QED BY <1>1, <1>3
<1>7. PICK f \in [0..Slots -> X] : Folds(f, Slots, a, g)
  <2> HIDE DEF X, g, a
  <2> QED BY <1>1, <1>2, <1>6, FoldExists
<1>8. Is(f)
  <2> HIDE DEF X, a
  <2>1. \A i \in 1..Slots : i - 1 \in 0..Slots
    BY <1>1
  <2>2. \A i \in 1..Slots : g[i][f[i - 1]] = Cleared(f[i - 1], i)
    BY <1>7, <2>1
  <2>3. f = [i \in 0..Slots |-> IF i = 0 THEN a ELSE g[i][f[i - 1]]]
    BY <1>7 DEF Folds
  <2>4. \A i \in 0..Slots : i # 0 => i \in 1..Slots
    BY <1>1
  <2> HIDE DEF g
  <2> QED BY <2>2, <2>3, <2>4
<1>9. Is(cleared)
  <2>1. f = [i \in 0..Slots |->
               IF i = 0 THEN [table |-> table, chain |-> chain]
               ELSE LET m == f[i - 1]
                        n == IF m.table[i].state = "FREE" THEN m
                             ELSE UnchainKnownCreature(m, m.table[i].id)
                    IN  [n EXCEPT !.table[i] = NoEntry]]
    BY <1>8 DEF Cleared
  <2> QED BY <1>5, <2>1
<1> HIDE DEF cleared
<1>10. cleared[0] = a /\ \A i \in Entries : cleared[i] = Cleared(cleared[i - 1], i)
  <2> HIDE DEF a
  <2> QED BY <1>1, <1>9
<1> DEFINE P == {i \in 0..Slots : cleared[i] \in X
                                  /\ \A j \in 1..i : cleared[i].table[j] = NoEntry}
<1>11. 0 \in P
  BY <1>1, <1>2, <1>10
<1>12. ASSUME NEW i \in 1..Slots, i - 1 \in P PROVE i \in P
  <2> DEFINE m == cleared[i - 1]
  <2>1. m \in Links /\ Linked(m.table, m.chain, alive) /\ i \in Entries
        /\ (\A j \in 1..(i - 1) : m.table[j] = NoEntry) /\ cleared[i] = Cleared(m, i)
        /\ m \in X
    BY <1>1, <1>10, <1>12
  <2> HIDE DEF m, X
  <2>2. Cleared(m, i).table = [m.table EXCEPT ![i] = NoEntry]
    BY <2>1, EntryCleared DEF KInv, Typed
  <2>3. Cleared(m, i) \in X
    BY <1>3, <2>1
  <2>4. m.table \in Tables
    BY <2>1 DEF Links
  <2>5. \A j \in 1..i : Cleared(m, i).table[j] = NoEntry
    BY <1>1, <2>1, <2>2, <2>4 DEF Tables
  <2> QED BY <1>1, <2>1, <2>3, <2>5
<1>13. Slots \in P
  <2> HIDE DEF P
  <2>1. Climbs(Slots, P)
    BY <1>11, <1>12 DEF Climbs
  <2>2. 0..Slots \subseteq P
    BY <1>1, <2>1, UpTo
  <2> QED BY <1>1, <2>2
<1>14. cleared[Slots] \in Links /\ Linked(cleared[Slots].table, cleared[Slots].chain, alive)
       /\ \A j \in Entries : cleared[Slots].table[j] = NoEntry
  BY <1>1, <1>13
<1> QED BY <1>4, <1>14 DEF Links

LEMMA DisconnectKInv == KInv /\ Disconnect => KInv'
<1> SUFFICES ASSUME KInv, Disconnect PROVE KInv'
  OBVIOUS
<1>1. /\ table' \in Tables /\ chain' \in Chains /\ Linked(table', chain', alive)
      /\ \A i \in Entries : table'[i] = NoEntry
  BY DisconnectClears
<1>2. state = "LOGOUT" /\ state' = "FREE" /\ UNCHANGED <<world, channel, client>>
  BY DEF Disconnect
<1>3. Typed' /\ MirrorKeepsUp' /\ Now' = Now
  BY <1>1, <1>2 DEF KInv, Typed, MirrorKeepsUp, Now, world, client
<1>4. Kept' /\ ~ Watching'
  BY <1>1, <1>2 DEF KInv, Kept, Watching, world
<1>5. Followed'
  BY <1>2, <1>3, <1>4 DEF KInv, Followed
<1> QED BY <1>3, <1>4, <1>5 DEF KInv

-----------------------------------------------------------------------------
(* The client applies the first answer.                                     *)

\* What the first answer on its way does to a client in step.
LEMMA HeadFollowed ==
    ASSUME KInv, channel # <<>>
    PROVE  /\ Head(channel) \in AnswerTypes /\ Tail(channel) \in Seq(AnswerTypes)
           /\ \E s \in Mirrors :
                /\ Follows(Now, Head(channel), s)
                /\ \E f \in Mirrors :
                    /\ Trip(s, Tail(channel), f)
                    /\ Watching => Agree(table, version, state, f, inView) /\ f.onMap = inView
<1>1. channel \in Seq(AnswerTypes)
  BY DEF KInv, Typed
<1>2. Head(channel) \in AnswerTypes /\ Tail(channel) \in Seq(AnswerTypes)
  BY <1>1
<1>3. PICK f \in Mirrors : Trip(Now, channel, f)
          /\ (Watching => Agree(table, version, state, f, inView) /\ f.onMap = inView)
  BY DEF KInv, Followed
<1>4. \E s \in Mirrors : Follows(Now, Head(channel), s) /\ Trip(s, Tail(channel), f)
  BY <1>1, <1>3, TripOneLess
<1> QED BY <1>2, <1>3, <1>4

\* From the mirror s the answers after the first lead to one that is current.
Leads(s) ==
    \E f \in Mirrors :
        /\ Trip(s, Tail(channel), f)
        /\ Watching => Agree(table, version, state, f, inView) /\ f.onMap = inView

\* The client takes the first answer and becomes s.
Applied(s) ==
    /\ channel # <<>> /\ channel' = Tail(channel)
    /\ known' = s.known /\ told' = s.told /\ onMap' = s.onMap
    /\ anomalies' \subseteq {"KnownCreatureTableOverflow"}
    /\ UNCHANGED <<world, server>>

\* A client that becomes what the first answer says keeps the invariant.
LEMMA AppliedKInv ==
    ASSUME KInv, NEW s \in Mirrors, Leads(s), Applied(s)
    PROVE  KInv'
<1>1. known' = s.known /\ told' = s.told /\ onMap' = s.onMap
  BY DEF Applied
<1>2. Typed'
  <2>1. known' \in SUBSET Creatures /\ told' \in [Creatures -> Nat]
        /\ onMap' \in SUBSET Creatures
    BY <1>1 DEF Mirrors
  <2>2. channel' \in Seq(AnswerTypes)
    BY HeadFollowed DEF Applied
  <2> QED BY <2>1, <2>2 DEF KInv, Typed, Applied, world, server
<1>3. Kept' /\ Watching' = Watching
  BY DEF KInv, Kept, Linked, Watching, Applied, world, server
<1>4. Now' = s
  <2>1. s = [known |-> s.known, told |-> s.told, onMap |-> s.onMap]
    BY DEF Mirrors
  <2> QED BY <1>1, <2>1 DEF Now
<1>5. Followed'
  BY <1>3, <1>4 DEF Followed, Leads, Applied, world, server
<1> QED BY <1>2, <1>3, <1>5 DEF KInv, MirrorKeepsUp, Applied

LEMMA ApplyMapKInv == KInv /\ ApplyMap => KInv'
<1> SUFFICES ASSUME KInv, ApplyMap PROVE KInv'
  OBVIOUS
<1> DEFINE a == Head(channel)
           r == RecordCreatures(a.words, a.kind)
<1>1. /\ channel # <<>>
      /\ a.words # <<>> \/ a.kind = "ROW"
      /\ onMap' = (IF a.kind = "FULLSCREEN" THEN {} ELSE onMap \ a.gone) \cup Named(a.words)
      /\ known' = r.known
      /\ told' = r.told
      /\ anomalies' = r.anomalies
                \cup (IF a.kind = "FULLSCREEN" /\ Cardinality(r.known) > Slots
                      THEN {"KnownCreatureTableOverflow"} ELSE {})
                \cup (IF a.kind = "CHANGE_FIELD" /\ ~ Named(a.words) \subseteq onMap
                      THEN {"StackIndexOutOfRange"} ELSE {})
      /\ channel' = Tail(channel)
      /\ UNCHANGED <<world, server>>
  BY DEF ApplyMap
<1> HIDE DEF a
<1>2. a \in AnswerTypes
  BY <1>1, HeadFollowed DEF a
<1>3. PICK s \in Mirrors : Follows(Now, a, s) /\ Leads(s)
  BY <1>1, HeadFollowed DEF a, Leads
<1>4. a.kind \in MapKinds /\ a.words \in Seq(Words)
  BY <1>1, <1>2 DEF AnswerTypes, MapAnswer, PlaceAnswer, AttributeAnswer
<1>5. Now.known = known /\ Now.told = told /\ Now.onMap = onMap
  BY DEF Now
<1>6. /\ Reads([known |-> known, told |-> told], a.words, a.kind,
               [known |-> s.known, told |-> s.told])
      /\ s.onMap = (IF a.kind = "FULLSCREEN" THEN {} ELSE onMap \ a.gone) \cup Named(a.words)
      /\ a.kind = "CHANGE_FIELD" => Named(a.words) \subseteq onMap
  BY <1>3, <1>4, <1>5 DEF Follows, MapKinds
<1>7. r = [known |-> s.known, told |-> s.told, anomalies |-> anomalies]
  <2> DEFINE q == [known |-> s.known, told |-> s.told]
  <2>1. q.known = s.known /\ q.told = s.told
    OBVIOUS
  <2>2. Reads([known |-> known, told |-> told], a.words, a.kind, q)
    BY <1>6
  <2>3. Len(a.words) \in Nat
    BY <1>4
  <2> HIDE DEF q
  <2>4. r = [known |-> q.known, told |-> q.told, anomalies |-> anomalies]
    BY <2>2, <2>3, RecordCreaturesReads
  <2> QED BY <2>1, <2>4
<1> HIDE DEF r
<1>8. r.known = s.known /\ r.told = s.told /\ r.anomalies = anomalies
  BY <1>7
<1>9. known' = s.known /\ told' = s.told /\ onMap' = s.onMap
  BY <1>1, <1>6, <1>8
<1>10. anomalies' \subseteq {"KnownCreatureTableOverflow"}
  BY <1>1, <1>6, <1>8 DEF KInv, MirrorKeepsUp
<1>11. Applied(s)
  BY <1>1, <1>9, <1>10 DEF Applied
<1> QED BY <1>3, <1>11, AppliedKInv

LEMMA ApplyDeleteFieldKInv == KInv /\ ApplyDeleteField => KInv'
<1> SUFFICES ASSUME KInv, ApplyDeleteField PROVE KInv'
  OBVIOUS
<1> DEFINE a == Head(channel)
<1>1. /\ channel # <<>> /\ a.kind = "DELETE_FIELD"
      /\ onMap' = onMap \ a.gone
      /\ anomalies' = IF a.gone \subseteq onMap THEN anomalies
                      ELSE anomalies \cup {"StackIndexOutOfRange"}
      /\ channel' = Tail(channel)
      /\ UNCHANGED <<world, server, known, told>>
  BY DEF ApplyDeleteField
<1> HIDE DEF a
<1>2. PICK s \in Mirrors : Follows(Now, a, s) /\ Leads(s)
  BY <1>1, HeadFollowed DEF a, Leads
<1>3. Now.known = known /\ Now.told = told /\ Now.onMap = onMap
  BY DEF Now
<1>4. a.gone \subseteq onMap /\ s.known = known /\ s.told = told /\ s.onMap = onMap \ a.gone
  BY <1>1, <1>2, <1>3 DEF Follows, MapKinds
<1>5. known' = s.known /\ told' = s.told /\ onMap' = s.onMap
  BY <1>1, <1>4
<1>6. anomalies' \subseteq {"KnownCreatureTableOverflow"}
  BY <1>1, <1>4 DEF KInv, MirrorKeepsUp
<1>7. Applied(s)
  BY <1>1, <1>5, <1>6 DEF Applied, world, server
<1> QED BY <1>2, <1>7, AppliedKInv

LEMMA ApplyMoveCreatureKInv == KInv /\ ApplyMoveCreature => KInv'
<1> SUFFICES ASSUME KInv, ApplyMoveCreature PROVE KInv'
  OBVIOUS
<1> DEFINE a == Head(channel)
<1>1. /\ channel # <<>> /\ a.kind = "MOVE_CREATURE"
      /\ a.id \in onMap =>
            /\ anomalies' = IF a.id \in known THEN anomalies
                            ELSE anomalies \cup {"UnknownCreatureReference"}
            /\ known' = known \cup {a.id}
            /\ told' = IF a.id \in known THEN told ELSE [told EXCEPT ![a.id] = 0]
      /\ channel' = Tail(channel)
      /\ UNCHANGED <<world, server, onMap>>
  BY DEF ApplyMoveCreature
<1> HIDE DEF a
<1>2. PICK s \in Mirrors : Follows(Now, a, s) /\ Leads(s)
  BY <1>1, HeadFollowed DEF a, Leads
<1>3. Now.known = known /\ Now.told = told /\ Now.onMap = onMap
  BY DEF Now
<1>4. a.id \in onMap /\ a.id \in known /\ s = Now
  BY <1>1, <1>2, <1>3 DEF Follows, MapKinds
<1>5. known' = known /\ told' = told /\ onMap' = onMap /\ anomalies' = anomalies
  BY <1>1, <1>4
<1>6. known' = s.known /\ told' = s.told /\ onMap' = s.onMap
  BY <1>3, <1>4, <1>5
<1>7. anomalies' \subseteq {"KnownCreatureTableOverflow"}
  BY <1>5 DEF KInv, MirrorKeepsUp
<1>8. Applied(s)
  BY <1>1, <1>6, <1>7 DEF Applied, world, server
<1> QED BY <1>2, <1>8, AppliedKInv

LEMMA ApplyAttributeKInv == KInv /\ ApplyAttribute => KInv'
<1> SUFFICES ASSUME KInv, ApplyAttribute PROVE KInv'
  OBVIOUS
<1> DEFINE a == Head(channel)
<1>1. /\ channel # <<>> /\ a.kind = "ATTRIBUTE"
      /\ told' = IF a.id \in known THEN [told EXCEPT ![a.id] = a.version] ELSE told
      /\ anomalies' = IF a.id \in known THEN anomalies
                      ELSE anomalies \cup {"UnknownCreatureReference"}
      /\ channel' = Tail(channel)
      /\ UNCHANGED <<world, server, known, onMap>>
  BY DEF ApplyAttribute
<1> HIDE DEF a
<1>2. PICK s \in Mirrors : Follows(Now, a, s) /\ Leads(s)
  BY <1>1, HeadFollowed DEF a, Leads
<1>3. Now.known = known /\ Now.told = told /\ Now.onMap = onMap
  BY DEF Now
<1>4. a.id \in known /\ s.known = known /\ s.told = [told EXCEPT ![a.id] = a.version]
      /\ s.onMap = onMap
  BY <1>1, <1>2, <1>3 DEF Follows, MapKinds
<1>5. known' = s.known /\ told' = s.told /\ onMap' = s.onMap
  BY <1>1, <1>4
<1>6. anomalies' \subseteq {"KnownCreatureTableOverflow"}
  BY <1>1, <1>4 DEF KInv, MirrorKeepsUp
<1>7. Applied(s)
  BY <1>1, <1>5, <1>6 DEF Applied, world, server
<1> QED BY <1>2, <1>7, AppliedKInv

-----------------------------------------------------------------------------
(* The theorems.                                                            *)

LEMMA NextKInv == KInv /\ [Next]_vars => KInv'
<1> SUFFICES ASSUME KInv, [Next]_vars PROVE KInv'
  OBVIOUS
<1>1. CASE UNCHANGED vars
  <2>1. Now' = Now
    BY <1>1 DEF vars, Now, client
  <2> QED BY <1>1, <2>1 DEF KInv, Typed, Kept, Linked, Followed, Agree, Watching,
                            MirrorKeepsUp, vars, world, server, client
<1>2. ASSUME NEW c \in Creatures,
             \/ StepIn(c) \/ MoveCreature(c) \/ StepOut(c) \/ Turn(c)
             \/ Create(c) \/ AnnounceChangedCreature(c) \/ Remove(c)
      PROVE  KInv'
  BY <1>2, StepInKInv, MoveCreatureKInv, StepOutKInv, TurnKInv, CreateKInv, AnnounceKInv,
     RemoveKInv
<1> QED BY <1>1, <1>2, JoinGameKInv, SendFullScreenKInv, SendRowKInv, DieKInv, LogoutKInv,
           DisconnectKInv, ApplyMapKInv, ApplyDeleteFieldKInv, ApplyMoveCreatureKInv,
           ApplyAttributeKInv DEF Next

LEMMA AlwaysKInv == Spec => []KInv
  BY InitKInv, NextKInv, PTL DEF Spec

\* The state is made of the values the code gives it, however many creatures
\* there are and however long the table.
THEOREM KnownCreaturesTyped == Spec => []TypeOK
<1>1. KInv => TypeOK
  <2> SUFFICES ASSUME KInv PROVE TypeOK
    OBVIOUS
  <2>1. Typed
    BY DEF KInv
  <2>2. ASSUME NEW i \in 1..Len(channel), NEW j \in 1..Len(channel[i].words)
        PROVE  channel[i].words[j] \in Words
    <3>1. channel[i] \in AnswerTypes
      BY <2>1 DEF Typed
    <3>2. channel[i].words \in Seq(Words)
      BY <3>1 DEF AnswerTypes, MapAnswer, PlaceAnswer, AttributeAnswer
    <3> QED BY <3>2
  <2> QED BY <2>1, <2>2 DEF Typed, TypeOK, Tables, Chains, Entry
<1> QED BY <1>1, AlwaysKInv, PTL

\* A creature's chain leads to exactly the entries in use under its ID, no
\* two entries bear the same one, and a free connection has none: across
\* evictions, deaths, log-outs and the loop that clears the table.
THEOREM ChainsAlwaysMatchTable == Spec => []ChainsMatchTable
<1>1. KInv => ChainsMatchTable
  BY DEF KInv, Kept, Linked, ChainsMatchTable
<1> QED BY <1>1, AlwaysKInv, PTL

\* The client is never referred to a creature, an evicted record or a place
\* on its map that it does not have.
THEOREM MirrorAlwaysKeepsUp == Spec => []MirrorKeepsUp
<1>1. KInv => MirrorKeepsUp
  BY DEF KInv
<1> QED BY <1>1, AlwaysKInv, PTL

\* Whenever the client has applied every answer it shows what is in view,
\* holds a record for each of those and for each entry of the table, and
\* none of those in view is shown as it used to be.
THEOREM ViewIsAlwaysCurrent == Spec => []ViewIsCurrent
<1>1. KInv => ViewIsCurrent
  <2> SUFFICES ASSUME KInv, channel = <<>>, state = "GAME"
               PROVE  /\ onMap = inView
                      /\ onMap \cup {table[i].id : i \in Entries} \subseteq known \cup {0}
                      /\ \A c \in inView :
                          (\E i \in Entries : table[i].id = c) => told[c] = version[c]
    BY DEF ViewIsCurrent
  <2>1. PICK f \in Mirrors : Trip(Now, channel, f)
                             /\ Agree(table, version, state, f, inView) /\ f.onMap = inView
    BY DEF KInv, Followed, Watching
  <2>2. Now \in Mirrors
    BY NowIsAMirror DEF KInv
  <2>3. f = Now
    BY <2>1, <2>2, TripOfNothing
  <2>4. f.known = known /\ f.told = told /\ f.onMap = onMap
    BY <2>3 DEF Now
  <2> QED BY <2>1, <2>4 DEF Agree
<1> QED BY <1>1, AlwaysKInv, PTL
=============================================================================
