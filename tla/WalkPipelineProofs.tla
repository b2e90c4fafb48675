------------------------- MODULE WalkPipelineProofs -------------------------
(* Proofs about WalkPipeline for every map, every set of step shapes and    *)
(* any number of walks and disturbances.                                    *)
EXTENDS WalkPipeline, FiniteSetTheorems, SequenceTheorems, TLAPS

-----------------------------------------------------------------------------
(* What each operation of the ledger returns.                               *)

Counted(l, m) == /\ m.requested = l.requested /\ m.accepted = l.accepted
                 /\ m.rejected = l.rejected /\ m.unanswered = l.unanswered

\* m is l without its oldest k requests.
DropsOldest(l, m, k) ==
    /\ m \in Ledger /\ k \in 0..Len(l.pending) /\ Len(m.pending) = Len(l.pending) - k
    /\ \A i \in 1..Len(m.pending) : m.pending[i] = l.pending[i + k]
    /\ m.requested = l.requested

LEMMA PendingLength ==
    ASSUME NEW l \in Ledger
    PROVE  /\ l.pending \in Seq(Request) /\ Len(l.pending) \in Nat
           /\ l.requested \in Nat /\ l.accepted \in Nat /\ l.rejected \in Nat
           /\ l.external \in Nat /\ l.unanswered \in Nat
  BY SMT DEF Ledger

LEMMA ExternalUpdate ==
    ASSUME NEW l \in Ledger, NEW n \in Nat, NEW m, m = [l EXCEPT !.external = n]
    PROVE  /\ m \in Ledger /\ m.pending = l.pending /\ m.requested = l.requested
           /\ m.accepted = l.accepted /\ m.rejected = l.rejected
           /\ m.unanswered = l.unanswered
  BY DEF Ledger

LEMMA RestFacts ==
    ASSUME NEW S, NEW s \in Seq(S), NEW k \in 0..Len(s), NEW t,
           t = SubSeq(s, k + 1, Len(s))
    PROVE  /\ t \in Seq(S) /\ Len(t) = Len(s) - k
           /\ \A i \in 1..Len(t) : t[i] = s[i + k]
  BY SMT

LEMMA NoteRequestSentFacts ==
    ASSUME NEW l \in Ledger, NEW step \in Steps, NEW m, m = NoteRequestSent(l, step)
    PROVE  /\ m \in Ledger /\ m.requested = l.requested + 1
           /\ m.accepted = l.accepted /\ m.rejected = l.rejected
           /\ m.unanswered = l.unanswered
           /\ Len(m.pending) = Len(l.pending) + 1
           /\ \A i \in 1..Len(l.pending) : m.pending[i] = l.pending[i]
           /\ m.pending[Len(l.pending) + 1].id = l.requested + 1
<1> DEFINE r == [id |-> l.requested + 1, step |-> step, late |-> FALSE]
<1>1. /\ l.pending \in Seq(Request) /\ l.requested \in Nat /\ l.accepted \in Nat
      /\ l.rejected \in Nat /\ l.external \in Nat /\ l.unanswered \in Nat
      /\ l.requested + 1 \in Nat \ {0}
  BY PendingLength, SMT
<1>2. r \in Request
  BY <1>1, Zenon DEF Request
<1>3. m = [l EXCEPT !.requested = l.requested + 1, !.pending = Append(l.pending, r)]
  BY DEF NoteRequestSent
<1> HIDE DEF r
<1>4. /\ Append(l.pending, r) \in Seq(Request)
      /\ Len(Append(l.pending, r)) = Len(l.pending) + 1
      /\ \A i \in 1..Len(l.pending) : Append(l.pending, r)[i] = l.pending[i]
      /\ Append(l.pending, r)[Len(l.pending) + 1] = r
  BY <1>1, <1>2, AppendProperties
<1>5. /\ m \in Ledger /\ m.requested = l.requested + 1 /\ m.pending = Append(l.pending, r)
      /\ m.accepted = l.accepted /\ m.rejected = l.rejected /\ m.unanswered = l.unanswered
  <2> DEFINE n == l.requested + 1
             p == Append(l.pending, r)
  <2>1. n \in Nat /\ p \in Seq(Request) /\ m = [l EXCEPT !.requested = n, !.pending = p]
    BY <1>1, <1>3, <1>4
  <2> HIDE DEF n, p
  <2>2. /\ m \in Ledger /\ m.requested = n /\ m.pending = p
        /\ m.accepted = l.accepted /\ m.rejected = l.rejected /\ m.unanswered = l.unanswered
    BY <2>1 DEF Ledger
  <2> QED BY <2>2 DEF n, p
<1>6. r.id = l.requested + 1
  BY DEF r
<1> QED BY <1>4, <1>5, <1>6

\* The oldest request is dropped.
LEMMA TailDrops ==
    ASSUME NEW l \in Ledger, l.pending # <<>>
    PROVE  /\ Tail(l.pending) \in Seq(Request)
           /\ Len(l.pending) >= 1 /\ 1 \in 1..Len(l.pending)
           /\ Len(Tail(l.pending)) = Len(l.pending) - 1
           /\ \A i \in 1..Len(Tail(l.pending)) : Tail(l.pending)[i] = l.pending[i + 1]
           /\ Oldest(l) = l.pending[1]
<1>1. l.pending \in Seq(Request)
  BY PendingLength
<1>2. Len(l.pending) >= 1 /\ 1 \in 1..Len(l.pending) /\ Head(l.pending) = l.pending[1]
  BY <1>1, SMT
<1> QED BY <1>1, <1>2, HeadTailProperties DEF Oldest

LEMMA NoteLocalMoveFacts ==
    ASSUME NEW l \in Ledger, NEW from, NEW to, NEW m, m = NoteLocalMove(l, from, to)
    PROVE  /\ from # to /\ IsOwnStep(l, from, to) =>
                 /\ DropsOldest(l, m, 1) /\ m.accepted = l.accepted + 1
                 /\ m.rejected = l.rejected /\ m.unanswered = l.unanswered
           /\ ~(from # to /\ IsOwnStep(l, from, to)) =>
                 DropsOldest(l, m, 0) /\ Counted(l, m)
<1>1. /\ l.pending \in Seq(Request) /\ Len(l.pending) \in Nat
      /\ l.requested \in Nat /\ l.accepted \in Nat
      /\ l.rejected \in Nat /\ l.external \in Nat /\ l.unanswered \in Nat
  BY PendingLength
<1>2. CASE from # to /\ IsOwnStep(l, from, to)
  <2>1. m = [l EXCEPT !.accepted = l.accepted + 1, !.pending = Tail(l.pending)]
    BY <1>2 DEF NoteLocalMove
  <2>2. l.pending # <<>>
    BY <1>2 DEF IsOwnStep
  <2>3. /\ m \in Ledger /\ m.pending = Tail(l.pending) /\ m.accepted = l.accepted + 1
        /\ m.requested = l.requested /\ m.rejected = l.rejected
        /\ m.unanswered = l.unanswered
    <3> DEFINE n == l.accepted + 1
               p == Tail(l.pending)
    <3>1. n \in Nat /\ p \in Seq(Request)
      BY <1>1, <2>2, TailDrops, SMT
    <3>2. m = [l EXCEPT !.accepted = n, !.pending = p]
      BY <2>1
    <3> HIDE DEF n, p
    <3>3. /\ m \in Ledger /\ m.pending = p /\ m.accepted = n
          /\ m.requested = l.requested /\ m.rejected = l.rejected
          /\ m.unanswered = l.unanswered
      BY <3>1, <3>2 DEF Ledger
    <3> QED BY <3>3 DEF n, p
  <2>4. 1 \in 0..Len(l.pending)
    BY <1>1, <2>2, TailDrops, SMT
  <2> QED BY <1>2, <2>2, <2>3, <2>4, TailDrops DEF DropsOldest
<1>3. CASE ~(from # to /\ IsOwnStep(l, from, to))
  <2>1. m = l \/ m = [l EXCEPT !.external = l.external + 1]
    BY <1>3 DEF NoteLocalMove
  <2>2. m \in Ledger /\ m.pending = l.pending /\ m.requested = l.requested /\ Counted(l, m)
    <3>1. l.external + 1 \in Nat
      BY <1>1, SMT
    <3> QED BY <2>1, <3>1, ExternalUpdate DEF Counted
  <2>3. /\ 0 \in 0..Len(l.pending) /\ Len(l.pending) = Len(l.pending) - 0
        /\ \A i \in 1..Len(l.pending) : i = i + 0
    BY <1>1, SMT
  <2> QED BY <1>3, <2>2, <2>3 DEF DropsOldest
<1> QED BY <1>2, <1>3

LEMMA NoteSnapbackFacts ==
    ASSUME NEW l \in Ledger, NEW m, m = NoteSnapback(l)
    PROVE  /\ l.pending # <<>> => DropsOldest(l, m, 1)
           /\ l.pending = <<>> => DropsOldest(l, m, 0)
           /\ m.rejected = l.rejected + 1 /\ m.accepted = l.accepted
           /\ m.unanswered = l.unanswered
<1>1. /\ l.pending \in Seq(Request) /\ Len(l.pending) \in Nat
      /\ l.requested \in Nat /\ l.accepted \in Nat
      /\ l.rejected \in Nat /\ l.external \in Nat /\ l.unanswered \in Nat
  BY PendingLength
<1>2. CASE l.pending # <<>>
  <2>1. m = [l EXCEPT !.rejected = l.rejected + 1, !.pending = Tail(l.pending)]
    BY <1>2 DEF NoteSnapback
  <2>2. /\ m \in Ledger /\ m.pending = Tail(l.pending) /\ m.rejected = l.rejected + 1
        /\ m.requested = l.requested /\ m.accepted = l.accepted
        /\ m.unanswered = l.unanswered
    <3> DEFINE n == l.rejected + 1
               p == Tail(l.pending)
    <3>1. n \in Nat /\ p \in Seq(Request)
      BY <1>1, <1>2, TailDrops, SMT
    <3>2. m = [l EXCEPT !.rejected = n, !.pending = p]
      BY <2>1
    <3> HIDE DEF n, p
    <3>3. /\ m \in Ledger /\ m.pending = p /\ m.rejected = n
          /\ m.requested = l.requested /\ m.accepted = l.accepted
          /\ m.unanswered = l.unanswered
      BY <3>1, <3>2 DEF Ledger
    <3> QED BY <3>3 DEF n, p
  <2>3. 1 \in 0..Len(l.pending)
    BY <1>1, <1>2, TailDrops, SMT
  <2> QED BY <1>2, <2>2, <2>3, TailDrops DEF DropsOldest
<1>3. CASE l.pending = <<>>
  <2>1. m = [l EXCEPT !.rejected = l.rejected + 1, !.pending = l.pending]
    BY <1>3 DEF NoteSnapback
  <2>2. /\ m \in Ledger /\ m.pending = l.pending /\ m.rejected = l.rejected + 1
        /\ m.requested = l.requested /\ m.accepted = l.accepted
        /\ m.unanswered = l.unanswered
    <3> DEFINE n == l.rejected + 1
    <3>1. n \in Nat /\ m = [l EXCEPT !.rejected = n, !.pending = l.pending]
      BY <1>1, <2>1
    <3> HIDE DEF n
    <3>2. /\ m \in Ledger /\ m.pending = l.pending /\ m.rejected = n
          /\ m.requested = l.requested /\ m.accepted = l.accepted
          /\ m.unanswered = l.unanswered
      BY <1>1, <3>1 DEF Ledger
    <3> QED BY <3>2 DEF n
  <2>3. /\ 0 \in 0..Len(l.pending) /\ Len(l.pending) = Len(l.pending) - 0
        /\ \A i \in 1..Len(l.pending) : i = i + 0
    BY <1>1, SMT
  <2> QED BY <1>3, <2>2, <2>3 DEF DropsOldest
<1> QED BY <1>2, <1>3

\* No more requests expire than are outstanding.
LEMMA ExpiredBounded ==
    ASSUME NEW l \in Ledger PROVE Expired(l) \in 0..Len(l.pending)
<1>1. Len(l.pending) \in Nat
  BY PendingLength
<1>2. IsFiniteSet(1..Len(l.pending)) /\ Cardinality(1..Len(l.pending)) = Len(l.pending)
  <2>1. Cardinality(1..Len(l.pending)) = IF 1 > Len(l.pending) THEN 0
                                         ELSE Len(l.pending) - 1 + 1
    <3>1. 1 \in Int /\ Len(l.pending) \in Int
      BY <1>1, SMT
    <3> QED BY ONLY <3>1, FS_Interval, ZenonT(30)
  <2> QED BY <1>1, <2>1, FS_Interval, SMT
<1>3. LateFront(l) \subseteq 1..Len(l.pending)
  BY DEF LateFront
<1>4. IsFiniteSet(LateFront(l)) /\ Cardinality(LateFront(l)) <= Len(l.pending)
  BY <1>2, <1>3, FS_Subset
<1>5. Cardinality(LateFront(l)) \in Nat
  BY <1>4, FS_CardinalityType
<1> QED BY <1>1, <1>4, <1>5, SMT DEF Expired

LEMMA ExpireBeforeFacts ==
    ASSUME NEW l \in Ledger, NEW m, m = ExpireBefore(l)
    PROVE  \E k \in 0..Len(l.pending) :
              /\ DropsOldest(l, m, k) /\ m.unanswered = l.unanswered + k
              /\ m.accepted = l.accepted /\ m.rejected = l.rejected
<1> DEFINE k == Expired(l)
<1>1. /\ l.pending \in Seq(Request) /\ Len(l.pending) \in Nat
      /\ l.requested \in Nat /\ l.accepted \in Nat
      /\ l.rejected \in Nat /\ l.external \in Nat /\ l.unanswered \in Nat
  BY PendingLength
<1>2. k \in 0..Len(l.pending)
  BY ExpiredBounded
<1>3. m = [l EXCEPT !.unanswered = l.unanswered + k,
                    !.pending = SubSeq(l.pending, k + 1, Len(l.pending))]
  BY DEF ExpireBefore
<1> HIDE DEF k
<1> DEFINE rest == SubSeq(l.pending, k + 1, Len(l.pending))
<1>4. /\ rest \in Seq(Request) /\ Len(rest) = Len(l.pending) - k
      /\ \A i \in 1..Len(rest) : rest[i] = l.pending[i + k]
  BY <1>1, <1>2, RestFacts
<1> HIDE DEF rest
<1>5. m = [l EXCEPT !.unanswered = l.unanswered + k, !.pending = rest]
  BY <1>3 DEF rest
<1>6. l.unanswered + k \in Nat
  BY <1>1, <1>2, SMT
<1>7. /\ m \in Ledger /\ m.pending = rest /\ m.unanswered = l.unanswered + k
      /\ m.requested = l.requested /\ m.accepted = l.accepted /\ m.rejected = l.rejected
  <2> DEFINE n == l.unanswered + k
  <2>1. n \in Nat /\ m = [l EXCEPT !.unanswered = n, !.pending = rest]
    BY <1>5, <1>6
  <2> HIDE DEF n
  <2>2. /\ m \in Ledger /\ m.pending = rest /\ m.unanswered = n
        /\ m.requested = l.requested /\ m.accepted = l.accepted /\ m.rejected = l.rejected
    BY <1>4, <2>1 DEF Ledger
  <2> QED BY <2>2 DEF n
<1>8. DropsOldest(l, m, k)
  BY <1>2, <1>4, <1>7 DEF DropsOldest
<1> QED BY <1>2, <1>7, <1>8

-----------------------------------------------------------------------------
(* The invariant.                                                           *)

ReportRecord == [kind: Kinds, id: 0..MaxWalks, input: 0..MaxWalks, cause: 0..MaxWalks]
Message == [kind: {"move", "snapback"}, id: 0..MaxWalks, to: Fields \cup {<<>>}]

\* What is under way is well formed, and a move leads onto the map.
WellFormed ==
    /\ todo \in Seq([id: Requests, dest: Int \X Int])
    /\ \A i \in 1..Len(down) : down[i].kind = "move" => down[i].to \in Fields

\* Every press is either sent or posted, and they are sent in order.
Numbered ==
    /\ presses = ledger.requested + Len(intents)
    /\ \A i \in 1..Len(intents) : intents[i][1] = ledger.requested + i

\* The outstanding requests are in the order they were sent.
InTurn ==
    \A i \in 1..Len(ledger.pending) :
        /\ ledger.pending[i].id \in 1..ledger.requested
        /\ \A j \in 1..Len(ledger.pending) :
              i < j => ledger.pending[i].id < ledger.pending[j].id

\* Each of them still knows its press.
Paired ==
    /\ \A p \in inputFor : p[2] = p[1]
    /\ \A i \in 1..Len(ledger.pending) :
          <<ledger.pending[i].id, ledger.pending[i].id>> \in inputFor

\* What was reported is over.
Spoken ==
    \A i \in Naming :
        /\ reports[i].id <= ledger.requested
        /\ \A k \in 1..Len(ledger.pending) : reports[i].id < ledger.pending[k].id

OrderInv == InTurn /\ Paired /\ Spoken /\ ReportsInOrder

WalkInv == TypeOK /\ WellFormed /\ Numbered /\ OrderInv /\ LedgerBalances

-----------------------------------------------------------------------------
(* What every step of the worker that settles requests has in common: the   *)
(* oldest k leave, and the one that is reported by number, id, is the       *)
(* oldest of them.                                                          *)
Settling(k, id) ==
    /\ ledger' \in Ledger /\ k \in 0..Len(ledger.pending)
    /\ Len(ledger'.pending) = Len(ledger.pending) - k
    /\ ledger'.requested = ledger.requested
    /\ \A i \in 1..Len(ledger'.pending) : ledger'.pending[i].id = ledger.pending[i + k].id
    /\ inputFor' \subseteq inputFor /\ \A p \in inputFor : p[1] # id => p \in inputFor'
    /\ id # 0 => k >= 1 /\ id = ledger.pending[1].id
    /\ \/ reports' = reports
       \/ \E r \in ReportRecord :
             reports' = Append(reports, r) /\ r.id = id /\ r.input = id

LEMMA SettlingKeepsTurn ==
    ASSUME ledger \in Ledger, InTurn, NEW k, NEW id, Settling(k, id)
    PROVE  InTurn'
<1> DEFINE a == Len(ledger.pending)
           b == Len(ledger'.pending)
<1>1. a \in Nat /\ b \in Nat /\ k \in 0..a /\ b = a - k /\ ledger.requested \in Nat
      /\ ledger'.requested = ledger.requested
  BY PendingLength DEF Settling
<1> HIDE DEF a, b
<1>2. ASSUME NEW i \in 1..b PROVE i + k \in 1..a
  BY <1>1, SMT
<1>3. ASSUME NEW i \in 1..b PROVE ledger'.pending[i].id = ledger.pending[i + k].id
  BY DEF Settling, b
<1>4. ASSUME NEW i \in 1..b PROVE ledger'.pending[i].id \in 1..ledger'.requested
  BY <1>1, <1>2, <1>3 DEF InTurn, a
<1>5. ASSUME NEW i \in 1..b, NEW j \in 1..b, i < j
      PROVE  ledger'.pending[i].id < ledger'.pending[j].id
  <2>1. i + k < j + k
    BY <1>1, <1>5, SMT
  <2>2. ledger.pending[i + k].id < ledger.pending[j + k].id
    BY <1>2, <2>1 DEF InTurn, a
  <2> QED BY <1>3, <2>2
<1> QED BY <1>4, <1>5 DEF InTurn, b

LEMMA SettlingKeepsPairs ==
    ASSUME ledger \in Ledger, InTurn, Paired, NEW k, NEW id, Settling(k, id)
    PROVE  Paired'
<1>1. \A p \in inputFor' : p[2] = p[1]
  BY DEF Paired, Settling
<1>2. ASSUME NEW i \in 1..Len(ledger'.pending)
      PROVE  <<ledger'.pending[i].id, ledger'.pending[i].id>> \in inputFor'
  <2>1. /\ Len(ledger.pending) \in Nat /\ Len(ledger'.pending) \in Nat
        /\ k \in 0..Len(ledger.pending) /\ Len(ledger'.pending) = Len(ledger.pending) - k
    BY PendingLength DEF Settling
  <2>2. i + k \in 1..Len(ledger.pending) /\ 1 \in 1..Len(ledger.pending)
        /\ (k >= 1 => 1 < i + k)
    BY <2>1, SMT
  <2>3. ledger'.pending[i].id = ledger.pending[i + k].id
    BY DEF Settling
  <2>4. <<ledger.pending[i + k].id, ledger.pending[i + k].id>> \in inputFor
    BY <2>2 DEF Paired
  <2>5. ledger.pending[i + k].id \in 1..ledger.requested
    BY <2>2 DEF InTurn
  <2>6. ledger.pending[i + k].id # id
    <3>1. CASE id = 0
      BY <2>5, <3>1, PendingLength, SMT
    <3>2. CASE id # 0
      <4>1. id = ledger.pending[1].id /\ 1 < i + k
        BY <2>2, <3>2 DEF Settling
      <4>2. ledger.pending[1].id < ledger.pending[i + k].id
        BY <2>2, <4>1 DEF InTurn
      <4>3. id \in 1..ledger.requested
        BY <2>2, <4>1 DEF InTurn
      <4> QED BY <2>5, <4>1, <4>2, <4>3, PendingLength, SMT
    <3> QED BY <3>1, <3>2
  <2> QED BY <2>3, <2>4, <2>6 DEF Settling
<1> QED BY <1>1, <1>2 DEF Paired

\* A report that names a request names one that is newer than every earlier
\* one, older than every one left, and its own press.
LEMMA SettlingKeepsOrder ==
    ASSUME ledger \in Ledger, reports \in Seq(ReportRecord), InTurn, Spoken, ReportsInOrder,
           NEW k, NEW id, Settling(k, id)
    PROVE  Spoken' /\ ReportsInOrder' /\ reports' \in Seq(ReportRecord)
<1> DEFINE a == Len(ledger.pending)
           b == Len(ledger'.pending)
           n == Len(reports)
<1>1. a \in Nat /\ b \in Nat /\ k \in 0..a /\ b = a - k /\ ledger.requested \in Nat
      /\ ledger'.requested = ledger.requested
  BY PendingLength DEF Settling
<1>2. n \in Nat /\ \A i \in 1..n : reports[i] \in ReportRecord
  BY LenProperties, ElementOfSeq
<1>3. \A i \in 1..b : i + k \in 1..a /\ ledger'.pending[i].id = ledger.pending[i + k].id
  <2> HIDE DEF a, b
  <2>1. \A i \in 1..b : i + k \in 1..a
    BY <1>1, SMT
  <2> QED BY <2>1 DEF b, Settling
\* What was said before stays older than every request left.
<1>4. ASSUME NEW i \in 1..n, reports[i].id # 0, NEW j \in 1..b
      PROVE  reports[i].id < ledger'.pending[j].id
  <2>1. i \in Naming
    BY <1>4 DEF Naming
  <2> QED BY <1>3, <2>1 DEF Spoken
<1>5. ASSUME NEW i \in 1..n, reports[i].id # 0
      PROVE  /\ reports[i].id <= ledger'.requested /\ reports[i].input = reports[i].id
             /\ id # 0 => reports[i].id < id
  <2>1. i \in Naming
    BY <1>5 DEF Naming
  <2>2. reports[i].id <= ledger'.requested /\ reports[i].input = reports[i].id
    BY <1>1, <2>1 DEF Spoken, ReportsInOrder
  <2>3. ASSUME id # 0 PROVE reports[i].id < id
    <3>1. id = ledger.pending[1].id /\ k >= 1
      BY <2>3 DEF Settling
    <3>2. 1 \in 1..a
      <4> HIDE DEF a, b
      <4> QED BY <1>1, <3>1, SMT
    <3> QED BY <2>1, <3>1, <3>2 DEF Spoken
  <2> QED BY <2>2, <2>3
<1>6. ASSUME NEW i \in 1..n, NEW j \in 1..n, i < j, reports[i].id # 0, reports[j].id # 0
      PROVE  reports[i].id < reports[j].id
  BY <1>6 DEF ReportsInOrder, Naming
<1>7. CASE reports' = reports
  <2>1. Naming' = Naming
    BY <1>7 DEF Naming
  <2>2. Spoken'
    BY <1>4, <1>5, <1>7, <2>1 DEF Spoken, Naming
  <2>3. ReportsInOrder'
    BY <1>5, <1>6, <1>7, <2>1 DEF ReportsInOrder, Naming
  <2> QED BY <1>7, <2>2, <2>3
<1>8. CASE reports' # reports
  <2>1. PICK r \in ReportRecord : reports' = Append(reports, r) /\ r.id = id /\ r.input = id
    BY <1>8 DEF Settling
  <2>2. /\ reports' \in Seq(ReportRecord) /\ Len(reports') = n + 1
        /\ \A i \in 1..n : reports'[i] = reports[i]
        /\ reports'[n + 1] = r
    BY <2>1, AppendProperties
  <2> HIDE DEF n
  <2>3. \A i \in 1..Len(reports') : i \in 1..n \/ i = n + 1
    BY <1>2, <2>2, SMT
  <2>4. ASSUME id # 0
        PROVE  /\ id <= ledger'.requested
               /\ \A j \in 1..b : id < ledger'.pending[j].id
    <3>1. id = ledger.pending[1].id /\ k >= 1
      BY <2>4 DEF Settling
    <3>2. 1 \in 1..a /\ \A j \in 1..b : 1 < j + k
      <4> HIDE DEF a, b
      <4> QED BY <1>1, <3>1, SMT
    <3>3. id \in 1..ledger.requested
      BY <3>1, <3>2 DEF InTurn
    <3>4. id <= ledger'.requested
      BY <1>1, <3>3, SMT
    <3>5. \A j \in 1..b : id < ledger'.pending[j].id
      BY <1>3, <3>1, <3>2 DEF InTurn
    <3> QED BY <3>4, <3>5
  <2>5. ASSUME NEW i \in Naming'
        PROVE  /\ reports'[i].id <= ledger'.requested
               /\ \A j \in 1..b : reports'[i].id < ledger'.pending[j].id
               /\ reports'[i].input = reports'[i].id
    <3>1. i \in 1..Len(reports') /\ reports'[i].id # 0
      BY DEF Naming
    <3>2. CASE i \in 1..n
      BY <1>4, <1>5, <2>2, <3>1, <3>2
    <3>3. CASE i = n + 1
      BY <2>1, <2>2, <2>4, <3>1, <3>3
    <3> QED BY <2>3, <3>1, <3>2, <3>3
  <2>6. ASSUME NEW i \in Naming', NEW j \in Naming', i < j
        PROVE  reports'[i].id < reports'[j].id
    <3>1. /\ i \in 1..Len(reports') /\ reports'[i].id # 0
          /\ j \in 1..Len(reports') /\ reports'[j].id # 0
      BY DEF Naming
    <3>2. i \in 1..n
      BY <1>2, <2>2, <2>6, <3>1, SMT
    <3>3. CASE j \in 1..n
      BY <1>6, <2>2, <2>6, <3>1, <3>2, <3>3
    <3>4. CASE j = n + 1
      BY <1>5, <2>1, <2>2, <3>1, <3>2, <3>4
    <3> QED BY <2>3, <3>1, <3>3, <3>4
  <2> QED BY <2>2, <2>5, <2>6 DEF Spoken, ReportsInOrder
<1> QED BY <1>7, <1>8

-----------------------------------------------------------------------------
(* Every step but SendWalk settles, if only nothing.                        *)

\* Looking the oldest request up finds its press; there is no request 0.
LEMMA PressOfRequest ==
    ASSUME inputFor \subseteq (1..MaxWalks) \X (1..MaxWalks), Paired
    PROVE  /\ InputOf(0) = 0
           /\ \A i \in 1..Len(ledger.pending) :
                 InputOf(ledger.pending[i].id) = ledger.pending[i].id
<1>1. ASSUME NEW p \in inputFor PROVE p[1] \in 1..MaxWalks /\ p[1] # 0 /\ p[2] = p[1]
  <2>1. p[1] \in 1..MaxWalks
    OBVIOUS
  <2>2. p[1] # 0
    BY <2>1, BoundsAssumption, SMT
  <2> QED BY <2>1, <2>2 DEF Paired
<1>2. InputOf(0) = 0
  BY <1>1 DEF InputOf
<1>3. ASSUME NEW i \in 1..Len(ledger.pending)
      PROVE  InputOf(ledger.pending[i].id) = ledger.pending[i].id
  <2> DEFINE id == ledger.pending[i].id
             q == CHOOSE p \in inputFor : p[1] = id
  <2>1. <<id, id>> \in inputFor /\ <<id, id>>[1] = id
    BY DEF Paired
  <2>2. \E p \in inputFor : p[1] = id
    BY <2>1
  <2>3. q \in inputFor /\ q[1] = id
    BY <2>2
  <2>4. InputOf(id) = q[2]
    BY <2>2 DEF InputOf
  <2> QED BY <1>1, <2>3, <2>4
<1> QED BY <1>2, <1>3

\* The numbers of the oldest request and of its press are in range.
LEMMA OldestFacts ==
    ASSUME TypeOK, Numbered, InTurn, Paired
    PROVE  /\ ledger.requested \in 0..MaxWalks
           /\ ledger.pending # <<>> =>
                /\ 1 \in 1..Len(ledger.pending) /\ 1 \in 0..Len(ledger.pending)
                /\ Oldest(ledger).id = ledger.pending[1].id
                /\ Oldest(ledger).id \in 1..MaxWalks /\ Oldest(ledger).id \in 0..MaxWalks
                /\ Oldest(ledger).id # 0
                /\ InputOf(Oldest(ledger).id) = Oldest(ledger).id
<1>1. /\ ledger \in Ledger /\ presses \in 0..MaxWalks /\ MaxWalks \in Nat
      /\ inputFor \subseteq (1..MaxWalks) \X (1..MaxWalks)
      /\ intents \in Seq((1..MaxWalks) \X Steps)
  BY BoundsAssumption DEF TypeOK
<1>2. Len(intents) \in Nat /\ ledger.requested \in Nat /\ Len(ledger.pending) \in Nat
  BY <1>1, PendingLength, LenProperties
<1>3. ledger.requested \in 0..MaxWalks
  <2>1. presses = ledger.requested + Len(intents)
    BY DEF Numbered
  <2> QED BY <1>1, <1>2, <2>1, SMT
<1>4. ASSUME ledger.pending # <<>>
      PROVE  /\ 1 \in 1..Len(ledger.pending) /\ 1 \in 0..Len(ledger.pending)
             /\ Oldest(ledger).id = ledger.pending[1].id
             /\ Oldest(ledger).id \in 1..MaxWalks /\ Oldest(ledger).id \in 0..MaxWalks
             /\ Oldest(ledger).id # 0
             /\ InputOf(Oldest(ledger).id) = Oldest(ledger).id
  <2>1. 1 \in 1..Len(ledger.pending) /\ Oldest(ledger) = ledger.pending[1]
    BY <1>1, <1>4, TailDrops
  <2>2. 1 \in 0..Len(ledger.pending)
    BY <1>2, <2>1, SMT
  <2>3. ledger.pending[1].id \in 1..ledger.requested
    BY <2>1 DEF InTurn
  <2>4. /\ ledger.pending[1].id \in 1..MaxWalks /\ ledger.pending[1].id \in 0..MaxWalks
        /\ ledger.pending[1].id # 0
    BY <1>1, <1>3, <2>3, SMT
  <2>5. InputOf(ledger.pending[1].id) = ledger.pending[1].id
    BY <1>1, <2>1, PressOfRequest
  <2> QED BY <2>1, <2>2, <2>4, <2>5
<1> QED BY <1>3, <1>4

LEMMA NothingSettles ==
    ASSUME ledger \in Ledger, UNCHANGED <<ledger, inputFor, reports>>
    PROVE  Settling(0, 0)
<1>1. Len(ledger.pending) \in Nat
  BY PendingLength
<1>2. 0 \in 0..Len(ledger.pending) /\ Len(ledger.pending) = Len(ledger.pending) - 0
      /\ \A i \in 1..Len(ledger.pending) : i + 0 = i
  BY <1>1, SMT
<1> QED BY <1>2 DEF Settling

LEMMA DrainEndsSettles ==
    ASSUME TypeOK, DrainEnds
    PROVE  \E k : Settling(k, 0)
<1>1. ledger \in Ledger /\ ledger' = ExpireBefore(ledger) /\ inputFor' = inputFor
  BY DEF TypeOK, DrainEnds
<1>2. PICK k \in 0..Len(ledger.pending) : DropsOldest(ledger, ledger', k)
  BY <1>1, ExpireBeforeFacts
<1>3. \/ reports' = reports
      \/ \E r \in ReportRecord : reports' = Append(reports, r) /\ r.id = 0 /\ r.input = 0
  <2> DEFINE r == [kind |-> "WalkUnanswered", id |-> 0, input |-> 0, cause |-> 0]
  <2>1. 0 \in 0..MaxWalks
    BY BoundsAssumption, SMT
  <2>2. r \in ReportRecord /\ r.id = 0 /\ r.input = 0
    BY <2>1 DEF ReportRecord, Kinds
  <2>3. reports' = reports \/ reports' = Append(reports, r)
    BY DEF DrainEnds, Report
  <2> QED BY <2>2, <2>3
<1>4. \A i \in 1..Len(ledger'.pending) : ledger'.pending[i].id = ledger.pending[i + k].id
  BY <1>2 DEF DropsOldest
<1>5. Settling(k, 0)
  BY <1>1, <1>2, <1>3, <1>4 DEF DropsOldest, Settling
<1> QED BY <1>5

LEMMA ReadSnapbackSettles ==
    ASSUME TypeOK, Numbered, InTurn, Paired, ReadSnapback
    PROVE  \E k, id : Settling(k, id)
<1> DEFINE id == IF ledger.pending = <<>> THEN 0 ELSE Oldest(ledger).id
           k == IF ledger.pending = <<>> THEN 0 ELSE 1
           r == [kind |-> "WalkRejected", id |-> id, input |-> InputOf(id),
                 cause |-> Head(down).id]
<1>1. /\ ledger \in Ledger /\ ledger' = NoteSnapback(ledger)
      /\ inputFor \subseteq (1..MaxWalks) \X (1..MaxWalks)
      /\ inputFor' = {p \in inputFor : p[1] # id}
      /\ reports' = Append(reports, r)
      /\ down \in Seq(Message) /\ down # <<>>
  BY DEF TypeOK, ReadSnapback, TakeInputFor, Report, Message
<1>2. DropsOldest(ledger, ledger', k)
  BY <1>1, NoteSnapbackFacts
<1>3. /\ id \in 0..MaxWalks /\ InputOf(id) = id
      /\ id # 0 => k = 1 /\ id = ledger.pending[1].id
  <2>1. 0 \in 0..MaxWalks
    BY BoundsAssumption, SMT
  <2> QED BY <1>1, <2>1, OldestFacts, PressOfRequest
<1>4. r \in ReportRecord /\ r.id = id /\ r.input = id
  <2>1. Head(down).id \in 0..MaxWalks
    <3>1. Head(down) \in Message
      BY <1>1, HeadTailProperties
    <3> QED BY <3>1 DEF Message
  <2> HIDE DEF id
  <2> QED BY <1>3, <2>1 DEF ReportRecord, Kinds
<1>5. Settling(k, id)
  <2>1. \A i \in 1..Len(ledger'.pending) : ledger'.pending[i].id = ledger.pending[i + k].id
    BY <1>2 DEF DropsOldest
  <2>2. id # 0 => k >= 1 /\ id = ledger.pending[1].id
    <3>1. k = 1 => k >= 1
      OBVIOUS
    <3> QED BY <1>3, <3>1
  <2> HIDE DEF id, k, r
  <2> QED BY <1>1, <1>2, <1>4, <2>1, <2>2 DEF DropsOldest, Settling
<1> QED BY <1>5

LEMMA PublishSettles ==
    ASSUME TypeOK, Numbered, InTurn, Paired, PublishWorldEvents
    PROVE  \E k, id : Settling(k, id)
<1> DEFINE own == shown # mirror /\ IsOwnStep(ledger, shown, mirror)
           k == IF own THEN 1 ELSE 0
           id == IF own THEN Oldest(ledger).id ELSE 0
<1>1. /\ ledger \in Ledger /\ ledger' = NoteLocalMove(ledger, shown, mirror)
      /\ inputFor \subseteq (1..MaxWalks) \X (1..MaxWalks)
  BY DEF TypeOK, PublishWorldEvents
<1>2. DropsOldest(ledger, ledger', k)
  BY <1>1, NoteLocalMoveFacts
<1>3. 0 \in 0..MaxWalks
  BY BoundsAssumption, SMT
<1>4. own => /\ k = 1 /\ id = ledger.pending[1].id /\ id \in 0..MaxWalks
             /\ InputOf(id) = id /\ id # 0
  <2>1. own => ledger.pending # <<>>
    BY DEF IsOwnStep
  <2> QED BY <2>1, OldestFacts
<1>5. /\ inputFor' \subseteq inputFor /\ \A p \in inputFor : p[1] # id => p \in inputFor'
      /\ \/ reports' = reports
         \/ \E r \in ReportRecord : reports' = Append(reports, r) /\ r.id = id /\ r.input = id
  <2>1. CASE shown = mirror
    BY <2>1 DEF PublishWorldEvents
  <2>2. CASE own
    <3> DEFINE r == [kind |-> "WalkAccepted", id |-> id, input |-> InputOf(id), cause |-> 0]
    <3>1. reports' = Append(reports, r) /\ inputFor' = {p \in inputFor : p[1] # id}
      BY <2>2 DEF PublishWorldEvents, Report, TakeInputFor
    <3>2. id \in 0..MaxWalks /\ InputOf(id) = id
      BY <1>4, <2>2
    <3> HIDE DEF id
    <3>3. r \in ReportRecord /\ r.id = id /\ r.input = id
      BY <1>3, <3>2 DEF ReportRecord, Kinds
    <3> QED BY <3>1, <3>3
  <2>3. CASE shown # mirror /\ ~own
    <3> DEFINE r == [kind |-> "ExternalRelocation", id |-> 0, input |-> 0, cause |-> 0]
    <3>1. reports' = Append(reports, r) /\ inputFor' = inputFor /\ id = 0
      BY <2>3 DEF PublishWorldEvents, Report
    <3>2. r \in ReportRecord /\ r.id = id /\ r.input = id
      BY <1>3, <3>1 DEF ReportRecord, Kinds
    <3> QED BY <3>1, <3>2
  <2> QED BY <2>1, <2>2, <2>3
<1>6. Settling(k, id)
  <2>1. \A i \in 1..Len(ledger'.pending) : ledger'.pending[i].id = ledger.pending[i + k].id
    BY <1>2 DEF DropsOldest
  <2>2. id # 0 => k >= 1 /\ id = ledger.pending[1].id
    <3>1. k = 1 => k >= 1
      BY SMT
    <3>2. id # 0 => own
      OBVIOUS
    <3> QED BY <1>4, <3>1, <3>2
  <2> HIDE DEF id, k, own
  <2> QED BY <1>1, <1>2, <1>5, <2>1, <2>2 DEF DropsOldest, Settling
<1> QED BY <1>6

\* A request passes the deadline: nothing but its flag changes.
LEMMA AgingSettles ==
    ASSUME TypeOK, RequestAges
    PROVE  /\ Settling(0, 0) /\ Counted(ledger, ledger')
           /\ Len(ledger'.pending) = Len(ledger.pending)
<1>1. ledger \in Ledger /\ inputFor' = inputFor /\ reports' = reports
  BY DEF TypeOK, RequestAges
<1>2. PICK i \in 1..Len(ledger.pending) : ledger' = [ledger EXCEPT !.pending[i].late = TRUE]
  BY DEF RequestAges
<1> DEFINE r == [ledger.pending[i] EXCEPT !.late = TRUE]
           p == [ledger.pending EXCEPT ![i] = r]
<1>3. ledger' = [ledger EXCEPT !.pending = p]
  BY <1>2, Zenon
<1>4. ledger.pending \in Seq(Request) /\ Len(ledger.pending) \in Nat
  BY <1>1, PendingLength
<1>5. r \in Request /\ r.id = ledger.pending[i].id
  <2>1. ledger.pending[i] \in Request
    BY <1>4, ElementOfSeq
  <2> QED BY ONLY <2>1 DEF Request
<1> HIDE DEF r
<1>6. /\ p \in Seq(Request) /\ Len(p) = Len(ledger.pending)
      /\ \A j \in 1..Len(ledger.pending) : p[j] = IF j = i THEN r ELSE ledger.pending[j]
  BY ONLY <1>4, <1>5, i \in 1..Len(ledger.pending), ExceptSeq
<1> HIDE DEF p
<1>7. ledger' \in Ledger /\ ledger'.pending = p /\ Counted(ledger, ledger')
  BY ONLY <1>1, <1>3, <1>6 DEF Ledger, Counted
<1>8. 0 \in 0..Len(ledger.pending) /\ Len(ledger.pending) = Len(ledger.pending) - 0
      /\ \A n \in 1..Len(ledger.pending) : n + 0 = n
  BY ONLY <1>4, SMT
<1>9. \A n \in 1..Len(p) : p[n].id = ledger.pending[n].id
  BY ONLY <1>5, <1>6
<1> QED BY ONLY <1>1, <1>6, <1>7, <1>8, <1>9 DEF Settling, Counted

-----------------------------------------------------------------------------
(* The actions, and what each leaves alone.                                 *)

LEMMA NextCases ==
    ASSUME Next
    PROVE  \/ \E s \in Steps : RequestWalk(s)
           \/ SendWalk \/ DrainEnds \/ ReadMove \/ ReadSnapback \/ PassEnds
           \/ PublishWorldEvents \/ RequestAges
           \/ CGoDirection \/ GoMoves \/ GoRefused \/ GoOutOfReach \/ StraySnapback
           \/ \E f \in Fields : Displaced(f)
           \/ \E f \in Fields : GoAstray(f)
  BY DEF Next, PlayerStep, WorkerStep, ServerStep, Trouble

Answering == CGoDirection \/ GoMoves \/ GoRefused \/ StraySnapback
             \/ (\E f \in Fields : Displaced(f)) \/ (\E f \in Fields : GoAstray(f))

Untouched ==
    /\ UNCHANGED <<presses, intents>> \/ SendWalk \/ \E s \in Steps : RequestWalk(s)
    /\ UNCHANGED <<ledger, inputFor, reports>> \/ SendWalk \/ DrainEnds \/ ReadSnapback
       \/ PublishWorldEvents \/ RequestAges
    /\ UNCHANGED up \/ SendWalk \/ CGoDirection
    /\ UNCHANGED down \/ ReadMove \/ ReadSnapback \/ Answering
    /\ UNCHANGED mirror \/ ReadMove
    /\ UNCHANGED shown \/ PublishWorldEvents
    /\ UNCHANGED todo \/ todo' = <<>> \/ CGoDirection
    /\ UNCHANGED truth \/ CGoDirection \/ (todo # <<>> /\ \E h \in {"moved", "refused",
                                           "silent", "astray"} : Ruled(todo[1].id, h))
    /\ UNCHANGED pos \/ GoMoves \/ (\E f \in Fields : Displaced(f))
       \/ (\E f \in Fields : GoAstray(f))
    /\ UNCHANGED troubles \/ (troubles < Disturbances /\ troubles' = troubles + 1)
    /\ UNCHANGED read \/ read' = 0 \/ (read < PassLimit /\ read' = read + 1)
    /\ UNCHANGED wpc \/ wpc' \in {"drain", "read", "publish", "drainAgain"}

LEMMA StepFrames == ASSUME Next PROVE Untouched
<1>1. CASE \E s \in Steps : RequestWalk(s)
  BY <1>1 DEF RequestWalk, Untouched, server
<1>2. CASE SendWalk
  BY <1>2 DEF SendWalk, Untouched, Answering, client, server, Answer
<1>3. CASE DrainEnds
  BY <1>3 DEF DrainEnds, Untouched, Answering, client, server, Answer
<1>4. CASE ReadMove
  BY <1>4 DEF ReadMove, Untouched, Answering, client, server, Answer
<1>5. CASE ReadSnapback
  BY <1>5 DEF ReadSnapback, Untouched, Answering, client, server, Answer
<1>6. CASE PassEnds
  BY <1>6 DEF PassEnds, Untouched, Answering, client, server, Answer
<1>7. CASE PublishWorldEvents
  BY <1>7 DEF PublishWorldEvents, Untouched, Answering, client, server, Answer
<1>8. CASE RequestAges
  BY <1>8 DEF RequestAges, Untouched, Answering, client, server, Answer
<1>9. CASE CGoDirection
  BY <1>9 DEF CGoDirection, Untouched, Answering, client, server, Answer
<1>10. CASE GoMoves
  BY <1>10 DEF GoMoves, Untouched, Answering, client, server, Answer
<1>11. CASE GoRefused
  BY <1>11 DEF GoRefused, Untouched, Answering, client, server, Answer
<1>12. CASE GoOutOfReach
  BY <1>12 DEF GoOutOfReach, Untouched, Answering, client, server, Answer
<1>13. CASE StraySnapback
  BY <1>13 DEF StraySnapback, Untouched, Answering, client, server, Answer
<1>14. CASE \E f \in Fields : Displaced(f)
  BY <1>14 DEF Displaced, Untouched, Answering, client, server, Answer
<1>15. CASE \E f \in Fields : GoAstray(f)
  BY <1>15 DEF GoAstray, Untouched, Answering, client, server, Answer
<1> QED BY <1>1, <1>2, <1>3, <1>4, <1>5, <1>6, <1>7, <1>8, <1>9, <1>10, <1>11, <1>12, <1>13, <1>14, <1>15, NextCases

-----------------------------------------------------------------------------
(* Sending a walk.                                                          *)

\* The walk that is sent carries the number of its press.
LEMMA SendFacts ==
    ASSUME TypeOK, Numbered, SendWalk
    PROVE  \E step \in Steps :
              /\ ledger' = NoteRequestSent(ledger, step)
              /\ intents # <<>> /\ intents' = Tail(intents)
              /\ intents \in Seq((1..MaxWalks) \X Steps)
              /\ up' = Append(up, <<ledger.requested + 1, step>>)
              /\ inputFor' = inputFor \cup {<<ledger.requested + 1, ledger.requested + 1>>}
              /\ ledger.requested + 1 \in 1..MaxWalks
              /\ presses' = presses /\ reports' = reports
<1>1. /\ ledger \in Ledger /\ intents \in Seq((1..MaxWalks) \X Steps) /\ intents # <<>>
      /\ presses \in 0..MaxWalks /\ MaxWalks \in Nat
  BY BoundsAssumption DEF TypeOK, SendWalk
<1> DEFINE input == Head(intents)[1]
           step == Head(intents)[2]
<1>2. Head(intents) = intents[1] /\ Head(intents) \in (1..MaxWalks) \X Steps
      /\ Len(intents) \in Nat /\ 1 \in 1..Len(intents)
  <2>1. Len(intents) \in Nat /\ 1 \in 1..Len(intents)
    BY <1>1, EmptySeq, LenProperties, SMT
  <2> QED BY <1>1, <2>1, HeadTailProperties
<1>3. step \in Steps /\ input \in 1..MaxWalks
  BY <1>2
<1>4. input = ledger.requested + 1
  BY <1>2 DEF Numbered
<1>5. /\ ledger' = NoteRequestSent(ledger, step) /\ intents' = Tail(intents)
      /\ up' = Append(up, <<ledger.requested + 1, step>>)
      /\ inputFor' = inputFor \cup {<<ledger.requested + 1, input>>}
      /\ presses' = presses /\ reports' = reports
  BY DEF SendWalk
<1> QED BY <1>1, <1>3, <1>4, <1>5

LEMMA SendKeepsOrder ==
    ASSUME TypeOK, Numbered, OrderInv, SendWalk
    PROVE  OrderInv' /\ Numbered' /\ ledger' \in Ledger /\ reports' = reports
<1> DEFINE n == Len(ledger.pending)
           q == ledger.requested
<1>1. PICK step \in Steps :
              /\ ledger' = NoteRequestSent(ledger, step)
              /\ intents # <<>> /\ intents' = Tail(intents)
              /\ intents \in Seq((1..MaxWalks) \X Steps)
              /\ inputFor' = inputFor \cup {<<q + 1, q + 1>>}
              /\ presses' = presses /\ reports' = reports
  BY SendFacts
<1>2. ledger \in Ledger /\ n \in Nat /\ q \in Nat
  BY PendingLength DEF TypeOK
<1>3. /\ ledger' \in Ledger /\ ledger'.requested = q + 1
      /\ Len(ledger'.pending) = n + 1
      /\ \A i \in 1..n : ledger'.pending[i] = ledger.pending[i]
      /\ ledger'.pending[n + 1].id = q + 1
  BY <1>1, <1>2, NoteRequestSentFacts
<1>4. ASSUME NEW i \in 1..n
      PROVE /\ ledger'.pending[i].id \in 1..q /\ ledger'.pending[i].id = ledger.pending[i].id
            /\ <<ledger'.pending[i].id, ledger'.pending[i].id>> \in inputFor
  BY <1>3 DEF OrderInv, InTurn, Paired
<1>5. Numbered'
  <2>1. /\ Tail(intents) \in Seq((1..MaxWalks) \X Steps) /\ Len(Tail(intents)) = Len(intents) - 1
        /\ \A i \in 1..Len(Tail(intents)) : Tail(intents)[i] = intents[i + 1]
        /\ Len(intents) \in Nat
    BY <1>1, HeadTailProperties, LenProperties
  <2>2. presses' = ledger'.requested + Len(intents')
    <3>1. presses = q + Len(intents)
      BY DEF Numbered
    <3> HIDE DEF q
    <3>2. q + Len(intents) = (q + 1) + (Len(intents) - 1)
      BY ONLY <1>2, <2>1, SMT
    <3> QED BY <1>1, <1>3, <2>1, <3>1, <3>2
  <2>3. ASSUME NEW i \in 1..Len(Tail(intents))
        PROVE  Tail(intents)[i][1] = (q + 1) + i
    <3> DEFINE m == Len(intents)
               k == Len(Tail(intents))
    <3>1. m \in Nat /\ k = m - 1 /\ i \in 1..k
      BY <2>1
    <3> HIDE DEF q, m, k
    <3>2. i + 1 \in 1..m /\ q + (i + 1) = (q + 1) + i
      BY ONLY <1>2, <3>1, SMT
    <3>3. intents[i + 1][1] = q + (i + 1)
      BY <3>2 DEF Numbered, q, m
    <3> QED BY <2>1, <3>2, <3>3
  <2> QED BY <1>1, <1>3, <2>2, <2>3 DEF Numbered
<1> HIDE DEF n, q
<1>6. \A i \in 1..n + 1 : i \in 1..n \/ i = n + 1
  BY <1>2, SMT
<1>7. InTurn'
  <2>1. ASSUME NEW i \in 1..n + 1 PROVE ledger'.pending[i].id \in 1..ledger'.requested
    <3>1. CASE i \in 1..n
      <4>1. ledger'.pending[i].id \in 1..q
        BY <1>4, <3>1
      <4> QED BY <1>2, <1>3, <4>1, SMT
    <3>2. CASE i = n + 1
      <4>1. q + 1 \in 1..q + 1
        BY <1>2, SMT
      <4> QED BY <1>3, <3>2, <4>1
    <3> QED BY <1>6, <3>1, <3>2
  <2>2. ASSUME NEW i \in 1..n + 1, NEW j \in 1..n + 1, i < j
        PROVE  ledger'.pending[i].id < ledger'.pending[j].id
    <3>1. i \in 1..n
      BY <1>2, <2>2, SMT
    <3>2. CASE j \in 1..n
      BY <1>4, <2>2, <3>1, <3>2 DEF OrderInv, InTurn, n
    <3>3. CASE j = n + 1
      <4>1. ledger'.pending[i].id \in 1..q /\ ledger'.pending[j].id = q + 1
        BY <1>3, <1>4, <3>1, <3>3
      <4> QED BY <1>2, <4>1, SMT
    <3> QED BY <1>6, <3>2, <3>3
  <2> QED BY <1>3, <2>1, <2>2 DEF InTurn
<1>8. Paired'
  <2>1. \A p \in inputFor' : p[2] = p[1]
    BY <1>1 DEF OrderInv, Paired
  <2>2. ASSUME NEW i \in 1..n + 1
        PROVE  <<ledger'.pending[i].id, ledger'.pending[i].id>> \in inputFor'
    BY <1>1, <1>3, <1>4, <1>6
  <2> QED BY <1>3, <2>1, <2>2 DEF Paired
<1>9. Naming' = Naming
  BY <1>1 DEF Naming
<1>10. Spoken'
  <2> SUFFICES ASSUME NEW i \in Naming
               PROVE  /\ reports[i].id <= q + 1
                      /\ \A k \in 1..n + 1 : reports[i].id < ledger'.pending[k].id
    BY <1>1, <1>3, <1>9 DEF Spoken
  <2>1. reports[i].id \in Nat
    <3>1. reports \in Seq(ReportRecord) /\ i \in 1..Len(reports)
      BY DEF TypeOK, ReportRecord, Naming
    <3>2. reports[i] \in ReportRecord
      BY <3>1, ElementOfSeq
    <3>3. reports[i].id \in 0..MaxWalks
      BY ONLY <3>2 DEF ReportRecord
    <3> QED BY <3>3, BoundsAssumption, SMT
  <2>2. reports[i].id <= q /\ \A k \in 1..n : reports[i].id < ledger.pending[k].id
    BY DEF OrderInv, Spoken, n, q
  <2>3. reports[i].id <= q + 1 /\ reports[i].id < q + 1
    BY <1>2, <2>1, <2>2, SMT
  <2> QED BY <1>3, <1>4, <1>6, <2>2, <2>3
<1>11. ReportsInOrder'
  BY <1>1, <1>9 DEF OrderInv, ReportsInOrder
<1> QED BY <1>1, <1>3, <1>5, <1>7, <1>8, <1>10, <1>11 DEF OrderInv

-----------------------------------------------------------------------------
(* The conjuncts of the invariant are kept by every step.                   *)

\* Every step but SendWalk settles the oldest requests, or none.
LEMMA OtherStepsSettle ==
    ASSUME TypeOK, Numbered, OrderInv, Next, ~SendWalk
    PROVE  \E k, id : Settling(k, id)
<1>1. ledger \in Ledger
  BY DEF TypeOK
<1>2. \/ UNCHANGED <<ledger, inputFor, reports>> \/ DrainEnds \/ ReadSnapback
      \/ PublishWorldEvents \/ RequestAges
  BY StepFrames DEF Untouched
<1> QED BY <1>1, <1>2, NothingSettles, DrainEndsSettles, ReadSnapbackSettles,
           PublishSettles, AgingSettles DEF OrderInv

LEMMA StepKeepsOrder ==
    ASSUME TypeOK, Numbered, OrderInv, Next
    PROVE  OrderInv' /\ Numbered' /\ ledger' \in Ledger /\ reports' \in Seq(ReportRecord)
<1>1. ledger \in Ledger /\ reports \in Seq(ReportRecord)
  BY DEF TypeOK, ReportRecord
<1>2. CASE SendWalk
  BY <1>1, <1>2, SendKeepsOrder
<1>3. CASE ~SendWalk
  <2>1. PICK k, id : Settling(k, id)
    BY <1>3, OtherStepsSettle
  <2>2. OrderInv' /\ reports' \in Seq(ReportRecord)
    BY <1>1, <2>1, SettlingKeepsTurn, SettlingKeepsPairs, SettlingKeepsOrder DEF OrderInv
  <2>3. ledger' \in Ledger /\ ledger'.requested = ledger.requested
    BY <2>1 DEF Settling
  <2>4. Numbered'
    <3>1. UNCHANGED <<presses, intents>> \/ \E step \in Steps : RequestWalk(step)
      BY <1>3, StepFrames DEF Untouched
    <3>2. CASE UNCHANGED <<presses, intents>>
      BY <2>3, <3>2 DEF Numbered
    <3>3. CASE \E step \in Steps : RequestWalk(step)
      <4>1. PICK step \in Steps : /\ presses' = presses + 1
                                  /\ intents' = Append(intents, <<presses + 1, step>>)
        BY <3>3 DEF RequestWalk
      <4> DEFINE S == Int \X Steps
                 e == <<presses + 1, step>>
                 n == Len(intents)
                 q == ledger.requested
      <4>2. presses \in Nat /\ q \in Nat /\ n \in Nat
        BY <1>1, PendingLength, LenProperties, BoundsAssumption DEF TypeOK
      <4>3. intents \in Seq(S)
        <5>1. (1..MaxWalks) \X Steps \subseteq S
          OBVIOUS
        <5> QED BY <5>1, SeqMonotonic DEF TypeOK
      <4>4. e \in S /\ e[1] = presses + 1
        BY <4>2
      <4> HIDE DEF e, S
      <4>5. /\ Len(intents') = n + 1 /\ intents'[n + 1] = e
            /\ \A i \in 1..n : intents'[i] = intents[i]
        BY <4>1, <4>3, <4>4, AppendProperties DEF e
      <4>6. presses = q + n /\ \A i \in 1..n : intents[i][1] = q + i
        BY DEF Numbered
      <4> HIDE DEF n, q
      <4>7. /\ \A i \in 1..n + 1 : i \in 1..n \/ i = n + 1
            /\ presses + 1 = q + (n + 1)
        BY ONLY <4>2, <4>6, SMT
      <4>8. \A i \in 1..n + 1 : intents'[i][1] = q + i
        BY <4>4, <4>5, <4>6, <4>7
      <4> QED BY <2>3, <4>1, <4>5, <4>7, <4>8 DEF Numbered, q
    <3> QED BY <3>1, <3>2, <3>3
  <2> QED BY <2>2, <2>3, <2>4
<1> QED BY <1>2, <1>3

\* A walk that leaves the ledger is counted once where it went.
LEMMA StepKeepsBalance ==
    ASSUME TypeOK, LedgerBalances, Next, ledger' \in Ledger
    PROVE  LedgerBalances'
<1> DEFINE n == Len(ledger.pending)
           m == Len(ledger'.pending)
<1>1. /\ ledger \in Ledger /\ n \in Nat /\ m \in Nat
      /\ ledger.requested \in Nat /\ ledger.accepted \in Nat
      /\ ledger.unanswered \in Nat /\ ledger.rejected \in Nat
  BY PendingLength DEF TypeOK
<1>2. LET s == ledger.accepted + ledger.unanswered + n
      IN  s <= ledger.requested /\ ledger.requested <= s + ledger.rejected
  BY DEF LedgerBalances
<1>3. \/ UNCHANGED <<ledger, inputFor, reports>> \/ SendWalk \/ DrainEnds \/ ReadSnapback
      \/ PublishWorldEvents \/ RequestAges
  BY StepFrames DEF Untouched
<1>4. CASE UNCHANGED <<ledger, inputFor, reports>> \/ RequestAges
  <2>1. Counted(ledger, ledger') /\ m = n
    BY <1>4, AgingSettles DEF Counted
  <2> HIDE DEF n, m
  <2>2. LET s == ledger'.accepted + ledger'.unanswered + m
        IN  s <= ledger'.requested /\ ledger'.requested <= s + ledger'.rejected
    BY <1>2, <2>1 DEF Counted
  <2> QED BY <2>2 DEF LedgerBalances, m
<1>5. CASE SendWalk
  <2>1. /\ ledger'.requested = ledger.requested + 1 /\ m = n + 1
        /\ ledger'.accepted = ledger.accepted /\ ledger'.rejected = ledger.rejected
        /\ ledger'.unanswered = ledger.unanswered
    <3>1. PICK i \in 1..Len(intents) : ledger' = NoteRequestSent(ledger, intents[i][2])
      <4>1. /\ intents \in Seq((1..MaxWalks) \X Steps) /\ intents # <<>>
            /\ ledger' = NoteRequestSent(ledger, Head(intents)[2])
        BY <1>5 DEF TypeOK, SendWalk
      <4>2. Head(intents) = intents[1] /\ 1 \in 1..Len(intents)
        BY <4>1, HeadTailProperties, LenProperties, EmptySeq, SMT
      <4> QED BY <4>1, <4>2
    <3>2. intents[i][2] \in Steps
      <4>1. intents[i] \in (1..MaxWalks) \X Steps
        BY ElementOfSeq DEF TypeOK
      <4> QED BY <4>1
    <3> QED BY <1>1, <3>1, <3>2, NoteRequestSentFacts
  <2> HIDE DEF n, m
  <2>2. LET s == ledger'.accepted + ledger'.unanswered + m
        IN  s <= ledger'.requested /\ ledger'.requested <= s + ledger'.rejected
    BY <1>1, <1>2, <2>1, SMT
  <2> QED BY <2>2 DEF LedgerBalances, m
<1>6. CASE DrainEnds
  <2>1. PICK k \in 0..n :
           /\ DropsOldest(ledger, ledger', k) /\ ledger'.unanswered = ledger.unanswered + k
           /\ ledger'.accepted = ledger.accepted /\ ledger'.rejected = ledger.rejected
    BY <1>1, <1>6, ExpireBeforeFacts DEF DrainEnds
  <2>2. m = n - k /\ ledger'.requested = ledger.requested
    BY <2>1 DEF DropsOldest
  <2> HIDE DEF n, m
  <2>3. LET s == ledger'.accepted + ledger'.unanswered + m
        IN  s <= ledger'.requested /\ ledger'.requested <= s + ledger'.rejected
    BY <1>1, <1>2, <2>1, <2>2, SMT
  <2> QED BY <2>3 DEF LedgerBalances, m
<1>7. CASE ReadSnapback
  <2>1. /\ \E k \in 0..1 : DropsOldest(ledger, ledger', k)
        /\ ledger'.rejected = ledger.rejected + 1 /\ ledger'.accepted = ledger.accepted
        /\ ledger'.unanswered = ledger.unanswered
    <3>1. 0 \in 0..1 /\ 1 \in 0..1
      BY SMT
    <3> QED BY <1>1, <1>7, <3>1, NoteSnapbackFacts DEF ReadSnapback
  <2>2. PICK k \in 0..1 : m = n - k /\ ledger'.requested = ledger.requested
    BY <2>1 DEF DropsOldest
  <2> HIDE DEF n, m
  <2>3. LET s == ledger'.accepted + ledger'.unanswered + m
        IN  s <= ledger'.requested /\ ledger'.requested <= s + ledger'.rejected
    BY <1>1, <1>2, <2>1, <2>2, SMT
  <2> QED BY <2>3 DEF LedgerBalances, m
<1>8. CASE PublishWorldEvents
  <2>1. \/ /\ DropsOldest(ledger, ledger', 1) /\ ledger'.accepted = ledger.accepted + 1
           /\ ledger'.rejected = ledger.rejected /\ ledger'.unanswered = ledger.unanswered
        \/ DropsOldest(ledger, ledger', 0) /\ Counted(ledger, ledger')
    BY <1>1, <1>8, NoteLocalMoveFacts DEF PublishWorldEvents
  <2>2. \/ /\ m = n - 1 /\ ledger'.requested = ledger.requested
           /\ ledger'.accepted = ledger.accepted + 1
           /\ ledger'.rejected = ledger.rejected /\ ledger'.unanswered = ledger.unanswered
        \/ m = n - 0 /\ Counted(ledger, ledger')
    BY <2>1 DEF DropsOldest
  <2> HIDE DEF n, m
  <2>3. LET s == ledger'.accepted + ledger'.unanswered + m
        IN  s <= ledger'.requested /\ ledger'.requested <= s + ledger'.rejected
    BY <1>1, <1>2, <2>2, SMT DEF Counted
  <2> QED BY <2>3 DEF LedgerBalances, m
<1> QED BY <1>3, <1>4, <1>5, <1>6, <1>7, <1>8

\* The commands and answers under way.
LEMMA StepKeepsTraffic ==
    ASSUME TypeOK, WellFormed, Numbered, Next
    PROVE  /\ up' \in Seq(Requests \X Steps) /\ down' \in Seq(Message)
           /\ WellFormed' /\ Len(todo') <= 1 /\ pos' \in Fields /\ mirror' \in Fields
           /\ truth' \in [Requests -> {"open", "moved", "refused", "silent", "astray"}]
<1> DEFINE Walk == [id: Requests, dest: Int \X Int]
           Rulings == {"open", "moved", "refused", "silent", "astray"}
           Lands(msgs) == \A i \in 1..Len(msgs) : msgs[i].kind = "move" => msgs[i].to \in Fields
<1>1. /\ up \in Seq(Requests \X Steps) /\ down \in Seq(Message) /\ pos \in Fields
      /\ todo \in Seq(Walk) /\ Len(todo) <= 1 /\ Lands(down) /\ mirror \in Fields
      /\ truth \in [Requests -> Rulings]
  BY DEF TypeOK, WellFormed, Message
<1>2. /\ 0 \in 0..MaxWalks /\ Requests \subseteq 0..MaxWalks
  <2>1. 0 \in 0..MaxWalks /\ 1..MaxWalks \subseteq 0..MaxWalks
    BY BoundsAssumption, SMT
  <2> QED BY <2>1 DEF Requests
<1>3. todo # <<>> => /\ todo[1] \in Walk /\ todo[1].id \in Requests
                     /\ todo[1].dest \in Int \X Int /\ todo[1].id \in 0..MaxWalks
  <2> SUFFICES ASSUME todo # <<>>
               PROVE  /\ todo[1] \in Walk /\ todo[1].id \in Requests
                      /\ todo[1].dest \in Int \X Int /\ todo[1].id \in 0..MaxWalks
    OBVIOUS
  <2>1. 1 \in 1..Len(todo)
    BY <1>1, LenProperties, EmptySeq, SMT
  <2>2. todo[1] \in Walk
    BY <1>1, <2>1, ElementOfSeq
  <2>3. todo[1].id \in Requests /\ todo[1].dest \in Int \X Int
    BY ONLY <2>2
  <2> QED BY <1>2, <2>2, <2>3
<1> HIDE DEF Walk
\* An answer that is added is a message, and leads onto the map.
<1>4. ASSUME NEW msg \in Message, msg.kind = "move" => msg.to \in Fields,
             down' = Append(down, msg)
      PROVE  down' \in Seq(Message) /\ Lands(down')
  <2>1. /\ down' \in Seq(Message) /\ Len(down') = Len(down) + 1
        /\ \A i \in 1..Len(down) : down'[i] = down[i]
        /\ down'[Len(down) + 1] = msg /\ Len(down) \in Nat
    BY <1>1, <1>4, AppendProperties, LenProperties
  <2>2. \A i \in 1..Len(down') : i \in 1..Len(down) \/ i = Len(down) + 1
    BY <2>1, SMT
  <2> QED BY <1>1, <1>4, <2>1, <2>2
<1>5. ASSUME down # <<>>, down' = Tail(down) PROVE down' \in Seq(Message) /\ Lands(down')
  <2>1. /\ Tail(down) \in Seq(Message) /\ Len(Tail(down)) = Len(down) - 1
        /\ \A i \in 1..Len(Tail(down)) : Tail(down)[i] = down[i + 1]
        /\ Len(down) \in Nat
    BY <1>1, <1>5, HeadTailProperties, LenProperties
  <2>2. \A i \in 1..Len(Tail(down)) : i + 1 \in 1..Len(down)
    BY <2>1, SMT
  <2> QED BY <1>1, <1>5, <2>1, <2>2
<1>6. ASSUME NEW id \in 0..MaxWalks
      PROVE  Snap(id) \in Message /\ Snap(id).kind # "move"
  BY DEF Snap, Message
<1>7. ASSUME NEW id \in 0..MaxWalks, NEW to \in Fields
      PROVE  Moved(id, to) \in Message /\ Moved(id, to).to \in Fields
  BY DEF Moved, Message
<1> HIDE DEF Lands
<1>8. down' \in Seq(Message) /\ Lands(down')
  <2>1. CASE UNCHANGED down
    BY <1>1, <2>1 DEF Lands
  <2>2. CASE ReadMove \/ ReadSnapback
    BY <1>5, <2>2 DEF ReadMove, ReadSnapback
  <2>3. CASE CGoDirection
    BY <1>1, <1>3, <1>4, <1>6, <2>3 DEF CGoDirection, Answer, Lands
  <2>4. CASE GoMoves
    BY <1>3, <1>4, <1>7, <2>4 DEF GoMoves, Answer
  <2>5. CASE GoRefused
    BY <1>3, <1>4, <1>6, <2>5 DEF GoRefused, Answer
  <2>6. CASE StraySnapback
    BY <1>2, <1>4, <1>6, <2>6 DEF StraySnapback, Answer
  <2>7. CASE \E f \in Fields : Displaced(f)
    BY <1>2, <1>4, <1>7, <2>7 DEF Displaced, Answer
  <2>8. CASE \E f \in Fields : GoAstray(f)
    BY <1>3, <1>4, <1>7, <2>8 DEF GoAstray, Answer
  <2> QED BY <2>1, <2>2, <2>3, <2>4, <2>5, <2>6, <2>7, <2>8, StepFrames DEF Untouched, Answering
<1>9. up' \in Seq(Requests \X Steps)
  <2>1. CASE UNCHANGED up
    BY <1>1, <2>1
  <2>2. CASE SendWalk
    <3>1. PICK step \in Steps : /\ up' = Append(up, <<ledger.requested + 1, step>>)
                                /\ ledger.requested + 1 \in 1..MaxWalks
      BY <2>2, SendFacts
    <3>2. <<ledger.requested + 1, step>> \in Requests \X Steps
      BY <3>1 DEF Requests
    <3> QED BY <1>1, <3>1, <3>2, AppendProperties
  <2>3. CASE CGoDirection
    BY <1>1, <2>3, HeadTailProperties DEF CGoDirection
  <2> QED BY <2>1, <2>2, <2>3, StepFrames DEF Untouched
<1>10. todo' \in Seq(Walk) /\ Len(todo') <= 1
  <2>1. CASE UNCHANGED todo
    BY <1>1, <2>1
  <2>2. CASE todo' = <<>>
    BY <2>2, EmptySeq, SMT
  <2>3. CASE CGoDirection
    <3> DEFINE w == [id |-> Head(up)[1], dest |-> Apply(pos, Head(up)[2])]
    <3>1. todo' = <<w>> /\ up # <<>>
      BY <2>3 DEF CGoDirection
    <3>2. Head(up) \in Requests \X Steps
      BY <1>1, <3>1, HeadTailProperties
    <3>3. Head(up)[1] \in Requests /\ Head(up)[2] \in Steps
      BY <3>2
    <3>4. Apply(pos, Head(up)[2]) \in Int \X Int
      <4>1. pos \in Int \X Int /\ Head(up)[2] \in (-1..1) \X (-1..1)
        BY <1>1, <3>3, FieldsAssumption, StepsAssumption
      <4>2. pos[1] \in Int /\ pos[2] \in Int /\ Head(up)[2][1] \in -1..1 /\ Head(up)[2][2] \in -1..1
        BY <4>1
      <4>3. pos[1] + Head(up)[2][1] \in Int /\ pos[2] + Head(up)[2][2] \in Int
        BY <4>2, SMT
      <4> QED BY <4>3 DEF Apply
    <3>5. w \in Walk
      BY <3>3, <3>4 DEF Walk
    <3> HIDE DEF w
    <3> QED BY <3>1, <3>5, SMT
  <2> QED BY <2>1, <2>2, <2>3, StepFrames DEF Untouched
<1>11. pos' \in Fields
  <2>1. GoMoves => pos' \in Fields
    BY DEF GoMoves
  <2>2. \A f \in Fields : Displaced(f) \/ GoAstray(f) => pos' \in Fields
    BY DEF Displaced, GoAstray
  <2> QED BY <1>1, <2>1, <2>2, StepFrames DEF Untouched
<1>12. mirror' \in Fields
  <2>1. CASE UNCHANGED mirror
    BY <1>1, <2>1
  <2>2. CASE ReadMove
    <3>1. /\ down # <<>> /\ Head(down).kind = "move" /\ mirror' = Head(down).to
      BY <2>2 DEF ReadMove
    <3>2. Head(down) = down[1] /\ 1 \in 1..Len(down)
      BY <1>1, <3>1, HeadTailProperties, LenProperties, EmptySeq, SMT
    <3> QED BY <1>1, <3>1, <3>2 DEF Lands
  <2> QED BY <2>1, <2>2, StepFrames DEF Untouched
<1>13. truth' \in [Requests -> Rulings]
  <2>1. ASSUME NEW id \in Requests, NEW h \in Rulings, Ruled(id, h)
        PROVE  truth' \in [Requests -> Rulings]
    <3> HIDE DEF Rulings
    <3> QED BY <1>1, <2>1 DEF Ruled
  <2>2. CASE CGoDirection
    BY <1>1, <1>3, <2>1, <2>2 DEF CGoDirection
  <2> QED BY <1>1, <1>3, <2>1, <2>2, StepFrames DEF Untouched
<1> QED BY <1>8, <1>9, <1>10, <1>11, <1>12, <1>13 DEF WellFormed, Walk, Lands

LEMMA StepKeepsType ==
    ASSUME WalkInv, Next
    PROVE  TypeOK' /\ WellFormed'
<1> DEFINE Posted == (1..MaxWalks) \X Steps
<1>1. TypeOK /\ WellFormed /\ Numbered /\ OrderInv
  BY DEF WalkInv
<1>2. /\ presses \in 0..MaxWalks /\ intents \in Seq(Posted)
      /\ inputFor \subseteq (1..MaxWalks) \X (1..MaxWalks)
      /\ shown \in Fields /\ mirror \in Fields /\ read \in 0..PassLimit
      /\ wpc \in {"drain", "read", "publish", "drainAgain"}
      /\ troubles \in 0..Disturbances
  BY <1>1 DEF TypeOK
<1>3. MaxWalks \in Nat /\ Disturbances \in Nat /\ PassLimit \in Nat
  BY BoundsAssumption
<1>4. Untouched
  BY StepFrames
<1>5. ledger' \in Ledger /\ reports' \in Seq(ReportRecord)
  BY <1>1, StepKeepsOrder
<1>6. presses' \in 0..MaxWalks /\ intents' \in Seq(Posted)
  <2>1. CASE UNCHANGED <<presses, intents>>
    BY <1>2, <2>1
  <2>2. CASE SendWalk
    <3>1. presses' = presses /\ intents # <<>> /\ intents' = Tail(intents)
      BY <2>2 DEF SendWalk
    <3> HIDE DEF Posted
    <3> QED BY <1>2, <3>1, HeadTailProperties
  <2>3. CASE \E step \in Steps : RequestWalk(step)
    <3>1. PICK step \in Steps : /\ presses < MaxWalks /\ presses' = presses + 1
                                /\ intents' = Append(intents, <<presses + 1, step>>)
      BY <2>3 DEF RequestWalk
    <3>2. presses + 1 \in 1..MaxWalks /\ presses + 1 \in 0..MaxWalks
      BY <1>2, <1>3, <3>1, SMT
    <3>3. <<presses + 1, step>> \in Posted
      BY <3>2
    <3> HIDE DEF Posted
    <3> QED BY <1>2, <3>1, <3>2, <3>3, AppendProperties
  <2> QED BY <1>4, <2>1, <2>2, <2>3 DEF Untouched
<1>7. inputFor' \subseteq (1..MaxWalks) \X (1..MaxWalks)
  <2>1. CASE SendWalk
    <3>1. /\ inputFor' = inputFor \cup {<<ledger.requested + 1, ledger.requested + 1>>}
          /\ ledger.requested + 1 \in 1..MaxWalks
      BY <1>1, <2>1, SendFacts
    <3> QED BY <1>2, <3>1
  <2>2. CASE ~SendWalk
    <3>1. inputFor' \subseteq inputFor
      BY <1>1, <2>2, OtherStepsSettle DEF Settling
    <3> QED BY <1>2, <3>1
  <2> QED BY <2>1, <2>2
<1>8. shown' \in Fields
  BY <1>2, <1>4 DEF Untouched, PublishWorldEvents
<1>9. wpc' \in {"drain", "read", "publish", "drainAgain"}
  BY <1>2, <1>4 DEF Untouched
<1>10. read' \in 0..PassLimit /\ troubles' \in 0..Disturbances
  <2>1. \/ read' = read \/ read' = 0 \/ (read < PassLimit /\ read' = read + 1)
    BY <1>4 DEF Untouched
  <2>2. \/ troubles' = troubles \/ (troubles < Disturbances /\ troubles' = troubles + 1)
    BY <1>4 DEF Untouched
  <2> QED BY <1>2, <1>3, <2>1, <2>2, SMT
<1>11. /\ up' \in Seq(Requests \X Steps) /\ down' \in Seq(Message)
       /\ WellFormed' /\ Len(todo') <= 1 /\ pos' \in Fields /\ mirror' \in Fields
       /\ truth' \in [Requests -> {"open", "moved", "refused", "silent", "astray"}]
  BY <1>1, StepKeepsTraffic
<1> QED BY <1>5, <1>6, <1>7, <1>8, <1>9, <1>10, <1>11 DEF TypeOK, ReportRecord, Message

-----------------------------------------------------------------------------
(* The theorems.                                                            *)

LEMMA InitWalkInv == Init => WalkInv
<1> SUFFICES ASSUME Init PROVE WalkInv
  OBVIOUS
<1>1. /\ presses = 0 /\ intents = <<>> /\ ledger = EmptyLedger /\ inputFor = {}
      /\ pos \in Fields /\ mirror = pos /\ shown = pos
      /\ wpc = "drain" /\ read = 0 /\ up = <<>> /\ down = <<>>
      /\ todo = <<>> /\ troubles = 0 /\ reports = <<>>
      /\ truth = [r \in Requests |-> "open"]
  BY DEF Init
<1>2. 0 \in 0..MaxWalks /\ 0 \in 0..PassLimit /\ 0 \in 0..Disturbances
  BY BoundsAssumption, SMT
<1>3. /\ \A S : <<>> \in Seq(S)
      /\ Len(<<>>) = 0 /\ 1..Len(<<>>) = {}
  BY EmptySeq, SMT
<1>4. /\ ledger \in Ledger /\ ledger.pending = <<>> /\ ledger.requested = 0
      /\ ledger.accepted = 0 /\ ledger.rejected = 0 /\ ledger.unanswered = 0
  <2>1. 0 \in Nat /\ <<>> \in Seq(Request)
    BY <1>3, SMT
  <2> QED BY <1>1, <2>1 DEF EmptyLedger, Ledger
<1>5. truth \in [Requests -> {"open", "moved", "refused", "silent", "astray"}]
  BY <1>1
<1>6. Len(todo) <= 1
  BY <1>1, <1>3, SMT
<1>7. TypeOK
  BY <1>1, <1>2, <1>3, <1>4, <1>5, <1>6 DEF TypeOK
<1>8. WellFormed /\ OrderInv
  BY <1>1, <1>3, <1>4 DEF WellFormed, OrderInv, InTurn, Paired, Spoken, ReportsInOrder, Naming
<1>9. Numbered
  <2>1. 0 = 0 + Len(<<>>)
    BY <1>3, SMT
  <2> QED BY <1>1, <1>3, <1>4, <2>1 DEF Numbered
<1>10. LedgerBalances
  <2>1. 0 + 0 + Len(<<>>) <= 0 /\ 0 <= (0 + 0 + Len(<<>>)) + 0
    BY <1>3, SMT
  <2> QED BY <1>4, <2>1 DEF LedgerBalances
<1> QED BY <1>7, <1>8, <1>9, <1>10 DEF WalkInv

LEMMA StepWalkInv == WalkInv /\ [Next]_vars => WalkInv'
<1> SUFFICES ASSUME WalkInv, [Next]_vars PROVE WalkInv'
  OBVIOUS
<1>1. CASE Next
  <2>1. TypeOK /\ Numbered /\ OrderInv /\ LedgerBalances
    BY DEF WalkInv
  <2> QED BY <1>1, <2>1, StepKeepsType, StepKeepsOrder, StepKeepsBalance DEF WalkInv
<1>2. CASE UNCHANGED vars
  BY <1>2 DEF vars, client, server, WalkInv, TypeOK, WellFormed, Numbered, OrderInv, InTurn,
              Paired, Spoken, ReportsInOrder, Naming, LedgerBalances
<1> QED BY <1>1, <1>2

\* The invariant the theorems below follow from.
THEOREM WalkInvariant == Spec => []WalkInv
<1> QED BY InitWalkInv, StepWalkInv, PTL DEF Spec

\* Every variable keeps its type: in particular the numbers of requests and
\* presses stay within what was pressed, and the to-do list holds one walk.
THEOREM WalkTypes == Spec => []TypeOK
<1>1. WalkInv => TypeOK
  BY DEF WalkInv
<1> QED BY <1>1, WalkInvariant, PTL

\* MovementLedger's counters account for every walk that was sent.
THEOREM LedgerAddsUp == Spec => []LedgerBalances
<1>1. WalkInv => LedgerBalances
  BY DEF WalkInv
<1> QED BY <1>1, WalkInvariant, PTL

\* The reports name requests in the order they were made, each once, and each
\* with the key press it came from, whatever is lost, late or displaced.
THEOREM ReportsNameInOrder == Spec => []ReportsInOrder
<1>1. WalkInv => ReportsInOrder
  BY DEF WalkInv, OrderInv
<1> QED BY <1>1, WalkInvariant, PTL

-----------------------------------------------------------------------------
(* The picture follows the server.                                          *)

\* The last move under way leads to where the player is on the server, and
\* with none under way the mirror has them there.
LastMoveLeads ==
    /\ \A i \in 1..Len(down) :
          /\ down[i].kind = "move"
          /\ \A j \in 1..Len(down) : i < j => down[j].kind # "move"
          => down[i].to = pos
    /\ (\A i \in 1..Len(down) : down[i].kind # "move") => mirror = pos

ViewInv ==
    /\ LastMoveLeads
    /\ wpc \in {"drain", "drainAgain"} => shown = mirror

LEMMA AnswerKeepsLead ==
    ASSUME down \in Seq(Message), LastMoveLeads, NEW msg \in Message,
           down' = Append(down, msg), mirror' = mirror,
           IF msg.kind = "move" THEN pos' = msg.to ELSE pos' = pos
    PROVE  LastMoveLeads'
<1> DEFINE n == Len(down)
<1>1. /\ n \in Nat /\ Len(down') = n + 1 /\ down'[n + 1] = msg
      /\ \A i \in 1..n : down'[i] = down[i]
  BY AppendProperties, LenProperties
<1>2. LastMoveLeads
  OBVIOUS
<1> HIDE DEF n
<1>3. /\ \A i \in 1..n + 1 : i \in 1..n \/ i = n + 1
      /\ \A i \in 1..n : i \in 1..n + 1 /\ i < n + 1
      /\ n + 1 \in 1..n + 1
  BY <1>1, SMT
<1>4. ASSUME NEW i \in 1..n + 1, down'[i].kind = "move",
             \A j \in 1..n + 1 : i < j => down'[j].kind # "move"
      PROVE  down'[i].to = pos'
  <2>1. CASE i = n + 1
    BY <1>1, <1>4, <2>1
  <2>2. CASE i \in 1..n
    <3>1. msg.kind # "move"
      BY <1>1, <1>3, <1>4, <2>2
    <3>2. \A j \in 1..n : i < j => down[j].kind # "move"
      BY <1>1, <1>3, <1>4
    <3> QED BY <1>1, <1>2, <1>4, <2>2, <3>1, <3>2 DEF LastMoveLeads, n
  <2> QED BY <1>3, <2>1, <2>2
<1>5. ASSUME \A i \in 1..n + 1 : down'[i].kind # "move"
      PROVE  mirror' = pos'
  <2>1. msg.kind # "move" /\ \A i \in 1..n : down[i].kind # "move"
    BY <1>1, <1>3, <1>5
  <2> QED BY <1>2, <2>1 DEF LastMoveLeads, n
<1> QED BY <1>1, <1>4, <1>5 DEF LastMoveLeads

LEMMA ReadingKeepsLead ==
    ASSUME down \in Seq(Message), down # <<>>, LastMoveLeads, down' = Tail(down), pos' = pos,
           IF Head(down).kind = "move" THEN mirror' = Head(down).to ELSE mirror' = mirror
    PROVE  LastMoveLeads'
<1> DEFINE n == Len(down)
           m == Len(down')
<1>1. /\ n \in Nat /\ m = n - 1 /\ Head(down) = down[1] /\ n # 0
      /\ \A i \in 1..m : down'[i] = down[i + 1]
  BY HeadTailProperties, LenProperties, EmptySeq
<1>2. LastMoveLeads
  OBVIOUS
<1> HIDE DEF n, m
<1>3. /\ 1 \in 1..n /\ \A i \in 1..m : i + 1 \in 1..n
      /\ \A i \in 1..m : \A j \in 1..n : i + 1 < j => j # 1
  BY <1>1, SMT
<1>6. ASSUME NEW j \in 1..n, j # 1
      PROVE  \E k \in 1..m : j = k + 1 /\ \A i \in 1..m : i + 1 < j => i < k
  <2> DEFINE k == j - 1
  <2>1. k \in 1..m /\ j = k + 1 /\ \A i \in 1..m : i + 1 < j => i < k
    BY <1>1, <1>6, SMT
  <2> QED BY <2>1
<1>4. ASSUME NEW i \in 1..m, down'[i].kind = "move",
             \A j \in 1..m : i < j => down'[j].kind # "move"
      PROVE  down'[i].to = pos'
  <2>1. ASSUME NEW j \in 1..n, i + 1 < j PROVE down[j].kind # "move"
    <3>1. PICK k \in 1..m : j = k + 1 /\ i < k
      BY <1>3, <1>6, <2>1
    <3> QED BY <1>1, <1>4, <3>1
  <2>2. i + 1 \in 1..n /\ down[i + 1].kind = "move" /\ down'[i] = down[i + 1]
    BY <1>1, <1>3, <1>4
  <2> QED BY <1>2, <2>1, <2>2 DEF LastMoveLeads, n
<1>5. ASSUME \A i \in 1..m : down'[i].kind # "move"
      PROVE  mirror' = pos'
  <2>1. ASSUME NEW j \in 1..n, j # 1 PROVE down[j].kind # "move"
    <3>1. PICK k \in 1..m : j = k + 1
      BY <1>6, <2>1
    <3> QED BY <1>1, <1>5, <3>1
  <2>2. \A j \in 1..n : 1 < j => j # 1
    BY <1>1, SMT
  <2>3. CASE down[1].kind = "move"
    BY <1>1, <1>2, <1>3, <2>1, <2>2, <2>3 DEF LastMoveLeads, n
  <2>4. CASE down[1].kind # "move"
    <3>1. \A j \in 1..n : down[j].kind # "move"
      BY <2>1, <2>4
    <3>2. mirror = pos
      BY <1>2, <3>1 DEF LastMoveLeads, n
    <3> QED BY <1>1, <2>4, <3>2
  <2> QED BY <2>3, <2>4
<1> QED BY <1>4, <1>5 DEF LastMoveLeads, m

LEMMA StepViewInv == TypeOK /\ WellFormed /\ ViewInv /\ [Next]_vars => ViewInv'
<1> SUFFICES ASSUME TypeOK, WellFormed, ViewInv, [Next]_vars PROVE ViewInv'
  OBVIOUS
<1>1. /\ down \in Seq(Message) /\ LastMoveLeads
      /\ todo \in Seq([id: Requests, dest: Int \X Int])
  BY DEF TypeOK, Message, ViewInv, WellFormed
<1>2. 0 \in 0..MaxWalks /\ Requests \subseteq 0..MaxWalks
  <2>1. 0 \in 0..MaxWalks /\ 1..MaxWalks \subseteq 0..MaxWalks
    BY BoundsAssumption, SMT
  <2> QED BY <2>1 DEF Requests
<1>3. todo # <<>> => todo[1].id \in 0..MaxWalks
  <2> SUFFICES ASSUME todo # <<>> PROVE todo[1].id \in 0..MaxWalks
    OBVIOUS
  <2> DEFINE Walk == [id: Requests, dest: Int \X Int]
  <2>1. 1 \in 1..Len(todo)
    BY <1>1, LenProperties, EmptySeq, SMT
  <2>2. todo[1] \in Walk
    BY <1>1, <2>1, ElementOfSeq
  <2>3. todo[1].id \in Requests
    BY ONLY <2>2
  <2> QED BY <1>2, <2>3
<1>4. ASSUME NEW id \in 0..MaxWalks
      PROVE  Snap(id) \in Message /\ Snap(id).kind # "move"
  BY DEF Snap, Message
<1>5. ASSUME NEW id \in 0..MaxWalks, NEW to \in Fields
      PROVE  Moved(id, to) \in Message /\ Moved(id, to).to = to /\ Moved(id, to).kind = "move"
  BY DEF Moved, Message
<1>6. CASE UNCHANGED <<down, mirror, pos>> /\ ~(wpc' \in {"drain", "drainAgain"} /\ wpc' # wpc)
           /\ UNCHANGED shown
  BY <1>6 DEF ViewInv, LastMoveLeads
<1>7. CASE DrainEnds \/ PublishWorldEvents
  <2>1. UNCHANGED <<down, mirror, pos>>
    BY <1>7 DEF DrainEnds, PublishWorldEvents, server
  <2>2. LastMoveLeads'
    BY <1>1, <2>1 DEF LastMoveLeads
  <2>3. shown' = mirror'
    BY <1>7 DEF DrainEnds, Draining, PublishWorldEvents, ViewInv
  <2> QED BY <2>2, <2>3 DEF ViewInv
<1>8. CASE ReadMove \/ ReadSnapback
  <2>1. /\ down # <<>> /\ down' = Tail(down) /\ pos' = pos /\ wpc' = "read"
        /\ IF Head(down).kind = "move" THEN mirror' = Head(down).to ELSE mirror' = mirror
    BY <1>8 DEF ReadMove, ReadSnapback, server
  <2> QED BY <1>1, <2>1, ReadingKeepsLead DEF ViewInv
\* The server answers, and moves the player to where the answer says.
<1>9. ASSUME NEW msg \in Message, down' = Append(down, msg), UNCHANGED client,
             IF msg.kind = "move" THEN pos' = msg.to ELSE pos' = pos
      PROVE  ViewInv'
  <2>1. mirror' = mirror /\ shown' = shown /\ wpc' = wpc
    BY <1>9 DEF client
  <2>2. LastMoveLeads'
    BY <1>1, <1>9, <2>1, AnswerKeepsLead
  <2> QED BY <2>1, <2>2 DEF ViewInv
<1>10. CASE CGoDirection
  BY <1>3, <1>4, <1>6, <1>9, <1>10 DEF CGoDirection, Answer, client
<1>11. CASE GoMoves
  BY <1>3, <1>5, <1>9, <1>11 DEF GoMoves, Answer
<1>12. CASE GoRefused
  BY <1>3, <1>4, <1>9, <1>12 DEF GoRefused, Answer
<1>13. CASE StraySnapback
  BY <1>2, <1>4, <1>9, <1>13 DEF StraySnapback, Answer
<1>14. CASE \E f \in Fields : Displaced(f)
  BY <1>2, <1>5, <1>9, <1>14 DEF Displaced, Answer
<1>15. CASE \E f \in Fields : GoAstray(f)
  BY <1>3, <1>5, <1>9, <1>15 DEF GoAstray, Answer
<1>16. CASE (\E s \in Steps : RequestWalk(s)) \/ SendWalk \/ PassEnds \/ RequestAges
            \/ GoOutOfReach \/ UNCHANGED vars
  BY <1>6, <1>16 DEF RequestWalk, SendWalk, PassEnds, RequestAges, GoOutOfReach,
                     vars, client, server
<1> QED BY <1>7, <1>8, <1>10, <1>11, <1>12, <1>13, <1>14, <1>15, <1>16, NextCases

\* Whenever nothing is in flight and a pass is over, the player is drawn where
\* the server has them: PublishWorldEvents leaves no gap behind.
THEOREM PictureFollows == Spec => []ViewCatchesUp
<1>1. Init => ViewInv
  <2> SUFFICES ASSUME Init PROVE ViewInv
    OBVIOUS
  <2>1. 1..Len(<<>>) = {}
    BY EmptySeq, SMT
  <2> QED BY <2>1 DEF Init, ViewInv, LastMoveLeads
<1>2. WalkInv => TypeOK /\ WellFormed
  BY DEF WalkInv
<1>3. ViewInv => ViewCatchesUp
  <2>1. 1..Len(<<>>) = {}
    BY EmptySeq, SMT
  <2> QED BY <2>1 DEF ViewInv, LastMoveLeads, ViewCatchesUp
<1> QED BY <1>1, <1>2, <1>3, StepViewInv, WalkInvariant, PTL DEF Spec

-----------------------------------------------------------------------------
(* A session without disturbances and without batched reads: every walk that *)
(* is outstanding is under way, in order, and its answer will be true.       *)

Quiet == troubles = 0 /\ ~batched

\* Walks read from the connection and not yet compared with the view.
Unread == IF shown = mirror THEN 0 ELSE 1

\* What is settled: every number before the outstanding ones.
Settled == ledger.requested - Len(ledger.pending)

Verdicts == {"open", "moved", "refused", "silent", "astray"}
Errand == [id: Requests, dest: Int \X Int]

\* Outstanding walks p, answers d, to-do list t and commands u.
Queues(p, n, o, d, t, u) ==
    /\ p \in Seq(Request) /\ n \in Nat /\ o \in {0, 1}
    /\ d \in Seq(Message) /\ t \in Seq(Errand) /\ u \in Seq(Requests \X Steps)

\* The first n walks are settled; the outstanding ones are consecutive and
\* none is late: o are read, and then come those of the answers, of the to-do
\* list and of the commands.
Lined(p, n, o, d, t, u) ==
    /\ Len(p) = o + Len(d) + Len(t) + Len(u)
    /\ \A i \in 1..Len(p) : p[i].id = n + i /\ ~p[i].late
    /\ \A i \in 1..Len(d) : d[i].id = n + o + i
    /\ \A i \in 1..Len(t) : t[i].id = n + o + Len(d) + i
    /\ \A i \in 1..Len(u) : /\ u[i][1] = n + o + Len(d) + Len(t) + i
                            /\ u[i][2] = p[o + Len(d) + Len(t) + i].step

\* A walk on the to-do list leads where its step leads from the player's field.
Aimed(p, o, d, t, from) ==
    \A i \in 1..Len(t) : t[i].dest = Apply(from, p[o + Len(d) + i].step)

\* at[i] is where the player stood when the i-th answer was given: each move
\* among them is the step that was asked for.
Leads(at, p, o, d, from, to) ==
    /\ at \in [0..Len(d) -> Fields] /\ at[0] = from /\ at[Len(d)] = to
    /\ \A i \in 1..Len(d) :
          \/ d[i].kind = "move" /\ d[i].to = at[i] /\ at[i] = Apply(at[i - 1], p[o + i].step)
          \/ d[i].kind = "snapback" /\ at[i] = at[i - 1]

\* What an answer says is what the server ruled.
Honest(d, rulings) ==
    \A i \in 1..Len(d) :
        rulings[d[i].id] = IF d[i].kind = "move" THEN "moved" ELSE "refused"

\* A move that was read and is not yet shown is the oldest walk's step.
ReadOnly ==
    Unread = 1 => /\ mirror = Apply(shown, ledger.pending[1].step)
                  /\ truth[Settled + 1] = "moved"
                  /\ wpc = "publish" \/ (wpc = "read" /\ read # 0)

TrueReport(r, rulings) ==
    \/ r.kind = "WalkAccepted" /\ rulings[r.id] = "moved"
    \/ r.kind = "WalkRejected" /\ rulings[r.cause] = "refused" /\ r.id = r.cause

\* Reports are true, and name walks that are settled.
TrueSoFar ==
    \A i \in 1..Len(reports) : /\ TrueReport(reports[i], truth)
                               /\ reports[i].id \in 1..Settled

Steady ==
    /\ Lined(ledger.pending, Settled, Unread, down, todo, up)
    /\ Aimed(ledger.pending, Unread, down, todo, pos)
    /\ \E at : Leads(at, ledger.pending, Unread, down, mirror, pos)
    /\ Honest(down, truth)
    /\ ReadOnly
    /\ TrueSoFar

QuietInv == Quiet => Steady

-----------------------------------------------------------------------------
(* The queues when a walk moves from one to the next.                       *)

\* A walk is sent: it is outstanding, and its command is under way.
Sending(p, n, u, q, w) ==
    \E r \in Request : /\ r.id = n + Len(p) + 1 /\ r.late = FALSE
                       /\ q = Append(p, r) /\ w = Append(u, <<r.id, r.step>>)

LEMMA LinedSend ==
    ASSUME NEW p, NEW n, NEW o, NEW d, NEW t, NEW u, Queues(p, n, o, d, t, u),
           Lined(p, n, o, d, t, u), NEW q, NEW w, Sending(p, n, u, q, w)
    PROVE  Lined(q, n, o, d, t, w) /\ \A i \in 1..Len(p) : q[i] = p[i]
<1>10. PICK r \in Request : /\ r.id = n + Len(p) + 1 /\ r.late = FALSE
                           /\ q = Append(p, r) /\ w = Append(u, <<r.id, r.step>>)
  BY DEF Sending
<1> DEFINE a == Len(p)
           b == Len(d)
           c == Len(t)
           e == Len(u)
<1>1. /\ a \in Nat /\ b \in Nat /\ c \in Nat /\ e \in Nat /\ n \in Nat /\ o \in {0, 1}
      /\ a = o + b + c + e
  BY LenProperties DEF Queues, Lined
<1>2. /\ Len(q) = a + 1 /\ q[a + 1] = r /\ \A i \in 1..a : q[i] = p[i]
  BY <1>10, AppendProperties DEF Queues
<1>3. /\ Len(w) = e + 1 /\ w[e + 1] = <<r.id, r.step>> /\ \A i \in 1..e : w[i] = u[i]
  <2>1. w = Append(u, <<r.id, r.step>>) /\ Len(u) \in Nat
    BY <1>1, <1>10
  <2> QED BY <2>1, AppendProperties DEF Queues
<1>4. /\ \A i \in 1..a : p[i].id = n + i /\ ~p[i].late
      /\ \A i \in 1..b : d[i].id = n + o + i
      /\ \A i \in 1..c : t[i].id = n + o + b + i
      /\ \A i \in 1..e : u[i][1] = n + o + b + c + i /\ u[i][2] = p[o + b + c + i].step
  BY DEF Lined
<1>5. r.id = n + a + 1 /\ r.late = FALSE
  BY <1>10
<1> HIDE DEF a, b, c, e
<1>6. Len(q) = o + b + c + Len(w)
  BY <1>1, <1>2, <1>3
<1>7. ASSUME NEW i \in 1..Len(q) PROVE q[i].id = n + i /\ ~q[i].late
  <2>1. CASE i = a + 1
    <3>1. n + a + 1 = n + i
      BY <1>1, <2>1
    <3> QED BY <1>2, <1>5, <2>1, <3>1
  <2>2. CASE i \in 1..a
    BY <1>2, <1>4, <2>2
  <2> QED BY <1>1, <1>2, <2>1, <2>2
<1>8. ASSUME NEW i \in 1..Len(w)
      PROVE  w[i][1] = n + o + b + c + i /\ w[i][2] = q[o + b + c + i].step
  <2>1. CASE i = e + 1
    <3>1. o + b + c + i = a + 1 /\ n + o + b + c + i = n + a + 1
      BY <1>1, <2>1
    <3> QED BY <1>2, <1>3, <1>5, <2>1, <3>1
  <2>2. CASE i \in 1..e
    <3>1. o + b + c + i \in 1..a
      BY <1>1, <2>2
    <3> QED BY <1>2, <1>3, <1>4, <2>2, <3>1
  <2>3. Len(w) = e + 1
    BY <1>3
  <2>4. i = e + 1 \/ i \in 1..e
    BY <1>1, <2>3
  <2> QED BY <2>1, <2>2, <2>4
<1> QED BY <1>2, <1>4, <1>6, <1>7, <1>8 DEF Lined, a, b, c

\* An answer is read.
LEMMA LinedRead ==
    ASSUME NEW p, NEW n, NEW d, NEW t, NEW u, Queues(p, n, 0, d, t, u),
           Lined(p, n, 0, d, t, u), d # <<>>
    PROVE  /\ Lined(p, n, 1, Tail(d), t, u)
           /\ Head(d) = d[1] /\ 1 \in 1..Len(d) /\ p # <<>>
           /\ p[1].id = n + 1 /\ d[1].id = n + 1
<1> DEFINE a == Len(p)
           b == Len(d)
           c == Len(t)
           e == Len(u)
           f == Tail(d)
<1>1. /\ a \in Nat /\ b \in Nat /\ c \in Nat /\ e \in Nat /\ n \in Nat
      /\ a = 0 + b + c + e
  BY LenProperties DEF Queues, Lined
<1>2. /\ f \in Seq(Message) /\ Len(f) = b - 1 /\ \A i \in 1..Len(f) : f[i] = d[i + 1]
      /\ Head(d) = d[1] /\ b # 0
  BY HeadTailProperties, EmptySeq, LenProperties DEF Queues
<1>3. /\ \A i \in 1..a : p[i].id = n + i /\ ~p[i].late
      /\ \A i \in 1..b : d[i].id = n + 0 + i
      /\ \A i \in 1..c : t[i].id = n + 0 + b + i
      /\ \A i \in 1..e : u[i][1] = n + 0 + b + c + i /\ u[i][2] = p[0 + b + c + i].step
  BY DEF Lined
<1>4. Len(<<>>) = 0
  BY EmptySeq
<1> HIDE DEF a, b, c, e, f
<1>5. 1 \in 1..b /\ 1 \in 1..a /\ n + 0 + 1 = n + 1
  BY <1>1, <1>2
<1>6. a = 1 + Len(f) + c + e
  BY <1>1, <1>2
<1>7. ASSUME NEW i \in 1..Len(f) PROVE f[i].id = n + 1 + i
  <2>1. i + 1 \in 1..b /\ n + 0 + (i + 1) = n + 1 + i
    BY <1>1, <1>2
  <2> QED BY <1>2, <1>3, <2>1
<1>8. ASSUME NEW i \in 1..c PROVE t[i].id = n + 1 + Len(f) + i
  <2>1. n + 0 + b + i = n + 1 + Len(f) + i
    BY <1>1, <1>2
  <2> QED BY <1>3, <2>1
<1>9. ASSUME NEW i \in 1..e
      PROVE  u[i][1] = n + 1 + Len(f) + c + i /\ u[i][2] = p[1 + Len(f) + c + i].step
  <2>1. n + 0 + b + c + i = n + 1 + Len(f) + c + i /\ 0 + b + c + i = 1 + Len(f) + c + i
    BY <1>1, <1>2
  <2> QED BY <1>3, <2>1
<1>10. p # <<>>
  BY <1>1, <1>4, <1>5 DEF a
<1>11. Lined(p, n, 1, f, t, u)
  BY <1>3, <1>6, <1>7, <1>8, <1>9 DEF Lined, a, c, e
<1> QED BY <1>2, <1>3, <1>5, <1>10, <1>11 DEF a, b, f

\* The oldest walk, whose answer was read, is settled.
LEMMA LinedSettle ==
    ASSUME NEW p, NEW n, NEW d, NEW t, NEW u, Queues(p, n, 1, d, t, u),
           Lined(p, n, 1, d, t, u)
    PROVE  /\ Lined(Tail(p), n + 1, 0, d, t, u)
           /\ p # <<>> /\ Head(p) = p[1] /\ p[1].id = n + 1
           /\ Len(Tail(p)) = Len(p) - 1
<1> DEFINE a == Len(p)
           b == Len(d)
           c == Len(t)
           e == Len(u)
           q == Tail(p)
<1>1. /\ a \in Nat /\ b \in Nat /\ c \in Nat /\ e \in Nat /\ n \in Nat
      /\ a = 1 + b + c + e
  BY LenProperties DEF Queues, Lined
<1>2. p # <<>>
  BY <1>1, EmptySeq
<1>3. /\ Len(q) = a - 1 /\ \A i \in 1..Len(q) : q[i] = p[i + 1]
      /\ Head(p) = p[1]
  BY <1>2, HeadTailProperties DEF Queues
<1>4. /\ \A i \in 1..a : p[i].id = n + i /\ ~p[i].late
      /\ \A i \in 1..b : d[i].id = n + 1 + i
      /\ \A i \in 1..c : t[i].id = n + 1 + b + i
      /\ \A i \in 1..e : u[i][1] = n + 1 + b + c + i /\ u[i][2] = p[1 + b + c + i].step
  BY DEF Lined
<1> HIDE DEF a, b, c, e, q
<1>5. 1 \in 1..a
  BY <1>1
<1>6. Len(q) = 0 + b + c + e
  BY <1>1, <1>3
<1>7. ASSUME NEW i \in 1..Len(q) PROVE q[i].id = (n + 1) + i /\ ~q[i].late
  <2>1. i + 1 \in 1..a /\ n + (i + 1) = (n + 1) + i
    <3>1. Len(q) = a - 1
      BY <1>3
    <3> QED BY <1>1, <3>1
  <2> QED BY <1>3, <1>4, <2>1
<1>8. ASSUME NEW i \in 1..b PROVE d[i].id = (n + 1) + 0 + i
  BY <1>1, <1>4
<1>9. ASSUME NEW i \in 1..c PROVE t[i].id = (n + 1) + 0 + b + i
  BY <1>1, <1>4
<1>10. ASSUME NEW i \in 1..e
       PROVE  u[i][1] = (n + 1) + 0 + b + c + i /\ u[i][2] = q[0 + b + c + i].step
  <2>1. /\ 0 + b + c + i \in 1..Len(q) /\ (0 + b + c + i) + 1 = 1 + b + c + i
        /\ (n + 1) + 0 + b + c + i = n + 1 + b + c + i
    BY <1>1, <1>3
  <2> QED BY <1>3, <1>4, <2>1
<1>11. Lined(q, n + 1, 0, d, t, u)
  BY <1>6, <1>7, <1>8, <1>9, <1>10 DEF Lined, b, c, e
<1> QED BY <1>2, <1>3, <1>4, <1>5, <1>11 DEF a, q

\* The walk on the to-do list is answered.
LEMMA LinedAnswer ==
    ASSUME NEW p, NEW n, NEW o, NEW d, NEW t, NEW u, Queues(p, n, o, d, t, u),
           Lined(p, n, o, d, t, u), Len(t) = 1,
           NEW msg \in Message, msg.id = t[1].id
    PROVE  /\ Lined(p, n, o, Append(d, msg), <<>>, u)
           /\ t[1].id = n + o + Len(d) + 1 /\ o + Len(d) + 1 \in 1..Len(p)
<1> DEFINE a == Len(p)
           b == Len(d)
           c == Len(t)
           e == Len(u)
           f == Append(d, msg)
<1>1. /\ a \in Nat /\ b \in Nat /\ e \in Nat /\ n \in Nat /\ o \in {0, 1}
      /\ a = o + b + c + e /\ c = 1
  BY LenProperties DEF Queues, Lined
<1>2. Len(f) = b + 1 /\ f[b + 1] = msg /\ \A i \in 1..b : f[i] = d[i]
  BY AppendProperties DEF Queues
<1>3. /\ \A i \in 1..a : p[i].id = n + i /\ ~p[i].late
      /\ \A i \in 1..b : d[i].id = n + o + i
      /\ t[1].id = n + o + b + 1
      /\ \A i \in 1..e : u[i][1] = n + o + b + c + i /\ u[i][2] = p[o + b + c + i].step
  BY <1>1 DEF Lined
<1>4. Len(<<>>) = 0 /\ 1..0 = {}
  BY EmptySeq
<1> HIDE DEF a, b, c, e, f
<1>5. a = o + Len(f) + 0 + e /\ o + b + 1 \in 1..a
  BY <1>1, <1>2
<1>6. ASSUME NEW i \in 1..Len(f) PROVE f[i].id = n + o + i
  <2>1. CASE i = b + 1
    <3>1. n + o + b + 1 = n + o + i
      BY <1>1, <2>1
    <3> QED BY <1>2, <1>3, <2>1, <3>1
  <2>2. CASE i \in 1..b
    BY <1>2, <1>3, <2>2
  <2> QED BY <1>1, <1>2, <2>1, <2>2
<1>7. ASSUME NEW i \in 1..e
      PROVE  u[i][1] = n + o + Len(f) + 0 + i /\ u[i][2] = p[o + Len(f) + 0 + i].step
  <2>1. /\ n + o + b + c + i = n + o + Len(f) + 0 + i
        /\ o + b + c + i = o + Len(f) + 0 + i
    <3>1. Len(f) = b + 1
      BY <1>2
    <3> QED BY <1>1, <3>1
  <2> QED BY <1>3, <2>1
<1>8. Lined(p, n, o, f, <<>>, u)
  BY <1>3, <1>4, <1>5, <1>6, <1>7 DEF Lined, a, e
<1> QED BY <1>3, <1>5, <1>8 DEF a, b, f

\* A command becomes the walk on the to-do list.
LEMMA LinedTaken ==
    ASSUME NEW p, NEW n, NEW o, NEW d, NEW u, Queues(p, n, o, d, <<>>, u),
           Lined(p, n, o, d, <<>>, u), u # <<>>,
           NEW x \in Errand, x.id = Head(u)[1]
    PROVE  /\ Lined(p, n, o, d, <<x>>, Tail(u))
           /\ Head(u)[2] = p[o + Len(d) + 1].step
<1> DEFINE a == Len(p)
           b == Len(d)
           e == Len(u)
           w == Tail(u)
           t == <<x>>
<1>1. Len(<<>>) = 0 /\ Len(t) = 1 /\ t[1] = x
  BY EmptySeq
<1>2. /\ a \in Nat /\ b \in Nat /\ e \in Nat /\ n \in Nat /\ o \in {0, 1}
      /\ a = o + b + 0 + e
  BY <1>1, LenProperties DEF Queues, Lined
<1>3. /\ Len(w) = e - 1 /\ \A i \in 1..Len(w) : w[i] = u[i + 1]
      /\ Head(u) = u[1] /\ e # 0
  BY HeadTailProperties, EmptySeq, LenProperties DEF Queues
<1>4. /\ \A i \in 1..a : p[i].id = n + i /\ ~p[i].late
      /\ \A i \in 1..b : d[i].id = n + o + i
      /\ \A i \in 1..e : u[i][1] = n + o + b + 0 + i /\ u[i][2] = p[o + b + 0 + i].step
  BY <1>1 DEF Lined
<1> HIDE DEF a, b, e, w, t
<1>5. /\ 1 \in 1..e /\ n + o + b + 0 + 1 = n + o + b + 1 /\ o + b + 0 + 1 = o + b + 1
      /\ a = o + b + 1 + Len(w)
  BY <1>2, <1>3
<1>6. u[1][1] = n + o + b + 1 /\ u[1][2] = p[o + b + 1].step
  BY <1>4, <1>5
<1>7. ASSUME NEW i \in 1..Len(t) PROVE t[i].id = n + o + b + i
  <2>1. i = 1
    BY <1>1
  <2> QED BY <1>1, <1>3, <1>6, <2>1
<1>8. ASSUME NEW i \in 1..Len(w)
      PROVE  w[i][1] = n + o + b + 1 + i /\ w[i][2] = p[o + b + 1 + i].step
  <2>1. /\ i + 1 \in 1..e
        /\ n + o + b + 0 + (i + 1) = n + o + b + 1 + i /\ o + b + 0 + (i + 1) = o + b + 1 + i
    <3>1. Len(w) = e - 1
      BY <1>3
    <3> QED BY <1>2, <3>1
  <2> QED BY <1>3, <1>4, <2>1
<1>9. Lined(p, n, o, d, t, w)
  BY <1>1, <1>4, <1>5, <1>7, <1>8 DEF Lined, a, b
<1> QED BY <1>3, <1>6, <1>9 DEF b, t, w

-----------------------------------------------------------------------------
(* Where the answers lead.                                                  *)

\* A walk that is sent changes nothing of the answers under way.
LEMMA LeadsSend ==
    ASSUME NEW at, NEW p, NEW o \in {0, 1}, NEW d, NEW from, NEW to,
           Leads(at, p, o, d, from, to),
           NEW q, \A i \in 1..Len(p) : q[i] = p[i],
           Len(d) \in Nat, Len(p) \in Nat, o + Len(d) <= Len(p)
    PROVE  Leads(at, q, o, d, from, to)
<1> DEFINE a == Len(p)
           b == Len(d)
<1>1. a \in Nat /\ b \in Nat /\ o + b <= a /\ \A i \in 1..a : q[i] = p[i]
  OBVIOUS
<1>2. /\ at \in [0..b -> Fields] /\ at[0] = from /\ at[b] = to
      /\ \A i \in 1..b :
          \/ d[i].kind = "move" /\ d[i].to = at[i] /\ at[i] = Apply(at[i - 1], p[o + i].step)
          \/ d[i].kind = "snapback" /\ at[i] = at[i - 1]
  BY DEF Leads
<1> HIDE DEF a, b
<1>3. ASSUME NEW i \in 1..b PROVE q[o + i] = p[o + i]
  <2>1. o + i \in 1..a
    BY <1>1
  <2> QED BY <1>1, <2>1
<1> QED BY <1>2, <1>3 DEF Leads, b

\* An answer is read: a move leads to the next field, a snapback nowhere.
LEMMA LeadsRead ==
    ASSUME NEW at, NEW p, NEW d \in Seq(Message), NEW from, NEW to,
           Leads(at, p, 0, d, from, to), d # <<>>
    PROVE  \E v : /\ Leads(v, p, 1, Tail(d), v[0], to) /\ v[0] \in Fields
                  /\ \/ /\ d[1].kind = "move" /\ d[1].to = v[0]
                        /\ v[0] = Apply(from, p[1].step)
                     \/ d[1].kind = "snapback" /\ v[0] = from
<1> DEFINE b == Len(d)
           f == Tail(d)
           c == Len(f)
           v == [i \in 0..c |-> at[i + 1]]
<1>1. /\ b \in Nat /\ b # 0
  BY LenProperties, EmptySeq
<1>2. c = b - 1 /\ \A i \in 1..c : f[i] = d[i + 1]
  BY HeadTailProperties
<1>3. /\ at \in [0..b -> Fields] /\ at[0] = from /\ at[b] = to
      /\ \A i \in 1..b :
          \/ d[i].kind = "move" /\ d[i].to = at[i] /\ at[i] = Apply(at[i - 1], p[0 + i].step)
          \/ d[i].kind = "snapback" /\ at[i] = at[i - 1]
  BY DEF Leads
<1> HIDE DEF b, c, f
<1>4. c \in Nat /\ c + 1 = b
  <2>1. c = b - 1
    BY <1>2
  <2> QED BY <1>1, <2>1
<1>5. v \in [0..c -> Fields]
  <2>1. \A i \in 0..c : i + 1 \in 0..b
    BY <1>1, <1>4
  <2> QED BY <1>3, <2>1
<1>6. v[0] = at[1] /\ v[c] = at[b] /\ \A i \in 1..c : v[i] = at[i + 1] /\ v[i - 1] = at[i]
  <2>1. 0 \in 0..c /\ c \in 0..c /\ 0 + 1 = 1
    BY <1>4
  <2>2. ASSUME NEW i \in 1..c PROVE i \in 0..c /\ i - 1 \in 0..c /\ (i - 1) + 1 = i
    BY <1>4
  <2> QED BY <1>4, <2>1, <2>2
<1> HIDE DEF v
<1>7. 1 \in 1..b /\ 1 - 1 = 0 /\ 0 + 1 = 1
  BY <1>1
<1>8. \/ d[1].kind = "move" /\ d[1].to = v[0] /\ v[0] = Apply(from, p[1].step)
      \/ d[1].kind = "snapback" /\ v[0] = from
  BY <1>3, <1>6, <1>7
<1>9. ASSUME NEW i \in 1..c
      PROVE  \/ f[i].kind = "move" /\ f[i].to = v[i] /\ v[i] = Apply(v[i - 1], p[1 + i].step)
             \/ f[i].kind = "snapback" /\ v[i] = v[i - 1]
  <2>1. i + 1 \in 1..b /\ (i + 1) - 1 = i /\ 0 + (i + 1) = 1 + i
    BY <1>4
  <2> QED BY <1>2, <1>3, <1>6, <2>1
<1>10. Leads(v, p, 1, f, v[0], to)
  BY <1>3, <1>5, <1>6, <1>9 DEF Leads, c
<1>11. v[0] \in Fields
  BY <1>4, <1>5
<1> QED BY <1>8, <1>10, <1>11 DEF f

\* The oldest walk leaves the outstanding ones.
LEMMA LeadsSettle ==
    ASSUME NEW at, NEW p \in Seq(Request), NEW d, NEW from, NEW to,
           Leads(at, p, 1, d, from, to), Len(d) \in Nat, 1 + Len(d) <= Len(p)
    PROVE  Leads(at, Tail(p), 0, d, from, to)
<1> DEFINE a == Len(p)
           b == Len(d)
           q == Tail(p)
<1>1. a \in Nat /\ b \in Nat /\ 1 + b <= a
  BY LenProperties
<1>2. p # <<>>
  BY <1>1, EmptySeq
<1>3. Len(q) = a - 1 /\ \A i \in 1..Len(q) : q[i] = p[i + 1]
  BY <1>2, HeadTailProperties
<1>4. /\ at \in [0..b -> Fields] /\ at[0] = from /\ at[b] = to
      /\ \A i \in 1..b :
          \/ d[i].kind = "move" /\ d[i].to = at[i] /\ at[i] = Apply(at[i - 1], p[1 + i].step)
          \/ d[i].kind = "snapback" /\ at[i] = at[i - 1]
  BY DEF Leads
<1> HIDE DEF a, b, q
<1>5. ASSUME NEW i \in 1..b PROVE q[0 + i] = p[1 + i]
  <2>1. Len(q) = a - 1
    BY <1>3
  <2>2. i \in 1..Len(q) /\ i + 1 = 1 + i /\ 0 + i = i
    BY <1>1, <2>1
  <2> QED BY <1>3, <2>2
<1>6. Leads(at, q, 0, d, from, to)
  BY <1>4, <1>5 DEF Leads, b
<1> QED BY <1>6 DEF q

\* An answer is put behind the others.
LEMMA LeadsAnswer ==
    ASSUME NEW at, NEW p, NEW o, NEW d \in Seq(Message), NEW from, NEW to,
           Leads(at, p, o, d, from, to),
           NEW msg \in Message, NEW next \in Fields,
           \/ msg.kind = "move" /\ msg.to = next /\ next = Apply(to, p[o + Len(d) + 1].step)
           \/ msg.kind = "snapback" /\ next = to,
           o \in {0, 1}
    PROVE  \E v : Leads(v, p, o, Append(d, msg), from, next)
<1> DEFINE b == Len(d)
           f == Append(d, msg)
           v == [i \in 0..(b + 1) |-> IF i = b + 1 THEN next ELSE at[i]]
<1>1. b \in Nat
  BY LenProperties
<1>2. Len(f) = b + 1 /\ f[b + 1] = msg /\ \A i \in 1..b : f[i] = d[i]
  BY AppendProperties
<1>3. /\ at \in [0..b -> Fields] /\ at[0] = from /\ at[b] = to
      /\ \A i \in 1..b :
          \/ d[i].kind = "move" /\ d[i].to = at[i] /\ at[i] = Apply(at[i - 1], p[o + i].step)
          \/ d[i].kind = "snapback" /\ at[i] = at[i - 1]
  BY DEF Leads
<1>4. \/ msg.kind = "move" /\ msg.to = next /\ next = Apply(to, p[o + b + 1].step)
      \/ msg.kind = "snapback" /\ next = to
  OBVIOUS
<1> HIDE DEF b, f
<1>5. \A i \in 0..(b + 1) : i # b + 1 => i \in 0..b
  BY <1>1
<1>6. v \in [0..(b + 1) -> Fields]
  BY <1>3, <1>5
<1>7. v[b + 1] = next /\ \A i \in 0..b : v[i] = at[i]
  <2>1. b + 1 \in 0..(b + 1) /\ \A i \in 0..b : i \in 0..(b + 1) /\ i # b + 1
    BY <1>1
  <2> QED BY <2>1
<1> HIDE DEF v
<1>8. ASSUME NEW i \in 1..(b + 1)
      PROVE  \/ f[i].kind = "move" /\ f[i].to = v[i] /\ v[i] = Apply(v[i - 1], p[o + i].step)
             \/ f[i].kind = "snapback" /\ v[i] = v[i - 1]
  <2>1. CASE i = b + 1
    <3>1. i - 1 = b /\ b \in 0..b /\ o + i = o + b + 1
      BY <1>1, <2>1
    <3>2. v[i - 1] = to /\ v[i] = next /\ f[i] = msg
      BY <1>2, <1>3, <1>7, <2>1, <3>1
    <3> QED BY <1>4, <3>1, <3>2
  <2>2. CASE i \in 1..b
    <3>1. i \in 0..b /\ i - 1 \in 0..b
      BY <1>1, <2>2
    <3>2. v[i - 1] = at[i - 1] /\ v[i] = at[i] /\ f[i] = d[i]
      BY <1>2, <1>7, <2>2, <3>1
    <3> QED BY <1>3, <2>2, <3>2
  <2>3. i = b + 1 \/ i \in 1..b
    BY <1>1
  <2> QED BY <2>1, <2>2, <2>3
<1>9. v[0] = from /\ v[Len(f)] = next
  <2>1. 0 \in 0..b
    BY <1>1
  <2> QED BY <1>2, <1>3, <1>7, <2>1
<1>10. Leads(v, p, o, f, from, next)
  BY <1>2, <1>6, <1>8, <1>9 DEF Leads
<1> QED BY <1>10 DEF f

\* What is ruled about the walk on the to-do list leaves the others' rulings.
LEMMA RulingStays ==
    ASSUME NEW id \in Requests, NEW how, truth \in [Requests -> Verdicts],
           Ruled(id, how)
    PROVE  truth'[id] = how /\ \A k : k # id => truth'[k] = truth[k]
<1>1. truth' = [truth EXCEPT ![id] = how]
  BY DEF Ruled
<1>2. DOMAIN truth = Requests
  OBVIOUS
<1> QED BY <1>1, <1>2

LEMMA HonestRead ==
    ASSUME NEW d \in Seq(Message), d # <<>>, NEW rulings, Honest(d, rulings)
    PROVE  /\ Honest(Tail(d), rulings)
           /\ rulings[d[1].id] = IF d[1].kind = "move" THEN "moved" ELSE "refused"
<1> DEFINE b == Len(d)
           f == Tail(d)
<1>1. b \in Nat /\ b # 0
  BY LenProperties, EmptySeq
<1>2. Len(f) = b - 1 /\ \A i \in 1..Len(f) : f[i] = d[i + 1]
  BY HeadTailProperties
<1>3. \A i \in 1..b : rulings[d[i].id] = IF d[i].kind = "move" THEN "moved" ELSE "refused"
  BY DEF Honest
<1> HIDE DEF b, f
<1>4. 1 \in 1..b
  BY <1>1
<1>5. ASSUME NEW i \in 1..Len(f) PROVE i + 1 \in 1..b
  <2>1. Len(f) = b - 1
    BY <1>2
  <2> QED BY <1>1, <2>1
<1>6. Honest(f, rulings)
  BY <1>2, <1>3, <1>5 DEF Honest
<1> QED BY <1>3, <1>4, <1>6 DEF f

LEMMA HonestAnswer ==
    ASSUME NEW p, NEW n, NEW o, NEW d, NEW t, NEW u, Queues(p, n, o, d, t, u),
           Lined(p, n, o, d, t, u), Len(t) = 1, Honest(d, truth),
           truth \in [Requests -> Verdicts],
           NEW msg \in Message, msg.id = t[1].id,
           Ruled(t[1].id, IF msg.kind = "move" THEN "moved" ELSE "refused"),
           t[1].id \in Requests
    PROVE  Honest(Append(d, msg), truth')
<1> DEFINE b == Len(d)
           f == Append(d, msg)
           id == t[1].id
<1>1. /\ b \in Nat /\ n \in Nat /\ o \in {0, 1} /\ id = n + o + b + 1
      /\ \A i \in 1..b : d[i].id = n + o + i
  <2>1. id = n + o + b + 1
    BY LinedAnswer
  <2> QED BY <2>1, LenProperties DEF Queues, Lined
<1>2. Len(f) = b + 1 /\ f[b + 1] = msg /\ \A i \in 1..b : f[i] = d[i]
  BY AppendProperties DEF Queues
<1>3. /\ truth'[id] = (IF msg.kind = "move" THEN "moved" ELSE "refused")
      /\ \A k : k # id => truth'[k] = truth[k]
  BY RulingStays
<1>4. \A i \in 1..b : truth[d[i].id] = IF d[i].kind = "move" THEN "moved" ELSE "refused"
  BY DEF Honest
<1>5. msg.id = id
  OBVIOUS
<1> HIDE DEF b, f, id
<1>6. ASSUME NEW i \in 1..(b + 1)
      PROVE  truth'[f[i].id] = IF f[i].kind = "move" THEN "moved" ELSE "refused"
  <2>1. CASE i = b + 1
    BY <1>2, <1>3, <1>5, <2>1
  <2>2. CASE i \in 1..b
    <3>1. n + o + i # n + o + b + 1
      BY <1>1, <2>2
    <3>2. d[i].id # id
      BY <1>1, <2>2, <3>1
    <3> QED BY <1>2, <1>3, <1>4, <2>2, <3>2
  <2>3. i = b + 1 \/ i \in 1..b
    BY <1>1
  <2> QED BY <2>1, <2>2, <2>3
<1> QED BY <1>2, <1>6 DEF Honest, f

-----------------------------------------------------------------------------
(* Every step of a quiet session.                                           *)

Kept(p, n, o, d, t, u, from, to, rulings) ==
    /\ Lined(p, n, o, d, t, u) /\ Aimed(p, o, d, t, to)
    /\ \E at : Leads(at, p, o, d, from, to)
    /\ Honest(d, rulings)

LEMMA SteadyLater ==
    /\ Steady <=> /\ Kept(ledger.pending, Settled, Unread, down, todo, up, mirror, pos, truth)
                  /\ ReadOnly /\ TrueSoFar
    /\ Steady' <=> /\ Kept(ledger'.pending, Settled', Unread', down', todo', up', mirror',
                           pos', truth')
                   /\ ReadOnly' /\ TrueSoFar'
<1>1. Message' = Message /\ Requests' = Requests
  BY DEF Message, Requests
<1> QED BY <1>1 DEF Steady, Kept, Lined, Aimed, Leads, Honest, Apply

\* What the types say of the queues.
LEMMA QuietFacts ==
    ASSUME WalkInv
    PROVE  /\ Queues(ledger.pending, Settled, Unread, down, todo, up)
           /\ ledger \in Ledger /\ ledger.requested \in Nat /\ Settled \in Nat
           /\ Len(ledger.pending) \in Nat /\ Len(down) \in Nat
           /\ Settled + Len(ledger.pending) = ledger.requested
           /\ ledger.requested \in 0..MaxWalks
           /\ Len(todo) \in {0, 1} /\ (todo # <<>> <=> Len(todo) = 1)
           /\ truth \in [Requests -> Verdicts]
           /\ pos \in Fields /\ mirror \in Fields /\ shown \in Fields
           /\ reports \in Seq(ReportRecord) /\ Len(reports) \in Nat
<1>1. TypeOK /\ WellFormed /\ Numbered /\ OrderInv /\ LedgerBalances
  BY DEF WalkInv
<1>2. /\ ledger \in Ledger /\ up \in Seq(Requests \X Steps) /\ down \in Seq(Message)
      /\ reports \in Seq(ReportRecord) /\ truth \in [Requests -> Verdicts]
      /\ pos \in Fields /\ mirror \in Fields /\ shown \in Fields /\ Len(todo) <= 1
  BY <1>1 DEF TypeOK, Message, ReportRecord, Verdicts
<1>3. todo \in Seq(Errand)
  BY <1>1 DEF WellFormed, Errand
<1>4. /\ ledger.pending \in Seq(Request) /\ Len(ledger.pending) \in Nat
      /\ ledger.requested \in Nat /\ ledger.accepted \in Nat /\ ledger.unanswered \in Nat
  BY <1>2, PendingLength
<1>5. Len(ledger.pending) <= ledger.requested
  <2>1. ledger.accepted + ledger.unanswered + Len(ledger.pending) <= ledger.requested
    BY <1>1 DEF LedgerBalances
  <2> QED BY <1>4, <2>1
<1>6. Settled \in Nat /\ Settled + Len(ledger.pending) = ledger.requested
  BY <1>4, <1>5 DEF Settled
<1>7. Len(todo) \in {0, 1} /\ (todo # <<>> <=> Len(todo) = 1)
  <2> DEFINE k == Len(todo)
  <2>1. k \in Nat /\ (todo = <<>> <=> k = 0)
    BY <1>3, LenProperties, EmptySeq
  <2>2. k <= 1
    BY <1>2
  <2> HIDE DEF k
  <2>3. k \in {0, 1}
    BY <2>1, <2>2
  <2>4. todo # <<>> <=> k = 1
    BY <2>1, <2>3
  <2> QED BY <2>3, <2>4 DEF k
<1>8. Unread \in {0, 1}
  BY DEF Unread
<1>9. Queues(ledger.pending, Settled, Unread, down, todo, up)
  BY <1>2, <1>3, <1>4, <1>6, <1>8 DEF Queues
<1>10. ledger.requested \in 0..MaxWalks
  BY <1>1, OldestFacts DEF OrderInv
<1>11. Len(down) \in Nat /\ Len(reports) \in Nat
  BY <1>2, LenProperties
<1> QED BY <1>2, <1>4, <1>6, <1>7, <1>9, <1>10, <1>11

\* A step is to another field, that can be reached.
LEMMA StepLeads ==
    ASSUME NEW from \in Fields, NEW step \in Steps
    PROVE  /\ Apply(from, step) # from
           /\ Apply(from, step)[1] - from[1] \in -1..1
           /\ Apply(from, step)[2] - from[2] \in -1..1
<1>1. from \in Int \X Int /\ step \in (-1..1) \X (-1..1) /\ step # <<0, 0>>
  BY FieldsAssumption, StepsAssumption
<1>2. /\ from[1] \in Int /\ from[2] \in Int /\ step[1] \in -1..1 /\ step[2] \in -1..1
      /\ step = <<step[1], step[2]>>
  BY <1>1
<1>3. step[1] # 0 \/ step[2] # 0
  BY <1>1, <1>2
<1>4. Apply(from, step)[1] = from[1] + step[1] /\ Apply(from, step)[2] = from[2] + step[2]
  BY DEF Apply
<1>5. from[1] + step[1] # from[1] \/ from[2] + step[2] # from[2]
  BY <1>2, <1>3
<1> QED BY <1>2, <1>4, <1>5

LEMMA StepsOfPending ==
    ASSUME WalkInv, NEW i \in 1..Len(ledger.pending)
    PROVE  ledger.pending[i].step \in Steps
<1>1. ledger.pending \in Seq(Request)
  BY QuietFacts DEF Queues
<1>2. ledger.pending[i] \in Request
  BY <1>1, ElementOfSeq
<1> QED BY <1>2 DEF Request

\* Steps that move nothing from one queue to the next.
LEMMA SteadyStays ==
    ASSUME Steady, ledger'.pending = ledger.pending, ledger'.requested = ledger.requested,
           UNCHANGED <<down, todo, up, mirror, shown, pos, truth, reports>>,
           Unread = 1 => wpc' = "publish" \/ (wpc' = "read" /\ read' # 0)
    PROVE  Steady'
<1>1. Settled' = Settled /\ Unread' = Unread
  BY DEF Settled, Unread
<1>2. ReadOnly'
  BY <1>1 DEF Steady, ReadOnly, Apply
<1>3. TrueSoFar'
  BY <1>1 DEF Steady, TrueSoFar, TrueReport
<1> QED BY <1>1, <1>2, <1>3, SteadyLater

\* What is said after a step that settles nothing and rules on nothing.
LEMMA SaidBefore ==
    ASSUME TrueSoFar, UNCHANGED <<reports, truth>>, Settled' = Settled
    PROVE  TrueSoFar'
  BY DEF TrueSoFar, TrueReport

LEMMA QuietDrainEnds ==
    ASSUME WalkInv, Steady, DrainEnds
    PROVE  Steady'
<1>1. ledger \in Ledger /\ ledger' = ExpireBefore(ledger) /\ Unread # 1
  <2>1. wpc \in {"drain", "drainAgain"}
    BY DEF DrainEnds, Draining
  <2> QED BY <2>1, QuietFacts DEF DrainEnds, Steady, ReadOnly
<1>2. Expired(ledger) = 0
  <2>1. ASSUME NEW k \in LateFront(ledger) PROVE FALSE
    <3>1. k \in 1..Len(ledger.pending) /\ \A i \in 1..k : ledger.pending[i].late
      BY DEF LateFront
    <3>2. 1 \in 1..k /\ 1 \in 1..Len(ledger.pending)
      BY <3>1, QuietFacts
    <3>3. ~ledger.pending[1].late
      BY <3>2 DEF Steady, Lined
    <3> QED BY <3>1, <3>2, <3>3
  <2>2. LateFront(ledger) = {}
    BY <2>1
  <2> QED BY <2>2, FS_EmptySet DEF Expired
<1>3. /\ ledger'.pending = SubSeq(ledger.pending, 0 + 1, Len(ledger.pending))
      /\ ledger'.unanswered = ledger.unanswered + 0
      /\ ledger'.requested = ledger.requested
  BY <1>1, <1>2 DEF ExpireBefore, Ledger
<1>4. ledger'.pending = ledger.pending
  <2>1. ledger.pending \in Seq(Request) /\ 0 + 1 = 1
    BY QuietFacts DEF Queues
  <2> QED BY <1>3, <2>1, SubSeqFull
<1>5. reports' = reports
  <2>1. ledger.unanswered \in Nat
    BY <1>1, PendingLength
  <2>2. ~(ledger'.unanswered > ledger.unanswered)
    BY <1>3, <2>1
  <2> QED BY <2>2 DEF DrainEnds
<1> QED BY <1>1, <1>3, <1>4, <1>5, SteadyStays DEF DrainEnds, server

LEMMA QuietSendWalk ==
    ASSUME WalkInv, Steady, SendWalk
    PROVE  Steady'
<1> DEFINE id == ledger.requested + 1
           step == Head(intents)[2]
           r == [id |-> id, step |-> step, late |-> FALSE]
<1>1. /\ ledger' = NoteRequestSent(ledger, step) /\ up' = Append(up, <<id, step>>)
      /\ UNCHANGED <<mirror, shown, wpc, read, down, reports, pos, todo, truth>>
      /\ intents # <<>>
  BY DEF SendWalk, server
<1>2. step \in Steps
  <2> DEFINE Posted == (1..MaxWalks) \X Steps
  <2>1. intents \in Seq(Posted)
    BY DEF WalkInv, TypeOK
  <2> HIDE DEF Posted
  <2>2. Head(intents) \in Posted
    BY <1>1, <2>1, HeadTailProperties
  <2> QED BY <2>2 DEF Posted
<1> HIDE DEF step
<1>3. r \in Request /\ r.id = id /\ r.step = step /\ r.late = FALSE
  <2>1. id \in Nat \ {0}
    BY QuietFacts
  <2> QED BY <1>2, <2>1 DEF Request
<1>4. ledger' = [ledger EXCEPT !.requested = id, !.pending = Append(ledger.pending, r)]
  BY <1>1 DEF NoteRequestSent
<1> HIDE DEF r
<1>5. ledger'.pending = Append(ledger.pending, r) /\ ledger'.requested = id
  <2> HIDE DEF id
  <2> QED BY <1>4, QuietFacts DEF Ledger
<1>6. Settled' = Settled /\ Unread' = Unread /\ id = Settled + Len(ledger.pending) + 1
  <2>1. Len(ledger'.pending) = Len(ledger.pending) + 1
    BY <1>3, <1>5, QuietFacts, AppendProperties DEF Queues
  <2>2. ledger.requested \in Nat /\ Len(ledger.pending) \in Nat
        /\ Settled + Len(ledger.pending) = ledger.requested /\ Settled \in Nat
    BY QuietFacts
  <2>3. Settled' = id - Len(ledger'.pending)
    BY <1>5 DEF Settled
  <2>4. Settled' = Settled
    BY <2>1, <2>2, <2>3
  <2> QED BY <1>1, <2>2, <2>4 DEF Unread
<1> HIDE DEF id
<1>7. /\ Lined(ledger'.pending, Settled, Unread, down, todo, up')
      /\ \A i \in 1..Len(ledger.pending) : ledger'.pending[i] = ledger.pending[i]
  <2>1. /\ Queues(ledger.pending, Settled, Unread, down, todo, up)
        /\ Lined(ledger.pending, Settled, Unread, down, todo, up)
    BY QuietFacts DEF Steady
  <2>2. /\ r \in Request /\ r.id = Settled + Len(ledger.pending) + 1 /\ r.late = FALSE
        /\ up' = Append(up, <<r.id, r.step>>)
    BY <1>1, <1>3, <1>6
  <2> DEFINE p == ledger.pending
             q == ledger'.pending
             n == Settled
             o == Unread
             w == up'
  <2>3. /\ Queues(p, n, o, down, todo, up) /\ Lined(p, n, o, down, todo, up)
        /\ Sending(p, n, up, q, w)
    BY <1>5, <2>1, <2>2 DEF Sending
  <2> HIDE DEF p, q, n, o, w
  <2>4. Lined(q, n, o, down, todo, w) /\ \A i \in 1..Len(p) : q[i] = p[i]
    BY ONLY <2>3, LinedSend
  <2> QED BY <2>4 DEF p, q, n, o, w
<1>8. /\ Len(ledger.pending) = Unread + Len(down) + Len(todo) + Len(up)
      /\ Len(down) \in Nat /\ Len(todo) \in Nat /\ Len(up) \in Nat /\ Unread \in {0, 1}
      /\ Len(ledger.pending) \in Nat
  BY QuietFacts, LenProperties DEF Steady, Lined, Queues
<1>9. Unread + Len(down) <= Len(ledger.pending)
      /\ \A i \in 1..Len(todo) : Unread + Len(down) + i \in 1..Len(ledger.pending)
      /\ (Unread = 1 => 1 \in 1..Len(ledger.pending))
  BY <1>8
<1>10. Aimed(ledger'.pending, Unread, down, todo, pos)
  BY <1>7, <1>9 DEF Steady, Aimed
<1>11. \E at : Leads(at, ledger'.pending, Unread, down, mirror, pos)
  <2>1. PICK at : Leads(at, ledger.pending, Unread, down, mirror, pos)
    BY DEF Steady
  <2>2. Leads(at, ledger'.pending, Unread, down, mirror, pos)
    BY <1>7, <1>8, <1>9, <2>1, LeadsSend
  <2> QED BY <2>2
<1>12. ReadOnly'
  BY <1>1, <1>6, <1>7, <1>9 DEF Steady, ReadOnly, Apply
<1>13. TrueSoFar'
  BY <1>1, <1>6, SaidBefore DEF Steady
<1> QED BY <1>1, <1>6, <1>7, <1>10, <1>11, <1>12, <1>13, SteadyLater DEF Steady, Kept

\* A pass of a quiet session reads one answer.
LEMMA ReadsOnce ==
    ASSUME WalkInv, Steady, ReadMove \/ ReadSnapback, ~batched'
    PROVE  /\ read = 0 /\ read' = 1 /\ shown = mirror /\ Unread = 0
           /\ Queues(ledger.pending, Settled, 0, down, todo, up)
           /\ Lined(ledger.pending, Settled, 0, down, todo, up)
           /\ Aimed(ledger.pending, 0, down, todo, pos)
           /\ (\E at : Leads(at, ledger.pending, 0, down, mirror, pos))
           /\ down # <<>> /\ down \in Seq(Message) /\ Head(down) = down[1]
           /\ down[1].kind = Head(down).kind
<1>1. /\ wpc = "read" /\ read' = read + 1 /\ batched' = (batched \/ read > 0)
      /\ down # <<>>
  BY DEF ReadMove, ReadSnapback
<1>2. read \in Nat /\ down \in Seq(Message)
  <2>1. read \in 0..PassLimit
    BY DEF WalkInv, TypeOK
  <2> QED BY <2>1, QuietFacts DEF Queues
<1>3. read = 0 /\ read' = 1
  <2>1. ~(read > 0)
    BY <1>1, Zenon
  <2> QED BY <1>1, <1>2, <2>1
<1>4. Unread = 0
  BY <1>1, <1>3 DEF Steady, ReadOnly, Unread
<1>5. shown = mirror
  BY <1>4 DEF Unread
<1>6. Head(down) = down[1]
  BY <1>1, <1>2, HeadTailProperties
<1> QED BY <1>1, <1>2, <1>3, <1>4, <1>5, <1>6, QuietFacts DEF Steady

\* The queues after an answer was read, and where it leads.
LEMMA AnswerRead ==
    ASSUME WalkInv, Steady, ReadMove \/ ReadSnapback, ~batched'
    PROVE  /\ Lined(ledger.pending, Settled, 1, Tail(down), todo, up)
           /\ Aimed(ledger.pending, 1, Tail(down), todo, pos)
           /\ Honest(Tail(down), truth)
           /\ ledger.pending # <<>> /\ ledger.pending[1].step \in Steps
           /\ ledger.pending[1].id = Settled + 1 /\ down[1].id = Settled + 1
           /\ truth[Settled + 1] = IF down[1].kind = "move" THEN "moved" ELSE "refused"
           /\ \E next \in Fields :
                 /\ \E v : Leads(v, ledger.pending, 1, Tail(down), next, pos)
                 /\ \/ /\ down[1].kind = "move" /\ down[1].to = next
                       /\ next = Apply(mirror, ledger.pending[1].step)
                    \/ down[1].kind = "snapback" /\ next = mirror
<1>1. /\ Lined(ledger.pending, Settled, 1, Tail(down), todo, up)
      /\ 1 \in 1..Len(down) /\ ledger.pending # <<>>
      /\ ledger.pending[1].id = Settled + 1 /\ down[1].id = Settled + 1
  BY ReadsOnce, LinedRead
<1>2. Aimed(ledger.pending, 1, Tail(down), todo, pos)
  <2>1. Len(Tail(down)) = Len(down) - 1 /\ Len(down) \in Nat
    BY ReadsOnce, HeadTailProperties, LenProperties
  <2>2. \A i \in 1..Len(todo) : 1 + Len(Tail(down)) + i = 0 + Len(down) + i
    BY <2>1
  <2>3. \A i \in 1..Len(todo) :
           todo[i].dest = Apply(pos, ledger.pending[0 + Len(down) + i].step)
    BY ReadsOnce DEF Aimed
  <2> QED BY <2>2, <2>3 DEF Aimed
<1>3. /\ Honest(Tail(down), truth)
      /\ truth[Settled + 1] = IF down[1].kind = "move" THEN "moved" ELSE "refused"
  <2>1. /\ Honest(Tail(down), truth)
        /\ truth[down[1].id] = IF down[1].kind = "move" THEN "moved" ELSE "refused"
    BY ReadsOnce, HonestRead DEF Steady
  <2> QED BY <1>1, <2>1
<1>4. ledger.pending[1].step \in Steps
  <2>1. 1 \in 1..Len(ledger.pending)
    <3>1. ledger.pending \in Seq(Request)
      BY QuietFacts DEF Queues
    <3>2. Len(ledger.pending) # 0
      BY <1>1, <3>1, EmptySeq
    <3> QED BY <3>2, QuietFacts
  <2> QED BY <2>1, StepsOfPending
<1>5. PICK at : Leads(at, ledger.pending, 0, down, mirror, pos)
  BY ReadsOnce
<1>6. PICK v : /\ Leads(v, ledger.pending, 1, Tail(down), v[0], pos) /\ v[0] \in Fields
               /\ \/ /\ down[1].kind = "move" /\ down[1].to = v[0]
                     /\ v[0] = Apply(mirror, ledger.pending[1].step)
                  \/ down[1].kind = "snapback" /\ v[0] = mirror
  BY <1>5, ReadsOnce, LeadsRead
<1> QED BY <1>1, <1>2, <1>3, <1>4, <1>6

LEMMA QuietReadMove ==
    ASSUME WalkInv, Steady, ReadMove, ~batched'
    PROVE  Steady'
<1>1. /\ wpc = "read" /\ wpc' = "read" /\ mirror' = down[1].to /\ down' = Tail(down)
      /\ down[1].kind = "move"
      /\ UNCHANGED <<ledger, shown, up, reports, pos, todo, truth>>
  BY ReadsOnce DEF ReadMove, server
<1>2. PICK next \in Fields :
           /\ \E v : Leads(v, ledger.pending, 1, Tail(down), next, pos)
           /\ down[1].to = next /\ next = Apply(mirror, ledger.pending[1].step)
  BY <1>1, AnswerRead
<1>3. mirror' = next /\ next # mirror
  BY <1>1, <1>2, AnswerRead, QuietFacts, StepLeads
<1>4. Settled' = Settled /\ Unread' = 1
  BY <1>1, <1>3, ReadsOnce DEF Settled, Unread
<1>5. Kept(ledger'.pending, Settled', Unread', down', todo', up', mirror', pos', truth')
  BY <1>1, <1>2, <1>3, <1>4, AnswerRead DEF Kept
<1>6. ReadOnly'
  <2>1. mirror' = Apply(shown', ledger'.pending[1].step) /\ truth'[Settled' + 1] = "moved"
    BY <1>1, <1>2, <1>3, <1>4, AnswerRead, ReadsOnce
  <2>2. wpc' = "read" /\ read' # 0
    BY <1>1, ReadsOnce
  <2> QED BY <2>1, <2>2 DEF ReadOnly, Apply
<1>7. TrueSoFar'
  BY <1>1, <1>4, SaidBefore DEF Steady
<1> QED BY <1>5, <1>6, <1>7, SteadyLater

\* The oldest walk is settled by a report that is true.
LEMMA SaidNow ==
    ASSUME TrueSoFar, NEW n \in Nat, Settled = n, Settled' = n + 1, truth' = truth,
           reports \in Seq(ReportRecord), NEW r \in ReportRecord,
           reports' = Append(reports, r), TrueReport(r, truth), r.id = n + 1
    PROVE  TrueSoFar'
<1> DEFINE b == Len(reports)
           f == Append(reports, r)
<1>1. b \in Nat /\ Len(f) = b + 1 /\ f[b + 1] = r /\ \A i \in 1..b : f[i] = reports[i]
  BY LenProperties, AppendProperties
<1>2. \A i \in 1..b : TrueReport(reports[i], truth) /\ reports[i].id \in 1..n
  BY DEF TrueSoFar
<1> HIDE DEF b, f
<1>3. ASSUME NEW i \in 1..(b + 1) PROVE TrueReport(f[i], truth) /\ f[i].id \in 1..(n + 1)
  <2>1. CASE i = b + 1
    <3>1. n + 1 \in 1..(n + 1)
      OBVIOUS
    <3> QED BY <1>1, <2>1, <3>1
  <2>2. CASE i \in 1..b
    <3>1. TrueReport(reports[i], truth) /\ reports[i].id \in 1..n /\ f[i] = reports[i]
      BY <1>1, <1>2, <2>2
    <3>2. f[i].id \in 1..n
      BY <3>1
    <3>3. f[i].id \in 1..(n + 1)
      BY <3>2
    <3> QED BY <3>1, <3>3
  <2>3. i = b + 1 \/ i \in 1..b
    BY <1>1
  <2> QED BY <2>1, <2>2, <2>3
<1>4. reports' = f /\ Len(f) = b + 1
  BY <1>1 DEF f
<1>5. \A i \in 1..Len(reports') : TrueReport(reports'[i], truth') /\ reports'[i].id \in 1..Settled'
  BY <1>3, <1>4
<1> QED BY <1>5 DEF TrueSoFar, TrueReport

\* The oldest walk is settled.
LEMMA KeptSettle ==
    ASSUME NEW p, NEW n, NEW d, NEW t, NEW u, Queues(p, n, 1, d, t, u),
           NEW from, NEW to, NEW rulings, Kept(p, n, 1, d, t, u, from, to, rulings)
    PROVE  /\ Kept(Tail(p), n + 1, 0, d, t, u, from, to, rulings)
           /\ p # <<>> /\ Head(p) = p[1] /\ p[1].id = n + 1
           /\ Len(Tail(p)) = Len(p) - 1
<1> DEFINE a == Len(p)
           b == Len(d)
           c == Len(t)
           q == Tail(p)
<1>1. /\ Lined(q, n + 1, 0, d, t, u)
      /\ p # <<>> /\ Head(p) = p[1] /\ p[1].id = n + 1 /\ Len(q) = a - 1
  BY LinedSettle DEF Kept
<1>2. /\ a \in Nat /\ b \in Nat /\ c \in Nat /\ a = 1 + b + c + Len(u) /\ Len(u) \in Nat
      /\ p \in Seq(Request)
  BY LenProperties DEF Queues, Kept, Lined
<1>3. \A i \in 1..Len(q) : q[i] = p[i + 1]
  BY <1>1, <1>2, HeadTailProperties
<1>4. PICK at : Leads(at, p, 1, d, from, to)
  BY DEF Kept
<1>5. 1 + b <= a
  <2> HIDE DEF a, b, c
  <2> QED BY <1>2
<1>6. Leads(at, q, 0, d, from, to)
  BY <1>2, <1>4, <1>5, LeadsSettle
<1>7. \A i \in 1..c : t[i].dest = Apply(to, p[1 + b + i].step)
  BY DEF Kept, Aimed
<1>8. ASSUME NEW i \in 1..c PROVE q[0 + b + i] = p[1 + b + i]
  <2> HIDE DEF a, b, c, q
  <2>1. Len(q) = a - 1
    BY <1>1
  <2>2. 0 + b + i \in 1..Len(q) /\ (0 + b + i) + 1 = 1 + b + i
    BY <1>2, <2>1
  <2> QED BY <1>3, <2>2
<1>9. Aimed(q, 0, d, t, to)
  BY <1>7, <1>8 DEF Aimed
<1> QED BY <1>1, <1>6, <1>9 DEF Kept

\* The walk on the to-do list is answered, and the player stands on next.
LEMMA KeptAnswer ==
    ASSUME NEW p, NEW n, NEW o, NEW d, NEW t, NEW u, Queues(p, n, o, d, t, u),
           NEW from, NEW to, Kept(p, n, o, d, t, u, from, to, truth), Len(t) = 1,
           truth \in [Requests -> Verdicts],
           NEW msg \in Message, msg.id = t[1].id, NEW next \in Fields,
           \/ msg.kind = "move" /\ msg.to = next /\ next = t[1].dest
           \/ msg.kind = "snapback" /\ next = to,
           Ruled(t[1].id, IF msg.kind = "move" THEN "moved" ELSE "refused"),
           t[1].id \in Requests
    PROVE  /\ Kept(p, n, o, Append(d, msg), <<>>, u, from, next, truth')
           /\ t[1].id = n + o + Len(d) + 1
<1>1. /\ Lined(p, n, o, d, t, u) /\ Aimed(p, o, d, t, to) /\ Honest(d, truth)
      /\ d \in Seq(Message) /\ o \in {0, 1}
  BY DEF Kept, Queues
<1>2. Lined(p, n, o, Append(d, msg), <<>>, u) /\ t[1].id = n + o + Len(d) + 1
  BY <1>1, LinedAnswer
<1>3. Honest(Append(d, msg), truth')
  BY <1>1, HonestAnswer
<1>4. PICK at : Leads(at, p, o, d, from, to)
  BY DEF Kept
<1>5. t[1].dest = Apply(to, p[o + Len(d) + 1].step)
  <2>1. 1 \in 1..Len(t)
    OBVIOUS
  <2> QED BY <1>1, <2>1 DEF Aimed
<1>6. \/ msg.kind = "move" /\ msg.to = next /\ next = Apply(to, p[o + Len(d) + 1].step)
      \/ msg.kind = "snapback" /\ next = to
  BY <1>5
<1>7. \E v : Leads(v, p, o, Append(d, msg), from, next)
  BY <1>1, <1>4, <1>6, LeadsAnswer
<1>8. Aimed(p, o, Append(d, msg), <<>>, next)
  <2>1. Len(<<>>) = 0 /\ 1..0 = {}
    BY EmptySeq
  <2> QED BY <2>1 DEF Aimed
<1> QED BY <1>2, <1>3, <1>7, <1>8 DEF Kept

\* A command becomes the walk on the to-do list.
LEMMA KeptTaken ==
    ASSUME NEW p, NEW n, NEW o, NEW d, NEW u, Queues(p, n, o, d, <<>>, u),
           NEW from, NEW to, NEW rulings, Kept(p, n, o, d, <<>>, u, from, to, rulings),
           u # <<>>, NEW x \in Errand, x.id = Head(u)[1], x.dest = Apply(to, Head(u)[2])
    PROVE  Kept(p, n, o, d, <<x>>, Tail(u), from, to, rulings)
<1>1. Lined(p, n, o, d, <<>>, u) /\ Honest(d, rulings)
  BY DEF Kept
<1>2. Lined(p, n, o, d, <<x>>, Tail(u)) /\ Head(u)[2] = p[o + Len(d) + 1].step
  BY <1>1, LinedTaken
<1>3. Aimed(p, o, d, <<x>>, to)
  <2>1. Len(<<x>>) = 1 /\ <<x>>[1] = x
    OBVIOUS
  <2>2. \A i \in 1..1 : i = 1
    OBVIOUS
  <2> QED BY <1>2, <2>1, <2>2 DEF Aimed
<1> QED BY <1>1, <1>2, <1>3 DEF Kept

\* The oldest walk leaves the ledger.
LEMMA OldestLeaves ==
    ASSUME WalkInv, ledger'.pending = Tail(ledger.pending),
           ledger'.requested = ledger.requested,
           Len(Tail(ledger.pending)) = Len(ledger.pending) - 1
    PROVE  Settled' = Settled + 1
<1>1. /\ ledger.requested \in Nat /\ Len(ledger.pending) \in Nat
      /\ Settled = ledger.requested - Len(ledger.pending)
      /\ Settled' = ledger.requested - (Len(ledger.pending) - 1)
  BY QuietFacts DEF Settled
<1> QED BY <1>1

LEMMA QuietReadSnapback ==
    ASSUME WalkInv, Steady, ReadSnapback, ~batched'
    PROVE  Steady'
<1> DEFINE id == Oldest(ledger).id
           r == [kind |-> "WalkRejected", id |-> id, input |-> InputOf(id),
                 cause |-> Head(down).id]
           p == ledger.pending
           d == Tail(down)
<1>1. /\ mirror' = mirror /\ down' = d /\ down[1].kind = "snapback"
      /\ UNCHANGED <<shown, up, pos, todo, truth>>
      /\ p # <<>> /\ ledger' = NoteSnapback(ledger) /\ reports' = Append(reports, r)
  BY ReadsOnce, AnswerRead DEF ReadSnapback, server, Report
<1>2. /\ ledger'.pending = Tail(p) /\ ledger'.requested = ledger.requested
  <2>1. ledger' = [ledger EXCEPT !.rejected = ledger.rejected + 1, !.pending = Tail(p)]
    BY <1>1 DEF NoteSnapback
  <2> QED BY <2>1, QuietFacts DEF Ledger
<1>3. Queues(p, Settled, 1, d, todo, up)
  <2>1. d \in Seq(Message)
    BY ReadsOnce, HeadTailProperties
  <2> QED BY <2>1, ReadsOnce DEF Queues
<1>4. Kept(p, Settled, 1, d, todo, up, mirror, pos, truth)
  BY <1>1, AnswerRead DEF Kept
<1>5. /\ Kept(Tail(p), Settled + 1, 0, d, todo, up, mirror, pos, truth)
      /\ Head(p) = p[1] /\ p[1].id = Settled + 1 /\ Len(Tail(p)) = Len(p) - 1
  BY <1>3, <1>4, KeptSettle
<1>6. Settled' = Settled + 1 /\ Unread' = 0
  BY <1>1, <1>2, <1>5, ReadsOnce, OldestLeaves DEF Unread
<1>7. Kept(ledger'.pending, Settled', Unread', down', todo', up', mirror', pos', truth')
  BY <1>1, <1>2, <1>5, <1>6
<1>8. id = Settled + 1 /\ Head(down).id = Settled + 1 /\ truth[Settled + 1] = "refused"
  BY <1>1, <1>5, AnswerRead, ReadsOnce DEF Oldest
<1>9. r \in ReportRecord
  <2>1. id \in 0..MaxWalks /\ InputOf(id) = id
    <3>1. /\ TypeOK /\ Numbered /\ InTurn /\ Paired
          /\ inputFor \subseteq (1..MaxWalks) \X (1..MaxWalks)
      BY DEF WalkInv, OrderInv, TypeOK
    <3> QED BY <1>1, <3>1, OldestFacts, PressOfRequest
  <2>2. Head(down).id = id
    BY <1>8
  <2> HIDE DEF id
  <2> QED BY <2>1, <2>2 DEF ReportRecord, Kinds
<1>10. TrueReport(r, truth) /\ r.id = Settled + 1
  BY <1>8 DEF TrueReport
<1>11. TrueSoFar'
  <2> HIDE DEF r
  <2> QED BY <1>1, <1>6, <1>9, <1>10, QuietFacts, SaidNow DEF Steady
<1>12. ReadOnly'
  BY <1>6 DEF ReadOnly, Unread
<1> QED BY <1>7, <1>11, <1>12, SteadyLater

LEMMA QuietPublish ==
    ASSUME WalkInv, Steady, PublishWorldEvents
    PROVE  Steady'
<1> DEFINE id == Oldest(ledger).id
           r == [kind |-> "WalkAccepted", id |-> id, input |-> InputOf(id), cause |-> 0]
           p == ledger.pending
<1>1. /\ wpc = "publish" /\ shown' = mirror /\ mirror' = mirror
      /\ ledger' = NoteLocalMove(ledger, shown, mirror)
      /\ UNCHANGED <<down, up, pos, todo, truth>>
  BY DEF PublishWorldEvents, server
<1>2. CASE shown = mirror
  <2>1. ledger' = ledger /\ reports' = reports /\ Unread = 0
    BY <1>1, <1>2 DEF PublishWorldEvents, NoteLocalMove, Unread
  <2> QED BY <1>1, <1>2, <2>1, SteadyStays
<1>3. CASE shown # mirror
  <2>1. /\ Unread = 1 /\ mirror = Apply(shown, p[1].step) /\ truth[Settled + 1] = "moved"
    BY <1>3 DEF Unread, Steady, ReadOnly
  <2>2. Queues(p, Settled, 1, down, todo, up)
    BY <2>1, QuietFacts
  <2>3. Kept(p, Settled, 1, down, todo, up, mirror, pos, truth)
    BY <2>1, SteadyLater
  <2>4. /\ Kept(Tail(p), Settled + 1, 0, down, todo, up, mirror, pos, truth)
        /\ p # <<>> /\ Head(p) = p[1] /\ p[1].id = Settled + 1 /\ Len(Tail(p)) = Len(p) - 1
    BY <2>2, <2>3, KeptSettle
  <2>5. IsOwnStep(ledger, shown, mirror) /\ id = Settled + 1
    BY <2>1, <2>4 DEF IsOwnStep, Oldest
  <2>6. reports' = Append(reports, r)
    BY <1>3, <2>5 DEF PublishWorldEvents, Report
  <2>7. ledger'.pending = Tail(p) /\ ledger'.requested = ledger.requested
    <3>1. ledger' = [ledger EXCEPT !.accepted = ledger.accepted + 1, !.pending = Tail(p)]
      BY <1>1, <1>3, <2>5 DEF NoteLocalMove
    <3> QED BY <3>1, QuietFacts DEF Ledger
  <2>8. Settled' = Settled + 1 /\ Unread' = 0
    BY <1>1, <2>4, <2>7, OldestLeaves DEF Unread
  <2>9. Kept(ledger'.pending, Settled', Unread', down', todo', up', mirror', pos', truth')
    BY <1>1, <2>4, <2>7, <2>8
  <2>10. r \in ReportRecord
    <3>1. id \in 0..MaxWalks /\ InputOf(id) = id /\ 0 \in 0..MaxWalks
      <4>1. /\ TypeOK /\ Numbered /\ InTurn /\ Paired
            /\ inputFor \subseteq (1..MaxWalks) \X (1..MaxWalks)
        BY DEF WalkInv, OrderInv, TypeOK
      <4>2. 0 \in 0..MaxWalks
        BY BoundsAssumption
      <4> QED BY <2>4, <4>1, <4>2, OldestFacts, PressOfRequest
    <3> HIDE DEF id
    <3> QED BY <3>1 DEF ReportRecord, Kinds
  <2>11. TrueReport(r, truth) /\ r.id = Settled + 1
    BY <2>1, <2>5 DEF TrueReport
  <2>12. TrueSoFar'
    <3> HIDE DEF r
    <3> QED BY <1>1, <2>6, <2>8, <2>10, <2>11, QuietFacts, SaidNow DEF Steady
  <2>13. ReadOnly'
    BY <2>8 DEF ReadOnly, Unread
  <2> QED BY <2>9, <2>12, <2>13, SteadyLater
<1> QED BY <1>2, <1>3

\* A ruling about the walk on the to-do list is not about a settled one.
LEMMA RulingLater ==
    ASSUME WalkInv, Steady, UNCHANGED client, NEW id \in Requests, NEW how,
           Ruled(id, how), id = Settled + Unread + Len(down) + 1
    PROVE  /\ Settled' = Settled /\ Unread' = Unread /\ ledger' = ledger /\ mirror' = mirror
           /\ ReadOnly' /\ TrueSoFar'
<1>1. /\ UNCHANGED <<ledger, mirror, shown, wpc, read, reports>>
      /\ Settled' = Settled /\ Unread' = Unread
  BY DEF client, Settled, Unread
<1>2. Settled \in Nat /\ Len(down) \in Nat /\ Unread \in {0, 1}
  BY QuietFacts DEF Queues
<1>3. \A k : k # id => truth'[k] = truth[k]
  BY QuietFacts, RulingStays
<1>4. ReadOnly'
  <2>1. Unread = 1 => Settled + 1 # id
    BY <1>2
  <2> QED BY <1>1, <1>3, <2>1 DEF Steady, ReadOnly, Apply
<1>5. TrueSoFar'
  <2>1. ASSUME NEW i \in 1..Len(reports)
        PROVE  TrueReport(reports[i], truth') /\ reports[i].id \in 1..Settled
    <3>1. TrueReport(reports[i], truth) /\ reports[i].id \in 1..Settled
      BY DEF Steady, TrueSoFar
    <3>2. reports[i].id # id
      BY <1>2, <3>1
    <3>3. truth'[reports[i].id] = truth[reports[i].id]
      BY <1>3, <3>2
    <3> QED BY <3>1, <3>3 DEF TrueReport
  <2> QED BY <1>1, <2>1 DEF TrueSoFar, TrueReport
<1> QED BY <1>1, <1>4, <1>5

\* The walk on the to-do list.
LEMMA ErrandFacts ==
    ASSUME WalkInv, Steady, todo # <<>>
    PROVE  /\ Len(todo) = 1 /\ todo[1] \in Errand /\ todo[1].id \in Requests
           /\ todo[1].id \in 0..MaxWalks
           /\ \E step \in Steps : todo[1].dest = Apply(pos, step)
<1>1. Len(todo) = 1 /\ todo \in Seq(Errand) /\ 1 \in 1..1
  BY QuietFacts DEF Queues
<1>2. todo[1] \in Errand
  BY <1>1, ElementOfSeq
<1>3. todo[1].id \in Requests /\ todo[1].id \in 0..MaxWalks
  <2>1. todo[1].id \in 1..MaxWalks
    BY <1>2 DEF Errand, Requests
  <2> QED BY <2>1, BoundsAssumption DEF Requests
<1>4. todo[1].dest = Apply(pos, ledger.pending[Unread + Len(down) + 1].step)
  BY <1>1 DEF Steady, Aimed
<1>5. Unread + Len(down) + 1 \in 1..Len(ledger.pending)
  <2>1. /\ Len(ledger.pending) = Unread + Len(down) + Len(todo) + Len(up)
        /\ Len(down) \in Nat /\ Len(up) \in Nat /\ Unread \in {0, 1}
    BY QuietFacts, LenProperties DEF Steady, Lined, Queues
  <2> QED BY <1>1, <2>1
<1> QED BY <1>1, <1>2, <1>3, <1>4, <1>5, StepsOfPending

\* A walk is answered truly.
LEMMA QuietAnswer ==
    ASSUME WalkInv, Steady, todo # <<>>, UNCHANGED client,
           NEW msg \in Message, msg.id = todo[1].id, NEW next \in Fields,
           \/ msg.kind = "move" /\ msg.to = next /\ next = todo[1].dest
           \/ msg.kind = "snapback" /\ next = pos,
           Ruled(todo[1].id, IF msg.kind = "move" THEN "moved" ELSE "refused")
    PROVE  /\ Kept(ledger.pending, Settled, Unread, Append(down, msg), <<>>, up, mirror,
                   next, truth')
           /\ Settled' = Settled /\ Unread' = Unread /\ ledger' = ledger /\ mirror' = mirror
           /\ ReadOnly' /\ TrueSoFar'
<1>1. /\ Queues(ledger.pending, Settled, Unread, down, todo, up)
      /\ Kept(ledger.pending, Settled, Unread, down, todo, up, mirror, pos, truth)
      /\ truth \in [Requests -> Verdicts]
  BY QuietFacts, SteadyLater
<1>2. Len(todo) = 1 /\ todo[1].id \in Requests
  BY ErrandFacts
<1>3. /\ Kept(ledger.pending, Settled, Unread, Append(down, msg), <<>>, up, mirror, next,
              truth')
      /\ todo[1].id = Settled + Unread + Len(down) + 1
  BY <1>1, <1>2, KeptAnswer
<1> QED BY <1>2, <1>3, RulingLater

LEMMA QuietGo ==
    ASSUME WalkInv, Steady, GoMoves \/ GoRefused
    PROVE  Steady'
<1>1. todo # <<>> /\ todo' = <<>> /\ UNCHANGED client /\ up' = up
  BY DEF GoMoves, GoRefused
<1>2. todo[1].id \in 0..MaxWalks
  BY <1>1, ErrandFacts
<1>3. CASE GoMoves
  <2> DEFINE msg == Moved(todo[1].id, todo[1].dest)
  <2>1. /\ todo[1].dest \in Fields /\ pos' = todo[1].dest /\ down' = Append(down, msg)
        /\ Ruled(todo[1].id, "moved")
    BY <1>3 DEF GoMoves, Answer
  <2>2. msg \in Message /\ msg.id = todo[1].id /\ msg.kind = "move" /\ msg.to = todo[1].dest
    BY <1>2, <2>1 DEF Moved, Message
  <2> HIDE DEF msg
  <2>3. /\ Kept(ledger.pending, Settled, Unread, Append(down, msg), <<>>, up, mirror,
                todo[1].dest, truth')
        /\ Settled' = Settled /\ Unread' = Unread /\ ledger' = ledger /\ mirror' = mirror
        /\ ReadOnly' /\ TrueSoFar'
    BY <1>1, <2>1, <2>2, QuietAnswer
  <2> QED BY <1>1, <2>1, <2>3, SteadyLater
<1>4. CASE GoRefused
  <2> DEFINE msg == Snap(todo[1].id)
  <2>1. /\ pos' = pos /\ down' = Append(down, msg) /\ Ruled(todo[1].id, "refused")
    BY <1>4 DEF GoRefused, Answer
  <2>2. msg \in Message /\ msg.id = todo[1].id /\ msg.kind = "snapback"
    BY <1>2, <2>1 DEF Snap, Message
  <2> HIDE DEF msg
  <2>3. /\ Kept(ledger.pending, Settled, Unread, Append(down, msg), <<>>, up, mirror,
                pos, truth')
        /\ Settled' = Settled /\ Unread' = Unread /\ ledger' = ledger /\ mirror' = mirror
        /\ ReadOnly' /\ TrueSoFar'
    <3>1. pos \in Fields
      BY QuietFacts
    <3> QED BY <1>1, <2>1, <2>2, <3>1, QuietAnswer
  <2> QED BY <1>1, <2>1, <2>3, SteadyLater
<1> QED BY <1>3, <1>4

LEMMA QuietGoDirection ==
    ASSUME WalkInv, Steady, CGoDirection
    PROVE  Steady'
<1> DEFINE x == [id |-> Head(up)[1], dest |-> Apply(pos, Head(up)[2])]
<1>1. up # <<>> /\ up' = Tail(up) /\ todo' = <<x>> /\ UNCHANGED client /\ pos' = pos
  BY DEF CGoDirection
<1>2. x \in Errand /\ x.id = Head(up)[1] /\ x.dest = Apply(pos, Head(up)[2])
  <2>1. up \in Seq(Requests \X Steps) /\ pos \in Fields
    BY QuietFacts DEF Queues
  <2>2. Head(up) \in Requests \X Steps
    BY <1>1, <2>1, HeadTailProperties
  <2>3. Head(up)[1] \in Requests /\ Head(up)[2] \in Steps
    BY <2>2
  <2>4. Apply(pos, Head(up)[2]) \in Int \X Int
    <3>1. pos[1] \in Int /\ pos[2] \in Int /\ Head(up)[2][1] \in Int /\ Head(up)[2][2] \in Int
      <4>1. pos \in Int \X Int /\ Head(up)[2] \in (-1..1) \X (-1..1)
        BY <2>1, <2>3, FieldsAssumption, StepsAssumption
      <4> QED BY <4>1
    <3> QED BY <3>1 DEF Apply
  <2> QED BY <2>3, <2>4 DEF Errand
<1> HIDE DEF x
<1>3. Queues(ledger.pending, Settled, Unread, down, todo, up)
  BY QuietFacts
<1>4. CASE todo = <<>>
  <2>1. down' = down /\ truth' = truth
    BY <1>4 DEF CGoDirection
  <2>2. Kept(ledger.pending, Settled, Unread, down, <<>>, up, mirror, pos, truth)
    BY <1>4, SteadyLater
  <2>3. Kept(ledger.pending, Settled, Unread, down, <<x>>, Tail(up), mirror, pos, truth)
    BY <1>1, <1>2, <1>3, <1>4, <2>2, KeptTaken
  <2>4. UNCHANGED <<ledger, mirror, shown, wpc, read, reports>>
    BY <1>1 DEF client
  <2>5. Settled' = Settled /\ Unread' = Unread
    BY <2>4 DEF Settled, Unread
  <2>6. ReadOnly' /\ TrueSoFar'
    BY <2>1, <2>4, <2>5, SaidBefore DEF Steady, ReadOnly, Apply
  <2> QED BY <1>1, <2>1, <2>3, <2>4, <2>5, <2>6, SteadyLater
<1>5. CASE todo # <<>>
  <2> DEFINE msg == Snap(todo[1].id)
             d == Append(down, msg)
  <2>1. down' = d /\ Ruled(todo[1].id, "refused")
    BY <1>5 DEF CGoDirection, Answer
  <2>2. msg \in Message /\ msg.id = todo[1].id /\ msg.kind = "snapback"
    BY <1>5, ErrandFacts DEF Snap, Message
  <2> HIDE DEF msg
  <2>3. /\ Kept(ledger.pending, Settled, Unread, d, <<>>, up, mirror, pos, truth')
        /\ Settled' = Settled /\ Unread' = Unread /\ ledger' = ledger /\ mirror' = mirror
        /\ ReadOnly' /\ TrueSoFar'
    <3>1. pos \in Fields
      BY QuietFacts
    <3> QED BY <1>1, <1>5, <2>1, <2>2, <3>1, QuietAnswer
  <2>4. Queues(ledger.pending, Settled, Unread, d, <<>>, up)
    <3>1. d \in Seq(Message)
      BY <1>3, <2>2, AppendProperties DEF Queues
    <3>2. <<>> \in Seq(Errand)
      OBVIOUS
    <3> QED BY <1>3, <3>1, <3>2 DEF Queues
  <2> HIDE DEF d
  <2>5. Kept(ledger.pending, Settled, Unread, d, <<x>>, Tail(up), mirror, pos, truth')
    BY <1>1, <1>2, <2>3, <2>4, KeptTaken
  <2> QED BY <1>1, <2>1, <2>3, <2>5, SteadyLater
<1> QED BY <1>4, <1>5

\* An undisturbed player never stands out of reach of the field they asked for.
LEMMA NeverOutOfReach ==
    ASSUME WalkInv, Steady, GoOutOfReach
    PROVE  FALSE
<1>1. todo # <<>> /\ ~Reachable(todo[1].dest)
  BY DEF GoOutOfReach
<1>2. PICK step \in Steps : todo[1].dest = Apply(pos, step)
  BY <1>1, ErrandFacts
<1>3. pos \in Fields
  BY QuietFacts
<1> QED BY <1>1, <1>2, <1>3, StepLeads DEF Reachable

\* Every outstanding walk is under way, so that growing late disturbs.
LEMMA EveryWalkIsUnderWay ==
    ASSUME WalkInv, Steady, NEW i \in 1..Len(ledger.pending)
    PROVE  AnswerUnderway(ledger.pending[i].id)
<1> DEFINE n == Settled
           o == Unread
           b == Len(down)
           c == Len(todo)
           e == Len(up)
           id == ledger.pending[i].id
<1>1. /\ n \in Nat /\ o \in {0, 1} /\ b \in Nat /\ c \in Nat /\ e \in Nat
      /\ i \in 1..(o + b + c + e)
  BY QuietFacts, LenProperties DEF Queues, Steady, Lined
<1>2. id = n + i
  BY DEF Steady, Lined
<1>3. /\ \A k \in 1..b : down[k].id = n + o + k
      /\ \A k \in 1..c : todo[k].id = n + o + b + k
      /\ \A k \in 1..e : up[k][1] = n + o + b + c + k
  BY DEF Steady, Lined
<1>4. o = 1 => wpc \in {"read", "publish"} /\ truth[n + 1] = "moved" /\ shown # mirror
  BY DEF Steady, ReadOnly, Unread
<1> HIDE DEF n, o, b, c, e, id
<1>5. CASE i <= o
  <2>1. o = 1 /\ i = 1
    BY <1>1, <1>5
  <2> QED BY <1>2, <1>4, <2>1 DEF AnswerUnderway, id
<1>6. CASE i > o /\ i <= o + b
  <2>1. i - o \in 1..b /\ n + o + (i - o) = n + i
    BY <1>1, <1>6
  <2>2. down[i - o].id = id
    BY <1>2, <1>3, <2>1
  <2> QED BY <2>1, <2>2 DEF AnswerUnderway, id, b
<1>7. CASE i > o + b /\ i <= o + b + c
  <2>1. i - (o + b) \in 1..c /\ n + o + b + (i - (o + b)) = n + i
    BY <1>1, <1>7
  <2>2. todo[i - (o + b)].id = id
    BY <1>2, <1>3, <2>1
  <2> QED BY <2>1, <2>2 DEF AnswerUnderway, id, c
<1>8. CASE i > o + b + c
  <2>1. i - (o + b + c) \in 1..e /\ n + o + b + c + (i - (o + b + c)) = n + i
    BY <1>1, <1>8
  <2>2. up[i - (o + b + c)][1] = id
    BY <1>2, <1>3, <2>1
  <2> QED BY <2>1, <2>2 DEF AnswerUnderway, id, e
<1> QED BY <1>1, <1>5, <1>6, <1>7, <1>8

\* What was quiet until now was quiet before: disturbances are never forgotten.
LEMMA QuietBefore ==
    ASSUME WalkInv, Next, Quiet'
    PROVE  Quiet
<1>1. troubles \in Nat
  <2>1. troubles \in 0..Disturbances
    BY DEF WalkInv, TypeOK
  <2> QED BY <2>1
<1>2. troubles = 0
  <2>1. troubles' = troubles \/ troubles' = troubles + 1
    BY StepFrames DEF Untouched
  <2> QED BY <1>1, <2>1 DEF Quiet
<1>3. batched' = batched \/ batched' = (batched \/ read > 0)
  BY NextCases DEF RequestWalk, SendWalk, DrainEnds, ReadMove, ReadSnapback, PassEnds,
     PublishWorldEvents, RequestAges, CGoDirection, GoMoves, GoRefused, GoOutOfReach,
     StraySnapback, Displaced, GoAstray, client
<1>4. ~batched
  BY <1>3, Zenon DEF Quiet
<1> QED BY <1>2, <1>4 DEF Quiet

\* A step that disturbs is not quiet.
LEMMA TroubleIsNotQuiet ==
    ASSUME WalkInv, Quiet', troubles' = troubles + 1
    PROVE  FALSE
<1>1. troubles \in Nat
  <2>1. troubles \in 0..Disturbances
    BY DEF WalkInv, TypeOK
  <2> QED BY <2>1
<1> QED BY <1>1 DEF Quiet

LEMMA QuietStep == WalkInv /\ QuietInv /\ [Next]_vars => QuietInv'
<1> SUFFICES ASSUME WalkInv, QuietInv, [Next]_vars, Quiet' PROVE Steady'
  BY DEF QuietInv
<1>1. CASE UNCHANGED vars
  <2>1. Steady
    BY <1>1 DEF QuietInv, Quiet, vars, client, server
  <2>2. UNCHANGED <<ledger, down, todo, up, mirror, shown, pos, truth, reports, wpc, read>>
    BY <1>1 DEF vars, client, server
  <2>3. Unread = 1 => wpc' = "publish" \/ (wpc' = "read" /\ read' # 0)
    BY <2>1, <2>2 DEF Steady, ReadOnly
  <2> QED BY <2>1, <2>2, <2>3, SteadyStays
<1>2. CASE Next
  <2>1. Steady /\ ~batched'
    BY <1>2, QuietBefore DEF QuietInv, Quiet
  <2>2. CASE (\E s \in Steps : RequestWalk(s)) \/ PassEnds
    <3>1. UNCHANGED <<ledger, down, todo, up, mirror, shown, pos, truth, reports, read>>
      BY <2>2 DEF RequestWalk, PassEnds, server
    <3>2. wpc' = wpc \/ wpc' = "publish"
      BY <2>2 DEF RequestWalk, PassEnds
    <3>3. Unread = 1 => wpc' = "publish" \/ (wpc' = "read" /\ read' # 0)
      BY <2>1, <3>1, <3>2 DEF Steady, ReadOnly
    <3> QED BY <2>1, <3>1, <3>3, SteadyStays
  <2>3. CASE SendWalk
    BY <2>1, <2>3, QuietSendWalk
  <2>4. CASE DrainEnds
    BY <2>1, <2>4, QuietDrainEnds
  <2>5. CASE ReadMove
    BY <2>1, <2>5, QuietReadMove
  <2>6. CASE ReadSnapback
    BY <2>1, <2>6, QuietReadSnapback
  <2>7. CASE PublishWorldEvents
    BY <2>1, <2>7, QuietPublish
  <2>8. CASE RequestAges
    <3>1. PICK i \in 1..Len(ledger.pending) :
             IF AnswerUnderway(ledger.pending[i].id) THEN troubles' = troubles + 1
                                                     ELSE UNCHANGED troubles
      BY <2>8 DEF RequestAges
    <3> QED BY <2>1, <3>1, EveryWalkIsUnderWay, TroubleIsNotQuiet
  <2>9. CASE CGoDirection
    BY <2>1, <2>9, QuietGoDirection
  <2>10. CASE GoMoves \/ GoRefused
    BY <2>1, <2>10, QuietGo
  <2>11. CASE GoOutOfReach
    BY <2>1, <2>11, NeverOutOfReach
  <2>12. CASE StraySnapback \/ (\E f \in Fields : Displaced(f)) \/ \E f \in Fields : GoAstray(f)
    <3>1. troubles' = troubles + 1
      BY <2>12 DEF StraySnapback, Displaced, GoAstray
    <3> QED BY <3>1, TroubleIsNotQuiet
  <2> QED BY <1>2, <2>2, <2>3, <2>4, <2>5, <2>6, <2>7, <2>8, <2>9, <2>10, <2>11, <2>12, NextCases
<1> QED BY <1>1, <1>2

LEMMA QuietBegins == Init => QuietInv
<1> SUFFICES ASSUME Init PROVE Steady
  BY DEF QuietInv
<1>1. Len(<<>>) = 0 /\ 1..0 = {} /\ 0..0 = {0}
  BY EmptySeq
<1>2. ledger.pending = <<>> /\ ledger.requested = 0
  BY DEF Init, EmptyLedger
<1>3. Settled = 0 /\ Unread = 0
  <2>1. Len(ledger.pending) = 0
    BY <1>1, <1>2
  <2>2. Settled = 0
    <3>1. Settled = ledger.requested - Len(ledger.pending) /\ 0 - 0 = 0
      BY DEF Settled
    <3> QED BY <1>2, <2>1, <3>1, Zenon
  <2> QED BY <2>2 DEF Init, Unread
<1>4. Lined(ledger.pending, Settled, Unread, down, todo, up)
  BY <1>1, <1>2, <1>3 DEF Init, Lined
<1>5. Aimed(ledger.pending, Unread, down, todo, pos) /\ Honest(down, truth) /\ TrueSoFar
  BY <1>1 DEF Init, Aimed, Honest, TrueSoFar
<1>6. Leads([i \in {0} |-> pos], ledger.pending, Unread, down, mirror, pos)
  BY <1>1 DEF Init, Leads
<1>7. ReadOnly
  BY <1>3 DEF ReadOnly
<1> QED BY <1>4, <1>5, <1>6, <1>7 DEF Steady

\* As long as nothing disturbs the walks and the view is compared after every
\* answer, NoteLocalMove and NoteSnapback credit each answer to the very walk the
\* server ruled on, and the worker reports what it ruled.
THEOREM ReportsTellTheTruth == Spec => []ReportsAreTrue
<1>1. QuietInv => ReportsAreTrue
  BY DEF QuietInv, Quiet, Steady, TrueSoFar, TrueReport, ReportsAreTrue
<1> QED BY <1>1, QuietBegins, QuietStep, WalkInvariant, PTL DEF Spec
=============================================================================
