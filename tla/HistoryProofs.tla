---------------------------- MODULE HistoryProofs ----------------------------
(***************************************************************************)
(* Proofs about the parts MCHistory puts beside each other, for any cards, *)
(* calls, records and directories: C is the call log, K its backup; the    *)
(* poller's names are bare.                                                *)
(***************************************************************************)
EXTENDS MCHistory, SMSPollerProofs, FiniteSetTheorems

-----------------------------------------------------------------------------
(***************************************************************************)
(* Counting off a finite set of numbers.                                   *)
(***************************************************************************)
Rank(S, i) == Cardinality({j \in S : j <= i})

(* The elements of a set are counted off in their order, none twice and    *)
(* none left out.                                                          *)
LEMMA RankCounts ==
    ASSUME NEW S \in SUBSET Nat, IsFiniteSet(S)
    PROVE  /\ Cardinality(S) \in Nat
           /\ \A i \in S : Rank(S, i) \in 1 .. Cardinality(S)
           /\ \A i, k \in S : i < k => Rank(S, i) < Rank(S, k)
           /\ \A i, k \in S : Rank(S, i) = Rank(S, k) => i = k
           /\ \A n \in 1 .. Cardinality(S) : \E i \in S : Rank(S, i) = n
<1> DEFINE Upto(i) == {j \in S : j <= i}
           f == [i \in S |-> Rank(S, i)]
           image == {f[i] : i \in S}
<1>1. Cardinality(S) \in Nat
  BY FS_CardinalityType
<1>2. ASSUME NEW i \in S
      PROVE  IsFiniteSet(Upto(i)) /\ Rank(S, i) \in Nat /\ Rank(S, i) \in 1 .. Cardinality(S)
  <2>1. Upto(i) \in SUBSET S /\ i \in Upto(i)
    OBVIOUS
  <2>2. IsFiniteSet(Upto(i)) /\ Cardinality(Upto(i)) <= Cardinality(S)
    BY <2>1, FS_Subset
  <2>3. Cardinality(Upto(i)) \in Nat
    BY <2>2, FS_CardinalityType
  <2>4. Cardinality(Upto(i)) # 0
    BY <2>1, <2>2, FS_EmptySet
  <2>5. QED
    BY <1>1, <2>2, <2>3, <2>4 DEF Rank
<1>3. ASSUME NEW i \in S, NEW k \in S, i < k
      PROVE  Rank(S, i) < Rank(S, k)
  <2>1. Upto(i) \in SUBSET Upto(k) /\ k \in Upto(k) /\ k \notin Upto(i)
    <3>1. i \in Nat /\ k \in Nat /\ \A j \in S : j \in Nat
      OBVIOUS
    <3>2. \A j \in S : j <= i => j <= k
      BY <1>3, <3>1
    <3>3. k <= k /\ ~(k <= i)
      BY <1>3, <3>1
    <3>4. QED
      BY <3>2, <3>3
  <2>2. IsFiniteSet(Upto(k))
    BY <1>2
  <2>3. Cardinality(Upto(i)) <= Cardinality(Upto(k)) /\ Cardinality(Upto(i)) # Cardinality(Upto(k))
    BY <2>1, <2>2, FS_Subset, Zenon
  <2>4. Rank(S, i) \in Nat /\ Rank(S, k) \in Nat
    BY <1>1, <1>2
  <2>5. QED
    BY <2>3, <2>4 DEF Rank
<1>4. ASSUME NEW i \in S, NEW k \in S, Rank(S, i) = Rank(S, k)
      PROVE  i = k
  <2>1. i < k \/ k < i \/ i = k
    OBVIOUS
  <2>2. Rank(S, i) \in Nat /\ Rank(S, k) \in Nat
    BY <1>1, <1>2
  <2>3. QED
    BY <1>3, <1>4, <2>1, <2>2
<1>5. ASSUME NEW n \in 1 .. Cardinality(S)
      PROVE  \E i \in S : Rank(S, i) = n
  <2>1. f \in [S -> 1 .. Cardinality(S)]
    BY <1>2
  <2>2. f \in Injection(S, 1 .. Cardinality(S))
    BY <2>1, <1>4 DEF Injection, IsInjective
  <2>3. IsFiniteSet(1 .. Cardinality(S)) /\ Cardinality(1 .. Cardinality(S)) = Cardinality(S)
    BY <1>1, FS_Interval
  <2>4. f \in Surjection(S, 1 .. Cardinality(S))
    BY <2>2, <2>3, FS_Injection
  <2>5. QED
    BY <2>4 DEF Surjection
<1>6. QED
  BY <1>1, <1>2, <1>3, <1>4, <1>5
-----------------------------------------------------------------------------
(* The call log counts as everybody does.                                  *)
LEMMA SameCount ==
    ASSUME NEW S
    PROVE  C!IsFiniteSet(S) = IsFiniteSet(S) /\ C!Cardinality(S) = Cardinality(S)
BY DEF C!IsFiniteSet, IsFiniteSet, C!Cardinality, Cardinality

(***************************************************************************)
(* The call log.  A call has one index as long as it goes on, the module's *)
(* answer is about the card of the observation unless the second identity  *)
(* tells, and a record that is closed for good is of a call that is over,  *)
(* or that a cut answer left out.                                          *)
(***************************************************************************)
CallType ==
    /\ C!TypeOK
    /\ Len(callDurable) <= MaxRecords

(* A call is at an index: on the line, in the answer, or in the log.       *)
Listed(c, i) == callPC = "confirm" /\ i \in DOMAIN listing /\ listing[i].call = c

Tracked(c, i) == active[i] # 0 /\ callRecords[active[i]].number = c

At(c, i) == line[i] = c \/ Listed(c, i) \/ Tracked(c, i)

PlaceInv ==
    /\ \A i \in Index : line[i] # NoCall => carrier[line[i]] = callCard /\ callCard # NoCard
    /\ \A c \in Call, i \in Index : At(c, i) => carrier[c] # NoCard
    /\ \A c \in Call, i, j \in Index : At(c, i) /\ At(c, j) => i = j
    /\ \A c \in Call, i \in Index, n \in DOMAIN callRecords :
          At(c, i) /\ active[i] # 0 /\ callRecords[n].number = c => n <= active[i]

(* The answer shows a call, unless it is over or the answer was cut.       *)
Answered(c) == C!Over(c) \/ c \in cut \/ \E i \in Index : Listed(c, i)

(* The observation in progress: whose card it is about, and that its       *)
(* answer leaves out only calls that are over, began after it, or were cut. *)
ObservationInv ==
    /\ callPC # "idle" /\ before # NoCard => (callSwapped <=> callCard # before)
    /\ callPC = "confirm" =>
          /\ before # NoCard /\ ~callSwapped =>
                \A i \in DOMAIN listing : carrier[listing[i].call] = before
          /\ \A c \in Call, n \in DOMAIN callRecords : callRecords[n].number = c => Answered(c)

(* Calls that are over and that no answer under way shows any more.        *)
GoneCalls == {c \in Call : C!Over(c) /\ \A i \in Index : ~Listed(c, i)}

(* What rows say of their calls, in memory and on disk: the card the call  *)
(* came over, the gap between two records of it, its end; where `wrong`    *)
(* are the calls misjudged so far.                                         *)
Marked(rows, wrong) ==
    \A m, n \in DOMAIN rows :
        m < n /\ rows[m].number = rows[n].number /\ rows[m].number # NoCall =>
            rows[m].state = "interrupted" \/ rows[m].number \in wrong

Final(r) == r.number # NoCall /\ r.ended /\ r.state # "interrupted"

RowsInv(rows, came, gone, wrong) ==
    /\ \A n \in DOMAIN rows : rows[n].number # NoCall =>
          /\ came[rows[n].number] # NoCard
          /\ rows[n].card # NoCard => rows[n].card = came[rows[n].number]
    /\ Marked(rows, wrong)
    /\ \A n \in DOMAIN rows : Final(rows[n]) => rows[n].number \in gone \cup wrong

(* The disk is behind the memory, never ahead.                             *)
DiskInv ==
    /\ C!CleanIsDurable
    /\ Len(callDurable) <= Len(callRecords)
    /\ \A n \in DOMAIN callDurable : callDurable[n].ended => callRecords[n].ended

CallInv ==
    /\ CallType /\ PlaceInv /\ ObservationInv /\ DiskInv /\ C!OpenIsTracked
    /\ RowsInv(callRecords, carrier, GoneCalls, misjudged)
    /\ RowsInv(callDurable, carrier, GoneCalls, misjudged)

(* Where a call is counted off, and the record it begins.                  *)
Beginning(answer, who, i) == C!Updated(C!NewRecord(answer[i].call, who), answer[i])

(* What is left of a record of a call that is not listed.                  *)
Ending(r, who) == IF C!Open(r) THEN C!Closed(r, who) ELSE r

(* observe: the tracked calls update their records, the untracked ones     *)
(* begin records of their own, and every open record of no listed call is  *)
(* closed.                                                                 *)
LEMMA ObserveGives ==
    ASSUME C!HistoryAssumption, CallType, C!OpenIsTracked, NEW who \in Card \cup {NoCard},
           NEW answer, DOMAIN answer \subseteq Index, \A i \in DOMAIN answer : answer[i] \in C!Line,
           C!Observe(answer, who)
    PROVE  LET L   == Len(callRecords)
               new == C!Untracked(answer, who)
               old == DOMAIN answer \ new
           IN  /\ L \in Nat /\ callRecords' \in Seq(C!Record)
               /\ Len(callRecords') \in Nat /\ L <= Len(callRecords') /\ Len(callRecords') <= MaxRecords
               /\ active' \in [Index -> 0 .. Len(callRecords')]
               /\ \A i \in Index \ DOMAIN answer : active'[i] = 0
               /\ \A i \in old : /\ active'[i] = active[i] /\ active[i] \in 1 .. L
                                 /\ callRecords[active[i]].card = who
                                 /\ callRecords'[active[i]] = C!Updated(callRecords[active[i]], answer[i])
               /\ \A i \in new : /\ active'[i] \in L + 1 .. Len(callRecords')
                                 /\ callRecords'[active'[i]] = Beginning(answer, who, i)
               /\ \A i, j \in DOMAIN answer : active'[i] = active'[j] => i = j
               /\ \A n \in L + 1 .. Len(callRecords') : \E i \in new : active'[i] = n
               /\ \A n \in 1 .. L : (\A i \in DOMAIN answer : active'[i] # n) =>
                     callRecords'[n] = Ending(callRecords[n], who)
               /\ C!SaveIf(callRecords' # callRecords)
<1> DEFINE L        == Len(callRecords)
           D        == DOMAIN answer
           new      == C!Untracked(answer, who)
           old      == D \ new
           tracking == C!Tracking(answer, who)
           all      == C!Appended(answer, who)
           IndexOf(n) == CHOOSE i \in new : C!Cardinality({j \in new : j <= i}) = n
           tail     == [n \in 1 .. C!Cardinality(new) |-> C!NewRecord(answer[IndexOf(n)].call, who)]
           IsAt(n, i) == i \in D /\ tracking[i] = n
           After(n, r) ==
              IF \E i \in Index : IsAt(n, i)
              THEN C!Updated(r, answer[CHOOSE i \in Index : IsAt(n, i)])
              ELSE IF C!Open(r) THEN C!Closed(r, who) ELSE r
<1>1. /\ Len(all) <= MaxRecords
      /\ callRecords' = [n \in DOMAIN all |-> After(n, all[n])]
      /\ active' = tracking
      /\ C!SaveIf(callRecords' # callRecords)
  BY DEF C!Observe
<1>2. /\ callRecords \in Seq(C!Record) /\ L \in Nat /\ MaxRecords \in Nat
      /\ \A n \in 1 .. L : callRecords[n] \in C!Record
      /\ active \in [Index -> 0 .. L]
      /\ IsFiniteSet(Index) /\ \A i \in Index : i \in Nat
  <2>1. IsFiniteSet(Index) /\ Index \subseteq Nat \ {0} /\ MaxRecords \in Nat
    BY SameCount DEF C!HistoryAssumption
  <2>2. callRecords \in Seq(C!Record) /\ active \in [Index -> 0 .. Len(callRecords)]
    BY DEF CallType, C!TypeOK
  <2> HIDE DEF L
  <2>3. QED
    BY <2>1, <2>2 DEF L
<1>3. /\ new \subseteq D /\ new \subseteq Index /\ new \in SUBSET Nat /\ IsFiniteSet(new)
      /\ \A i \in new : active[i] = 0 \/ callRecords[active[i]].card # who
      /\ \A i \in old : active[i] \in 1 .. L /\ callRecords[active[i]].card = who /\ i \in Index
  <2>1. new \subseteq D /\ new \in SUBSET Index
    BY DEF C!Untracked
  <2>2. IsFiniteSet(new)
    BY <1>2, <2>1, FS_Subset
  <2>3. QED
    BY <1>2, <2>1, <2>2 DEF C!Untracked
<1>4. /\ Cardinality(new) \in Nat
      /\ \A i \in new : Rank(new, i) \in 1 .. Cardinality(new)
      /\ \A i, k \in new : Rank(new, i) = Rank(new, k) => i = k
      /\ \A n \in 1 .. Cardinality(new) : \E i \in new : Rank(new, i) = n
  BY <1>3, RankCounts
<1>5. /\ DOMAIN tracking = Index
      /\ \A i \in new : tracking[i] = L + Rank(new, i)
      /\ \A i \in old : tracking[i] = active[i]
      /\ \A i \in Index \ D : tracking[i] = 0
  <2>1. \A T : C!Cardinality(T) = Cardinality(T)
    BY SameCount
  <2>2. tracking = [i \in Index |->
                       CASE i \in new -> L + C!Cardinality({j \in new : j <= i})
                         [] i \in D \ new -> active[i]
                         [] i \notin D -> 0]
    BY DEF C!Tracking
  <2> HIDE DEF tracking, new
  <2>3. QED
    BY <1>3, <2>1, <2>2 DEF Rank
<1>6. /\ \A n \in 1 .. Cardinality(new) : IndexOf(n) \in new
      /\ \A i \in new : IndexOf(Rank(new, i)) = i
  <2>1. ASSUME NEW n \in 1 .. Cardinality(new)
        PROVE  IndexOf(n) \in new /\ Rank(new, IndexOf(n)) = n
    <3>1. \A T : C!Cardinality(T) = Cardinality(T)
      BY SameCount
    <3>2. PICK i \in new : C!Cardinality({j \in new : j <= i}) = n
      BY <1>4, <3>1 DEF Rank
    <3>3. IndexOf(n) \in new /\ C!Cardinality({j \in new : j <= IndexOf(n)}) = n
      BY <3>2
    <3>4. QED
      BY <3>1, <3>3 DEF Rank
  <2> HIDE DEF IndexOf
  <2>2. QED
    BY <1>4, <2>1
<1>7. /\ tail \in Seq(C!Record) /\ Len(tail) = Cardinality(new)
      /\ \A i \in new : tail[Rank(new, i)] = C!NewRecord(answer[i].call, who)
  <2>1. \A n \in 1 .. Cardinality(new) : answer[IndexOf(n)] \in C!Line
    BY <1>3, <1>6
  <2>2. ASSUME NEW l \in C!Line
        PROVE  C!NewRecord(l.call, who) \in C!Record
    BY DEF C!NewRecord, C!Record, C!Line, C!States
  <2>3. C!Cardinality(new) = Cardinality(new)
    BY SameCount
  <2>4. tail \in [1 .. Cardinality(new) -> C!Record]
    <3> HIDE DEF IndexOf, new
    <3>1. QED
      BY <2>1, <2>2, <2>3
  <2>5. \A i \in new : tail[Rank(new, i)] = C!NewRecord(answer[IndexOf(Rank(new, i))].call, who)
    BY <1>4, <2>3
  <2>6. tail \in Seq(C!Record) /\ Len(tail) = Cardinality(new)
    <3> HIDE DEF tail
    <3>1. QED
      BY <1>4, <2>4
  <2> HIDE DEF tail, IndexOf
  <2>7. QED
    BY <1>6, <2>5, <2>6
<1>8. /\ all \in Seq(C!Record) /\ Len(all) = L + Cardinality(new) /\ Len(all) \in Nat
      /\ \A n \in 1 .. L : all[n] = callRecords[n]
      /\ \A i \in new : all[tracking[i]] = C!NewRecord(answer[i].call, who)
  <2>1. all = callRecords \o tail
    BY DEF C!Appended
  <2> HIDE DEF tail, all, new, tracking, L
  <2>2. all \in Seq(C!Record) /\ Len(all) = L + Cardinality(new) /\ L \in Nat
    <3>1. callRecords \in Seq(C!Record) /\ tail \in Seq(C!Record) /\ Len(tail) = Cardinality(new)
      BY <1>2, <1>7
    <3>2. all \in Seq(C!Record) /\ Len(all) = Len(callRecords) + Len(tail)
      BY <3>1, <2>1, ConcatProperties
    <3>3. QED
      BY <3>1, <3>2, <1>2 DEF L
  <2>3. \A n \in 1 .. L : all[n] = callRecords[n]
    BY <1>2, <1>7, <2>1 DEF L
  <2>4. \A n \in 1 .. Cardinality(new) : all[L + n] = tail[n]
    BY <1>2, <1>4, <1>7, <2>1 DEF L
  <2>5. QED
    BY <1>4, <1>5, <1>7, <2>2, <2>3, <2>4
<1>9. \A i \in D : tracking[i] \in 1 .. Len(all)
  BY <1>2, <1>3, <1>4, <1>5, <1>8
<1>10. \A i, j \in D : tracking[i] = tracking[j] => i = j
  <2>1. ASSUME NEW i \in old, NEW j \in old, tracking[i] = tracking[j]
        PROVE  i = j
    BY <1>3, <1>5, <2>1 DEF C!OpenIsTracked
  <2>2. ASSUME NEW i \in new, NEW j \in new, tracking[i] = tracking[j]
        PROVE  i = j
    BY <1>2, <1>4, <1>5, <2>2
  <2>3. ASSUME NEW i \in old, NEW j \in new
        PROVE  tracking[i] # tracking[j]
    BY <1>2, <1>3, <1>4, <1>5
  <2>4. QED
    BY <2>1, <2>2, <2>3, <1>3
<1>11. ASSUME NEW i \in D, NEW r
       PROVE  After(tracking[i], r) = C!Updated(r, answer[i])
  <2>1. i \in Index /\ IsAt(tracking[i], i)
    OBVIOUS
  <2>2. \A j \in Index : IsAt(tracking[i], j) => j = i
    BY <1>10
  <2>3. (CHOOSE j \in Index : IsAt(tracking[i], j)) = i
    BY <2>1, <2>2
  <2> HIDE DEF IsAt
  <2>4. QED
    BY <2>1, <2>3
<1>12. ASSUME NEW n, \A i \in D : tracking[i] # n, NEW r
       PROVE  After(n, r) = Ending(r, who)
  BY <1>12 DEF Ending
<1> HIDE DEF After, IsAt, all, tracking, tail
<1>13. DOMAIN all = 1 .. Len(all) /\ \A n \in 1 .. Len(all) : callRecords'[n] = After(n, all[n])
  BY <1>1, <1>8
<1>14. \A n \in L + 1 .. Len(all) : \E i \in new : tracking[i] = n
  <2>1. SUFFICES ASSUME NEW n \in L + 1 .. Len(all)
                 PROVE  \E i \in new : tracking[i] = n
    OBVIOUS
  <2>2. n - L \in 1 .. Cardinality(new)
    BY <1>2, <1>4, <1>8
  <2>3. PICK i \in new : Rank(new, i) = n - L
    BY <1>4, <2>2
  <2>4. QED
    BY <1>2, <1>5, <2>2, <2>3
<1>15. ASSUME NEW n \in 1 .. Len(all)
       PROVE  callRecords'[n] \in C!Record
  <2>1. CASE \E i \in D : tracking[i] = n
    <3>1. PICK i \in D : tracking[i] = n
      BY <2>1
    <3>2. callRecords'[n] = C!Updated(all[n], answer[i])
      BY <1>11, <1>13, <3>1
    <3>3. all[n] \in C!Record /\ answer[i] \in C!Line
      BY <1>8
    <3>4. QED
      BY <3>2, <3>3 DEF C!Updated, C!Record, C!Line, C!States
  <2>2. CASE \A i \in D : tracking[i] # n
    <3>1. callRecords'[n] = Ending(all[n], who) /\ all[n] \in C!Record
      BY <1>8, <1>12, <1>13, <2>2
    <3>2. QED
      BY <3>1 DEF Ending, C!Closed, C!Record, C!States
  <2>3. QED
    BY <2>1, <2>2
<1>16. callRecords' \in Seq(C!Record) /\ Len(callRecords') = Len(all)
  <2>1. callRecords' \in [1 .. Len(all) -> C!Record]
    BY <1>1, <1>13, <1>15
  <2>2. QED
    BY <1>8, <2>1
<1>17. active' \in [Index -> 0 .. Len(callRecords')]
  <2>1. \A i \in Index : tracking[i] \in 0 .. Len(all)
    BY <1>5, <1>8, <1>9
  <2>2. DOMAIN tracking = Index /\ tracking \in [Index -> 0 .. Len(all)]
    BY <1>5, <2>1 DEF tracking, C!Tracking
  <2>3. QED
    BY <1>1, <1>16, <2>2
<1>18. \A i \in old : callRecords'[active[i]] = C!Updated(callRecords[active[i]], answer[i])
  BY <1>3, <1>5, <1>8, <1>9, <1>11, <1>13
<1>19. \A i \in new : /\ tracking[i] \in L + 1 .. Len(all)
                      /\ callRecords'[tracking[i]] = Beginning(answer, who, i)
  <2>1. \A i \in new : tracking[i] \in L + 1 .. Len(all)
    BY <1>2, <1>4, <1>5, <1>8
  <2>2. QED
    BY <2>1, <1>3, <1>8, <1>9, <1>11, <1>13 DEF Beginning
<1>20. \A n \in 1 .. L : (\A i \in D : tracking[i] # n) => callRecords'[n] = Ending(callRecords[n], who)
  BY <1>2, <1>4, <1>8, <1>12, <1>13
<1>21. /\ L \in Nat /\ Len(callRecords') \in Nat /\ L <= Len(callRecords') /\ Len(callRecords') <= MaxRecords
       /\ active' = tracking /\ Len(all) = Len(callRecords')
  BY <1>1, <1>2, <1>4, <1>8, <1>16
<1> HIDE DEF L, D, new, old
<1>22. /\ \A i \in Index \ D : active'[i] = 0
       /\ \A i \in old : /\ active'[i] = active[i] /\ active[i] \in 1 .. L
                         /\ callRecords[active[i]].card = who
                         /\ callRecords'[active[i]] = C!Updated(callRecords[active[i]], answer[i])
       /\ \A i \in new : /\ active'[i] \in L + 1 .. Len(callRecords')
                         /\ callRecords'[active'[i]] = Beginning(answer, who, i)
  BY <1>3, <1>5, <1>18, <1>19, <1>21
<1>23. /\ callRecords' \in Seq(C!Record) /\ active' \in [Index -> 0 .. Len(callRecords')]
       /\ C!SaveIf(callRecords' # callRecords)
  BY <1>1, <1>16, <1>17
<1>24. \A i, j \in D : active'[i] = active'[j] => i = j
  BY <1>10, <1>21 DEF D
<1>25. \A n \in L + 1 .. Len(callRecords') : \E i \in new : active'[i] = n
  BY <1>14, <1>21 DEF L, new
<1>26. \A n \in 1 .. L : (\A i \in D : active'[i] # n) => callRecords'[n] = Ending(callRecords[n], who)
  BY <1>20, <1>21 DEF L, D
<1>27. QED
  BY <1>21, <1>22, <1>23, <1>24, <1>25, <1>26, Zenon DEF L, D, new, old

(* What becomes of a record: it is of a listed call, and open, or it ends. *)
Goes(who, n, i) ==
    /\ i \in DOMAIN listing /\ active'[i] = n
    /\ callRecords'[n].number = listing[i].call /\ callRecords'[n].card = who
    /\ ~callRecords'[n].ended /\ callRecords'[n].state # "interrupted"
    /\ n <= Len(callRecords) => active[i] = n /\ ~callRecords[n].ended

Ends(who, n) ==
    /\ n \in 1 .. Len(callRecords) /\ \A i \in Index : active'[i] # n
    /\ callRecords'[n].number = callRecords[n].number /\ callRecords'[n].card = callRecords[n].card
    /\ C!Open(callRecords[n]) =>
          /\ callRecords'[n].ended
          /\ callRecords[n].card # who => callRecords'[n].state = "interrupted"
    /\ ~C!Open(callRecords[n]) => callRecords'[n] = callRecords[n]

(* Every record has one of the two fates, and new calls come last.         *)
LEMMA ObserveFates ==
    ASSUME C!HistoryAssumption, CallType, C!OpenIsTracked, NEW who \in Card \cup {NoCard},
           C!Observe(listing, who)
    PROVE  /\ Len(callRecords) \in Nat /\ callRecords' \in Seq(C!Record)
           /\ Len(callRecords') \in Nat /\ Len(callRecords) <= Len(callRecords')
           /\ Len(callRecords') <= MaxRecords
           /\ active' \in [Index -> 0 .. Len(callRecords')]
           /\ \A n \in 1 .. Len(callRecords') : Ends(who, n) \/ \E i \in DOMAIN listing : Goes(who, n, i)
           /\ \A i \in Index : active'[i] # 0 => i \in DOMAIN listing /\ Goes(who, active'[i], i)
           /\ \A i \in DOMAIN listing : active[i] # 0 => active'[i] = active[i] \/ active'[i] > Len(callRecords)
           /\ \A i \in DOMAIN listing :
                active[i] # 0 /\ callRecords[active[i]].card = who => active'[i] = active[i]
           /\ \A i, j \in DOMAIN listing : active'[i] = active'[j] => i = j
           /\ C!SaveIf(callRecords' # callRecords)
<1> DEFINE L   == Len(callRecords)
           D   == DOMAIN listing
           new == C!Untracked(listing, who)
           old == D \ new
<1>1. D \subseteq Index /\ \A i \in D : listing[i] \in C!Line
  BY DEF CallType, C!TypeOK
<1>2. /\ L \in Nat /\ callRecords' \in Seq(C!Record)
      /\ Len(callRecords') \in Nat /\ L <= Len(callRecords') /\ Len(callRecords') <= MaxRecords
      /\ active' \in [Index -> 0 .. Len(callRecords')]
      /\ \A i \in Index \ D : active'[i] = 0
      /\ \A i \in old : /\ active'[i] = active[i] /\ active[i] \in 1 .. L
                        /\ callRecords[active[i]].card = who
                        /\ callRecords'[active[i]] = C!Updated(callRecords[active[i]], listing[i])
      /\ \A i \in new : /\ active'[i] \in L + 1 .. Len(callRecords')
                        /\ callRecords'[active'[i]] = Beginning(listing, who, i)
      /\ \A i, j \in D : active'[i] = active'[j] => i = j
      /\ \A n \in L + 1 .. Len(callRecords') : \E i \in new : active'[i] = n
      /\ \A n \in 1 .. L : (\A i \in D : active'[i] # n) =>
            callRecords'[n] = Ending(callRecords[n], who)
      /\ C!SaveIf(callRecords' # callRecords)
  BY <1>1, ObserveGives, Zenon
<1>3. new \subseteq D /\ \A i \in new : active[i] = 0 \/ callRecords[active[i]].card # who
  BY DEF C!Untracked
<1>4. /\ \A n \in 1 .. L : callRecords[n] \in C!Record
      /\ \A n \in 1 .. L : C!Open(callRecords[n]) <=> \E i \in Index : active[i] = n
      /\ active \in [Index -> 0 .. L]
  BY DEF CallType, C!TypeOK, C!OpenIsTracked, C!IsActive
<1> HIDE DEF new, D, L
<1>5. ASSUME NEW i \in new
      PROVE  Goes(who, active'[i], i)
  <2>1. callRecords'[active'[i]] = Beginning(listing, who, i) /\ listing[i] \in C!Line /\ i \in D
    BY <1>1, <1>2, <1>3
  <2>2. active'[i] \in L + 1 .. Len(callRecords')
    BY <1>2
  <2>3. ~(active'[i] <= L)
    BY <1>2, <2>2
  <2>4. QED
    BY <2>1, <2>3 DEF Goes, Beginning, C!Updated, C!NewRecord, C!Line, D, L
<1>6. ASSUME NEW i \in old
      PROVE  Goes(who, active'[i], i)
  <2>1. /\ active'[i] = active[i] /\ active[i] \in 1 .. L /\ callRecords[active[i]].card = who
        /\ callRecords'[active[i]] = C!Updated(callRecords[active[i]], listing[i])
        /\ i \in D /\ i \in Index /\ listing[i] \in C!Line
    BY <1>1, <1>2
  <2>2. C!Open(callRecords[active[i]]) /\ callRecords[active[i]] \in C!Record
    BY <1>4, <2>1
  <2>3. QED
    BY <2>1, <2>2 DEF Goes, C!Updated, C!Open, C!Record, C!Line, D, L
<1>7. \A i \in D : Goes(who, active'[i], i)
  BY <1>3, <1>5, <1>6
<1>8. ASSUME NEW n \in 1 .. Len(callRecords'), \A i \in D : active'[i] # n
      PROVE  Ends(who, n)
  <2>1. n \in 1 .. L
    BY <1>2, <1>3, <1>8
  <2>2. callRecords'[n] = Ending(callRecords[n], who) /\ callRecords[n] \in C!Record
    BY <1>2, <1>4, <1>8, <2>1
  <2>3. \A i \in Index : active'[i] # n
    BY <1>2, <1>8, <2>1
  <2>4. QED
    BY <2>1, <2>2, <2>3 DEF Ends, Ending, C!Closed, C!Record, L
<1>9. \A n \in 1 .. Len(callRecords') : Ends(who, n) \/ \E i \in D : Goes(who, n, i)
  BY <1>7, <1>8
<1>10. \A i \in Index : active'[i] # 0 => i \in D /\ Goes(who, active'[i], i)
  BY <1>2, <1>7
<1>11. \A i \in D : active[i] # 0 => active'[i] = active[i] \/ active'[i] > L
  BY <1>2, <1>3
<1>12. \A i \in D : active[i] # 0 /\ callRecords[active[i]].card = who => active'[i] = active[i]
  BY <1>2, <1>3
<1>13. QED
  BY <1>2, <1>9, <1>10, <1>11, <1>12, Zenon DEF L, D

(* Next, one disjunct per actor.                                           *)
LEMMA CallCases ==
    ASSUME [C!Next]_(C!vars)
    PROVE  \/ \E c \in Call, i \in Index : C!CallBegins(c, i)
           \/ \E i \in Index : C!CallIsAnswered(i) \/ C!CallEnds(i)
           \/ C!ChangeCard \/ C!ReadBefore \/ C!QueryCalls \/ C!QueryFails \/ C!CaptureFails
           \/ C!FinishObservation \/ C!AppendHistory \/ C!AppendKnown \/ C!Restart
           \/ UNCHANGED C!vars
BY DEF C!Next

(* What a finished observation hands to observe: an identity that was read *)
(* twice, or none.                                                         *)
LEMMA FinishGives ==
    ASSUME CallType, C!FinishObservation
    PROVE  /\ callPC = "confirm" /\ callPC' = "idle" /\ before' = NoCard /\ listing' = C!Nothing
           /\ UNCHANGED <<callCard, line, talking, carrier, callSwapped>>
           /\ cut' = {} /\ misjudged' = misjudged \cup (cut \cap C!ClosedNow)
           /\ \E who \in Card \cup {NoCard} :
                /\ C!Observe(listing, who)
                /\ who # NoCard => before = who /\ callCard = who
BY DEF C!FinishObservation, C!EndObservation, C!external, C!ConfirmedHistoryIdentity, C!ReadIdentity,
       CallType, C!TypeOK

(* Only a saved log is clean, and what is saved is the whole log.          *)
LEMMA SaveGives ==
    ASSUME CallType, DiskInv, callRecords' \in Seq(C!Record), Len(callRecords) <= Len(callRecords'),
           \A n \in 1 .. Len(callRecords) : callRecords[n].ended => callRecords'[n].ended,
           C!Save \/ C!SaveIf(callRecords' # callRecords)
    PROVE  /\ DiskInv' /\ callDirty' \in BOOLEAN
           /\ callDurable' = callDurable \/ callDurable' = callRecords'
<1>1. callDurable \in Seq(C!Record) /\ callRecords \in Seq(C!Record) /\ callDirty \in BOOLEAN
  BY DEF CallType, C!TypeOK
<1>2. /\ Len(callDurable) <= Len(callRecords)
      /\ ~callDirty => callDurable = callRecords
      /\ \A n \in 1 .. Len(callDurable) : callDurable[n].ended => callRecords[n].ended
  BY <1>1 DEF DiskInv, C!CleanIsDurable
<1>3. \/ callDurable' = callRecords' /\ callDirty' = FALSE
      \/ callDurable' = callDurable /\ callDirty' = TRUE
      \/ callRecords' = callRecords /\ callDurable' = callDurable /\ callDirty' = callDirty /\ callDirty = FALSE
  BY <1>1 DEF C!Save, C!SaveIf
<1>4. CASE callDurable' = callRecords'
  <2>1. Len(callRecords') <= Len(callRecords')
    <3>1. Len(callRecords') \in Nat
      OBVIOUS
    <3>2. QED
      BY <3>1
  <2>2. DiskInv'
    BY <1>4, <2>1 DEF DiskInv, C!CleanIsDurable
  <2>3. QED
    BY <1>1, <1>3, <1>4, <2>2
<1>5. CASE callDurable' = callDurable /\ callDirty' = TRUE
  <2>1. Len(callDurable) <= Len(callRecords') /\ Len(callDurable) \in Nat /\ Len(callRecords) \in Nat
    BY <1>1, <1>2
  <2>2. \A n \in 1 .. Len(callDurable) : n \in 1 .. Len(callRecords)
    BY <1>1, <1>2, <2>1
  <2>3. \A n \in 1 .. Len(callDurable) : callDurable[n].ended => callRecords'[n].ended
    BY <1>2, <2>2
  <2>4. DOMAIN callDurable = 1 .. Len(callDurable)
    BY <1>1
  <2>5. QED
    BY <1>5, <2>1, <2>3, <2>4 DEF DiskInv, C!CleanIsDurable
<1>6. CASE callRecords' = callRecords /\ callDurable' = callDurable /\ callDirty' = callDirty
  BY <1>1, <1>6 DEF DiskInv, C!CleanIsDurable
<1>7. QED
  BY <1>3, <1>4, <1>5, <1>6

(* interrupt: the tracked records are marked, and nothing is tracked.      *)
LEMMA InterruptGives ==
    ASSUME CallType, DiskInv, C!Interrupt
    PROVE  /\ callRecords' \in Seq(C!Record) /\ Len(callRecords') = Len(callRecords)
           /\ \A n \in 1 .. Len(callRecords) :
                 IF C!IsActive(n)
                 THEN callRecords'[n] = [callRecords[n] EXCEPT !.state = "interrupted"]
                 ELSE callRecords'[n] = callRecords[n]
           /\ active' = [i \in Index |-> 0]
           /\ DiskInv' /\ callDirty' \in BOOLEAN
           /\ callDurable' = callDurable \/ callDurable' = callRecords'
<1>1. callRecords \in Seq(C!Record) /\ active \in [Index -> 0 .. Len(callRecords)]
  BY DEF CallType, C!TypeOK
<1>2. /\ callRecords' = [n \in 1 .. Len(callRecords) |->
              IF C!IsActive(n) THEN [callRecords[n] EXCEPT !.state = "interrupted"] ELSE callRecords[n]]
      /\ active' = [i \in Index |-> 0]
      /\ C!SaveIf(\E i \in Index : active[i] # 0)
  <2>1. DOMAIN callRecords = 1 .. Len(callRecords)
    BY <1>1
  <2>2. QED
    BY <2>1, Zenon DEF C!Interrupt
<1>3. \A n \in 1 .. Len(callRecords) : callRecords[n] \in C!Record
  BY <1>1
<1>4. \A n \in 1 .. Len(callRecords) : [callRecords[n] EXCEPT !.state = "interrupted"] \in C!Record
  BY <1>3 DEF C!Record, C!States
<1>5. callRecords' \in [1 .. Len(callRecords) -> C!Record]
  BY <1>2, <1>3, <1>4
<1>6. callRecords' \in Seq(C!Record) /\ Len(callRecords') = Len(callRecords)
  BY <1>1, <1>5
<1>7. \A n \in 1 .. Len(callRecords) :
         IF C!IsActive(n)
         THEN callRecords'[n] = [callRecords[n] EXCEPT !.state = "interrupted"]
         ELSE callRecords'[n] = callRecords[n]
  BY <1>2
<1>8. \A n \in 1 .. Len(callRecords) : callRecords[n].ended => callRecords'[n].ended
  BY <1>3, <1>7 DEF C!Record
<1>9. C!Save \/ C!SaveIf(callRecords' # callRecords)
  <2>1. CASE \E i \in Index : active[i] # 0
    BY <1>2, <2>1 DEF C!SaveIf
  <2>2. CASE \A i \in Index : active[i] = 0
    <3>1. \A n \in 1 .. Len(callRecords) : ~C!IsActive(n)
      BY <2>2 DEF C!IsActive
    <3>2. callRecords' = [n \in 1 .. Len(callRecords) |-> callRecords[n]]
      BY <1>2, <3>1
    <3>3. callRecords' = callRecords
      BY <1>1, <3>2
    <3>4. QED
      BY <1>2, <2>2, <3>3 DEF C!SaveIf
  <2>3. QED
    BY <2>1, <2>2
<1>10. QED
  BY <1>1, <1>2, <1>6, <1>7, <1>8, <1>9, SaveGives

(* initHistory: the rows are those on disk, the open ones marked.          *)
LEMMA RestartGives ==
    ASSUME CallType, C!Restart
    PROVE  /\ callRecords' \in Seq(C!Record) /\ Len(callRecords') = Len(callDurable)
           /\ \A n \in 1 .. Len(callDurable) :
                 IF callDurable[n].number # NoCall /\ ~callDurable[n].ended
                 THEN callRecords'[n] = [callDurable[n] EXCEPT !.state = "interrupted"]
                 ELSE callRecords'[n] = callDurable[n]
           /\ active' = [i \in Index |-> 0]
           /\ callDurable' = callRecords' /\ callDirty' = FALSE
           /\ callPC' = "idle" /\ before' = NoCard /\ listing' = C!Nothing
           /\ cut' = {}
           /\ UNCHANGED <<callCard, line, talking, carrier, callSwapped, misjudged>>
<1>1. callDurable \in Seq(C!Record)
  BY DEF CallType, C!TypeOK
<1>2. callRecords' = [n \in 1 .. Len(callDurable) |->
            IF callDurable[n].number # NoCall /\ ~callDurable[n].ended
            THEN [callDurable[n] EXCEPT !.state = "interrupted"] ELSE callDurable[n]]
  BY <1>1 DEF C!Restart, C!Reloaded
<1>3. \A n \in 1 .. Len(callDurable) : callDurable[n] \in C!Record
  BY <1>1
<1>4. \A n \in 1 .. Len(callDurable) : [callDurable[n] EXCEPT !.state = "interrupted"] \in C!Record
  BY <1>3 DEF C!Record, C!States
<1>5. callRecords' \in [1 .. Len(callDurable) -> C!Record]
  BY <1>2, <1>3, <1>4
<1>6. callRecords' \in Seq(C!Record) /\ Len(callRecords') = Len(callDurable)
  BY <1>1, <1>5
<1>7. QED
  BY <1>2, <1>6 DEF C!Restart, C!EndObservation, C!external

(* A record that has ended does not begin again.                           *)
LEMMA ObserveEnds ==
    ASSUME C!HistoryAssumption, CallType, C!OpenIsTracked, NEW who \in Card \cup {NoCard},
           C!Observe(listing, who)
    PROVE  \A n \in 1 .. Len(callRecords) : callRecords[n].ended => callRecords'[n].ended
<1>1. SUFFICES ASSUME NEW n \in 1 .. Len(callRecords), callRecords[n].ended
               PROVE  callRecords'[n].ended
  OBVIOUS
<1>2. /\ Len(callRecords) \in Nat /\ Len(callRecords') \in Nat /\ Len(callRecords) <= Len(callRecords')
      /\ \A m \in 1 .. Len(callRecords') : Ends(who, m) \/ \E i \in DOMAIN listing : Goes(who, m, i)
  BY ObserveFates
<1>3. Ends(who, n) \/ \E i \in DOMAIN listing : Goes(who, n, i)
  BY <1>1, <1>2
<1>4. QED
  BY <1>1, <1>3 DEF Ends, Goes

(* appendHistory: one record more, of no call.                             *)
LEMMA AppendGives ==
    ASSUME MaxRecords \in Nat, CallType, DiskInv, C!AppendHistory \/ C!AppendKnown
    PROVE  /\ callRecords' \in Seq(C!Record) /\ Len(callRecords) \in Nat /\ Len(callRecords') \in Nat
           /\ Len(callRecords) <= Len(callRecords') /\ Len(callRecords') <= MaxRecords
           /\ \A n \in 1 .. Len(callRecords) : callRecords'[n] = callRecords[n]
           /\ \A n \in 1 .. Len(callRecords') : n \in 1 .. Len(callRecords) \/ callRecords'[n].number = NoCall
           /\ DiskInv' /\ callDirty' \in BOOLEAN
           /\ callDurable' = callDurable \/ callDurable' = callRecords'
           /\ UNCHANGED <<C!external, callSwapped, C!observer, active, C!errors>>
<1>1. callRecords \in Seq(C!Record) /\ Len(callRecords) <= MaxRecords /\ Len(callRecords) \in Nat
  BY DEF CallType, C!TypeOK
<1>2. /\ C!Save /\ UNCHANGED <<C!external, callSwapped, C!observer, active, C!errors>>
      /\ \/ callRecords' = callRecords
         \/ /\ Len(callRecords) < MaxRecords
            /\ \E r \in C!Record : callRecords' = Append(callRecords, r) /\ r.number = NoCall
  <2>1. [card |-> NoCard, number |-> NoCall, incoming |-> FALSE,
         connected |-> FALSE, ended |-> TRUE, state |-> "closed"] \in C!Record
    BY DEF C!Record, C!States
  <2>2. QED
    BY <2>1 DEF C!AppendHistory, C!AppendKnown
<1>3. CASE callRecords' = callRecords
  <2>1. DiskInv' /\ callDirty' \in BOOLEAN /\ (callDurable' = callDurable \/ callDurable' = callRecords')
    BY <1>1, <1>2, <1>3, SaveGives
  <2>2. QED
    BY <1>1, <1>2, <1>3, <2>1
<1>4. ASSUME NEW r \in C!Record, callRecords' = Append(callRecords, r), r.number = NoCall,
             Len(callRecords) < MaxRecords
      PROVE  /\ callRecords' \in Seq(C!Record) /\ Len(callRecords') = Len(callRecords) + 1
             /\ Len(callRecords') <= MaxRecords
             /\ \A n \in 1 .. Len(callRecords) : callRecords'[n] = callRecords[n]
             /\ callRecords'[Len(callRecords) + 1].number = NoCall
  <2>1. /\ callRecords' \in Seq(C!Record) /\ Len(callRecords') = Len(callRecords) + 1
        /\ \A n \in 1 .. Len(callRecords) : callRecords'[n] = callRecords[n]
        /\ callRecords'[Len(callRecords) + 1] = r
    BY <1>1, <1>4, AppendProperties
  <2>2. Len(callRecords') <= MaxRecords
    BY <1>1, <1>4, <2>1
  <2>3. QED
    BY <1>4, <2>1, <2>2
<1>5. CASE \E r \in C!Record : callRecords' = Append(callRecords, r) /\ r.number = NoCall /\ Len(callRecords) < MaxRecords
  <2>1. /\ callRecords' \in Seq(C!Record) /\ Len(callRecords') = Len(callRecords) + 1
        /\ Len(callRecords') <= MaxRecords
        /\ \A n \in 1 .. Len(callRecords) : callRecords'[n] = callRecords[n]
        /\ callRecords'[Len(callRecords) + 1].number = NoCall
    BY <1>4, <1>5
  <2>2. Len(callRecords') \in Nat /\ Len(callRecords) <= Len(callRecords')
    BY <1>1, <2>1
  <2>3. \A n \in 1 .. Len(callRecords') : n \in 1 .. Len(callRecords) \/ n = Len(callRecords) + 1
    BY <1>1, <2>1
  <2>4. DiskInv' /\ callDirty' \in BOOLEAN /\ (callDurable' = callDurable \/ callDurable' = callRecords')
    BY <1>2, <2>1, <2>2, SaveGives
  <2>5. QED
    BY <1>1, <1>2, <2>1, <2>2, <2>3, <2>4
<1>6. QED
  BY <1>2, <1>3, <1>5

(* A call keeps its card, and what is gone does not come back.             *)
LEMMA CallsKept ==
    ASSUME C!HistoryAssumption, CallType, [C!Next]_(C!vars)
    PROVE  /\ \A c \in Call : carrier[c] # NoCard => carrier'[c] = carrier[c]
           /\ GoneCalls \subseteq GoneCalls'
<1> USE DEF GoneCalls, C!Over, Listed
<1>1. carrier \in [Call -> Card \cup {NoCard}] /\ line \in [Index -> Call \cup {NoCall}]
  BY DEF CallType, C!TypeOK
<1>2. ASSUME NEW c \in Call, NEW i \in Index, C!CallBegins(c, i)
      PROVE  (\A d \in Call : carrier[d] # NoCard => carrier'[d] = carrier[d]) /\ GoneCalls \subseteq GoneCalls'
  <2>1. /\ carrier[c] = NoCard /\ carrier' = [carrier EXCEPT ![c] = callCard]
        /\ line' = [line EXCEPT ![i] = c] /\ UNCHANGED <<callPC, listing>>
    BY <1>2 DEF C!CallBegins, C!observer
  <2>2. \A d \in Call : carrier[d] # NoCard => d # c /\ carrier'[d] = carrier[d]
    BY <1>1, <2>1
  <2>3. \A d \in Call, j \in Index : d # c /\ line[j] # d => line'[j] # d
    BY <1>1, <2>1
  <2>4. QED
    BY <2>1, <2>2, <2>3
<1>3. ASSUME C!ChangeCard \/ \E i \in Index : C!CallEnds(i)
      PROVE  (\A d \in Call : carrier[d] # NoCard => carrier'[d] = carrier[d]) /\ GoneCalls \subseteq GoneCalls'
  <2>1. UNCHANGED <<carrier, callPC, listing>> /\ \A j \in Index : line'[j] \in {line[j], NoCall}
    BY <1>1, <1>3 DEF C!ChangeCard, C!CallEnds, C!observer
  <2>2. NoCall \notin Call
    BY DEF C!HistoryAssumption
  <2>3. QED
    BY <2>1, <2>2
<1>4. ASSUME C!QueryCalls
      PROVE  UNCHANGED <<carrier, line>> /\ \A c, i : Listed(c, i)' => i \in Index /\ line[i] = c
  <2>1. UNCHANGED <<carrier, line>> /\ listing' \in C!Answers
    BY <1>4 DEF C!QueryCalls, C!external
  <2>2. DOMAIN listing' \subseteq Index /\ \A i \in DOMAIN listing' : listing'[i].call = line[i]
    BY <2>1 DEF C!Answers
  <2>3. QED
    BY <2>1, <2>2
<1>5. ASSUME \/ C!ReadBefore \/ C!QueryFails \/ C!CaptureFails \/ C!FinishObservation \/ C!Restart
      PROVE  UNCHANGED <<carrier, line>> /\ callPC' # "confirm"
  BY <1>5 DEF C!ReadBefore, C!QueryFails, C!CaptureFails, C!FinishObservation, C!Restart,
              C!EndObservation, C!external
<1>6. ASSUME \/ \E i \in Index : C!CallIsAnswered(i)
             \/ C!AppendHistory \/ C!AppendKnown \/ UNCHANGED C!vars
      PROVE  UNCHANGED <<carrier, line, callPC, listing>>
  BY <1>6 DEF C!CallIsAnswered, C!AppendHistory, C!AppendKnown, C!vars, C!external, C!observer
<1>7. QED
  BY <1>2, <1>3, <1>4, <1>5, <1>6, CallCases

(* What was misjudged stays so.                                            *)
LEMMA MisjudgedKept ==
    ASSUME [C!Next]_(C!vars)
    PROVE  misjudged \subseteq misjudged'
<1>1. ASSUME C!FinishObservation
      PROVE  misjudged \subseteq misjudged'
  BY <1>1 DEF C!FinishObservation
<1>2. ASSUME \/ \E c \in Call, i \in Index : C!CallBegins(c, i)
             \/ \E i \in Index : C!CallIsAnswered(i) \/ C!CallEnds(i)
             \/ C!ChangeCard \/ C!ReadBefore \/ C!QueryCalls \/ C!QueryFails
             \/ C!CaptureFails \/ C!AppendHistory \/ C!AppendKnown \/ C!Restart
             \/ UNCHANGED C!vars
      PROVE  misjudged' = misjudged
  BY <1>2 DEF C!CallBegins, C!CallIsAnswered, C!CallEnds, C!ChangeCard, C!ReadBefore, C!QueryCalls,
              C!QueryFails, C!CaptureFails, C!AppendHistory, C!AppendKnown, C!Restart, C!vars,
              C!errors
<1>3. QED
  BY <1>1, <1>2, CallCases

(* Rows that stay as they are, or are marked, or are of no call.           *)
Follows(new, rows) ==
    \A n \in 1 .. Len(new) :
        \/ new[n].number = NoCall
        \/ /\ n \in 1 .. Len(rows)
           /\ new[n].number = rows[n].number /\ new[n].card = rows[n].card /\ new[n].ended = rows[n].ended
           /\ new[n].state \in {rows[n].state, "interrupted"}

LEMMA RowsFollow ==
    ASSUME NEW rows \in Seq(C!Record), NEW new \in Seq(C!Record), NEW came, NEW then, NEW gone, NEW over,
           NEW wrong, NEW more, wrong \subseteq more,
           \A c \in Call : came[c] # NoCard => then[c] = came[c], gone \subseteq over,
           RowsInv(rows, came, gone, wrong), Follows(new, rows)
    PROVE  RowsInv(new, then, over, more)
<1>1. DOMAIN rows = 1 .. Len(rows) /\ DOMAIN new = 1 .. Len(new)
  OBVIOUS
<1>2. \A n \in 1 .. Len(rows) : rows[n].number \in Call \cup {NoCall}
  <2>1. \A n \in 1 .. Len(rows) : rows[n] \in C!Record
    OBVIOUS
  <2>2. QED
    BY <2>1 DEF C!Record
<1>3. ASSUME NEW n \in 1 .. Len(new), new[n].number # NoCall
      PROVE  /\ n \in 1 .. Len(rows)
             /\ new[n].number = rows[n].number /\ new[n].card = rows[n].card /\ new[n].ended = rows[n].ended
             /\ new[n].state \in {rows[n].state, "interrupted"}
             /\ came[rows[n].number] # NoCard /\ then[rows[n].number] = came[rows[n].number]
  BY <1>1, <1>2, <1>3 DEF Follows, RowsInv
<1>4. \A n \in DOMAIN new : new[n].number # NoCall =>
          /\ then[new[n].number] # NoCard
          /\ new[n].card # NoCard => new[n].card = then[new[n].number]
  BY <1>1, <1>3 DEF RowsInv
<1>5. Marked(new, more)
  <2>1. SUFFICES ASSUME NEW m \in 1 .. Len(new), NEW n \in 1 .. Len(new), m < n,
                        new[m].number = new[n].number, new[m].number # NoCall
                 PROVE  new[m].state = "interrupted" \/ new[m].number \in more
    BY <1>1 DEF Marked
  <2>2. rows[m].state = "interrupted" \/ rows[m].number \in wrong
    BY <1>1, <1>3, <2>1 DEF RowsInv, Marked
  <2>3. QED
    BY <1>3, <2>1, <2>2
<1>6. \A n \in DOMAIN new : Final(new[n]) => new[n].number \in over \cup more
  BY <1>1, <1>3 DEF RowsInv, Final
<1>7. QED
  BY <1>4, <1>5, <1>6 DEF RowsInv

(* Every step keeps the types.                                             *)
LEMMA CallTypeStep ==
    ASSUME C!HistoryAssumption, CallInv, [C!Next]_(C!vars)
    PROVE  CallType'
<1> USE DEF CallType, C!TypeOK, C!external, C!observer, C!log, C!errors, C!vars
<1>0. CallType /\ DiskInv /\ C!OpenIsTracked /\ MaxRecords \in Nat
  BY DEF CallInv, C!HistoryAssumption
<1>1. ASSUME NEW c \in Call, NEW i \in Index, C!CallBegins(c, i)
      PROVE  CallType'
  BY <1>0, <1>1 DEF C!CallBegins
<1>2. ASSUME NEW i \in Index, C!CallIsAnswered(i)
      PROVE  CallType'
  BY <1>0, <1>2 DEF C!CallIsAnswered
<1>3. ASSUME NEW i \in Index, C!CallEnds(i)
      PROVE  CallType'
  BY <1>0, <1>3 DEF C!CallEnds
<1>4. ASSUME C!ChangeCard
      PROVE  CallType'
  BY <1>0, <1>4 DEF C!ChangeCard
<1>5. ASSUME C!ReadBefore
      PROVE  CallType'
  BY <1>0, <1>5 DEF C!ReadBefore, C!ReadIdentity
<1>6. ASSUME C!QueryCalls
      PROVE  CallType'
  <2>1. /\ listing' \in C!Answers /\ callPC' = "confirm"
        /\ UNCHANGED <<C!external, callSwapped, before, C!log>>
    BY <1>6 DEF C!QueryCalls
  <2>2. PICK shown \in SUBSET {i \in Index : line[i] # NoCall} :
            listing' = [i \in shown |-> [call |-> line[i], talking |-> line[i] \in talking]]
    BY <2>1 DEF C!Answers
  <2>3. DOMAIN listing' \subseteq Index
    BY <2>2
  <2>4. \A i \in DOMAIN listing' : listing'[i] \in C!Line
    BY <1>0, <2>2 DEF C!Line
  <2>5. cut' \subseteq Call /\ misjudged' = misjudged
    BY <1>0, <1>6 DEF C!QueryCalls
  <2>6. QED
    BY <1>0, <2>1, <2>3, <2>4, <2>5
<1>7. ASSUME callPC' = "idle", before' = NoCard, listing' = C!Nothing, cut' = {},
             misjudged' \subseteq Call,
             UNCHANGED <<callCard, line, talking, carrier, callSwapped>>,
             callRecords' \in Seq(C!Record), callDurable' \in Seq(C!Record),
             Len(callRecords') <= MaxRecords, Len(callDurable') <= MaxRecords,
             active' \in [Index -> 0 .. Len(callRecords')], callDirty' \in BOOLEAN
      PROVE  CallType'
  BY <1>0, <1>7 DEF C!Nothing
<1>8. ASSUME C!QueryFails
      PROVE  CallType'
  <2>1. /\ C!Interrupt /\ callPC' = "idle" /\ before' = NoCard /\ listing' = C!Nothing
        /\ cut' = {} /\ misjudged' \subseteq Call
        /\ UNCHANGED <<callCard, line, talking, carrier, callSwapped>>
    BY <1>0, <1>8 DEF C!QueryFails, C!EndObservation
  <2>2. /\ callRecords' \in Seq(C!Record) /\ Len(callRecords') = Len(callRecords)
        /\ active' = [i \in Index |-> 0]
        /\ callDirty' \in BOOLEAN
        /\ callDurable' = callDurable \/ callDurable' = callRecords'
    BY <1>0, <2>1, InterruptGives
  <2>3. active' \in [Index -> 0 .. Len(callRecords')]
    BY <1>0, <2>2
  <2>4. QED
    BY <1>0, <1>7, <2>1, <2>2, <2>3
<1>9. ASSUME C!CaptureFails
      PROVE  CallType'
  <2>1. /\ callPC' = "idle" /\ before' = NoCard /\ listing' = C!Nothing
        /\ UNCHANGED <<callCard, line, talking, carrier, callSwapped, C!log>>
        /\ cut' = {} /\ misjudged' \subseteq Call
    BY <1>0, <1>9 DEF C!CaptureFails, C!EndObservation
  <2>2. QED
    BY <1>0, <1>7, <2>1
<1>10. ASSUME C!FinishObservation
       PROVE  CallType'
  <2>1. PICK who \in Card \cup {NoCard} : C!Observe(listing, who)
    BY <1>0, <1>10, FinishGives
  <2>2. /\ Len(callRecords) \in Nat /\ callRecords' \in Seq(C!Record)
        /\ Len(callRecords) <= Len(callRecords') /\ Len(callRecords') <= MaxRecords
        /\ active' \in [Index -> 0 .. Len(callRecords')]
        /\ \A n \in 1 .. Len(callRecords') : Ends(who, n) \/ \E i \in DOMAIN listing : Goes(who, n, i)
        /\ C!SaveIf(callRecords' # callRecords)
    BY <1>0, <2>1, ObserveFates
  <2>3. \A n \in 1 .. Len(callRecords) : callRecords[n].ended => callRecords'[n].ended
    BY <1>0, <2>2, ObserveEnds, <2>1
  <2>4. /\ callDirty' \in BOOLEAN
        /\ callDurable' = callDurable \/ callDurable' = callRecords'
    BY <1>0, <2>2, <2>3, SaveGives
  <2>5. cut' = {} /\ misjudged' \subseteq Call
    BY <1>0, <1>10, FinishGives
  <2>6. QED
    BY <1>0, <1>7, <1>10, <2>2, <2>4, <2>5, FinishGives
<1>11. ASSUME C!AppendHistory \/ C!AppendKnown
       PROVE  CallType'
  <2>1. /\ callRecords' \in Seq(C!Record) /\ Len(callRecords) <= Len(callRecords')
        /\ Len(callRecords') <= MaxRecords
        /\ callDirty' \in BOOLEAN /\ active' = active
        /\ callDurable' = callDurable \/ callDurable' = callRecords'
        /\ UNCHANGED <<C!external, callSwapped, C!observer, C!errors>>
    BY <1>0, <1>11, AppendGives
  <2>2. active' \in [Index -> 0 .. Len(callRecords')]
    BY <1>0, <2>1
  <2>3. QED
    BY <1>0, <2>1, <2>2
<1>12. ASSUME C!Restart
       PROVE  CallType'
  <2>1. /\ callRecords' \in Seq(C!Record) /\ Len(callRecords') = Len(callDurable)
        /\ active' = [i \in Index |-> 0]
        /\ callDurable' = callRecords' /\ callDirty' = FALSE
        /\ callPC' = "idle" /\ before' = NoCard /\ listing' = C!Nothing
        /\ UNCHANGED <<callCard, line, talking, carrier, callSwapped>>
        /\ cut' = {} /\ misjudged' \subseteq Call
    BY <1>0, <1>12, RestartGives
  <2>2. active' \in [Index -> 0 .. Len(callRecords')]
    BY <1>0, <2>1
  <2>3. QED
    BY <1>0, <1>7, <2>1, <2>2
<1>13. ASSUME UNCHANGED C!vars
       PROVE  CallType'
  BY <1>0, <1>13
<1>14. QED
  BY <1>1, <1>2, <1>3, <1>4, <1>5, <1>6, <1>8, <1>9, <1>10, <1>11, <1>12, <1>13, CallCases, Zenon

(***************************************************************************)
(* The index of a call.                                                    *)
(***************************************************************************)
(* Where no call comes to a new place, each still has one.                 *)
LEMMA PlaceKept ==
    ASSUME PlaceInv, carrier' = carrier,
           \A i \in Index : line'[i] # NoCall => line'[i] = line[i] /\ callCard' = callCard,
           \A c \in Call, i \in Index : At(c, i)' => At(c, i),
           \A c \in Call, i \in Index, n \in DOMAIN callRecords' :
              At(c, i)' /\ active'[i] # 0 /\ callRecords'[n].number = c => n <= active'[i]
    PROVE  PlaceInv'
<1> USE DEF PlaceInv
<1>1. \A i \in Index : line'[i] # NoCall => carrier'[line'[i]] = callCard' /\ callCard' # NoCard
  OBVIOUS
<1>2. \A c \in Call, i \in Index : At(c, i)' => carrier'[c] # NoCard
  OBVIOUS
<1>3. \A c \in Call, i, j \in Index : At(c, i)' /\ At(c, j)' => i = j
  OBVIOUS
<1>4. QED
  BY <1>1, <1>2, <1>3, Zenon

(* A call begins where none is, an answer shows what is on the line, and   *)
(* observe tracks what the answer shows.                                   *)
LEMMA PlaceStep ==
    ASSUME C!HistoryAssumption, CallInv, [C!Next]_(C!vars)
    PROVE  PlaceInv'
<1>0. CallType /\ DiskInv /\ C!OpenIsTracked /\ PlaceInv /\ MaxRecords \in Nat /\ NoCall \notin Call
  BY DEF CallInv, C!HistoryAssumption
<1>1. /\ carrier \in [Call -> Card \cup {NoCard}] /\ line \in [Index -> Call \cup {NoCall}]
      /\ callRecords \in Seq(C!Record) /\ DOMAIN callRecords = 1 .. Len(callRecords)
      /\ active \in [Index -> 0 .. Len(callRecords)]
      /\ \A n \in 1 .. Len(callRecords) : callRecords[n].number \in Call \cup {NoCall}
      /\ DOMAIN listing \subseteq Index
  <2>1. callRecords \in Seq(C!Record)
    BY <1>0 DEF CallType, C!TypeOK
  <2>2. \A n \in 1 .. Len(callRecords) : callRecords[n] \in C!Record
    BY <2>1
  <2>3. QED
    BY <1>0, <2>1, <2>2 DEF CallType, C!TypeOK, C!Record
<1>2. ASSUME NEW c \in Call, NEW i \in Index, C!CallBegins(c, i)
      PROVE  PlaceInv'
  <2>1. /\ carrier[c] = NoCard /\ callCard # NoCard /\ line[i] = NoCall
        /\ carrier' = [carrier EXCEPT ![c] = callCard] /\ line' = [line EXCEPT ![i] = c]
        /\ UNCHANGED <<callCard, callPC, listing, callRecords, active>>
    BY <1>2 DEF C!CallBegins, C!observer, C!log
  <2>2. \A d \in Call, j \in Index : Listed(d, j)' = Listed(d, j) /\ Tracked(d, j)' = Tracked(d, j)
    BY <2>1 DEF Listed, Tracked
  <2>3. \A j \in Index : ~At(c, j)
    BY <1>0, <2>1 DEF PlaceInv
  <2>4. \A d \in Call, j \in Index : At(d, j)' => IF d = c THEN j = i ELSE At(d, j)
    <3>1. \A d \in Call, j \in Index : line'[j] = d => IF d = c THEN j = i ELSE line[j] = d
      BY <1>1, <2>1, <2>3 DEF At
    <3>2. QED
      BY <2>2, <2>3, <3>1 DEF At
  <2>5. \A d \in Call : carrier'[d] = IF d = c THEN callCard ELSE carrier[d]
    BY <1>1, <2>1
  <2>6. \A j \in Index : line'[j] # NoCall => carrier'[line'[j]] = callCard' /\ callCard' # NoCard
    <3>1. SUFFICES ASSUME NEW j \in Index, j # i, line[j] # NoCall
                   PROVE  carrier'[line[j]] = callCard
      BY <1>1, <2>1, <2>5
    <3>2. line[j] \in Call /\ At(line[j], j)
      BY <1>1, <3>1 DEF At
    <3>3. line[j] # c
      BY <2>3, <3>2
    <3>4. QED
      BY <1>0, <2>5, <3>1, <3>2, <3>3 DEF PlaceInv
  <2>7. \A d \in Call, j \in Index : At(d, j)' => carrier'[d] # NoCard
    BY <1>0, <2>1, <2>4, <2>5 DEF PlaceInv
  <2>8. \A d \in Call, j, k \in Index : At(d, j)' /\ At(d, k)' => j = k
    BY <1>0, <2>4 DEF PlaceInv
  <2>9. ASSUME NEW d \in Call, NEW j \in Index, NEW n \in DOMAIN callRecords,
               At(d, j)', active[j] # 0, callRecords[n].number = d
        PROVE  n <= active[j]
    <3>1. RowsInv(callRecords, carrier, GoneCalls, misjudged)
      BY DEF CallInv
    <3>2. carrier[d] # NoCard
      BY <1>0, <2>9, <3>1 DEF RowsInv
    <3>3. At(d, j)
      BY <2>1, <2>4, <2>9, <3>2
    <3>4. QED
      BY <1>0, <2>9, <3>3 DEF PlaceInv
  <2>10. QED
    BY <2>1, <2>6, <2>7, <2>8, <2>9, Zenon DEF PlaceInv
<1>3. ASSUME UNCHANGED <<carrier, callRecords, active>>,
             \A i \in Index : line'[i] # NoCall => line'[i] = line[i] /\ callCard' = callCard,
             \A c \in Call, i \in Index : Listed(c, i)' => Listed(c, i) \/ line[i] = c
      PROVE  PlaceInv'
  <2>1. \A c \in Call, i \in Index : Tracked(c, i)' => Tracked(c, i)
    BY <1>3 DEF Tracked
  <2>2. \A c \in Call, i \in Index : At(c, i)' => At(c, i)
    BY <1>0, <1>3, <2>1 DEF At
  <2>3. QED
    BY <1>0, <1>3, <2>2, PlaceKept DEF PlaceInv
<1>4. ASSUME C!ChangeCard \/ \E i \in Index : C!CallEnds(i) \/ C!CallIsAnswered(i)
      PROVE  PlaceInv'
  <2>1. /\ UNCHANGED <<carrier, callPC, listing, callRecords, active>>
        /\ \A i \in Index : line'[i] # NoCall => line'[i] = line[i] /\ callCard' = callCard
    BY <1>1, <1>4 DEF C!ChangeCard, C!CallEnds, C!CallIsAnswered, C!observer, C!log
  <2>2. QED
    BY <1>3, <2>1 DEF Listed
<1>5. ASSUME C!QueryCalls
      PROVE  PlaceInv'
  <2>1. UNCHANGED <<carrier, line, callCard, callRecords, active>> /\ listing' \in C!Answers
    BY <1>5 DEF C!QueryCalls, C!external, C!log
  <2>2. \A i \in DOMAIN listing' : listing'[i].call = line[i]
    BY <2>1 DEF C!Answers
  <2>3. QED
    BY <1>3, <2>1, <2>2 DEF Listed
<1>6. ASSUME C!ReadBefore \/ C!CaptureFails
      PROVE  PlaceInv'
  <2>1. UNCHANGED <<carrier, line, callCard, callRecords, active>> /\ callPC' # "confirm"
    BY <1>6 DEF C!ReadBefore, C!CaptureFails, C!EndObservation, C!external, C!log
  <2>2. QED
    BY <1>3, <2>1 DEF Listed
<1>7. ASSUME C!QueryFails \/ C!Restart
      PROVE  PlaceInv'
  <2>1. active' = [i \in Index |-> 0]
    BY <1>7 DEF C!QueryFails, C!Interrupt, C!Restart
  <2>2. UNCHANGED <<carrier, line, callCard>> /\ callPC' = "idle"
    BY <1>7 DEF C!QueryFails, C!Restart, C!EndObservation, C!external
  <2>3. \A c \in Call, i \in Index : At(c, i)' => At(c, i)
    BY <2>1, <2>2 DEF At, Listed, Tracked
  <2>4. \A i \in Index : active'[i] = 0
    BY <2>1
  <2>5. QED
    BY <1>0, <2>2, <2>3, <2>4, PlaceKept
<1>8. ASSUME C!FinishObservation
      PROVE  PlaceInv'
  <2>1. /\ callPC = "confirm" /\ callPC' = "idle"
        /\ UNCHANGED <<callCard, line, carrier>>
    BY <1>0, <1>8, FinishGives
  <2>2. PICK who \in Card \cup {NoCard} : C!Observe(listing, who)
    BY <1>0, <1>8, FinishGives
  <2>3. /\ Len(callRecords) \in Nat /\ callRecords' \in Seq(C!Record)
        /\ active' \in [Index -> 0 .. Len(callRecords')]
        /\ \A n \in 1 .. Len(callRecords') : Ends(who, n) \/ \E i \in DOMAIN listing : Goes(who, n, i)
        /\ \A i \in Index : active'[i] # 0 => i \in DOMAIN listing /\ Goes(who, active'[i], i)
    BY <1>0, <2>2, ObserveFates
  <2>4. \A n, i : Goes(who, n, i) => Listed(callRecords'[n].number, i) /\ active'[i] = n
    BY <2>1 DEF Goes, Listed
  <2>5. \A c \in Call, i \in Index : At(c, i)' => At(c, i)
    BY <2>1, <2>3, <2>4 DEF At, Tracked, Listed
  <2>6. ASSUME NEW c \in Call, NEW i \in Index, NEW n \in 1 .. Len(callRecords'),
               At(c, i)', active'[i] # 0, callRecords'[n].number = c
        PROVE  n <= active'[i]
    <3>1. At(c, i) /\ Goes(who, active'[i], i) /\ active'[i] \in Nat /\ n \in Nat
      BY <2>3, <2>5, <2>6
    <3>2. CASE \E j \in DOMAIN listing : Goes(who, n, j)
      <4>1. PICK j \in Index : Goes(who, n, j)
        BY <1>1, <3>2
      <4>2. At(c, j) /\ active'[j] = n
        BY <2>4, <2>6, <4>1 DEF At
      <4>3. i = j
        BY <1>0, <3>1, <4>2 DEF PlaceInv
      <4>4. QED
        BY <3>1, <4>2, <4>3
    <3>3. CASE Ends(who, n)
      <4>1. n \in 1 .. Len(callRecords) /\ callRecords[n].number = c
        BY <2>6, <3>3 DEF Ends
      <4>2. CASE active'[i] <= Len(callRecords)
        <5>1. active[i] = active'[i]
          BY <3>1, <4>2 DEF Goes
        <5>2. QED
          BY <1>0, <1>1, <2>6, <3>1, <4>1, <5>1 DEF PlaceInv
      <4>3. CASE ~(active'[i] <= Len(callRecords))
        BY <2>3, <3>1, <4>1, <4>3
      <4>4. QED
        BY <4>2, <4>3
    <3>4. QED
      BY <2>3, <3>2, <3>3
  <2>7. DOMAIN callRecords' = 1 .. Len(callRecords')
    BY <2>3
  <2>8. QED
    BY <1>0, <2>1, <2>5, <2>6, <2>7, PlaceKept
<1>9. ASSUME C!AppendHistory \/ C!AppendKnown
      PROVE  PlaceInv'
  <2>1. /\ callRecords' \in Seq(C!Record)
        /\ \A n \in 1 .. Len(callRecords) : callRecords'[n] = callRecords[n]
        /\ \A n \in 1 .. Len(callRecords') : n \in 1 .. Len(callRecords) \/ callRecords'[n].number = NoCall
        /\ UNCHANGED <<callCard, line, carrier, callPC, listing, active>>
    BY <1>0, <1>9, AppendGives DEF C!external, C!observer
  <2>2. \A i \in Index : active[i] # 0 => active[i] \in 1 .. Len(callRecords)
    BY <1>1
  <2>3. \A c \in Call, i \in Index : At(c, i)' => At(c, i)
    BY <2>1, <2>2 DEF At, Listed, Tracked
  <2>4. DOMAIN callRecords' = 1 .. Len(callRecords')
    BY <2>1
  <2>5. \A c \in Call, i \in Index, n \in DOMAIN callRecords' :
           At(c, i)' /\ active'[i] # 0 /\ callRecords'[n].number = c => n <= active'[i]
    BY <1>0, <1>1, <2>1, <2>3, <2>4 DEF PlaceInv
  <2>6. QED
    BY <1>0, <2>1, <2>3, <2>5, PlaceKept
<1>10. ASSUME UNCHANGED C!vars
       PROVE  PlaceInv'
  <2>1. UNCHANGED <<carrier, line, callCard, callPC, listing, callRecords, active>>
    BY <1>10 DEF C!vars, C!external, C!observer, C!log
  <2>2. QED
    BY <1>3, <2>1 DEF Listed
<1>11. QED
  BY <1>2, <1>4, <1>5, <1>6, <1>7, <1>8, <1>9, <1>10, CallCases, Zenon

(* The second identity tells a swap, and what an answer does not show is   *)
(* over: the answer is whole, and no call of the log begins again.         *)
LEMMA ObservationStep ==
    ASSUME C!HistoryAssumption, CallInv, [C!Next]_(C!vars)
    PROVE  ObservationInv'
<1>0. /\ CallType /\ DiskInv /\ C!OpenIsTracked /\ PlaceInv /\ ObservationInv
      /\ RowsInv(callRecords, carrier, GoneCalls, misjudged)
      /\ MaxRecords \in Nat /\ NoCall \notin Call
  BY DEF CallInv, C!HistoryAssumption
<1>1. /\ carrier \in [Call -> Card \cup {NoCard}] /\ line \in [Index -> Call \cup {NoCall}]
      /\ callRecords \in Seq(C!Record) /\ DOMAIN callRecords = 1 .. Len(callRecords)
      /\ \A n \in 1 .. Len(callRecords) : callRecords[n].number \in Call \cup {NoCall}
      /\ DOMAIN listing \subseteq Index /\ \A i \in DOMAIN listing : listing[i].call \in Call
      /\ callSwapped \in BOOLEAN
  <2>1. callRecords \in Seq(C!Record)
    BY <1>0 DEF CallType, C!TypeOK
  <2>2. \A n \in 1 .. Len(callRecords) : callRecords[n] \in C!Record
    BY <2>1
  <2>3. QED
    BY <1>0, <2>1, <2>2 DEF CallType, C!TypeOK, C!Record, C!Line
<1>2. ASSUME NEW c \in Call, NEW i \in Index, C!CallBegins(c, i)
      PROVE  ObservationInv'
  <2>1. /\ carrier[c] = NoCard
        /\ carrier' = [carrier EXCEPT ![c] = callCard] /\ line' = [line EXCEPT ![i] = c]
        /\ UNCHANGED <<callCard, callSwapped, callPC, before, listing, callRecords, cut>>
    BY <1>2 DEF C!CallBegins, C!observer, C!log, C!errors
  <2>2. \A d \in Call : carrier[d] # NoCard => d # c /\ carrier'[d] = carrier[d]
    BY <1>1, <2>1
  <2>3. ASSUME callPC = "confirm", before # NoCard, ~callSwapped, NEW j \in DOMAIN listing
        PROVE  carrier'[listing[j].call] = before
    <3>1. Listed(listing[j].call, j) /\ j \in Index /\ listing[j].call \in Call
      BY <1>1, <2>3 DEF Listed
    <3>2. carrier[listing[j].call] # NoCard
      BY <1>0, <3>1 DEF PlaceInv, At
    <3>3. QED
      BY <1>0, <2>2, <2>3, <3>1, <3>2 DEF ObservationInv
  <2>4. \A d, j : Listed(d, j)' = Listed(d, j)
    BY <2>1 DEF Listed
  <2>5. ASSUME callPC = "confirm", NEW d \in Call, NEW n \in DOMAIN callRecords, callRecords[n].number = d
        PROVE  Answered(d)'
    <3>1. carrier[d] # NoCard
      BY <1>0, <2>5 DEF RowsInv
    <3>2. d # c /\ carrier'[d] = carrier[d]
      BY <2>2, <3>1
    <3>3. C!Over(d) => C!Over(d)'
      BY <1>1, <2>1, <3>2 DEF C!Over
    <3>4. QED
      BY <1>0, <2>1, <2>4, <2>5, <3>3 DEF ObservationInv, Answered
  <2>6. callPC # "idle" /\ before # NoCard => (callSwapped <=> callCard # before)
    BY <1>0 DEF ObservationInv
  <2>7. QED
    BY <2>1, <2>3, <2>5, <2>6 DEF ObservationInv
<1>3. ASSUME callPC' = "idle"
      PROVE  ObservationInv'
  BY <1>3 DEF ObservationInv
<1>4. ASSUME C!ChangeCard
      PROVE  ObservationInv'
  <2>1. /\ ~callSwapped /\ callCard' # callCard /\ callSwapped' = (callPC # "idle")
        /\ line' = [i \in Index |-> NoCall]
        /\ UNCHANGED <<carrier, callPC, before, listing, callRecords, cut>>
    BY <1>4 DEF C!ChangeCard, C!observer, C!log, C!errors
  <2>2. callPC # "idle" /\ before # NoCard => callSwapped' /\ callCard' # before
    BY <1>0, <2>1 DEF ObservationInv
  <2>3. \A d \in Call : C!Over(d) => C!Over(d)'
    BY <1>0, <2>1 DEF C!Over
  <2>4. \A d, j : Listed(d, j)' = Listed(d, j)
    BY <2>1 DEF Listed
  <2>5. \A d \in Call : Answered(d) => Answered(d)'
    BY <2>1, <2>3, <2>4 DEF Answered
  <2>6. QED
    BY <1>0, <2>1, <2>2, <2>5 DEF ObservationInv
<1>5. ASSUME UNCHANGED <<callCard, carrier, callSwapped, callPC, before, listing, cut>>,
             \A i \in Index : line'[i] \in {line[i], NoCall},
             \A n \in DOMAIN callRecords' :
                \/ callRecords'[n].number = NoCall
                \/ n \in DOMAIN callRecords /\ callRecords'[n].number = callRecords[n].number
      PROVE  ObservationInv'
  <2>1. \A d \in Call : C!Over(d) => C!Over(d)'
    BY <1>0, <1>5 DEF C!Over
  <2>2. \A d, j : Listed(d, j)' = Listed(d, j)
    BY <1>5 DEF Listed
  <2>3. \A d \in Call : Answered(d) => Answered(d)'
    BY <1>5, <2>1, <2>2 DEF Answered
  <2>4. \A d \in Call, n \in DOMAIN callRecords' : callRecords'[n].number = d =>
           n \in DOMAIN callRecords /\ callRecords[n].number = d
    BY <1>0, <1>5
  <2>5. callPC' # "idle" /\ before' # NoCard => (callSwapped' <=> callCard' # before')
    BY <1>0, <1>5 DEF ObservationInv
  <2>6. QED
    BY <1>0, <1>5, <2>3, <2>4, <2>5 DEF ObservationInv
<1>6. ASSUME \/ \E i \in Index : C!CallEnds(i) \/ C!CallIsAnswered(i)
             \/ UNCHANGED C!vars
      PROVE  ObservationInv'
  <2>1. /\ UNCHANGED <<callCard, carrier, callSwapped, callPC, before, listing, callRecords, cut>>
        /\ \A i \in Index : line'[i] \in {line[i], NoCall}
    BY <1>1, <1>6 DEF C!CallEnds, C!CallIsAnswered, C!vars, C!external, C!observer, C!log,
                     C!errors
  <2>2. QED
    BY <1>5, <2>1
<1>7. ASSUME C!AppendHistory \/ C!AppendKnown
      PROVE  ObservationInv'
  <2>1. /\ callRecords' \in Seq(C!Record)
        /\ \A n \in 1 .. Len(callRecords) : callRecords'[n] = callRecords[n]
        /\ \A n \in 1 .. Len(callRecords') : n \in 1 .. Len(callRecords) \/ callRecords'[n].number = NoCall
        /\ UNCHANGED <<callCard, line, carrier, callSwapped, callPC, before, listing, cut>>
    BY <1>0, <1>7, AppendGives DEF C!external, C!observer, C!errors
  <2>2. DOMAIN callRecords' = 1 .. Len(callRecords')
    BY <2>1
  <2>3. QED
    BY <1>1, <1>5, <2>1, <2>2
<1>8. ASSUME C!ReadBefore
      PROVE  ObservationInv'
  <2>1. /\ before' \in {callCard, NoCard} /\ callPC' = "query" /\ callSwapped' = FALSE
        /\ callCard' = callCard
    BY <1>8 DEF C!ReadBefore, C!ReadIdentity, C!external
  <2>2. QED
    BY <2>1 DEF ObservationInv
<1>9. ASSUME C!QueryCalls
      PROVE  ObservationInv'
  <2>1. /\ callPC = "query" /\ callPC' = "confirm" /\ listing' \in C!Answers
        /\ cut' = {line[i] : i \in Index \ DOMAIN listing'} \ {NoCall}
        /\ UNCHANGED <<callCard, line, carrier, callSwapped, before, callRecords>>
    BY <1>9 DEF C!QueryCalls, C!external, C!log
  <2>2. PICK shown \in SUBSET {i \in Index : line[i] # NoCall} :
            listing' = [i \in shown |-> [call |-> line[i], talking |-> line[i] \in talking]]
    BY <2>1 DEF C!Answers
  <2>3. /\ \A i \in DOMAIN listing' : i \in Index /\ listing'[i].call = line[i] /\ line[i] # NoCall
        /\ \A i \in Index : line[i] # NoCall => i \in DOMAIN listing' \/ line[i] \in cut'
    BY <2>1, <2>2
  <2>4. before # NoCard /\ ~callSwapped => \A i \in DOMAIN listing' : carrier[listing'[i].call] = before
    BY <1>0, <2>1, <2>3 DEF ObservationInv, PlaceInv
  <2>5. ASSUME NEW d \in Call, NEW n \in DOMAIN callRecords, callRecords[n].number = d
        PROVE  Answered(d)'
    <3>1. carrier[d] # NoCard
      BY <1>0, <2>5 DEF RowsInv
    <3>2. CASE \E i \in Index : line[i] = d
      BY <1>0, <2>1, <2>3, <3>2 DEF Answered, Listed
    <3>3. CASE \A i \in Index : line[i] # d
      BY <2>1, <3>1, <3>3 DEF Answered, C!Over
    <3>4. QED
      BY <3>2, <3>3
  <2>6. callPC # "idle" /\ before # NoCard => (callSwapped <=> callCard # before)
    BY <1>0 DEF ObservationInv
  <2>7. QED
    BY <2>1, <2>4, <2>5, <2>6 DEF ObservationInv
<1>10. ASSUME C!QueryFails \/ C!CaptureFails \/ C!FinishObservation \/ C!Restart
       PROVE  ObservationInv'
  BY <1>3, <1>10 DEF C!QueryFails, C!CaptureFails, C!FinishObservation, C!Restart, C!EndObservation
<1>11. QED
  BY <1>2, <1>4, <1>6, <1>7, <1>8, <1>9, <1>10, CallCases, Zenon

(* What is tracked is what is open.                                        *)
LEMMA TrackedStep ==
    ASSUME C!HistoryAssumption, CallInv, [C!Next]_(C!vars)
    PROVE  C!OpenIsTracked'
<1>0. CallType /\ DiskInv /\ C!OpenIsTracked /\ MaxRecords \in Nat /\ NoCall \notin Call
  BY DEF CallInv, C!HistoryAssumption
<1>1. /\ callRecords \in Seq(C!Record) /\ DOMAIN callRecords = 1 .. Len(callRecords)
      /\ callDurable \in Seq(C!Record) /\ Len(callRecords) \in Nat
      /\ active \in [Index -> 0 .. Len(callRecords)]
      /\ \A n \in 1 .. Len(callRecords) : callRecords[n] \in C!Record
      /\ \A n \in 1 .. Len(callDurable) : callDurable[n] \in C!Record
      /\ DOMAIN listing \subseteq Index /\ \A i \in DOMAIN listing : listing[i].call \in Call
  <2>1. callRecords \in Seq(C!Record) /\ callDurable \in Seq(C!Record)
    BY <1>0 DEF CallType, C!TypeOK
  <2>2. QED
    BY <1>0, <2>1 DEF CallType, C!TypeOK, C!Line
<1>2. ASSUME UNCHANGED <<callRecords, active>>
      PROVE  C!OpenIsTracked'
  BY <1>0, <1>2 DEF C!OpenIsTracked, C!IsActive
<1>3. ASSUME callRecords' \in Seq(C!Record), active' = [i \in Index |-> 0],
             \A n \in 1 .. Len(callRecords') : ~C!Open(callRecords'[n])
      PROVE  C!OpenIsTracked'
  <2>1. \A i \in Index : active'[i] = 0
    BY <1>3
  <2>2. \A n \in 1 .. Len(callRecords') : n # 0
    BY <1>3
  <2>3. DOMAIN callRecords' = 1 .. Len(callRecords')
    BY <1>3
  <2>4. QED
    BY <1>3, <2>1, <2>2, <2>3 DEF C!OpenIsTracked, C!IsActive
<1>4. ASSUME C!QueryFails
      PROVE  C!OpenIsTracked'
  <2>1. C!Interrupt
    BY <1>4 DEF C!QueryFails
  <2>2. /\ callRecords' \in Seq(C!Record) /\ Len(callRecords') = Len(callRecords)
        /\ \A n \in 1 .. Len(callRecords) :
              IF C!IsActive(n)
              THEN callRecords'[n] = [callRecords[n] EXCEPT !.state = "interrupted"]
              ELSE callRecords'[n] = callRecords[n]
        /\ active' = [i \in Index |-> 0]
    BY <1>0, <2>1, InterruptGives
  <2>3. \A n \in 1 .. Len(callRecords) : ~C!Open(callRecords'[n])
    <3>1. SUFFICES ASSUME NEW n \in 1 .. Len(callRecords)
                   PROVE  ~C!Open(callRecords'[n])
      OBVIOUS
    <3>2. callRecords[n] \in C!Record /\ (C!Open(callRecords[n]) <=> C!IsActive(n))
      BY <1>0, <1>1 DEF C!OpenIsTracked
    <3>3. CASE C!IsActive(n)
      <4>1. callRecords'[n] = [callRecords[n] EXCEPT !.state = "interrupted"]
        BY <2>2, <3>3
      <4>2. QED
        BY <3>2, <4>1 DEF C!Open, C!Record
    <3>4. CASE ~C!IsActive(n)
      <4>1. callRecords'[n] = callRecords[n]
        BY <2>2, <3>4
      <4>2. QED
        BY <3>2, <3>4, <4>1 DEF C!Open
    <3>5. QED
      BY <3>3, <3>4
  <2>4. QED
    BY <1>3, <2>2, <2>3
<1>5. ASSUME C!Restart
      PROVE  C!OpenIsTracked'
  <2>1. /\ callRecords' \in Seq(C!Record) /\ Len(callRecords') = Len(callDurable)
        /\ \A n \in 1 .. Len(callDurable) :
              IF callDurable[n].number # NoCall /\ ~callDurable[n].ended
              THEN callRecords'[n] = [callDurable[n] EXCEPT !.state = "interrupted"]
              ELSE callRecords'[n] = callDurable[n]
        /\ active' = [i \in Index |-> 0]
    BY <1>0, <1>5, RestartGives
  <2>2. \A n \in 1 .. Len(callDurable) : ~C!Open(callRecords'[n])
    BY <1>1, <2>1 DEF C!Open, C!Record
  <2>3. QED
    BY <1>3, <2>1, <2>2
<1>6. ASSUME C!AppendHistory \/ C!AppendKnown
      PROVE  C!OpenIsTracked'
  <2>1. /\ callRecords' \in Seq(C!Record) /\ active' = active
        /\ \A n \in 1 .. Len(callRecords) : callRecords'[n] = callRecords[n]
        /\ \A n \in 1 .. Len(callRecords') : n \in 1 .. Len(callRecords) \/ callRecords'[n].number = NoCall
    BY <1>0, <1>6, AppendGives
  <2>2. DOMAIN callRecords' = 1 .. Len(callRecords')
    BY <2>1
  <2>3. ASSUME NEW n \in 1 .. Len(callRecords')
        PROVE  C!Open(callRecords'[n]) <=> C!IsActive(n)'
    <3>1. C!IsActive(n)' <=> C!IsActive(n)
      BY <2>1 DEF C!IsActive
    <3>2. CASE n \in 1 .. Len(callRecords)
      BY <1>0, <1>1, <2>1, <3>1, <3>2 DEF C!OpenIsTracked
    <3>3. CASE n \notin 1 .. Len(callRecords)
      <4>1. ~C!Open(callRecords'[n])
        BY <2>1, <3>3 DEF C!Open
      <4>2. n # 0
        BY <2>1
      <4>3. ~C!IsActive(n)
        BY <1>1, <3>3, <4>2 DEF C!IsActive
      <4>4. QED
        BY <3>1, <4>1, <4>3
    <3>4. QED
      BY <3>2, <3>3
  <2>4. \A i, j \in Index : i # j /\ active'[i] = active'[j] => active'[i] = 0
    BY <1>0, <2>1 DEF C!OpenIsTracked
  <2>5. QED
    BY <2>2, <2>3, <2>4 DEF C!OpenIsTracked
<1>7. ASSUME C!FinishObservation
      PROVE  C!OpenIsTracked'
  <2>1. PICK who \in Card \cup {NoCard} : C!Observe(listing, who)
    BY <1>0, <1>7, FinishGives
  <2>2. /\ Len(callRecords) \in Nat /\ callRecords' \in Seq(C!Record)
        /\ active' \in [Index -> 0 .. Len(callRecords')]
        /\ \A n \in 1 .. Len(callRecords') : Ends(who, n) \/ \E i \in DOMAIN listing : Goes(who, n, i)
        /\ \A i \in Index : active'[i] # 0 => i \in DOMAIN listing /\ Goes(who, active'[i], i)
        /\ \A i, j \in DOMAIN listing : active'[i] = active'[j] => i = j
    BY <1>0, <2>1, ObserveFates
  <2>3. DOMAIN callRecords' = 1 .. Len(callRecords')
    BY <2>2
  <2>4. ASSUME NEW n \in 1 .. Len(callRecords')
        PROVE  C!Open(callRecords'[n]) <=> C!IsActive(n)'
    <3>1. CASE Ends(who, n)
      <4>1. ~C!IsActive(n)'
        BY <3>1 DEF Ends, C!IsActive
      <4>2. ~C!Open(callRecords'[n])
        BY <3>1 DEF Ends, C!Open
      <4>3. QED
        BY <4>1, <4>2
    <3>2. CASE \E i \in DOMAIN listing : Goes(who, n, i)
      <4>1. PICK i \in DOMAIN listing : Goes(who, n, i)
        BY <3>2
      <4>2. C!IsActive(n)'
        BY <1>1, <4>1 DEF Goes, C!IsActive
      <4>3. C!Open(callRecords'[n])
        BY <1>0, <1>1, <4>1 DEF Goes, C!Open
      <4>4. QED
        BY <4>2, <4>3
    <3>3. QED
      BY <2>2, <3>1, <3>2
  <2>5. \A i, j \in Index : i # j /\ active'[i] = active'[j] => active'[i] = 0
    BY <2>2
  <2>6. QED
    BY <2>3, <2>4, <2>5 DEF C!OpenIsTracked
<1>8. ASSUME \/ \E c \in Call, i \in Index : C!CallBegins(c, i)
             \/ \E i \in Index : C!CallIsAnswered(i) \/ C!CallEnds(i)
             \/ C!ChangeCard \/ C!ReadBefore \/ C!QueryCalls \/ C!CaptureFails \/ UNCHANGED C!vars
      PROVE  UNCHANGED <<callRecords, active>>
  BY <1>8 DEF C!CallBegins, C!CallIsAnswered, C!CallEnds, C!ChangeCard, C!ReadBefore, C!QueryCalls,
              C!CaptureFails, C!vars, C!log
<1>9. QED
  BY <1>2, <1>4, <1>5, <1>6, <1>7, <1>8, CallCases, Zenon

(* Only a call that is not shown, of the card that was confirmed, is       *)
(* closed for good, and it is over unless the answer was cut.              *)
LEMMA ObserveCloses ==
    ASSUME C!HistoryAssumption, CallInv, NEW who \in Card \cup {NoCard}, callPC = "confirm",
           C!Observe(listing, who), NEW n \in 1 .. Len(callRecords), C!Open(callRecords[n]),
           callRecords'[n].ended, callRecords'[n].state # "interrupted"
    PROVE  C!Over(callRecords[n].number) \/ callRecords[n].number \in cut
<1>0. /\ CallType /\ C!OpenIsTracked /\ PlaceInv /\ ObservationInv
  BY DEF CallInv
<1>1. /\ callRecords[n].number \in Call /\ DOMAIN callRecords = 1 .. Len(callRecords)
      /\ DOMAIN listing \subseteq Index /\ active \in [Index -> 0 .. Len(callRecords)] /\ n # 0
  <2>1. callRecords \in Seq(C!Record)
    BY <1>0 DEF CallType, C!TypeOK
  <2>2. callRecords[n] \in C!Record
    BY <2>1
  <2>3. n # 0
    OBVIOUS
  <2>4. QED
    BY <1>0, <2>1, <2>2, <2>3 DEF CallType, C!TypeOK, C!Record, C!Open
<1>2. /\ Len(callRecords) \in Nat /\ Len(callRecords') \in Nat /\ Len(callRecords) <= Len(callRecords')
      /\ \A m \in 1 .. Len(callRecords') : Ends(who, m) \/ \E i \in DOMAIN listing : Goes(who, m, i)
      /\ \A i \in DOMAIN listing :
            active[i] # 0 /\ callRecords[active[i]].card = who => active'[i] = active[i]
  BY <1>0, ObserveFates
<1>3. Ends(who, n)
  BY <1>2 DEF Goes
<1>4. callRecords[n].card = who /\ \A i \in Index : active'[i] # n
  BY <1>3 DEF Ends
<1>5. PICK j \in Index : active[j] = n
  BY <1>0, <1>1 DEF C!OpenIsTracked, C!IsActive
<1>6. ASSUME NEW i \in Index, Listed(callRecords[n].number, i)
      PROVE  FALSE
  <2>1. Tracked(callRecords[n].number, j)
    BY <1>1, <1>5 DEF Tracked
  <2>2. i = j
    BY <1>0, <1>1, <1>6, <2>1 DEF PlaceInv, At
  <2>3. QED
    BY <1>1, <1>2, <1>4, <1>5, <1>6, <2>2 DEF Listed
<1>7. Answered(callRecords[n].number)
  BY <1>0, <1>1 DEF ObservationInv
<1>8. QED
  BY <1>6, <1>7 DEF Answered

(* An observation keeps the promises of the rows.                          *)
LEMMA ObserveRows ==
    ASSUME C!HistoryAssumption, CallInv, C!FinishObservation, GoneCalls \subseteq GoneCalls'
    PROVE  RowsInv(callRecords', carrier, GoneCalls', misjudged')
<1>0. /\ CallType /\ DiskInv /\ C!OpenIsTracked /\ PlaceInv /\ ObservationInv
      /\ RowsInv(callRecords, carrier, GoneCalls, misjudged) /\ NoCall \notin Call
  BY DEF CallInv, C!HistoryAssumption
<1>1. /\ callPC = "confirm" /\ callPC' = "idle"
      /\ UNCHANGED <<callCard, line, carrier, callSwapped>>
      /\ misjudged' = misjudged \cup (cut \cap C!ClosedNow)
  BY <1>0, FinishGives
<1>2. PICK who \in Card \cup {NoCard} :
          /\ C!Observe(listing, who)
          /\ who # NoCard => before = who /\ callCard = who
  BY <1>0, FinishGives
<1>3. /\ Len(callRecords) \in Nat /\ callRecords' \in Seq(C!Record)
      /\ Len(callRecords') \in Nat /\ Len(callRecords) <= Len(callRecords')
      /\ \A n \in 1 .. Len(callRecords') : Ends(who, n) \/ \E i \in DOMAIN listing : Goes(who, n, i)
      /\ \A i \in DOMAIN listing :
            active[i] # 0 /\ callRecords[active[i]].card = who => active'[i] = active[i]
  BY <1>0, <1>2, ObserveFates
<1>4. /\ DOMAIN callRecords' = 1 .. Len(callRecords') /\ DOMAIN callRecords = 1 .. Len(callRecords)
      /\ DOMAIN listing \subseteq Index /\ \A i \in DOMAIN listing : listing[i].call \in Call
      /\ \A n \in 1 .. Len(callRecords) : callRecords[n] \in C!Record
      /\ \A n \in 1 .. Len(callRecords) : callRecords[n].number \in Call \cup {NoCall}
      /\ active \in [Index -> 0 .. Len(callRecords)]
  <2>1. callRecords \in Seq(C!Record)
    BY <1>0 DEF CallType, C!TypeOK
  <2>2. \A n \in 1 .. Len(callRecords) : callRecords[n] \in C!Record
    BY <2>1
  <2>3. \A n \in 1 .. Len(callRecords) : callRecords[n].number \in Call \cup {NoCall}
    BY <2>2 DEF C!Record
  <2>4. QED
    BY <1>0, <1>3, <2>1, <2>2, <2>3 DEF CallType, C!TypeOK, C!Line
<1>5. \A n, i : Goes(who, n, i) => Listed(callRecords'[n].number, i) /\ i \in Index
  BY <1>1, <1>4 DEF Goes, Listed
<1>6. ASSUME NEW n \in 1 .. Len(callRecords'), callRecords'[n].number # NoCall
      PROVE  /\ carrier[callRecords'[n].number] # NoCard
             /\ callRecords'[n].card # NoCard => callRecords'[n].card = carrier[callRecords'[n].number]
  <2>1. CASE Ends(who, n)
    <3>1. /\ n \in 1 .. Len(callRecords) /\ callRecords'[n].number = callRecords[n].number
          /\ callRecords'[n].card = callRecords[n].card
      BY <2>1 DEF Ends
    <3>2. QED
      BY <1>0, <1>4, <1>6, <3>1 DEF RowsInv
  <2>2. CASE \E i \in DOMAIN listing : Goes(who, n, i)
    <3>1. PICK i \in DOMAIN listing : Goes(who, n, i)
      BY <2>2
    <3>2. /\ callRecords'[n].number = listing[i].call /\ callRecords'[n].card = who
          /\ listing[i].call \in Call /\ i \in Index
      BY <1>4, <3>1 DEF Goes
    <3>3. At(listing[i].call, i)
      BY <1>1, <3>1, <3>2 DEF At, Listed
    <3>4. carrier[listing[i].call] # NoCard
      BY <1>0, <3>2, <3>3 DEF PlaceInv
    <3>5. ASSUME who # NoCard
          PROVE  carrier[listing[i].call] = who
      <4>1. ~callSwapped
        BY <1>0, <1>1, <1>2, <3>5 DEF ObservationInv
      <4>2. QED
        BY <1>0, <1>1, <1>2, <3>1, <3>5, <4>1 DEF ObservationInv
    <3>6. QED
      BY <3>2, <3>4, <3>5
  <2>3. QED
    BY <1>3, <2>1, <2>2
<1>7. ASSUME NEW m \in 1 .. Len(callRecords'), NEW n \in 1 .. Len(callRecords'), m < n,
             callRecords'[m].number = callRecords'[n].number, callRecords'[m].number # NoCall
      PROVE  callRecords'[m].state = "interrupted" \/ callRecords'[m].number \in misjudged'
  <2>1. ASSUME NEW i \in DOMAIN listing, Goes(who, m, i)
        PROVE  FALSE
    <3>1. Listed(callRecords'[m].number, i) /\ i \in Index /\ listing[i].call = callRecords'[m].number
      BY <1>5, <2>1 DEF Goes
    <3>2. callRecords'[m].number \in Call
      BY <1>4, <2>1, <3>1
    <3>3. CASE \E j \in DOMAIN listing : Goes(who, n, j)
      <4>1. PICK j \in DOMAIN listing : Goes(who, n, j)
        BY <3>3
      <4>2. Listed(callRecords'[m].number, j) /\ j \in Index
        BY <1>5, <1>7, <4>1
      <4>3. i = j
        BY <1>0, <3>1, <3>2, <4>2 DEF PlaceInv, At
      <4>4. m = n
        BY <2>1, <4>1, <4>3 DEF Goes
      <4>5. QED
        BY <1>7, <4>4
    <3>4. CASE Ends(who, n)
      <4>1. n \in 1 .. Len(callRecords) /\ callRecords[n].number = callRecords'[m].number
        BY <1>7, <3>4 DEF Ends
      <4>2. m <= Len(callRecords) /\ m # 0
        BY <1>3, <1>7, <4>1
      <4>3. active[i] = m
        BY <2>1, <4>2 DEF Goes
      <4>4. n <= active[i]
        BY <1>0, <1>4, <3>1, <3>2, <4>1, <4>2, <4>3 DEF PlaceInv, At
      <4>5. QED
        BY <1>7, <4>3, <4>4
    <3>5. QED
      BY <1>3, <3>3, <3>4
  <2>2. Ends(who, m)
    BY <1>3, <2>1
  <2>3. /\ m \in 1 .. Len(callRecords) /\ callRecords[m].number = callRecords'[m].number
        /\ \A i \in Index : active'[i] # m
        /\ C!Open(callRecords[m]) /\ callRecords[m].card # who => callRecords'[m].state = "interrupted"
        /\ ~C!Open(callRecords[m]) => callRecords'[m] = callRecords[m]
    BY <2>2 DEF Ends
  <2>4. CASE Ends(who, n)
    <3>1. n \in 1 .. Len(callRecords) /\ callRecords[n].number = callRecords[m].number
      BY <1>7, <2>3, <2>4 DEF Ends
    <3>2. callRecords[m].state = "interrupted" \/ callRecords[m].number \in misjudged
      BY <1>0, <1>4, <1>7, <2>3, <3>1 DEF RowsInv, Marked
    <3>3. QED
      BY <1>1, <2>3, <3>2 DEF C!Open
  <2>5. CASE \E i \in DOMAIN listing : Goes(who, n, i)
    <3>1. PICK i \in DOMAIN listing : Goes(who, n, i)
      BY <2>5
    <3>2. Listed(callRecords[m].number, i) /\ i \in Index
      BY <1>5, <1>7, <2>3, <3>1
    <3>3. CASE C!Open(callRecords[m])
      <4>1. PICK j \in Index : active[j] = m
        BY <1>0, <1>4, <2>3, <3>3 DEF C!OpenIsTracked, C!IsActive
      <4>2. m # 0
        OBVIOUS
      <4>3. callRecords[m].number \in Call /\ Tracked(callRecords[m].number, j)
        BY <1>4, <1>7, <2>3, <4>1, <4>2 DEF Tracked
      <4>4. i = j
        BY <1>0, <3>2, <4>3 DEF PlaceInv, At
      <4>5. callRecords[m].card # who
        BY <1>3, <2>3, <3>1, <3>2, <4>1, <4>2, <4>4
      <4>6. QED
        BY <2>3, <3>3, <4>5
    <3>4. CASE ~C!Open(callRecords[m])
      <4>1. callRecords'[m] = callRecords[m]
        BY <2>3, <3>4
      <4>2. ASSUME callRecords[m].state # "interrupted", callRecords[m].number \notin misjudged
            PROVE  FALSE
        <5>1. Final(callRecords[m])
          BY <1>7, <2>3, <3>4, <4>2 DEF Final, C!Open
        <5>2. callRecords[m].number \in GoneCalls
          BY <1>0, <1>4, <2>3, <4>2, <5>1 DEF RowsInv
        <5>3. QED
          BY <3>2, <5>2 DEF GoneCalls
      <4>3. QED
        BY <1>1, <2>3, <4>1, <4>2
    <3>5. QED
      BY <3>3, <3>4
  <2>6. QED
    BY <1>3, <2>4, <2>5
<1>8. ASSUME NEW n \in 1 .. Len(callRecords'), Final(callRecords'[n])
      PROVE  callRecords'[n].number \in GoneCalls' \cup misjudged'
  <2>1. Ends(who, n)
    BY <1>3, <1>8 DEF Goes, Final
  <2>2. n \in 1 .. Len(callRecords) /\ callRecords'[n].number = callRecords[n].number
    BY <2>1 DEF Ends
  <2>3. callRecords[n].number \in Call
    BY <1>4, <1>8, <2>2 DEF Final
  <2>4. CASE C!Open(callRecords[n])
    <3>1. C!Over(callRecords[n].number) \/ callRecords[n].number \in cut
      BY <1>1, <1>2, <1>8, <2>2, <2>4, ObserveCloses DEF Final
    <3>2. ASSUME NEW c \in Call, C!Over(c)
          PROVE  c \in GoneCalls'
      BY <1>1, <3>2 DEF GoneCalls, Listed, C!Over
    <3>3. callRecords[n].number \in C!ClosedNow
      BY <1>4, <1>8, <2>2, <2>4 DEF C!ClosedNow, C!Open, Final
    <3>4. QED
      BY <1>1, <2>2, <2>3, <3>1, <3>2, <3>3
  <2>5. CASE ~C!Open(callRecords[n])
    <3>1. callRecords'[n] = callRecords[n]
      BY <2>1, <2>5 DEF Ends
    <3>2. callRecords[n].number \in GoneCalls \cup misjudged
      BY <1>0, <1>4, <1>8, <2>2, <3>1 DEF RowsInv
    <3>3. QED
      BY <1>1, <2>2, <3>2
  <2>6. QED
    BY <2>4, <2>5
<1>9. QED
  BY <1>4, <1>6, <1>7, <1>8 DEF RowsInv, Marked

(* The rows of the log and those on disk keep their promises.              *)
LEMMA RowsStep ==
    ASSUME C!HistoryAssumption, CallInv, [C!Next]_(C!vars)
    PROVE  /\ DiskInv'
           /\ RowsInv(callRecords', carrier', GoneCalls', misjudged')
           /\ RowsInv(callDurable', carrier', GoneCalls', misjudged')
<1>0. /\ CallType /\ DiskInv /\ C!OpenIsTracked /\ MaxRecords \in Nat
      /\ RowsInv(callRecords, carrier, GoneCalls, misjudged) /\ RowsInv(callDurable, carrier, GoneCalls, misjudged)
  BY DEF CallInv, C!HistoryAssumption
<1>1. /\ callRecords \in Seq(C!Record) /\ callDurable \in Seq(C!Record)
      /\ \A n \in 1 .. Len(callRecords) : callRecords[n] \in C!Record
      /\ \A n \in 1 .. Len(callDurable) : callDurable[n] \in C!Record
      /\ Len(callRecords) \in Nat /\ Len(callDurable) \in Nat
  <2>1. callRecords \in Seq(C!Record) /\ callDurable \in Seq(C!Record)
    BY <1>0 DEF CallType, C!TypeOK
  <2>2. QED
    BY <2>1
<1>2. /\ (\A c \in Call : carrier[c] # NoCard => carrier'[c] = carrier[c]) /\ GoneCalls \subseteq GoneCalls'
      /\ misjudged \subseteq misjudged'
  BY <1>0, CallsKept, MisjudgedKept
<1>3. RowsInv(callDurable, carrier', GoneCalls', misjudged')
  <2>1. Follows(callDurable, callDurable)
    BY DEF Follows
  <2>2. QED
    BY <1>0, <1>1, <1>2, <2>1, RowsFollow
<1>4. ASSUME DiskInv', RowsInv(callRecords', carrier', GoneCalls', misjudged'),
             callDurable' = callDurable \/ callDurable' = callRecords'
      PROVE  /\ DiskInv'
             /\ RowsInv(callRecords', carrier', GoneCalls', misjudged')
             /\ RowsInv(callDurable', carrier', GoneCalls', misjudged')
  <2>1. RowsInv(callDurable', carrier', GoneCalls', misjudged')
    <3>1. CASE callDurable' = callDurable
      BY <1>3, <3>1
    <3>2. CASE callDurable' = callRecords'
      <4>1. RowsInv(callRecords', carrier', GoneCalls', misjudged')
        BY <1>4
      <4>2. QED
        BY <3>2, <4>1
    <3>3. QED
      BY <1>4, <3>1, <3>2
  <2>2. QED
    BY <1>4, <2>1
<1>5. ASSUME C!QueryFails
      PROVE  /\ DiskInv'
             /\ RowsInv(callRecords', carrier', GoneCalls', misjudged')
             /\ RowsInv(callDurable', carrier', GoneCalls', misjudged')
  <2>1. C!Interrupt
    BY <1>5 DEF C!QueryFails
  <2>2. /\ callRecords' \in Seq(C!Record) /\ Len(callRecords') = Len(callRecords)
        /\ \A n \in 1 .. Len(callRecords) :
              IF C!IsActive(n)
              THEN callRecords'[n] = [callRecords[n] EXCEPT !.state = "interrupted"]
              ELSE callRecords'[n] = callRecords[n]
        /\ DiskInv' /\ (callDurable' = callDurable \/ callDurable' = callRecords')
    BY <1>0, <2>1, InterruptGives
  <2>3. Follows(callRecords', callRecords)
    BY <1>1, <2>2 DEF Follows, C!Record
  <2>4. RowsInv(callRecords', carrier', GoneCalls', misjudged')
    BY <1>0, <1>1, <1>2, <2>2, <2>3, RowsFollow
  <2>5. QED
    BY <1>4, <2>2, <2>4
<1>6. ASSUME C!Restart
      PROVE  /\ DiskInv'
             /\ RowsInv(callRecords', carrier', GoneCalls', misjudged')
             /\ RowsInv(callDurable', carrier', GoneCalls', misjudged')
  <2>1. /\ callRecords' \in Seq(C!Record) /\ Len(callRecords') = Len(callDurable)
        /\ \A n \in 1 .. Len(callDurable) :
              IF callDurable[n].number # NoCall /\ ~callDurable[n].ended
              THEN callRecords'[n] = [callDurable[n] EXCEPT !.state = "interrupted"]
              ELSE callRecords'[n] = callDurable[n]
        /\ callDurable' = callRecords'
    BY <1>0, <1>6, RestartGives
  <2>2. Follows(callRecords', callDurable)
    BY <1>1, <2>1 DEF Follows, C!Record
  <2>3. RowsInv(callRecords', carrier', GoneCalls', misjudged')
    BY <1>0, <1>1, <1>2, <2>1, <2>2, RowsFollow
  <2>4. Len(callRecords') <= Len(callRecords')
    BY <1>1, <2>1
  <2>5. DiskInv'
    BY <2>1, <2>4 DEF DiskInv, C!CleanIsDurable
  <2>6. QED
    BY <1>4, <2>1, <2>3, <2>5
<1>7. ASSUME C!AppendHistory \/ C!AppendKnown
      PROVE  /\ DiskInv'
             /\ RowsInv(callRecords', carrier', GoneCalls', misjudged')
             /\ RowsInv(callDurable', carrier', GoneCalls', misjudged')
  <2>1. /\ callRecords' \in Seq(C!Record)
        /\ \A n \in 1 .. Len(callRecords) : callRecords'[n] = callRecords[n]
        /\ \A n \in 1 .. Len(callRecords') : n \in 1 .. Len(callRecords) \/ callRecords'[n].number = NoCall
        /\ DiskInv' /\ (callDurable' = callDurable \/ callDurable' = callRecords')
    BY <1>0, <1>7, AppendGives
  <2>2. Follows(callRecords', callRecords)
    BY <2>1 DEF Follows
  <2>3. RowsInv(callRecords', carrier', GoneCalls', misjudged')
    BY <1>0, <1>1, <1>2, <2>1, <2>2, RowsFollow
  <2>4. QED
    BY <1>4, <2>1, <2>3
<1>8. ASSUME C!FinishObservation
      PROVE  /\ DiskInv'
             /\ RowsInv(callRecords', carrier', GoneCalls', misjudged')
             /\ RowsInv(callDurable', carrier', GoneCalls', misjudged')
  <2>1. PICK who \in Card \cup {NoCard} : C!Observe(listing, who)
    BY <1>0, <1>8, FinishGives
  <2>2. /\ callRecords' \in Seq(C!Record) /\ Len(callRecords) <= Len(callRecords')
        /\ C!SaveIf(callRecords' # callRecords)
    BY <1>0, <2>1, ObserveFates
  <2>3. \A n \in 1 .. Len(callRecords) : callRecords[n].ended => callRecords'[n].ended
    BY <1>0, <2>1, ObserveEnds
  <2>4. DiskInv' /\ (callDurable' = callDurable \/ callDurable' = callRecords')
    BY <1>0, <2>2, <2>3, SaveGives
  <2>5. carrier' = carrier
    BY <1>0, <1>8, FinishGives
  <2>6. RowsInv(callRecords', carrier', GoneCalls', misjudged')
    BY <1>2, <1>8, <2>5, ObserveRows
  <2>7. QED
    BY <1>4, <2>4, <2>6
<1>9. ASSUME UNCHANGED <<callRecords, callDirty, callDurable>>
      PROVE  /\ DiskInv'
             /\ RowsInv(callRecords', carrier', GoneCalls', misjudged')
             /\ RowsInv(callDurable', carrier', GoneCalls', misjudged')
  <2>1. Follows(callRecords, callRecords)
    BY DEF Follows
  <2>2. RowsInv(callRecords, carrier', GoneCalls', misjudged')
    BY <1>0, <1>1, <1>2, <2>1, RowsFollow
  <2>3. RowsInv(callRecords', carrier', GoneCalls', misjudged')
    BY <1>9, <2>2
  <2>4. DiskInv'
    BY <1>0, <1>9 DEF DiskInv, C!CleanIsDurable
  <2>5. QED
    BY <1>4, <1>9, <2>3, <2>4
<1>10. ASSUME \/ \E c \in Call, i \in Index : C!CallBegins(c, i)
              \/ \E i \in Index : C!CallIsAnswered(i) \/ C!CallEnds(i)
              \/ C!ChangeCard \/ C!ReadBefore \/ C!QueryCalls \/ C!CaptureFails \/ UNCHANGED C!vars
       PROVE  UNCHANGED <<callRecords, callDirty, callDurable>>
  BY <1>10 DEF C!CallBegins, C!CallIsAnswered, C!CallEnds, C!ChangeCard, C!ReadBefore, C!QueryCalls,
               C!CaptureFails, C!vars, C!log
<1>11. QED
  BY <1>5, <1>6, <1>7, <1>8, <1>9, <1>10, CallCases, Zenon

(* A new hub has no records, and no call goes on before it starts.         *)
LEMMA CallInit ==
    ASSUME C!HistoryAssumption, C!Init
    PROVE  CallInv
<1> USE DEF C!Init
<1>1. callRecords = << >> /\ callDurable = << >> /\ DOMAIN callRecords = {} /\ DOMAIN callDurable = {}
      /\ Len(callRecords) = 0 /\ Len(callDurable) = 0 /\ MaxRecords \in Nat /\ NoCall \notin Call
  BY DEF C!HistoryAssumption
<1>2. CallType
  <2>1. DOMAIN listing = {}
    BY DEF C!Nothing
  <2>2. /\ line \in [Index -> Call \cup {NoCall}] /\ carrier \in [Call -> Card \cup {NoCard}]
        /\ active \in [Index -> 0 .. 0]
    OBVIOUS
  <2>3. callRecords \in Seq(C!Record) /\ callDurable \in Seq(C!Record)
    <3>1. \A S : << >> \in Seq(S)
      OBVIOUS
    <3>2. QED
      BY <1>1, <3>1
  <2>4. Len(callRecords) <= MaxRecords /\ Len(callDurable) <= MaxRecords
    BY <1>1
  <2>5. active \in [Index -> 0 .. Len(callRecords)]
    BY <1>1, <2>2
  <2>6. QED
    BY <2>1, <2>2, <2>3, <2>4, <2>5 DEF CallType, C!TypeOK
<1>3. PlaceInv
  BY <1>1 DEF PlaceInv, At, Listed, Tracked
<1>4. ObservationInv
  BY DEF ObservationInv
<1>5. DiskInv
  BY <1>1 DEF DiskInv, C!CleanIsDurable
<1>6. C!OpenIsTracked
  BY <1>1 DEF C!OpenIsTracked, C!IsActive
<1>7. RowsInv(callRecords, carrier, GoneCalls, misjudged) /\ RowsInv(callDurable, carrier, GoneCalls, misjudged)
  BY <1>1 DEF RowsInv, Marked
<1>8. QED
  BY <1>2, <1>3, <1>4, <1>5, <1>6, <1>7 DEF CallInv

(* The invariant of the log is inductive.                                  *)
LEMMA CallStep ==
    ASSUME C!HistoryAssumption, CallInv, [C!Next]_(C!vars)
    PROVE  CallInv'
<1>1. CallType'
  BY CallTypeStep
<1>2. PlaceInv'
  BY PlaceStep
<1>3. ObservationInv'
  BY ObservationStep
<1>4. C!OpenIsTracked'
  BY TrackedStep
<1>5. /\ DiskInv'
      /\ RowsInv(callRecords', carrier', GoneCalls', misjudged')
      /\ RowsInv(callDurable', carrier', GoneCalls', misjudged')
  BY RowsStep
<1>6. QED
  BY <1>1, <1>2, <1>3, <1>4, <1>5, Zenon DEF CallInv

(* It gives what the run checks of the log at any time.                    *)
LEMMA LogFollows ==
    ASSUME CallInv
    PROVE  LogIsSound
<1>1. C!CallsAttributed
  BY DEF CallInv, RowsInv, C!CallsAttributed
<1>2. C!GapIsMarked
  BY DEF CallInv, RowsInv, Marked, C!GapIsMarked
<1>3. QED
  BY <1>1, <1>2 DEF LogIsSound, C!LogIsSound, CallInv, CallType, DiskInv

(* A step that closes a record closes it rightly: only observe and the     *)
(* start do, and the start marks what it closes.                           *)
LEMMA HangupStep ==
    ASSUME C!HistoryAssumption, CallInv, [C!Next]_(C!vars),
           NEW n \in DOMAIN callRecords \cap DOMAIN callRecords',
           ~callRecords[n].ended, callRecords'[n].ended, callRecords'[n].state # "interrupted"
    PROVE  C!Over(callRecords[n].number) \/ callRecords[n].number \in cut
<1>0. /\ CallType /\ DiskInv /\ C!OpenIsTracked /\ MaxRecords \in Nat
  BY DEF CallInv, C!HistoryAssumption
<1>1. /\ callRecords \in Seq(C!Record) /\ callDurable \in Seq(C!Record)
      /\ DOMAIN callRecords = 1 .. Len(callRecords) /\ DOMAIN callDurable = 1 .. Len(callDurable)
      /\ n \in 1 .. Len(callRecords) /\ callRecords[n] \in C!Record
      /\ \A m \in 1 .. Len(callDurable) : callDurable[m] \in C!Record
  <2>1. callRecords \in Seq(C!Record) /\ callDurable \in Seq(C!Record)
    BY <1>0 DEF CallType, C!TypeOK
  <2>2. QED
    BY <2>1
<1>2. ASSUME C!QueryFails
      PROVE  FALSE
  <2>1. C!Interrupt
    BY <1>2 DEF C!QueryFails
  <2>2. IF C!IsActive(n)
        THEN callRecords'[n] = [callRecords[n] EXCEPT !.state = "interrupted"]
        ELSE callRecords'[n] = callRecords[n]
    BY <1>0, <1>1, <2>1, InterruptGives
  <2>3. QED
    BY <1>1, <2>2 DEF C!Record
<1>3. ASSUME C!Restart
      PROVE  FALSE
  <2>1. /\ callRecords' \in Seq(C!Record) /\ Len(callRecords') = Len(callDurable)
        /\ \A m \in 1 .. Len(callDurable) :
              IF callDurable[m].number # NoCall /\ ~callDurable[m].ended
              THEN callRecords'[m] = [callDurable[m] EXCEPT !.state = "interrupted"]
              ELSE callRecords'[m] = callDurable[m]
    BY <1>0, <1>3, RestartGives
  <2>2. n \in 1 .. Len(callDurable) /\ callDurable[n] \in C!Record
    BY <1>1, <2>1
  <2>3. callDurable[n].ended
    BY <2>1, <2>2 DEF C!Record
  <2>4. QED
    BY <1>0, <1>1, <2>2, <2>3 DEF DiskInv
<1>4. ASSUME C!AppendHistory \/ C!AppendKnown
      PROVE  FALSE
  BY <1>0, <1>1, <1>4, AppendGives
<1>5. ASSUME C!FinishObservation
      PROVE  C!Over(callRecords[n].number) \/ callRecords[n].number \in cut
  <2>1. PICK who \in Card \cup {NoCard} : C!Observe(listing, who)
    BY <1>0, <1>5, FinishGives
  <2>2. callPC = "confirm"
    BY <1>0, <1>5, FinishGives
  <2>3. CASE C!Open(callRecords[n])
    BY <1>1, <2>1, <2>2, <2>3, ObserveCloses
  <2>4. CASE ~C!Open(callRecords[n])
    <3>1. /\ Len(callRecords) \in Nat /\ Len(callRecords') \in Nat /\ Len(callRecords) <= Len(callRecords')
          /\ \A m \in 1 .. Len(callRecords') : Ends(who, m) \/ \E i \in DOMAIN listing : Goes(who, m, i)
      BY <1>0, <2>1, ObserveFates
    <3>2. Ends(who, n) \/ \E i \in DOMAIN listing : Goes(who, n, i)
      BY <1>1, <3>1
    <3>3. QED
      BY <2>4, <3>2 DEF Ends, Goes
  <2>5. QED
    BY <2>3, <2>4
<1>6. ASSUME \/ \E c \in Call, i \in Index : C!CallBegins(c, i)
             \/ \E i \in Index : C!CallIsAnswered(i) \/ C!CallEnds(i)
             \/ C!ChangeCard \/ C!ReadBefore \/ C!QueryCalls \/ C!CaptureFails \/ UNCHANGED C!vars
      PROVE  callRecords' = callRecords
  BY <1>6 DEF C!CallBegins, C!CallIsAnswered, C!CallEnds, C!ChangeCard, C!ReadBefore, C!QueryCalls,
              C!CaptureFails, C!vars, C!log
<1>7. QED
  BY <1>2, <1>3, <1>4, <1>5, <1>6, CallCases, Zenon

(* Whatever crashes, failed saves, failed or cut queries and card changes  *)
(* do, the log stays typed; a clean log is on disk; what is tracked is     *)
(* what is open; a call is under its own card or none; and the earlier of  *)
(* two records of a call shows the gap, unless a cut answer misjudged it.  *)
THEOREM LogKept == C!Spec => []LogIsSound
<1>1. C!HistoryAssumption
  BY HistoryConfiguration
<1>2. C!Init => CallInv
  BY <1>1, CallInit
<1>3. CallInv /\ [C!Next]_(C!vars) => CallInv'
  BY <1>1, CallStep
<1>4. CallInv => LogIsSound
  BY LogFollows
<1>5. QED
  BY <1>2, <1>3, <1>4, PTL DEF C!Spec

(* And a record says that its call has ended, was missed or was not        *)
(* answered only when the call is over, or was left out of an answer that  *)
(* was cut short: no other failure, and no crash, ends a record early.     *)
THEOREM HangupKept == C!Spec => HangupIsReal
<1>1. C!HistoryAssumption
  BY HistoryConfiguration
<1>2. C!Init => CallInv
  BY <1>1, CallInit
<1>3. CallInv /\ [C!Next]_(C!vars) => CallInv'
  BY <1>1, CallStep
<1>4. CallInv /\ [C!Next]_(C!vars) =>
         [\A n \in DOMAIN callRecords \cap DOMAIN callRecords' :
             /\ ~callRecords[n].ended
             /\ callRecords'[n].ended
             /\ callRecords'[n].state # "interrupted"
             => C!Over(callRecords[n].number) \/ callRecords[n].number \in cut]_(C!vars)
  BY <1>1, HangupStep
<1>5. QED
  BY <1>2, <1>3, <1>4, PTL DEF C!Spec, HangupIsReal, C!HangupIsReal

(***************************************************************************)
(* The backup.  The newest file of the directory is the one the settings   *)
(* call the last backup when old files are removed, and nothing on disk is *)
(* newer than the memory.                                                  *)
(***************************************************************************)
Settings ==
    [directory : Dir \cup {None}, enabled : BOOLEAN, owner : Owner \cup {None},
     fingerprint : K!Content \cup {None}, last : K!File \cup {None}]

(* A backup in progress has published a file, the newest of its directory. *)
DraftInv ==
    LET here == files[config.directory]
    IN  /\ Len(here) # 0
        /\ draft.last = here[Len(here)]
        /\ draft.last.owner = draft.owner

BackupInv ==
    /\ K!TypeOK /\ K!CleanIsDurable /\ K!LastBackupKept
    /\ config \in Settings /\ draft \in Settings
    /\ \A r \in Id : backupRecords[r] >= backupDurable[r]
    /\ backupPC # "idle" => DraftInv
    /\ backupPC = "saved" => config = draft

(* The backup counts as everybody does.                                    *)
LEMMA BackupCount ==
    ASSUME NEW S
    PROVE  /\ K!Cardinality(S) = Cardinality(S)
           /\ \A i : K!Nth(S, i) = Rank(S, i)
BY DEF K!Cardinality, Cardinality, K!Nth, Rank

(* What is picked keeps its order, and nothing else is left.               *)
LEMMA PickedGives ==
    ASSUME NEW seq, seq \in Seq(K!File), NEW S, S \subseteq DOMAIN seq
    PROVE  /\ K!Picked(seq, S) \in Seq(K!File)
           /\ \A i \in S : \E n \in DOMAIN K!Picked(seq, S) : K!Picked(seq, S)[n] = seq[i]
           /\ \E at \in [DOMAIN K!Picked(seq, S) -> S] :
                 /\ \A m, n \in DOMAIN K!Picked(seq, S) : at[m] = at[n] => m = n
                 /\ \A n \in DOMAIN K!Picked(seq, S) : K!Picked(seq, S)[n] = seq[at[n]]
<1> DEFINE N    == Cardinality(S)
           At1(n) == CHOOSE i \in S : K!Nth(S, i) = n
           at   == [n \in 1 .. N |-> At1(n)]
           new  == K!Picked(seq, S)
<1>1. DOMAIN seq = 1 .. Len(seq) /\ Len(seq) \in Nat
  OBVIOUS
<1>2. S \in SUBSET Nat /\ IsFiniteSet(S)
  <2>1. IsFiniteSet(1 .. Len(seq))
    BY <1>1, FS_Interval
  <2>2. QED
    BY <1>1, <2>1, FS_Subset
<1>3. /\ N \in Nat
      /\ \A i \in S : Rank(S, i) \in 1 .. N
      /\ \A i, k \in S : Rank(S, i) = Rank(S, k) => i = k
      /\ \A n \in 1 .. N : \E i \in S : Rank(S, i) = n
  BY <1>2, RankCounts
<1>4. \A n \in 1 .. N : At1(n) \in S /\ Rank(S, At1(n)) = n
  <2>1. SUFFICES ASSUME NEW n \in 1 .. N
                 PROVE  At1(n) \in S /\ Rank(S, At1(n)) = n
    OBVIOUS
  <2>2. PICK i \in S : K!Nth(S, i) = n
    BY <1>3, BackupCount
  <2>3. At1(n) \in S /\ K!Nth(S, At1(n)) = n
    BY <2>2
  <2>4. QED
    BY <2>3, BackupCount
<1>5. new = [n \in 1 .. N |-> seq[At1(n)]]
  BY BackupCount DEF K!Picked
<1> HIDE DEF N, At1, new
<1>6. at \in [1 .. N -> S]
  BY <1>4
<1>7. \A i \in S : seq[i] \in K!File
  BY <1>1
<1>8. new \in [1 .. N -> K!File]
  BY <1>4, <1>5, <1>7
<1>9. new \in Seq(K!File) /\ DOMAIN new = 1 .. N
  BY <1>3, <1>8
<1>10. \A i \in S : \E n \in DOMAIN new : new[n] = seq[i]
  <2>1. SUFFICES ASSUME NEW i \in S
                 PROVE  \E n \in 1 .. N : new[n] = seq[i]
    BY <1>9
  <2>2. Rank(S, i) \in 1 .. N /\ At1(Rank(S, i)) = i
    BY <1>3, <1>4
  <2>3. QED
    BY <1>5, <2>2
<1>11. /\ \A m, n \in DOMAIN new : at[m] = at[n] => m = n
       /\ \A n \in DOMAIN new : new[n] = seq[at[n]]
  BY <1>4, <1>5, <1>9
<1> HIDE DEF at
<1>12. QED
  BY <1>6, <1>9, <1>10, <1>11 DEF new

(* Removing the surplus leaves at most Keep files of the owner, the newest *)
(* file among them.                                                        *)
LEMMA RotationGives ==
    ASSUME K!BackupAssumption, K!TypeOK, config.directory \in Dir,
           NEW left, left = K!Picked(files[config.directory],
                                     DOMAIN files[config.directory] \ K!Surplus(config.directory))
    PROVE  /\ left \in Seq(K!File)
           /\ Cardinality({n \in DOMAIN left : left[n].owner = config.owner}) <= Keep
           /\ LET here == files[config.directory]
              IN  Len(here) # 0 => \E n \in DOMAIN left : left[n] = here[Len(here)]
<1> DEFINE here    == files[config.directory]
           own     == K!Own(config.directory)
           surplus == K!Surplus(config.directory)
           S       == DOMAIN here \ surplus
           N       == Cardinality(own)
           mine    == {n \in DOMAIN left : left[n].owner = config.owner}
<1>1. /\ here \in Seq(K!File) /\ DOMAIN here = 1 .. Len(here) /\ Len(here) \in Nat
      /\ Keep \in Nat \ {0}
  BY DEF K!TypeOK, K!BackupAssumption
<1>2. /\ own \subseteq DOMAIN here /\ own \in SUBSET Nat /\ IsFiniteSet(own)
      /\ \A i \in DOMAIN here : here[i].owner = config.owner => i \in own
  <2>1. IsFiniteSet(1 .. Len(here))
    BY <1>1, FS_Interval
  <2>2. /\ own \subseteq DOMAIN here
        /\ \A i \in DOMAIN here : here[i].owner = config.owner => i \in own
    BY DEF K!Own
  <2>3. own \in SUBSET Nat
    BY <1>1, <2>2
  <2>4. QED
    BY <1>1, <2>1, <2>2, <2>3, FS_Subset
<1>3. /\ N \in Nat
      /\ \A i \in own : Rank(own, i) \in 1 .. N
      /\ \A i, k \in own : Rank(own, i) = Rank(own, k) => i = k
  BY <1>2, RankCounts
<1>4. \A i : i \in surplus <=> i \in own /\ Rank(own, i) + Keep <= N
  BY BackupCount DEF K!Surplus
<1> HIDE DEF here, own, surplus, S, N
<1>5. left = K!Picked(here, S) /\ S \subseteq DOMAIN here
  BY DEF here, surplus, S
<1>6. left \in Seq(K!File) /\ \A i \in S : \E n \in DOMAIN left : left[n] = here[i]
  <2>1. here \in Seq(K!File) /\ S \subseteq DOMAIN here
    BY <1>1, <1>5
  <2>2. K!Picked(here, S) \in Seq(K!File)
    BY <2>1, PickedGives, Zenon
  <2>3. ASSUME NEW i \in S
        PROVE  \E n \in DOMAIN K!Picked(here, S) : K!Picked(here, S)[n] = here[i]
    BY <2>1, PickedGives
  <2>4. left = K!Picked(here, S)
    BY <1>5
  <2>5. QED
    BY <2>2, <2>3, <2>4, Zenon
<1>7. PICK at \in [DOMAIN left -> S] :
          /\ \A m, n \in DOMAIN left : at[m] = at[n] => m = n
          /\ \A n \in DOMAIN left : left[n] = here[at[n]]
  <2>1. here \in Seq(K!File) /\ S \subseteq DOMAIN here
    BY <1>1, <1>5
  <2>2. \E at \in [DOMAIN K!Picked(here, S) -> S] :
           /\ \A m, n \in DOMAIN K!Picked(here, S) : at[m] = at[n] => m = n
           /\ \A n \in DOMAIN K!Picked(here, S) : K!Picked(here, S)[n] = here[at[n]]
    BY <2>1, PickedGives, Zenon
  <2>3. left = K!Picked(here, S)
    BY <1>5
  <2>4. QED
    BY <2>2, <2>3, Zenon
<1>8. Cardinality(mine) <= Keep
  <2> DEFINE place == [n \in mine |-> Rank(own, at[n])]
             room  == (N - Keep) + 1 .. N
  <2>1. \A n \in mine : at[n] \in own /\ at[n] \notin surplus
    <3>1. SUFFICES ASSUME NEW n \in mine
                   PROVE  at[n] \in own /\ at[n] \notin surplus
      OBVIOUS
    <3>2. at[n] \in S /\ here[at[n]].owner = config.owner
      BY <1>7
    <3>3. QED
      BY <1>2, <3>2 DEF S
  <2> HIDE DEF mine
  <2>2. \A n \in mine : Rank(own, at[n]) \in room
    <3>1. SUFFICES ASSUME NEW n \in mine
                   PROVE  Rank(own, at[n]) \in room
      OBVIOUS
    <3>2. Rank(own, at[n]) \in 1 .. N /\ ~(Rank(own, at[n]) + Keep <= N)
      BY <1>3, <1>4, <2>1
    <3>3. QED
      BY <1>1, <1>3, <3>2
  <2>3. place \in Injection(mine, room)
    <3>1. place \in [mine -> room]
      BY <2>2
    <3>2. \A m, n \in mine : place[m] = place[n] => m = n
      <4>1. \A n \in mine : n \in DOMAIN left /\ at[n] \in own
        BY <2>1 DEF mine
      <4>2. QED
        BY <1>3, <1>7, <4>1
    <3>3. QED
      BY <3>1, <3>2 DEF Injection, IsInjective
  <2>4. IsFiniteSet(room) /\ Cardinality(room) = Keep
    <3>1. (N - Keep) + 1 \in Int /\ N \in Int /\ N \in Nat /\ Keep \in Nat \ {0}
      BY <1>1, <1>3
    <3>2. /\ IsFiniteSet(room)
          /\ Cardinality(room) = IF (N - Keep) + 1 > N THEN 0 ELSE N - ((N - Keep) + 1) + 1
      BY <3>1, FS_Interval, Zenon
    <3>3. (N - Keep) + 1 <= N /\ N - ((N - Keep) + 1) + 1 = Keep
      BY <3>1
    <3>4. ~((N - Keep) + 1 > N)
      BY <3>1
    <3>5. QED
      BY <3>2, <3>3, <3>4, Zenon
  <2>5. QED
    BY <2>3, <2>4, FS_Injection
<1>9. ASSUME Len(here) # 0
      PROVE  \E n \in DOMAIN left : left[n] = here[Len(here)]
  <2>1. Len(here) \in DOMAIN here
    BY <1>1, <1>9
  <2>2. ASSUME Len(here) \in own
        PROVE  Rank(own, Len(here)) = N
    <3>1. \A j \in own : j <= Len(here)
      BY <1>1, <1>2
    <3>2. {j \in own : j <= Len(here)} = own
      BY <3>1
    <3>3. QED
      BY <3>2 DEF Rank, N
  <2>3. Len(here) \notin surplus
    BY <1>1, <1>3, <1>4, <2>2
  <2>4. QED
    BY <1>6, <2>1, <2>3 DEF S
<1>10. QED
  BY <1>6, <1>8, <1>9 DEF here

(* A new hub has no backups.                                               *)
LEMMA BackupInit ==
    ASSUME K!BackupAssumption, K!Init
    PROVE  BackupInv
<1> USE DEF K!Init, K!NoConfig
<1>1. backupRecords \in K!Content /\ backupDurable \in K!Content /\ \A r \in Id : 0 >= 0
  BY DEF K!Empty, K!Content, K!BackupAssumption
<1>2. files \in [Dir -> Seq(K!File)]
  <2>1. \A S : << >> \in Seq(S)
    OBVIOUS
  <2>2. QED
    BY <2>1
<1>3. config \in Settings /\ draft \in Settings
  BY DEF Settings
<1>4. K!TypeOK
  <2>1. \A c \in {config, draft} : c \in Settings
    BY <1>3
  <2>2. backupDirty \in BOOLEAN /\ backupPC = "idle" /\ due \in BOOLEAN
    OBVIOUS
  <2> HIDE DEF K!Init, K!NoConfig
  <2>3. QED
    BY <1>1, <1>2, <2>1, <2>2 DEF K!TypeOK, Settings
<1>5. K!CleanIsDurable /\ K!LastBackupKept
  BY DEF K!CleanIsDurable, K!LastBackupKept
<1>6. \A r \in Id : backupRecords[r] >= backupDurable[r]
  BY <1>1 DEF K!Empty
<1>7. QED
  BY <1>3, <1>4, <1>5, <1>6 DEF BackupInv

(* Next, one disjunct per operation.                                       *)
LEMMA BackupCases ==
    ASSUME [K!Next]_(K!vars)
    PROVE  \/ (\E r \in Id : K!Change(r)) \/ K!SaveAgain
           \/ (\E d \in Dir, enabled \in BOOLEAN : K!Configure(d, enabled)) \/ K!TimePasses
           \/ K!Publish /\ backupPC = "idle"
           \/ K!SaveConfig \/ K!SaveConfigFails \/ K!Rotate
           \/ (\E content \in K!Content : K!Restore(content)) \/ K!Crash
           \/ UNCHANGED K!vars
BY DEF K!Next, K!BackupNow, K!BackupIfDue

(* The steps that touch the records alone.                                 *)
LEMMA DataStep ==
    ASSUME BackupInv, backupPC' \in {backupPC, "idle"}, UNCHANGED <<config, files>>,
           due' \in BOOLEAN, backupDirty' \in BOOLEAN,
           backupPC' # "idle" => draft' = draft, draft' \in Settings,
           backupRecords' \in K!Content, backupDurable' \in K!Content,
           K!CleanIsDurable', \A r \in Id : backupRecords'[r] >= backupDurable'[r]
    PROVE  BackupInv'
<1>1. K!TypeOK'
  BY DEF BackupInv, K!TypeOK, Settings
<1>2. K!LastBackupKept'
  BY DEF BackupInv, K!LastBackupKept
<1>3. config' \in Settings /\ draft' \in Settings
  BY DEF BackupInv
<1>4. backupPC' # "idle" => DraftInv'
  BY DEF BackupInv, DraftInv
<1>5. backupPC' = "saved" => config' = draft'
  BY DEF BackupInv
<1>6. QED
  BY <1>1, <1>2, <1>3, <1>4, <1>5 DEF BackupInv

(* A save writes everything or nothing.                                    *)
LEMMA BackupSave ==
    ASSUME K!BackupAssumption, BackupInv, backupRecords' \in K!Content,
           \A r \in Id : backupRecords'[r] >= backupRecords[r], K!Save
    PROVE  /\ backupDurable' \in K!Content /\ backupDirty' \in BOOLEAN /\ K!CleanIsDurable'
           /\ \A r \in Id : backupRecords'[r] >= backupDurable'[r]
           /\ \A r \in Id : backupDurable'[r] >= backupDurable[r]
<1>1. /\ backupRecords \in K!Content /\ backupDurable \in K!Content
      /\ \A r \in Id : backupRecords[r] >= backupDurable[r]
  BY DEF BackupInv, K!TypeOK
<1>2. MaxVersion \in Nat
  BY DEF K!BackupAssumption
<1>3. \A r \in Id : backupRecords[r] \in Nat /\ backupDurable[r] \in Nat /\ backupRecords'[r] \in Nat
  BY <1>1, <1>2 DEF K!Content
<1>4. \A r \in Id : backupRecords'[r] >= backupDurable[r] /\ backupRecords'[r] >= backupRecords'[r]
                    /\ backupDurable[r] >= backupDurable[r]
  BY <1>1, <1>3
<1>5. CASE backupDurable' = backupRecords' /\ backupDirty' = FALSE
  BY <1>4, <1>5 DEF K!CleanIsDurable
<1>6. CASE backupDurable' = backupDurable /\ backupDirty' = TRUE
  BY <1>1, <1>4, <1>6 DEF K!CleanIsDurable
<1>7. QED
  BY <1>5, <1>6 DEF K!Save

(* The invariant is inductive, nothing goes back on disk, and a backup     *)
(* that completes leaves at most Keep files of its owner.                  *)
LEMMA BackupStep ==
    ASSUME K!BackupAssumption, BackupInv, [K!Next]_(K!vars)
    PROVE  /\ BackupInv'
           /\ \A r \in Id : backupDurable'[r] >= backupDurable[r]
           /\ K!Rotate => K!Cardinality(K!Own(config.directory)') <= Keep
<1>0. /\ backupRecords \in K!Content /\ backupDurable \in K!Content /\ K!TypeOK
      /\ config \in Settings /\ draft \in Settings /\ K!NoConfig \in Settings
      /\ \A r \in Id : backupRecords[r] >= backupDurable[r]
      /\ due \in BOOLEAN /\ backupDirty \in BOOLEAN /\ files \in [Dir -> Seq(K!File)]
  BY DEF BackupInv, K!TypeOK, Settings, K!NoConfig
<1>00. /\ MaxVersion \in Nat /\ None \notin Dir
       /\ \A r \in Id : backupRecords[r] \in 0 .. MaxVersion /\ backupDurable[r] \in 0 .. MaxVersion
       /\ \A r \in Id : backupRecords[r] \in Nat /\ backupDurable[r] \in Nat
       /\ \A r \in Id : backupDurable[r] >= backupDurable[r]
  <2>1. MaxVersion \in Nat /\ None \notin Dir
    BY DEF K!BackupAssumption
  <2>2. \A r \in Id : backupRecords[r] \in 0 .. MaxVersion /\ backupDurable[r] \in 0 .. MaxVersion
    BY <1>0 DEF K!Content
  <2>3. \A n \in 0 .. MaxVersion : n \in Nat /\ n >= n
    BY <2>1
  <2>4. QED
    BY <2>1, <2>2, <2>3
<1>1. ASSUME NEW r \in Id, K!Change(r)
      PROVE  BackupInv' /\ \A s \in Id : backupDurable'[s] >= backupDurable[s]
  <2>1. /\ backupRecords[r] < MaxVersion
        /\ backupRecords' = [backupRecords EXCEPT ![r] = @ + 1]
        /\ K!Save /\ UNCHANGED <<config, draft, backupPC, due, files>>
    BY <1>1 DEF K!Change
  <2>2. \A s \in Id : backupRecords'[s] = IF s = r THEN backupRecords[r] + 1 ELSE backupRecords[s]
    BY <1>0, <2>1 DEF K!Content
  <2>3. \A s \in Id : backupRecords'[s] \in 0 .. MaxVersion /\ backupRecords'[s] >= backupRecords[s]
    BY <1>00, <2>1, <2>2
  <2>4. backupRecords' \in K!Content
    BY <1>0, <2>1, <2>3 DEF K!Content
  <2>5. /\ backupDurable' \in K!Content /\ backupDirty' \in BOOLEAN /\ K!CleanIsDurable'
        /\ \A s \in Id : backupRecords'[s] >= backupDurable'[s]
        /\ \A s \in Id : backupDurable'[s] >= backupDurable[s]
    BY <2>1, <2>3, <2>4, BackupSave
  <2>6. QED
    BY <1>0, <2>1, <2>4, <2>5, DataStep
<1>2. ASSUME K!SaveAgain
      PROVE  BackupInv' /\ \A s \in Id : backupDurable'[s] >= backupDurable[s]
  <2>1. backupRecords' = backupRecords /\ K!Save /\ UNCHANGED <<config, draft, backupPC, due, files>>
    BY <1>2 DEF K!SaveAgain
  <2>2. \A s \in Id : backupRecords'[s] >= backupRecords[s]
    BY <1>00, <2>1
  <2>3. /\ backupDurable' \in K!Content /\ backupDirty' \in BOOLEAN /\ K!CleanIsDurable'
        /\ \A s \in Id : backupRecords'[s] >= backupDurable'[s]
        /\ \A s \in Id : backupDurable'[s] >= backupDurable[s]
    BY <1>0, <2>1, <2>2, BackupSave
  <2>4. QED
    BY <1>0, <2>1, <2>3, DataStep
<1>3. ASSUME NEW d \in Dir, NEW enabled \in BOOLEAN, K!Configure(d, enabled)
      PROVE  BackupInv' /\ \A s \in Id : backupDurable'[s] >= backupDurable[s]
  <2>1. /\ backupPC = "idle" /\ backupPC' = "idle" /\ due' \in BOOLEAN
        /\ UNCHANGED <<backupRecords, backupDurable, backupDirty, draft, files>>
        /\ \/ config' = [config EXCEPT !.enabled = enabled]
           \/ config' = [config EXCEPT !.directory = d, !.enabled = enabled, !.fingerprint = None, !.last = None]
    BY <1>0, <1>3 DEF K!Configure, K!data
  <2>2. config' \in Settings
    BY <1>0, <2>1 DEF Settings
  <2>3. /\ config'.last = None \/ (config'.last = config.last /\ config'.directory = config.directory)
    BY <1>0, <2>1 DEF Settings
  <2>4. K!LastBackupKept'
    BY <2>1, <2>3 DEF BackupInv, K!LastBackupKept
  <2>5. K!TypeOK'
    BY <1>0, <2>1, <2>2 DEF K!TypeOK, Settings
  <2>6. K!CleanIsDurable'
    BY <2>1 DEF BackupInv, K!CleanIsDurable
  <2>7. QED
    BY <1>0, <1>00, <2>1, <2>2, <2>4, <2>5, <2>6 DEF BackupInv
<1>4. ASSUME \/ K!TimePasses \/ K!SaveConfigFails
             \/ UNCHANGED K!vars
      PROVE  BackupInv' /\ \A s \in Id : backupDurable'[s] >= backupDurable[s]
  <2>1. /\ UNCHANGED <<backupRecords, backupDurable, backupDirty, config, files>> /\ due' \in BOOLEAN
        /\ \/ UNCHANGED <<backupPC, draft>>
           \/ backupPC' = "idle" /\ draft' = K!NoConfig
    BY <1>0, <1>4 DEF K!TimePasses, K!SaveConfigFails, K!vars, K!data, K!EndBackup
  <2>2. K!CleanIsDurable'
    BY <2>1 DEF BackupInv, K!CleanIsDurable
  <2>3. QED
    BY <1>0, <1>00, <2>1, <2>2, DataStep
<1>5. ASSUME K!Publish, backupPC = "idle"
      PROVE  BackupInv' /\ \A s \in Id : backupDurable'[s] >= backupDurable[s]
  <2> DEFINE d == config.directory
  <2>1. PICK token \in Owner :
           LET file == [owner |-> token, content |-> backupDurable]
           IN  /\ files' = [files EXCEPT ![d] = Append(@, file)]
               /\ draft' = [config EXCEPT !.owner = token, !.last = file, !.fingerprint = backupRecords]
    BY <1>5 DEF K!Publish
  <2> DEFINE file == [owner |-> token, content |-> backupDurable]
  <2>2. /\ d # None /\ backupPC' = "published"
        /\ UNCHANGED <<backupRecords, backupDurable, backupDirty, config, due>>
    BY <1>5 DEF K!Publish, K!data
  <2>3. file \in K!File /\ file.owner = token
    BY <1>0 DEF K!File
  <2>4. d \in Dir /\ files[d] \in Seq(K!File)
    BY <1>0, <2>2 DEF Settings
  <2>5. /\ draft' \in Settings /\ draft'.directory = d /\ draft'.last = file /\ draft'.owner = token
    BY <1>0, <2>1, <2>3 DEF Settings
  <2> HIDE DEF file
  <2>6. /\ files'[d] = Append(files[d], file)
        /\ \A e \in Dir : e # d => files'[e] = files[e]
        /\ files' = [files EXCEPT ![d] = Append(@, file)]
    BY <1>0, <2>1, <2>4 DEF file
  <2>7. /\ Append(files[d], file) \in Seq(K!File) /\ Len(files[d]) \in Nat
        /\ Len(Append(files[d], file)) = Len(files[d]) + 1
        /\ Append(files[d], file)[Len(files[d]) + 1] = file
        /\ \A i \in 1 .. Len(files[d]) : Append(files[d], file)[i] = files[d][i]
    BY <2>3, <2>4, AppendProperties
  <2>8. files' \in [Dir -> Seq(K!File)]
    BY <1>0, <2>4, <2>6, <2>7
  <2>9. DraftInv'
    <3>1. Len(files'[d]) # 0 /\ files'[d][Len(files'[d])] = file
      BY <2>6, <2>7
    <3>2. QED
      BY <2>2, <2>3, <2>5, <3>1 DEF DraftInv
  <2>10. K!LastBackupKept'
    <3>1. SUFFICES ASSUME config.last # None
                   PROVE  \E i \in DOMAIN files'[d] : files'[d][i] = config.last
      BY <2>2 DEF K!LastBackupKept, K!ToSet
    <3>2. PICK i \in DOMAIN files[d] : files[d][i] = config.last
      BY <3>1 DEF BackupInv, K!LastBackupKept, K!ToSet
    <3>3. i \in 1 .. Len(files[d])
      BY <2>4, <3>2
    <3>4. i \in 1 .. Len(files'[d]) /\ files'[d][i] = config.last
      BY <2>6, <2>7, <3>2, <3>3
    <3>5. DOMAIN files'[d] = 1 .. Len(files'[d])
      BY <2>6, <2>7
    <3>6. QED
      BY <3>4, <3>5
  <2>11. K!TypeOK'
    BY <1>0, <2>2, <2>5, <2>8 DEF K!TypeOK, Settings
  <2>12. K!CleanIsDurable'
    BY <2>2 DEF BackupInv, K!CleanIsDurable
  <2>13. QED
    BY <1>0, <1>00, <2>2, <2>5, <2>9, <2>10, <2>11, <2>12 DEF BackupInv
<1>6. ASSUME K!SaveConfig
      PROVE  BackupInv' /\ \A s \in Id : backupDurable'[s] >= backupDurable[s]
  <2>1. /\ backupPC = "published" /\ config' = draft /\ due' = FALSE /\ backupPC' = "saved"
        /\ UNCHANGED <<backupRecords, backupDurable, backupDirty, draft, files>>
    BY <1>6 DEF K!SaveConfig, K!data
  <2>2. DraftInv /\ draft.directory = config.directory /\ config.directory # None
    BY <2>1 DEF BackupInv, K!TypeOK
  <2>3. DraftInv'
    BY <2>1, <2>2 DEF DraftInv
  <2>4. K!LastBackupKept'
    <3> DEFINE here == files[config.directory]
    <3>1. here \in Seq(K!File)
      BY <1>0, <2>2 DEF Settings
    <3>2. Len(here) \in DOMAIN here /\ here[Len(here)] = draft.last
      <4>1. Len(here) # 0 /\ here[Len(here)] = draft.last
        BY <2>2 DEF DraftInv
      <4> HIDE DEF here
      <4>2. QED
        BY <3>1, <4>1
    <3>3. QED
      BY <2>1, <2>2, <3>2 DEF K!LastBackupKept, K!ToSet
  <2>5. K!TypeOK'
    BY <1>0, <2>1, <2>2 DEF K!TypeOK, Settings
  <2>6. K!CleanIsDurable'
    BY <2>1 DEF BackupInv, K!CleanIsDurable
  <2>7. QED
    BY <1>0, <1>00, <2>1, <2>3, <2>4, <2>5, <2>6 DEF BackupInv
<1>7. ASSUME K!Rotate
      PROVE  /\ BackupInv' /\ \A s \in Id : backupDurable'[s] >= backupDurable[s]
             /\ K!Cardinality(K!Own(config.directory)') <= Keep
  <2> DEFINE d == config.directory
             left == K!Picked(files[d], DOMAIN files[d] \ K!Surplus(d))
  <2>1. /\ backupPC = "saved" /\ backupPC' = "idle" /\ draft' = K!NoConfig
        /\ files' = [files EXCEPT ![d] = left]
        /\ UNCHANGED <<backupRecords, backupDurable, backupDirty, config, due>>
    BY <1>7 DEF K!Rotate, K!EndBackup, K!data
  <2>2. d \in Dir /\ DraftInv /\ config = draft
    BY <1>0, <2>1 DEF BackupInv, K!TypeOK, Settings
  <2>3. /\ left \in Seq(K!File)
        /\ Cardinality({n \in DOMAIN left : left[n].owner = config.owner}) <= Keep
        /\ Len(files[d]) # 0 => \E n \in DOMAIN left : left[n] = files[d][Len(files[d])]
    BY <1>0, <2>2, RotationGives
  <2> HIDE DEF left
  <2>4. files' \in [Dir -> Seq(K!File)] /\ files'[d] = left
    BY <1>0, <2>1, <2>2, <2>3
  <2>5. K!LastBackupKept'
    <3>1. Len(files[d]) # 0 /\ config.last = files[d][Len(files[d])]
      BY <2>2 DEF DraftInv
    <3>2. QED
      BY <2>1, <2>3, <2>4, <3>1 DEF K!LastBackupKept, K!ToSet
  <2>6. K!TypeOK'
    BY <1>0, <2>1, <2>4 DEF K!TypeOK, Settings
  <2>7. K!CleanIsDurable'
    BY <2>1 DEF BackupInv, K!CleanIsDurable
  <2>8. BackupInv'
    BY <1>0, <2>1, <2>5, <2>6, <2>7 DEF BackupInv
  <2>9. K!Own(config.directory)' = {n \in DOMAIN left : left[n].owner = config.owner}
    BY <2>1, <2>4 DEF K!Own
  <2>10. K!Cardinality(K!Own(config.directory)') <= Keep
    BY <2>3, <2>9, BackupCount
  <2>11. QED
    BY <1>00, <2>1, <2>8, <2>10
<1>8. ASSUME NEW content \in K!Content, K!Restore(content)
      PROVE  BackupInv' /\ \A s \in Id : backupDurable'[s] >= backupDurable[s]
  <2>1. /\ UNCHANGED <<config, draft, backupPC, due, files>>
        /\ \/ /\ backupRecords' = K!Merged(content) /\ backupDurable' = backupRecords' /\ backupDirty' = FALSE
           \/ UNCHANGED <<backupRecords, backupDurable, backupDirty>>
    BY <1>8 DEF K!Restore, K!data
  <2>2. CASE UNCHANGED <<backupRecords, backupDurable, backupDirty>>
    <3>1. K!CleanIsDurable'
      BY <2>2 DEF BackupInv, K!CleanIsDurable
    <3>2. QED
      BY <1>0, <1>00, <2>1, <2>2, <3>1, DataStep
  <2>3. CASE backupRecords' = K!Merged(content) /\ backupDurable' = backupRecords' /\ backupDirty' = FALSE
    <3>1. backupRecords' = [r \in Id |-> IF backupRecords[r] # 0 THEN backupRecords[r] ELSE content[r]]
      BY <2>3 DEF K!Merged
    <3>2. \A r \in Id : content[r] \in 0 .. MaxVersion
      BY DEF K!Content
    <3>3. \A r \in Id : backupRecords'[r] \in 0 .. MaxVersion /\ backupRecords'[r] >= backupDurable[r]
      BY <1>0, <1>00, <3>1, <3>2
    <3>4. backupRecords' \in K!Content
      BY <3>1, <3>3 DEF K!Content
    <3>5. \A r \in Id : backupRecords'[r] >= backupRecords'[r]
      BY <1>00, <3>3
    <3>6. K!CleanIsDurable'
      BY <2>3 DEF K!CleanIsDurable
    <3>7. QED
      BY <1>0, <2>1, <2>3, <3>3, <3>4, <3>5, <3>6, DataStep
  <2>4. QED
    BY <2>1, <2>2, <2>3
<1>9. ASSUME K!Crash
      PROVE  BackupInv' /\ \A s \in Id : backupDurable'[s] >= backupDurable[s]
  <2>1. /\ backupRecords' = backupDurable /\ backupDirty' = FALSE
        /\ backupPC' = "idle" /\ draft' = K!NoConfig
        /\ UNCHANGED <<backupDurable, config, due, files>>
    BY <1>9 DEF K!Crash, K!EndBackup
  <2>2. K!CleanIsDurable'
    BY <2>1 DEF K!CleanIsDurable
  <2>3. QED
    BY <1>0, <1>00, <2>1, <2>2, DataStep
<1>10. K!Rotate \/ ~K!Rotate
  OBVIOUS
<1>11. BackupInv' /\ \A s \in Id : backupDurable'[s] >= backupDurable[s]
  BY <1>1, <1>2, <1>3, <1>4, <1>5, <1>6, <1>7, <1>8, <1>9, BackupCases, Zenon
<1>12. QED
  BY <1>7, <1>11, Zenon

(* Whatever fails and crashes, backups, rotation and restores keep their   *)
(* promises, for any number of snapshots kept and of files: a clean        *)
(* history is on disk, the last backup is there, nothing goes back to an   *)
(* older version, and a completed backup leaves at most Keep snapshots.    *)
THEOREM BackupsKept == K!Spec => BackupsAreSound
<1>1. K!BackupAssumption
  BY HistoryConfiguration
<1>2. K!Init => BackupInv
  BY <1>1, BackupInit
<1>3. BackupInv /\ [K!Next]_(K!vars) => BackupInv'
  BY <1>1, BackupStep
<1>4. BackupInv => K!TypeOK /\ K!CleanIsDurable /\ K!LastBackupKept
  BY DEF BackupInv
<1>5. BackupInv /\ [K!Next]_(K!vars) =>
         [\A r \in Id : backupDurable'[r] >= backupDurable[r]]_(K!vars)
  BY <1>1, BackupStep
<1>6. BackupInv /\ [K!Next]_(K!vars) =>
         [K!Rotate => K!Cardinality(K!Own(config.directory)') <= Keep]_(K!vars)
  BY <1>1, BackupStep
<1>7. QED
  BY <1>2, <1>3, <1>4, <1>5, <1>6, PTL
     DEF K!Spec, BackupsAreSound, K!BackupsAreSound, K!NothingGoesBack, K!SnapshotsBounded

(* What the run checks of the poller: its types, and that a message filed  *)
(* under a card was received for it, unless a listing took it for one of   *)
(* SM's, through card changes, refusals, failures, crashes and cleanups.   *)
THEOREM ArchiveKept == Spec => []ArchiveIsSound
<1>1. TypeOK /\ AttributionKept => ArchiveIsSound
  BY Zenon DEF ArchiveIsSound
<1>2. QED
  BY <1>1, TypeCorrect, AttributionHolds, PTL
=============================================================================
