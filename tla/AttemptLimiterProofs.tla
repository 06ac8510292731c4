------------------------ MODULE AttemptLimiterProofs ------------------------
(***************************************************************************)
(* Theorems about AttemptLimiter, for any number of requests, window and   *)
(* limit: a slot is held by exactly the requests that are being verified,  *)
(* remembered failures and such requests never exceed the limit, and the   *)
(* failures a request is judged by are those of the window.                *)
(*                                                                         *)
(* Inv is inductive: what endAttempt adds to the failures it has to take   *)
(* from the slots, so the sum needs TypeOK's account of the slots.  The    *)
(* window needs the failures to be ordered: Exact is inductive with Inv.   *)
(***************************************************************************)
EXTENDS AttemptLimiter, FiniteSetTheorems, SequenceTheorems, WellFoundedInduction, TLAPS

Inv == TypeOK /\ WithinLimit

-----------------------------------------------------------------------------
(* The operators *)

\* Pruning only ever shortens a sequence of ages.
LEMMA PrunedProperties ==
  ASSUME NEW ages \in Seq(Age)
  PROVE  Pruned(ages) \in Seq(Age) /\ Len(Pruned(ages)) <= Len(ages)
  <1> DEFINE expired == {i \in DOMAIN ages : ages[i] >= Window}
  <1> DEFINE k == Cardinality(expired)
  <1>1. Len(ages) \in Nat /\ DOMAIN ages = 1 .. Len(ages)
    BY LenProperties
  <1>2. IsFiniteSet(expired)
    <2>1. IsFiniteSet(1 .. Len(ages))
      BY <1>1, FS_Interval
    <2>2. expired \in SUBSET (1 .. Len(ages))
      BY <1>1
    <2> QED BY <2>1, <2>2, FS_Subset
  <1>3. k \in Nat
    BY <1>2, FS_CardinalityType
  <1>4. \A i \in k + 1 .. Len(ages) : ages[i] \in Age
    BY <1>1, <1>3, ElementOfSeq
  <1> HIDE DEF k
  <1>5. /\ SubSeq(ages, k + 1, Len(ages)) \in Seq(Age)
        /\ Len(SubSeq(ages, k + 1, Len(ages))) <= Len(ages)
    BY <1>1, <1>3, <1>4, SubSeqProperties
  <1> QED BY <1>5 DEF Pruned, k

\* Ages stay ages, and nothing is added or removed when time passes.
LEMMA OlderProperties ==
  ASSUME NEW ages \in Seq(Age)
  PROVE  Older(ages) \in Seq(Age) /\ Len(Older(ages)) = Len(ages)
  <1>1. Len(ages) \in Nat /\ DOMAIN ages = 1 .. Len(ages)
    BY LenProperties
  <1>2. \A i \in DOMAIN ages : (IF ages[i] < Window THEN ages[i] + 1 ELSE Window) \in Age
    BY <1>1, ElementOfSeq, LimiterAssumption DEF Age, LimiterAssumption
  <1> QED BY <1>1, <1>2 DEF Older

\* One request starts or stops holding a slot.
LEMMA HoldingStep ==
  ASSUME TypeOK, NEW r \in Requests, NEW label \in Label, Move(r, label)
  PROVE  /\ pc' \in [Requests -> Label]
         /\ IsFiniteSet(Holding) /\ Cardinality(Holding) \in Nat
         /\ label \in {"admitted", "reset"} => Holding' = Holding \cup {r}
         /\ label \notin {"admitted", "reset"} => Holding' = Holding \ {r}
  <1>1. pc' \in [Requests -> Label]
    BY DEF TypeOK, Move
  <1>2. IsFiniteSet(Holding)
    BY FS_Subset, LimiterAssumption DEF Holding, LimiterAssumption
  <1>3. Cardinality(Holding) \in Nat
    BY <1>2, FS_CardinalityType
  <1>4. /\ label \in {"admitted", "reset"} => Holding' = Holding \cup {r}
        /\ label \notin {"admitted", "reset"} => Holding' = Holding \ {r}
    BY DEF Holding, TypeOK, Move
  <1> QED BY <1>1, <1>2, <1>3, <1>4

-----------------------------------------------------------------------------
(* The invariant is inductive *)

\* A new key has no failures and no slots.
LEMMA InvInit == Init => Inv
  <1> SUFFICES ASSUME Init PROVE Inv
    OBVIOUS
  <1>1. failures \in Seq(Age) /\ Len(failures) = 0
    BY EmptySeq DEF Init
  <1>2. Holding = {}
    BY DEF Init, Holding
  <1>3. Cardinality(Holding) = 0
    BY <1>2, FS_EmptySet
  <1> QED BY <1>1, <1>3, LimiterAssumption
      DEF Init, Inv, TypeOK, WithinLimit, Label, LimiterAssumption

\* beginAttempt takes a slot only where one is left.
LEMMA InvBegin ==
  ASSUME Inv, NEW r \in Requests, BeginAttempt(r) PROVE Inv'
  <1>1. failures' \in Seq(Age) /\ Len(failures') \in Nat /\ Len(failures') <= Len(failures)
    BY PrunedProperties, LenProperties DEF Inv, TypeOK, BeginAttempt
  <1>2. arrived' \in Nat
    BY DEF Inv, TypeOK, BeginAttempt
  <1>3. CASE UNCHANGED <<inFlight, pc>>
    <2>1. Holding' = Holding
      BY <1>3 DEF Holding
    <2>2. Len(failures) \in Nat /\ inFlight \in Nat /\ inFlight = Cardinality(Holding)
      BY LenProperties DEF Inv, TypeOK
    <2> QED BY <1>1, <1>2, <1>3, <2>1, <2>2, LimiterAssumption
        DEF Inv, TypeOK, WithinLimit, LimiterAssumption
  <1>4. CASE /\ Len(failures') + inFlight < MaxFailure
             /\ inFlight' = inFlight + 1 /\ Move(r, "admitted")
    <2>1. /\ pc' \in [Requests -> Label] /\ IsFiniteSet(Holding)
          /\ Holding' = Holding \cup {r}
      BY <1>4, HoldingStep DEF Inv, Label
    <2>2. r \notin Holding
      BY DEF BeginAttempt, Holding
    <2>3. Cardinality(Holding') = Cardinality(Holding) + 1
      BY <2>1, <2>2, FS_AddElement
    <2> QED BY <1>1, <1>2, <1>4, <2>1, <2>3, LimiterAssumption
        DEF Inv, TypeOK, WithinLimit, LimiterAssumption
  <1> QED BY <1>1, <1>3, <1>4, LimiterAssumption
      DEF BeginAttempt, Inv, TypeOK, LimiterAssumption

\* A holder ends its attempt: its slot makes room for what it adds.
LEMMA InvEnd ==
  ASSUME Inv, NEW r \in Requests, NEW failed \in BOOLEAN, r \in Holding,
         EndAttempt(failed), NEW label \in {"idle", "ended"}, Move(r, label),
         UNCHANGED arrived
  PROVE  Inv'
  <1>1. /\ pc' \in [Requests -> Label] /\ IsFiniteSet(Holding)
        /\ Holding' = Holding \ {r}
    BY HoldingStep DEF Inv, Label
  <1>2. Cardinality(Holding) \in Nat /\ Cardinality(Holding) # 0
    BY <1>1, FS_EmptySet, FS_CardinalityType
  <1>3. Cardinality(Holding') = Cardinality(Holding) - 1
    BY <1>1, FS_RemoveElement
  <1>4. inFlight' \in Nat /\ inFlight' = Cardinality(Holding')
    BY <1>2, <1>3 DEF EndAttempt, Inv, TypeOK
  <1>5. failures' \in Seq(Age) /\ Len(failures') \in Nat /\ Len(failures') <= Len(failures) + 1
    <2>1. CASE failed
      <3>1. /\ Pruned(failures) \in Seq(Age) /\ Len(Pruned(failures)) \in Nat
            /\ Len(Pruned(failures)) <= Len(failures)
        BY PrunedProperties, LenProperties DEF Inv, TypeOK
      <3>2. 0 \in Age /\ failures' = Append(Pruned(failures), 0) /\ Len(failures) \in Nat
        BY <2>1, LenProperties, LimiterAssumption
        DEF EndAttempt, Age, LimiterAssumption, Inv, TypeOK
      <3> QED BY <3>1, <3>2, AppendProperties
    <2>2. CASE ~failed
      BY <2>2, LenProperties DEF EndAttempt, Inv, TypeOK
    <2> QED BY <2>1, <2>2
  <1> QED BY <1>1, <1>2, <1>3, <1>4, <1>5, LenProperties, LimiterAssumption
      DEF Inv, TypeOK, WithinLimit, LimiterAssumption

\* A reset only removes failures; a holder keeps its slot until it has ended.
LEMMA InvReset ==
  ASSUME Inv, NEW r \in Requests, ResetAfterEnd(r) \/ ResetBeforeEnd(r) PROVE Inv'
  <1>1. failures' \in Seq(Age) /\ Len(failures') = 0
    BY EmptySeq DEF ResetAfterEnd, ResetBeforeEnd, Reset
  <1>2. PICK label \in {"idle", "reset"} :
          /\ Move(r, label)
          /\ label = "idle" => pc[r] = "ended"
          /\ label = "reset" => pc[r] = "admitted"
    BY DEF ResetAfterEnd, ResetBeforeEnd
  <1>3. pc' \in [Requests -> Label] /\ Cardinality(Holding) \in Nat
    BY <1>2, HoldingStep DEF Inv, Label
  <1>4. Holding' = Holding
    BY <1>2, HoldingStep DEF Inv, Label, Holding
  <1>5. inFlight' = inFlight /\ arrived' = arrived
    BY DEF ResetAfterEnd, ResetBeforeEnd
  <1> QED BY <1>1, <1>3, <1>4, <1>5, LenProperties, LimiterAssumption
      DEF Inv, TypeOK, WithinLimit, LimiterAssumption

\* Time and the sweep touch the ages alone, and add none.
LEMMA InvAges ==
  ASSUME Inv, Sweep \/ Tick PROVE Inv'
  <1>1. failures' \in Seq(Age) /\ Len(failures') \in Nat /\ Len(failures') <= Len(failures)
    BY PrunedProperties, OlderProperties, LenProperties DEF Inv, TypeOK, Sweep, Tick
  <1>2. UNCHANGED <<inFlight, pc, arrived>>
    BY DEF Sweep, Tick
  <1>3. Holding' = Holding
    BY <1>2 DEF Holding
  <1> QED BY <1>1, <1>2, <1>3, LenProperties, LimiterAssumption
      DEF Inv, TypeOK, WithinLimit, LimiterAssumption

\* No step of a request, the sweep or the clock breaks it.
LEMMA InvNext == Inv /\ [Next]_vars => Inv'
  <1> SUFFICES ASSUME Inv, [Next]_vars PROVE Inv'
    OBVIOUS
  <1>1. ASSUME NEW r \in Requests, BeginAttempt(r) PROVE Inv'
    BY <1>1, InvBegin
  <1>2. ASSUME NEW r \in Requests, EndFailed(r) PROVE Inv'
    BY <1>2, InvEnd DEF EndFailed, Holding
  <1>3. ASSUME NEW r \in Requests, EndReleased(r) \/ EndBeforeReset(r) \/ EndAfterReset(r)
        PROVE  Inv'
    BY <1>3, InvEnd DEF EndReleased, EndBeforeReset, EndAfterReset, Holding
  <1>4. ASSUME NEW r \in Requests, ResetAfterEnd(r) \/ ResetBeforeEnd(r) PROVE Inv'
    BY <1>4, InvReset
  <1>5. CASE Sweep \/ Tick
    BY <1>5, InvAges
  <1>6. CASE UNCHANGED vars
    BY <1>6 DEF vars, Inv, TypeOK, WithinLimit, Holding
  <1> QED BY <1>1, <1>2, <1>3, <1>4, <1>5, <1>6 DEF Next, End

\* The account of the slots and the limit hold together, from start to end.
THEOREM Invariance == Spec => []Inv
  BY InvInit, InvNext, PTL DEF Spec

\* A slot is held by exactly the requests between beginAttempt and endAttempt.
THEOREM SlotsAccounted == Spec => []TypeOK
  BY Invariance, PTL DEF Inv

\* However many requests arrive at once, no more than MaxFailure guesses are
\* remembered or being verified.
THEOREM LimitHolds == Spec => []WithinLimit
  BY Invariance, PTL DEF Inv

-----------------------------------------------------------------------------
(* The window *)

\* Every failure up to the one in place k is past the window, and no other.
Cut(ages, k) ==
  /\ k \in 0 .. Len(ages)
  /\ \A i \in 1 .. Len(ages) : i > k <=> ages[i] < Window

\* Oldest first.
Ordered(ages) == \A i, j \in 1 .. Len(ages) : i <= j => ages[j] <= ages[i]

\* A set of natural numbers has a smallest member.
LEMMA Smallest == ASSUME NEW S, S \subseteq Nat, S # {} PROVE \E x \in S : \A y \in S : x <= y
  <1> DEFINE less == {ss \in Nat \X Nat : ss[1] < ss[2]}
  <1>1. IsWellFoundedOn(less, Nat)
    BY NatLessThanWellFounded DEF OpToRel
  <1>2. \E x \in S : \A y \in S : <<y, x>> \notin less
    BY <1>1, WFMin
  <1>3. PICK x \in S : \A y \in S : ~(y < x)
    BY <1>2
  <1>4. \A y \in S : x <= y
    BY <1>3
  <1> QED BY <1>4

\* Ages are natural numbers.
LEMMA AgesAreNat == ASSUME NEW ages \in Seq(Age) PROVE \A i \in 1 .. Len(ages) : ages[i] \in Nat
  <1>1. Age \subseteq Nat
    BY LimiterAssumption DEF Age, LimiterAssumption
  <1> QED BY <1>1, ElementOfSeq

\* The expired ones of ordered failures come first.
LEMMA OrderedCut == ASSUME NEW ages \in Seq(Age), Ordered(ages) PROVE \E k : Cut(ages, k)
  <1> DEFINE n == Len(ages)
             S == {i \in 1 .. n + 1 : i = n + 1 \/ ages[i] < Window}
  <1>1. n \in Nat /\ \A i \in 1 .. n : ages[i] \in Nat
    BY LenProperties, AgesAreNat
  <1>2. S \subseteq Nat /\ n + 1 \in S
    BY <1>1
  <1>3. PICK m \in S : \A i \in S : m <= i
    BY <1>2, Smallest
  <1>4. m \in 1 .. n + 1 /\ (m # n + 1 => ages[m] < Window)
    BY <1>3
  <1>5. \A i \in 1 .. n : i < m => ~(ages[i] < Window)
    BY <1>1, <1>3
  <1>6. Window \in Nat
    BY LimiterAssumption DEF LimiterAssumption
  <1>7. ASSUME NEW i \in 1 .. n, i >= m PROVE ages[i] < Window
    <2>1. m \in 1 .. n /\ ages[i] <= ages[m]
      BY <1>1, <1>4, <1>7 DEF Ordered
    <2> QED BY <1>1, <1>4, <1>6, <2>1
  <1> HIDE DEF S
  <1>8. \A i \in 1 .. n : i > m - 1 <=> ages[i] < Window
    BY <1>1, <1>4, <1>5, <1>7
  <1>9. m - 1 \in 0 .. n
    BY <1>1, <1>4
  <1> QED BY <1>8, <1>9 DEF Cut

\* What is left of a sequence after its first k elements.
LEMMA Rest ==
  ASSUME NEW ages \in Seq(Age), NEW k \in 0 .. Len(ages)
  PROVE  /\ SubSeq(ages, k + 1, Len(ages)) \in Seq(Age)
         /\ Len(SubSeq(ages, k + 1, Len(ages))) = Len(ages) - k
         /\ \A i \in 1 .. Len(ages) - k : SubSeq(ages, k + 1, Len(ages))[i] = ages[k + i]
  <1>1. Len(ages) \in Nat /\ \A i \in k + 1 .. Len(ages) : ages[i] \in Age
    BY LenProperties, ElementOfSeq
  <1> QED BY <1>1, SubSeqProperties

\* Pruning leaves what comes after the expired ones.
LEMMA CutPruned ==
  ASSUME NEW ages \in Seq(Age), NEW k, Cut(ages, k) PROVE Pruned(ages) = SubSeq(ages, k + 1, Len(ages))
  <1> DEFINE expired == {i \in DOMAIN ages : ages[i] >= Window}
  <1>1. /\ Len(ages) \in Nat /\ DOMAIN ages = 1 .. Len(ages) /\ k \in Nat /\ k <= Len(ages)
        /\ \A i \in 1 .. Len(ages) : ages[i] \in Nat
    BY LenProperties, AgesAreNat DEF Cut
  <1>2. expired = 1 .. k
    BY <1>1, LimiterAssumption DEF Cut, LimiterAssumption
  <1>3. Cardinality(1 .. k) = k
    BY <1>1, FS_Interval
  <1> QED BY <1>2, <1>3 DEF Pruned

\* So does taking the young ones: what is taken up to place i is what comes
\* after the expired ones up to there.
LEMMA CutYoung ==
  ASSUME NEW ages \in Seq(Age), NEW k, Cut(ages, k) PROVE Young(ages) = SubSeq(ages, k + 1, Len(ages))
  <1> DEFINE n == Len(ages)
             upTo(i) == IF i <= k THEN <<>> ELSE SubSeq(ages, k + 1, i)
             Step(f) == [i \in 0 .. n |->
                           IF i = 0 THEN <<>> ELSE IF ages[i] < Window THEN Append(f[i - 1], ages[i]) ELSE f[i - 1]]
             g == [i \in 0 .. n |-> upTo(i)]
             young == CHOOSE f : f = Step(f)
  <1>1. n \in Nat /\ k \in 0 .. n /\ \A i \in 1 .. n : ages[i] \in Age /\ (i > k <=> ages[i] < Window)
    BY LenProperties, ElementOfSeq DEF Cut
  <1>2. ASSUME NEW i \in 1 .. n, i > k PROVE upTo(i) = Append(upTo(i - 1), ages[i])
    <2>1. CASE i = k + 1
      <3>1. upTo(i) = SubSeq(ages, i, i) /\ upTo(i - 1) = <<>> /\ ages[i] \in Age /\ i \in Int
        BY <1>1, <2>1
      <3>2. \A j \in i .. i : ages[j] \in Age
        BY <3>1
      <3>3. SubSeq(ages, i, i) \in Seq(Age) /\ Len(SubSeq(ages, i, i)) = 1 /\ SubSeq(ages, i, i)[1] = ages[i]
        BY <3>1, <3>2, SubSeqProperties
      <3>4. <<>> \in Seq(Age) /\ Len(<<>>) = 0
        BY EmptySeq
      <3>5. /\ Append(<<>>, ages[i]) \in Seq(Age) /\ Len(Append(<<>>, ages[i])) = 1
            /\ Append(<<>>, ages[i])[1] = ages[i]
        BY <3>1, <3>4, AppendProperties
      <3>6. SubSeq(ages, i, i) = Append(<<>>, ages[i])
        <4> DEFINE single == SubSeq(ages, i, i)
                   added  == Append(<<>>, ages[i])
        <4>1. /\ single \in Seq(Age) /\ added \in Seq(Age) /\ Len(single) = 1 /\ Len(added) = 1
              /\ single[1] = added[1]
          BY <3>3, <3>5
        <4> HIDE DEF single, added
        <4>2. \A j \in 1 .. Len(single) : single[j] = added[j]
          BY <4>1
        <4>3. single = added
          BY <4>1, <4>2, SeqEqual
        <4> QED BY <4>3 DEF single, added
      <3> QED BY <3>1, <3>6
    <2>2. CASE i # k + 1
      <3>1. upTo(i) = SubSeq(ages, k + 1, i) /\ upTo(i - 1) = SubSeq(ages, k + 1, i - 1)
        BY <1>1, <1>2, <2>2
      <3>2. k + 1 \in 1 .. Len(ages) /\ i \in k + 1 .. Len(ages)
        BY <1>1, <1>2
      <3>3. SubSeq(ages, k + 1, i) = SubSeq(ages, k + 1, i - 1) \o <<ages[i]>>
        BY <3>2, SubSeqRecursiveSecond
      <3>4. SubSeq(ages, k + 1, i - 1) \in Seq(Age)
        <4>1. \A j \in k + 1 .. i - 1 : ages[j] \in Age
          BY <1>1
        <4> QED BY <1>1, <4>1, SubSeqProperties
      <3> QED BY <1>1, <3>1, <3>3, <3>4, AppendIsConcat
    <2> QED BY <2>1, <2>2
  <1>3. g = Step(g)
    <2>1. ASSUME NEW i \in 0 .. n PROVE g[i] = Step(g)[i]
      <3>1. CASE i = 0
        BY <1>1, <3>1
      <3>2. CASE i # 0 /\ i <= k
        <4>1. upTo(i) = <<>> /\ upTo(i - 1) = <<>> /\ i - 1 \in 0 .. n /\ i \in 1 .. n /\ ~(ages[i] < Window)
          BY <1>1, <3>2
        <4> QED BY <3>2, <4>1
      <3>3. CASE i # 0 /\ i > k
        <4>1. i - 1 \in 0 .. n /\ i \in 1 .. n /\ ages[i] < Window /\ upTo(i) = Append(upTo(i - 1), ages[i])
          BY <1>1, <1>2, <3>3
        <4> HIDE DEF upTo
        <4> QED BY <3>3, <4>1
      <3> QED BY <1>1, <3>1, <3>2, <3>3
    <2> QED BY <2>1
  <1> HIDE DEF g
  <1>4. young = Step(young)
    BY <1>3
  <1> HIDE DEF young
  <1>5. ASSUME NEW f, f = Step(f), NEW i \in 0 .. n
        PROVE  /\ i = 0 => f[i] = <<>>
               /\ i # 0 => f[i] = IF ages[i] < Window THEN Append(f[i - 1], ages[i]) ELSE f[i - 1]
    BY <1>5
  <1> HIDE DEF Step
  <1>6. \A i \in 0 .. n : young[i] = g[i]
    <2> SUFFICES ASSUME {i \in 0 .. n : young[i] # g[i]} # {} PROVE FALSE
      OBVIOUS
    <2>1. PICK i \in 0 .. n : young[i] # g[i] /\ \A j \in 0 .. n : young[j] # g[j] => i <= j
      <3> DEFINE D == {j \in 0 .. n : young[j] # g[j]}
      <3>1. D \subseteq Nat /\ D # {}
        BY <1>1
      <3>2. PICK m \in D : \A j \in D : m <= j
        BY <3>1, Smallest
      <3> QED BY <3>2
    <2>2. CASE i = 0
      BY <1>3, <1>4, <1>5, <2>1, <2>2
    <2>3. CASE i # 0
      <3>1. i - 1 \in 0 .. n /\ ~(i <= i - 1)
        BY <1>1, <2>3
      <3>2. young[i - 1] = g[i - 1]
        BY <2>1, <3>1
      <3> QED BY <1>3, <1>4, <1>5, <2>1, <2>3, <3>2
    <2> QED BY <2>2, <2>3
  <1>7. Young(ages) = young[n]
    BY DEF Young, young, Step
  <1>8. g[n] = SubSeq(ages, k + 1, n)
    <2>1. g[n] = upTo(n)
      BY <1>1 DEF g
    <2>2. CASE n <= k
      <3>1. n < k + 1
        BY <1>1, <2>2
      <3> QED BY <1>1, <2>1, <2>2, <3>1, SubSeqEmpty
    <2>3. CASE ~(n <= k)
      BY <2>1, <2>3
    <2> QED BY <2>2, <2>3
  <1> QED BY <1>1, <1>6, <1>7, <1>8

\* The suffix of a sequence of failures is ordered when the whole is.
LEMMA RestOrdered ==
  ASSUME NEW ages \in Seq(Age), Ordered(ages), NEW k, Cut(ages, k)
  PROVE  /\ Ordered(SubSeq(ages, k + 1, Len(ages)))
         /\ Cut(SubSeq(ages, k + 1, Len(ages)), 0)
  <1> DEFINE rest == SubSeq(ages, k + 1, Len(ages))
  <1>1. /\ k \in 0 .. Len(ages) /\ Len(ages) \in Nat
        /\ \A i \in 1 .. Len(ages) : i > k <=> ages[i] < Window
    BY LenProperties DEF Cut
  <1>2. Len(rest) = Len(ages) - k /\ \A i \in 1 .. Len(ages) - k : rest[i] = ages[k + i]
    BY <1>1, Rest
  <1> HIDE DEF rest
  <1>3. Ordered(rest)
    BY <1>1, <1>2 DEF Ordered
  <1>4. Cut(rest, 0)
    BY <1>1, <1>2 DEF Cut
  <1> QED BY <1>3, <1>4 DEF rest

\* What pruning leaves is ordered and within the window, and is left by pruning.
LEMMA PrunedTwice ==
  ASSUME NEW ages \in Seq(Age), Ordered(ages)
  PROVE  /\ Pruned(ages) \in Seq(Age) /\ Ordered(Pruned(ages)) /\ Cut(Pruned(ages), 0)
         /\ Pruned(Pruned(ages)) = Pruned(ages)
  <1>1. PICK k : Cut(ages, k)
    BY OrderedCut
  <1>2. Pruned(ages) = SubSeq(ages, k + 1, Len(ages)) /\ k \in 0 .. Len(ages)
    BY <1>1, CutPruned DEF Cut
  <1>3. Pruned(ages) \in Seq(Age) /\ Ordered(Pruned(ages)) /\ Cut(Pruned(ages), 0)
    BY <1>1, <1>2, Rest, RestOrdered
  <1>4. Pruned(Pruned(ages)) = SubSeq(Pruned(ages), 0 + 1, Len(Pruned(ages)))
    BY <1>3, CutPruned
  <1> QED BY <1>3, <1>4, SubSeqFull

\* A failure that is remembered now is the youngest.
LEMMA PrunedAppend ==
  ASSUME NEW ages \in Seq(Age), Ordered(ages), Cut(ages, 0)
  PROVE  /\ Append(ages, 0) \in Seq(Age) /\ Ordered(Append(ages, 0))
         /\ Pruned(Append(ages, 0)) = Append(ages, 0)
  <1> DEFINE more == Append(ages, 0)
  <1>1. 0 \in Age /\ 0 < Window
    BY LimiterAssumption DEF Age, LimiterAssumption
  <1>2. /\ more \in Seq(Age) /\ Len(more) = Len(ages) + 1 /\ Len(ages) \in Nat
        /\ \A i \in 1 .. Len(ages) : more[i] = ages[i]
        /\ more[Len(ages) + 1] = 0
    BY <1>1, AppendProperties, LenProperties
  <1>3. \A i \in 1 .. Len(ages) : ages[i] \in Nat /\ ages[i] < Window
    BY <1>2, AgesAreNat DEF Cut
  <1> HIDE DEF more
  <1>4. Ordered(more)
    BY <1>2, <1>3 DEF Ordered
  <1>5. Cut(more, 0)
    BY <1>1, <1>2, <1>3 DEF Cut
  <1>6. Pruned(more) = SubSeq(more, 0 + 1, Len(more))
    BY <1>2, <1>5, CutPruned
  <1>7. Pruned(more) = more
    BY <1>2, <1>6, SubSeqFull
  <1> QED BY <1>2, <1>4, <1>7 DEF more

\* Time passing and pruning commute: what expires while time passes was within
\* the window before.
LEMMA PrunedOlder ==
  ASSUME NEW ages \in Seq(Age), Ordered(ages)
  PROVE  Ordered(Older(ages)) /\ Pruned(Older(ages)) = Young(Older(Pruned(ages)))
  <1> DEFINE n == Len(ages)
             old == Older(ages)
  <1>1. PICK k : Cut(ages, k)
    BY OrderedCut
  <1> DEFINE rest == Pruned(ages)
             oldRest == Older(rest)
  <1>2. /\ n \in Nat /\ Window \in Nat \ {0} /\ k \in 0 .. n
        /\ \A i \in 1 .. n : ages[i] \in Nat /\ ages[i] <= Window /\ (i > k <=> ages[i] < Window)
    <2>1. \A i \in 1 .. n : ages[i] \in 0 .. Window
      BY ElementOfSeq DEF Age
    <2> QED BY <1>1, <2>1, LenProperties, AgesAreNat, LimiterAssumption DEF LimiterAssumption, Cut
  <1>3. /\ old \in Seq(Age) /\ Len(old) = n
        /\ \A i \in 1 .. n : old[i] = IF ages[i] < Window THEN ages[i] + 1 ELSE Window
    <2>1. DOMAIN ages = 1 .. n
      BY LenProperties
    <2> QED BY <2>1, OlderProperties DEF Older
  <1>4. Ordered(old)
    BY <1>2, <1>3 DEF Ordered
  <1>5. PICK m : Cut(old, m)
    BY <1>3, <1>4, OrderedCut
  <1>6. m \in k .. n /\ \A i \in 1 .. n : i > m <=> old[i] < Window
    <2>1. m \in 0 .. n /\ \A i \in 1 .. n : i > m <=> old[i] < Window
      BY <1>3, <1>5 DEF Cut
    <2>2. ASSUME m < k PROVE FALSE
      <3>1. k \in 1 .. n /\ old[k] = Window
        BY <1>2, <1>3, <2>1, <2>2
      <3> QED BY <1>2, <2>1, <2>2, <3>1
    <2> QED BY <1>2, <2>1, <2>2
  <1>7. rest \in Seq(Age) /\ Len(rest) = n - k /\ \A i \in 1 .. n - k : rest[i] = ages[k + i]
    <2>1. Pruned(ages) = SubSeq(ages, k + 1, Len(ages)) /\ k \in 0 .. Len(ages)
      BY <1>1, CutPruned DEF Cut
    <2> QED BY <2>1, Rest
  <1>8. /\ oldRest \in Seq(Age) /\ Len(oldRest) = n - k
        /\ \A i \in 1 .. n - k : oldRest[i] = old[k + i]
    <2> HIDE DEF rest
    <2>1. DOMAIN rest = 1 .. n - k /\ oldRest \in Seq(Age) /\ Len(oldRest) = n - k
      BY <1>7, LenProperties, OlderProperties
    <2>2. \A i \in 1 .. n - k : oldRest[i] = IF rest[i] < Window THEN rest[i] + 1 ELSE Window
      BY <2>1 DEF Older
    <2>3. \A i \in 1 .. n - k : k + i \in 1 .. n
      BY <1>2
    <2> QED BY <1>3, <1>7, <2>1, <2>2, <2>3
  <1> HIDE DEF rest, old, oldRest
  <1>9. Cut(oldRest, m - k)
    <2>1. m - k \in 0 .. Len(oldRest)
      BY <1>2, <1>6, <1>8
    <2>2. ASSUME NEW i \in 1 .. n - k PROVE i > m - k <=> oldRest[i] < Window
      <3>1. k + i \in 1 .. n /\ (k + i > m <=> i > m - k) /\ oldRest[i] = old[k + i]
        BY <1>2, <1>6, <1>8
      <3> QED BY <1>6, <3>1
    <2> QED BY <1>8, <2>1, <2>2 DEF Cut
  <1>10. /\ Young(oldRest) = SubSeq(oldRest, (m - k) + 1, Len(oldRest))
         /\ Pruned(old) = SubSeq(old, m + 1, n)
    BY <1>3, <1>5, <1>8, <1>9, CutYoung, CutPruned
  <1>11. /\ Young(oldRest) \in Seq(Age) /\ Len(Young(oldRest)) = n - m
         /\ \A i \in 1 .. n - m : Young(oldRest)[i] = old[m + i]
    <2>1. /\ Young(oldRest) \in Seq(Age) /\ Len(Young(oldRest)) = (n - k) - (m - k)
          /\ \A i \in 1 .. (n - k) - (m - k) : Young(oldRest)[i] = oldRest[(m - k) + i]
      <3>1. m - k \in 0 .. Len(oldRest)
        BY <1>9 DEF Cut
      <3> DEFINE left == SubSeq(oldRest, (m - k) + 1, Len(oldRest))
      <3>2. /\ left \in Seq(Age) /\ Len(left) = Len(oldRest) - (m - k)
            /\ \A i \in 1 .. Len(oldRest) - (m - k) : left[i] = oldRest[(m - k) + i]
        BY <1>8, <3>1, Rest
      <3>3. Young(oldRest) = left
        BY <1>10
      <3> HIDE DEF left
      <3> QED BY <1>8, <3>2, <3>3
    <2>2. \A i \in 1 .. n - m : (m - k) + i \in 1 .. n - k /\ k + ((m - k) + i) = m + i
      BY <1>2, <1>6
    <2>3. (n - k) - (m - k) = n - m
      BY <1>2, <1>6
    <2> QED BY <1>8, <2>1, <2>2, <2>3
  <1>12. /\ Pruned(old) \in Seq(Age) /\ Len(Pruned(old)) = n - m
         /\ \A i \in 1 .. n - m : Pruned(old)[i] = old[m + i]
    BY <1>2, <1>3, <1>6, <1>10, Rest
  <1>13. Pruned(old) = Young(oldRest)
    BY <1>11, <1>12, SeqEqual
  <1> QED BY <1>4, <1>13 DEF old, oldRest, rest

\* What the order of the failures adds to Inv.
Exact == Ordered(failures) /\ WindowExact

\* At first nothing has failed.
LEMMA ExactInit == Init => Exact
  <1> SUFFICES ASSUME Init PROVE Exact
    OBVIOUS
  <1>1. <<>> \in Seq(Age) /\ Len(<<>>) = 0
    BY EmptySeq
  <1>2. Ordered(<<>>) /\ Cut(<<>>, 0)
    BY <1>1 DEF Ordered, Cut
  <1>3. Pruned(<<>>) = SubSeq(<<>>, 0 + 1, Len(<<>>))
    BY <1>1, <1>2, CutPruned
  <1> QED BY <1>1, <1>2, <1>3, SubSeqFull DEF Init, Exact, WindowExact

\* Every step keeps the failures in their order and those of the window.
LEMMA ExactNext == Inv /\ Exact /\ [Next]_vars => Exact'
  <1> SUFFICES ASSUME Inv, Exact, [Next]_vars PROVE Exact'
    OBVIOUS
  <1>0. failures \in Seq(Age) /\ Ordered(failures) /\ Pruned(failures) = recent
    BY DEF Inv, TypeOK, Exact, WindowExact
  <1>1. CASE failures' = Pruned(failures) /\ UNCHANGED recent
    BY <1>0, <1>1, PrunedTwice DEF Exact, WindowExact
  <1>2. CASE failures' = Append(Pruned(failures), 0) /\ recent' = Append(recent, 0)
    BY <1>0, <1>2, PrunedTwice, PrunedAppend DEF Exact, WindowExact
  <1>3. CASE Reset
    <2>1. <<>> \in Seq(Age) /\ Len(<<>>) = 0
      BY EmptySeq
    <2>2. Ordered(<<>>) /\ Cut(<<>>, 0)
      BY <2>1 DEF Ordered, Cut
    <2>3. Pruned(<<>>) = SubSeq(<<>>, 0 + 1, Len(<<>>))
      BY <2>1, <2>2, CutPruned
    <2> QED BY <1>3, <2>1, <2>2, <2>3, SubSeqFull DEF Reset, Exact, WindowExact
  <1>4. CASE UNCHANGED <<failures, recent>>
    BY <1>4 DEF Exact, WindowExact
  <1>5. CASE Tick
    BY <1>0, <1>5, PrunedOlder DEF Tick, Exact, WindowExact
  <1> QED BY <1>1, <1>2, <1>3, <1>4, <1>5
      DEF Next, End, BeginAttempt, EndFailed, EndReleased, EndBeforeReset, ResetAfterEnd, ResetBeforeEnd,
          EndAfterReset, EndAttempt, Sweep, vars

\* pruneLocked neither forgets a failure too early nor counts it too long: a
\* request is judged by the failures of the last Window since the last success,
\* whatever the order of its handler's reset and endAttempt.
THEOREM WindowHolds == Spec => []WindowExact
  <1>1. Spec => [](Inv /\ Exact)
    BY InvInit, InvNext, ExactInit, ExactNext, PTL DEF Spec
  <1> QED BY <1>1, PTL DEF Exact

=============================================================================
