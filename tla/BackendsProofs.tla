--------------------------- MODULE BackendsProofs ---------------------------
(***************************************************************************)
(* Facts about the rotation of backends that the proofs of both proxies    *)
(* need.                                                                   *)
(***************************************************************************)
EXTENDS Backends, FiniteSetTheorems, WellFoundedInduction, TLAPS

\* The counter stays a backend number.
LEMMA NextIndexFacts ==
  ASSUME NEW i \in Backend
  PROVE  NextIndex(i) \in Backend
BY NumBackendsAssumption DEF Backend, NextIndex

LEMMA BackendCount ==
  IsFiniteSet(Backend) /\ Cardinality(Backend) = NumBackends
<1>1. NumBackends \in Nat /\ NumBackends - 1 \in Int /\ 0 <= NumBackends - 1
  BY NumBackendsAssumption
<1>2. IsFiniteSet(0 .. NumBackends - 1) /\ Cardinality(0 .. NumBackends - 1) = (NumBackends - 1) - 0 + 1
  BY <1>1, FS_Interval
<1> QED BY <1>1, <1>2 DEF Backend

\* The backend at place k of the rotation, without the remainder.
LEMMA RotationFacts ==
  ASSUME NEW start \in Backend, NEW k \in 1 .. NumBackends
  PROVE  /\ Rotation(start)[k] \in Backend
         /\ start + k - 1 < NumBackends => Rotation(start)[k] = start + k - 1
         /\ start + k - 1 >= NumBackends => Rotation(start)[k] = start + k - 1 - NumBackends
<1>1. /\ NumBackends \in Nat \ {0} /\ start \in Nat /\ start < NumBackends
      /\ k \in Nat /\ 1 <= k /\ k <= NumBackends
  BY NumBackendsAssumption DEF Backend
<1> DEFINE i == start + k - 1
<1>2. Rotation(start)[k] = i % NumBackends
  BY DEF Rotation
<1>3. i \in Nat /\ i < 2 * NumBackends /\ start + k - 1 = i
  BY <1>1
<1> HIDE DEF i
<1>4. CASE i < NumBackends
  <2>1. i % NumBackends = i
    BY <1>1, <1>3, <1>4
  <2>2. i \in 0 .. NumBackends - 1
    BY <1>1, <1>3, <1>4
  <2>3. Rotation(start)[k] = i
    BY <1>2, <2>1
  <2> QED BY <1>1, <1>3, <1>4, <2>2, <2>3 DEF Backend
<1>5. CASE ~(i < NumBackends)
  <2>1. i % NumBackends = i - NumBackends
    BY <1>1, <1>3, <1>5
  <2>2. i - NumBackends \in 0 .. NumBackends - 1
    BY <1>1, <1>3, <1>5
  <2>3. Rotation(start)[k] = i - NumBackends
    BY <1>2, <2>1
  <2> QED BY <1>1, <1>3, <1>5, <2>2, <2>3 DEF Backend
<1> QED BY <1>4, <1>5

\* A rotation offers every backend, wherever it starts.
LEMMA RotationOffersAll ==
  ASSUME NEW start \in Backend, NEW b \in Backend
  PROVE  \E k \in 1 .. NumBackends : Rotation(start)[k] = b
<1>1. /\ NumBackends \in Nat \ {0} /\ start \in Nat /\ start < NumBackends
      /\ b \in Nat /\ b < NumBackends
  BY NumBackendsAssumption DEF Backend
<1>2. CASE start <= b
  <2> DEFINE k == b - start + 1
  <2>1. k \in 1 .. NumBackends /\ start + k - 1 = b
    BY <1>1, <1>2
  <2> HIDE DEF k
  <2>2. Rotation(start)[k] = b
    BY <1>1, <2>1, RotationFacts
  <2> QED BY <2>1, <2>2
<1>3. CASE ~(start <= b)
  <2> DEFINE k == b - start + 1 + NumBackends
  <2>1. k \in 1 .. NumBackends /\ start + k - 1 = b + NumBackends
    BY <1>1, <1>3
  <2> HIDE DEF k
  <2>2. start + k - 1 >= NumBackends
    BY <1>1, <2>1
  <2>3. Rotation(start)[k] = start + k - 1 - NumBackends
    BY <2>1, <2>2, RotationFacts
  <2>4. Rotation(start)[k] = b
    BY <1>1, <2>1, <2>3
  <2> QED BY <2>1, <2>4
<1> QED BY <1>2, <1>3

-----------------------------------------------------------------------------
(* The vectors that backend_candidates fills.                              *)

\* A set of numbers that is not empty has a least element: what follows goes back to the
\* first place where it fails.
LEMMA LeastElement ==
  ASSUME NEW T \in SUBSET Nat, T # {}
  PROVE  \E x \in T : \A y \in T : x <= y
<1> DEFINE R == OpToRel(<, Nat)
<1>1. IsWellFoundedOn(R, Nat)
  BY NatLessThanWellFounded
<1>2. R = {p \in Nat \X Nat : p[1] < p[2]}
  BY DEF OpToRel
<1> HIDE DEF R
<1>3. \E x \in T : \A y \in T : ~ (<<y, x>> \in R)
  BY <1>1, WFMin
<1>4. ASSUME NEW x \in Nat, NEW y \in Nat, y < x
      PROVE  <<y, x>> \in R
  BY <1>2, <1>4
<1>5. PICK x \in T : \A y \in T : ~ (<<y, x>> \in R)
  BY <1>3
<1>6. ASSUME NEW y \in T
      PROVE  x <= y
  <2>1. x \in Nat /\ y \in Nat /\ ~(<<y, x>> \in R)
    BY <1>5
  <2>2. ~(y < x)
    BY <2>1, <1>4
  <2> QED BY <2>1, <2>2
<1> QED BY <1>6

\* The vector after k rounds of the loop, as the loop describes it.
Fills(vector, rotation, chosen, n) ==
  vector = [k \in 0 .. n |->
              IF k = 0 THEN <<>>
              ELSE IF rotation[k] \in chosen THEN Append(vector[k - 1], rotation[k])
              ELSE vector[k - 1]]

\* The loop has a result after any number of rounds.
LEMMA LoopIsDefined ==
  ASSUME NEW rotation, NEW chosen, NEW n \in Nat
  PROVE  \E vector : Fills(vector, rotation, chosen, n)
<1> DEFINE Undefined == {m \in Nat : ~ \E vector : Fills(vector, rotation, chosen, m)}
<1>1. SUFFICES Undefined = {}
  OBVIOUS
<1>2. SUFFICES ASSUME Undefined # {}
               PROVE  FALSE
  OBVIOUS
<1>3. PICK m \in Undefined : \A y \in Undefined : m <= y
  BY <1>2, LeastElement
<1>4. CASE m = 0
  <2> DEFINE v == [k \in 0 .. 0 |-> <<>>]
  <2>1. Fills(v, rotation, chosen, 0)
    BY DEF Fills
  <2> QED BY <2>1, <1>3, <1>4
<1>5. CASE m # 0
  <2>1. m \in Nat /\ m - 1 \in Nat /\ m - 1 \notin Undefined
    BY <1>3, <1>5
  <2>2. PICK u : Fills(u, rotation, chosen, m - 1)
    BY <2>1
  <2> DEFINE last == IF rotation[m] \in chosen THEN Append(u[m - 1], rotation[m]) ELSE u[m - 1]
             v    == [k \in 0 .. m |-> IF k = m THEN last ELSE u[k]]
             w    == [k \in 0 .. m |->
                        IF k = 0 THEN <<>>
                        ELSE IF rotation[k] \in chosen THEN Append(v[k - 1], rotation[k])
                        ELSE v[k - 1]]
  <2>3. ASSUME NEW k \in 0 .. m
        PROVE  v[k] = w[k]
    <3>1. CASE k = m
      <4>1. v[m - 1] = u[m - 1] /\ v[m] = last
        BY <2>1
      <4> QED BY <3>1, <4>1, <2>1, <1>5
    <3>2. CASE k # m
      <4>1. k \in 0 .. m - 1 /\ v[k] = u[k]
        BY <2>1, <3>2
      <4>2. k # 0 => v[k - 1] = u[k - 1]
        BY <2>1, <3>2
      <4>3. u[k] = IF k = 0 THEN <<>>
                   ELSE IF rotation[k] \in chosen THEN Append(u[k - 1], rotation[k])
                   ELSE u[k - 1]
        BY <2>2, <4>1 DEF Fills
      <4> QED BY <4>1, <4>2, <4>3
    <3> QED BY <3>1, <3>2
  <2>4. v = w
    BY <2>3
  <2>5. Fills(v, rotation, chosen, m)
    BY <2>4 DEF Fills
  <2> QED BY <2>5, <1>3
<1> QED BY <1>4, <1>5

LEMMA VectorIsTheLoops ==
  ASSUME NEW rotation, NEW chosen
  PROVE  \E vector : /\ Fills(vector, rotation, chosen, NumBackends)
                     /\ InOrderOf(rotation, chosen) = vector[NumBackends]
<1> DEFINE v == CHOOSE vector : Fills(vector, rotation, chosen, NumBackends)
<1>1. Fills(v, rotation, chosen, NumBackends)
  BY NumBackendsAssumption, LoopIsDefined
<1>2. InOrderOf(rotation, chosen) = v[NumBackends]
  BY DEF InOrderOf, Fills
<1> QED BY <1>1, <1>2

\* One round of the loop.
LoopRound(vector, rotation, chosen, k) ==
  /\ k = 0 => vector[k] = <<>>
  /\ k # 0 /\ rotation[k] \in chosen =>
       /\ vector[k] \in Seq(Backend) /\ Len(vector[k]) = Len(vector[k - 1]) + 1
       /\ vector[k][Len(vector[k])] = rotation[k]
       /\ \A j \in 1 .. Len(vector[k - 1]) : vector[k][j] = vector[k - 1][j]
  /\ k # 0 /\ rotation[k] \notin chosen => vector[k] = vector[k - 1]

LEMMA OneRound ==
  ASSUME NEW rotation \in [1 .. NumBackends -> Backend], NEW chosen, NEW vector,
         Fills(vector, rotation, chosen, NumBackends),
         NEW k \in 0 .. NumBackends, k # 0 => vector[k - 1] \in Seq(Backend)
  PROVE  LoopRound(vector, rotation, chosen, k)
<1>1. NumBackends \in Nat
  BY NumBackendsAssumption
<1>2. vector[k] = IF k = 0 THEN <<>>
                  ELSE IF rotation[k] \in chosen THEN Append(vector[k - 1], rotation[k])
                  ELSE vector[k - 1]
  BY <1>1 DEF Fills
<1>3. CASE k = 0
  BY <1>2, <1>3 DEF LoopRound
<1>4. CASE k # 0
  <2>1. k \in 1 .. NumBackends /\ rotation[k] \in Backend /\ vector[k - 1] \in Seq(Backend)
    BY <1>1, <1>4
  <2>2. CASE rotation[k] \in chosen
    BY <1>2, <1>4, <2>1, <2>2 DEF LoopRound
  <2>3. CASE rotation[k] \notin chosen
    BY <1>2, <1>4, <2>3 DEF LoopRound
  <2> QED BY <2>2, <2>3, <1>4
<1> QED BY <1>3, <1>4

\* After k rounds, every backend looked at is in one of the two vectors, and a vector has
\* only backends that belong there.
LoopInv(in, out, rotation, chosen, k) ==
  /\ in[k] \in Seq(Backend) /\ out[k] \in Seq(Backend)
  /\ Len(in[k]) + Len(out[k]) = k
  /\ \A j \in 1 .. Len(in[k])  : in[k][j] \in chosen
  /\ \A j \in 1 .. Len(out[k]) : out[k][j] \notin chosen
  /\ \A j \in 1 .. k :
       \/ \E i \in 1 .. Len(in[k])  : in[k][i] = rotation[j]
       \/ \E i \in 1 .. Len(out[k]) : out[k][i] = rotation[j]

LEMMA LoopKeepsInv ==
  ASSUME NEW rotation \in [1 .. NumBackends -> Backend], NEW chosen, NEW in, NEW out,
         Fills(in, rotation, chosen, NumBackends),
         Fills(out, rotation, Backend \ chosen, NumBackends),
         NEW k \in 0 .. NumBackends,
         k # 0 => LoopInv(in, out, rotation, chosen, k - 1)
  PROVE  LoopInv(in, out, rotation, chosen, k)
<1>1. NumBackends \in Nat /\ k \in Nat
  BY NumBackendsAssumption
<1>2. k # 0 => in[k - 1] \in Seq(Backend)
  BY DEF LoopInv
<1>3. k # 0 => out[k - 1] \in Seq(Backend)
  BY DEF LoopInv
<1>4. LoopRound(in, rotation, chosen, k)
  BY <1>2, OneRound
<1>5. LoopRound(out, rotation, Backend \ chosen, k)
  BY <1>3, OneRound
<1>6. CASE k = 0
  <2>1. in[k] = <<>> /\ out[k] = <<>>
    BY <1>6, <1>4, <1>5 DEF LoopRound
  <2> QED BY <1>6, <2>1 DEF LoopInv
<1>7. CASE k # 0
  <2>1. /\ k \in 1 .. NumBackends /\ k - 1 \in Nat /\ k - 1 + 1 = k
        /\ rotation[k] \in Backend /\ (k \in 1 .. k)
        /\ \A j \in 1 .. k : j = k \/ j \in 1 .. k - 1
    BY <1>1, <1>7
  <2> DEFINE m == k - 1
  <2>2. LoopInv(in, out, rotation, chosen, m) /\ m \in Nat /\ m + 1 = k
    BY <1>7, <2>1
  <2>3. in[m] \in Seq(Backend) /\ out[m] \in Seq(Backend)
    BY <2>2 DEF LoopInv
  <2>4. CASE rotation[k] \in chosen
    <3>1. /\ in[k] \in Seq(Backend) /\ Len(in[k]) = Len(in[m]) + 1
          /\ in[k][Len(in[k])] = rotation[k]
          /\ \A j \in 1 .. Len(in[m]) : in[k][j] = in[m][j]
      BY <1>7, <1>4, <2>4 DEF LoopRound
    <3>2. out[k] = out[m]
      BY <1>7, <1>5, <2>1, <2>4 DEF LoopRound
    <3> HIDE DEF m
    <3>3. /\ Len(in[m]) \in Nat /\ Len(out[m]) \in Nat /\ Len(in[k]) \in Nat
          /\ Len(in[k]) \in 1 .. Len(in[k])
          /\ \A j \in 1 .. Len(in[k]) : j = Len(in[k]) \/ j \in 1 .. Len(in[m])
          /\ \A j \in 1 .. Len(in[m]) : j \in 1 .. Len(in[k])
      BY <2>3, <3>1
    <3>4. Len(in[k]) + Len(out[k]) = k
      <4> DEFINE a == Len(in[m])
                 b == Len(out[m])
                 g == Len(in[k])
      <4>1. a + b = m
        BY <2>2 DEF LoopInv
      <4>2. a \in Nat /\ b \in Nat /\ g = a + 1 /\ Len(out[k]) = b
        BY <3>1, <3>2, <3>3
      <4>3. m \in Nat /\ m + 1 = k
        BY <2>2
      <4> HIDE DEF a, b, g
      <4>4. g + b = k
        BY <4>1, <4>2, <4>3
      <4> QED BY <4>2, <4>4 DEF g
    <3>5. \A j \in 1 .. Len(in[k]) : in[k][j] \in chosen
      BY <2>2, <2>4, <3>1, <3>3 DEF LoopInv
    <3>6. ASSUME NEW j \in 1 .. k
          PROVE  \/ \E i \in 1 .. Len(in[k])  : in[k][i] = rotation[j]
                 \/ \E i \in 1 .. Len(out[k]) : out[k][i] = rotation[j]
      <4>1. CASE j = k
        BY <3>1, <3>3, <4>1
      <4>2. CASE j # k
        <5>1. j \in 1 .. m
          BY <2>1, <4>2 DEF m
        <5>2. \/ \E i \in 1 .. Len(in[m])  : in[m][i] = rotation[j]
              \/ \E i \in 1 .. Len(out[m]) : out[m][i] = rotation[j]
          BY <2>2, <5>1 DEF LoopInv
        <5> QED BY <5>2, <3>1, <3>2, <3>3
      <4> QED BY <4>1, <4>2
    <3> QED BY <2>2, <2>3, <3>1, <3>2, <3>4, <3>5, <3>6 DEF LoopInv
  <2>5. CASE rotation[k] \notin chosen
    <3>1. /\ out[k] \in Seq(Backend) /\ Len(out[k]) = Len(out[m]) + 1
          /\ out[k][Len(out[k])] = rotation[k]
          /\ \A j \in 1 .. Len(out[m]) : out[k][j] = out[m][j]
      BY <1>7, <1>5, <2>1, <2>5 DEF LoopRound
    <3>2. in[k] = in[m]
      BY <1>7, <1>4, <2>5 DEF LoopRound
    <3> HIDE DEF m
    <3>3. /\ Len(out[m]) \in Nat /\ Len(in[m]) \in Nat /\ Len(out[k]) \in Nat
          /\ Len(out[k]) \in 1 .. Len(out[k])
          /\ \A j \in 1 .. Len(out[k]) : j = Len(out[k]) \/ j \in 1 .. Len(out[m])
          /\ \A j \in 1 .. Len(out[m]) : j \in 1 .. Len(out[k])
      BY <2>3, <3>1
    <3>4. Len(in[k]) + Len(out[k]) = k
      <4> DEFINE a == Len(in[m])
                 b == Len(out[m])
                 g == Len(out[k])
      <4>1. a + b = m
        BY <2>2 DEF LoopInv
      <4>2. a \in Nat /\ b \in Nat /\ g = b + 1 /\ Len(in[k]) = a
        BY <3>1, <3>2, <3>3
      <4>3. m \in Nat /\ m + 1 = k
        BY <2>2
      <4> HIDE DEF a, b, g
      <4>4. a + g = k
        BY <4>1, <4>2, <4>3
      <4> QED BY <4>2, <4>4 DEF g
    <3>5. \A j \in 1 .. Len(out[k]) : out[k][j] \notin chosen
      BY <2>2, <2>5, <3>1, <3>3 DEF LoopInv
    <3>6. ASSUME NEW j \in 1 .. k
          PROVE  \/ \E i \in 1 .. Len(in[k])  : in[k][i] = rotation[j]
                 \/ \E i \in 1 .. Len(out[k]) : out[k][i] = rotation[j]
      <4>1. CASE j = k
        BY <3>1, <3>3, <4>1
      <4>2. CASE j # k
        <5>1. j \in 1 .. m
          BY <2>1, <4>2 DEF m
        <5>2. \/ \E i \in 1 .. Len(in[m])  : in[m][i] = rotation[j]
              \/ \E i \in 1 .. Len(out[m]) : out[m][i] = rotation[j]
          BY <2>2, <5>1 DEF LoopInv
        <5> QED BY <5>2, <3>1, <3>2, <3>3
      <4> QED BY <4>1, <4>2
    <3> QED BY <2>2, <2>3, <3>1, <3>2, <3>4, <3>5, <3>6 DEF LoopInv
  <2> QED BY <2>4, <2>5
<1> QED BY <1>6, <1>7

LEMMA LoopEndsWithInv ==
  ASSUME NEW rotation \in [1 .. NumBackends -> Backend], NEW chosen, NEW in, NEW out,
         Fills(in, rotation, chosen, NumBackends),
         Fills(out, rotation, Backend \ chosen, NumBackends)
  PROVE  LoopInv(in, out, rotation, chosen, NumBackends)
<1> DEFINE Broken == {k \in 0 .. NumBackends : ~LoopInv(in, out, rotation, chosen, k)}
<1>1. NumBackends \in Nat /\ Broken \in SUBSET Nat
  BY NumBackendsAssumption
<1>2. CASE Broken # {}
  <2>1. PICK k \in Broken : \A y \in Broken : k <= y
    BY <1>1, <1>2, LeastElement
  <2>2. k \in 0 .. NumBackends /\ (k # 0 => k - 1 \in 0 .. NumBackends /\ ~(k <= k - 1))
    BY <1>1, <2>1
  <2>3. k # 0 => LoopInv(in, out, rotation, chosen, k - 1)
    BY <2>1, <2>2
  <2> QED BY <2>1, <2>2, <2>3, LoopKeepsInv
<1>3. CASE Broken = {}
  BY <1>1, <1>3
<1> QED BY <1>2, <1>3

(***************************************************************************)
(* What backend_candidates promises to try_next_backend: the vector has    *)
(* one place for each backend and every backend has one, so it names each  *)
(* backend exactly once; those that are flagged healthy come first.        *)
(***************************************************************************)
THEOREM EveryBackendIsACandidate ==
  ASSUME NEW start \in Backend, NEW healthy \in SUBSET Backend
  PROVE  LET order == backend_candidates(start, healthy) IN
         /\ order \in Seq(Backend) /\ Len(order) = NumBackends
         /\ \A b \in Backend : \E k \in 1 .. Len(order) : order[k] = b
         /\ \A j, k \in 1 .. Len(order) :
              j < k /\ order[j] \notin healthy => order[k] \notin healthy
<1> DEFINE rotation == Rotation(start)
           first == InOrderOf(rotation, healthy)
           rest  == InOrderOf(rotation, Backend \ healthy)
           order == backend_candidates(start, healthy)
<1>1. rotation \in [1 .. NumBackends -> Backend]
  <2>1. \A k \in 1 .. NumBackends : rotation[k] \in Backend
    BY RotationFacts
  <2> QED BY <2>1 DEF Rotation
<1>2. PICK in : Fills(in, rotation, healthy, NumBackends) /\ first = in[NumBackends]
  BY VectorIsTheLoops
<1>3. PICK out : Fills(out, rotation, Backend \ healthy, NumBackends) /\ rest = out[NumBackends]
  BY VectorIsTheLoops
<1>4. \A b \in Backend : \E j \in 1 .. NumBackends : rotation[j] = b
  BY RotationOffersAll
<1>5. order = first \o rest
  BY DEF backend_candidates
<1> HIDE DEF rotation, first, rest
<1>6. LoopInv(in, out, rotation, healthy, NumBackends)
  BY <1>1, <1>2, <1>3, LoopEndsWithInv
<1>7. /\ first \in Seq(Backend) /\ rest \in Seq(Backend)
      /\ Len(first) + Len(rest) = NumBackends
      /\ \A j \in 1 .. Len(first) : first[j] \in healthy
      /\ \A j \in 1 .. Len(rest)  : rest[j] \notin healthy
      /\ \A j \in 1 .. NumBackends :
           \/ \E i \in 1 .. Len(first) : first[i] = rotation[j]
           \/ \E i \in 1 .. Len(rest)  : rest[i] = rotation[j]
  BY <1>2, <1>3, <1>6 DEF LoopInv
<1>8. /\ Len(first) \in Nat /\ Len(rest) \in Nat
      /\ order \in Seq(Backend) /\ Len(order) = Len(first) + Len(rest)
      /\ \A k \in 1 .. Len(order) :
           order[k] = IF k <= Len(first) THEN first[k] ELSE rest[k - Len(first)]
  BY <1>5, <1>7
<1> HIDE DEF order
<1>9. ASSUME NEW b \in Backend
      PROVE  \E k \in 1 .. Len(order) : order[k] = b
  <2>1. PICK j \in 1 .. NumBackends : rotation[j] = b
    BY <1>4
  <2>2. CASE \E i \in 1 .. Len(first) : first[i] = b
    <3>1. PICK i \in 1 .. Len(first) : first[i] = b
      BY <2>2
    <3>2. i \in 1 .. Len(order) /\ i <= Len(first)
      BY <1>8
    <3> QED BY <1>8, <3>1, <3>2
  <2>3. CASE \E i \in 1 .. Len(rest) : rest[i] = b
    <3>1. PICK i \in 1 .. Len(rest) : rest[i] = b
      BY <2>3
    <3>2. i + Len(first) \in 1 .. Len(order) /\ ~(i + Len(first) <= Len(first))
          /\ i + Len(first) - Len(first) = i
      BY <1>8
    <3> QED BY <1>8, <3>1, <3>2
  <2> QED BY <1>7, <2>1, <2>2, <2>3
<1>10. ASSUME NEW j \in 1 .. Len(order), NEW k \in 1 .. Len(order),
              j < k, order[j] \notin healthy
       PROVE  order[k] \notin healthy
  <2>1. ~(j <= Len(first))
    BY <1>7, <1>8, <1>10
  <2>2. ~(k <= Len(first)) /\ k - Len(first) \in 1 .. Len(rest)
    BY <1>8, <1>10, <2>1
  <2> QED BY <1>7, <1>8, <2>2
<1> QED BY <1>7, <1>8, <1>9, <1>10 DEF order
=============================================================================
