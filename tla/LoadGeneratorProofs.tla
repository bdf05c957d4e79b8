------------------------ MODULE LoadGeneratorProofs ------------------------
(***************************************************************************)
(* The safety of LoadGenerator for any number of workers, warm-up requests *)
(* and measured requests.                                                  *)
(***************************************************************************)
EXTENDS LoadGenerator, FiniteSetTheorems, WellFoundedInduction, TLAPS

\* A worker is past the barrier only if it has arrived, and has arrived only warm.
ArrivedWarm ==
  \A w \in Workers :
    /\ state[w] \in {"waiting", "measuring"} => w \in arrived
    /\ w \in arrived => warm[w] = Warmup /\ state[w] \notin {"connecting", "warming"}

\* Someone is past the barrier only if everyone has arrived.
PastBarrier ==
  main \in {"timing", "reported"} \/ (\E w \in Workers : state[w] = "measuring")
    => arrived = Workers

\* What failed_requests is: nothing up to a failure; after it, one for a worker that had
\* arrived.
FailedSoFar ==
  \A w \in Workers :
    /\ state[w] # "finished" => failed[w] = 0
    /\ state[w] = "finished" /\ w \in arrived =>
         failed[w] = (IF completed[w] < Requests THEN 1 ELSE 0)

\* One latency was kept for every completed request.
OneLatencyEach == \A w \in Workers : Len(latencies[w]) = completed[w]

LInv ==
  /\ TypeOK /\ ArrivedWarm /\ PastBarrier /\ FailedSoFar /\ OneLatencyEach
  /\ main = "reported" => \A w \in Workers : state[w] = "finished"

\* The barrier opens only for all: the arrived workers and main make up the expected
\* number only if no worker is missing.
LEMMA BarrierIsFull ==
  ASSUME TypeOK, ArrivedCount >= Expected
  PROVE  arrived = Workers
<1>1. /\ IsFiniteSet(Workers) /\ arrived \in SUBSET Workers
  BY LoadGeneratorAssumption DEF TypeOK
<1>2. /\ IsFiniteSet(arrived) /\ Cardinality(arrived) <= Cardinality(Workers)
      /\ Cardinality(Workers) = Cardinality(arrived) => Workers = arrived
  BY <1>1, FS_Subset
<1>3. Cardinality(arrived) \in Nat /\ Cardinality(Workers) \in Nat
  BY <1>1, <1>2, FS_CardinalityType
<1> QED BY <1>2, <1>3 DEF ArrivedCount, Expected

LEMMA InitEstablishes == Init => LInv
<1> SUFFICES ASSUME Init PROVE LInv
  OBVIOUS
<1>1. TypeOK BY LoadGeneratorAssumption DEF Init, TypeOK
<1>2. ArrivedWarm /\ PastBarrier /\ FailedSoFar /\ OneLatencyEach
  BY DEF Init, ArrivedWarm, PastBarrier, FailedSoFar, OneLatencyEach
<1> QED BY <1>1, <1>2 DEF Init, LInv

\* One lemma per operation of a worker and of main.
LEMMA ConnectKeeps == ASSUME LInv, NEW w \in Workers, Connect(w) PROVE LInv'
BY LoadGeneratorAssumption
   DEF LInv, TypeOK, ArrivedWarm, PastBarrier, FailedSoFar, OneLatencyEach, Connect, Goto

LEMMA WarmUpKeeps == ASSUME LInv, NEW w \in Workers, WarmUp(w) PROVE LInv'
BY LoadGeneratorAssumption
   DEF LInv, TypeOK, ArrivedWarm, PastBarrier, FailedSoFar, OneLatencyEach, WarmUp

LEMMA FailSetupKeeps == ASSUME LInv, NEW w \in Workers, FailSetup(w) PROVE LInv'
BY LoadGeneratorAssumption
   DEF LInv, TypeOK, ArrivedWarm, PastBarrier, FailedSoFar, OneLatencyEach, FailSetup, Goto

LEMMA ArriveKeeps == ASSUME LInv, NEW w \in Workers, Arrive(w) PROVE LInv'
BY LoadGeneratorAssumption
   DEF LInv, TypeOK, ArrivedWarm, PastBarrier, FailedSoFar, OneLatencyEach, Arrive, Goto

LEMMA ReleasedKeeps == ASSUME LInv, NEW w \in Workers, Released(w) PROVE LInv'
<1>1. arrived = Workers BY BarrierIsFull DEF LInv, Released
<1> QED BY <1>1, LoadGeneratorAssumption
        DEF LInv, TypeOK, ArrivedWarm, PastBarrier, FailedSoFar, OneLatencyEach, Released, Goto

LEMMA CompleteKeeps == ASSUME LInv, NEW w \in Workers, Complete(w) PROVE LInv'
<1>1. PICK l \in Latencies : latencies' = [latencies EXCEPT ![w] = Append(@, l)]
  BY DEF Complete
<1>2. latencies' \in [Workers -> Seq(Latencies)]
  BY <1>1 DEF LInv, TypeOK
<1>3. OneLatencyEach'
  <2>1. ASSUME NEW x \in Workers
        PROVE  Len(latencies'[x]) = completed'[x]
    <3>1. latencies[x] \in Seq(Latencies) /\ Len(latencies[x]) = completed[x]
      BY DEF LInv, TypeOK, OneLatencyEach
    <3>2. CASE x = w
      <4>1. latencies'[w] = Append(latencies[w], l) /\ completed'[w] = completed[w] + 1
        BY <1>1 DEF LInv, TypeOK, Complete
      <4>2. Len(Append(latencies[w], l)) = Len(latencies[w]) + 1
        BY <3>1, <3>2
      <4> QED BY <3>1, <3>2, <4>1, <4>2
    <3>3. CASE x # w
      BY <1>1, <3>1, <3>3 DEF LInv, TypeOK, Complete
    <3> QED BY <3>2, <3>3
  <2> QED BY <2>1 DEF OneLatencyEach
<1> QED BY <1>2, <1>3, LoadGeneratorAssumption
        DEF LInv, TypeOK, ArrivedWarm, PastBarrier, FailedSoFar, OneLatencyEach, Complete

LEMMA FailRequestKeeps == ASSUME LInv, NEW w \in Workers, FailRequest(w) PROVE LInv'
BY LoadGeneratorAssumption
   DEF LInv, TypeOK, ArrivedWarm, PastBarrier, FailedSoFar, OneLatencyEach, FailRequest, Goto

LEMMA FinishKeeps == ASSUME LInv, NEW w \in Workers, Finish(w) PROVE LInv'
BY LoadGeneratorAssumption
   DEF LInv, TypeOK, ArrivedWarm, PastBarrier, FailedSoFar, OneLatencyEach, Finish, Goto

LEMMA KilledKeeps == ASSUME LInv, NEW w \in Workers, Killed(w) PROVE LInv'
BY DEF LInv, TypeOK, ArrivedWarm, PastBarrier, FailedSoFar, OneLatencyEach, Killed

LEMMA MainKeeps == ASSUME LInv, Main PROVE LInv'
<1>1. CASE MainArrives
  BY <1>1 DEF LInv, TypeOK, ArrivedWarm, PastBarrier, FailedSoFar, OneLatencyEach, MainArrives
<1>2. CASE MainReleased
  <2>1. arrived = Workers BY <1>2, BarrierIsFull DEF LInv, MainReleased
  <2> QED BY <1>2, <2>1
     DEF LInv, TypeOK, ArrivedWarm, PastBarrier, FailedSoFar, OneLatencyEach, MainReleased
<1>3. CASE Report
  BY <1>3 DEF LInv, TypeOK, ArrivedWarm, PastBarrier, FailedSoFar, OneLatencyEach, Report
<1> QED BY <1>1, <1>2, <1>3 DEF Main

LEMMA NextKeeps == LInv /\ [Next]_vars => LInv'
<1> SUFFICES ASSUME LInv, [Next]_vars PROVE LInv'
  OBVIOUS
<1>1. ASSUME NEW w \in Workers, Worker(w) PROVE LInv'
  BY <1>1, ConnectKeeps, WarmUpKeeps, FailSetupKeeps, ArriveKeeps, ReleasedKeeps,
     CompleteKeeps, FailRequestKeeps, KilledKeeps, FinishKeeps DEF Worker
<1>2. CASE Main BY <1>2, MainKeeps
<1>3. CASE UNCHANGED vars
  BY <1>3 DEF LInv, TypeOK, ArrivedWarm, PastBarrier, FailedSoFar, OneLatencyEach, vars
<1> QED BY <1>1, <1>2, <1>3 DEF Next, Done

\* LInv is an invariant of the load generator.
THEOREM Invariance == Spec => []LInv
BY InitEstablishes, NextKeeps, PTL DEF Spec

\* The variables keep their types.
THEOREM TypeCorrect == Spec => []TypeOK
<1>1. LInv => TypeOK BY DEF LInv
<1> QED BY <1>1, Invariance, PTL

\* "Start timing only after setup + warm-up", for every number of workers: neither main's
\* clock nor a measured request runs before every worker is connected and warmed up.
THEOREM MeasuredWarm == Spec => []MeasuredWhenAllWarm
<1>1. LInv => MeasuredWhenAllWarm BY DEF LInv, ArrivedWarm, PastBarrier, MeasuredWhenAllWarm
<1> QED BY <1>1, Invariance, PTL

\* The failed requests that main prints are the number of connections that broke off.
THEOREM FailedIsConnections == Spec => []FailedCountsConnections
<1>1. LInv => FailedCountsConnections
  BY DEF LInv, PastBarrier, FailedSoFar, FailedCountsConnections
<1> QED BY <1>1, Invariance, PTL

-----------------------------------------------------------------------------
(* std::sort and percentile, for every finite collection of values.        *)

LEMMA LeastElement ==
  ASSUME NEW T \in SUBSET Nat, T # {}
  PROVE  \E x \in T : \A y \in T : x <= y
<1>1. \E x \in T : \A y \in T : ~(<<y, x>> \in OpToRel(<, Nat))
  BY NatLessThanWellFounded, WFMin
<1>2. PICK x \in T : \A y \in T : ~(<<y, x>> \in OpToRel(<, Nat))
  BY <1>1
<1>3. ASSUME NEW y \in T
      PROVE  x <= y
  <2>1. ~(<<y, x>> \in OpToRel(<, Nat))
    BY <1>2
  <2>2. x \in Nat /\ y \in Nat /\ ~(y < x)
    BY <2>1 DEF OpToRel
  <2> QED BY <2>2
<1> QED BY <1>3

\* A finite collection of measurements.
Collection(values) ==
  IsFiniteSet(DOMAIN values) /\ \A m \in DOMAIN values : values[m] \in Nat
Size(values) == Cardinality(DOMAIN values)

LEMMA RanksAreNumbers ==
  ASSUME NEW values, Collection(values), NEW part \in SUBSET DOMAIN values
  PROVE  /\ Size(values) \in Nat
         /\ IsFiniteSet(part) /\ Cardinality(part) \in Nat /\ Cardinality(part) <= Size(values)
         /\ Cardinality(part) = Size(values) => part = DOMAIN values
<1>1. IsFiniteSet(DOMAIN values)
  BY DEF Collection
<1>2. /\ IsFiniteSet(part) /\ Cardinality(part) <= Cardinality(DOMAIN values)
      /\ Cardinality(DOMAIN values) = Cardinality(part) => DOMAIN values = part
  BY <1>1, FS_Subset
<1> QED BY <1>1, <1>2, FS_CardinalityType DEF Size

\* A larger part has at least as many members, and more if it has one that the other lacks.
LEMMA RanksGrow ==
  ASSUME NEW values, Collection(values), NEW more \in SUBSET DOMAIN values,
         NEW part \in SUBSET more
  PROVE  /\ Cardinality(part) <= Cardinality(more)
         /\ part # more => Cardinality(part) < Cardinality(more)
<1>1. IsFiniteSet(more) /\ Cardinality(more) \in Nat /\ Cardinality(part) \in Nat
  BY RanksAreNumbers
<1>2. /\ Cardinality(part) <= Cardinality(more)
      /\ Cardinality(more) = Cardinality(part) => more = part
  BY <1>1, FS_Subset
<1> QED BY <1>1, <1>2

\* The value of rank k, as sorted chooses it.
HasRank(values, v, k) ==
  Cardinality(Below(values, v)) < k /\ k <= Cardinality(UpTo(values, v))

\* Every rank has its value: the least that has at least k values up to it.
LEMMA EveryRankIsTaken ==
  ASSUME NEW values, Collection(values), NEW k \in 1 .. Size(values)
  PROVE  \E m \in DOMAIN values : HasRank(values, values[m], k)
<1> DEFINE upto(m) == Cardinality(UpTo(values, values[m]))
<1>1. /\ \A m \in DOMAIN values : upto(m) \in Nat /\ upto(m) <= Size(values)
      /\ Size(values) \in Nat /\ k \in Nat /\ 1 <= k /\ k <= Size(values)
  <2>1. \A m \in DOMAIN values : UpTo(values, values[m]) \in SUBSET DOMAIN values
    BY DEF UpTo
  <2>2. Size(values) \in Nat
    BY RanksAreNumbers
  <2> QED BY <2>1, <2>2, RanksAreNumbers
<1>2. DOMAIN values # {}
  <2>1. Cardinality({}) = 0
    BY FS_EmptySet
  <2> QED BY <1>1, <2>1 DEF Size
<1>3. \A m \in DOMAIN values : values[m] \in Nat
  BY DEF Collection
\* The greatest value has all values up to it.
<1>4. \E m \in DOMAIN values : upto(m) = Size(values)
  <2> DEFINE missing == {Size(values) - upto(m) : m \in DOMAIN values}
  <2>1. missing \in SUBSET Nat /\ missing # {}
    BY <1>1, <1>2
  <2>2. PICK x \in missing : \A y \in missing : x <= y
    BY <2>1, LeastElement
  <2>3. PICK m \in DOMAIN values : x = Size(values) - upto(m)
    BY <2>2
  <2>4. \A i \in DOMAIN values : upto(i) <= upto(m)
    <3>1. \A i \in DOMAIN values : Size(values) - upto(m) <= Size(values) - upto(i)
      BY <2>2, <2>3
    <3> HIDE DEF upto
    <3> QED BY <1>1, <3>1
  <2>5. ASSUME NEW i \in DOMAIN values, i \notin UpTo(values, values[m])
        PROVE  FALSE
    <3>1. values[m] < values[i]
      BY <1>3, <2>5 DEF UpTo
    <3>2. /\ UpTo(values, values[i]) \in SUBSET DOMAIN values
          /\ UpTo(values, values[m]) \in SUBSET UpTo(values, values[i])
          /\ i \in UpTo(values, values[i])
      BY <1>3, <3>1 DEF UpTo
    <3>3. Cardinality(UpTo(values, values[m])) < Cardinality(UpTo(values, values[i]))
      BY <2>5, <3>2, RanksGrow
    <3> QED BY <1>1, <2>4, <3>3
  <2>6. UpTo(values, values[m]) = DOMAIN values
    BY <2>5 DEF UpTo
  <2> QED BY <2>6 DEF Size
<1> DEFINE enough == {values[m] : m \in {i \in DOMAIN values : k <= upto(i)}}
<1>5. enough \in SUBSET Nat /\ enough # {}
  BY <1>1, <1>3, <1>4
<1>6. PICK v \in enough : \A y \in enough : v <= y
  BY <1>5, LeastElement
<1>7. PICK m \in DOMAIN values : v = values[m] /\ k <= upto(m)
  BY <1>6
<1>8. ASSUME ~(Cardinality(Below(values, v)) < k)
      PROVE  FALSE
  <2>1. Below(values, v) \in SUBSET DOMAIN values
    BY DEF Below
  <2>2. Cardinality(Below(values, v)) \in Nat
    BY <2>1, RanksAreNumbers
  <2>3. Below(values, v) # {}
    <3>1. Cardinality({}) = 0
      BY FS_EmptySet
    <3> QED BY <1>1, <1>8, <2>2, <3>1
  \* The greatest value below v has as many up to it as v has below it.
  <2> DEFINE distances == {v - values[i] : i \in Below(values, v)}
  <2>4. /\ v \in Nat
        /\ \A i \in Below(values, v) :
             i \in DOMAIN values /\ values[i] \in Nat /\ values[i] < v
    BY <1>3, <1>7 DEF Below
  <2>5. distances \in SUBSET Nat /\ distances # {}
    BY <2>3, <2>4
  <2>6. PICK x \in distances : \A y \in distances : x <= y
    BY <2>5, LeastElement
  <2>7. PICK j \in Below(values, v) : x = v - values[j]
    BY <2>6
  <2>8. \A i \in Below(values, v) : values[i] <= values[j]
    <3>1. \A i \in Below(values, v) : v - values[j] <= v - values[i]
      BY <2>6, <2>7
    <3> QED BY <2>4, <2>7, <3>1
  <2>9. UpTo(values, values[j]) = Below(values, v)
    BY <1>3, <2>4, <2>7, <2>8 DEF UpTo, Below
  <2>10. k <= upto(j)
    BY <1>1, <1>8, <2>2, <2>9
  <2>11. values[j] \in enough
    BY <2>4, <2>7, <2>10
  <2>12. v <= values[j] /\ values[j] < v /\ values[j] \in Nat
    BY <1>6, <2>4, <2>7, <2>11
  <2> QED BY <2>4, <2>12
<1> QED BY <1>7, <1>8 DEF HasRank

Rising(s) == \A k, l \in 1 .. Len(s) : k <= l => s[k] <= s[l]

\* std::sort: as many values as there were, each at its rank, in order.
LEMMA SortedFacts ==
  ASSUME NEW values, Collection(values)
  PROVE  /\ sorted(values) \in Seq(Nat) /\ Len(sorted(values)) = Size(values)
         /\ \A k \in 1 .. Size(values) : HasRank(values, sorted(values)[k], k)
         /\ Rising(sorted(values))
<1> DEFINE s == sorted(values)
<1>1. Size(values) \in Nat
  BY RanksAreNumbers
<1>2. ASSUME NEW k \in 1 .. Size(values)
      PROVE  s[k] \in Nat /\ HasRank(values, s[k], k)
  <2>1. PICK m \in DOMAIN values : HasRank(values, values[m], k)
    BY EveryRankIsTaken
  <2>2. s[k] = CHOOSE v \in {values[m1] : m1 \in DOMAIN values} : HasRank(values, v, k)
    BY DEF sorted, HasRank, Size
  <2> HIDE DEF s
  <2>3. s[k] \in {values[m1] : m1 \in DOMAIN values} /\ HasRank(values, s[k], k)
    BY <2>1, <2>2
  <2> QED BY <2>3 DEF Collection
<1>3. s \in Seq(Nat) /\ Len(s) = Size(values)
  <2>1. s = [k \in 1 .. Size(values) |-> s[k]]
    BY DEF sorted, Size
  <2> HIDE DEF s
  <2>2. s \in [1 .. Size(values) -> Nat]
    BY <1>2, <2>1
  <2> QED BY <1>1, <2>2
<1> HIDE DEF s
<1>4. ASSUME NEW k \in 1 .. Size(values), NEW l \in 1 .. Size(values), k <= l, ~(s[k] <= s[l])
      PROVE  FALSE
  <2>1. s[k] \in Nat /\ s[l] \in Nat /\ s[l] < s[k]
    BY <1>2, <1>4
  <2>2. /\ UpTo(values, s[l]) \in SUBSET Below(values, s[k])
        /\ Below(values, s[k]) \in SUBSET DOMAIN values
        /\ UpTo(values, s[l]) \in SUBSET DOMAIN values
    BY <2>1 DEF UpTo, Below, Collection
  <2>3. Cardinality(UpTo(values, s[l])) <= Cardinality(Below(values, s[k]))
    BY <2>2, RanksGrow
  <2>4. l <= Cardinality(UpTo(values, s[l])) /\ Cardinality(Below(values, s[k])) < k
    BY <1>2 DEF HasRank
  <2>5. Cardinality(UpTo(values, s[l])) \in Nat /\ Cardinality(Below(values, s[k])) \in Nat
    BY <2>2, RanksAreNumbers
  <2> QED BY <1>1, <1>4, <2>3, <2>4, <2>5
<1> QED BY <1>2, <1>3, <1>4 DEF s, Rising

\* Division by 100.
LEMMA Hundreds ==
  ASSUME NEW x \in Nat
  PROVE  \E d \in Nat, r \in 0 .. 99 :
           /\ x \div 100 = d /\ x % 100 = r /\ x = 100 * d + r
           /\ (x + 99) \div 100 = IF r = 0 THEN d ELSE d + 1
<1>1. x \div 100 \in Nat
  BY SMTT(30)
<1>2. 100 * (x \div 100) <= x
  BY SMTT(30)
<1>3. x < 100 * (x \div 100) + 100
  BY SMTT(30)
<1>4. PICK d \in Nat : d = x \div 100
  BY <1>1
<1>5. 100 * d <= x /\ x < 100 * d + 100
  BY <1>2, <1>3, <1>4
<1>6. PICK r \in 0 .. 99 : x = 100 * d + r
  <2>1. x - 100 * d \in 0 .. 99 /\ x = 100 * d + (x - 100 * d)
    BY <1>5
  <2> QED BY <2>1
<1>7. \A y \in Nat, e \in Nat, i \in 0 .. 99 : y = 100 * e + i => y % 100 = i
  BY SMTT(30)
<1>8. \A y \in Nat, e \in Nat, i \in 0 .. 99 : y = 100 * e + i => y \div 100 = e
  BY SMTT(30)
<1>9. x % 100 = r
  BY <1>6, <1>7
<1>10. r = 0 => (x + 99) \div 100 = d
  <2>1. r = 0 => x + 99 \in Nat /\ 99 \in 0 .. 99 /\ x + 99 = 100 * d + 99
    BY <1>6
  <2> HIDE <1>6
  <2> QED BY <1>8, <2>1
<1>11. r # 0 => (x + 99) \div 100 = d + 1
  <2>1. r # 0 => /\ x + 99 \in Nat /\ d + 1 \in Nat /\ r - 1 \in 0 .. 99
                 /\ x + 99 = 100 * (d + 1) + (r - 1)
    BY <1>6
  <2> QED BY <1>8, <2>1
<1>12. (x + 99) \div 100 = IF r = 0 THEN d ELSE d + 1
  BY <1>10, <1>11
<1>13. x \div 100 = d
  BY <1>4
<1> QED BY <1>6, <1>9, <1>12, <1>13

\* The two indices of a percentile and the weight of the second.
Interpolates(s, p, l, u, f) ==
  l = lower_index(s, p) /\ u = upper_index(s, p) /\ f = fraction(s, p)

\* The indices are in range and at most one apart, and the same exactly if nothing is left
\* to interpolate.
Fits(n, p, l, u, f) ==
  /\ l \in 1 .. n /\ u \in 1 .. n /\ f \in 0 .. 99
  /\ 100 * (l - 1) + f = p * (n - 1)
  /\ u = IF f = 0 THEN l ELSE l + 1

LEMMA IndicesFit ==
  ASSUME NEW s \in Seq(Nat), Len(s) # 0, NEW p \in {50, 95, 99},
         NEW l, NEW u, NEW f, Interpolates(s, p, l, u, f)
  PROVE  Fits(Len(s), p, l, u, f)
<1>1. PICK n : n = Len(s)
  OBVIOUS
<1>2. n \in Nat /\ n >= 1
  BY <1>1
<1>3. PICK x : x = p * (n - 1)
  OBVIOUS
<1>4. x \in Nat /\ x <= 99 * (n - 1)
  <2>1. CASE p = 50 BY <1>2, <1>3, <2>1
  <2>2. CASE p = 95 BY <1>2, <1>3, <2>2
  <2>3. CASE p = 99 BY <1>2, <1>3, <2>3
  <2> QED BY <2>1, <2>2, <2>3
<1>5. PICK d \in Nat, r \in 0 .. 99 :
        /\ x \div 100 = d /\ x % 100 = r /\ x = 100 * d + r
        /\ (x + 99) \div 100 = IF r = 0 THEN d ELSE d + 1
  BY <1>4, Hundreds
<1>6. position(s, p) = x
  BY <1>1, <1>3 DEF position
<1>7. l = d + 1 /\ f = r /\ u = (IF r = 0 THEN d ELSE d + 1) + 1
  BY <1>5, <1>6 DEF lower_index, upper_index, fraction, Interpolates
<1>8. 100 * d + r <= 99 * (n - 1)
  BY <1>4, <1>5
<1>9. d + 1 \in 1 .. n /\ (r # 0 => d + 2 \in 1 .. n)
  BY <1>2, <1>8
<1>10. u = (IF f = 0 THEN l ELSE l + 1) /\ u \in 1 .. n
  <2>1. CASE r = 0 BY <1>7, <1>9, <2>1
  <2>2. CASE r # 0 BY <1>7, <1>9, <2>2
  <2> QED BY <2>1, <2>2
<1>11. 100 * (l - 1) + f = p * (n - 1)
  <2>1. l - 1 = d
    BY <1>7
  <2> QED BY <1>3, <1>5, <1>7, <2>1
<1> QED BY <1>1, <1>7, <1>9, <1>10, <1>11 DEF Fits

\* What lies between two values, at a weight in hundredths.
Between(a, b, f) == a * (100 - f) + b * f

LEMMA ProductsGrow ==
  ASSUME NEW a \in Nat, NEW b \in Nat, NEW c \in Nat, a <= b
  PROVE  c * a \in Nat /\ c * b \in Nat /\ c * a <= c * b
<1>1. PICK e \in Nat : b = a + e
  <2>1. b - a \in Nat /\ b = a + (b - a)
    OBVIOUS
  <2> QED BY <2>1
<1>2. c * b = c * a + c * e
  BY <1>1
<1>3. c * e \in Nat /\ c * a \in Nat
  OBVIOUS
<1> QED BY <1>2, <1>3

LEMMA BetweenIs ==
  ASSUME NEW a \in Nat, NEW b \in Nat, NEW d \in Nat, b = a + d, NEW y \in Nat, y <= 100
  PROVE  Between(a, b, y) = 100 * a + d * y
<1>1. PICK z : z = 100 - y /\ z \in Nat /\ y \in Nat /\ y + z = 100
  OBVIOUS
<1>2. (a + d) * y = a * y + d * y
  BY <1>1
<1>3. a * z + a * y = 100 * a
  <2>1. a * z + a * y = a * (y + z)
    BY <1>1
  <2> QED BY <1>1, <2>1
<1>4. a * z \in Nat /\ a * y \in Nat /\ d * y \in Nat
  BY <1>1
<1> QED BY <1>1, <1>2, <1>3, <1>4 DEF Between

\* It lies between them ...
LEMMA BetweenBoth ==
  ASSUME NEW a \in Nat, NEW b \in Nat, a <= b, NEW f \in Nat, f <= 100
  PROVE  /\ Between(a, b, f) \in Int
         /\ 100 * a <= Between(a, b, f) /\ Between(a, b, f) <= 100 * b
<1>1. PICK d \in Nat : b = a + d
  <2>1. b - a \in Nat /\ b = a + (b - a)
    OBVIOUS
  <2> QED BY <2>1
<1>2. Between(a, b, f) = 100 * a + d * f
  BY <1>1, BetweenIs
<1>3. PICK y : y = d * f /\ y \in Nat
  OBVIOUS
<1>5. y <= d * 100
  BY <1>3, ProductsGrow
<1>6. Between(a, b, f) = 100 * a + y
  BY <1>2, <1>3
<1>7. 100 * b = 100 * a + d * 100
  BY <1>1
<1> HIDE <1>2
<1> QED BY <1>3, <1>5, <1>6, <1>7

\* ... and the further up the greater the weight of the second.
LEMMA BetweenRises ==
  ASSUME NEW a \in Nat, NEW b \in Nat, a <= b,
         NEW f \in Nat, NEW g \in Nat, f <= g, g <= 100
  PROVE  Between(a, b, f) <= Between(a, b, g)
<1>1. PICK d \in Nat : b = a + d
  <2>1. b - a \in Nat /\ b = a + (b - a)
    OBVIOUS
  <2> QED BY <2>1
<1>2. Between(a, b, f) = 100 * a + d * f
  BY <1>1, BetweenIs
<1>3. Between(a, b, g) = 100 * a + d * g
  BY <1>1, BetweenIs
<1>5. d * f \in Nat /\ d * g \in Nat /\ d * f <= d * g
  BY ProductsGrow
<1> QED BY <1>2, <1>3, <1>5

\* percentile() of a sorted collection that is not empty.
LEMMA PercentileFacts ==
  ASSUME NEW s \in Seq(Nat), Len(s) # 0, Rising(s), NEW p \in {50, 95, 99},
         NEW l, NEW u, NEW f, Interpolates(s, p, l, u, f)
  PROVE  /\ s[l] \in Nat /\ s[u] \in Nat /\ s[l] <= s[u]
         /\ percentile(s, p) = Between(s[l], s[u], f)
         /\ percentile(s, p) \in Int
         /\ 100 * s[l] <= percentile(s, p) /\ percentile(s, p) <= 100 * s[u]
<1>1. /\ l \in 1 .. Len(s) /\ u \in 1 .. Len(s) /\ f \in 0 .. 99
      /\ u = IF f = 0 THEN l ELSE l + 1
  <2>1. Fits(Len(s), p, l, u, f)
    BY IndicesFit
  <2> QED BY <2>1 DEF Fits
<1>2. s # <<>>
  OBVIOUS
<1>3. percentile(s, p) = Between(s[l], s[u], f)
  BY <1>2 DEF percentile, Between, Interpolates
<1>4. l <= u /\ s[l] \in Nat /\ s[u] \in Nat /\ f \in Nat /\ f <= 100
  BY <1>1
<1>5. s[l] <= s[u]
  BY <1>1, <1>4 DEF Rising
<1>7. PICK a \in Nat, b \in Nat : a = s[l] /\ b = s[u] /\ a <= b
  BY <1>4, <1>5
<1>8. /\ Between(a, b, f) \in Int
      /\ 100 * a <= Between(a, b, f) /\ Between(a, b, f) <= 100 * b
  <2>1. PICK c \in Nat : c = f /\ c <= 100
    BY <1>4
  <2>2. a <= b
    BY <1>7
  <2>3. /\ Between(a, b, c) \in Int
        /\ 100 * a <= Between(a, b, c) /\ Between(a, b, c) <= 100 * b
    BY <2>1, <2>2, BetweenBoth
  <2> QED BY <2>1, <2>3
<1> QED BY <1>3, <1>4, <1>5, <1>7, <1>8

LEMMA PercentilesRise ==
  ASSUME NEW values, Collection(values),
         NEW p \in {50, 95, 99}, NEW q \in {50, 95, 99}, p <= q
  PROVE  percentile(sorted(values), p) <= percentile(sorted(values), q)
<1>1. PICK s : s = sorted(values)
  OBVIOUS
<1>2. s \in Seq(Nat) /\ Rising(s)
  BY <1>1, SortedFacts
<1>3. CASE Len(s) = 0
  <2>1. s = <<>>
    BY <1>2, <1>3
  <2> QED BY <1>1, <2>1 DEF percentile
<1>4. CASE Len(s) # 0
  <2>1. PICK l, u, f : Interpolates(s, p, l, u, f)
    BY DEF Interpolates
  <2>2. PICK i, j, g : Interpolates(s, q, i, j, g)
    BY DEF Interpolates
  <2>3. PICK n : n = Len(s) /\ n \in Nat /\ n >= 1
    BY <1>2, <1>4
  <2>4. /\ l \in 1 .. n /\ u \in 1 .. n /\ f \in 0 .. 99 /\ 100 * (l - 1) + f = p * (n - 1)
        /\ u = IF f = 0 THEN l ELSE l + 1
    <3>1. Fits(n, p, l, u, f)
      BY <1>2, <1>4, <2>1, <2>3, IndicesFit
    <3> QED BY <3>1 DEF Fits
  <2>5. /\ i \in 1 .. n /\ j \in 1 .. n /\ g \in 0 .. 99 /\ 100 * (i - 1) + g = q * (n - 1)
        /\ j = IF g = 0 THEN i ELSE i + 1
    <3>1. Fits(n, q, i, j, g)
      BY <1>2, <1>4, <2>2, <2>3, IndicesFit
    <3> QED BY <3>1 DEF Fits
  <2>6. p * (n - 1) <= q * (n - 1)
    <3>1. p \in Nat /\ q \in Nat /\ n - 1 \in Nat
      BY <2>3
    <3>2. PICK c \in Nat : c = n - 1
      BY <3>1
    <3>3. c * p <= c * q
      BY <3>1, ProductsGrow
    <3>4. c * p = p * c /\ c * q = q * c
      BY <3>1
    <3> QED BY <3>2, <3>3, <3>4
  <2>7. 100 * (l - 1) + f <= 100 * (i - 1) + g
    BY <2>4, <2>5, <2>6
  <2>8. u <= i \/ (l = i /\ f <= g /\ (u = j \/ f = 0))
    <3>1. l \in Nat /\ i \in Nat /\ u \in Nat /\ j \in Nat
      BY <2>3, <2>4, <2>5
    <3> QED BY <2>4, <2>5, <2>7, <3>1
  <2>9. /\ s[l] \in Nat /\ s[u] \in Nat /\ percentile(s, p) = Between(s[l], s[u], f)
        /\ percentile(s, p) \in Int
        /\ 100 * s[l] <= percentile(s, p) /\ percentile(s, p) <= 100 * s[u] /\ s[l] <= s[u]
    BY <1>2, <1>4, <2>1, PercentileFacts
  <2>10. /\ s[i] \in Nat /\ s[j] \in Nat /\ percentile(s, q) = Between(s[i], s[j], g)
         /\ percentile(s, q) \in Int
         /\ 100 * s[i] <= percentile(s, q) /\ percentile(s, q) <= 100 * s[j] /\ s[i] <= s[j]
    BY <1>2, <1>4, <2>2, PercentileFacts
  <2>11. CASE u <= i
    <3>1. s[u] <= s[i]
      BY <1>2, <2>3, <2>4, <2>5, <2>11 DEF Rising
    <3> QED BY <1>1, <2>9, <2>10, <3>1
  <2>12. CASE l = i /\ f <= g /\ u = j
    <3>1. f \in Nat /\ g \in Nat /\ g <= 100
      BY <2>4, <2>5
    <3>2. PICK a \in Nat, b \in Nat : a = s[l] /\ b = s[u] /\ a <= b
      BY <2>9
    <3>3. Between(a, b, f) <= Between(a, b, g)
      BY <2>12, <3>1, <3>2, BetweenRises
    <3> QED BY <1>1, <2>9, <2>10, <2>12, <3>2, <3>3
  <2>13. CASE l = i /\ f = 0
    <3>1. u = l
      BY <2>4, <2>13
    <3> QED BY <1>1, <2>9, <2>10, <2>13, <3>1
  <2> QED BY <2>8, <2>11, <2>12, <2>13
<1> QED BY <1>3, <1>4

\* Less than the named share of the steps between the values, and one value, lies below a
\* percentile, and no more than the rest above it.
LEMMA PercentileIsARank ==
  ASSUME NEW values, Collection(values), Size(values) # 0, NEW p \in {50, 95, 99},
         NEW v, v = percentile(sorted(values), p),
         NEW hundredths, hundredths = [m \in DOMAIN values |-> 100 * values[m]]
  PROVE  /\ 100 * Cardinality(Below(hundredths, v)) < p * (Size(values) - 1) + 100
         /\ 100 * Cardinality(Above(hundredths, v)) < (100 - p) * (Size(values) - 1) + 100
<1>1. PICK s : s = sorted(values)
  OBVIOUS
<1>2. PICK n : n = Size(values)
  OBVIOUS
<1>3. s \in Seq(Nat) /\ Len(s) = n /\ Rising(s) /\ \A k \in 1 .. n : HasRank(values, s[k], k)
  BY <1>1, <1>2, SortedFacts
<1>4. n \in Nat /\ n >= 1 /\ Len(s) # 0
  <2>1. {} \in SUBSET DOMAIN values
    OBVIOUS
  <2>2. n \in Nat
    BY <1>2, <2>1, RanksAreNumbers
  <2> QED BY <1>2, <1>3, <2>2
<1>5. PICK l, u, f : Interpolates(s, p, l, u, f)
  BY DEF Interpolates
<1>6. /\ l \in 1 .. n /\ u \in 1 .. n /\ f \in 0 .. 99 /\ 100 * (l - 1) + f = p * (n - 1)
      /\ u = IF f = 0 THEN l ELSE l + 1
  <2>1. Fits(n, p, l, u, f)
    BY <1>3, <1>4, <1>5, IndicesFit
  <2> QED BY <2>1 DEF Fits
<1>7. /\ s[l] \in Nat /\ s[u] \in Nat /\ v \in Int /\ 100 * s[l] <= v /\ v <= 100 * s[u]
  <2>1. v = percentile(s, p)
    BY <1>1
  <2> QED BY <1>3, <1>4, <1>5, <2>1, PercentileFacts, SMTT(30)
<1>8. PICK a \in Nat, b \in Nat : a = s[l] /\ b = s[u] /\ 100 * a <= v /\ v <= 100 * b
  BY <1>7
<1>9. HasRank(values, a, l) /\ HasRank(values, b, u)
  BY <1>3, <1>6, <1>8
<1>10. /\ DOMAIN hundredths = DOMAIN values
       /\ \A m \in DOMAIN values : values[m] \in Nat /\ hundredths[m] = 100 * values[m]
  BY DEF Collection
<1>11. l \in Nat /\ u \in Nat /\ l <= u /\ 100 * u <= 100 * (l - 1) + f + 199
  BY <1>4, <1>6
<1>12. 100 * Cardinality(Below(hundredths, v)) < p * (n - 1) + 100
  <2>1. Below(values, b) \in SUBSET DOMAIN values
    BY DEF Below
  <2>2. Below(hundredths, v) \in SUBSET Below(values, b)
    <3>1. ASSUME NEW m \in DOMAIN values, 100 * values[m] < v
          PROVE  values[m] < b
      BY <1>7, <1>8, <1>10, <3>1
    <3> QED BY <1>10, <3>1 DEF Below
  <2>3. Cardinality(Below(hundredths, v)) <= Cardinality(Below(values, b))
    BY <2>1, <2>2, RanksGrow
  <2>4. Below(hundredths, v) \in SUBSET DOMAIN values
    BY <2>1, <2>2
  <2>5. Cardinality(Below(hundredths, v)) \in Nat /\ Cardinality(Below(values, b)) \in Nat
    BY <2>1, <2>4, RanksAreNumbers
  <2>6. Cardinality(Below(values, b)) < u
    BY <1>9 DEF HasRank
  <2>7. PICK c : c = Cardinality(Below(hundredths, v)) /\ c \in Nat /\ c < u
    BY <1>11, <2>3, <2>5, <2>6
  <2>8. 100 * c < 100 * (l - 1) + f + 100
    BY <1>6, <1>11, <2>7
  <2> QED BY <1>6, <2>7, <2>8
<1>13. 100 * Cardinality(Above(hundredths, v)) < (100 - p) * (n - 1) + 100
  <2> DEFINE upto == UpTo(values, a)
             rest == (DOMAIN values) \ upto
  <2>1. upto \in SUBSET DOMAIN values /\ rest \in SUBSET DOMAIN values
    BY DEF UpTo
  <2>2. Above(hundredths, v) \in SUBSET rest
    <3>1. ASSUME NEW m \in DOMAIN values, 100 * values[m] > v
          PROVE  ~(values[m] <= a)
      BY <1>7, <1>8, <1>10, <3>1
    <3> QED BY <1>10, <3>1 DEF Above, UpTo
  <2>3. l <= Cardinality(upto)
    BY <1>9 DEF HasRank
  <2> HIDE DEF upto
  <2>4. Cardinality(Above(hundredths, v)) <= Cardinality(rest)
    BY <2>1, <2>2, RanksGrow
  <2>5. (DOMAIN values) \cap upto = upto
    BY <2>1
  <2>6. Cardinality(rest) = Size(values) - Cardinality(upto)
    <3>1. Cardinality(rest) = Cardinality(DOMAIN values) - Cardinality((DOMAIN values) \cap upto)
      <4>1. IsFiniteSet(DOMAIN values) BY DEF Collection
      <4> QED BY <4>1, FS_Difference
    <3> QED BY <2>5, <3>1 DEF Size
  <2>7. Above(hundredths, v) \in SUBSET DOMAIN values
    BY <2>1, <2>2
  <2>8. Cardinality(upto) \in Nat /\ Cardinality(Above(hundredths, v)) \in Nat
    BY <2>1, <2>7, RanksAreNumbers
  <2>9. PICK c : c = Cardinality(Above(hundredths, v)) /\ c \in Nat /\ c <= n - l
    BY <1>2, <1>4, <1>11, <2>3, <2>4, <2>6, <2>8
  <2>10. 100 * c < 100 * (n - 1) - (100 * (l - 1) + f) + 100
    BY <1>4, <1>6, <1>11, <2>9
  <2>11. (100 - p) * (n - 1) = 100 * (n - 1) - p * (n - 1)
    BY <1>4
  <2> QED BY <1>6, <2>9, <2>10, <2>11
<1> QED BY <1>2, <1>12, <1>13

-----------------------------------------------------------------------------
(* What main prints.                                                       *)

\* The latencies of all workers are finitely many, whatever requests_per_client is.
LEMMA LatenciesAreACollection ==
  ASSUME TypeOK
  PROVE  Collection(all_latencies)
<1> DEFINE pairs == Workers \X (1 .. Requests)
           measured == {m \in pairs : m[2] <= Len(latencies[m[1]])}
<1>1. all_latencies = [m \in measured |-> latencies[m[1]][m[2]]]
  BY DEF all_latencies
<1>2. IsFiniteSet(measured)
  <2>1. IsFiniteSet(Workers) /\ Requests \in Nat
    BY LoadGeneratorAssumption
  <2>2. IsFiniteSet(1 .. Requests)
    BY <2>1, FS_Interval
  <2>3. IsFiniteSet(pairs)
    BY <2>1, <2>2, FS_Product
  <2>4. measured \in SUBSET pairs
    OBVIOUS
  <2> HIDE DEF pairs, measured
  <2> QED BY <2>3, <2>4, FS_Subset
<1>3. ASSUME NEW m \in measured
      PROVE  latencies[m[1]][m[2]] \in Nat
  <2>1. m[1] \in Workers /\ m[2] \in 1 .. Requests /\ m[2] <= Len(latencies[m[1]])
    OBVIOUS
  <2>2. latencies[m[1]] \in Seq(Latencies)
    BY <2>1 DEF TypeOK
  <2>3. PICK s, k : s = latencies[m[1]] /\ k = m[2]
    OBVIOUS
  <2>4. s \in Seq(Latencies) /\ k \in Nat /\ k >= 1 /\ k <= Len(s)
    BY <2>1, <2>2, <2>3
  <2>5. k \in 1 .. Len(s)
    BY <2>4
  <2>6. s[k] \in Latencies
    BY <2>4, <2>5
  <2> QED BY <2>3, <2>6, LoadGeneratorAssumption
<1> HIDE DEF measured
<1>4. DOMAIN all_latencies = measured
  BY <1>1
<1>5. \A m \in measured : all_latencies[m] \in Nat
  BY <1>1, <1>3
<1> QED BY <1>2, <1>4, <1>5 DEF Collection

\* The percentiles that main prints are those of all completed requests, however many: none
\* is missing, they do not cross, and each splits the values as its name says.
THEOREM PercentilesAreRight == Spec => []PercentilesAreRanks
<1>1. ASSUME LInv
      PROVE  PercentilesAreRanks
  <2>1. \A w \in Workers : Len(latencies[w]) = completed[w]
    BY <1>1 DEF LInv, OneLatencyEach
  <2>2. PICK values : values = all_latencies
    OBVIOUS
  <2>3. Collection(values)
    BY <1>1, <2>2, LatenciesAreACollection DEF LInv
  <2>4. /\ percentile(sorted(values), 50) <= percentile(sorted(values), 95)
        /\ percentile(sorted(values), 95) <= percentile(sorted(values), 99)
    BY <2>3, PercentilesRise
  <2>5. PICK hundredths : hundredths = [m \in DOMAIN values |-> 100 * values[m]]
    OBVIOUS
  <2>6. ASSUME Size(values) - 1 >= 0, NEW p \in {50, 95, 99}
        PROVE  /\ 100 * Cardinality(Below(hundredths, percentile(sorted(values), p)))
                    < p * (Size(values) - 1) + 100
               /\ 100 * Cardinality(Above(hundredths, percentile(sorted(values), p)))
                    < (100 - p) * (Size(values) - 1) + 100
    <3>1. PICK v : v = percentile(sorted(values), p)
      OBVIOUS
    <3>2. Size(values) # 0
      BY <2>6
    <3>3. /\ 100 * Cardinality(Below(hundredths, v)) < p * (Size(values) - 1) + 100
          /\ 100 * Cardinality(Above(hundredths, v)) < (100 - p) * (Size(values) - 1) + 100
      BY <2>3, <2>5, <3>1, <3>2, PercentileIsARank
    <3> QED BY <3>1, <3>3
  <2> QED BY <2>1, <2>2, <2>4, <2>5, <2>6 DEF PercentilesAreRanks, Percentile, Size
<1> QED BY <1>1, Invariance, PTL

=============================================================================
