----------------------------- MODULE Statistics -----------------------------
(***************************************************************************)
(* How src/load_generator.cpp summarises latencies: std::sort and          *)
(* percentile.  A collection of values is a function of integers, over any *)
(* finite set of measurements.  A percentile is given in hundredths, as    *)
(* 50, 95 and 99, and its result in hundredths of the values' unit, which  *)
(* makes the interpolation exact (the code's is in double).                *)
(***************************************************************************)
EXTENDS Integers, Sequences, FiniteSets

Below(values, v)  == {m \in DOMAIN values : values[m] < v}
Above(values, v)  == {m \in DOMAIN values : values[m] > v}
UpTo(values, v)   == {m \in DOMAIN values : values[m] <= v}

\* std::sort: the k-th of the sorted values has fewer than k below it, and k up to it.
sorted(values) ==
  [k \in 1 .. Cardinality(DOMAIN values) |->
     CHOOSE v \in {values[m] : m \in DOMAIN values} :
       /\ Cardinality(Below(values, v)) < k
       /\ k <= Cardinality(UpTo(values, v))]

\* The position percentile_value * (size - 1), counted from 0 and in hundredths, lies
\* between two indices; these are counted from 1.
position(s, p)    == p * (Len(s) - 1)
lower_index(s, p) == position(s, p) \div 100 + 1
upper_index(s, p) == (position(s, p) + 99) \div 100 + 1
fraction(s, p)    == position(s, p) % 100

WeightsSwapped(s, p) ==
  IF s = <<>> THEN 0
  ELSE s[lower_index(s, p)] * fraction(s, p) + s[upper_index(s, p)] * (100 - fraction(s, p))
percentile(s, p) ==
  IF s = <<>> THEN 0
  ELSE s[lower_index(s, p)] * (100 - fraction(s, p)) + s[upper_index(s, p)] * fraction(s, p)
=============================================================================
