------------------------------ MODULE CallsProofs ------------------------------
(****************************************************************************)
(* Proofs about calls that share state: about Retry for any policies, delays *)
(* and window, about CachedCalls for any keys, threshold and lifetimes and   *)
(* any number of executions, about CacheStrategies for any keys, sizes,      *)
(* lifetimes and number of calls, and about Batch for any operations,        *)
(* records, chunk size and concurrency; all for any finite set of tasks.     *)
(****************************************************************************)
EXTENDS Retry, CachedCalls, CacheStrategies, Batch, ListProofs

Positive == Nat \ {0}

\* Powers of a positive number are positive numbers.
LEMMA PowerType == power \in [Nat -> [Positive -> Positive]]
<1> DEFINE V == [Positive -> Positive]
           one == [b \in Positive |-> 1]
           step == [w \in V |-> [b \in Positive |-> b * w[b]]]
<1>1. one \in V
  BY DEF Positive
<1>2. step \in [V -> V]
  <2>1. ASSUME NEW w \in V
        PROVE  [b \in Positive |-> b * w[b]] \in V
    <3>1. \A a, b \in Positive : a * b \in Positive
      BY DEF Positive
    <3> QED
      BY <3>1
  <2> QED
    BY <2>1
<1>3. PICK f \in [Nat -> V] :
         f[0] = one /\ \A n \in Nat : f[n + 1] = step[f[n]]
  <2> HIDE DEF V, one, step
  <2> QED
    BY <1>1, <1>2, RecursionOnNat
<1>4. f = [n \in Nat |-> [b \in Nat \ {0} |->
              IF n = 0 THEN 1 ELSE b * f[n - 1][b]]]
  <2>1. ASSUME NEW n \in Nat
        PROVE  f[n] = [b \in Nat \ {0} |->
                  IF n = 0 THEN 1 ELSE b * f[n - 1][b]]
    <3>1. CASE n = 0
      BY <1>3, <3>1 DEF Positive
    <3>2. CASE n # 0
      <4>1. n - 1 \in Nat /\ (n - 1) + 1 = n
        BY <3>2
      <4>2. f[n] = step[f[n - 1]] /\ f[n - 1] \in V
        BY <1>3, <4>1
      <4> QED
        BY <3>2, <4>2 DEF Positive
    <3> QED
      BY <3>1, <3>2
  <2> QED
    BY <1>3, <2>1
<1>5. power = [n \in Nat |-> [b \in Nat \ {0} |->
                  IF n = 0 THEN 1 ELSE b * power[n - 1][b]]]
  BY <1>4, Zenon DEF power
<1>6. ASSUME NEW n \in Nat, power[n] \in V
      PROVE  power[n + 1] \in V
  <2>1. n + 1 \in Nat /\ n + 1 # 0 /\ (n + 1) - 1 = n
    OBVIOUS
  <2>2. power[n + 1] = [b \in Nat \ {0} |-> b * power[n][b]]
    BY <1>5, <2>1
  <2>3. \A a, b \in Positive : a * b \in Positive
    BY DEF Positive
  <2> QED
    BY <1>6, <2>2, <2>3 DEF Positive
<1>7. power[0] \in V
  BY <1>5 DEF Positive
<1> DEFINE S == {n \in Nat : power[n] \in V}
<1>8. S = Nat
  <2>1. S \in SUBSET Nat /\ 0 \in S /\ \A n \in S : n + 1 \in S
    BY <1>6, <1>7
  <2> HIDE DEF S
  <2> QED
    BY <2>1, EveryNatural
<1>9. DOMAIN power = Nat
  BY <1>5
<1>10. power = [n \in Nat |-> power[n]]
  BY <1>5
<1> QED
  BY <1>8, <1>10

\* Fibonacci's numbers are numbers.
LEMMA FibonacciType == fibonacci \in [Nat -> Nat]
<1> DEFINE V == Nat \X Nat
           first == <<0, 1>>
           step == [w \in V |-> <<w[2], w[1] + w[2]>>]
<1>1. first \in V
  OBVIOUS
<1>2. step \in [V -> V]
  OBVIOUS
<1>3. PICK g \in [Nat -> V] :
         g[0] = first /\ \A n \in Nat : g[n + 1] = step[g[n]]
  <2> HIDE DEF V, first, step
  <2> QED
    BY <1>1, <1>2, RecursionOnNat
<1> DEFINE f == [n \in Nat |-> g[n][1]]
<1>4. \A n \in Nat : g[n] \in V
  BY <1>3
<1>5. \A n \in Nat : g[n + 1] = <<g[n][2], g[n][1] + g[n][2]>>
  BY <1>3, <1>4
<1>6. f = [n \in Nat |-> IF n <= 1 THEN n ELSE f[n - 1] + f[n - 2]]
  <2>1. ASSUME NEW n \in Nat
        PROVE  f[n] = IF n <= 1 THEN n ELSE f[n - 1] + f[n - 2]
    <3>1. CASE n = 0
      BY <1>3, <3>1
    <3>2. CASE n = 1
      <4>1. g[0 + 1] = <<g[0][2], g[0][1] + g[0][2]>>
        BY <1>5
      <4>2. g[1] = <<1, 1>>
        BY <1>3, <4>1
      <4> QED
        BY <3>2, <4>2
    <3>3. CASE n > 1
      <4>1. n - 1 \in Nat /\ n - 2 \in Nat /\ (n - 1) + 1 = n /\ (n - 2) + 1 = n - 1
            /\ ~(n <= 1)
        BY <3>3
      <4>2. /\ g[n] = <<g[n - 1][2], g[n - 1][1] + g[n - 1][2]>>
            /\ g[n - 1] = <<g[n - 2][2], g[n - 2][1] + g[n - 2][2]>>
        BY <1>5, <4>1
      <4>3. /\ f[n] = g[n][1] /\ f[n - 1] = g[n - 1][1] /\ f[n - 2] = g[n - 2][1]
            /\ g[n - 1] \in V /\ g[n - 2] \in V
        BY <1>4, <4>1
      <4>4. /\ g[n][1] = g[n - 1][2]
            /\ g[n - 1][2] = g[n - 2][1] + g[n - 2][2]
            /\ g[n - 1][1] = g[n - 2][2]
        BY <4>2
      <4>5. f[n] = f[n - 1] + f[n - 2]
        <5> HIDE DEF f
        <5>1. g[n - 2][1] \in Nat /\ g[n - 2][2] \in Nat
          BY <4>3
        <5> QED
          BY <4>3, <4>4, <5>1
      <4> QED
        BY <4>1, <4>5
    <3> QED
      BY <3>1, <3>2, <3>3
  <2> QED
    BY <2>1
<1>7. fibonacci = [n \in Nat |->
         IF n <= 1 THEN n ELSE fibonacci[n - 1] + fibonacci[n - 2]]
  <2> HIDE DEF f
  <2> QED
    BY <1>6, Zenon DEF fibonacci
<1> DEFINE S == {n \in Nat : fibonacci[n] \in Nat /\ fibonacci[n + 1] \in Nat}
<1>8. fibonacci[0] \in Nat /\ fibonacci[0 + 1] \in Nat
  BY <1>7
<1>9. ASSUME NEW n \in Nat, fibonacci[n] \in Nat, fibonacci[n + 1] \in Nat
      PROVE  fibonacci[(n + 1) + 1] \in Nat
  <2>1. (n + 1) + 1 \in Nat /\ ~((n + 1) + 1 <= 1) /\ ((n + 1) + 1) - 1 = n + 1
        /\ ((n + 1) + 1) - 2 = n
    OBVIOUS
  <2>2. fibonacci[(n + 1) + 1] = fibonacci[n + 1] + fibonacci[n]
    BY <1>7, <2>1
  <2> QED
    BY <1>9, <2>2
<1>10. S = Nat
  <2>1. S \in SUBSET Nat /\ 0 \in S /\ \A n \in S : n + 1 \in S
    BY <1>8, <1>9
  <2> HIDE DEF S
  <2> QED
    BY <2>1, EveryNatural
<1>11. fibonacci = [n \in Nat |-> fibonacci[n]]
  BY <1>7
<1> QED
  BY <1>10, <1>11

(****************************************************************************)
(* The delays.                                                              *)
(****************************************************************************)

LEMMA QuotientType ==
    ASSUME NEW a \in Nat, NEW b \in Positive
    PROVE  a \div b \in Nat
<1>1. b \in Int /\ b > 0
  BY DEF Positive
<1> QED
  BY <1>1

LEMMA LeastType ==
    ASSUME NEW a \in Nat, NEW b \in Nat
    PROVE  /\ Least(a, b) \in Nat /\ Least(a, b) <= b
           /\ Most(a, b) \in Nat
BY DEF Least, Most

\* What a strategy calculates is a number.
LEMMA CalculatedType ==
    ASSUME RetryTypeOK, NEW n \in Positive,
           NEW counts \in [total : Nat, successful : Nat]
    PROVE  Calculated(n, counts) \subseteq Nat
<1>1. /\ n - 1 \in Nat /\ n \in Nat
      /\ BaseDelay \in Nat /\ MaxDelay \in Nat
      /\ previous \in Nat
      /\ policy.strategy \in {"exponential", "linear", "fixed", "fibonacci",
                              "adaptive", "decorrelated"}
  BY RetryAssumption DEF RetryTypeOK, Policy, Positive
<1>2. power[n - 1][2] \in Positive /\ power[n - 1][3] \in Positive
  <2>1. power[n - 1] \in [Positive -> Positive] /\ 2 \in Positive /\ 3 \in Positive
    BY <1>1, PowerType DEF Positive
  <2> QED
    BY <2>1
<1> DEFINE p == power[n - 1][2]
           q == power[n - 1][3]
<1>3. BaseDelay * p \in Nat /\ BaseDelay * q \in Nat
  <2>1. p \in Nat /\ q \in Nat
    BY <1>2 DEF Positive
  <2> HIDE DEF p, q
  <2> QED
    BY <1>1, <2>1
<1>4. CASE policy.strategy = "exponential"
  <2>1. Calculated(n, counts) = {Least(BaseDelay * p, MaxDelay)}
    BY <1>4 DEF Calculated
  <2> HIDE DEF p
  <2>2. Least(BaseDelay * p, MaxDelay) \in Nat
    BY <1>1, <1>3, LeastType
  <2> QED
    BY <2>1, <2>2
<1>5. CASE policy.strategy = "linear"
  <2>1. Calculated(n, counts) = {BaseDelay + BaseDelay * (n - 1)}
    BY <1>5 DEF Calculated
  <2>2. BaseDelay * (n - 1) \in Nat
    BY <1>1
  <2> QED
    BY <1>1, <2>1, <2>2
<1>6. CASE policy.strategy = "fixed"
  BY <1>1, <1>6 DEF Calculated
<1>7. CASE policy.strategy = "fibonacci"
  <2>1. Calculated(n, counts) = {BaseDelay * fibonacci[n]}
    BY <1>7 DEF Calculated
  <2>2. fibonacci[n] \in Nat
    BY <1>1, FibonacciType
  <2>3. BaseDelay * fibonacci[n] \in Nat
    BY <1>1, <2>2
  <2> QED
    BY <2>1, <2>3
<1>8. CASE policy.strategy = "adaptive"
  <2>1. Calculated(n, counts) = {AdaptiveDelay(n, counts)}
    BY <1>8 DEF Calculated
  <2>2. AdaptiveDelay(n, counts) \in
            {BaseDelay * p, BaseDelay * q, (BaseDelay * (n + 1)) \div 2,
             (BaseDelay * q) \div p}
    BY DEF AdaptiveDelay
  <2>3. BaseDelay * (n + 1) \in Nat /\ 2 \in Positive
    BY <1>1 DEF Positive
  <2>4. (BaseDelay * (n + 1)) \div 2 \in Nat
    BY <2>3, QuotientType
  <2>5. (BaseDelay * q) \div p \in Nat
    BY <1>2, <1>3, QuotientType
  <2> HIDE DEF p, q
  <2> QED
    BY <1>3, <2>1, <2>2, <2>4, <2>5
<1>9. CASE policy.strategy = "decorrelated"
  <2>1. Calculated(n, counts) = DecorrelatedDelays(n)
    BY <1>9 DEF Calculated
  <2>2. previous * 3 \in Nat
    BY <1>1
  <2>3. Least(previous * 3, MaxDelay) \in Nat
    BY <1>1, <2>2, LeastType
  <2> DEFINE most == Least(previous * 3, MaxDelay)
  <2> HIDE DEF most
  <2>4. /\ Least(BaseDelay, most) \in Nat /\ Most(BaseDelay, most) \in Nat
    BY <1>1, <2>3, LeastType DEF most
  <2>5. \/ DecorrelatedDelays(n) = {BaseDelay}
        \/ DecorrelatedDelays(n) = Least(BaseDelay, most) .. Most(BaseDelay, most)
    BY DEF DecorrelatedDelays, most
  <2> QED
    BY <1>1, <2>1, <2>4, <2>5
<1> QED
  BY <1>1, <1>4, <1>5, <1>6, <1>7, <1>8, <1>9

\* Jitter adds at most a quarter.
LEMMA JitteredBound ==
    ASSUME RetryTypeOK, NEW delay \in Nat, NEW d \in Jittered(delay)
    PROVE  d \in Nat /\ d <= (delay * 5) \div 4
<1>1. policy.jitter \in {"none", "full", "equal", "decorrelated", "legacy"}
  BY DEF RetryTypeOK, Policy
<1>2. delay <= (delay * 5) \div 4 /\ delay + delay \div 4 <= (delay * 5) \div 4
      /\ delay \div 4 \in Nat /\ delay \div 2 \in Nat /\ delay \div 3 \in Nat
      /\ delay - delay \div 2 \in Nat /\ delay - delay \div 4 \in Nat
      /\ delay + delay \div 4 \in Nat /\ (delay * 5) \div 4 \in Nat
  OBVIOUS
<1>3. d \in {delay} \/ d \in 0 .. delay \/ d \in (delay - delay \div 2) .. delay
      \/ d \in (delay \div 3) .. delay
      \/ d \in (delay - delay \div 4) .. (delay + delay \div 4)
  BY <1>1 DEF Jittered
<1>4. \A low, high \in Nat : high <= (delay * 5) \div 4 =>
         \A x \in low .. high : x \in Nat /\ x <= (delay * 5) \div 4
  BY <1>2
<1> QED
  BY <1>2, <1>3, <1>4

\* No delay is longer than the longest.
LEMMA DelayBound ==
    ASSUME RetryTypeOK, NEW n \in Positive, NEW base \in Nat,
           NEW d \in RetryDelays(n, base)
    PROVE  d \in Nat /\ Longest(n) \in Nat /\ d <= Longest(n)
<1>1. MaxDelay \in Nat /\ n - 1 \in Nat /\ policy.backoff \in Positive
  BY RetryAssumption DEF RetryTypeOK, Policy, Positive
<1> DEFINE p == power[n - 1][policy.backoff]
           delay == Least(base, MaxDelay)
<1>2. p \in Nat
  <2>1. power[n - 1] \in [Positive -> Positive]
    BY <1>1, PowerType
  <2> QED
    BY <1>1, <2>1 DEF Positive
<1>3. delay \in Nat /\ delay <= MaxDelay
  BY <1>1, LeastType
<1>4. PICK x \in Jittered(delay) : d = x * p
  BY DEF RetryDelays
<1>5. Longest(n) = ((MaxDelay * 5) \div 4) * p
  BY DEF Longest
<1> HIDE DEF p, delay
<1>6. x \in Nat /\ x <= (delay * 5) \div 4
  BY <1>3, <1>4, JitteredBound
<1>7. (delay * 5) \div 4 <= (MaxDelay * 5) \div 4
      /\ (delay * 5) \div 4 \in Nat /\ (MaxDelay * 5) \div 4 \in Nat
  BY <1>1, <1>3
<1> DEFINE y == (MaxDelay * 5) \div 4
<1>8. y \in Nat /\ x <= y
  BY <1>6, <1>7
<1> HIDE DEF y
<1>9. x * p \in Nat /\ y * p \in Nat /\ x * p <= y * p
  BY <1>2, <1>6, <1>8
<1> QED
  BY <1>4, <1>5, <1>9 DEF y

(****************************************************************************)
(* The window of the adaptive strategy.                                     *)
(****************************************************************************)

Successes(w) == {i \in DOMAIN w : w[i]}

LEMMA SuccessesType ==
    ASSUME NEW w \in Seq(BOOLEAN)
    PROVE  IsFiniteSet(Successes(w)) /\ Cardinality(Successes(w)) \in Nat
<1>1. IsFiniteSet(1..Len(w)) /\ Successes(w) \in SUBSET (1..Len(w))
  <2>1. Len(w) \in Nat /\ DOMAIN w = 1..Len(w)
    OBVIOUS
  <2> QED
    BY <2>1, FS_Interval DEF Successes
<1> QED
  BY <1>1, FS_Subset, FS_CardinalityType

LEMMA AppendedCount ==
    ASSUME NEW w \in Seq(BOOLEAN), NEW b \in BOOLEAN
    PROVE  /\ Append(w, b) \in Seq(BOOLEAN)
           /\ Len(Append(w, b)) = Len(w) + 1
           /\ Cardinality(Successes(Append(w, b)))
                = Cardinality(Successes(w)) + IF b THEN 1 ELSE 0
<1> DEFINE r == Append(w, b)
           n == Len(w) + 1
<1>1. /\ r \in Seq(BOOLEAN) /\ Len(r) = n /\ n \in Nat /\ r[n] = b
      /\ DOMAIN r = 1..n /\ DOMAIN w = 1..Len(w)
      /\ \A i \in 1..Len(w) : r[i] = w[i]
      /\ Len(w) \in Nat
  BY AppendProperties, LenProperties
<1> HIDE DEF r
<1>2. n \notin Successes(w)
  BY <1>1 DEF Successes
<1>3. \A i : i \in 1..n <=> i \in 1..Len(w) \/ i = n
  BY <1>1
<1>4. CASE b
  <2>1. Successes(r) = Successes(w) \cup {n}
    <3>1. \A i : i \in Successes(r) <=> i \in Successes(w) \/ i = n
      <4>1. \A i \in 1..Len(w) : r[i] <=> w[i]
        BY <1>1
      <4>2. r[n] <=> TRUE
        BY <1>1, <1>4
      <4>3. \A i : i \in Successes(r) <=> i \in 1..n /\ r[i]
        BY <1>1, Zenon DEF Successes
      <4>4. \A i : i \in Successes(w) <=> i \in 1..Len(w) /\ w[i]
        BY <1>1, Zenon DEF Successes
      <4> HIDE DEF n
      <4> QED
        BY <1>3, <4>1, <4>2, <4>3, <4>4, Zenon
    <3> QED
      BY <3>1
  <2>2. Cardinality(Successes(r)) = Cardinality(Successes(w)) + 1
    BY <1>2, <2>1, SuccessesType, FS_AddElement
  <2> QED
    BY <1>1, <1>4, <2>2 DEF r
<1>5. CASE ~b
  <2>1. Successes(r) = Successes(w)
    <3>1. \A i : i \in Successes(r) <=> i \in Successes(w)
      <4>1. \A i \in 1..Len(w) : r[i] <=> w[i]
        BY <1>1
      <4>2. ~r[n]
        BY <1>1, <1>5
      <4>3. \A i : i \in Successes(r) <=> i \in 1..n /\ r[i]
        BY <1>1, Zenon DEF Successes
      <4>4. \A i : i \in Successes(w) <=> i \in 1..Len(w) /\ w[i]
        BY <1>1, Zenon DEF Successes
      <4> HIDE DEF n
      <4> QED
        BY <1>3, <4>1, <4>2, <4>3, <4>4, Zenon
    <3> QED
      BY <3>1
  <2>2. Cardinality(Successes(w)) \in Nat
    BY SuccessesType
  <2> QED
    BY <1>1, <1>5, <2>1, <2>2 DEF r
<1> QED
  BY <1>4, <1>5

LEMMA TailCount ==
    ASSUME NEW w \in Seq(BOOLEAN), Len(w) > 0
    PROVE  /\ Tail(w) \in Seq(BOOLEAN)
           /\ Len(Tail(w)) = Len(w) - 1
           /\ Head(w) = w[1]
           /\ Cardinality(Successes(Tail(w)))
                = Cardinality(Successes(w)) - IF Head(w) THEN 1 ELSE 0
<1> DEFINE r == Tail(w)
           n == Len(w)
           later == Successes(w) \ {1}
<1>1. /\ r \in Seq(BOOLEAN) /\ Len(r) = n - 1 /\ n \in Nat /\ n - 1 \in Nat
      /\ DOMAIN r = 1..(n - 1) /\ DOMAIN w = 1..n /\ Head(w) = w[1]
      /\ \A i \in 1..(n - 1) : r[i] = w[i + 1]
  BY HeadTailProperties, LenProperties
<1> HIDE DEF r
<1>2. \A i : i \in Successes(r) <=> i \in 1..(n - 1) /\ r[i]
  BY <1>1, Zenon DEF Successes
<1>3. \A i : i \in Successes(w) <=> i \in 1..n /\ w[i]
  BY <1>1, Zenon DEF Successes
<1> DEFINE f == [i \in Successes(r) |-> i + 1]
<1>4. f \in Bijection(Successes(r), later)
  <2>1. \A i \in Successes(r) : i \in 1..(n - 1) /\ i + 1 \in later
    <3> TAKE i \in Successes(r)
    <3>1. i \in 1..(n - 1) /\ i + 1 \in 1..n /\ i + 1 # 1
      BY <1>1, <1>2
    <3>2. r[i] /\ r[i] = w[i + 1]
      BY <1>1, <1>2, <3>1
    <3>3. w[i + 1]
      BY <3>2, Zenon
    <3>4. i + 1 \in Successes(w)
      BY <1>3, <3>1, <3>3, Zenon
    <3> QED
      BY <3>1, <3>4
  <2>2. \A j \in later : j - 1 \in Successes(r) /\ (j - 1) + 1 = j
    <3> TAKE j \in later
    <3>1. j \in 1..n /\ j # 1 /\ w[j]
      BY <1>3, Zenon
    <3>2. j - 1 \in 1..(n - 1) /\ (j - 1) + 1 = j
      BY <1>1, <3>1
    <3>3. r[j - 1] = w[j]
      BY <1>1, <3>2
    <3>4. r[j - 1]
      BY <3>1, <3>3, Zenon
    <3>5. j - 1 \in Successes(r)
      BY <1>2, <3>2, <3>4, Zenon
    <3> QED
      BY <3>2, <3>5
  <2>3. \A i, j \in Successes(r) : f[i] = f[j] => i = j
    BY <2>1
  <2>4. f \in [Successes(r) -> later]
    BY <2>1
  <2>5. \A j \in later : \E i \in Successes(r) : f[i] = j
    BY <2>2
  <2> QED
    BY <2>3, <2>4, <2>5 DEF Bijection, Injection, Surjection, IsInjective
<1>5. IsFiniteSet(Successes(r)) /\ IsFiniteSet(Successes(w))
  BY <1>1, SuccessesType
<1>6. Cardinality(Successes(r)) = Cardinality(later)
  <2> HIDE DEF f, later
  <2>1. ExistsBijection(Successes(r), later)
    BY <1>4 DEF ExistsBijection
  <2> QED
    BY <1>5, <2>1, FS_Bijection
<1>7. CASE w[1]
  <2>1. 1 \in Successes(w)
    <3>1. 1 \in 1..n
      OBVIOUS
    <3> QED
      BY <1>3, <1>7, <3>1, Zenon
  <2>2. Cardinality(later) = Cardinality(Successes(w)) - 1
    BY <1>5, <2>1, FS_RemoveElement
  <2>3. (IF Head(w) THEN 1 ELSE 0) = 1
    BY <1>1, <1>7
  <2> QED
    BY <1>1, <1>6, <2>2, <2>3 DEF r
<1>8. CASE ~w[1]
  <2>1. later = Successes(w)
    BY <1>3, <1>8, Zenon
  <2>2. (IF Head(w) THEN 1 ELSE 0) = 0
    BY <1>1, <1>8
  <2>3. Cardinality(Successes(w)) \in Nat
    BY SuccessesType
  <2>4. Cardinality(Successes(r)) = Cardinality(Successes(w)) - 0
    <3>1. Cardinality(Successes(r)) = Cardinality(Successes(w))
      BY <1>6, <2>1
    <3> QED
      BY <2>3, <3>1
  <2> QED
    BY <1>1, <2>2, <2>4 DEF r
<1> QED
  BY <1>7, <1>8

\* The part of the invariant that is about the window alone.
WindowCounted ==
    /\ window \in Seq(BOOLEAN)
    /\ counted \in [total : Nat, successful : Nat]
    /\ counted.total = Len(window)
    /\ counted.total <= Window
    /\ counted.successful = Cardinality(Successes(window))

LEMMA RecordKeeps ==
    ASSUME WindowCounted, NEW success \in BOOLEAN, RecordAttempt(success)
    PROVE  WindowCounted'
<1> DEFINE recorded == Append(window, success)
           full == Len(recorded) > Window
           ok == Cardinality(Successes(window))
           more == IF success THEN 1 ELSE 0
           less == IF full /\ Head(recorded) THEN 1 ELSE 0
<1>1. CASE policy.strategy = "adaptive"
  <2>1. /\ window' = IF full THEN Tail(recorded) ELSE recorded
        /\ counted' = [total |-> counted.total + 1 - (IF full THEN 1 ELSE 0),
                       successful |-> counted.successful + more - less]
    BY <1>1 DEF RecordAttempt
  <2>2. /\ recorded \in Seq(BOOLEAN) /\ Len(recorded) = Len(window) + 1
        /\ Cardinality(Successes(recorded)) = ok + more
        /\ more \in {0, 1} /\ less \in {0, 1}
        /\ ok \in Nat /\ Cardinality(Successes(recorded)) \in Nat
        /\ Len(window) \in Nat /\ Len(window) <= Window /\ Window \in Nat
        /\ Len(recorded) \in Nat
        /\ counted.total = Len(window) /\ counted.successful = ok
    <3>1. /\ recorded \in Seq(BOOLEAN) /\ Len(recorded) = Len(window) + 1
          /\ Cardinality(Successes(recorded)) = ok + more
      BY AppendedCount DEF WindowCounted
    <3> HIDE DEF recorded
    <3>2. ok \in Nat /\ Cardinality(Successes(recorded)) \in Nat
      BY <3>1, SuccessesType DEF WindowCounted
    <3>3. Len(window) \in Nat /\ Len(recorded) \in Nat
      BY <3>1 DEF WindowCounted
    <3> QED
      BY <3>1, <3>2, <3>3, RetryAssumption DEF WindowCounted
  <2> HIDE DEF recorded
  <2>3. CASE full
    <3>1. /\ Tail(recorded) \in Seq(BOOLEAN)
          /\ Len(Tail(recorded)) = Len(recorded) - 1
          /\ Cardinality(Successes(Tail(recorded)))
                = Cardinality(Successes(recorded)) - IF Head(recorded) THEN 1 ELSE 0
      <4>1. Len(recorded) > 0
        <5>1. Len(window) \in Nat /\ Len(recorded) = Len(window) + 1
          BY <2>2
        <5> QED
          BY <5>1
      <4> QED
        BY <2>2, <4>1, TailCount
    <3>2. (IF Head(recorded) THEN 1 ELSE 0) = less
      BY <2>3, Zenon
    <3>3. window' = Tail(recorded)
      BY <2>1, <2>3
    <3>4. counted' = [total |-> counted.total + 1 - 1,
                      successful |-> counted.successful + more - less]
      BY <2>1, <2>3
    <3>5. Cardinality(Successes(window')) = ok + more - less
      <4>1. Cardinality(Successes(window')) = Cardinality(Successes(recorded)) - less
        <5> HIDE DEF less
        <5> QED
          BY <3>1, <3>2, <3>3
      <4> HIDE DEF more, less, ok, full
      <4> QED
        BY <2>2, <4>1
    <3> HIDE DEF more, less, ok, full
    <3>6. Cardinality(Successes(window')) \in Nat
      BY <3>1, <3>3, SuccessesType
    <3>7. /\ counted'.total = Len(window)
          /\ counted'.successful = Cardinality(Successes(window'))
          /\ Len(window') = Len(window)
      <4>1. counted.total + 1 - 1 = Len(window) /\ Len(recorded) - 1 = Len(window)
        BY <2>2
      <4> QED
        BY <2>2, <3>1, <3>3, <3>4, <3>5, <4>1
    <3>8. counted' \in [total : Nat, successful : Nat]
      BY <2>2, <3>4, <3>5, <3>6
    <3> QED
      BY <2>2, <3>1, <3>3, <3>7, <3>8, RetryAssumption DEF WindowCounted, Successes
  <2>4. CASE ~full
    <3>1. window' = recorded /\ less = 0
      BY <2>1, <2>4
    <3>2. counted' = [total |-> counted.total + 1 - 0,
                      successful |-> counted.successful + more - less]
      BY <2>1, <2>4
    <3>3. Len(recorded) <= Window
      <4>1. ~(Len(recorded) > Window)
        BY <2>4
      <4> HIDE DEF more, less, ok, full
      <4> QED
        BY <2>2, <4>1
    <3> HIDE DEF more, less, ok, full
    <3>4. /\ counted'.total = Len(window')
          /\ counted'.successful = Cardinality(Successes(window'))
      BY <2>2, <3>1, <3>2
    <3>5. counted' \in [total : Nat, successful : Nat]
      BY <2>2, <3>1, <3>2
    <3> QED
      BY <2>2, <3>1, <3>3, <3>4, <3>5, RetryAssumption DEF WindowCounted, Successes
  <2> QED
    BY <2>3, <2>4
<1>2. CASE policy.strategy # "adaptive"
  <2>1. window' = window /\ counted' = counted
    BY <1>2 DEF RecordAttempt
  <2> QED
    BY <2>1 DEF WindowCounted, Successes
<1> QED
  BY <1>1, <1>2

\* What the invariant says of one call, at time n under policy p.
CallBounded(call, n) ==
    /\ call \in Retrying
    /\ call.begun <= n
    /\ call.pc # "idle" => call.attempt > 0
    /\ call.attempt <= policy.max_attempts
    /\ call.pc = "sleeping" =>
          /\ call.attempt < policy.max_attempts
          /\ policy.timeout # 0 =>
                call.until < call.begun + policy.timeout + Longest(call.attempt)

FuseTells == fuse \in Fuse /\ (fuse.state = "closed" <=> fuse.failures < RetryThreshold)

\* The inductive invariant.
RetryInv ==
    /\ now \in Nat /\ policy \in Policy /\ previous \in Nat
    /\ WindowCounted
    /\ FuseTells
    /\ retrying \in [Task -> Retrying]
    /\ \A t \in Task : CallBounded(retrying[t], now)

LEMMA RetryInvCorrect == RetryInv => RetryCorrect
<1> SUFFICES ASSUME RetryInv
             PROVE  RetryCorrect
  OBVIOUS
<1>1. RetryTypeOK
  BY Zenon DEF RetryInv, RetryTypeOK, WindowCounted, FuseTells
<1>2. RetryBounded
  BY Zenon DEF RetryInv, RetryBounded, CallBounded
<1>3. RetryStatistics
  BY Zenon DEF RetryInv, RetryStatistics, WindowCounted, FuseTells, Successes
<1> QED
  BY <1>1, <1>2, <1>3 DEF RetryCorrect

LEMMA RetryInvInit == now = 0 /\ RetryInit => RetryInv
<1> SUFFICES ASSUME now = 0, RetryInit
             PROVE  RetryInv
  OBVIOUS
<1>1. /\ now \in Nat /\ policy \in Policy /\ previous \in Nat
  BY RetryAssumption, PoliciesAssumption DEF RetryInit
<1>2. WindowCounted
  <2>1. window = <<>> /\ counted = [total |-> 0, successful |-> 0]
    BY DEF RetryInit, NoAttempts
  <2>2. Successes(window) = {} /\ window \in Seq(BOOLEAN) /\ Len(window) = 0
    BY <2>1 DEF Successes
  <2>3. Cardinality(Successes(window)) = 0
    BY <2>2, FS_EmptySet
  <2> QED
    BY <2>1, <2>2, <2>3, RetryAssumption DEF WindowCounted
<1>3. FuseTells
  BY RetryAssumption DEF RetryInit, FuseTells, ClosedFuse, Fuse
<1>4. \A t \in Task : retrying[t] \in Retrying /\ CallBounded(retrying[t], now)
  <2> TAKE t \in Task
  <2>1. policy.max_attempts \in Nat
    BY <1>1 DEF Policy
  <2> QED
    BY <2>1 DEF RetryInit, Retrying, CallBounded
<1>5. retrying \in [Task -> Retrying]
  BY <1>4 DEF RetryInit
<1> QED
  BY <1>1, <1>2, <1>3, <1>4, <1>5 DEF RetryInv

\* A call changes, the others do not.
LEMMA RetryGoesOn ==
    ASSUME RetryInv, NEW t \in Task, NEW call,
           retrying' = [retrying EXCEPT ![t] = call],
           CallBounded(call, now), UNCHANGED <<now, policy>>
    PROVE  /\ retrying' \in [Task -> Retrying]
           /\ \A u \in Task : CallBounded(retrying[u], now)'
<1>1. /\ retrying \in [Task -> Retrying]
      /\ \A u \in Task : CallBounded(retrying[u], now)
  BY DEF RetryInv
<1>2. call \in Retrying
  BY DEF CallBounded
<1>3. retrying' \in [Task -> Retrying]
  BY <1>1, <1>2
<1>4. \A u \in Task : CallBounded(retrying'[u], now)
  BY <1>1
<1>5. \A u \in Task : CallBounded(retrying[u], now)'
  BY <1>4, Zenon DEF CallBounded, Longest
<1> QED
  BY <1>3, <1>5

LEMMA FuseChecks ==
    ASSUME FuseTells, fuse' = FuseChecked \/ fuse' = fuse
    PROVE  FuseTells'
<1>1. \/ fuse' = [fuse EXCEPT !.state = "half_open"] /\ fuse.state = "open"
      \/ fuse' = fuse
  BY DEF FuseChecked
<1> QED
  BY <1>1 DEF FuseTells, Fuse

\* The loop of a call.
LEMMA RetryCallStep ==
    ASSUME RetryInv, NEW t \in Task,
           \/ RetryBegin(t)
           \/ RetryReturns(t)
           \/ \E e \in Exceptions : RetryRaises(t, e)
           \/ RetryWakes(t)
           \/ RetryCancelled(t)
    PROVE  RetryInv'
<1> DEFINE call == retrying[t]
<1>1. /\ now \in Nat /\ policy \in Policy /\ previous \in Nat
      /\ WindowCounted /\ FuseTells
      /\ retrying \in [Task -> Retrying]
      /\ CallBounded(call, now)
      /\ RetryTypeOK
  BY RetryInvCorrect DEF RetryInv, RetryCorrect
<1>2. /\ call \in Retrying /\ call.begun \in Nat /\ call.attempt \in Nat
      /\ call.until \in Nat
      /\ call.begun <= now /\ call.attempt <= policy.max_attempts
      /\ call.pc # "idle" => call.attempt > 0
      /\ policy.max_attempts \in Nat /\ policy.max_attempts > 0 /\ policy.timeout \in Nat
  BY <1>1 DEF CallBounded, Retrying, Policy
<1>3. ASSUME NEW c, retrying' = [retrying EXCEPT ![t] = c], CallBounded(c, now),
             UNCHANGED <<now, policy>>, previous' \in Nat, WindowCounted', FuseTells'
      PROVE  RetryInv'
  <2>1. /\ retrying' \in [Task -> Retrying]
        /\ \A u \in Task : CallBounded(retrying[u], now)'
    BY <1>3, RetryGoesOn
  <2> QED
    BY <1>1, <1>3, <2>1 DEF RetryInv
<1>4. ASSUME UNCHANGED <<window, counted, fuse>>
      PROVE  WindowCounted' /\ FuseTells'
  BY <1>1, <1>4 DEF WindowCounted, FuseTells, Successes
<1>5. CASE RetryBegin(t)
  <2> DEFINE c == [pc |-> "running", begun |-> now, attempt |-> 1, until |-> 0,
                   ended |-> "none"]
  <2>1. retrying' = [retrying EXCEPT ![t] = c]
    BY <1>5 DEF RetryBegin
  <2>2. CallBounded(c, now)
    BY <1>1, <1>2 DEF CallBounded, Retrying
  <2>3. UNCHANGED <<now, policy, window, counted, previous, fuse>>
    BY <1>5 DEF RetryBegin
  <2> HIDE DEF c
  <2> QED
    BY <1>1, <1>3, <1>4, <2>1, <2>2, <2>3
<1>6. CASE RetryReturns(t)
  <2> DEFINE c == [call EXCEPT !.pc = "idle", !.ended = "returned"]
  <2>1. retrying' = [retrying EXCEPT ![t] = c]
    BY <1>1, <1>6 DEF RetryReturns
  <2>2. CallBounded(c, now)
    BY <1>1, <1>2 DEF CallBounded, Retrying
  <2>3. UNCHANGED <<now, policy, previous, fuse>> /\ RecordAttempt(TRUE)
    BY <1>6 DEF RetryReturns
  <2>4. WindowCounted'
    BY <1>1, <2>3, RecordKeeps
  <2>5. FuseTells'
    BY <1>1, <2>3 DEF FuseTells
  <2> HIDE DEF c
  <2> QED
    BY <1>1, <1>3, <2>1, <2>2, <2>3, <2>4, <2>5
<1>7. ASSUME NEW e \in Exceptions, RetryRaises(t, e)
      PROVE  RetryInv'
  <2>1. /\ call.pc = "running" /\ RecordAttempt(FALSE)
        /\ UNCHANGED <<now, policy>>
        /\ fuse' = FuseChecked \/ fuse' = fuse
        /\ Retries(t, e) \/ GivesUp(t, e)
    BY <1>7 DEF RetryRaises
  <2>2. WindowCounted'
    BY <1>1, <2>1, RecordKeeps
  <2>3. FuseTells'
    BY <1>1, <2>1, FuseChecks
  <2>4. CASE GivesUp(t, e)
    <3> DEFINE late == policy.timeout # 0 /\ now - call.begun >= policy.timeout
               c == [call EXCEPT !.pc = "idle",
                                 !.ended = IF late THEN "timeout" ELSE "max_retries"]
    <3>1. retrying' = [retrying EXCEPT ![t] = c] /\ previous' = previous
      BY <2>4 DEF GivesUp
    <3> HIDE DEF late
    <3>2. CallBounded(c, now)
      BY <1>1, <1>2 DEF CallBounded, Retrying
    <3> HIDE DEF c
    <3> QED
      BY <1>1, <1>3, <2>1, <2>2, <2>3, <3>1, <3>2
  <2>5. CASE Retries(t, e)
    <3>1. /\ call.attempt \in Positive /\ call.attempt < policy.max_attempts
          /\ policy.timeout # 0 => now - call.begun < policy.timeout
      <4>1. ShouldRetry(t, e)
        BY <2>5, Zenon DEF Retries
      <4>2. /\ policy.timeout = 0 \/ now - call.begun < policy.timeout
            /\ WithinAttempts(call.attempt)
        BY <4>1, Zenon DEF ShouldRetry
      <4> QED
        BY <1>2, <2>1, <4>2 DEF WithinAttempts, Positive
    <3>2. PICK base \in Calculated(call.attempt, counted') :
             /\ previous' = IF policy.strategy = "decorrelated"
                            THEN base ELSE previous
             /\ \E d \in RetryDelays(call.attempt, base) :
                   retrying' = [retrying EXCEPT ![t] =
                       IF d > 0
                       THEN [call EXCEPT !.pc = "sleeping", !.until = now + d]
                       ELSE [call EXCEPT !.attempt = @ + 1]]
      BY <2>5 DEF Retries
    <3>3. base \in Nat
      <4>1. counted' \in [total : Nat, successful : Nat]
        BY <2>2 DEF WindowCounted
      <4>2. Calculated(call.attempt, counted') \subseteq Nat
        BY <1>1, <3>1, <4>1, CalculatedType
      <4> QED
        BY <4>2
    <3>4. previous' \in Nat
      BY <1>1, <3>2, <3>3
    <3>5. PICK d \in RetryDelays(call.attempt, base) :
             retrying' = [retrying EXCEPT ![t] =
                       IF d > 0
                       THEN [call EXCEPT !.pc = "sleeping", !.until = now + d]
                       ELSE [call EXCEPT !.attempt = @ + 1]]
      BY <3>2
    <3>6. d \in Nat /\ Longest(call.attempt) \in Nat /\ d <= Longest(call.attempt)
      BY <1>1, <3>1, <3>3, DelayBound
    <3>7. CASE d > 0
      <4> DEFINE c == [call EXCEPT !.pc = "sleeping", !.until = now + d]
      <4>1. retrying' = [retrying EXCEPT ![t] = c]
        BY <3>5, <3>7
      <4>2. /\ c \in Retrying /\ c.begun = call.begun /\ c.attempt = call.attempt
            /\ c.pc = "sleeping" /\ c.until = now + d
        <5>1. now + d \in Nat
          BY <1>1, <3>6
        <5> DEFINE u == now + d
        <5> HIDE DEF u
        <5>2. /\ [call EXCEPT !.pc = "sleeping", !.until = u] \in Retrying
              /\ [call EXCEPT !.pc = "sleeping", !.until = u].begun = call.begun
              /\ [call EXCEPT !.pc = "sleeping", !.until = u].attempt = call.attempt
              /\ [call EXCEPT !.pc = "sleeping", !.until = u].pc = "sleeping"
              /\ [call EXCEPT !.pc = "sleeping", !.until = u].until = u
          <6>1. u \in Nat
            BY <5>1 DEF u
          <6> HIDE DEF call
          <6> QED
            BY <1>2, <6>1 DEF Retrying
        <5> QED
          BY <5>2 DEF u
      <4>3. policy.timeout # 0 =>
               now + d < call.begun + policy.timeout + Longest(call.attempt)
        BY <1>1, <1>2, <3>1, <3>6
      <4> HIDE DEF c
      <4>4. CallBounded(c, now)
        BY <1>2, <3>1, <4>2, <4>3 DEF CallBounded, Positive
      <4> QED
        BY <1>3, <2>1, <2>2, <2>3, <3>4, <4>1, <4>4
    <3>8. CASE ~(d > 0)
      <4> DEFINE c == [call EXCEPT !.attempt = @ + 1]
      <4>1. retrying' = [retrying EXCEPT ![t] = c]
        BY <3>5, <3>8
      <4>2. /\ c \in Retrying /\ c.begun = call.begun /\ c.attempt = call.attempt + 1
            /\ c.pc = "running"
        BY <1>1, <1>2, <2>1 DEF Retrying
      <4> HIDE DEF c
      <4>3. CallBounded(c, now)
        BY <1>2, <3>1, <4>2 DEF CallBounded
      <4> QED
        BY <1>3, <2>1, <2>2, <2>3, <3>4, <4>1, <4>3
    <3> QED
      BY <3>7, <3>8
  <2> QED
    BY <2>1, <2>4, <2>5
<1>8. CASE RetryWakes(t)
  <2> DEFINE c == [call EXCEPT !.pc = "running", !.attempt = @ + 1, !.until = 0]
  <2>1. retrying' = [retrying EXCEPT ![t] = c] /\ call.pc = "sleeping"
    BY <1>1, <1>8 DEF RetryWakes
  <2>2. call.attempt < policy.max_attempts
    BY <1>1, <2>1 DEF CallBounded
  <2>3. CallBounded(c, now)
    <3>1. /\ c \in Retrying /\ c.begun = call.begun /\ c.attempt = call.attempt + 1
          /\ c.pc = "running"
      <4> DEFINE a == call.attempt + 1
      <4>1. a \in Nat
        BY <1>2
      <4>2. c = [call EXCEPT !.pc = "running", !.attempt = a, !.until = 0]
        OBVIOUS
      <4> HIDE DEF a, c, call
      <4>3. c \in Retrying /\ c.begun = call.begun /\ c.attempt = a /\ c.pc = "running"
        BY <1>2, <4>1, <4>2 DEF Retrying
      <4> QED
        BY <4>3 DEF a
    <3> HIDE DEF c
    <3> QED
      BY <1>2, <2>2, <3>1 DEF CallBounded
  <2>4. UNCHANGED <<now, policy, window, counted, previous, fuse>>
    BY <1>8 DEF RetryWakes
  <2> HIDE DEF c
  <2> QED
    BY <1>1, <1>3, <1>4, <2>1, <2>3, <2>4
<1>9. CASE RetryCancelled(t)
  <2> DEFINE c == [call EXCEPT !.pc = "idle", !.until = 0]
  <2>1. retrying' = [retrying EXCEPT ![t] = c]
    BY <1>1, <1>9 DEF RetryCancelled
  <2>2. CallBounded(c, now)
    BY <1>1, <1>2 DEF CallBounded, Retrying
  <2>3. UNCHANGED <<now, policy, window, counted, previous, fuse>>
    BY <1>9 DEF RetryCancelled
  <2> HIDE DEF c
  <2> QED
    BY <1>1, <1>3, <1>4, <2>1, <2>2, <2>3
<1> QED
  BY <1>5, <1>6, <1>7, <1>8, <1>9

LEMMA RetryStep == RetryInv /\ [RetryNext]_<<now, retryVars>> => RetryInv'
<1> SUFFICES ASSUME RetryInv, [RetryNext]_<<now, retryVars>>
             PROVE  RetryInv'
  OBVIOUS
<1>1. /\ now \in Nat /\ policy \in Policy /\ previous \in Nat
      /\ WindowCounted /\ FuseTells
      /\ retrying \in [Task -> Retrying]
      /\ \A u \in Task : CallBounded(retrying[u], now)
  BY DEF RetryInv
\* What leaves policy, calls and previous delay alone.
<1>2. ASSUME UNCHANGED <<policy, previous, retrying>>, now' = now \/ now' = now + 1,
             WindowCounted', FuseTells'
      PROVE  RetryInv'
  <2>1. now' \in Nat /\ now <= now'
    BY <1>1, <1>2
  <2>2. \A u \in Task : CallBounded(retrying[u], now)'
    <3>1. \A u \in Task : CallBounded(retrying[u], now')
      <4> TAKE u \in Task
      <4>1. CallBounded(retrying[u], now) /\ retrying[u].begun \in Nat
        BY <1>1 DEF CallBounded, Retrying
      <4>2. retrying[u].begun <= now'
        BY <1>1, <2>1, <4>1 DEF CallBounded
      <4> QED
        BY <4>1, <4>2, Zenon DEF CallBounded
    <3> QED
      BY <1>2, <3>1, Zenon DEF CallBounded, Longest
  <2> QED
    BY <1>1, <1>2, <2>1, <2>2 DEF RetryInv
<1>3. ASSUME UNCHANGED <<window, counted>>
      PROVE  WindowCounted'
  BY <1>1, <1>3 DEF WindowCounted, Successes
<1>4. ASSUME UNCHANGED fuse
      PROVE  FuseTells'
  BY <1>1, <1>4 DEF FuseTells
<1>5. CASE PolicySuccess
  <2>1. FuseTells'
    <3>1. /\ fuse \in Fuse /\ fuse.failures \in Nat /\ RetryThreshold \in Nat \ {0}
          /\ fuse.state = "closed" <=> fuse.failures < RetryThreshold
      BY <1>1, RetryAssumption DEF FuseTells, Fuse
    <3>2. Most(fuse.failures, 1) - 1 \in Nat
          /\ Most(fuse.failures, 1) - 1 <= fuse.failures
      BY <3>1 DEF Most
    <3> DEFINE n == Most(fuse.failures, 1) - 1
    <3> HIDE DEF n
    <3>3. \/ fuse' = [fuse EXCEPT !.state = "closed", !.failures = 0]
          \/ fuse.state = "closed" /\ fuse' = [fuse EXCEPT !.failures = n]
          \/ fuse' = fuse
      BY <1>5 DEF PolicySuccess, n
    <3>4. n \in Nat /\ n <= fuse.failures
      BY <3>2 DEF n
    <3>5. CASE fuse' = [fuse EXCEPT !.state = "closed", !.failures = 0]
      <4>1. fuse' \in Fuse /\ fuse'.state = "closed" /\ fuse'.failures = 0
        BY <3>1, <3>5 DEF Fuse
      <4> QED
        BY <3>1, <4>1 DEF FuseTells
    <3>6. CASE fuse.state = "closed" /\ fuse' = [fuse EXCEPT !.failures = n]
      <4>1. fuse' \in Fuse /\ fuse'.state = "closed" /\ fuse'.failures = n
        BY <3>1, <3>4, <3>6 DEF Fuse
      <4> QED
        BY <3>1, <3>4, <3>6, <4>1 DEF FuseTells
    <3> QED
      BY <1>1, <3>3, <3>5, <3>6 DEF FuseTells
  <2> QED
    BY <1>2, <1>3, <1>5, <2>1 DEF PolicySuccess
<1>6. CASE PolicyFailure
  <2>1. FuseTells'
    <3>1. /\ fuse \in Fuse /\ fuse.failures \in Nat /\ RetryThreshold \in Nat \ {0}
          /\ fuse.state = "closed" <=> fuse.failures < RetryThreshold
          /\ fuse.state \in {"closed", "open", "half_open"}
      BY <1>1, RetryAssumption DEF FuseTells, Fuse
    <3> DEFINE s == IF \/ fuse.state = "half_open"
                       \/ fuse.failures + 1 >= RetryThreshold
                    THEN "open" ELSE fuse.state
    <3>2. fuse' = [fuse EXCEPT !.failures = fuse.failures + 1, !.last = now, !.state = s]
      BY <1>6 DEF PolicyFailure, Tripped
    <3>3. /\ s \in {"closed", "open", "half_open"}
          /\ s = "closed" <=> fuse.failures + 1 < RetryThreshold
      BY <3>1
    <3> HIDE DEF s
    <3> DEFINE k == fuse.failures + 1
    <3>4. k \in Nat /\ fuse' = [fuse EXCEPT !.failures = k, !.last = now, !.state = s]
      BY <3>1, <3>2
    <3> HIDE DEF k
    <3>5. /\ fuse' \in Fuse /\ fuse'.state = s /\ fuse'.failures = k
      BY <1>1, <3>1, <3>3, <3>4 DEF Fuse
    <3> QED
      BY <3>3, <3>5 DEF FuseTells, k
  <2> QED
    BY <1>2, <1>3, <1>6, <2>1 DEF PolicyFailure
<1>7. CASE ResetStatistics
  <2>1. window' = <<>> /\ counted' = [total |-> 0, successful |-> 0]
    BY <1>7 DEF ResetStatistics, NoAttempts
  <2>2. Successes(window') = {} /\ window' \in Seq(BOOLEAN) /\ Len(window') = 0
    BY <2>1 DEF Successes
  <2>3. Cardinality(Successes(window')) = 0
    BY <2>2, FS_EmptySet
  <2>4. WindowCounted'
    BY <2>1, <2>2, <2>3, RetryAssumption DEF WindowCounted, Successes
  <2> QED
    BY <1>2, <1>4, <1>7, <2>4 DEF ResetStatistics
<1>8. CASE Later(RetryHorizon) /\ UNCHANGED retryVars
  BY <1>2, <1>3, <1>4, <1>8 DEF Later, retryVars
<1>9. CASE UNCHANGED <<now, retryVars>>
  BY <1>2, <1>3, <1>4, <1>9 DEF retryVars
<1> QED
  BY <1>5, <1>6, <1>7, <1>8, <1>9, RetryCallStep DEF RetryNext

\* However tasks that share a policy interleave their calls: no call makes
\* more attempts than max_attempts or sleeps for longer than the longest delay
\* past its timeout, the counters of the adaptive strategy are those of its
\* window, and the count of failures tells the state of the breaker policy.
THEOREM RetrySafe == RetrySpec => []RetryCorrect
BY RetryInvCorrect, RetryInvInit, RetryStep, PTL DEF RetrySpec

(****************************************************************************)
(* Tasks that are at a place.                                               *)
(****************************************************************************)

\* A task that leaves a set of tasks, or is not in it.
LEMMA TaskLeaves ==
    ASSUME NEW S \in SUBSET Task, NEW T \in SUBSET Task, NEW t \in Task,
           T \subseteq S \ {t}
    PROVE  /\ Cardinality(S) \in Nat /\ Cardinality(T) \in Nat
           /\ Cardinality(T) <= Cardinality(S)
           /\ t \in S => Cardinality(T) + 1 <= Cardinality(S)
<1>1. IsFiniteSet(S) /\ IsFiniteSet(S \ {t}) /\ IsFiniteSet(T)
  BY TaskAssumption, FS_Subset
<1>2. /\ Cardinality(S) \in Nat /\ Cardinality(S \ {t}) \in Nat /\ Cardinality(T) \in Nat
      /\ Cardinality(T) <= Cardinality(S \ {t})
      /\ Cardinality(S \ {t}) <= Cardinality(S)
  BY <1>1, FS_CardinalityType, FS_Subset
<1>3. t \in S => Cardinality(S \ {t}) = Cardinality(S) - 1
  BY <1>1, FS_RemoveElement
<1> QED
  BY <1>2, <1>3

\* A task that comes to a set of tasks.
LEMMA TaskComes ==
    ASSUME NEW S \in SUBSET Task, NEW T \in SUBSET Task, NEW t \in Task,
           T \subseteq S \cup {t}
    PROVE  /\ Cardinality(S) \in Nat /\ Cardinality(T) \in Nat
           /\ Cardinality(T) <= Cardinality(S) + 1
<1>1. IsFiniteSet(S) /\ IsFiniteSet(S \cup {t}) /\ IsFiniteSet(T)
  BY TaskAssumption, FS_Subset
<1>2. /\ Cardinality(S) \in Nat /\ Cardinality(S \cup {t}) \in Nat /\ Cardinality(T) \in Nat
      /\ Cardinality(T) <= Cardinality(S \cup {t})
  BY <1>1, FS_CardinalityType, FS_Subset
<1>3. Cardinality(S \cup {t}) <= Cardinality(S) + 1
  BY <1>1, <1>2, FS_AddElement
<1> QED
  BY <1>2, <1>3

LEMMA TasksFewer ==
    ASSUME NEW S \in SUBSET Task, NEW T \in SUBSET S
    PROVE  /\ Cardinality(S) \in Nat /\ Cardinality(T) \in Nat
           /\ Cardinality(T) <= Cardinality(S) /\ Cardinality(S) <= Cardinality(Task)
           /\ Cardinality(Task) \in Nat
<1>1. IsFiniteSet(Task) /\ IsFiniteSet(S) /\ IsFiniteSet(T)
  BY TaskAssumption, FS_Subset
<1> QED
  BY <1>1, FS_CardinalityType, FS_Subset

LEMMA NoTasks == Cardinality({}) = 0
BY FS_EmptySet

LEMMA NotCallingType == NotCalling \in Calling /\ NotCalling.pc = "idle" /\ NotCalling.began = 0
<1>1. (CHOOSE k \in FunctionKey : TRUE) \in FunctionKey
  BY CallAssumption
<1> QED
  BY <1>1 DEF NotCalling, Calling

\* What a call's next place leaves of it.
LEMMA GoesTo ==
    ASSUME callers \in [Task -> Calling], NEW t \in Task,
           NEW pc \in {"idle", "looking", "owning", "waiting", "direct", "storing",
                       "refused", "stale", "extending"},
           CallGoes(t, pc)
    PROVE  /\ callers' \in [Task -> Calling]
           /\ callers'[t].pc = pc
           /\ pc # "idle" => /\ callers'[t].key = callers[t].key
                             /\ callers'[t].promise = callers[t].promise
           /\ callers'[t].began \in {0, callers[t].began}
           /\ \A u \in Task \ {t} : callers'[u] = callers[u]
<1>1. CASE pc = "idle"
  BY <1>1, NotCallingType DEF CallGoes
<1>2. CASE pc # "idle"
  <2>1. callers' = [callers EXCEPT ![t] = [callers[t] EXCEPT !.pc = pc]]
    BY <1>2 DEF CallGoes
  <2>2. callers[t] \in Calling
    OBVIOUS
  <2>3. /\ [callers[t] EXCEPT !.pc = pc] \in Calling
        /\ [callers[t] EXCEPT !.pc = pc].pc = pc
        /\ [callers[t] EXCEPT !.pc = pc].key = callers[t].key
        /\ [callers[t] EXCEPT !.pc = pc].promise = callers[t].promise
        /\ [callers[t] EXCEPT !.pc = pc].began = callers[t].began
    BY <2>2 DEF Calling
  <2> QED
    BY <1>2, <2>1, <2>3
<1> QED
  BY <1>1, <1>2

(****************************************************************************)
(* circuit_cached.                                                          *)
(****************************************************************************)

\* The calls that may still report a failure.
Under == {t \in Task : callers[t].pc \in {"looking", "direct"}}

\* Nothing of async_cached happens to a function with a circuit.
Unshared ==
    /\ promises = NoPromises
    /\ executions = <<>>
    /\ callStats = NoMetrics
    /\ \A t \in Task : callers[t].pc \notin {"owning", "waiting"}

CircuitInv ==
    /\ CallTypeOK
    /\ now \in Nat
    /\ Unshared
    /\ \A t \in Task : callers[t].began <= now
    /\ circuit.last <= now
    /\ circuit.open <=> circuit.failures >= CircuitThreshold
    /\ circuit.open =>
          circuit.failures + Cardinality(Under) < CircuitThreshold + Cardinality(Task)

LEMMA CircuitInvCorrect == CircuitInv => CallsCorrect
<1> SUFFICES ASSUME CircuitInv PROVE CallsCorrect
  OBVIOUS
<1> USE DEF CircuitInv
<1>1. circuit.failures \in Nat /\ circuit.open \in BOOLEAN /\ CircuitThreshold \in Nat
  BY CallAssumption DEF CallTypeOK
<1>2. CircuitAgrees
  <2>1. Under \in SUBSET Task
    BY DEF Under
  <2>2. Cardinality(Under) \in Nat /\ Cardinality(Task) \in Nat
    BY <2>1, TasksFewer
  <2>3. circuit.failures < CircuitThreshold + Cardinality(Task)
    BY <1>1, <2>2
  <2> QED
    BY <2>3 DEF CircuitAgrees
<1>3. OneExecution
  <2> SUFFICES ASSUME NEW k \in FunctionKey
               PROVE  Cardinality({e \in DOMAIN executions :
                         executions[e].key = k /\ executions[e].pc # "done"}) <= 1
    BY DEF OneExecution
  <2> DEFINE E == {e \in DOMAIN executions :
                     executions[e].key = k /\ executions[e].pc # "done"}
  <2>1. E = {}
    BY DEF Unshared
  <2> HIDE DEF E
  <2>2. Cardinality(E) = 0
    BY <2>1, NoTasks
  <2>3. Cardinality(E) <= 1
    BY <2>2
  <2> QED
    BY <2>3 DEF E
<1>4. PromisesOwned
  BY DEF PromisesOwned, Unshared, NoPromises
<1>5. RequestsCounted
  BY DEF RequestsCounted, Unshared, NoMetrics
<1> QED
  BY <1>2, <1>3, <1>4, <1>5 DEF CallsCorrect, StampedePrevented

LEMMA CallInitTypes == CallInit => CallTypeOK
<1> SUFFICES ASSUME CallInit PROVE CallTypeOK
  OBVIOUS
<1>1. <<>> \in Seq(SharedExecution)
  OBVIOUS
<1> QED
  BY <1>1, NotCallingType DEF CallInit, CallTypeOK, NoPromises, NoMetrics, ClosedCircuit

LEMMA CircuitInvInit == now = 0 /\ CallInit => CircuitInv
<1> SUFFICES ASSUME now = 0, CallInit PROVE CircuitInv
  OBVIOUS
<1>1. /\ callers = [t \in Task |-> NotCalling] /\ circuit = ClosedCircuit
      /\ promises = NoPromises /\ executions = <<>> /\ callStats = NoMetrics
  BY DEF CallInit
<1>2. \A t \in Task : callers[t].pc = "idle" /\ callers[t].began = 0
  BY <1>1, NotCallingType
<1> QED
  BY <1>1, <1>2, CallInitTypes, CallAssumption DEF CircuitInv, Unshared, ClosedCircuit

\* A task goes to a place from which it reports no failure; the circuit stays.
LEMMA CircuitUntouched ==
    ASSUME CircuitInv, NEW t \in Task, UNCHANGED <<now, stampede, circuit>>,
           values' \in SUBSET FunctionKey,
           callers' \in [Task -> Calling],
           \A u \in Task \ {t} : callers'[u] = callers[u],
           callers'[t].began <= now, callers'[t].pc \notin {"owning", "waiting"},
           callers'[t].pc \in {"looking", "direct"} => t \in Under \/ ~circuit.open
    PROVE  CircuitInv'
<1> USE DEF CircuitInv
<1>1. CallTypeOK' /\ Unshared'
  BY DEF CallTypeOK, stampede, Unshared
<1>2. circuit.open => Under' \subseteq Under
  BY DEF Under
<1>3. circuit.open => Cardinality(Under') \in Nat /\ Cardinality(Under') <= Cardinality(Under)
                      /\ Cardinality(Under) \in Nat /\ Cardinality(Task) \in Nat
  <2>1. Under \in SUBSET Task
    BY DEF Under
  <2> QED
    BY <1>2, <2>1, TasksFewer
<1>4. /\ circuit.failures \in Nat /\ CircuitThreshold \in Nat
  BY CallAssumption DEF CallTypeOK
<1>5. circuit.open =>
         circuit.failures + Cardinality(Under') < CircuitThreshold + Cardinality(Task)
  BY <1>3, <1>4
<1>6. \A u \in Task : callers'[u].began <= now'
  BY DEF stampede
<1> QED
  BY <1>1, <1>5, <1>6

LEMMA CircuitStep == CircuitInv /\ [CircuitNext]_<<now, callVars>> => CircuitInv'
<1> SUFFICES ASSUME CircuitInv, [CircuitNext]_<<now, callVars>> PROVE CircuitInv'
  OBVIOUS
<1>1. /\ CallTypeOK /\ Unshared /\ now \in Nat /\ values \in SUBSET FunctionKey
      /\ callers \in [Task -> Calling]
      /\ circuit \in [open : BOOLEAN, failures : Nat, last : Nat]
      /\ \A t \in Task : callers[t] \in Calling /\ callers[t].began \in Nat
      /\ \A t \in Task : callers[t].began <= now /\ callers[t].key \in FunctionKey
      /\ CircuitThreshold \in Nat \ {0}
  BY CallAssumption DEF CircuitInv, CallTypeOK, Calling
<1>2. ASSUME NEW t \in Task, NEW k \in FunctionKey, CircuitBegins(t, k)
      PROVE  CircuitInv'
  <2> DEFINE over == now - circuit.last >= CircuitTimeout
             pc == IF circuit.open /\ ~over THEN "refused" ELSE "looking"
  <2>1. /\ callers' = [callers EXCEPT ![t] =
                [pc |-> pc, key |-> k, promise |-> 0, began |-> now]]
        /\ UNCHANGED <<now, values, stampede>>
    BY <1>2 DEF CircuitBegins
  <2>2. /\ callers' \in [Task -> Calling]
        /\ callers'[t].pc = pc /\ callers'[t].began = now
        /\ \A u \in Task \ {t} : callers'[u] = callers[u]
    BY <1>1, <2>1 DEF Calling
  <2>3. CASE circuit.open /\ over
    <3>1. circuit' = [circuit EXCEPT !.open = FALSE, !.failures = 0]
      BY <1>2, <2>3 DEF CircuitBegins
    <3>2. /\ circuit' \in [open : BOOLEAN, failures : Nat, last : Nat]
          /\ ~circuit'.open /\ circuit'.failures = 0 /\ circuit'.last = circuit.last
      BY <1>1, <3>1
    <3>3. CallTypeOK' /\ Unshared'
      BY <1>1, <2>1, <2>2, <3>2 DEF CallTypeOK, stampede, Unshared
    <3> QED
      BY <1>1, <2>1, <2>2, <3>2, <3>3 DEF CircuitInv
  <2>4. CASE ~(circuit.open /\ over)
    <3>1. circuit' = circuit
      BY <1>2, <2>4 DEF CircuitBegins
    <3>2. callers'[t].pc \in {"looking", "refused"}
          /\ (callers'[t].pc = "looking" => ~circuit.open)
      BY <2>2, <2>4
    <3> QED
      BY <1>1, <2>1, <2>2, <3>1, <3>2, CircuitUntouched
  <2> QED
    BY <2>3, <2>4
<1>3. ASSUME NEW t \in Task, NEW pc \in {"idle", "direct", "extending"},
             CallGoes(t, pc), UNCHANGED <<now, stampede, circuit>>,
             values' \in SUBSET FunctionKey,
             pc = "direct" => callers[t].pc = "looking"
      PROVE  CircuitInv'
  <2>1. /\ callers' \in [Task -> Calling] /\ callers'[t].pc = pc
        /\ callers'[t].began \in {0, callers[t].began}
        /\ \A u \in Task \ {t} : callers'[u] = callers[u]
    BY <1>1, <1>3, GoesTo
  <2>2. callers'[t].began <= now
    BY <1>1, <2>1
  <2>3. pc = "direct" => t \in Under
    BY <1>3 DEF Under
  <2> QED
    BY <1>3, <2>1, <2>2, <2>3, CircuitUntouched
<1>4. ASSUME NEW t \in Task, CircuitLooks(t)
      PROVE  CircuitInv'
  BY <1>1, <1>3, <1>4 DEF CircuitLooks
<1>5. ASSUME NEW t \in Task, CircuitSucceeds(t)
      PROVE  CircuitInv'
  <2>1. /\ circuit' \in [open : BOOLEAN, failures : Nat, last : Nat]
        /\ ~circuit'.open /\ circuit'.failures = 0 /\ circuit'.last = circuit.last
        /\ UNCHANGED <<now, values, stampede>>
    BY <1>1, <1>5 DEF CircuitSucceeds
  <2>2. /\ callers' \in [Task -> Calling] /\ callers'[t].pc = "storing"
        /\ callers'[t].began \in {0, callers[t].began}
        /\ \A u \in Task \ {t} : callers'[u] = callers[u]
    BY <1>1, <1>5, GoesTo DEF CircuitSucceeds
  <2>3. CallTypeOK' /\ Unshared'
    BY <1>1, <2>1, <2>2 DEF CallTypeOK, stampede, Unshared
  <2>4. \A u \in Task : callers'[u].began <= now'
    BY <1>1, <2>1, <2>2
  <2> QED
    BY <1>1, <2>1, <2>3, <2>4 DEF CircuitInv
<1>6. ASSUME NEW t \in Task, CircuitFails(t)
      PROVE  CircuitInv'
  <2>1. /\ circuit' = [open |-> circuit.open \/ circuit.failures + 1 >= CircuitThreshold,
                       failures |-> circuit.failures + 1, last |-> callers[t].began]
        /\ callers[t].pc = "direct" /\ CallGoes(t, "stale")
        /\ UNCHANGED <<now, values, stampede>>
    BY <1>6 DEF CircuitFails
  <2>2. /\ callers' \in [Task -> Calling] /\ callers'[t].pc = "stale"
        /\ callers'[t].began \in {0, callers[t].began}
        /\ \A u \in Task \ {t} : callers'[u] = callers[u]
    BY <1>1, <2>1, GoesTo
  <2>3. /\ circuit' \in [open : BOOLEAN, failures : Nat, last : Nat]
        /\ circuit'.open <=> circuit.open \/ circuit.failures + 1 >= CircuitThreshold
        /\ circuit'.failures = circuit.failures + 1 /\ circuit'.last = callers[t].began
    <3> DEFINE o == circuit.open \/ circuit.failures + 1 >= CircuitThreshold
    <3>1. o \in BOOLEAN
      OBVIOUS
    <3>2. circuit' = [open |-> o, failures |-> circuit.failures + 1, last |-> callers[t].began]
      BY <2>1
    <3>3. circuit'.open <=> o
      BY <3>2 DEF o
    <3> HIDE DEF o
    <3>4. circuit.failures + 1 \in Nat /\ callers[t].began \in Nat
      BY <1>1
    <3>5. /\ circuit' \in [open : BOOLEAN, failures : Nat, last : Nat]
          /\ circuit'.failures = circuit.failures + 1 /\ circuit'.last = callers[t].began
      BY <3>1, <3>2, <3>4
    <3> QED
      BY <3>3, <3>5 DEF o
  <2>4. CallTypeOK' /\ Unshared'
    BY <1>1, <2>1, <2>2, <2>3 DEF CallTypeOK, stampede, Unshared
  <2>5. \A u \in Task : callers'[u].began <= now'
    BY <1>1, <2>1, <2>2
  <2>6. /\ circuit.failures \in Nat /\ CircuitThreshold \in Nat
        /\ circuit.open <=> circuit.failures >= CircuitThreshold
    BY <1>1 DEF CircuitInv
  <2>7. /\ Cardinality(Under) \in Nat /\ Cardinality(Under') \in Nat
        /\ Cardinality(Under') + 1 <= Cardinality(Under)
        /\ Cardinality(Under) <= Cardinality(Task) /\ Cardinality(Task) \in Nat
    <3>1. Under \in SUBSET Task /\ Under' \in SUBSET Task /\ t \in Under
          /\ Under' \subseteq Under \ {t}
      BY <2>1, <2>2 DEF Under
    <3> QED
      BY <3>1, TaskLeaves, TasksFewer
  <2>8. circuit'.open =>
           circuit'.failures + Cardinality(Under') < CircuitThreshold + Cardinality(Task)
    <3>1. CASE circuit.open
      <4>1. circuit.failures + Cardinality(Under) < CircuitThreshold + Cardinality(Task)
        BY <3>1 DEF CircuitInv
      <4> QED
        BY <2>3, <2>6, <2>7, <4>1
    <3>2. CASE ~circuit.open
      BY <2>3, <2>6, <2>7, <3>2
    <3> QED
      BY <3>1, <3>2
  <2>9. circuit'.open <=> circuit'.failures >= CircuitThreshold
    BY <2>3, <2>6
  <2>10. circuit'.last <= now'
    BY <1>1, <2>1, <2>3
  <2> QED
    BY <1>1, <2>1, <2>4, <2>5, <2>8, <2>9, <2>10 DEF CircuitInv
<1>7. ASSUME NEW t \in Task, CircuitFallsBack(t)
      PROVE  CircuitInv'
  BY <1>1, <1>3, <1>7 DEF CircuitFallsBack
<1>8. ASSUME NEW t \in Task, ValueStored(t)
      PROVE  CircuitInv'
  BY <1>1, <1>3, <1>8 DEF ValueStored
<1>9. ASSUME NEW t \in Task, CallCancelled(t)
      PROVE  CircuitInv'
  <2>1. /\ callers[t].pc \notin {"owning", "waiting"}
        /\ callStats' = callStats
    BY <1>1, <1>9 DEF Unshared, CallCancelled
  <2>2. /\ CallGoes(t, "idle")
        /\ UNCHANGED <<now, values, stampede, circuit>>
    BY <1>9, <2>1 DEF CallCancelled, stampede
  <2> QED
    BY <1>1, <1>3, <2>2
<1>10. ASSUME NEW k \in FunctionKey, ValueGoes(k)
       PROVE  CircuitInv'
  BY <1>1, <1>10 DEF ValueGoes, CircuitInv, CallTypeOK, Unshared, Under, stampede
<1>11. ASSUME Later(CallHorizon), UNCHANGED callVars
       PROVE  CircuitInv'
  <2>1. now' = now + 1
    BY <1>11 DEF Later
  <2>2. CallTypeOK' /\ Unshared' /\ Under' = Under
    BY <1>1, <1>11 DEF callVars, CallTypeOK, Unshared, Under
  <2>3. circuit.last \in Nat
    BY <1>1
  <2> QED
    BY <1>1, <1>11, <2>1, <2>2, <2>3 DEF CircuitInv, callVars
<1>12. ASSUME UNCHANGED <<now, callVars>>
       PROVE  CircuitInv'
  BY <1>1, <1>12 DEF callVars, CircuitInv, CallTypeOK, Unshared, Under
<1> QED
  BY <1>2, <1>4, <1>5, <1>6, <1>7, <1>8, <1>9, <1>10, <1>11, <1>12 DEF CircuitNext

(****************************************************************************)
(* The circuit is open exactly if the failures since the last success or     *)
(* reset reach the threshold, which they pass by fewer than there are tasks, *)
(* in whatever order calls of circuit_cached() end.                          *)
(****************************************************************************)
THEOREM CircuitSafe == CircuitSpec => []CallsCorrect
<1>1. now = 0 /\ CallInit => CircuitInv
  BY CircuitInvInit
<1>2. CircuitInv /\ [CircuitNext]_<<now, callVars>> => CircuitInv'
  BY CircuitStep
<1>3. CircuitInv => CallsCorrect
  BY CircuitInvCorrect
<1> QED
  BY <1>1, <1>2, <1>3, PTL DEF CircuitSpec

(****************************************************************************)
(* async_cached: executions and promises.                                   *)
(****************************************************************************)

\* What is under way has no outcome; who awaits an execution awaits one that was
\* made, and each has one owner; a promise is that of an owner of its key.
Promised ==
    /\ \A e \in DOMAIN executions :
          executions[e].pc # "done" => executions[e].outcome = "none"
    /\ \A t \in Task : callers[t].pc \in {"owning", "waiting"} =>
          callers[t].promise \in DOMAIN executions
    /\ \A t, u \in Task :
          /\ callers[t].pc = "owning"
          /\ callers[u].pc = "owning"
          /\ callers[t].promise = callers[u].promise
          => t = u
    /\ \A k \in FunctionKey : promises[k] # 0 =>
          /\ promises[k] \in DOMAIN executions
          /\ \E t \in Task : callers[t].pc = "owning" /\ callers[t].key = k
                                /\ callers[t].promise = promises[k]

\* As long as nothing failed and nothing was thrown away, what runs is the promise
\* of its key, and so is what an owner awaits.
Kept ==
    /\ \A e \in DOMAIN executions :
          executions[e].pc # "done" => promises[executions[e].key] = e
    /\ \A t \in Task : callers[t].pc = "owning" =>
          promises[callers[t].key] = callers[t].promise

PromiseInv == CallTypeOK /\ Promised /\ (Undisturbed => Kept)

LEMMA CallTypes ==
    ASSUME CallTypeOK
    PROVE  /\ callers \in [Task -> Calling]
           /\ \A t \in Task : callers[t] \in Calling /\ callers[t].key \in FunctionKey
           /\ executions \in Seq(SharedExecution) /\ Len(executions) \in Nat
           /\ DOMAIN executions = 1..Len(executions)
           /\ \A e \in DOMAIN executions :
                 executions[e] \in SharedExecution /\ executions[e].key \in FunctionKey
           /\ promises \in [FunctionKey -> Nat] /\ values \in SUBSET FunctionKey
<1>1. /\ callers \in [Task -> Calling] /\ executions \in Seq(SharedExecution)
      /\ promises \in [FunctionKey -> Nat] /\ values \in SUBSET FunctionKey
  BY DEF CallTypeOK
<1>2. \A t \in Task : callers[t] \in Calling /\ callers[t].key \in FunctionKey
  BY <1>1 DEF Calling
<1>3. Len(executions) \in Nat /\ DOMAIN executions = 1..Len(executions)
  BY <1>1
<1>4. \A e \in DOMAIN executions : executions[e] \in SharedExecution
  BY <1>1
<1>5. \A x \in SharedExecution : x.key \in FunctionKey
  BY DEF SharedExecution
<1> QED
  BY <1>1, <1>2, <1>3, <1>4, <1>5

\* An execution goes on.
LEMMA ExecutionGoesOn ==
    ASSUME PromiseInv, NEW e \in DOMAIN executions, NEW x \in SharedExecution,
           executions' = [executions EXCEPT ![e] = x],
           executions[e].pc # "done", x.key = executions[e].key,
           x.pc # "done" => x.outcome = executions[e].outcome,
           values' \in SUBSET FunctionKey,
           UNCHANGED <<promises, callers, forgotten, tidied, callStats, circuit>>
    PROVE  PromiseInv'
<1>1. CallTypeOK /\ Promised
  BY DEF PromiseInv
<1>2. /\ executions' \in Seq(SharedExecution) /\ DOMAIN executions' = DOMAIN executions
      /\ executions'[e] = x
      /\ \A d \in DOMAIN executions \ {e} : executions'[d] = executions[d]
  BY <1>1, CallTypes
<1>3. CallTypeOK'
  BY <1>1, <1>2 DEF CallTypeOK
<1>4. Promised'
  BY <1>1, <1>2 DEF Promised
<1>5. ASSUME Undisturbed' PROVE Undisturbed
  BY <1>1, <1>2, <1>5 DEF Undisturbed, Promised
<1>6. ASSUME Undisturbed' PROVE Kept'
  BY <1>2, <1>5, <1>6 DEF PromiseInv, Kept
<1> QED
  BY <1>3, <1>4, <1>6 DEF PromiseInv

\* Callers that own nothing go on, and promises are removed.
LEMMA CallerGoesOn ==
    ASSUME PromiseInv, callers' \in [Task -> Calling],
           \A u \in Task : callers'[u] # callers[u] =>
              /\ callers[u].pc # "owning" /\ callers'[u].pc # "owning"
              /\ callers'[u].pc = "waiting" => callers'[u].promise \in DOMAIN executions,
           promises' \in [FunctionKey -> Nat],
           \A k \in FunctionKey : promises'[k] \in {0, promises[k]},
           promises' = promises \/ forgotten' = TRUE \/ ~Undisturbed,
           forgotten' \in BOOLEAN, forgotten = TRUE => forgotten' = TRUE,
           UNCHANGED <<executions, circuit>>, tidied' \in Nat,
           callStats' \in [total : Nat, hits : Nat, misses : Nat, prevented : Nat],
           values' \in SUBSET FunctionKey
    PROVE  PromiseInv'
<1>1. CallTypeOK /\ Promised
  BY DEF PromiseInv
<1>2. CallTypeOK'
  BY <1>1 DEF CallTypeOK
<1>3. \A u \in Task : callers'[u].pc = "owning" \/ callers[u].pc = "owning" =>
         callers'[u] = callers[u]
  OBVIOUS
<1>4. Promised'
  <2>1. \A u \in Task : callers'[u].pc \in {"owning", "waiting"} =>
           callers'[u].promise \in DOMAIN executions
    BY <1>1 DEF Promised
  <2>2. \A t, u \in Task :
           callers'[t].pc = "owning" /\ callers'[u].pc = "owning" =>
              (callers'[t].promise = callers'[u].promise => t = u)
    BY <1>1, <1>3 DEF Promised
  <2>3. ASSUME NEW k \in FunctionKey, promises'[k] # 0
        PROVE  /\ promises'[k] \in DOMAIN executions
               /\ \E t \in Task : callers'[t].pc = "owning" /\ callers'[t].key = k
                                     /\ callers'[t].promise = promises'[k]
    <3>1. promises'[k] = promises[k]
      BY <2>3
    <3>2. PICK t \in Task : callers[t].pc = "owning" /\ callers[t].key = k
                               /\ callers[t].promise = promises[k]
      BY <1>1, <2>3, <3>1 DEF Promised
    <3>3. callers'[t] = callers[t]
      BY <1>3, <3>2
    <3>4. promises[k] \in DOMAIN executions
      BY <1>1, <2>3, <3>1 DEF Promised
    <3> QED
      BY <3>1, <3>2, <3>3, <3>4
  <2> QED
    BY <1>1, <2>1, <2>2, <2>3 DEF Promised
<1>5. ASSUME Undisturbed' PROVE Kept'
  <2>1. Undisturbed /\ promises' = promises
    BY <1>1, <1>5 DEF Undisturbed, CallTypeOK
  <2> QED
    BY <1>3, <2>1 DEF PromiseInv, Kept
<1> QED
  BY <1>2, <1>4, <1>5 DEF PromiseInv

\* The owner of a promise that is done leaves it, and removes that of its key.
LEMMA OwnerLeaves ==
    ASSUME PromiseInv, NEW t \in Task, callers[t].pc = "owning",
           executions[callers[t].promise].pc = "done",
           promises' = [promises EXCEPT ![callers[t].key] = 0],
           callers' \in [Task -> Calling], callers'[t].pc \notin {"owning", "waiting"},
           \A u \in Task \ {t} : callers'[u] = callers[u],
           UNCHANGED <<values, executions, tidied, forgotten, callStats, circuit>>
    PROVE  PromiseInv'
<1>1. CallTypeOK /\ Promised
  BY DEF PromiseInv
<1>2. PICK k \in FunctionKey : k = callers[t].key
  BY <1>1, CallTypes
<1>3. /\ promises' \in [FunctionKey -> Nat] /\ promises'[k] = 0
      /\ \A j \in FunctionKey \ {k} : promises'[j] = promises[j]
  BY <1>1, <1>2, CallTypes
<1>4. CallTypeOK'
  BY <1>1, <1>3 DEF CallTypeOK
<1>5. Promised'
  <2>1. ASSUME NEW j \in FunctionKey, promises'[j] # 0
        PROVE  /\ promises'[j] \in DOMAIN executions
               /\ \E u \in Task : callers'[u].pc = "owning" /\ callers'[u].key = j
                                     /\ callers'[u].promise = promises'[j]
    <3>1. j # k /\ promises'[j] = promises[j]
      BY <1>3, <2>1
    <3>2. PICK u \in Task : callers[u].pc = "owning" /\ callers[u].key = j
                               /\ callers[u].promise = promises[j]
      BY <1>1, <2>1, <3>1 DEF Promised
    <3>3. u # t
      BY <1>2, <3>1, <3>2
    <3>4. promises[j] \in DOMAIN executions
      BY <1>1, <2>1, <3>1 DEF Promised
    <3> QED
      BY <3>1, <3>2, <3>3, <3>4
  <2>2. \A u \in Task : callers'[u].pc \in {"owning", "waiting"} =>
           callers'[u].promise \in DOMAIN executions
    BY <1>1 DEF Promised
  <2>3. \A u, v \in Task :
           callers'[u].pc = "owning" /\ callers'[v].pc = "owning" =>
              (callers'[u].promise = callers'[v].promise => u = v)
    BY <1>1 DEF Promised
  <2> QED
    BY <1>1, <2>1, <2>2, <2>3 DEF Promised
<1>6. ASSUME Undisturbed' PROVE Kept'
  <2>1. Undisturbed /\ Kept
    BY <1>6 DEF Undisturbed, PromiseInv
  <2>2. promises[k] = callers[t].promise
    BY <1>2, <2>1 DEF Kept
  <2>3. ASSUME NEW e \in DOMAIN executions, executions[e].pc # "done"
        PROVE  promises'[executions[e].key] = e
    BY <1>1, <1>3, <2>1, <2>2, <2>3, CallTypes DEF Kept
  <2>4. ASSUME NEW u \in Task, callers'[u].pc = "owning"
        PROVE  promises'[callers'[u].key] = callers'[u].promise
    <3>1. u # t /\ callers'[u] = callers[u]
      BY <2>4
    <3>2. callers[u].key # k
      BY <1>1, <2>1, <2>2, <2>4, <3>1 DEF Kept, Promised
    <3> QED
      BY <1>1, <1>3, <2>1, <2>4, <3>1, <3>2, CallTypes DEF Kept
  <2> QED
    BY <2>3, <2>4 DEF Kept
<1> QED
  BY <1>4, <1>5, <1>6 DEF PromiseInv

\* What tidying leaves of the promises.
LEMMA TidiedTypes ==
    ASSUME CallTypeOK
    PROVE  Tidied \in [FunctionKey -> Nat] /\ \A k \in FunctionKey : Tidied[k] \in {0, promises[k]}
BY DEF CallTypeOK, Tidied

\* A call that finds no promise of its key makes one.
LEMMA PromiseMade ==
    ASSUME PromiseInv, NEW t \in Task, NEW k \in FunctionKey, callers[t].pc = "looking",
           Tidied[k] = 0, now \in Nat, tidied' \in Nat,
           executions' = Append(executions, [key |-> k, pc |-> "running", made |-> now,
                                             outcome |-> "none"]),
           promises' = [Tidied EXCEPT ![k] = Len(executions) + 1],
           callers' \in [Task -> Calling], callers'[t].pc = "owning",
           callers'[t].key = k, callers'[t].promise = Len(executions) + 1,
           \A u \in Task \ {t} : callers'[u] = callers[u],
           forgotten' = (forgotten \/ Tidied # promises),
           callStats' \in [total : Nat, hits : Nat, misses : Nat, prevented : Nat],
           UNCHANGED <<values, circuit>>
    PROVE  PromiseInv'
<1>1. CallTypeOK /\ Promised
  BY DEF PromiseInv
<1> DEFINE n == Len(executions) + 1
           x == [key |-> k, pc |-> "running", made |-> now, outcome |-> "none"]
<1>2. /\ x \in SharedExecution /\ x.key = k /\ x.pc = "running" /\ x.outcome = "none"
  BY DEF SharedExecution
<1> HIDE DEF x
<1>3. /\ executions' \in Seq(SharedExecution) /\ n \in Nat /\ n # 0 /\ n \notin DOMAIN executions
      /\ DOMAIN executions' = DOMAIN executions \cup {n}
      /\ executions'[n] = x
      /\ \A e \in DOMAIN executions : executions'[e] = executions[e]
  BY <1>1, <1>2, CallTypes DEF x
<1>4. /\ promises' \in [FunctionKey -> Nat] /\ promises'[k] = n
      /\ \A j \in FunctionKey \ {k} : promises'[j] \in {0, promises[j]}
  BY <1>1, <1>3, TidiedTypes
<1> HIDE DEF n
<1>5. CallTypeOK'
  <2>1. forgotten' \in BOOLEAN
    BY Zenon
  <2> QED
    BY <1>1, <1>3, <1>4, <2>1 DEF CallTypeOK
<1>6. Promised'
  <2>1. \A e \in DOMAIN executions' :
          executions'[e].pc # "done" => executions'[e].outcome = "none"
    BY <1>1, <1>2, <1>3 DEF Promised
  <2>2. callers'[t].promise = n
    BY DEF n
  <2>3. \A u \in Task \ {t} :
           /\ callers'[u] = callers[u]
           /\ callers[u].pc \in {"owning", "waiting"} => callers[u].promise \in DOMAIN executions
    BY <1>1 DEF Promised
  <2>4. \A u \in Task : callers'[u].pc \in {"owning", "waiting"} =>
           callers'[u].promise \in DOMAIN executions'
    BY <1>3, <2>2, <2>3
  <2>5. \A u, v \in Task :
           callers'[u].pc = "owning" /\ callers'[v].pc = "owning" =>
              (callers'[u].promise = callers'[v].promise => u = v)
    <3>1. \A u \in Task \ {t} : callers'[u].pc = "owning" => callers'[u].promise # n
      BY <1>3, <2>3
    <3> QED
      BY <1>1, <2>2, <2>3, <3>1 DEF Promised
  <2>6. ASSUME NEW j \in FunctionKey, promises'[j] # 0
        PROVE  /\ promises'[j] \in DOMAIN executions'
               /\ \E u \in Task : callers'[u].pc = "owning" /\ callers'[u].key = j
                                     /\ callers'[u].promise = promises'[j]
    <3>1. CASE j = k
      BY <1>3, <1>4, <3>1 DEF n
    <3>2. CASE j # k
      <4>1. promises'[j] = promises[j]
        BY <1>4, <2>6, <3>2
      <4>2. PICK u \in Task : callers[u].pc = "owning" /\ callers[u].key = j
                                 /\ callers[u].promise = promises[j]
        BY <1>1, <2>6, <4>1 DEF Promised
      <4>3. u # t /\ promises[j] \in DOMAIN executions
        BY <1>1, <2>6, <4>1, <4>2 DEF Promised
      <4> QED
        BY <1>3, <4>1, <4>2, <4>3
    <3> QED
      BY <3>1, <3>2
  <2> QED
    BY <2>1, <2>4, <2>5, <2>6 DEF Promised
<1>7. ASSUME Undisturbed' PROVE Kept'
  <2>1. Undisturbed /\ Tidied = promises
    BY <1>1, <1>3, <1>7 DEF Undisturbed, CallTypeOK
  <2>2. Kept /\ promises[k] = 0
    BY <2>1 DEF PromiseInv
  <2>3. \A j \in FunctionKey \ {k} : promises'[j] = promises[j]
    BY <1>1, <2>1, CallTypes
  <2>4. ASSUME NEW e \in DOMAIN executions', executions'[e].pc # "done"
        PROVE  promises'[executions'[e].key] = e
    <3>1. CASE e = n
      BY <1>2, <1>3, <1>4, <3>1
    <3>2. CASE e # n
      <4>1. /\ e \in DOMAIN executions /\ executions'[e] = executions[e]
            /\ executions[e].key \in FunctionKey /\ e # 0
        BY <1>1, <1>3, <3>2, CallTypes
      <4> QED
        BY <2>2, <2>3, <2>4, <4>1 DEF Kept
    <3> QED
      BY <3>1, <3>2
  <2>5. ASSUME NEW u \in Task, callers'[u].pc = "owning"
        PROVE  promises'[callers'[u].key] = callers'[u].promise
    <3>1. CASE u = t
      BY <1>4, <3>1 DEF n
    <3>2. CASE u # t
      <4>1. /\ callers'[u] = callers[u] /\ callers[u].promise \in DOMAIN executions
            /\ callers[u].key \in FunctionKey /\ promises[callers[u].key] = callers[u].promise
        BY <1>1, <2>2, <2>5, <3>2, CallTypes DEF Kept, Promised
      <4>2. callers[u].promise # 0
        BY <1>1, <4>1, CallTypes
      <4> QED
        BY <2>2, <2>3, <4>1, <4>2
    <3> QED
      BY <3>1, <3>2
  <2> QED
    BY <2>4, <2>5 DEF Kept
<1> QED
  BY <1>5, <1>6, <1>7 DEF PromiseInv

(****************************************************************************)
(* async_cached: what is counted.                                           *)
(****************************************************************************)

Looking == {t \in Task : callers[t].pc = "looking"}

Waiting == {t \in Task : callers[t].pc = "waiting"}

\* A call that looks may yet hit or miss, one that waits may yet be prevented.
MetricsCounted ==
    /\ callStats.hits + callStats.misses + Cardinality(Looking) <= callStats.total
    /\ callStats.prevented + Cardinality(Waiting) <= callStats.misses

LEMMA StatTypes ==
    ASSUME CallTypeOK
    PROVE  /\ callStats \in [total : Nat, hits : Nat, misses : Nat, prevented : Nat]
           /\ callStats.total \in Nat /\ callStats.hits \in Nat
           /\ callStats.misses \in Nat /\ callStats.prevented \in Nat
           /\ Cardinality(Looking) \in Nat /\ Cardinality(Waiting) \in Nat
<1>1. callStats \in [total : Nat, hits : Nat, misses : Nat, prevented : Nat]
  BY DEF CallTypeOK
<1>2. Looking \in SUBSET Task /\ Waiting \in SUBSET Task
  BY DEF Looking, Waiting
<1> QED
  BY <1>1, <1>2, TasksFewer

\* Nobody begins to look or to wait, and nothing is counted.
LEMMA CountsStay ==
    ASSUME CallTypeOK, MetricsCounted, NEW t \in Task, callStats' = callStats,
           callers'[t].pc \notin {"looking", "waiting"},
           \A u \in Task \ {t} : callers'[u] = callers[u]
    PROVE  MetricsCounted'
<1>1. /\ Looking \in SUBSET Task /\ Looking' \in SUBSET Looking
      /\ Waiting \in SUBSET Task /\ Waiting' \in SUBSET Waiting
  BY DEF Looking, Waiting
<1>2. /\ Cardinality(Looking') \in Nat /\ Cardinality(Looking') <= Cardinality(Looking)
      /\ Cardinality(Waiting') \in Nat /\ Cardinality(Waiting') <= Cardinality(Waiting)
  BY <1>1, TasksFewer
<1> QED
  BY <1>2, StatTypes DEF MetricsCounted

\* A call that looked has hit, or missed, and waits then or does not.
LEMMA LookCounted ==
    ASSUME CallTypeOK, MetricsCounted, NEW t \in Task, callers[t].pc = "looking",
           callers'[t].pc # "looking",
           \A u \in Task \ {t} : callers'[u] = callers[u],
           \/ /\ callStats' = [callStats EXCEPT !.hits = @ + 1]
              /\ callers'[t].pc # "waiting"
           \/ callStats' = [callStats EXCEPT !.misses = @ + 1]
    PROVE  /\ callStats' \in [total : Nat, hits : Nat, misses : Nat, prevented : Nat]
           /\ MetricsCounted'
<1>1. Looking \in SUBSET Task /\ t \in Looking /\ Looking' \in SUBSET Task
      /\ Looking' \subseteq Looking \ {t}
  BY DEF Looking
<1>2. /\ Cardinality(Looking') \in Nat /\ Cardinality(Looking') + 1 <= Cardinality(Looking)
  BY <1>1, TaskLeaves
<1>3. CASE callStats' = [callStats EXCEPT !.hits = @ + 1] /\ callers'[t].pc # "waiting"
  <2>1. Waiting \in SUBSET Task /\ Waiting' \in SUBSET Waiting
    BY <1>3 DEF Waiting
  <2>2. Cardinality(Waiting') \in Nat /\ Cardinality(Waiting') <= Cardinality(Waiting)
    BY <2>1, TasksFewer
  <2>3. /\ callStats'.total = callStats.total /\ callStats'.hits = callStats.hits + 1
        /\ callStats'.misses = callStats.misses /\ callStats'.prevented = callStats.prevented
        /\ callStats' \in [total : Nat, hits : Nat, misses : Nat, prevented : Nat]
    BY <1>3, StatTypes
  <2> QED
    BY <1>2, <2>2, <2>3, StatTypes DEF MetricsCounted
<1>4. CASE callStats' = [callStats EXCEPT !.misses = @ + 1]
  <2>1. Waiting \in SUBSET Task /\ Waiting' \in SUBSET Task /\ Waiting' \subseteq Waiting \cup {t}
    BY DEF Waiting
  <2>2. Cardinality(Waiting') \in Nat /\ Cardinality(Waiting') <= Cardinality(Waiting) + 1
    BY <2>1, TaskComes
  <2>3. /\ callStats'.total = callStats.total /\ callStats'.hits = callStats.hits
        /\ callStats'.misses = callStats.misses + 1
        /\ callStats'.prevented = callStats.prevented
        /\ callStats' \in [total : Nat, hits : Nat, misses : Nat, prevented : Nat]
    BY <1>4, StatTypes
  <2> QED
    BY <1>2, <2>2, <2>3, StatTypes DEF MetricsCounted
<1> QED
  BY <1>3, <1>4

\* A call that waited goes on, and one more may have been prevented.
LEMMA WaitCounted ==
    ASSUME CallTypeOK, MetricsCounted, NEW t \in Task, callers[t].pc = "waiting",
           callers'[t].pc \notin {"looking", "waiting"},
           \A u \in Task \ {t} : callers'[u] = callers[u],
           callStats' \in {callStats, [callStats EXCEPT !.prevented = @ + 1]}
    PROVE  /\ callStats' \in [total : Nat, hits : Nat, misses : Nat, prevented : Nat]
           /\ MetricsCounted'
<1>1. /\ Waiting \in SUBSET Task /\ t \in Waiting /\ Waiting' \in SUBSET Task
      /\ Waiting' \subseteq Waiting \ {t}
      /\ Looking \in SUBSET Task /\ Looking' \in SUBSET Looking
  BY DEF Waiting, Looking
<1>2. /\ Cardinality(Waiting') \in Nat /\ Cardinality(Waiting') + 1 <= Cardinality(Waiting)
      /\ Cardinality(Looking') \in Nat /\ Cardinality(Looking') <= Cardinality(Looking)
  BY <1>1, TaskLeaves, TasksFewer
<1>3. /\ callStats'.total = callStats.total /\ callStats'.hits = callStats.hits
      /\ callStats'.misses = callStats.misses
      /\ callStats'.prevented \in {callStats.prevented, callStats.prevented + 1}
      /\ callStats' \in [total : Nat, hits : Nat, misses : Nat, prevented : Nat]
  BY StatTypes
<1> QED
  BY <1>2, <1>3, StatTypes DEF MetricsCounted

\* A call begins.
LEMMA BeginCounted ==
    ASSUME CallTypeOK, MetricsCounted, NEW t \in Task, callers'[t].pc = "looking",
           \A u \in Task \ {t} : callers'[u] = callers[u],
           callStats' = [callStats EXCEPT !.total = @ + 1]
    PROVE  /\ callStats' \in [total : Nat, hits : Nat, misses : Nat, prevented : Nat]
           /\ MetricsCounted'
<1>1. /\ Looking \in SUBSET Task /\ Looking' \in SUBSET Task /\ Looking' \subseteq Looking \cup {t}
      /\ Waiting \in SUBSET Task /\ Waiting' \in SUBSET Waiting
  BY DEF Looking, Waiting
<1>2. /\ Cardinality(Looking') \in Nat /\ Cardinality(Looking') <= Cardinality(Looking) + 1
      /\ Cardinality(Waiting') \in Nat /\ Cardinality(Waiting') <= Cardinality(Waiting)
  BY <1>1, TaskComes, TasksFewer
<1>3. /\ callStats'.total = callStats.total + 1 /\ callStats'.hits = callStats.hits
      /\ callStats'.misses = callStats.misses /\ callStats'.prevented = callStats.prevented
      /\ callStats' \in [total : Nat, hits : Nat, misses : Nat, prevented : Nat]
  BY StatTypes
<1> QED
  BY <1>2, <1>3, StatTypes DEF MetricsCounted

(****************************************************************************)
(* async_cached: every step.                                                *)
(****************************************************************************)

StampedeInv == PromiseInv /\ MetricsCounted /\ now \in Nat /\ circuit = ClosedCircuit

LEMMA StampedeInvInit == now = 0 /\ CallInit => StampedeInv
<1> SUFFICES ASSUME now = 0, CallInit PROVE StampedeInv
  OBVIOUS
<1>1. /\ callers = [t \in Task |-> NotCalling] /\ circuit = ClosedCircuit
      /\ promises = NoPromises /\ executions = <<>> /\ callStats = NoMetrics
  BY DEF CallInit
<1>2. \A t \in Task : callers[t].pc = "idle"
  BY <1>1, NotCallingType
<1>3. Promised /\ Kept
  BY <1>1, <1>2 DEF Promised, Kept, NoPromises
<1>4. MetricsCounted
  <2>1. Looking = {} /\ Waiting = {}
    BY <1>2 DEF Looking, Waiting
  <2> QED
    BY <1>1, <2>1, NoTasks DEF MetricsCounted, NoMetrics
<1> QED
  BY <1>1, <1>3, <1>4, CallInitTypes DEF StampedeInv, PromiseInv

LEMMA StampedeInvCorrect == StampedeInv => CallsCorrect
<1> SUFFICES ASSUME StampedeInv PROVE CallsCorrect
  OBVIOUS
<1>1. CallTypeOK /\ Promised /\ (Undisturbed => Kept)
  BY DEF StampedeInv, PromiseInv
<1>2. OneExecution
  <2> SUFFICES ASSUME Undisturbed, NEW k \in FunctionKey
               PROVE  Cardinality({e \in DOMAIN executions :
                         executions[e].key = k /\ executions[e].pc # "done"}) <= 1
    BY DEF OneExecution
  <2> DEFINE E == {e \in DOMAIN executions :
                     executions[e].key = k /\ executions[e].pc # "done"}
  <2>1. \A e \in E : e = promises[k]
    BY <1>1 DEF Kept
  <2>2. E \subseteq {promises[k]}
    BY <2>1
  <2> HIDE DEF E
  <2>3. IsFiniteSet({promises[k]}) /\ Cardinality({promises[k]}) = 1
    BY FS_Singleton
  <2>4. Cardinality(E) <= 1
    BY <2>2, <2>3, FS_Subset
  <2> QED
    BY <2>4 DEF E
<1>3. PromisesOwned
  BY <1>1 DEF PromisesOwned, Promised
<1>4. RequestsCounted
  BY <1>1, StatTypes DEF RequestsCounted, StampedeInv, MetricsCounted
<1>5. CircuitAgrees
  <2>1. circuit.failures = 0 /\ circuit.open = FALSE /\ circuit.last = 0
    BY DEF StampedeInv, ClosedCircuit
  <2>2. Cardinality(Task) \in Nat /\ CircuitThreshold \in Nat \ {0}
    BY TaskAssumption, CallAssumption, FS_CardinalityType
  <2> QED
    BY <2>1, <2>2 DEF CircuitAgrees, StampedeInv
<1> QED
  BY <1>1, <1>2, <1>3, <1>4, <1>5 DEF CallsCorrect, StampedePrevented

\* A call that awaits neither the cache nor a promise goes on, or one gives up.
LEMMA GoesUncounted ==
    ASSUME StampedeInv, NEW t \in Task, callers[t].pc # "owning",
           NEW pc \in {"idle", "direct", "storing", "extending"},
           CallGoes(t, pc), UNCHANGED <<now, executions, callStats, circuit>>,
           promises' \in [FunctionKey -> Nat],
           \A k \in FunctionKey : promises'[k] \in {0, promises[k]},
           promises' = promises \/ ~Undisturbed,
           values' \in SUBSET FunctionKey,
           UNCHANGED <<tidied, forgotten>>
    PROVE  StampedeInv'
<1>1. CallTypeOK /\ callers \in [Task -> Calling] /\ PromiseInv /\ MetricsCounted
  BY DEF StampedeInv, PromiseInv, CallTypeOK
<1>2. /\ callers' \in [Task -> Calling] /\ callers'[t].pc = pc
      /\ \A u \in Task \ {t} : callers'[u] = callers[u]
  BY <1>1, GoesTo
<1>3. /\ tidied' \in Nat /\ forgotten' \in BOOLEAN
      /\ callStats' \in [total : Nat, hits : Nat, misses : Nat, prevented : Nat]
  BY <1>1 DEF CallTypeOK
<1>4. PromiseInv'
  BY <1>1, <1>2, <1>3, CallerGoesOn
<1>5. MetricsCounted'
  BY <1>1, <1>2, CountsStay
<1> QED
  BY <1>4, <1>5 DEF StampedeInv

LEMMA CallMissesKeeps ==
    ASSUME StampedeInv, NEW t \in Task, CallMisses(t)
    PROVE  StampedeInv'
<1>1. CallTypeOK /\ Promised /\ PromiseInv /\ MetricsCounted /\ now \in Nat
  BY DEF StampedeInv, PromiseInv
<1>2. PICK k \in FunctionKey : k = callers[t].key
  BY <1>1, CallTypes
<1>3. /\ callers[t].pc = "looking" /\ callers[t] \in Calling
      /\ callStats' = [callStats EXCEPT !.misses = @ + 1]
      /\ forgotten' = (forgotten \/ Tidied # promises)
      /\ UNCHANGED <<now, values, circuit>>
  BY <1>1, CallTypes DEF CallMisses, Missed
<1>4. tidied' \in Nat /\ forgotten' \in BOOLEAN /\ (forgotten = TRUE => forgotten' = TRUE)
  <2>1. tidied' \in Nat
    BY <1>1 DEF CallMisses, CallTypeOK
  <2>2. forgotten' \in BOOLEAN /\ (forgotten = TRUE => forgotten' = TRUE)
    BY <1>3, Zenon
  <2> QED
    BY <2>1, <2>2
<1>5. CASE /\ Tidied[k] # 0 /\ promises' = Tidied /\ executions' = executions
           /\ callers' = [callers EXCEPT ![t].pc = "waiting", ![t].promise = Tidied[k]]
  <2>1. Tidied[k] \in Nat /\ Tidied[k] = promises[k] /\ promises[k] \in DOMAIN executions
    BY <1>1, <1>5, TidiedTypes DEF Promised
  <2>2. /\ callers' \in [Task -> Calling] /\ callers'[t].pc = "waiting"
        /\ callers'[t].promise \in DOMAIN executions
        /\ \A u \in Task \ {t} : callers'[u] = callers[u]
    <3> DEFINE c == [[callers[t] EXCEPT !.pc = "waiting"] EXCEPT !.promise = promises[k]]
    <3>1. callers' = [callers EXCEPT ![t] = c]
      BY <1>1, <1>5, <2>1, CallTypes
    <3>2. c \in Calling /\ c.pc = "waiting" /\ c.promise = promises[k]
      BY <1>3, <2>1 DEF Calling
    <3> HIDE DEF c
    <3> QED
      BY <1>1, <2>1, <3>1, <3>2, CallTypes
  <2>3. callStats' \in [total : Nat, hits : Nat, misses : Nat, prevented : Nat] /\ MetricsCounted'
    BY <1>1, <1>3, <2>2, LookCounted
  <2>4. promises' = promises \/ forgotten' = TRUE
    BY <1>3, <1>5
  <2>5. PromiseInv'
    BY <1>1, <1>3, <1>4, <1>5, <2>2, <2>3, <2>4, CallTypes, CallerGoesOn, TidiedTypes
  <2> QED
    BY <1>1, <1>3, <2>3, <2>5 DEF StampedeInv
<1>6. CASE /\ Tidied[k] = 0
           /\ executions' = Append(executions, [key |-> k, pc |-> "running", made |-> now,
                                                outcome |-> "none"])
           /\ promises' = [Tidied EXCEPT ![k] = Len(executions) + 1]
           /\ callers' = [callers EXCEPT ![t].pc = "owning",
                                         ![t].promise = Len(executions) + 1]
  <2>1. PICK n \in Nat : n = Len(executions) + 1
    BY <1>1, CallTypes
  <2>2. /\ callers' \in [Task -> Calling] /\ callers'[t].pc = "owning"
        /\ callers'[t].promise = n /\ callers'[t].key = k
        /\ \A u \in Task \ {t} : callers'[u] = callers[u]
    <3> DEFINE c == [[callers[t] EXCEPT !.pc = "owning"] EXCEPT !.promise = n]
    <3>1. callers' = [callers EXCEPT ![t] = c]
      BY <1>1, <1>6, <2>1, CallTypes
    <3>2. c \in Calling /\ c.pc = "owning" /\ c.promise = n /\ c.key = k
      BY <1>2, <1>3, <2>1 DEF Calling
    <3> HIDE DEF c
    <3> QED
      BY <1>1, <3>1, <3>2, CallTypes
  <2>3. callStats' \in [total : Nat, hits : Nat, misses : Nat, prevented : Nat] /\ MetricsCounted'
    BY <1>1, <1>3, <2>2, LookCounted
  <2>4. PromiseInv'
    BY <1>1, <1>3, <1>4, <1>6, <2>1, <2>2, <2>3, PromiseMade
  <2> QED
    BY <1>1, <1>3, <2>3, <2>4 DEF StampedeInv
<1> QED
  BY <1>2, <1>5, <1>6 DEF CallMisses

\* The steps of a task.
LEMMA CallStep ==
    ASSUME StampedeInv, NEW t \in Task,
           \/ \E k \in FunctionKey : CallBegins(t, k)
           \/ CallHits(t)
           \/ CallMisses(t)
           \/ CallMissesUnguarded(t)
           \/ OwnerResumes(t)
           \/ WaiterResumes(t)
           \/ SlidingHits(t)
           \/ \E returns \in BOOLEAN : DirectEnds(t, returns)
           \/ ValueStored(t)
           \/ CallCancelled(t)
    PROVE  StampedeInv'
<1>1. /\ CallTypeOK /\ Promised /\ PromiseInv /\ MetricsCounted /\ now \in Nat
      /\ callers \in [Task -> Calling] /\ promises \in [FunctionKey -> Nat]
      /\ values \in SUBSET FunctionKey /\ tidied \in Nat /\ forgotten \in BOOLEAN
      /\ callStats \in [total : Nat, hits : Nat, misses : Nat, prevented : Nat]
  BY DEF StampedeInv, PromiseInv, CallTypeOK
<1>2. ASSUME NEW k \in FunctionKey, CallBegins(t, k)
      PROVE  StampedeInv'
  <2>1. /\ callers[t].pc = "idle"
        /\ callers' = [callers EXCEPT ![t] = [pc |-> "looking", key |-> k,
                                              promise |-> 0, began |-> 0]]
        /\ callStats' = [callStats EXCEPT !.total = @ + 1]
        /\ UNCHANGED <<now, values, promises, executions, tidied, forgotten, circuit>>
    BY <1>2 DEF CallBegins
  <2>2. /\ callers' \in [Task -> Calling] /\ callers'[t].pc = "looking"
        /\ \A u \in Task \ {t} : callers'[u] = callers[u]
    BY <1>1, <2>1 DEF Calling
  <2>3. callStats' \in [total : Nat, hits : Nat, misses : Nat, prevented : Nat] /\ MetricsCounted'
    BY <1>1, <2>1, <2>2, BeginCounted
  <2>4. PromiseInv'
    BY <1>1, <2>1, <2>2, <2>3, CallerGoesOn
  <2> QED
    BY <1>1, <2>1, <2>3, <2>4 DEF StampedeInv
<1>3. CASE CallHits(t) \/ CallMissesUnguarded(t)
  <2>1. /\ callers[t].pc = "looking"
        /\ CallGoes(t, "idle") \/ CallGoes(t, "direct")
        /\ callStats' \in {[callStats EXCEPT !.hits = @ + 1], [callStats EXCEPT !.misses = @ + 1]}
        /\ UNCHANGED <<now, values, promises, executions, tidied, circuit>>
        /\ forgotten' \in BOOLEAN /\ (forgotten = TRUE => forgotten' = TRUE)
    BY <1>1, <1>3 DEF CallHits, CallMissesUnguarded, Missed
  <2>2. /\ callers' \in [Task -> Calling] /\ callers'[t].pc \in {"idle", "direct"}
        /\ \A u \in Task \ {t} : callers'[u] = callers[u]
    BY <1>1, <2>1, GoesTo
  <2>3. callStats' \in [total : Nat, hits : Nat, misses : Nat, prevented : Nat] /\ MetricsCounted'
    BY <1>1, <2>1, <2>2, LookCounted
  <2>4. PromiseInv'
    BY <1>1, <2>1, <2>2, <2>3, CallerGoesOn
  <2> QED
    BY <1>1, <2>1, <2>3, <2>4 DEF StampedeInv
<1>4. ASSUME callers[t].pc = "owning", executions[callers[t].promise].pc = "done",
             Popped(callers[t].key),
             NEW pc \in {"idle", "direct"}, CallGoes(t, pc),
             UNCHANGED <<now, values, executions, tidied, forgotten, callStats, circuit>>
      PROVE  StampedeInv'
  <2>1. /\ callers' \in [Task -> Calling] /\ callers'[t].pc = pc
        /\ \A u \in Task \ {t} : callers'[u] = callers[u]
    BY <1>1, <1>4, GoesTo
  <2>2. PromiseInv'
    BY <1>1, <1>4, <2>1, OwnerLeaves DEF Popped
  <2>3. MetricsCounted'
    BY <1>1, <1>4, <2>1, CountsStay
  <2> QED
    BY <1>1, <1>4, <2>2, <2>3 DEF StampedeInv
<1>5. CASE OwnerResumes(t)
  <2>1. PICK pc \in {"idle", "direct"} : CallGoes(t, pc)
    BY <1>5 DEF OwnerResumes
  <2> QED
    BY <1>4, <1>5, <2>1 DEF OwnerResumes
<1>6. CASE WaiterResumes(t)
  <2>1. /\ callers[t].pc = "waiting"
        /\ callStats' \in {callStats, [callStats EXCEPT !.prevented = @ + 1]}
        /\ UNCHANGED <<now, values, executions, tidied, forgotten, circuit>>
        /\ CallGoes(t, "idle") \/ CallGoes(t, "direct")
    BY <1>6 DEF WaiterResumes
  <2>2. /\ callers' \in [Task -> Calling] /\ callers'[t].pc \in {"idle", "direct"}
        /\ \A u \in Task \ {t} : callers'[u] = callers[u]
    BY <1>1, <2>1, GoesTo
  <2>3. callStats' \in [total : Nat, hits : Nat, misses : Nat, prevented : Nat] /\ MetricsCounted'
    BY <1>1, <2>1, <2>2, WaitCounted
  <2>4. /\ promises' \in [FunctionKey -> Nat]
        /\ \A k \in FunctionKey : promises'[k] \in {0, promises[k]}
    BY <1>1, <1>6 DEF WaiterResumes, Popped
  <2>5. promises' = promises \/ ~Undisturbed
    <3>1. callers[t].promise \in DOMAIN executions
      BY <1>1, <2>1 DEF Promised
    <3> QED
      BY <1>6, <3>1 DEF WaiterResumes, Undisturbed
  <2>6. PromiseInv'
    BY <1>1, <2>1, <2>2, <2>3, <2>4, <2>5, CallerGoesOn
  <2> QED
    BY <1>1, <2>1, <2>3, <2>6 DEF StampedeInv
<1>7. CASE SlidingHits(t) \/ ValueStored(t) \/ \E returns \in BOOLEAN : DirectEnds(t, returns)
  <2>1. /\ callers[t].pc # "owning" /\ values' \in SUBSET FunctionKey
        /\ UNCHANGED <<now, stampede, circuit>>
        /\ \E pc \in {"idle", "storing", "extending"} : CallGoes(t, pc)
    BY <1>1, <1>7, CallTypes DEF SlidingHits, ValueStored, DirectEnds
  <2> QED
    BY <1>1, <2>1, GoesUncounted DEF stampede
<1>8. CASE CallCancelled(t)
  <2>1. UNCHANGED <<now, values, tidied, forgotten, callStats, circuit>>
    BY <1>8 DEF CallCancelled
  <2>2. CASE /\ callers[t].pc # "owning" /\ CallGoes(t, "idle")
             /\ UNCHANGED <<executions, promises>>
    BY <1>1, <2>1, <2>2, GoesUncounted
  <2>3. CASE /\ callers[t].pc \in {"owning", "waiting"}
             /\ executions[callers[t].promise].pc \in {"running", "storing"}
             /\ executions' = [executions EXCEPT ![callers[t].promise].pc = "cancelling"]
             /\ UNCHANGED <<callers, promises>>
    <3>1. PICK e \in DOMAIN executions : e = callers[t].promise
      BY <1>1, <2>3 DEF Promised
    <3> DEFINE x == [executions[e] EXCEPT !.pc = "cancelling"]
    <3>2. /\ x \in SharedExecution /\ x.key = executions[e].key /\ x.pc = "cancelling"
          /\ x.outcome = executions[e].outcome
      BY <1>1, CallTypes DEF SharedExecution
    <3>3. executions' = [executions EXCEPT ![e] = x]
      BY <2>3, <3>1
    <3> HIDE DEF x
    <3>4. PromiseInv'
      BY <1>1, <2>1, <2>3, <3>1, <3>2, <3>3, ExecutionGoesOn
    <3>5. MetricsCounted'
      BY <1>1, <2>1, <2>3 DEF MetricsCounted, Looking, Waiting
    <3> QED
      BY <1>1, <2>1, <3>4, <3>5 DEF StampedeInv
  <2>4. CASE /\ callers[t].pc = "owning" /\ Popped(callers[t].key) /\ CallGoes(t, "idle")
             /\ executions[callers[t].promise].pc = "done" /\ UNCHANGED executions
    BY <1>4, <2>1, <2>4
  <2> QED
    BY <1>8, <2>2, <2>3, <2>4 DEF CallCancelled
<1> QED
  BY <1>2, <1>3, <1>5, <1>6, <1>7, <1>8, CallMissesKeeps

\* The steps of an execution.
LEMMA ExecutionStep ==
    ASSUME StampedeInv, NEW e \in DOMAIN executions,
           \/ ExecutionReturns(e)
           \/ ExecutionRaises(e)
           \/ \E kept \in BOOLEAN : ExecutionStores(e, kept)
           \/ ExecutionCancelled(e)
    PROVE  StampedeInv'
<1>1. /\ CallTypeOK /\ PromiseInv /\ MetricsCounted
      /\ executions[e] \in SharedExecution /\ executions[e].key \in FunctionKey
      /\ values \in SUBSET FunctionKey
  BY CallTypes DEF StampedeInv, PromiseInv
<1>2. /\ executions[e].pc # "done" /\ values' \in SUBSET FunctionKey
      /\ UNCHANGED <<now, promises, tidied, forgotten, callers, callStats, circuit>>
  BY <1>1 DEF ExecutionReturns, ExecutionRaises, ExecutionStores, ExecutionCancelled
<1>3. \E x \in SharedExecution :
         /\ executions' = [executions EXCEPT ![e] = x]
         /\ x.key = executions[e].key
         /\ x.pc # "done" => x.outcome = executions[e].outcome
  <2>1. CASE executions' = [executions EXCEPT ![e] = [executions[e] EXCEPT !.pc = "storing"]]
    <3> DEFINE x == [executions[e] EXCEPT !.pc = "storing"]
    <3>1. x \in SharedExecution /\ x.key = executions[e].key /\ x.outcome = executions[e].outcome
      BY <1>1 DEF SharedExecution
    <3> QED
      BY <2>1, <3>1
  <2>2. ASSUME NEW o \in {"data", "raised", "cancelled"}, ExecutionEnds(e, o)
        PROVE  \E x \in SharedExecution :
                  /\ executions' = [executions EXCEPT ![e] = x]
                  /\ x.key = executions[e].key /\ x.pc = "done"
    <3> DEFINE x == [[executions[e] EXCEPT !.pc = "done"] EXCEPT !.outcome = o]
    <3>1. x \in SharedExecution /\ x.key = executions[e].key /\ x.pc = "done"
      BY <1>1 DEF SharedExecution
    <3>2. executions' = [executions EXCEPT ![e] = x]
      BY <1>1, <2>2, CallTypes DEF ExecutionEnds
    <3> QED
      BY <3>1, <3>2
  <2> QED
    BY <2>1, <2>2 DEF ExecutionReturns, ExecutionRaises, ExecutionStores, ExecutionCancelled
<1>4. PromiseInv'
  BY <1>1, <1>2, <1>3, ExecutionGoesOn
<1>5. MetricsCounted'
  BY <1>1, <1>2 DEF MetricsCounted, Looking, Waiting
<1> QED
  BY <1>2, <1>4, <1>5 DEF StampedeInv

LEMMA StampedeStep == StampedeInv /\ [StampedeNext]_<<now, callVars>> => StampedeInv'
<1> SUFFICES ASSUME StampedeInv, [StampedeNext]_<<now, callVars>> PROVE StampedeInv'
  OBVIOUS
<1>1. /\ CallTypeOK /\ Promised /\ PromiseInv /\ MetricsCounted /\ now \in Nat
      /\ callers \in [Task -> Calling] /\ promises \in [FunctionKey -> Nat]
      /\ values \in SUBSET FunctionKey /\ tidied \in Nat /\ forgotten \in BOOLEAN
      /\ callStats \in [total : Nat, hits : Nat, misses : Nat, prevented : Nat]
  BY DEF StampedeInv, PromiseInv, CallTypeOK
<1>2. ASSUME PromisesCleared PROVE StampedeInv'
  <2>1. /\ promises' = NoPromises /\ forgotten' = TRUE
        /\ UNCHANGED <<now, values, executions, tidied, callers, callStats, circuit>>
    BY <1>2 DEF PromisesCleared
  <2>2. PromiseInv'
    BY <1>1, <2>1, CallerGoesOn DEF NoPromises
  <2>3. MetricsCounted'
    BY <1>1, <2>1 DEF MetricsCounted, Looking, Waiting
  <2> QED
    BY <1>1, <2>1, <2>2, <2>3 DEF StampedeInv
<1>3. ASSUME UNCHANGED <<stampede, callers, circuit>>, values' \in SUBSET FunctionKey,
             now' \in Nat
      PROVE  StampedeInv'
  <2>1. UNCHANGED <<promises, executions, tidied, forgotten, callStats>>
    BY <1>3 DEF stampede
  <2>2. PromiseInv'
    BY <1>1, <1>3, <2>1, CallerGoesOn
  <2>3. MetricsCounted'
    BY <1>1, <1>3, <2>1 DEF MetricsCounted, Looking, Waiting
  <2> QED
    BY <1>1, <1>3, <2>1, <2>2, <2>3 DEF StampedeInv
<1>4. ASSUME NEW k \in FunctionKey, ValueGoes(k) PROVE StampedeInv'
  BY <1>1, <1>3, <1>4 DEF ValueGoes
<1>5. ASSUME Later(CallHorizon), UNCHANGED callVars PROVE StampedeInv'
  BY <1>1, <1>3, <1>5 DEF Later, callVars, stampede
<1>6. ASSUME UNCHANGED <<now, callVars>> PROVE StampedeInv'
  BY <1>1, <1>3, <1>6 DEF callVars, stampede
<1> QED
  BY <1>2, <1>4, <1>5, <1>6, CallStep, ExecutionStep DEF StampedeNext

(****************************************************************************)
(* Callers of async_cached() share one execution of a key until one fails or *)
(* a promise is thrown away; no promise outlives the call that made it; the  *)
(* counts agree.  This is CacheStampedeManager, for any number of callers.   *)
(****************************************************************************)
THEOREM StampedeSafe == StampedeSpec => []CallsCorrect
<1>1. now = 0 /\ CallInit => StampedeInv
  BY StampedeInvInit
<1>2. StampedeInv /\ [StampedeNext]_<<now, callVars>> => StampedeInv'
  BY StampedeStep
<1>3. StampedeInv => CallsCorrect
  BY StampedeInvCorrect
<1> QED
  BY <1>1, <1>2, <1>3, PTL DEF StampedeSpec

(****************************************************************************)
(* Cache strategies.                                                        *)
(****************************************************************************)

\* What the call of a task is about.
CacheCallFits(call) ==
    /\ call.pc = "idle" => call = NoCall
    /\ call.pc \in {"read", "write", "delete", "evict"} => Len(call.of) = 1
    /\ call.pc = "sweep" => Len(call.of) > 1
    /\ call.pc \in {"read", "sweep"} => call.op = "get"
    /\ call.pc \in {"write", "evict", "clear"} => call.op # "get"

\* What holds over a MemoryCache while only task t may be in a call: every
\* stored key is booked but the one it is deleting, and one key at most is
\* still to be evicted.
MemoryAt(t) ==
    /\ \A u \in Task \ {t} : cacheCalls[u].pc = "idle"
    /\ caching.strategy # "lfu" \/ ~frozen =>
          \A k \in stored :
             \/ Booked(k)
             \/ cacheCalls[t].pc = "clear"
             \/ cacheCalls[t].pc = "delete" /\ k = Head(cacheCalls[t].of)
    /\ caching.strategy = "ttl" /\ cacheCalls[t].pc = "write" =>
          Booked(Head(cacheCalls[t].of))
    /\ caching.strategy # "ttl" =>
          /\ \/ Len(order) <= StrategySize
             \/ Len(order) = StrategySize + 1 /\ cacheCalls[t].pc = "evict"
          /\ cacheCalls[t].pc = "evict" => Booked(Head(cacheCalls[t].of))

CacheInv ==
    /\ now \in Nat
    /\ CacheTypeOK
    /\ \A t \in Task : CacheCallFits(cacheCalls[t])
    /\ ~caching.awaited => \E t \in Task : MemoryAt(t)
    /\ GetsCounted

LEMMA NoCallType == NoCall \in CacheCall /\ NoCall.pc = "idle" /\ NoCall.op = "none"
                    /\ CacheCallFits(NoCall)
BY DEF NoCall, CacheCall, CacheCallFits

LEMMA Unbooks ==
    ASSUME order \in Seq(CachedKey), weight \in [CachedKey -> Nat],
           NEW k \in CachedKey, Unbook(k)
    PROVE  /\ order' \in Seq(CachedKey)
           /\ weight' \in [CachedKey -> Nat]
           /\ Len(order') <= Len(order)
           /\ Booked(k) => Len(order') < Len(order)
           /\ Range(order') = Range(order) \ {k}
<1>1. /\ order' \in Seq(CachedKey)
      /\ Len(order') <= Len(order)
      /\ Range(order') = Range(order) \cap (CachedKey \ {k})
      /\ Range(order) \subseteq CachedKey \ {k} \/ Len(order') < Len(order)
  BY KeepingKeeps DEF Unbook
<1>2. Range(order) \subseteq CachedKey
  BY DEF Range
<1>3. weight' \in [CachedKey -> Nat]
  BY DEF Unbook
<1> QED
  BY <1>1, <1>2, <1>3 DEF Booked

LEMMA Uses ==
    ASSUME order \in Seq(CachedKey), NEW k \in CachedKey, Used(k)
    PROVE  /\ order' \in Seq(CachedKey)
           /\ Len(order') <= Len(order) + 1
           /\ Booked(k) => Len(order') <= Len(order)
           /\ Range(order') = Range(order) \cup {k}
<1> DEFINE w == Keeping(order, CachedKey \ {k})
<1>1. /\ w \in Seq(CachedKey)
      /\ Len(w) <= Len(order)
      /\ Range(w) = Range(order) \cap (CachedKey \ {k})
      /\ Range(order) \subseteq CachedKey \ {k} \/ Len(w) < Len(order)
  BY KeepingKeeps
<1>2. Range(order) \subseteq CachedKey
  BY DEF Range
<1>3. order' = Append(w, k)
  BY DEF Used
<1> HIDE DEF w
<1>4. /\ order' \in Seq(CachedKey)
      /\ Len(order') = Len(w) + 1
      /\ Range(order') = Range(w) \cup {k}
  BY <1>1, <1>3, AppendedRange
<1>5. Len(w) \in Nat /\ Len(order) \in Nat
  BY <1>1
<1> QED
  BY <1>1, <1>2, <1>4, <1>5 DEF Booked

LEMMA BookedOnce ==
    ASSUME order \in Seq(CachedKey), NEW k \in CachedKey
    PROVE  LET keys == IF Booked(k) THEN order ELSE Append(order, k)
           IN  /\ keys \in Seq(CachedKey)
               /\ Len(keys) <= Len(order) + 1
               /\ Booked(k) => Len(keys) = Len(order)
               /\ Range(keys) = Range(order) \cup {k}
<1>1. Len(order) \in Nat
  OBVIOUS
<1>2. CASE Booked(k)
  BY <1>1, <1>2 DEF Booked
<1>3. CASE ~Booked(k)
  BY <1>1, <1>3, AppendedRange
<1> QED
  BY <1>2, <1>3

LEMMA AgedType ==
    ASSUME NEW frequencies \in [CachedKey -> Nat]
    PROVE  AgedToZero(frequencies) \in [CachedKey -> Nat]
<1>1. \A n \in Nat : (n * 9) \div 10 \in Nat
  OBVIOUS
<1> QED
  BY <1>1 DEF AgedToZero

LEMMA Counts ==
    ASSUME order \in Seq(CachedKey), weight \in [CachedKey -> Nat],
           frozen \in BOOLEAN, swept \in Nat, now \in Nat,
           NEW k \in CachedKey, Counted(k)
    PROVE  /\ order' \in Seq(CachedKey)
           /\ weight' \in [CachedKey -> Nat]
           /\ frozen' \in BOOLEAN
           /\ swept' \in Nat
           /\ Len(order') <= Len(order) + 1
           /\ Booked(k) => Len(order') <= Len(order)
           /\ ~frozen' => ~frozen /\ Range(order') = Range(order) \cup {k}
<1> DEFINE raised == [weight EXCEPT ![k] = @ + 1]
           keys == IF Booked(k) THEN order ELSE Append(order, k)
           alive == {j \in CachedKey : AgedToZero(raised)[j] > 0}
<1>1. raised \in [CachedKey -> Nat]
  OBVIOUS
<1>2. AgedToZero(raised) \in [CachedKey -> Nat]
  BY <1>1, AgedType
<1>3. /\ keys \in Seq(CachedKey)
      /\ Len(keys) <= Len(order) + 1
      /\ Booked(k) => Len(keys) = Len(order)
      /\ Range(keys) = Range(order) \cup {k}
  BY BookedOnce
<1>4. /\ Keeping(keys, alive) \in Seq(CachedKey)
      /\ Len(Keeping(keys, alive)) <= Len(keys)
  <2> HIDE DEF keys, alive
  <2> QED
    BY <1>3, KeepingKeeps
<1>5. \/ weight' = raised /\ order' = keys /\ frozen' = frozen /\ swept' = swept
      \/ /\ weight' = AgedToZero(raised) /\ order' = Keeping(keys, alive)
         /\ frozen' = TRUE /\ swept' = now
  BY Zenon DEF Counted
<1>6. Len(keys) \in Nat /\ Len(order) \in Nat
  BY <1>3
<1> HIDE DEF raised, keys, alive
<1>7. CASE weight' = raised /\ order' = keys /\ frozen' = frozen /\ swept' = swept
  BY <1>1, <1>3, <1>6, <1>7
<1>8. CASE /\ weight' = AgedToZero(raised) /\ order' = Keeping(keys, alive)
           /\ frozen' = TRUE /\ swept' = now
  <2>1. Len(order') \in Nat /\ Len(order') <= Len(keys)
    BY <1>4, <1>8
  <2>2. Len(order') <= Len(order) + 1 /\ (Booked(k) => Len(order') <= Len(order))
    BY <1>3, <1>6, <2>1
  <2> QED
    BY <1>2, <1>4, <1>8, <2>2
<1> QED
  BY <1>5, <1>7, <1>8

\* The key to evict is one of the keys.
LEMMA VictimBooked ==
    ASSUME NEW keys \in Seq(CachedKey), Len(keys) > 0,
           NEW frequencies \in [CachedKey -> Nat]
    PROVE  Victim(keys, frequencies) \in Range(keys) /\ Range(keys) \subseteq CachedKey
<1>1. \A s \in Seq(CachedKey) : Len(s) > 0 => Head(s) \in Range(s)
  BY DEF Range
<1>2. Range(keys) \subseteq CachedKey
  BY DEF Range
<1>3. CASE caching.strategy = "lru"
  BY <1>1, <1>2, <1>3 DEF Victim
<1>4. CASE caching.strategy # "lru"
  <2> DEFINE F == {frequencies[k] : k \in Range(keys)}
             least == Min(F)
             lowest == {k \in CachedKey : frequencies[k] = least}
  <2>1. F \in SUBSET Nat /\ frequencies[Head(keys)] \in F
    BY <1>1, <1>2
  <2>2. \E m \in F : \A n \in F : m <= n
    <3> HIDE DEF F
    <3> QED
      BY <2>1, LeastNatural
  <2>3. least \in F
    <3> HIDE DEF F
    <3> QED
      BY <2>2 DEF Min
  <2>4. /\ Keeping(keys, lowest) \in Seq(CachedKey)
        /\ Range(Keeping(keys, lowest)) = Range(keys) \cap lowest
    <3> HIDE DEF lowest
    <3> QED
      BY KeepingKeeps
  <2>5. PICK k \in Range(keys) : frequencies[k] = least
    BY <2>3
  <2>6. k \in Range(Keeping(keys, lowest))
    BY <1>2, <2>4, <2>5
  <2>7. Victim(keys, frequencies) = Head(Keeping(keys, lowest))
    BY <1>4 DEF Victim
  <2> HIDE DEF lowest, F, least
  <2>8. Len(Keeping(keys, lowest)) > 0
    BY <2>4, <2>6 DEF Range
  <2>9. Head(Keeping(keys, lowest)) \in Range(Keeping(keys, lowest))
    BY <1>1, <2>4, <2>8
  <2> QED
    BY <1>2, <2>4, <2>7, <2>9
<1> QED
  BY <1>3, <1>4

LEMMA OneKey ==
    ASSUME NEW k \in CachedKey
    PROVE  <<k>> \in Seq(CachedKey) /\ Len(<<k>>) = 1 /\ Head(<<k>>) = k
OBVIOUS

LEMMA Becoming ==
    ASSUME cacheCalls \in [Task -> CacheCall], NEW t \in Task,
           NEW call \in CacheCall, Becomes(t, call)
    PROVE  /\ cacheCalls' \in [Task -> CacheCall]
           /\ cacheCalls'[t] = call
           /\ \A u \in Task \ {t} : cacheCalls'[u] = cacheCalls[u]
BY DEF Becomes

\* set() goes on to evict a booked key, or ends with at most max_size of them.
LEMMA Evicting ==
    ASSUME cacheCalls \in [Task -> CacheCall], NEW t \in Task, Evicts(t),
           order' \in Seq(CachedKey), weight' \in [CachedKey -> Nat],
           caching' = caching
    PROVE  /\ cacheCalls' \in [Task -> CacheCall]
           /\ CacheCallFits(cacheCalls'[t])
           /\ cacheCalls'[t].op # "get"
           /\ \/ /\ Len(order') > StrategySize
                 /\ cacheCalls'[t].pc = "evict"
                 /\ Head(cacheCalls'[t].of) \in Range(order')
              \/ Len(order') <= StrategySize /\ cacheCalls'[t] = NoCall
           /\ \A u \in Task \ {t} : cacheCalls'[u] = cacheCalls[u]
<1>1. CASE Len(order') > StrategySize
  <2> DEFINE v == Victim(order', weight')
             call == [NoCall EXCEPT !.pc = "evict", !.op = "set", !.of = <<v>>]
  <2>1. Len(order') > 0
    BY <1>1, CacheAssumption
  <2>2. v \in Range(order') /\ v \in CachedKey
    BY <2>1, VictimBooked
  <2>3. Becomes(t, call)
    BY <1>1, Zenon DEF Evicts
  <2> HIDE DEF v
  <2>4. /\ call \in CacheCall /\ call.pc = "evict" /\ call.op = "set"
        /\ Len(call.of) = 1 /\ Head(call.of) = v
    <3> DEFINE f == <<v>>
    <3>1. f \in Seq(CachedKey) /\ Len(f) = 1 /\ Head(f) = v
      BY <2>2, OneKey
    <3> HIDE DEF f
    <3>2. LET c == [NoCall EXCEPT !.pc = "evict", !.op = "set", !.of = f]
          IN  c \in CacheCall /\ c.pc = "evict" /\ c.op = "set" /\ c.of = f
      BY <3>1 DEF NoCall, CacheCall
    <3> QED
      BY <3>1, <3>2 DEF f
  <2> HIDE DEF call
  <2>5. /\ cacheCalls' \in [Task -> CacheCall]
        /\ cacheCalls'[t] = call
        /\ \A u \in Task \ {t} : cacheCalls'[u] = cacheCalls[u]
    BY <2>3, <2>4, Becoming
  <2>6. CacheCallFits(call)
    BY <2>4 DEF CacheCallFits
  <2> QED
    BY <1>1, <2>2, <2>4, <2>5, <2>6
<1>2. CASE ~(Len(order') > StrategySize)
  <2>1. Becomes(t, NoCall)
    BY <1>2, Zenon DEF Evicts
  <2>2. /\ cacheCalls' \in [Task -> CacheCall]
        /\ cacheCalls'[t] = NoCall
        /\ \A u \in Task \ {t} : cacheCalls'[u] = cacheCalls[u]
    BY <2>1, NoCallType, Becoming
  <2>3. Len(order') <= StrategySize
    BY <1>2, CacheAssumption
  <2> QED
    BY <2>2, <2>3, NoCallType
<1> QED
  BY <1>1, <1>2

\* A call that begins or goes on over a MemoryCache does so alone.
LEMMA Alone ==
    ASSUME CacheInv, NEW t \in Task, ~caching.awaited,
           cacheCalls[t].pc # "idle" \/ Runs(t)
    PROVE  MemoryAt(t)
<1>1. PICK u \in Task : MemoryAt(u)
  BY DEF CacheInv
<1>2. CASE u = t
  BY <1>1, <1>2
<1>3. CASE u # t
  <2>1. cacheCalls[t].pc = "idle"
    BY <1>1, <1>3 DEF MemoryAt
  <2>2. \A v \in Task \ {t} : cacheCalls[v].pc = "idle"
    BY <2>1 DEF Runs
  <2>3. cacheCalls[u].pc = "idle"
    BY <1>3, <2>2
  <2> QED
    BY <1>1, <2>1, <2>2, <2>3 DEF MemoryAt
<1> QED
  BY <1>2, <1>3

LEMMA GetsStep ==
    ASSUME CacheInv, CacheTypeOK', NEW t \in Task,
           \A u \in Task \ {t} : cacheCalls'[u] = cacheCalls[u],
           \/ /\ cacheStats'.hits = cacheStats.hits
              /\ cacheStats'.misses = cacheStats.misses
              /\ cacheStats'.gets = cacheStats.gets
              /\ cacheCalls'[t].op = "get" => cacheCalls[t].op = "get"
           \/ /\ cacheStats'.hits + cacheStats'.misses
                   = cacheStats.hits + cacheStats.misses + 1
              /\ cacheStats'.gets = cacheStats.gets
              /\ cacheCalls[t].op = "get"
              /\ cacheCalls'[t].op # "get"
           \/ /\ cacheStats'.hits = cacheStats.hits
              /\ cacheStats'.misses = cacheStats.misses
              /\ cacheStats'.gets = cacheStats.gets + 1
    PROVE  GetsCounted'
<1> DEFINE S == {u \in Task : cacheCalls[u].op = "get"}
           T == {u \in Task : cacheCalls'[u].op = "get"}
           h == cacheStats.hits + cacheStats.misses
           i == cacheStats'.hits + cacheStats'.misses
           g == cacheStats.gets
           j == cacheStats'.gets
<1>1. S \in SUBSET Task /\ T \in SUBSET Task /\ T \subseteq S \cup {t}
  OBVIOUS
<1>2. h \in Nat /\ i \in Nat /\ g \in Nat /\ j \in Nat
  <2> DEFINE Counters == [gets : Nat, sets : Nat, deletes : Nat, hits : Nat,
                          misses : Nat]
  <2>1. cacheStats \in Counters /\ cacheStats' \in Counters
    BY Zenon DEF CacheInv, CacheTypeOK
  <2> QED
    BY ONLY <2>1
<1>3. h + Cardinality(S) <= g
  BY DEF CacheInv, GetsCounted
<1>4. \/ i = h /\ j = g /\ T \subseteq S
      \/ i = h + 1 /\ j = g /\ t \in S /\ T \subseteq S \ {t}
      \/ i = h /\ j = g + 1
  OBVIOUS
<1> HIDE DEF S, T, h, i, g, j
<1>5. Cardinality(S) \in Nat /\ Cardinality(T) \in Nat
      /\ Cardinality(T) <= Cardinality(S) + 1
  BY <1>1, TaskComes
<1>6. CASE i = h /\ j = g /\ T \subseteq S
  <2>1. Cardinality(T) <= Cardinality(S)
    BY <1>1, <1>6, TasksFewer
  <2> QED
    BY <1>2, <1>3, <1>5, <1>6, <2>1 DEF GetsCounted, T, i, j
<1>7. CASE i = h + 1 /\ j = g /\ t \in S /\ T \subseteq S \ {t}
  <2>1. Cardinality(T) + 1 <= Cardinality(S)
    BY <1>1, <1>7, TaskLeaves
  <2>2. i + Cardinality(T) <= j
    BY <1>2, <1>3, <1>5, <1>7, <2>1
  <2> QED
    BY <2>2 DEF GetsCounted, T, i, j
<1>8. CASE i = h /\ j = g + 1
  <2>1. i + Cardinality(T) <= j
    BY <1>2, <1>3, <1>5, <1>8
  <2> QED
    BY <2>1 DEF GetsCounted, T, i, j
<1> QED
  BY <1>4, <1>6, <1>7, <1>8

LEMMA CacheKeeps ==
    ASSUME CacheInv, NEW t \in Task, now' = now, caching' = caching,
           stored' \in SUBSET CachedKey, order' \in Seq(CachedKey),
           weight' \in [CachedKey -> Nat], frozen' \in BOOLEAN, swept' \in Nat,
           cacheCalls' \in [Task -> CacheCall],
           cacheStats' \in [gets : Nat, sets : Nat, deletes : Nat, hits : Nat,
                            misses : Nat],
           CacheCallFits(cacheCalls'[t]),
           \A u \in Task \ {t} : cacheCalls'[u] = cacheCalls[u],
           ~caching.awaited => MemoryAt(t)',
           \/ /\ cacheStats'.hits = cacheStats.hits
              /\ cacheStats'.misses = cacheStats.misses
              /\ cacheStats'.gets = cacheStats.gets
              /\ cacheCalls'[t].op = "get" => cacheCalls[t].op = "get"
           \/ /\ cacheStats'.hits + cacheStats'.misses
                   = cacheStats.hits + cacheStats.misses + 1
              /\ cacheStats'.gets = cacheStats.gets
              /\ cacheCalls[t].op = "get"
              /\ cacheCalls'[t].op # "get"
           \/ /\ cacheStats'.hits = cacheStats.hits
              /\ cacheStats'.misses = cacheStats.misses
              /\ cacheStats'.gets = cacheStats.gets + 1
    PROVE  CacheInv'
<1>1. CacheTypeOK'
  BY DEF CacheInv, CacheTypeOK
<1>2. GetsCounted'
  BY <1>1, GetsStep
<1>3. \A u \in Task : CacheCallFits(cacheCalls[u])'
  <2>1. \A u \in Task : CacheCallFits(cacheCalls'[u])
    BY Zenon DEF CacheInv
  <2> QED
    BY <2>1 DEF CacheCallFits, NoCall
<1>4. (~caching.awaited)' => \E u \in Task : MemoryAt(u)'
  BY Zenon
<1>5. (now \in Nat)'
  BY DEF CacheInv
<1> QED
  BY <1>1, <1>2, <1>3, <1>4, <1>5, Zenon DEF CacheInv

\* Over a MemoryCache the key of a call that begins or goes on is the one the
\* rest of the invariant speaks of.
LEMMA MemoryKeeps ==
    ASSUME NEW t \in Task, MemoryAt(t), caching' = caching,
           \A u \in Task \ {t} : cacheCalls'[u] = cacheCalls[u],
           caching.strategy # "lfu" \/ ~frozen' =>
              \A k \in stored' :
                 \/ k \in Range(order')
                 \/ cacheCalls'[t].pc = "clear"
                 \/ cacheCalls'[t].pc = "delete" /\ k = Head(cacheCalls'[t].of),
           caching.strategy = "ttl" /\ cacheCalls'[t].pc = "write" =>
              Head(cacheCalls'[t].of) \in Range(order'),
           caching.strategy # "ttl" =>
              \/ Len(order') <= StrategySize
              \/ /\ Len(order') = StrategySize + 1
                 /\ cacheCalls'[t].pc = "evict"
                 /\ Head(cacheCalls'[t].of) \in Range(order'),
           cacheCalls'[t].pc = "evict" => Head(cacheCalls'[t].of) \in Range(order')
    PROVE  MemoryAt(t)'
BY DEF MemoryAt, Booked

LEMMA CacheTypes ==
    ASSUME CacheInv
    PROVE  /\ now \in Nat /\ stored \in SUBSET CachedKey /\ order \in Seq(CachedKey)
           /\ weight \in [CachedKey -> Nat] /\ frozen \in BOOLEAN /\ swept \in Nat
           /\ cacheCalls \in [Task -> CacheCall]
           /\ cacheStats \in [gets : Nat, sets : Nat, deletes : Nat, hits : Nat,
                              misses : Nat]
           /\ \A t \in Task : CacheCallFits(cacheCalls[t])
BY Zenon DEF CacheInv, CacheTypeOK

\* The call that a step makes of a task.
MadeCall(p, o, k) == [NoCall EXCEPT !.pc = p, !.op = o, !.of = <<k>>]

LEMMA CallMade ==
    ASSUME NEW k \in CachedKey,
           NEW p \in {"read", "write", "delete", "clear"},
           NEW o \in {"get", "set", "delete", "clear"}
    PROVE  /\ MadeCall(p, o, k) \in CacheCall
           /\ MadeCall(p, o, k).pc = p /\ MadeCall(p, o, k).op = o
           /\ Len(MadeCall(p, o, k).of) = 1 /\ Head(MadeCall(p, o, k).of) = k
<1> DEFINE f == <<k>>
<1>1. f \in Seq(CachedKey) /\ Len(f) = 1 /\ Head(f) = k
  BY OneKey
<1> HIDE DEF f
<1>2. LET c == [NoCall EXCEPT !.pc = p, !.op = o, !.of = f]
      IN  c \in CacheCall /\ c.pc = p /\ c.op = o /\ c.of = f
  BY <1>1 DEF NoCall, CacheCall
<1> QED
  BY <1>1, <1>2 DEF f, MadeCall

LEMMA Sweeping ==
    ASSUME cacheCalls \in [Task -> CacheCall], swept \in Nat, NEW t \in Task,
           NEW call \in CacheCall, call.op = "get", Len(call.of) > 0,
           SweepsOn(t, call)
    PROVE  /\ cacheCalls' \in [Task -> CacheCall]
           /\ CacheCallFits(cacheCalls'[t])
           /\ cacheCalls'[t].op = "get" /\ cacheCalls'[t].pc \in {"read", "sweep"}
           /\ \A u \in Task \ {t} : cacheCalls'[u] = cacheCalls[u]
           /\ swept' \in Nat
<1>1. call.began \in Nat /\ call.of \in Seq(CachedKey)
  BY DEF CacheCall
<1>2. CASE Len(call.of) = 1
  <2> DEFINE d == [call EXCEPT !.pc = "read"]
  <2>1. d \in CacheCall /\ d.pc = "read" /\ d.op = "get" /\ d.of = call.of
    BY DEF CacheCall
  <2>2. Becomes(t, d) /\ swept' = call.began
    BY <1>2, Zenon DEF SweepsOn
  <2> HIDE DEF d
  <2>3. /\ cacheCalls' \in [Task -> CacheCall] /\ cacheCalls'[t] = d
        /\ \A u \in Task \ {t} : cacheCalls'[u] = cacheCalls[u]
    BY <2>1, <2>2, Becoming
  <2> QED
    BY <1>1, <1>2, <2>1, <2>2, <2>3 DEF CacheCallFits
<1>3. CASE Len(call.of) # 1
  <2> DEFINE d == [call EXCEPT !.pc = "sweep"]
  <2>1. d \in CacheCall /\ d.pc = "sweep" /\ d.op = "get" /\ d.of = call.of
    BY DEF CacheCall
  <2>2. Becomes(t, d) /\ swept' = swept
    BY <1>3, Zenon DEF SweepsOn
  <2> HIDE DEF d
  <2>3. /\ cacheCalls' \in [Task -> CacheCall] /\ cacheCalls'[t] = d
        /\ \A u \in Task \ {t} : cacheCalls'[u] = cacheCalls[u]
    BY <2>1, <2>2, Becoming
  <2>4. Len(call.of) > 1
    <3> DEFINE n == Len(call.of)
    <3>1. n \in Nat /\ n > 0 /\ n # 1
      BY <1>1, <1>3
    <3> HIDE DEF n
    <3>2. n > 1
      BY <3>1
    <3> QED
      BY <3>2 DEF n
  <2> QED
    BY <1>1, <2>1, <2>2, <2>3, <2>4 DEF CacheCallFits
<1> QED
  BY <1>2, <1>3

LEMMA GetKeeps ==
    ASSUME CacheInv, NEW t \in Task, NEW k \in CachedKey, CacheGet(t, k)
    PROVE  CacheInv'
<1> DEFINE call == [NoCall EXCEPT !.op = "get", !.of = <<k>>]
           aged == {j \in CachedKey : weight[j] <= now}
<1>1. /\ now \in Nat /\ stored \in SUBSET CachedKey /\ order \in Seq(CachedKey)
      /\ weight \in [CachedKey -> Nat] /\ frozen \in BOOLEAN /\ swept \in Nat
      /\ cacheCalls \in [Task -> CacheCall]
      /\ cacheStats \in [gets : Nat, sets : Nat, deletes : Nat, hits : Nat,
                         misses : Nat]
      /\ cacheCalls[t] = NoCall
  BY CacheTypes, Zenon DEF CacheGet, Begins, CacheCallFits
<1>2. now' = now /\ caching' = caching /\ stored' = stored /\ frozen' = frozen
      /\ cacheStats' = [cacheStats EXCEPT !.gets = @ + 1] /\ Runs(t)
  BY Zenon DEF CacheGet, Begins
<1>3. /\ cacheStats' \in [gets : Nat, sets : Nat, deletes : Nat, hits : Nat,
                          misses : Nat]
      /\ cacheStats'.hits = cacheStats.hits
      /\ cacheStats'.misses = cacheStats.misses
      /\ cacheStats'.gets = cacheStats.gets + 1
  <2>1. cacheStats \in [gets : Nat, sets : Nat, deletes : Nat, hits : Nat,
                        misses : Nat]
    BY <1>1
  <2>2. cacheStats' = [cacheStats EXCEPT !.gets = @ + 1]
    BY <1>2
  <2>3. cacheStats.gets + 1 \in Nat
    BY <2>1
  <2> QED
    BY ONLY <2>1, <2>2, <2>3
<1>4. ~caching.awaited => MemoryAt(t) /\ cacheCalls[t].pc = "idle"
  BY <1>1, <1>2, Alone, NoCallType
<1>5. CASE Unbook(k) /\ Becomes(t, [call EXCEPT !.pc = "delete"]) /\ swept' = swept
  <2> DEFINE d == [call EXCEPT !.pc = "delete"]
  <2>1. d \in CacheCall /\ d.pc = "delete" /\ d.op = "get" /\ Len(d.of) = 1 /\ Head(d.of) = k
    <3>1. d = MadeCall("delete", "get", k)
      BY DEF NoCall, MadeCall
    <3> QED
      BY <3>1, CallMade
  <2> HIDE DEF d
  <2>2. /\ cacheCalls' \in [Task -> CacheCall] /\ cacheCalls'[t] = d
        /\ \A u \in Task \ {t} : cacheCalls'[u] = cacheCalls[u]
    BY <1>1, <1>5, <2>1, Becoming DEF d
  <2>3. CacheCallFits(d)
    BY <2>1 DEF CacheCallFits
  <2>4. /\ order' \in Seq(CachedKey)
        /\ weight' \in [CachedKey -> Nat]
        /\ Len(order') <= Len(order)
        /\ Range(order') = Range(order) \ {k}
    BY <1>1, <1>5, Unbooks
  <2>5. Len(order') <= StrategySize \/ ~(Len(order) <= StrategySize)
    BY <1>1, <2>4, CacheAssumption
  <2>6. ASSUME ~caching.awaited
        PROVE  MemoryAt(t)'
    <3>1. caching.strategy # "ttl" => Len(order') <= StrategySize
      BY <1>4, <2>5, <2>6 DEF MemoryAt
    <3>2. caching.strategy # "lfu" \/ ~frozen' => \A j \in stored' : j \in Range(order') \/ j = k
      BY <1>2, <1>4, <2>4, <2>6 DEF MemoryAt, Booked
    <3> QED
      BY <1>2, <1>4, <2>1, <2>2, <2>6, <3>1, <3>2, MemoryKeeps
  <2> QED
    BY <1>1, <1>2, <1>3, <1>5, <2>2, <2>3, <2>4, <2>6, CacheKeeps
<1>6. CASE /\ SweepsOn(t, [call EXCEPT !.began = now,
                                       !.of = Append(Keeping(order, aged), k)])
           /\ UNCHANGED <<order, weight>>
  <2> DEFINE f == Append(Keeping(order, aged), k)
             d == [call EXCEPT !.began = now, !.of = f]
  <2>1. f \in Seq(CachedKey) /\ Len(f) > 0
    <3> DEFINE w == Keeping(order, aged)
    <3>1. w \in Seq(CachedKey)
      <4> HIDE DEF aged
      <4> QED
        BY <1>1, KeepingKeeps
    <3> HIDE DEF w
    <3> QED
      BY <3>1 DEF w
  <2> HIDE DEF f
  <2>2. d \in CacheCall /\ d.op = "get" /\ d.of = f
    BY <1>1, <2>1 DEF NoCall, CacheCall
  <2> HIDE DEF d
  <2>3. SweepsOn(t, d)
    BY <1>6 DEF d, f
  <2>4. /\ cacheCalls' \in [Task -> CacheCall]
        /\ CacheCallFits(cacheCalls'[t])
        /\ cacheCalls'[t].op = "get" /\ cacheCalls'[t].pc \in {"read", "sweep"}
        /\ \A u \in Task \ {t} : cacheCalls'[u] = cacheCalls[u]
        /\ swept' \in Nat
    BY <1>1, <2>1, <2>2, <2>3, Sweeping
  <2>5. ASSUME ~caching.awaited
        PROVE  MemoryAt(t)'
    <3>1. /\ caching.strategy # "ttl" => Len(order') <= StrategySize
          /\ caching.strategy # "lfu" \/ ~frozen' => \A j \in stored' : j \in Range(order')
      BY <1>2, <1>4, <1>6, <2>5 DEF MemoryAt, Booked
    <3> QED
      BY <1>2, <1>4, <2>4, <2>5, <3>1, MemoryKeeps
  <2> QED
    BY <1>1, <1>2, <1>3, <1>6, <2>4, <2>5, CacheKeeps
<1>7. CASE Becomes(t, [call EXCEPT !.pc = "read"]) /\ UNCHANGED <<order, weight, swept>>
  <2> DEFINE d == [call EXCEPT !.pc = "read"]
  <2>1. d \in CacheCall /\ d.pc = "read" /\ d.op = "get" /\ Len(d.of) = 1 /\ Head(d.of) = k
    <3>1. d = MadeCall("read", "get", k)
      BY DEF NoCall, MadeCall
    <3> QED
      BY <3>1, CallMade
  <2> HIDE DEF d
  <2>2. /\ cacheCalls' \in [Task -> CacheCall] /\ cacheCalls'[t] = d
        /\ \A u \in Task \ {t} : cacheCalls'[u] = cacheCalls[u]
    BY <1>1, <1>7, <2>1, Becoming DEF d
  <2>3. CacheCallFits(d)
    BY <2>1 DEF CacheCallFits
  <2>4. ASSUME ~caching.awaited
        PROVE  MemoryAt(t)'
    <3>1. /\ caching.strategy # "ttl" => Len(order') <= StrategySize
          /\ caching.strategy # "lfu" \/ ~frozen' => \A j \in stored' : j \in Range(order')
      BY <1>2, <1>4, <1>7, <2>4 DEF MemoryAt, Booked
    <3> QED
      BY <1>2, <1>4, <2>1, <2>2, <2>4, <3>1, MemoryKeeps
  <2> QED
    BY <1>1, <1>2, <1>3, <1>7, <2>2, <2>3, <2>4, CacheKeeps
<1> QED
  BY <1>5, <1>6, <1>7, Zenon DEF CacheGet

LEMMA SetKeeps ==
    ASSUME CacheInv, NEW t \in Task, NEW k \in CachedKey, CacheSet(t, k)
    PROVE  CacheInv'
<1> DEFINE d == [NoCall EXCEPT !.pc = "write", !.op = "set", !.of = <<k>>]
<1>1. /\ now \in Nat /\ stored \in SUBSET CachedKey /\ order \in Seq(CachedKey)
      /\ weight \in [CachedKey -> Nat] /\ frozen \in BOOLEAN /\ swept \in Nat
      /\ cacheCalls \in [Task -> CacheCall]
      /\ cacheStats \in [gets : Nat, sets : Nat, deletes : Nat, hits : Nat,
                         misses : Nat]
      /\ cacheCalls[t] = NoCall
  BY CacheTypes, Zenon DEF CacheSet, Begins, CacheCallFits
<1>2. now' = now /\ caching' = caching /\ stored' = stored /\ Runs(t) /\ Becomes(t, d)
  BY Zenon DEF CacheSet, Begins
<1>10. cacheStats' = [cacheStats EXCEPT !.sets = @ + 1]
  BY Zenon DEF CacheSet
<1>3. /\ cacheStats' \in [gets : Nat, sets : Nat, deletes : Nat, hits : Nat,
                          misses : Nat]
      /\ cacheStats'.hits = cacheStats.hits
      /\ cacheStats'.misses = cacheStats.misses
      /\ cacheStats'.gets = cacheStats.gets
  <2>1. cacheStats \in [gets : Nat, sets : Nat, deletes : Nat, hits : Nat,
                        misses : Nat]
    BY <1>1
  <2> QED
    BY <2>1, <1>10
<1>4. ~caching.awaited => MemoryAt(t) /\ cacheCalls[t].pc = "idle"
  BY <1>1, <1>2, Alone, NoCallType
<1>5. d \in CacheCall /\ d.pc = "write" /\ d.op = "set" /\ Len(d.of) = 1 /\ Head(d.of) = k
  <2>1. d = MadeCall("write", "set", k)
    BY DEF MadeCall
  <2> QED
    BY <2>1, CallMade
<1> HIDE DEF d
<1>6. /\ cacheCalls' \in [Task -> CacheCall] /\ cacheCalls'[t] = d
      /\ \A u \in Task \ {t} : cacheCalls'[u] = cacheCalls[u]
  BY <1>1, <1>2, <1>5, Becoming
<1>7. CacheCallFits(d)
  BY <1>5 DEF CacheCallFits
<1>8. CASE caching.strategy = "ttl" /\ Expires(k)
  <2>1. /\ order' = IF Booked(k) THEN order ELSE Append(order, k)
        /\ weight' = [weight EXCEPT ![k] = now + DefaultTtl]
        /\ frozen' = frozen /\ swept' = swept
    BY <1>8, Zenon DEF Expires
  <2>2. order' \in Seq(CachedKey) /\ Range(order') = Range(order) \cup {k}
    BY <1>1, <2>1, BookedOnce
  <2>3. weight' \in [CachedKey -> Nat]
    <3>1. now + DefaultTtl \in Nat
      BY <1>1, CacheAssumption
    <3> QED
      BY <1>1, <2>1, <3>1
  <2>4. ASSUME ~caching.awaited
        PROVE  MemoryAt(t)'
    <3>1. caching.strategy # "lfu" \/ ~frozen' => \A j \in stored' : j \in Range(order')
      BY <1>2, <1>4, <2>1, <2>2, <2>4 DEF MemoryAt, Booked
    <3> QED
      BY <1>2, <1>4, <1>5, <1>6, <1>8, <2>2, <2>4, <3>1, MemoryKeeps
  <2> QED
    BY <1>1, <1>2, <1>3, <1>5, <1>6, <1>7, <2>1, <2>2, <2>3, <2>4, CacheKeeps
<1>9. CASE caching.strategy # "ttl" /\ UNCHANGED book
  <2>1. order' = order /\ weight' = weight /\ frozen' = frozen /\ swept' = swept
    BY <1>9 DEF book
  <2>2. ASSUME ~caching.awaited
        PROVE  MemoryAt(t)'
    <3>1. /\ caching.strategy # "lfu" \/ ~frozen' => \A j \in stored' : j \in Range(order')
          /\ Len(order') <= StrategySize
      BY <1>2, <1>4, <1>9, <2>1, <2>2 DEF MemoryAt, Booked
    <3> QED
      BY <1>2, <1>4, <1>5, <1>6, <1>9, <2>1, <2>2, <3>1, MemoryKeeps
  <2> QED
    BY <1>1, <1>2, <1>3, <1>5, <1>6, <1>7, <2>1, <2>2, CacheKeeps
<1> QED
  BY <1>8, <1>9, Zenon DEF CacheSet

LEMMA DeleteKeeps ==
    ASSUME CacheInv, NEW t \in Task, NEW k \in CachedKey, CacheDelete(t, k)
    PROVE  CacheInv'
<1> DEFINE d == [NoCall EXCEPT !.pc = "delete", !.op = "delete", !.of = <<k>>]
<1>1. /\ now \in Nat /\ stored \in SUBSET CachedKey /\ order \in Seq(CachedKey)
      /\ weight \in [CachedKey -> Nat] /\ frozen \in BOOLEAN /\ swept \in Nat
      /\ cacheCalls \in [Task -> CacheCall]
      /\ cacheStats \in [gets : Nat, sets : Nat, deletes : Nat, hits : Nat,
                         misses : Nat]
      /\ cacheCalls[t] = NoCall
  BY CacheTypes, Zenon DEF CacheDelete, Begins, CacheCallFits
<1>2. now' = now /\ caching' = caching /\ stored' = stored /\ Runs(t) /\ Becomes(t, d)
      /\ Unbook(k) /\ frozen' = frozen /\ swept' = swept
  BY Zenon DEF CacheDelete, Begins
<1>10. cacheStats' = [cacheStats EXCEPT !.deletes = @ + 1]
  BY Zenon DEF CacheDelete
<1>3. /\ cacheStats' \in [gets : Nat, sets : Nat, deletes : Nat, hits : Nat,
                          misses : Nat]
      /\ cacheStats'.hits = cacheStats.hits
      /\ cacheStats'.misses = cacheStats.misses
      /\ cacheStats'.gets = cacheStats.gets
  <2>1. cacheStats \in [gets : Nat, sets : Nat, deletes : Nat, hits : Nat,
                        misses : Nat]
    BY <1>1
  <2> QED
    BY <2>1, <1>10
<1>4. ~caching.awaited => MemoryAt(t) /\ cacheCalls[t].pc = "idle"
  BY <1>1, <1>2, Alone, NoCallType
<1>5. d \in CacheCall /\ d.pc = "delete" /\ d.op = "delete" /\ Len(d.of) = 1 /\ Head(d.of) = k
  <2>1. d = MadeCall("delete", "delete", k)
    BY DEF MadeCall
  <2> QED
    BY <2>1, CallMade
<1> HIDE DEF d
<1>6. /\ cacheCalls' \in [Task -> CacheCall] /\ cacheCalls'[t] = d
      /\ \A u \in Task \ {t} : cacheCalls'[u] = cacheCalls[u]
  BY <1>1, <1>2, <1>5, Becoming
<1>7. CacheCallFits(d)
  BY <1>5 DEF CacheCallFits
<1>8. /\ order' \in Seq(CachedKey)
      /\ weight' \in [CachedKey -> Nat]
      /\ Len(order') <= Len(order)
      /\ Range(order') = Range(order) \ {k}
  BY <1>1, <1>2, Unbooks
<1>9. ASSUME ~caching.awaited
      PROVE  MemoryAt(t)'
  <2>1. Len(order') <= StrategySize \/ ~(Len(order) <= StrategySize)
    BY <1>1, <1>8, CacheAssumption
  <2>2. caching.strategy # "ttl" => Len(order') <= StrategySize
    BY <1>4, <2>1, <1>9 DEF MemoryAt
  <2>3. caching.strategy # "lfu" \/ ~frozen' => \A j \in stored' : j \in Range(order') \/ j = k
    BY <1>2, <1>4, <1>8, <1>9 DEF MemoryAt, Booked
  <2> QED
    BY <1>2, <1>4, <1>5, <1>6, <1>9, <2>2, <2>3, MemoryKeeps
<1> QED
  BY <1>1, <1>2, <1>3, <1>5, <1>6, <1>7, <1>8, <1>9, CacheKeeps

LEMMA ClearKeeps ==
    ASSUME CacheInv, NEW t \in Task, CacheClear(t)
    PROVE  CacheInv'
<1> DEFINE d == [NoCall EXCEPT !.pc = "clear", !.op = "clear"]
<1>1. /\ now \in Nat /\ stored \in SUBSET CachedKey /\ order \in Seq(CachedKey)
      /\ weight \in [CachedKey -> Nat] /\ frozen \in BOOLEAN /\ swept \in Nat
      /\ cacheCalls \in [Task -> CacheCall]
      /\ cacheStats \in [gets : Nat, sets : Nat, deletes : Nat, hits : Nat,
                         misses : Nat]
      /\ cacheCalls[t] = NoCall
  BY CacheTypes, Zenon DEF CacheClear, CacheCallFits
<1>2. now' = now /\ caching' = caching /\ stored' = stored /\ Runs(t) /\ Becomes(t, d)
      /\ cacheStats' = cacheStats /\ order' = <<>>
      /\ weight' = [k \in CachedKey |-> 0]
      /\ frozen' = frozen /\ swept' = swept
  BY Zenon DEF CacheClear
<1>3. ~caching.awaited => MemoryAt(t) /\ cacheCalls[t].pc = "idle"
  BY <1>1, <1>2, Alone, NoCallType
<1>4. d \in CacheCall /\ d.pc = "clear" /\ d.op = "clear"
  BY NoCallType DEF CacheCall
<1> HIDE DEF d
<1>5. /\ cacheCalls' \in [Task -> CacheCall] /\ cacheCalls'[t] = d
      /\ \A u \in Task \ {t} : cacheCalls'[u] = cacheCalls[u]
  BY <1>1, <1>2, <1>4, Becoming
<1>6. CacheCallFits(d)
  BY <1>4 DEF CacheCallFits
<1>7. order' \in Seq(CachedKey) /\ weight' \in [CachedKey -> Nat] /\ Len(order') <= StrategySize
  BY <1>2, CacheAssumption
<1>8. ASSUME ~caching.awaited
      PROVE  MemoryAt(t)'
  BY <1>2, <1>3, <1>4, <1>5, <1>7, <1>8, MemoryKeeps
<1> QED
  BY <1>1, <1>2, <1>4, <1>5, <1>6, <1>7, <1>8, CacheKeeps

LEMMA MissType ==
    ASSUME CacheInv, Miss
    PROVE  /\ cacheStats' \in [gets : Nat, sets : Nat, deletes : Nat, hits : Nat,
                               misses : Nat]
           /\ cacheStats'.hits + cacheStats'.misses
                = cacheStats.hits + cacheStats.misses + 1
           /\ cacheStats'.gets = cacheStats.gets
<1>1. cacheStats \in [gets : Nat, sets : Nat, deletes : Nat, hits : Nat, misses : Nat]
  BY CacheTypes, Zenon
<1>2. cacheStats' = [cacheStats EXCEPT !.misses = @ + 1]
  BY Zenon DEF Miss
<1>3. /\ cacheStats' \in [gets : Nat, sets : Nat, deletes : Nat, hits : Nat,
                          misses : Nat]
      /\ cacheStats'.hits = cacheStats.hits /\ cacheStats'.misses = cacheStats.misses + 1
      /\ cacheStats'.gets = cacheStats.gets
  BY ONLY <1>1, <1>2
<1> QED
  BY ONLY <1>1, <1>3

LEMMA HitType ==
    ASSUME CacheInv, Hit
    PROVE  /\ cacheStats' \in [gets : Nat, sets : Nat, deletes : Nat, hits : Nat,
                               misses : Nat]
           /\ cacheStats'.hits + cacheStats'.misses
                = cacheStats.hits + cacheStats.misses + 1
           /\ cacheStats'.gets = cacheStats.gets
<1>1. cacheStats \in [gets : Nat, sets : Nat, deletes : Nat, hits : Nat, misses : Nat]
  BY CacheTypes, Zenon
<1>2. cacheStats' = [cacheStats EXCEPT !.hits = @ + 1]
  BY Zenon DEF Hit
<1>3. /\ cacheStats' \in [gets : Nat, sets : Nat, deletes : Nat, hits : Nat,
                          misses : Nat]
      /\ cacheStats'.hits = cacheStats.hits + 1 /\ cacheStats'.misses = cacheStats.misses
      /\ cacheStats'.gets = cacheStats.gets
  BY ONLY <1>1, <1>2
<1> QED
  BY ONLY <1>1, <1>3

\* A call that ends, with what is known of it.
LEMMA Ending ==
    ASSUME CacheInv, NEW t \in Task, Becomes(t, NoCall)
    PROVE  /\ cacheCalls' \in [Task -> CacheCall]
           /\ cacheCalls'[t] = NoCall
           /\ CacheCallFits(cacheCalls'[t])
           /\ cacheCalls'[t].op = "none"
           /\ cacheCalls'[t].pc = "idle"
           /\ \A u \in Task \ {t} : cacheCalls'[u] = cacheCalls[u]
<1>1. cacheCalls \in [Task -> CacheCall]
  BY CacheTypes, Zenon
<1> QED
  BY <1>1, NoCallType, Becoming

LEMMA KeyOf ==
    ASSUME CacheInv, NEW t \in Task,
           cacheCalls[t].pc \in {"read", "write", "delete", "evict"}
    PROVE  /\ Len(cacheCalls[t].of) = 1
           /\ Head(cacheCalls[t].of) \in CachedKey
           /\ Range(cacheCalls[t].of) = {Head(cacheCalls[t].of)}
<1>1. cacheCalls[t] \in CacheCall /\ CacheCallFits(cacheCalls[t])
  BY CacheTypes
<1> DEFINE f == cacheCalls[t].of
<1>2. f \in Seq(CachedKey) /\ Len(f) = 1
  BY <1>1 DEF CacheCall, CacheCallFits
<1> HIDE DEF f
<1>3. Head(f) \in CachedKey /\ Range(f) = {Head(f)}
  <2>1. DOMAIN f = 1..1 /\ 1..1 = {1}
    BY <1>2
  <2>2. Head(f) = f[1]
    BY <1>2
  <2>3. f[1] \in CachedKey
    <3>1. f \in [DOMAIN f -> CachedKey] /\ 1 \in DOMAIN f
      BY <1>2, <2>1
    <3> QED
      BY <3>1
  <2> QED
    BY <2>1, <2>2, <2>3 DEF Range
<1> QED
  BY <1>2, <1>3 DEF f

LEMMA ReadKeeps ==
    ASSUME CacheInv, NEW t \in Task, ReadAnswers(t)
    PROVE  CacheInv'
<1> DEFINE k == Head(cacheCalls[t].of)
           raises == caching.strategy = "lfu" /\ frozen /\ ~Booked(k)
<1>1. /\ now \in Nat /\ stored \in SUBSET CachedKey /\ order \in Seq(CachedKey)
      /\ weight \in [CachedKey -> Nat] /\ frozen \in BOOLEAN /\ swept \in Nat
      /\ cacheCalls \in [Task -> CacheCall]
      /\ cacheStats \in [gets : Nat, sets : Nat, deletes : Nat, hits : Nat,
                         misses : Nat]
  BY CacheTypes, Zenon
<1>2. /\ now' = now /\ caching' = caching /\ stored' = stored
      /\ cacheCalls[t].pc = "read" /\ Becomes(t, NoCall)
  BY Zenon DEF ReadAnswers
<1>3. k \in CachedKey
  BY <1>2, KeyOf
<1>4. cacheCalls[t].op = "get"
  BY <1>2, CacheTypes DEF CacheCallFits
<1>5. /\ cacheCalls' \in [Task -> CacheCall]
      /\ CacheCallFits(cacheCalls'[t])
      /\ cacheCalls'[t].op = "none"
      /\ cacheCalls'[t].pc = "idle"
      /\ \A u \in Task \ {t} : cacheCalls'[u] = cacheCalls[u]
  BY <1>2, Ending
<1>6. ~caching.awaited => MemoryAt(t)
  BY <1>2, Alone
<1>7. \/ Miss /\ UNCHANGED book
      \/ UNCHANGED <<book, cacheStats>>
      \/ /\ k \in stored \/ caching.awaited
         /\ ~raises
         /\ Hit
         /\ \/ caching.strategy = "ttl" /\ UNCHANGED book
            \/ caching.strategy = "lru" /\ Used(k)
            \/ caching.strategy = "lfu" /\ Counted(k)
  BY Zenon DEF ReadAnswers
<1> HIDE DEF k, raises
<1>8. CASE UNCHANGED book /\ (Miss \/ Hit \/ UNCHANGED cacheStats)
  <2>1. order' = order /\ weight' = weight /\ frozen' = frozen /\ swept' = swept
    BY <1>8 DEF book
  <2>2. ASSUME ~caching.awaited
        PROVE  MemoryAt(t)'
    <3>1. /\ caching.strategy # "lfu" \/ ~frozen' => \A j \in stored' : j \in Range(order')
          /\ caching.strategy # "ttl" => Len(order') <= StrategySize
      BY <1>2, <1>6, <2>1, <2>2 DEF MemoryAt, Booked
    <3> QED
      BY <1>2, <1>5, <1>6, <2>2, <3>1, MemoryKeeps
  <2>3. CASE Miss \/ Hit
    <3>1. /\ cacheStats' \in [gets : Nat, sets : Nat, deletes : Nat, hits : Nat,
                              misses : Nat]
          /\ cacheStats'.hits + cacheStats'.misses
               = cacheStats.hits + cacheStats.misses + 1
          /\ cacheStats'.gets = cacheStats.gets
      BY <2>3, MissType, HitType
    <3> QED
      BY <1>1, <1>2, <1>4, <1>5, <2>1, <2>2, <3>1, CacheKeeps
  <2>4. CASE UNCHANGED cacheStats
    BY <1>1, <1>2, <1>4, <1>5, <2>1, <2>2, <2>4, CacheKeeps
  <2> QED
    BY <1>8, <2>3, <2>4
<1>9. CASE /\ k \in stored \/ caching.awaited
           /\ Hit
           /\ caching.strategy = "lru" /\ Used(k)
  <2>1. /\ order' \in Seq(CachedKey)
        /\ Booked(k) => Len(order') <= Len(order)
        /\ Range(order') = Range(order) \cup {k}
        /\ weight' = weight /\ frozen' = frozen /\ swept' = swept
    BY <1>1, <1>3, <1>9, Uses DEF Used
  <2>2. ASSUME ~caching.awaited
        PROVE  MemoryAt(t)'
    <3>1. \A j \in stored' : j \in Range(order')
      BY <1>2, <1>6, <1>9, <2>1, <2>2 DEF MemoryAt, Booked
    <3>2. Booked(k) /\ Len(order) <= StrategySize
      BY <1>2, <1>6, <1>9, <2>2 DEF MemoryAt
    <3>3. Len(order') <= StrategySize
      BY <1>1, <2>1, <3>2, CacheAssumption
    <3> QED
      BY <1>2, <1>5, <1>6, <2>2, <3>1, <3>3, MemoryKeeps
  <2>3. /\ cacheStats' \in [gets : Nat, sets : Nat, deletes : Nat, hits : Nat,
                            misses : Nat]
        /\ cacheStats'.hits + cacheStats'.misses
             = cacheStats.hits + cacheStats.misses + 1
        /\ cacheStats'.gets = cacheStats.gets
    BY <1>9, HitType
  <2> QED
    BY <1>1, <1>2, <1>4, <1>5, <2>1, <2>2, <2>3, CacheKeeps
<1>10. CASE /\ k \in stored \/ caching.awaited
            /\ ~raises
            /\ Hit
            /\ caching.strategy = "lfu" /\ Counted(k)
  <2>1. /\ order' \in Seq(CachedKey)
        /\ weight' \in [CachedKey -> Nat]
        /\ frozen' \in BOOLEAN
        /\ swept' \in Nat
        /\ Booked(k) => Len(order') <= Len(order)
        /\ ~frozen' => ~frozen /\ Range(order') = Range(order) \cup {k}
    BY <1>1, <1>3, <1>10, Counts
  <2>2. ASSUME ~caching.awaited
        PROVE  MemoryAt(t)'
    <3>1. ~frozen' => \A j \in stored' : j \in Range(order')
      BY <1>2, <1>6, <2>1, <2>2 DEF MemoryAt, Booked
    <3>2. Booked(k)
      BY <1>2, <1>6, <1>10, <2>2 DEF MemoryAt, raises
    <3>3. Len(order) <= StrategySize
      BY <1>2, <1>6, <1>10, <2>2 DEF MemoryAt
    <3>4. Len(order') <= StrategySize
      BY <1>1, <2>1, <3>2, <3>3, CacheAssumption
    <3> QED
      BY <1>2, <1>5, <1>6, <1>10, <2>2, <3>1, <3>4, MemoryKeeps
  <2>3. /\ cacheStats' \in [gets : Nat, sets : Nat, deletes : Nat, hits : Nat,
                            misses : Nat]
        /\ cacheStats'.hits + cacheStats'.misses
             = cacheStats.hits + cacheStats.misses + 1
        /\ cacheStats'.gets = cacheStats.gets
    BY <1>10, HitType
  <2> QED
    BY <1>1, <1>2, <1>4, <1>5, <2>1, <2>2, <2>3, CacheKeeps
<1>11. (UNCHANGED <<book, cacheStats>>) => UNCHANGED book /\ UNCHANGED cacheStats
  OBVIOUS
<1> QED
  BY <1>7, <1>8, <1>9, <1>10, <1>11, Zenon

LEMMA WriteKeeps ==
    ASSUME CacheInv, NEW t \in Task, WriteAnswers(t)
    PROVE  CacheInv'
<1> DEFINE k == Head(cacheCalls[t].of)
<1>1. /\ now \in Nat /\ stored \in SUBSET CachedKey /\ order \in Seq(CachedKey)
      /\ weight \in [CachedKey -> Nat] /\ frozen \in BOOLEAN /\ swept \in Nat
      /\ cacheCalls \in [Task -> CacheCall]
      /\ cacheStats \in [gets : Nat, sets : Nat, deletes : Nat, hits : Nat,
                         misses : Nat]
  BY CacheTypes, Zenon
<1>2. /\ now' = now /\ caching' = caching /\ stored' = stored \cup {k}
      /\ cacheCalls[t].pc = "write" /\ cacheStats' = cacheStats
  BY Zenon DEF WriteAnswers
<1>3. k \in CachedKey
  BY <1>2, KeyOf
<1>4. ~caching.awaited => MemoryAt(t)
  BY <1>2, Alone
<1>5. stored' \in SUBSET CachedKey
  BY <1>1, <1>2, <1>3
<1>6. \/ /\ caching.strategy = "ttl" /\ Becomes(t, NoCall) /\ UNCHANGED book
      \/ /\ caching.strategy = "lru" /\ Used(k) /\ Evicts(t)
      \/ /\ caching.strategy = "lfu"
         /\ order' = (IF Booked(k) THEN order ELSE Append(order, k))
         /\ weight' = [weight EXCEPT ![k] = IF Booked(k) THEN @ ELSE 1]
         /\ frozen' = frozen /\ swept' = swept /\ Evicts(t)
  BY Zenon DEF WriteAnswers
<1> HIDE DEF k
<1>7. CASE caching.strategy = "ttl" /\ Becomes(t, NoCall) /\ UNCHANGED book
  <2>1. order' = order /\ weight' = weight /\ frozen' = frozen /\ swept' = swept
    BY <1>7 DEF book
  <2>2. /\ cacheCalls' \in [Task -> CacheCall]
        /\ CacheCallFits(cacheCalls'[t])
        /\ cacheCalls'[t].op = "none"
        /\ cacheCalls'[t].pc = "idle"
        /\ \A u \in Task \ {t} : cacheCalls'[u] = cacheCalls[u]
    BY <1>7, Ending
  <2>3. ASSUME ~caching.awaited
        PROVE  MemoryAt(t)'
    <3>1. \A j \in stored' : j \in Range(order')
      BY <1>2, <1>4, <1>7, <2>1, <2>3 DEF MemoryAt, Booked, k
    <3> QED
      BY <1>2, <1>4, <1>7, <2>2, <2>3, <3>1, MemoryKeeps
  <2> QED
    BY <1>1, <1>2, <1>5, <2>1, <2>2, <2>3, CacheKeeps
<1>8. ASSUME /\ order' \in Seq(CachedKey) /\ weight' \in [CachedKey -> Nat]
             /\ frozen' = frozen /\ swept' = swept
             /\ Len(order') <= Len(order) + 1
             /\ Range(order') = Range(order) \cup {k}
             /\ Evicts(t)
      PROVE  CacheInv'
  <2>1. /\ cacheCalls' \in [Task -> CacheCall]
        /\ CacheCallFits(cacheCalls'[t])
        /\ cacheCalls'[t].op # "get"
        /\ \/ /\ Len(order') > StrategySize
              /\ cacheCalls'[t].pc = "evict"
              /\ Head(cacheCalls'[t].of) \in Range(order')
           \/ Len(order') <= StrategySize /\ cacheCalls'[t] = NoCall
        /\ \A u \in Task \ {t} : cacheCalls'[u] = cacheCalls[u]
    BY <1>1, <1>2, <1>8, Evicting
  <2>2. ASSUME ~caching.awaited
        PROVE  MemoryAt(t)'
    <3>1. caching.strategy # "lfu" \/ ~frozen' => \A j \in stored' : j \in Range(order')
      BY <1>2, <1>4, <1>8, <2>2 DEF MemoryAt, Booked
    <3>2. caching.strategy # "ttl" => Len(order) <= StrategySize
      BY <1>2, <1>4, <2>2 DEF MemoryAt
    <3>3. Len(order') \in Nat /\ Len(order) \in Nat
      BY <1>1, <1>8
    <3>4. caching.strategy # "ttl" =>
             Len(order') <= StrategySize \/ Len(order') = StrategySize + 1
      BY <1>8, <3>2, <3>3, CacheAssumption
    <3>5. CASE Len(order') <= StrategySize /\ cacheCalls'[t] = NoCall
      BY <1>2, <1>4, <2>1, <2>2, <3>1, <3>5, NoCallType, MemoryKeeps
    <3>6. CASE /\ Len(order') > StrategySize /\ cacheCalls'[t].pc = "evict"
               /\ Head(cacheCalls'[t].of) \in Range(order')
      BY <1>2, <1>4, <2>1, <2>2, <3>1, <3>4, <3>6, MemoryKeeps
    <3> QED
      BY <2>1, <3>5, <3>6
  <2> QED
    BY <1>1, <1>2, <1>5, <1>8, <2>1, <2>2, CacheKeeps
<1>9. CASE caching.strategy = "lru" /\ Used(k) /\ Evicts(t)
  <2>1. /\ order' \in Seq(CachedKey)
        /\ Len(order') <= Len(order) + 1
        /\ Range(order') = Range(order) \cup {k}
        /\ weight' = weight /\ frozen' = frozen /\ swept' = swept
    BY <1>1, <1>3, <1>9, Uses DEF Used
  <2> QED
    BY <1>1, <1>8, <1>9, <2>1
<1>10. CASE /\ caching.strategy = "lfu"
            /\ order' = (IF Booked(k) THEN order ELSE Append(order, k))
            /\ weight' = [weight EXCEPT ![k] = IF Booked(k) THEN @ ELSE 1]
            /\ frozen' = frozen /\ swept' = swept /\ Evicts(t)
  <2>1. /\ order' \in Seq(CachedKey)
        /\ Len(order') <= Len(order) + 1
        /\ Range(order') = Range(order) \cup {k}
    BY <1>1, <1>3, <1>10, BookedOnce
  <2>2. weight' \in [CachedKey -> Nat]
    BY <1>1, <1>3, <1>10
  <2> QED
    BY <1>8, <1>10, <2>1, <2>2
<1> QED
  BY <1>6, <1>7, <1>9, <1>10

LEMMA EvictionKeeps ==
    ASSUME CacheInv, NEW t \in Task, EvictionAnswers(t)
    PROVE  CacheInv'
<1> DEFINE k == Head(cacheCalls[t].of)
<1>1. /\ now \in Nat /\ stored \in SUBSET CachedKey /\ order \in Seq(CachedKey)
      /\ weight \in [CachedKey -> Nat] /\ frozen \in BOOLEAN /\ swept \in Nat
      /\ cacheCalls \in [Task -> CacheCall]
      /\ cacheStats \in [gets : Nat, sets : Nat, deletes : Nat, hits : Nat,
                         misses : Nat]
  BY CacheTypes, Zenon
<1>2. /\ now' = now /\ caching' = caching /\ stored' = stored \ {k}
      /\ frozen' = frozen /\ swept' = swept
      /\ cacheCalls[t].pc = "evict" /\ cacheStats' = cacheStats
      /\ \/ Booked(k) /\ Unbook(k) /\ Evicts(t)
         \/ ~Booked(k) /\ Becomes(t, NoCall) /\ UNCHANGED <<order, weight>>
  BY Zenon DEF EvictionAnswers
<1>3. k \in CachedKey
  BY <1>2, KeyOf
<1>4. ~caching.awaited => MemoryAt(t)
  BY <1>2, Alone
<1>5. stored' \in SUBSET CachedKey
  BY <1>1, <1>2
<1>6. CASE Booked(k) /\ Unbook(k) /\ Evicts(t)
  <2>1. /\ order' \in Seq(CachedKey)
        /\ weight' \in [CachedKey -> Nat]
        /\ Len(order') < Len(order)
        /\ Range(order') = Range(order) \ {k}
    BY <1>1, <1>3, <1>6, Unbooks
  <2>2. /\ cacheCalls' \in [Task -> CacheCall]
        /\ CacheCallFits(cacheCalls'[t])
        /\ cacheCalls'[t].op # "get"
        /\ \/ /\ Len(order') > StrategySize
              /\ cacheCalls'[t].pc = "evict"
              /\ Head(cacheCalls'[t].of) \in Range(order')
           \/ Len(order') <= StrategySize /\ cacheCalls'[t] = NoCall
        /\ \A u \in Task \ {t} : cacheCalls'[u] = cacheCalls[u]
    BY <1>1, <1>2, <1>6, <2>1, Evicting
  <2>3. ASSUME ~caching.awaited
        PROVE  MemoryAt(t)'
    <3>1. caching.strategy # "lfu" \/ ~frozen' => \A j \in stored' : j \in Range(order')
      BY <1>2, <1>4, <2>1, <2>3 DEF MemoryAt, Booked
    <3>2. caching.strategy # "ttl" =>
             Len(order) <= StrategySize \/ Len(order) = StrategySize + 1
      BY <1>4, <2>3 DEF MemoryAt
    <3>3. caching.strategy # "ttl" => Len(order') <= StrategySize
      <4>1. Len(order') \in Nat /\ Len(order) \in Nat
        BY <1>1, <2>1
      <4> QED
        BY <2>1, <3>2, <4>1, CacheAssumption
    <3>4. CASE Len(order') <= StrategySize /\ cacheCalls'[t] = NoCall
      BY <1>2, <1>4, <2>2, <2>3, <3>1, <3>4, NoCallType, MemoryKeeps
    <3>5. CASE /\ Len(order') > StrategySize /\ cacheCalls'[t].pc = "evict"
               /\ Head(cacheCalls'[t].of) \in Range(order')
      BY <1>2, <1>4, <2>2, <2>3, <3>1, <3>3, <3>5, MemoryKeeps
    <3> QED
      BY <2>2, <3>4, <3>5
  <2> QED
    BY <1>1, <1>2, <1>5, <2>1, <2>2, <2>3, CacheKeeps
<1>7. CASE ~Booked(k) /\ Becomes(t, NoCall) /\ UNCHANGED <<order, weight>>
  <2>1. order' = order /\ weight' = weight
    BY <1>7
  <2>2. /\ cacheCalls' \in [Task -> CacheCall]
        /\ CacheCallFits(cacheCalls'[t])
        /\ cacheCalls'[t].op = "none"
        /\ cacheCalls'[t].pc = "idle"
        /\ \A u \in Task \ {t} : cacheCalls'[u] = cacheCalls[u]
    BY <1>7, Ending
  <2>3. ASSUME ~caching.awaited
        PROVE  MemoryAt(t)'
    <3>1. caching.strategy # "lfu" \/ ~frozen' => \A j \in stored' : j \in Range(order')
      BY <1>2, <1>4, <2>1, <2>3 DEF MemoryAt, Booked
    <3>2. caching.strategy = "ttl"
      BY <1>2, <1>4, <1>7, <2>3 DEF MemoryAt
    <3> QED
      BY <1>2, <1>4, <2>2, <2>3, <3>1, <3>2, MemoryKeeps
  <2> QED
    BY <1>1, <1>2, <1>5, <2>1, <2>2, <2>3, CacheKeeps
<1> QED
  BY <1>2, <1>6, <1>7

LEMMA SweepKeeps ==
    ASSUME CacheInv, NEW t \in Task, SweepAnswers(t)
    PROVE  CacheInv'
<1> DEFINE call == cacheCalls[t]
           k == Head(call.of)
           d == [call EXCEPT !.of = Tail(@)]
<1>1. /\ now \in Nat /\ stored \in SUBSET CachedKey /\ order \in Seq(CachedKey)
      /\ weight \in [CachedKey -> Nat] /\ frozen \in BOOLEAN /\ swept \in Nat
      /\ cacheCalls \in [Task -> CacheCall]
      /\ cacheStats \in [gets : Nat, sets : Nat, deletes : Nat, hits : Nat,
                         misses : Nat]
  BY CacheTypes, Zenon
<1>2. /\ now' = now /\ caching' = caching /\ stored' = stored \ {k}
      /\ frozen' = frozen
      /\ call.pc = "sweep" /\ cacheStats' = cacheStats
      /\ \/ Booked(k) /\ Unbook(k) /\ SweepsOn(t, d)
         \/ ~Booked(k) /\ Becomes(t, NoCall) /\ UNCHANGED <<order, weight, swept>>
  BY Zenon DEF SweepAnswers
<1>3. call \in CacheCall /\ call.op = "get" /\ Len(call.of) > 1
  BY <1>1, <1>2, CacheTypes DEF CacheCallFits
<1>4. ~caching.awaited => MemoryAt(t)
  BY <1>2, Alone
<1>5. stored' \in SUBSET CachedKey
  BY <1>1, <1>2
<1>6. k \in CachedKey /\ d \in CacheCall /\ d.op = "get" /\ Len(d.of) > 0
  <2> DEFINE f == call.of
  <2>1. f \in Seq(CachedKey) /\ Len(f) > 1
    BY <1>3 DEF CacheCall
  <2> HIDE DEF f
  <2>2. Head(f) \in CachedKey /\ Tail(f) \in Seq(CachedKey) /\ Len(Tail(f)) > 0
    BY <2>1
  <2>3. Tail(call.of) = Tail(f)
    BY DEF f
  <2>4. d \in CacheCall /\ d.op = "get" /\ d.of = Tail(f)
    BY <1>3, <2>2, <2>3 DEF CacheCall
  <2> QED
    BY <2>2, <2>4 DEF f
<1> HIDE DEF k, d
<1>7. CASE Booked(k) /\ Unbook(k) /\ SweepsOn(t, d)
  <2>1. /\ order' \in Seq(CachedKey)
        /\ weight' \in [CachedKey -> Nat]
        /\ Len(order') <= Len(order)
        /\ Range(order') = Range(order) \ {k}
    BY <1>1, <1>6, <1>7, Unbooks
  <2>2. /\ cacheCalls' \in [Task -> CacheCall]
        /\ CacheCallFits(cacheCalls'[t])
        /\ cacheCalls'[t].op = "get" /\ cacheCalls'[t].pc \in {"read", "sweep"}
        /\ \A u \in Task \ {t} : cacheCalls'[u] = cacheCalls[u]
        /\ swept' \in Nat
    BY <1>1, <1>6, <1>7, Sweeping
  <2>3. ASSUME ~caching.awaited
        PROVE  MemoryAt(t)'
    <3>1. caching.strategy # "lfu" \/ ~frozen' => \A j \in stored' : j \in Range(order')
      BY <1>2, <1>4, <2>1, <2>3 DEF MemoryAt, Booked
    <3>2. caching.strategy # "ttl" => Len(order) <= StrategySize
      BY <1>2, <1>4, <2>3 DEF MemoryAt
    <3>3. caching.strategy # "ttl" => Len(order') <= StrategySize
      <4>1. Len(order') \in Nat /\ Len(order) \in Nat
        BY <1>1, <2>1
      <4> QED
        BY <2>1, <3>2, <4>1, CacheAssumption
    <3> QED
      BY <1>2, <1>4, <2>2, <2>3, <3>1, <3>3, MemoryKeeps
  <2> QED
    BY <1>1, <1>2, <1>3, <1>5, <2>1, <2>2, <2>3, CacheKeeps
<1>8. CASE ~Booked(k) /\ Becomes(t, NoCall) /\ UNCHANGED <<order, weight, swept>>
  <2>1. order' = order /\ weight' = weight /\ swept' = swept
    BY <1>8
  <2>2. /\ cacheCalls' \in [Task -> CacheCall]
        /\ CacheCallFits(cacheCalls'[t])
        /\ cacheCalls'[t].op = "none"
        /\ cacheCalls'[t].pc = "idle"
        /\ \A u \in Task \ {t} : cacheCalls'[u] = cacheCalls[u]
    BY <1>8, Ending
  <2>3. ASSUME ~caching.awaited
        PROVE  MemoryAt(t)'
    <3>1. /\ caching.strategy # "lfu" \/ ~frozen' => \A j \in stored' : j \in Range(order')
          /\ caching.strategy # "ttl" => Len(order') <= StrategySize
      BY <1>2, <1>4, <2>1, <2>3 DEF MemoryAt, Booked
    <3> QED
      BY <1>2, <1>4, <2>2, <2>3, <3>1, MemoryKeeps
  <2> QED
    BY <1>1, <1>2, <1>5, <2>1, <2>2, <2>3, CacheKeeps
<1> QED
  BY <1>2, <1>7, <1>8

LEMMA DeletionKeeps ==
    ASSUME CacheInv, NEW t \in Task, DeleteAnswers(t)
    PROVE  CacheInv'
<1> DEFINE k == Head(cacheCalls[t].of)
<1>1. /\ now \in Nat /\ stored \in SUBSET CachedKey /\ order \in Seq(CachedKey)
      /\ weight \in [CachedKey -> Nat] /\ frozen \in BOOLEAN /\ swept \in Nat
      /\ cacheCalls \in [Task -> CacheCall]
      /\ cacheStats \in [gets : Nat, sets : Nat, deletes : Nat, hits : Nat,
                         misses : Nat]
  BY CacheTypes, Zenon
<1>2. /\ now' = now /\ caching' = caching /\ stored' = stored \ Range(cacheCalls[t].of)
      /\ UNCHANGED book
      /\ cacheCalls[t].pc = "delete" /\ Becomes(t, NoCall)
  BY Zenon DEF DeleteAnswers
<1>3. order' = order /\ weight' = weight /\ frozen' = frozen /\ swept' = swept
  BY <1>2 DEF book
<1>4. stored' = stored \ {k}
  BY <1>2, KeyOf
<1>5. ~caching.awaited => MemoryAt(t)
  BY <1>2, Alone
<1>6. /\ cacheCalls' \in [Task -> CacheCall]
      /\ CacheCallFits(cacheCalls'[t])
      /\ cacheCalls'[t].op = "none"
      /\ cacheCalls'[t].pc = "idle"
      /\ \A u \in Task \ {t} : cacheCalls'[u] = cacheCalls[u]
  BY <1>2, Ending
<1>7. stored' \in SUBSET CachedKey
  BY <1>1, <1>4
<1>8. ASSUME ~caching.awaited
      PROVE  MemoryAt(t)'
  <2>1. /\ caching.strategy # "lfu" \/ ~frozen' => \A j \in stored' : j \in Range(order')
        /\ caching.strategy # "ttl" => Len(order') <= StrategySize
    BY <1>2, <1>3, <1>4, <1>5, <1>8 DEF MemoryAt, Booked
  <2> QED
    BY <1>2, <1>5, <1>6, <1>8, <2>1, MemoryKeeps
<1>9. CASE cacheCalls[t].op = "get" /\ Miss
  <2>1. /\ cacheStats' \in [gets : Nat, sets : Nat, deletes : Nat, hits : Nat,
                            misses : Nat]
        /\ cacheStats'.hits + cacheStats'.misses
             = cacheStats.hits + cacheStats.misses + 1
        /\ cacheStats'.gets = cacheStats.gets
    BY <1>9, MissType
  <2> QED
    BY <1>1, <1>2, <1>3, <1>6, <1>7, <1>8, <1>9, <2>1, CacheKeeps
<1>10. CASE UNCHANGED cacheStats
  BY <1>1, <1>2, <1>3, <1>6, <1>7, <1>8, <1>10, CacheKeeps
<1> QED
  BY <1>9, <1>10, Zenon DEF DeleteAnswers

LEMMA ClearanceKeeps ==
    ASSUME CacheInv, NEW t \in Task, ClearAnswers(t)
    PROVE  CacheInv'
<1>1. /\ now \in Nat /\ stored \in SUBSET CachedKey /\ order \in Seq(CachedKey)
      /\ weight \in [CachedKey -> Nat] /\ frozen \in BOOLEAN /\ swept \in Nat
      /\ cacheCalls \in [Task -> CacheCall]
      /\ cacheStats \in [gets : Nat, sets : Nat, deletes : Nat, hits : Nat,
                         misses : Nat]
  BY CacheTypes, Zenon
<1>2. /\ now' = now /\ caching' = caching /\ stored' = {} /\ UNCHANGED book
      /\ cacheCalls[t].pc = "clear" /\ Becomes(t, NoCall) /\ cacheStats' = cacheStats
  BY Zenon DEF ClearAnswers
<1>3. order' = order /\ weight' = weight /\ frozen' = frozen /\ swept' = swept
  BY <1>2 DEF book
<1>4. ~caching.awaited => MemoryAt(t)
  BY <1>2, Alone
<1>5. /\ cacheCalls' \in [Task -> CacheCall]
      /\ CacheCallFits(cacheCalls'[t])
      /\ cacheCalls'[t].op = "none"
      /\ cacheCalls'[t].pc = "idle"
      /\ \A u \in Task \ {t} : cacheCalls'[u] = cacheCalls[u]
  BY <1>2, Ending
<1>6. ASSUME ~caching.awaited
      PROVE  MemoryAt(t)'
  <2>1. caching.strategy # "ttl" => Len(order') <= StrategySize
    BY <1>2, <1>3, <1>4, <1>6 DEF MemoryAt
  <2> QED
    BY <1>2, <1>4, <1>5, <1>6, <2>1, MemoryKeeps
<1> QED
  BY <1>1, <1>2, <1>3, <1>5, <1>6, CacheKeeps

LEMMA FailureKeeps ==
    ASSUME CacheInv, NEW t \in Task, CallFails(t)
    PROVE  CacheInv'
<1>1. /\ now \in Nat /\ stored \in SUBSET CachedKey /\ order \in Seq(CachedKey)
      /\ weight \in [CachedKey -> Nat] /\ frozen \in BOOLEAN /\ swept \in Nat
      /\ cacheCalls \in [Task -> CacheCall]
      /\ cacheStats \in [gets : Nat, sets : Nat, deletes : Nat, hits : Nat,
                         misses : Nat]
  BY CacheTypes, Zenon
<1>2. /\ now' = now /\ caching' = caching /\ UNCHANGED book
      /\ caching.awaited /\ Becomes(t, NoCall) /\ cacheStats' = cacheStats
      /\ \/ stored' = stored
         \/ stored' = stored \cup Range(cacheCalls[t].of)
         \/ stored' = stored \ {Head(cacheCalls[t].of)}
         \/ stored' = {}
  BY Zenon DEF CallFails
<1>3. order' = order /\ weight' = weight /\ frozen' = frozen /\ swept' = swept
  BY <1>2 DEF book
<1>4. Range(cacheCalls[t].of) \subseteq CachedKey
  <2>1. cacheCalls[t].of \in Seq(CachedKey)
    BY <1>1 DEF CacheCall
  <2> QED
    BY <2>1 DEF Range
<1>5. stored' \in SUBSET CachedKey
  BY <1>1, <1>2, <1>4
<1>6. /\ cacheCalls' \in [Task -> CacheCall]
      /\ CacheCallFits(cacheCalls'[t])
      /\ cacheCalls'[t].op = "none"
      /\ \A u \in Task \ {t} : cacheCalls'[u] = cacheCalls[u]
  BY <1>2, Ending
<1> QED
  BY <1>1, <1>2, <1>3, <1>5, <1>6, CacheKeeps

\* Steps that no task takes leave the calls alone.
LEMMA CallsUntouched ==
    ASSUME CacheInv, now' \in Nat,
           caching' \in [strategy : {"ttl", "lru", "lfu"}, awaited : BOOLEAN,
                         enabled : BOOLEAN],
           caching'.strategy = caching.strategy, caching'.awaited = caching.awaited,
           stored' \in SUBSET CachedKey, order' \in Seq(CachedKey),
           weight' \in [CachedKey -> Nat], frozen' = frozen, swept' = swept,
           cacheCalls' = cacheCalls, cacheStats' = cacheStats,
           \/ stored' \subseteq stored /\ order' = order
           \/ /\ ~caching.awaited => \A t \in Task : cacheCalls[t].pc = "idle"
              /\ stored \cap Range(order) = stored =>
                    stored' \subseteq Range(order')
              /\ Len(order') <= Len(order)
    PROVE  CacheInv'
<1>1. CacheTypeOK'
  BY DEF CacheInv, CacheTypeOK
<1>2. GetsCounted'
  BY DEF CacheInv, GetsCounted
<1>3. \A t \in Task : CacheCallFits(cacheCalls[t])'
  BY DEF CacheInv, CacheCallFits, NoCall
<1>4. ASSUME ~caching.awaited
      PROVE  \E t \in Task : MemoryAt(t)'
  <2>1. PICK t \in Task : MemoryAt(t)
    BY <1>4 DEF CacheInv
  <2>2. CASE stored' \subseteq stored /\ order' = order
    <3>1. MemoryAt(t)'
      BY <2>1, <2>2 DEF MemoryAt, Booked
    <3> QED
      BY <3>1
  <2>3. CASE /\ \A u \in Task : cacheCalls[u].pc = "idle"
             /\ stored \cap Range(order) = stored => stored' \subseteq Range(order')
             /\ Len(order') <= Len(order)
    <3>1. cacheCalls[t].pc = "idle"
      BY <2>3
    <3>2. caching.strategy # "lfu" \/ ~frozen => stored' \subseteq Range(order')
      BY <2>1, <2>3, <3>1 DEF MemoryAt, Booked
    <3>3. caching.strategy # "ttl" => Len(order') <= StrategySize
      <4>1. Len(order') \in Nat /\ Len(order) \in Nat
        BY CacheTypes
      <4>2. caching.strategy # "ttl" => Len(order) <= StrategySize
        BY <2>1, <3>1 DEF MemoryAt
      <4> QED
        BY <2>3, <4>1, <4>2, CacheAssumption
    <3>4. MemoryAt(t)'
      BY <2>1, <3>1, <3>2, <3>3 DEF MemoryAt, Booked
    <3> QED
      BY <3>4
  <2> QED
    BY <1>4, <2>2, <2>3
<1>5. (~caching.awaited)' => \E t \in Task : MemoryAt(t)'
  BY <1>4
<1>6. (now \in Nat)'
  OBVIOUS
<1> QED
  BY <1>1, <1>2, <1>3, <1>5, <1>6, Zenon DEF CacheInv

LEMMA CacheStep == CacheInv /\ [CacheNext]_<<now, cacheVars>> => CacheInv'
<1> SUFFICES ASSUME CacheInv, [CacheNext]_<<now, cacheVars>>
             PROVE  CacheInv'
  OBVIOUS
<1>1. /\ now \in Nat /\ stored \in SUBSET CachedKey /\ order \in Seq(CachedKey)
      /\ weight \in [CachedKey -> Nat]
      /\ caching \in [strategy : {"ttl", "lru", "lfu"}, awaited : BOOLEAN,
                      enabled : BOOLEAN]
  BY CacheTypes, Zenon DEF CacheInv, CacheTypeOK
<1>2. ASSUME NEW t \in Task, NEW k \in CachedKey,
             CacheGet(t, k) \/ CacheSet(t, k) \/ CacheDelete(t, k)
      PROVE  CacheInv'
  BY <1>2, GetKeeps, SetKeeps, DeleteKeeps, Zenon
<1>3. ASSUME NEW t \in Task,
             \/ CacheClear(t) \/ ReadAnswers(t) \/ WriteAnswers(t)
             \/ EvictionAnswers(t) \/ SweepAnswers(t) \/ DeleteAnswers(t)
             \/ ClearAnswers(t) \/ CallFails(t)
      PROVE  CacheInv'
  BY <1>3, ClearKeeps, ReadKeeps, WriteKeeps, EvictionKeeps, SweepKeeps,
     DeletionKeeps, ClearanceKeeps, FailureKeeps, Zenon
<1>4. ASSUME NEW ks \in SUBSET CachedKey, InvalidatePattern(ks)
      PROVE  CacheInv'
  <2>1. /\ \A t \in Task : cacheCalls[t].pc = "idle"
        /\ stored' = stored \ ks
        /\ order' = Keeping(order, CachedKey \ ks)
        /\ weight' = [k \in CachedKey |-> IF k \in ks THEN 0 ELSE weight[k]]
        /\ now' = now /\ caching' = caching /\ frozen' = frozen /\ swept' = swept
        /\ cacheCalls' = cacheCalls /\ cacheStats' = cacheStats
    BY <1>4, Zenon DEF InvalidatePattern
  <2>2. /\ order' \in Seq(CachedKey)
        /\ Len(order') <= Len(order)
        /\ Range(order') = Range(order) \cap (CachedKey \ ks)
    BY <1>1, <2>1, KeepingKeeps
  <2>3. weight' \in [CachedKey -> Nat]
    BY <1>1, <2>1
  <2>4. stored \cap Range(order) = stored => stored' \subseteq Range(order')
    BY <1>1, <2>1, <2>2
  <2>5. stored' \in SUBSET CachedKey /\ now' \in Nat
        /\ caching' \in [strategy : {"ttl", "lru", "lfu"}, awaited : BOOLEAN,
                         enabled : BOOLEAN]
        /\ caching'.strategy = caching.strategy /\ caching'.awaited = caching.awaited
    BY <1>1, <2>1
  <2> QED
    BY <2>1, <2>2, <2>3, <2>4, <2>5, CallsUntouched
<1>5. CASE Toggled
  <2>1. /\ caching' = [caching EXCEPT !.enabled = ~@]
        /\ now' = now /\ stored' = stored /\ UNCHANGED book
        /\ cacheCalls' = cacheCalls /\ cacheStats' = cacheStats
    BY <1>5, Zenon DEF Toggled
  <2>2. order' = order /\ weight' = weight /\ frozen' = frozen /\ swept' = swept
    BY <2>1 DEF book
  <2>3. /\ caching' \in [strategy : {"ttl", "lru", "lfu"}, awaited : BOOLEAN,
                         enabled : BOOLEAN]
        /\ caching'.strategy = caching.strategy /\ caching'.awaited = caching.awaited
    <3> DEFINE e == ~caching.enabled
    <3>1. caching' = [caching EXCEPT !.enabled = e] /\ e \in BOOLEAN
      BY <2>1, Zenon
    <3> HIDE DEF e
    <3> QED
      BY <1>1, <3>1
  <2> QED
    BY <1>1, <2>1, <2>2, <2>3, CallsUntouched
<1>6. ASSUME NEW k \in CachedKey, BackendDrops(k)
      PROVE  CacheInv'
  <2>1. /\ stored' = stored \ {k}
        /\ now' = now /\ caching' = caching /\ UNCHANGED book
        /\ cacheCalls' = cacheCalls /\ cacheStats' = cacheStats
    BY <1>6, Zenon DEF BackendDrops
  <2>2. order' = order /\ weight' = weight /\ frozen' = frozen /\ swept' = swept
    BY <2>1 DEF book
  <2>3. stored' \in SUBSET CachedKey /\ stored' \subseteq stored
        /\ caching' \in [strategy : {"ttl", "lru", "lfu"}, awaited : BOOLEAN,
                         enabled : BOOLEAN]
        /\ caching'.strategy = caching.strategy /\ caching'.awaited = caching.awaited
    BY <1>1, <2>1
  <2> QED
    BY <1>1, <2>1, <2>2, <2>3, CallsUntouched
<1>7. CASE /\ Later(CacheHorizon) \/ now' = now
           /\ UNCHANGED cacheVars
  <2>1. now' \in Nat
    BY <1>1, <1>7 DEF Later
  <2>2. UNCHANGED <<caching, stored, order, weight, frozen, swept, cacheCalls,
                    cacheStats>>
    BY <1>7 DEF cacheVars
  <2>3. caching' \in [strategy : {"ttl", "lru", "lfu"}, awaited : BOOLEAN,
                      enabled : BOOLEAN]
        /\ caching'.strategy = caching.strategy /\ caching'.awaited = caching.awaited
    BY <1>1, <2>2
  <2> QED
    BY <1>1, <2>1, <2>2, <2>3, CallsUntouched
<1>8. CASE UNCHANGED <<now, cacheVars>>
  BY <1>7, <1>8
<1> QED
  BY <1>2, <1>3, <1>4, <1>5, <1>6, <1>7, <1>8, Zenon DEF CacheNext

LEMMA CacheInvInit == now = 0 /\ CacheInit => CacheInv
<1> SUFFICES ASSUME now = 0, CacheInit
             PROVE  CacheInv
  OBVIOUS
<1>1. /\ now = 0 /\ caching \in Strategies /\ stored = {}
      /\ order = <<>> /\ weight = [k \in CachedKey |-> 0] /\ frozen = FALSE
      /\ swept = 0 /\ cacheCalls = [t \in Task |-> NoCall] /\ cacheStats = NoStats
  BY Zenon DEF CacheInit, EmptyBook
<1>2. \A t \in Task : cacheCalls[t] = NoCall
  BY <1>1
<1>3. caching \in [strategy : {"ttl", "lru", "lfu"}, awaited : BOOLEAN,
                   enabled : BOOLEAN]
  BY <1>1 DEF Strategies
<1>4. CacheTypeOK
  <2>1. cacheStats \in [gets : Nat, sets : Nat, deletes : Nat, hits : Nat,
                        misses : Nat]
    BY <1>1 DEF NoStats
  <2>2. order \in Seq(CachedKey)
    BY <1>1
  <2>3. weight \in [CachedKey -> Nat]
    BY <1>1
  <2>4. cacheCalls \in [Task -> CacheCall]
    BY <1>1, NoCallType
  <2>5. stored \in SUBSET CachedKey /\ frozen \in BOOLEAN /\ swept \in Nat
    BY <1>1
  <2> QED
    BY <1>3, <2>1, <2>2, <2>3, <2>4, <2>5, Zenon DEF CacheTypeOK
<1>5. \A t \in Task : MemoryAt(t)
  BY <1>1, <1>2, NoCallType, CacheAssumption DEF MemoryAt
<1>6. GetsCounted
  <2>1. {t \in Task : cacheCalls[t].op = "get"} = {}
    BY <1>2, NoCallType
  <2>2. Cardinality({}) = 0
    BY FS_EmptySet
  <2>3. cacheStats.hits = 0 /\ cacheStats.misses = 0 /\ cacheStats.gets = 0
    BY <1>1 DEF NoStats
  <2>4. Cardinality({t \in Task : cacheCalls[t].op = "get"}) = 0
    BY <2>1, <2>2, Zenon
  <2> DEFINE getting == Cardinality({t \in Task : cacheCalls[t].op = "get"})
  <2>5. getting = 0
    BY <2>4
  <2> HIDE DEF getting
  <2>6. cacheStats.hits + cacheStats.misses + getting <= cacheStats.gets
    BY ONLY <2>3, <2>5
  <2> QED
    BY <2>6, Zenon DEF GetsCounted, getting
<1>7. ~caching.awaited => \E t \in Task : MemoryAt(t)
  BY <1>5, TaskAssumption
<1>8. \A t \in Task : CacheCallFits(cacheCalls[t])
  BY <1>2, NoCallType
<1>9. now \in Nat
  BY <1>1
<1> QED
  BY <1>4, <1>6, <1>7, <1>8, <1>9, Zenon DEF CacheInv

LEMMA CacheInvCorrect == CacheInv => CacheTypeOK /\ BooksBalance /\ GetsCounted
<1> SUFFICES ASSUME CacheInv
             PROVE  BooksBalance
  BY DEF CacheInv
<1>1. ASSUME ~caching.awaited, Quiet
      PROVE  /\ caching.strategy # "ttl" => Len(order) <= StrategySize
             /\ caching.strategy # "lfu" => stored \subseteq Range(order)
  <2>1. PICK t \in Task : MemoryAt(t)
    BY <1>1 DEF CacheInv
  <2>2. cacheCalls[t].pc = "idle"
    BY <1>1 DEF Quiet
  <2> QED
    BY <2>1, <2>2 DEF MemoryAt, Booked
<1> QED
  BY <1>1 DEF BooksBalance

\* A step of one task leaves the calls of the others alone.
LEMMA OthersStay ==
    ASSUME CacheInv, NEW t \in Task, NEW u \in Task, u # t, NEW call,
           Becomes(u, call)
    PROVE  cacheCalls'[t] = cacheCalls[t]
<1>1. cacheCalls \in [Task -> CacheCall]
  BY CacheTypes, Zenon
<1> QED
  BY <1>1 DEF Becomes

LEMMA RoomLeft == CacheInv /\ [CacheNext]_<<now, cacheVars>> => [SetLeavesRoom]_cacheVars
<1> SUFFICES ASSUME CacheInv, CacheNext, NEW t \in Task,
                    caching.strategy # "ttl",
                    cacheCalls[t].pc \in {"write", "evict"},
                    cacheCalls'[t].pc = "idle",
                    order' # order
             PROVE  Len(order') <= StrategySize
  BY DEF SetLeavesRoom, cacheVars
<1>1. cacheCalls \in [Task -> CacheCall] /\ cacheCalls'[t] # cacheCalls[t]
  BY CacheTypes
<1>2. ASSUME NEW u \in Task, NEW call, Becomes(u, call)
      PROVE  u = t
  BY <1>1, <1>2, OthersStay
<1>3. ASSUME NEW u \in Task, NEW k \in CachedKey,
             CacheGet(u, k) \/ CacheSet(u, k) \/ CacheDelete(u, k)
      PROVE  FALSE
  <2>1. cacheCalls[u].pc = "idle"
    BY <1>3, Zenon DEF CacheGet, CacheSet, CacheDelete, Begins
  <2>2. \E call : Becomes(u, call)
    BY <1>3, Zenon DEF CacheGet, CacheSet, CacheDelete, SweepsOn
  <2> QED
    BY <1>2, <2>1, <2>2
<1>4. ASSUME NEW u \in Task,
             \/ CacheClear(u) \/ ReadAnswers(u) \/ SweepAnswers(u)
             \/ DeleteAnswers(u) \/ ClearAnswers(u)
      PROVE  FALSE
  <2>1. cacheCalls[u].pc \notin {"write", "evict"}
    BY <1>4 DEF CacheClear, ReadAnswers, SweepAnswers, DeleteAnswers, ClearAnswers
  <2>2. \E call : Becomes(u, call)
    BY <1>4, Zenon DEF CacheClear, ReadAnswers, SweepAnswers, DeleteAnswers,
                       ClearAnswers, SweepsOn
  <2> QED
    BY <1>2, <2>1, <2>2
<1>5. ASSUME NEW u \in Task, WriteAnswers(u) \/ EvictionAnswers(u)
      PROVE  Len(order') <= StrategySize
  <2>1. \/ Evicts(u)
        \/ order' = order
        \/ caching.strategy = "ttl"
    BY <1>5, Zenon DEF WriteAnswers, EvictionAnswers
  <2>2. CASE Evicts(u)
    <3>1. u = t
      BY <1>2, <2>2, Zenon DEF Evicts
    <3>2. CASE Len(order') > StrategySize
      <4> DEFINE d == [NoCall EXCEPT !.pc = "evict", !.op = "set",
                                     !.of = <<Victim(order', weight')>>]
      <4>1. Becomes(t, d)
        BY <2>2, <3>1, <3>2, Zenon DEF Evicts
      <4>2. d.pc = "evict"
        BY DEF NoCall
      <4> HIDE DEF d
      <4>3. cacheCalls'[t] = d
        BY <1>1, <4>1 DEF Becomes
      <4> QED
        BY <4>2, <4>3
    <3>3. Len(order') \in Nat
      <4>1. CacheInv'
        BY CacheStep
      <4>2. order' \in Seq(CachedKey)
        BY <4>1 DEF CacheInv, CacheTypeOK
      <4> QED
        BY <4>2
    <3> QED
      BY <3>2, <3>3, CacheAssumption
  <2> QED
    BY <2>1, <2>2
<1>6. ASSUME NEW u \in Task, CallFails(u)
      PROVE  FALSE
  BY <1>6 DEF CallFails, book
<1>7. ASSUME UNCHANGED cacheCalls
      PROVE  FALSE
  BY <1>1, <1>7
<1>8. \A ks \in SUBSET CachedKey : InvalidatePattern(ks) => UNCHANGED cacheCalls
  BY DEF InvalidatePattern
<1>9. Toggled => UNCHANGED cacheCalls
  BY DEF Toggled
<1>10. \A k \in CachedKey : BackendDrops(k) => UNCHANGED cacheCalls
  BY DEF BackendDrops
<1>11. (UNCHANGED cacheVars) => UNCHANGED cacheCalls
  BY DEF cacheVars
<1> QED
  BY <1>3, <1>4, <1>5, <1>6, <1>7, <1>8, <1>9, <1>10, <1>11, Zenon DEF CacheNext

(****************************************************************************)
(* A strategy over a MemoryCache books, between calls, every key that is     *)
(* stored and no more than max_size, over Redis the set() that evicts leaves *)
(* no more; a get() counts once.  This is TTLCache, LRUCache and LFUCache    *)
(* under CacheManager, with calls that fail, are cancelled and interleave.   *)
(****************************************************************************)
THEOREM CacheSafe == CacheSpec => CacheCorrect
<1>1. now = 0 /\ CacheInit => CacheInv
  BY CacheInvInit
<1>2. CacheInv /\ [CacheNext]_<<now, cacheVars>> => CacheInv'
  BY CacheStep
<1>3. CacheInv => CacheTypeOK /\ BooksBalance /\ GetsCounted
  BY CacheInvCorrect
<1>4. CacheInv /\ [CacheNext]_<<now, cacheVars>> => [SetLeavesRoom]_cacheVars
  BY RoomLeft
<1> QED
  BY <1>1, <1>2, <1>3, <1>4, PTL DEF CacheSpec, CacheCorrect

(****************************************************************************)
(* Batch: the invariant.                                                    *)
(****************************************************************************)

\* The operations of a batch: an item is in one of them, once.
OperationsFit ==
    LET ops == batch.operations
    IN  /\ \A i \in DOMAIN ops : IsInjective(ops[i].data)
        /\ \A i, j \in DOMAIN ops :
              i # j => Range(ops[i].data) \cap Range(ops[j].data) = {}
        /\ batch.mode # "batch" => \A i \in DOMAIN ops : ops[i].priority = 0
        /\ Collecting => Len(ops) <= 1

BatchTypes ==
    /\ batch \in [mode : {"batch", "context"} \cup Collectors,
                  operations : Seq(Operation), executed : BOOLEAN,
                  active : BOOLEAN, extent : [items : Nat, calls : Nat]]
    /\ batches \in [total : Nat, completed : Nat, failed : Nat, records : Nat]
    /\ execution \in [Task -> Execution]
    /\ unnamed \in SUBSET Record
    /\ copies \in [Record -> Nat]

\* The results that the loop has awaited.
Results(run, outcomes) ==
    {c \in DOMAIN run.chunks :
        run.chunks[c].outcome \in outcomes /\ c \notin run.finished}

Reported(run) ==
    [c \in DOMAIN run.chunks |->
       IF run.chunks[c].outcome = "success" /\ c \notin run.finished
       THEN Len(run.chunks[c].data) ELSE 0]

CountsFit(run) ==
    run.pc \in {"executing", "returned", "raised"} =>
       /\ run.completed = Cardinality(Results(run, {"success"}))
       /\ run.failed >= Cardinality(Results(run, {"failure", "timeout"}))
       /\ run.processed = Total(Reported(run))

Ends(chunk) ==
    /\ chunk.pc = "done" <=> chunk.outcome # "none"
    /\ chunk.pc = "done" => chunk.size = Len(chunk.data)

\* The chunks start in their order, which is that of their priorities.
InOrder(chunks) ==
    \A c, d \in DOMAIN chunks : c < d =>
       /\ chunks[c].priority >= chunks[d].priority
       /\ chunks[d].pc # "waiting" => chunks[c].pc # "waiting"

AtWork(chunks) == {c \in DOMAIN chunks : chunks[c].pc \in Busy}

RunSafe(run) ==
    /\ run.pc = "idle" => run.chunks = <<>> /\ ~run.changed
    /\ \A c \in run.finished :
          c \in DOMAIN run.chunks /\ run.chunks[c].pc = "done"
    /\ run.pc \in {"returned", "raised"} =>
          /\ run.finished = {}
          /\ \A c \in DOMAIN run.chunks : run.chunks[c].pc = "done"
    /\ \A c \in DOMAIN run.chunks : Ends(run.chunks[c])
    /\ InOrder(run.chunks)
    /\ Cardinality(AtWork(run.chunks)) <= MaxConcurrency
    /\ CountsFit(run)

\* A record exists, or its own call has failed.
Made(r, chunk, have) == have[r] > 0 \/ r \in chunk.missed

\* What the calls for a chunk are about, and have made.
CallsFit(chunk, have) ==
    /\ IsInjective(chunk.data)
    /\ chunk.pc = "bulk" => chunk.sent = Range(chunk.data)
    /\ chunk.pc = "single" =>
          chunk.at \in DOMAIN chunk.data /\ chunk.sent = {chunk.data[chunk.at]}
    /\ chunk.kind = "create" =>
          \A i \in DOMAIN chunk.data :
             \/ chunk.pc = "single" /\ i < chunk.at
             \/ chunk.outcome = "success"
             => Made(chunk.data[i], chunk, have)

RunWhole(run, have) ==
    ~run.changed =>
       /\ \A c \in DOMAIN run.chunks : CallsFit(run.chunks[c], have)
       /\ \A c, d \in DOMAIN run.chunks :
             c # d => Range(run.chunks[c].data) \cap Range(run.chunks[d].data) = {}

\* The executions whose bulk call, or own call, for a record is over.
BulkOver(chunk) == chunk.kind = "create" /\ chunk.pc \notin {"waiting", "bulk"}

SingleOver(chunk, i) ==
    /\ chunk.kind = "create"
    /\ chunk.pc = "done" \/ (chunk.pc = "single" /\ i < chunk.at)

Bulked(runs, r) ==
    {t \in Task : \E c \in DOMAIN runs[t].chunks :
                     /\ BulkOver(runs[t].chunks[c])
                     /\ r \in Range(runs[t].chunks[c].data)}

Singled(runs, r) ==
    {t \in Task : \E c \in DOMAIN runs[t].chunks :
                  \E i \in DOMAIN runs[t].chunks[c].data :
                     /\ SingleOver(runs[t].chunks[c], i)
                     /\ runs[t].chunks[c].data[i] = r}

CopiesFit ==
    \/ \E t \in Task : execution[t].changed
    \/ \A r \in Record :
          copies[r] <= Cardinality(Bulked(execution, r))
                          + Cardinality(Singled(execution, r))

BatchInv ==
    /\ BatchTypes
    /\ OperationsFit
    /\ batches.total = batches.completed + batches.failed
    /\ batch.executed => \E t \in Task : execution[t].pc = "returned"
    /\ \A t \in Task : RunSafe(execution[t]) /\ RunWhole(execution[t], copies)
    /\ CopiesFit

(****************************************************************************)
(* A chunk goes on.                                                         *)
(****************************************************************************)

\* What a chunk is when it goes on.
GoesOn(old, new) ==
    /\ new \in Chunk
    /\ new.kind = old.kind /\ new.priority = old.priority /\ new.data = old.data
    /\ new.pc # "waiting"
    /\ Ends(new)

LEMMA ChunkTypes ==
    ASSUME NEW chunk \in Chunk
    PROVE  /\ chunk.priority \in Nat /\ chunk.data \in Seq(Record) /\ chunk.at \in Nat
           /\ chunk.sent \in SUBSET Record /\ chunk.missed \in SUBSET Record
           /\ chunk.made \in BOOLEAN /\ chunk.size \in Nat /\ chunk.whole \in BOOLEAN
           /\ chunk.kind \in {"create", "write", "update", "unlink"}
           /\ chunk.pc \in {"waiting", "bulk", "single", "done"}
           /\ chunk.outcome \in {"none", "success", "failure", "timeout"}
  BY DEF Chunk

LEMMA RunTypes ==
    ASSUME NEW run \in Execution
    PROVE  /\ run.chunks \in Seq(Chunk) /\ run.finished \in SUBSET Nat
           /\ run.completed \in Nat /\ run.failed \in Nat /\ run.processed \in Nat
           /\ run.changed \in BOOLEAN
           /\ run.pc \in {"idle", "executing", "abandoned", "returned", "raised"}
           /\ run.chunks \in [1..Len(run.chunks) -> Chunk]
           /\ DOMAIN run.chunks = 1..Len(run.chunks) /\ Len(run.chunks) \in Nat
           /\ \A c \in DOMAIN run.chunks : run.chunks[c] \in Chunk
<1>1. run.chunks \in Seq(Chunk)
  BY DEF Execution
<1> QED
  BY <1>1 DEF Execution

LEMMA OverFacts ==
    ASSUME NEW chunk \in Chunk,
           NEW outcome \in {"success", "failure", "timeout"}
    PROVE  LET new == Over(chunk, outcome)
           IN  /\ GoesOn(chunk, new) /\ new.pc = "done" /\ new.outcome = outcome
               /\ new.missed = chunk.missed
<1> DEFINE new == Over(chunk, outcome)
<1>1. Len(chunk.data) \in Nat
  BY ChunkTypes
<1>2. new \in Chunk
  BY <1>1 DEF Chunk, Over
<1>3. /\ new.pc = "done" /\ new.size = Len(chunk.data) /\ new.outcome = outcome
      /\ new.kind = chunk.kind /\ new.priority = chunk.priority /\ new.data = chunk.data
      /\ new.missed = chunk.missed
  BY DEF Chunk, Over
<1> QED
  BY <1>2, <1>3 DEF GoesOn, Ends

LEMMA SendingOneFacts ==
    ASSUME NEW chunk \in Chunk, chunk.outcome = "none", NEW i \in DOMAIN chunk.data
    PROVE  LET new == SendingOne(chunk, i)
           IN  /\ GoesOn(chunk, new) /\ new.pc = "single" /\ new.outcome = "none"
               /\ new.missed = chunk.missed /\ new.at = i /\ new.sent = {chunk.data[i]}
<1> DEFINE new == SendingOne(chunk, i)
<1>1. {chunk.data[i]} \in SUBSET Record /\ i \in Nat
  BY ChunkTypes
<1>2. new \in Chunk
  BY <1>1 DEF Chunk, SendingOne
<1>3. /\ new.pc = "single" /\ new.at = i /\ new.outcome = "none"
      /\ new.kind = chunk.kind /\ new.priority = chunk.priority /\ new.data = chunk.data
      /\ new.missed = chunk.missed /\ new.sent = {chunk.data[i]}
  BY DEF Chunk, SendingOne
<1> QED
  BY <1>2, <1>3 DEF GoesOn, Ends

LEMMA SendingFacts ==
    ASSUME NEW chunk \in Chunk, chunk.outcome = "none"
    PROVE  LET new == Sending(chunk)
           IN  /\ GoesOn(chunk, new) /\ new.pc = "bulk" /\ new.outcome = "none"
               /\ new.missed = chunk.missed /\ new.sent = Range(chunk.data)
<1> DEFINE new == Sending(chunk)
<1>1. Range(chunk.data) \in SUBSET Record
  BY ChunkTypes DEF Range
<1>2. new \in Chunk
  BY <1>1 DEF Chunk, Sending
<1>3. /\ new.pc = "bulk" /\ new.outcome = "none"
      /\ new.kind = chunk.kind /\ new.priority = chunk.priority /\ new.data = chunk.data
      /\ new.missed = chunk.missed /\ new.sent = Range(chunk.data)
  BY DEF Chunk, Sending
<1> QED
  BY <1>2, <1>3 DEF GoesOn, Ends

\* Where the loop over the items takes a chunk when it comes to item i.
TakesTo(t, c, i, chunk, new, ended) ==
    /\ execution' = Moved(t, c, new, ended)
    /\ GoesOn(chunk, new) /\ new.missed = chunk.missed
    /\ \/ /\ new.pc = "done" /\ ended = {c}
          /\ new.kind = "create" => i > Len(chunk.data)
       \/ /\ new.pc = "single" /\ ended = {} /\ i \in DOMAIN chunk.data
          /\ new.at = i /\ new.sent = {chunk.data[i]}
          /\ new.outcome = "none"

LEMMA TakenUp ==
    ASSUME NEW t, NEW c, NEW i \in Nat \ {0}, NEW chunk \in Chunk,
           chunk.outcome = "none", TakeUp(t, c, i, chunk)
    PROVE  \E new, ended : TakesTo(t, c, i, chunk, new, ended)
<1>1. chunk.data \in Seq(Record) /\ Len(chunk.data) \in Nat
      /\ DOMAIN chunk.data = 1..Len(chunk.data)
  BY ChunkTypes
<1>2. ASSUME NEW outcome \in {"success", "failure"},
             execution' = Ended(t, c, chunk, outcome),
             chunk.kind = "create" => i > Len(chunk.data)
      PROVE  \E new, ended : TakesTo(t, c, i, chunk, new, ended)
  <2> DEFINE new == Over(chunk, outcome)
  <2>1. execution' = Moved(t, c, new, {c})
    BY <1>2 DEF Ended
  <2>2. GoesOn(chunk, new) /\ new.pc = "done" /\ new.missed = chunk.missed
    BY OverFacts
  <2>3. new.kind = chunk.kind
    BY <2>2 DEF GoesOn
  <2> HIDE DEF new
  <2> QED
    BY <1>2, <2>1, <2>2, <2>3 DEF TakesTo
<1>3. CASE i > Len(chunk.data)
  <2>1. PICK outcome \in {"success", "failure"} : execution' = Ended(t, c, chunk, outcome)
    BY <1>1, <1>3 DEF TakeUp
  <2> QED
    BY <1>2, <1>3, <2>1
<1>4. CASE i <= Len(chunk.data) /\ chunk.kind = "update" /\ chunk.data[i] \in unnamed
  <2>1. execution' = Ended(t, c, chunk, "failure")
    BY <1>1, <1>4 DEF TakeUp
  <2> QED
    BY <1>2, <1>4, <2>1
<1>5. CASE i <= Len(chunk.data) /\ ~(chunk.kind = "update" /\ chunk.data[i] \in unnamed)
  <2> DEFINE new == SendingOne(chunk, i)
  <2>1. execution' = Moved(t, c, new, {})
    BY <1>1, <1>5 DEF TakeUp
  <2>2. i \in DOMAIN chunk.data
    BY <1>1, <1>5
  <2>3. /\ GoesOn(chunk, new) /\ new.pc = "single" /\ new.outcome = "none"
        /\ new.missed = chunk.missed /\ new.at = i /\ new.sent = {chunk.data[i]}
    BY <2>2, SendingOneFacts
  <2> HIDE DEF new
  <2> QED
    BY <2>1, <2>2, <2>3 DEF TakesTo
<1> QED
  BY <1>1, <1>3, <1>4, <1>5

\* What a chunk that goes on changes of its execution.
Moves(run, c, new, ended, next) ==
    /\ next \in Execution
    /\ DOMAIN next.chunks = DOMAIN run.chunks
    /\ \A d \in DOMAIN run.chunks :
          next.chunks[d] = IF d = c THEN new ELSE run.chunks[d]
    /\ next.finished = run.finished \cup ended
    /\ next.pc = run.pc
    /\ next.completed = run.completed
    /\ next.failed = run.failed
    /\ next.processed = run.processed
    /\ next.changed = run.changed

LEMMA MovedKeeps ==
    ASSUME execution \in [Task -> Execution], NEW t \in Task,
           NEW c \in DOMAIN execution[t].chunks, NEW new \in Chunk,
           NEW ended \in SUBSET Nat, execution' = Moved(t, c, new, ended)
    PROVE  /\ execution' \in [Task -> Execution]
           /\ \A u \in Task \ {t} : execution'[u] = execution[u]
           /\ Moves(execution[t], c, new, ended, execution'[t])
<1> DEFINE run == execution[t]
           chunks == [run.chunks EXCEPT ![c] = new]
           next == [run EXCEPT !.chunks = chunks, !.finished = run.finished \cup ended]
<1>1. run \in Execution
  OBVIOUS
<1>2. run.chunks \in Seq(Chunk) /\ run.finished \in SUBSET Nat
  BY <1>1 DEF Execution
<1>3. /\ chunks \in Seq(Chunk) /\ DOMAIN chunks = DOMAIN run.chunks
      /\ \A d \in DOMAIN run.chunks : chunks[d] = IF d = c THEN new ELSE run.chunks[d]
  BY <1>2
<1> HIDE DEF chunks
<1>4. execution' = [execution EXCEPT ![t] = next]
  BY DEF Moved, chunks
<1>5. next \in Execution
  BY <1>1, <1>2, <1>3 DEF Execution
<1>6. /\ next.chunks = chunks /\ next.finished = run.finished \cup ended
      /\ next.pc = run.pc /\ next.completed = run.completed /\ next.failed = run.failed
      /\ next.processed = run.processed /\ next.changed = run.changed
  BY <1>1 DEF Execution
<1> HIDE DEF next
<1>7. /\ execution' \in [Task -> Execution]
      /\ \A u \in Task \ {t} : execution'[u] = execution[u]
      /\ execution'[t] = next
  BY <1>4, <1>5
<1>8. Moves(run, c, new, ended, next)
  BY <1>3, <1>5, <1>6 DEF Moves
<1> QED
  BY <1>7, <1>8

LEMMA OneMore ==
    ASSUME NEW S, IsFiniteSet(S), NEW x
    PROVE  /\ IsFiniteSet(S \cup {x})
           /\ Cardinality(S) \in Nat
           /\ Cardinality(S \cup {x}) = IF x \in S THEN Cardinality(S)
                                         ELSE Cardinality(S) + 1
  BY FS_AddElement, FS_CardinalityType

LEMMA FewerOf ==
    ASSUME NEW S, IsFiniteSet(S), NEW R \in SUBSET S
    PROVE  /\ IsFiniteSet(R) /\ Cardinality(R) \in Nat
           /\ Cardinality(R) <= Cardinality(S)
  BY FS_Subset, FS_CardinalityType

\* A chunk that the semaphore lets in.
MayGo(chunks, c) ==
    /\ \A d \in 1..(c - 1) : chunks[d].pc # "waiting"
    /\ Cardinality(AtWork(chunks)) < MaxConcurrency

LEMMA RunMoves ==
    ASSUME NEW run \in Execution, NEW c \in DOMAIN run.chunks, NEW new, NEW ended,
           NEW next, Moves(run, c, new, ended, next),
           GoesOn(run.chunks[c], new),
           ended = IF new.pc = "done" THEN {c} ELSE {},
           run.chunks[c].pc # "done", RunSafe(run),
           run.chunks[c].pc \in Busy \/ MayGo(run.chunks, c)
    PROVE  RunSafe(next)
<1> DEFINE old == run.chunks[c]
<1>1. run.chunks \in Seq(Chunk) /\ DOMAIN run.chunks = 1..Len(run.chunks)
      /\ Len(run.chunks) \in Nat /\ c \in Nat /\ old \in Chunk
      /\ \A d \in DOMAIN run.chunks : run.chunks[d] \in Chunk /\ d \in Nat
  BY RunTypes
<1>2. ended \in SUBSET Nat
  BY <1>1
<1>3. /\ DOMAIN next.chunks = DOMAIN run.chunks
      /\ \A d \in DOMAIN run.chunks :
            next.chunks[d] = IF d = c THEN new ELSE run.chunks[d]
      /\ next.finished = run.finished \cup ended
      /\ next.pc = run.pc /\ next.completed = run.completed /\ next.failed = run.failed
      /\ next.processed = run.processed /\ next.changed = run.changed
  BY Zenon DEF Moves
<1>4. /\ run.pc \notin {"idle", "returned", "raised"}
      /\ \A d \in run.finished : d \in DOMAIN run.chunks /\ run.chunks[d].pc = "done"
      /\ \A d \in DOMAIN run.chunks : Ends(run.chunks[d])
      /\ InOrder(run.chunks)
      /\ Cardinality(AtWork(run.chunks)) <= MaxConcurrency
      /\ CountsFit(run)
  BY <1>1 DEF RunSafe
<1>5. /\ new.pc # "waiting" /\ new.priority = old.priority /\ new.data = old.data
      /\ Ends(new) /\ old.pc # "done"
  BY DEF GoesOn
<1> HIDE DEF old
<1>6. ASSUME NEW d \in next.finished
      PROVE  d \in DOMAIN next.chunks /\ next.chunks[d].pc = "done"
  BY <1>3, <1>4, <1>6 DEF old
<1>7. ASSUME NEW d \in DOMAIN next.chunks
      PROVE  Ends(next.chunks[d])
  BY <1>3, <1>4, <1>5, <1>7
<1>8. InOrder(next.chunks)
  <2> SUFFICES ASSUME NEW d \in DOMAIN next.chunks, NEW e \in DOMAIN next.chunks, d < e
               PROVE  /\ next.chunks[d].priority >= next.chunks[e].priority
                      /\ next.chunks[e].pc # "waiting" => next.chunks[d].pc # "waiting"
    BY DEF InOrder
  <2>1. /\ run.chunks[d].priority >= run.chunks[e].priority
        /\ run.chunks[e].pc # "waiting" => run.chunks[d].pc # "waiting"
    BY <1>3, <1>4 DEF InOrder
  <2>2. /\ next.chunks[d].priority = run.chunks[d].priority
        /\ next.chunks[e].priority = run.chunks[e].priority
    BY <1>3, <1>5 DEF old
  <2>3. ASSUME next.chunks[e].pc # "waiting"
        PROVE  next.chunks[d].pc # "waiting"
    <3>1. CASE d = c
      BY <1>3, <1>5, <3>1
    <3>2. CASE d # c /\ e # c
      BY <1>3, <2>1, <2>3, <3>2
    <3>3. CASE d # c /\ e = c /\ old.pc \in Busy
      BY <1>3, <2>1, <3>3 DEF Busy, old
    <3>4. CASE d # c /\ e = c /\ MayGo(run.chunks, c)
      <4>1. d \in 1..(c - 1)
        BY <1>1, <1>3, <3>4
      <4> QED
        BY <1>3, <3>4, <4>1 DEF MayGo
    <3> QED
      BY <3>1, <3>2, <3>3, <3>4 DEF old
  <2> QED
    BY <2>1, <2>2, <2>3
<1>9. Cardinality(AtWork(next.chunks)) <= MaxConcurrency
  <2>1. IsFiniteSet(AtWork(run.chunks)) /\ AtWork(run.chunks) \subseteq 1..Len(run.chunks)
    <3>1. AtWork(run.chunks) \subseteq 1..Len(run.chunks)
      BY <1>1 DEF AtWork
    <3>2. IsFiniteSet(1..Len(run.chunks))
      BY <1>1, FS_Interval
    <3> QED
      BY <3>1, <3>2, FS_Subset
  <2>2. MaxConcurrency \in Nat
    BY BatchAssumption
  <2>3. CASE old.pc \in Busy
    <3>1. AtWork(next.chunks) \subseteq AtWork(run.chunks)
      BY <1>3, <2>3 DEF AtWork, old
    <3> QED
      BY <1>4, <2>1, <2>2, <3>1, FS_Subset, FS_CardinalityType
  <2>4. CASE MayGo(run.chunks, c)
    <3>1. Cardinality(AtWork(run.chunks)) < MaxConcurrency
      BY <2>4 DEF MayGo
    <3>2. AtWork(next.chunks) \subseteq AtWork(run.chunks) \cup {c}
      BY <1>3 DEF AtWork
    <3>3. /\ IsFiniteSet(AtWork(run.chunks) \cup {c})
          /\ Cardinality(AtWork(run.chunks) \cup {c}) <= Cardinality(AtWork(run.chunks)) + 1
      <4>1. /\ IsFiniteSet(AtWork(run.chunks) \cup {c})
            /\ Cardinality(AtWork(run.chunks)) \in Nat
            /\ Cardinality(AtWork(run.chunks) \cup {c})
                  = IF c \in AtWork(run.chunks) THEN Cardinality(AtWork(run.chunks))
                    ELSE Cardinality(AtWork(run.chunks)) + 1
        BY ONLY <2>1, OneMore
      <4> QED
        BY ONLY <4>1
    <3>4. Cardinality(AtWork(next.chunks)) <= Cardinality(AtWork(run.chunks) \cup {c})
          /\ IsFiniteSet(AtWork(next.chunks))
      BY <3>2, <3>3, FS_Subset
    <3> QED
      BY <2>1, <2>2, <3>1, <3>3, <3>4, FS_CardinalityType
  <2> QED
    BY <2>3, <2>4 DEF old
<1>10. CountsFit(next)
  <2>1. c \notin run.finished /\ old.outcome = "none"
    BY <1>4, <1>5 DEF Ends, old
  <2>2. c \in next.finished \/ new.outcome = "none"
    BY <1>3, <1>5 DEF Ends
  <2>3. ASSUME NEW outcomes, "none" \notin outcomes
        PROVE  Results(next, outcomes) = Results(run, outcomes)
    BY <1>2, <1>3, <2>1, <2>2, <2>3 DEF Results, old
  <2>4. Reported(next) = Reported(run)
    <3>1. ASSUME NEW d \in DOMAIN run.chunks
          PROVE  (next.chunks[d].outcome = "success" /\ d \notin next.finished)
                    <=> (run.chunks[d].outcome = "success" /\ d \notin run.finished)
      BY <1>3, <2>1, <2>2 DEF old
    <3>2. \A d \in DOMAIN run.chunks : next.chunks[d].data = run.chunks[d].data
      BY <1>3, <1>5 DEF old
    <3> QED
      BY <1>3, <3>1, <3>2 DEF Reported
  <2>5. Results(next, {"success"}) = Results(run, {"success"})
        /\ Results(next, {"failure", "timeout"}) = Results(run, {"failure", "timeout"})
    BY <2>3
  <2> QED
    BY <1>3, <1>4, <2>4, <2>5 DEF CountsFit
<1> QED
  BY <1>3, <1>4, <1>6, <1>7, <1>8, <1>9, <1>10 DEF RunSafe

LEMMA CallsStay ==
    ASSUME NEW chunk \in Chunk, NEW have \in [Record -> Nat], NEW more \in [Record -> Nat],
           \A r \in Record : have[r] <= more[r], CallsFit(chunk, have)
    PROVE  CallsFit(chunk, more)
<1>1. \A i \in DOMAIN chunk.data : chunk.data[i] \in Record
  BY ChunkTypes
<1>2. \A r \in Record : Made(r, chunk, have) => Made(r, chunk, more)
  BY DEF Made
<1> QED
  BY <1>1, <1>2 DEF CallsFit

LEMMA WholeMoves ==
    ASSUME NEW run \in Execution, NEW c \in DOMAIN run.chunks, NEW new, NEW ended,
           NEW next, Moves(run, c, new, ended, next), GoesOn(run.chunks[c], new),
           NEW have \in [Record -> Nat], NEW more \in [Record -> Nat],
           \A r \in Record : have[r] <= more[r], RunWhole(run, have),
           ~run.changed => CallsFit(new, more)
    PROVE  RunWhole(next, more)
<1>1. \A d \in DOMAIN run.chunks : run.chunks[d] \in Chunk
  BY RunTypes
<1>2. /\ DOMAIN next.chunks = DOMAIN run.chunks
      /\ \A d \in DOMAIN run.chunks :
            next.chunks[d] = IF d = c THEN new ELSE run.chunks[d]
      /\ next.changed = run.changed
  BY Zenon DEF Moves
<1>3. \A d \in DOMAIN run.chunks : next.chunks[d].data = run.chunks[d].data
  BY <1>2 DEF GoesOn
<1>4. ASSUME ~run.changed, NEW d \in DOMAIN run.chunks
      PROVE  CallsFit(next.chunks[d], more)
  <2>1. CASE d = c
    BY <1>2, <1>4, <2>1
  <2>2. CASE d # c
    <3>1. CallsFit(run.chunks[d], have)
      BY <1>4 DEF RunWhole
    <3>2. CallsFit(run.chunks[d], more)
      BY <1>1, <3>1, CallsStay
    <3> QED
      BY <1>2, <2>2, <3>2
  <2> QED
    BY <2>1, <2>2
<1> QED
  BY <1>2, <1>3, <1>4 DEF RunWhole

LEMMA WholeStays ==
    ASSUME NEW run \in Execution,
           NEW have \in [Record -> Nat], NEW more \in [Record -> Nat],
           \A r \in Record : have[r] <= more[r], RunWhole(run, have)
    PROVE  RunWhole(run, more)
<1>1. \A d \in DOMAIN run.chunks : run.chunks[d] \in Chunk
  BY RunTypes
<1>2. ASSUME ~run.changed, NEW d \in DOMAIN run.chunks
      PROVE  CallsFit(run.chunks[d], more)
  <2>1. CallsFit(run.chunks[d], have)
    BY <1>2 DEF RunWhole
  <2> QED
    BY <1>1, <2>1, CallsStay
<1> QED
  BY <1>2 DEF RunWhole

\* How often a call about record r, over with the step of a chunk, is made.
Newly(r, old, new) ==
    \/ r \in Range(old.data) /\ BulkOver(new) /\ ~BulkOver(old)
    \/ \E i \in DOMAIN old.data :
          old.data[i] = r /\ SingleOver(new, i) /\ ~SingleOver(old, i)

LEMMA CopiesMove ==
    ASSUME execution \in [Task -> Execution], NEW t \in Task,
           NEW c \in DOMAIN execution[t].chunks, NEW new, NEW ended,
           Moves(execution[t], c, new, ended, execution'[t]),
           \A u \in Task \ {t} : execution'[u] = execution[u],
           GoesOn(execution[t].chunks[c], new),
           RunWhole(execution[t], copies), CopiesFit,
           copies \in [Record -> Nat], copies' \in [Record -> Nat],
           BulkOver(execution[t].chunks[c]) => BulkOver(new),
           \A i \in Nat : SingleOver(execution[t].chunks[c], i) => SingleOver(new, i),
           ~execution[t].changed => \A r \in Record :
              \/ copies'[r] = copies[r]
              \/ copies'[r] = copies[r] + 1 /\ Newly(r, execution[t].chunks[c], new)
    PROVE  CopiesFit'
<1> DEFINE run == execution[t]
           old == run.chunks[c]
           next == execution'[t]
<1>1. /\ DOMAIN next.chunks = DOMAIN run.chunks
      /\ \A d \in DOMAIN run.chunks :
            next.chunks[d] = IF d = c THEN new ELSE run.chunks[d]
      /\ next.changed = run.changed
  BY Zenon DEF Moves
<1>2. new.data = old.data /\ new.kind = old.kind
  BY DEF GoesOn
<1>3. \A u \in Task : execution'[u].changed = execution[u].changed
  BY <1>1
<1>4. ASSUME NEW r \in Record
      PROVE  Bulked(execution, r) \subseteq Bulked(execution', r)
  <2> SUFFICES ASSUME NEW u \in Bulked(execution, r)
               PROVE  u \in Bulked(execution', r)
    OBVIOUS
  <2>1. PICK d \in DOMAIN execution[u].chunks :
           BulkOver(execution[u].chunks[d]) /\ r \in Range(execution[u].chunks[d].data)
    BY DEF Bulked
  <2>2. d \in DOMAIN execution'[u].chunks /\ BulkOver(execution'[u].chunks[d])
        /\ execution'[u].chunks[d].data = execution[u].chunks[d].data
    BY <1>1, <1>2, <2>1 DEF Bulked
  <2> QED
    BY <2>1, <2>2 DEF Bulked
<1>5. ASSUME NEW r \in Record
      PROVE  Singled(execution, r) \subseteq Singled(execution', r)
  <2> SUFFICES ASSUME NEW u \in Singled(execution, r)
               PROVE  u \in Singled(execution', r)
    OBVIOUS
  <2>0. PICK d \in DOMAIN execution[u].chunks :
           \E i \in DOMAIN execution[u].chunks[d].data :
              SingleOver(execution[u].chunks[d], i) /\ execution[u].chunks[d].data[i] = r
    BY DEF Singled
  <2>1. PICK i \in DOMAIN execution[u].chunks[d].data :
           SingleOver(execution[u].chunks[d], i) /\ execution[u].chunks[d].data[i] = r
    BY <2>0
  <2>2. d \in DOMAIN execution'[u].chunks /\ SingleOver(execution'[u].chunks[d], i)
        /\ execution'[u].chunks[d].data = execution[u].chunks[d].data
    <3>1. u \in Task /\ execution[u] \in Execution
      BY DEF Singled
    <3>2. execution[u].chunks[d].data \in Seq(Record)
      BY <3>1, RunTypes, ChunkTypes
    <3>3. i \in Nat
      BY <3>2
    <3> QED
      BY <1>1, <1>2, <2>1, <3>1, <3>3
  <2> QED
    BY <2>1, <2>2 DEF Singled
<1>6. \A r : /\ Bulked(execution, r) \subseteq Task /\ Bulked(execution', r) \subseteq Task
             /\ Singled(execution, r) \subseteq Task /\ Singled(execution', r) \subseteq Task
  BY DEF Bulked, Singled
<1>7. IsFiniteSet(Task)
  BY TaskAssumption
<1>8. ASSUME NEW R \in SUBSET Task, NEW S \in SUBSET Task, R \subseteq S
      PROVE  /\ Cardinality(R) \in Nat /\ Cardinality(S) \in Nat
             /\ Cardinality(R) <= Cardinality(S)
             /\ t \in S /\ t \notin R => Cardinality(R) + 1 <= Cardinality(S)
  <2>1. IsFiniteSet(R) /\ IsFiniteSet(S) /\ Cardinality(R) \in Nat /\ Cardinality(S) \in Nat
    BY <1>7, FewerOf
  <2>2. Cardinality(R) <= Cardinality(S)
    BY <1>8, <2>1, FewerOf
  <2>3. ASSUME t \in S, t \notin R
        PROVE  Cardinality(R) + 1 <= Cardinality(S)
    <3>1. R \cup {t} \in SUBSET S
      BY <1>8, <2>3
    <3>2. Cardinality(R \cup {t}) <= Cardinality(S)
      BY <2>1, <3>1, FewerOf
    <3>3. Cardinality(R \cup {t}) = Cardinality(R) + 1
      BY <2>1, <2>3, OneMore
    <3> QED
      BY <3>2, <3>3
  <2> QED
    BY <2>1, <2>2, <2>3
<1>9. CASE \E u \in Task : execution[u].changed
  BY <1>3, <1>9 DEF CopiesFit
<1>10. CASE ~\E u \in Task : execution[u].changed
  <2>1. /\ IsInjective(old.data)
        /\ \A d \in DOMAIN run.chunks : d # c =>
              Range(run.chunks[d].data) \cap Range(old.data) = {}
    BY <1>10 DEF RunWhole, CallsFit
  <2>2. ASSUME NEW r \in Record
        PROVE  copies'[r] <= Cardinality(Bulked(execution', r))
                                + Cardinality(Singled(execution', r))
    <3>1. copies[r] <= Cardinality(Bulked(execution, r)) + Cardinality(Singled(execution, r))
      BY <1>10 DEF CopiesFit
    <3>2. /\ Cardinality(Bulked(execution, r)) \in Nat
          /\ Cardinality(Bulked(execution', r)) \in Nat
          /\ Cardinality(Bulked(execution, r)) <= Cardinality(Bulked(execution', r))
          /\ t \in Bulked(execution', r) /\ t \notin Bulked(execution, r) =>
                Cardinality(Bulked(execution, r)) + 1 <= Cardinality(Bulked(execution', r))
      BY <1>4, <1>6, <1>8
    <3>3. /\ Cardinality(Singled(execution, r)) \in Nat
          /\ Cardinality(Singled(execution', r)) \in Nat
          /\ Cardinality(Singled(execution, r)) <= Cardinality(Singled(execution', r))
          /\ t \in Singled(execution', r) /\ t \notin Singled(execution, r) =>
                Cardinality(Singled(execution, r)) + 1 <= Cardinality(Singled(execution', r))
      BY <1>5, <1>6, <1>8
    <3>4. copies[r] \in Nat
      OBVIOUS
    <3>5. CASE copies'[r] = copies[r]
      BY ONLY <3>1, <3>2, <3>3, <3>4, <3>5
    <3>6. CASE copies'[r] = copies[r] + 1 /\ r \in Range(old.data)
               /\ BulkOver(new) /\ ~BulkOver(old)
      <4>1. t \in Bulked(execution', r)
        BY <1>1, <1>2, <3>6 DEF Bulked
      <4>2. t \notin Bulked(execution, r)
        BY <2>1, <3>6 DEF Bulked
      <4>3. Cardinality(Bulked(execution, r)) + 1 <= Cardinality(Bulked(execution', r))
        BY ONLY <3>2, <4>1, <4>2
      <4> QED
        BY ONLY <3>1, <3>2, <3>3, <3>4, <3>6, <4>3
    <3>7. ASSUME copies'[r] = copies[r] + 1, NEW i \in DOMAIN old.data, old.data[i] = r,
                 SingleOver(new, i), ~SingleOver(old, i)
          PROVE  copies'[r] <= Cardinality(Bulked(execution', r))
                                  + Cardinality(Singled(execution', r))
      <4>1. t \in Singled(execution', r)
        BY <1>1, <1>2, <3>7 DEF Singled
      <4>2. t \notin Singled(execution, r)
        <5> SUFFICES ASSUME NEW d \in DOMAIN run.chunks, NEW j \in DOMAIN run.chunks[d].data,
                            SingleOver(run.chunks[d], j), run.chunks[d].data[j] = r
                     PROVE  FALSE
          BY DEF Singled
        <5>1. r \in Range(run.chunks[d].data) /\ r \in Range(old.data)
          BY <3>7 DEF Range
        <5>2. d = c
          BY <2>1, <5>1
        <5>3. i = j
          BY <2>1, <3>7, <5>2 DEF IsInjective
        <5> QED
          BY <3>7, <5>2, <5>3
      <4>3. Cardinality(Singled(execution, r)) + 1 <= Cardinality(Singled(execution', r))
        BY ONLY <3>3, <4>1, <4>2
      <4> QED
        BY ONLY <3>1, <3>2, <3>3, <3>4, <3>7, <4>3
    <3> QED
      BY <1>10, <3>5, <3>6, <3>7 DEF Newly
  <2> QED
    BY <2>2 DEF CopiesFit
<1> QED
  BY <1>9, <1>10

LEMMA ChunkStep ==
    ASSUME BatchInv, NEW t \in Task, NEW c \in DOMAIN execution[t].chunks, NEW new,
           NEW ended, execution' = Moved(t, c, new, ended),
           GoesOn(execution[t].chunks[c], new),
           ended = IF new.pc = "done" THEN {c} ELSE {},
           execution[t].chunks[c].pc # "done",
           execution[t].chunks[c].pc \in Busy \/ MayStart(t, c),
           UNCHANGED <<batch, batches>>, unnamed' \in SUBSET Record,
           copies' \in [Record -> Nat], \A r \in Record : copies[r] <= copies'[r],
           ~execution[t].changed => CallsFit(new, copies'),
           BulkOver(execution[t].chunks[c]) => BulkOver(new),
           \A i \in Nat : SingleOver(execution[t].chunks[c], i) => SingleOver(new, i),
           ~execution[t].changed => \A r \in Record :
              \/ copies'[r] = copies[r]
              \/ copies'[r] = copies[r] + 1 /\ Newly(r, execution[t].chunks[c], new)
    PROVE  BatchInv'
<1>1. /\ execution \in [Task -> Execution] /\ copies \in [Record -> Nat]
      /\ \A u \in Task : RunSafe(execution[u]) /\ RunWhole(execution[u], copies)
      /\ CopiesFit
  BY Zenon DEF BatchInv, BatchTypes
<1>2. execution[t] \in Execution /\ new \in Chunk
  BY <1>1 DEF GoesOn
<1>3. ended \in SUBSET Nat
  BY <1>2, RunTypes
<1>4. /\ execution' \in [Task -> Execution]
      /\ \A u \in Task \ {t} : execution'[u] = execution[u]
      /\ Moves(execution[t], c, new, ended, execution'[t])
  BY <1>1, <1>2, <1>3, MovedKeeps
<1>5. execution[t].chunks[c].pc \in Busy \/ MayGo(execution[t].chunks, c)
  BY DEF MayStart, MayGo, AtWork, Quantify
<1>6. RunSafe(execution'[t])
  BY <1>1, <1>2, <1>4, <1>5, RunMoves
<1>7. RunWhole(execution'[t], copies')
  BY <1>1, <1>2, <1>4, WholeMoves
<1>8. ASSUME NEW u \in Task
      PROVE  RunSafe(execution'[u]) /\ RunWhole(execution'[u], copies')
  <2>1. CASE u = t
    BY <1>6, <1>7, <2>1
  <2>2. CASE u # t
    <3>1. execution'[u] = execution[u] /\ execution[u] \in Execution
      BY <1>1, <1>4, <2>2
    <3>2. RunWhole(execution[u], copies')
      BY <1>1, <3>1, WholeStays
    <3> QED
      BY <1>1, <3>1, <3>2
  <2> QED
    BY <2>1, <2>2
<1>9. CopiesFit'
  BY <1>1, <1>4, CopiesMove
<1>10. BatchTypes'
  BY <1>4 DEF BatchInv, BatchTypes
<1>11. OperationsFit'
  BY DEF BatchInv, OperationsFit, Collecting
<1>12. (batch.executed => \E u \in Task : execution[u].pc = "returned")'
  <2>1. \A u \in Task : execution'[u].pc = execution[u].pc
    BY <1>4 DEF Moves
  <2> QED
    BY <2>1 DEF BatchInv
<1>13. (batches.total = batches.completed + batches.failed)'
  BY DEF BatchInv
<1> QED
  BY <1>8, <1>9, <1>10, <1>11, <1>12, <1>13 DEF BatchInv

\* What the server has created.
LEMMA CreatedFacts ==
    ASSUME copies \in [Record -> Nat], NEW chunk, NEW done,
           copies' = Created(chunk, done)
    PROVE  /\ copies' \in [Record -> Nat]
           /\ \A r \in Record : copies[r] <= copies'[r]
           /\ \A r \in Record :
                 \/ copies'[r] = copies[r]
                 \/ copies'[r] = copies[r] + 1 /\ chunk.kind = "create" /\ done
                                               /\ r \in chunk.sent
           /\ chunk.kind = "create" /\ done =>
                 \A r \in Record : r \in chunk.sent => copies'[r] > 0
<1>1. \A r \in Record :
         copies'[r] = copies[r] + IF chunk.kind = "create" /\ done /\ r \in chunk.sent
                                  THEN 1 ELSE 0
  BY DEF Created
<1>2. \A r \in Record : copies'[r] \in Nat
  BY <1>1
<1>3. copies' \in [Record -> Nat]
  BY <1>2 DEF Created
<1> QED
  BY <1>1, <1>3

\* What the invariant says of a chunk.
LEMMA ChunkFacts ==
    ASSUME BatchInv, NEW t \in Task, NEW c \in DOMAIN execution[t].chunks
    PROVE  /\ execution[t].chunks[c] \in Chunk /\ c \in Nat
           /\ Ends(execution[t].chunks[c])
           /\ copies \in [Record -> Nat] /\ unnamed \in SUBSET Record
           /\ ~execution[t].changed => CallsFit(execution[t].chunks[c], copies)
<1>1. execution[t] \in Execution /\ RunSafe(execution[t]) /\ RunWhole(execution[t], copies)
      /\ copies \in [Record -> Nat] /\ unnamed \in SUBSET Record
  BY DEF BatchInv, BatchTypes
<1>2. execution[t].chunks[c] \in Chunk /\ c \in Nat
  BY <1>1, RunTypes
<1> QED
  BY <1>1, <1>2 DEF RunSafe, RunWhole

LEMMA ChunkStartsKeeps ==
    ASSUME BatchInv, NEW t \in Task, NEW c \in DOMAIN execution[t].chunks,
           ChunkStarts(t, c)
    PROVE  BatchInv'
<1> DEFINE old == execution[t].chunks[c]
           changed == execution[t].changed
<1>1. /\ old \in Chunk /\ Ends(old) /\ copies \in [Record -> Nat] /\ unnamed \in SUBSET Record
      /\ ~changed => CallsFit(old, copies)
  BY ChunkFacts
<1>2. MayStart(t, c) /\ UNCHANGED <<batch, batches, copies>>
  BY DEF ChunkStarts
<1>3. old.pc = "waiting" /\ old.outcome = "none"
  BY <1>1, <1>2 DEF MayStart, Ends
<1>4. ~BulkOver(old) /\ \A i : ~SingleOver(old, i)
  BY <1>3 DEF BulkOver, SingleOver
<1>5. copies' \in [Record -> Nat] /\ \A r \in Record : copies'[r] = copies[r] /\ copies[r] <= copies'[r]
  BY <1>1, <1>2
<1>6. ASSUME NEW new, NEW ended, execution' = Moved(t, c, new, ended), GoesOn(old, new),
             ended = IF new.pc = "done" THEN {c} ELSE {},
             unnamed' \in SUBSET Record, ~changed => CallsFit(new, copies)
      PROVE  BatchInv'
  <2>1. ~changed => CallsFit(new, copies')
    BY <1>2, <1>6
  <2> QED
    BY <1>2, <1>3, <1>4, <1>5, <1>6, <2>1, ChunkStep
<1>7. CASE old.kind = "update" /\ TakeUp(t, c, 1, old)
  <2>1. unnamed' \in SUBSET Record
    <3>1. 1 \in Nat \ {0} /\ old.data \in Seq(Record)
      BY <1>1, ChunkTypes
    <3>2. 1 <= Len(old.data) => old.data[1] \in Record
      BY <3>1
    <3> QED
      BY <1>1, <1>7, <3>2 DEF TakeUp
  <2>2. PICK new, ended : TakesTo(t, c, 1, old, new, ended)
    BY <1>1, <1>3, <1>7, TakenUp
  <2>3. ended = IF new.pc = "done" THEN {c} ELSE {}
    BY <2>2 DEF TakesTo
  <2>4. ~changed => CallsFit(new, copies)
    BY <1>1, <1>7, <2>2 DEF CallsFit, GoesOn, TakesTo
  <2> QED
    BY <1>6, <2>1, <2>2, <2>3, <2>4 DEF TakesTo
<1>8. CASE execution' = Moved(t, c, Sending(old), {}) /\ UNCHANGED unnamed
  <2> DEFINE new == Sending(old)
  <2>1. /\ GoesOn(old, new) /\ new.pc = "bulk" /\ new.outcome = "none"
        /\ new.sent = Range(old.data)
    BY <1>1, <1>3, SendingFacts
  <2>2. execution' = Moved(t, c, new, {}) /\ unnamed' \in SUBSET Record
    BY <1>1, <1>8
  <2> HIDE DEF new
  <2>3. ~changed => CallsFit(new, copies)
    BY <1>1, <2>1 DEF CallsFit, GoesOn
  <2> QED
    BY <1>6, <2>1, <2>2, <2>3
<1> QED
  BY <1>7, <1>8 DEF ChunkStarts

\* The calls of a chunk that is ended, or goes on with its next item.
LEMMA CallEnds ==
    ASSUME BatchInv, NEW t \in Task, NEW c \in DOMAIN execution[t].chunks,
           NEW outcome \in {"success", "failure", "timeout"}, NEW done \in BOOLEAN,
           execution' = Ended(t, c, execution[t].chunks[c], outcome),
           execution[t].chunks[c].pc \in Busy,
           copies' = Created(execution[t].chunks[c], done),
           outcome = "success" => done /\ execution[t].chunks[c].pc = "bulk",
           UNCHANGED <<batch, batches, unnamed>>
    PROVE  BatchInv'
<1> DEFINE old == execution[t].chunks[c]
           changed == execution[t].changed
           new == Over(old, outcome)
<1>1. /\ old \in Chunk /\ Ends(old) /\ copies \in [Record -> Nat] /\ unnamed \in SUBSET Record
      /\ ~changed => CallsFit(old, copies)
  BY ChunkFacts
<1>2. /\ GoesOn(old, new) /\ new.pc = "done" /\ new.outcome = outcome
      /\ new.missed = old.missed
  BY <1>1, OverFacts
<1>3. execution' = Moved(t, c, new, {c})
  BY DEF Ended
<1> HIDE DEF new
<1>4. /\ copies' \in [Record -> Nat]
      /\ \A r \in Record : copies[r] <= copies'[r]
      /\ \A r \in Record :
            \/ copies'[r] = copies[r]
            \/ copies'[r] = copies[r] + 1 /\ old.kind = "create" /\ done /\ r \in old.sent
      /\ old.kind = "create" /\ done => \A r \in Record : r \in old.sent => copies'[r] > 0
  BY <1>1, CreatedFacts
<1>5. old.data \in Seq(Record) /\ \A i \in DOMAIN old.data : old.data[i] \in Record
  BY <1>1, ChunkTypes
<1>6. new.kind = old.kind /\ new.data = old.data
  BY <1>2 DEF GoesOn
<1>7. ~changed => CallsFit(new, copies')
  <2> SUFFICES ASSUME ~changed PROVE CallsFit(new, copies')
    OBVIOUS
  <2>1. CallsFit(old, copies)
    BY <1>1
  <2>2. ASSUME new.kind = "create", new.outcome = "success", NEW i \in DOMAIN new.data
        PROVE  Made(new.data[i], new, copies')
    <3>1. old.sent = Range(old.data) /\ done
      BY <1>2, <2>1, <2>2 DEF CallsFit
    <3>2. new.data[i] \in old.sent /\ new.data[i] \in Record
      BY <1>5, <1>6, <2>2, <3>1 DEF Range
    <3> QED
      BY <1>4, <1>6, <2>2, <3>1, <3>2 DEF Made
  <2> QED
    BY <1>2, <1>6, <2>1, <2>2 DEF CallsFit
<1>8. BulkOver(old) => BulkOver(new)
  BY <1>2, <1>6 DEF BulkOver
<1>9. \A i \in Nat : SingleOver(old, i) => SingleOver(new, i)
  BY <1>2, <1>6 DEF SingleOver
<1>10. ASSUME ~changed, NEW r \in Record
       PROVE  copies'[r] = copies[r] \/ (copies'[r] = copies[r] + 1 /\ Newly(r, old, new))
  <2>1. CallsFit(old, copies)
    BY <1>1, <1>10
  <2>2. ASSUME old.kind = "create", r \in old.sent
        PROVE  Newly(r, old, new)
    <3>1. CASE old.pc = "bulk"
      BY <1>2, <1>6, <2>1, <2>2, <3>1 DEF CallsFit, Newly, BulkOver
    <3>2. CASE old.pc = "single"
      <4>1. old.at \in DOMAIN old.data /\ old.data[old.at] = r
        BY <2>1, <2>2, <3>2 DEF CallsFit
      <4>2. old.at \in Nat
        BY <1>1, ChunkTypes
      <4>3. SingleOver(new, old.at) /\ ~SingleOver(old, old.at)
        BY <1>2, <1>6, <2>2, <3>2, <4>2 DEF SingleOver
      <4> QED
        BY <4>1, <4>3 DEF Newly
    <3> QED
      BY <3>1, <3>2 DEF Busy
  <2> QED
    BY <1>4, <2>2
<1>11. old.pc # "done" /\ unnamed' \in SUBSET Record
  BY <1>1 DEF Busy
<1>12. {c} = IF new.pc = "done" THEN {c} ELSE {}
  <2>1. new.pc = "done"
    BY <1>2
  <2> HIDE DEF new, old, changed
  <2> QED
    BY ONLY <2>1
<1> HIDE DEF old, changed
<1> QED
  BY <1>2, <1>3, <1>4, <1>7, <1>8, <1>9, <1>10, <1>11, <1>12, ChunkStep DEF old, changed

LEMMA CallGoesOn ==
    ASSUME BatchInv, NEW t \in Task, NEW c \in DOMAIN execution[t].chunks,
           NEW done \in BOOLEAN, NEW i \in Nat \ {0}, NEW chunk \in Chunk,
           chunk.kind = execution[t].chunks[c].kind,
           chunk.data = execution[t].chunks[c].data,
           chunk.priority = execution[t].chunks[c].priority,
           chunk.outcome = "none",
           TakeUp(t, c, i, chunk),
           \/ execution[t].chunks[c].pc = "bulk" /\ i = 1
           \/ execution[t].chunks[c].pc = "single" /\ i = execution[t].chunks[c].at + 1,
           copies' = Created(execution[t].chunks[c], done),
           ~execution[t].changed /\ chunk.kind = "create" =>
              \A j \in DOMAIN chunk.data : j < i => Made(chunk.data[j], chunk, copies'),
           UNCHANGED <<batch, batches>>
    PROVE  BatchInv'
<1> DEFINE old == execution[t].chunks[c]
           changed == execution[t].changed
<1>1. /\ old \in Chunk /\ Ends(old) /\ copies \in [Record -> Nat] /\ unnamed \in SUBSET Record
      /\ ~changed => CallsFit(old, copies)
  BY ChunkFacts
<1>2. PICK new, ended : TakesTo(t, c, i, chunk, new, ended)
  BY TakenUp
<1>3. /\ execution' = Moved(t, c, new, ended)
      /\ GoesOn(chunk, new) /\ new.missed = chunk.missed
      /\ \/ /\ new.pc = "done" /\ ended = {c}
            /\ new.kind = "create" => i > Len(chunk.data)
         \/ /\ new.pc = "single" /\ ended = {} /\ i \in DOMAIN chunk.data
            /\ new.at = i /\ new.sent = {chunk.data[i]}
            /\ new.outcome = "none"
  BY <1>2 DEF TakesTo
<1>4. GoesOn(old, new)
  BY <1>3 DEF GoesOn
<1>5. /\ copies' \in [Record -> Nat]
      /\ \A r \in Record : copies[r] <= copies'[r]
      /\ \A r \in Record :
            \/ copies'[r] = copies[r]
            \/ copies'[r] = copies[r] + 1 /\ old.kind = "create" /\ done /\ r \in old.sent
  BY <1>1, CreatedFacts
<1>6. /\ old.data \in Seq(Record) /\ \A j \in DOMAIN old.data : old.data[j] \in Record
      /\ DOMAIN old.data = 1..Len(old.data) /\ Len(old.data) \in Nat /\ old.at \in Nat
  BY <1>1, ChunkTypes
<1>7. new.kind = old.kind /\ new.data = old.data /\ chunk.data = old.data /\ chunk.kind = old.kind
  BY <1>4, Zenon DEF GoesOn
<1>8. ~changed => CallsFit(new, copies')
  <2> SUFFICES ASSUME ~changed PROVE CallsFit(new, copies')
    OBVIOUS
  <2>1. CallsFit(old, copies)
    BY <1>1
  <2>2. ASSUME new.kind = "create", NEW j \in DOMAIN new.data,
               (new.pc = "single" /\ j < new.at) \/ new.outcome = "success"
        PROVE  Made(new.data[j], new, copies')
    <3>1. j < i
      BY <1>3, <1>6, <1>7, <2>2
    <3> QED
      BY <1>3, <1>7, <2>2, <3>1 DEF Made
  <2> QED
    BY <1>3, <1>7, <2>1, <2>2, Zenon DEF CallsFit
<1>9. BulkOver(old) => BulkOver(new)
  BY <1>3, <1>7 DEF BulkOver
<1>10. ASSUME NEW j \in Nat, SingleOver(old, j)
       PROVE  SingleOver(new, j)
  <2>1. CASE new.pc = "done"
    BY <1>7, <1>10, <2>1 DEF SingleOver
  <2>2. CASE new.pc = "single"
    <3>1. old.pc = "single" /\ i = old.at + 1 /\ j < old.at /\ new.at = i
      BY <1>3, <1>10, <2>2 DEF SingleOver
    <3>2. j < new.at
      BY <1>6, <3>1
    <3> QED
      BY <1>7, <1>10, <2>2, <3>2 DEF SingleOver
  <2> QED
    BY <1>3, <2>1, <2>2
<1>11. ASSUME ~changed, NEW r \in Record
       PROVE  copies'[r] = copies[r] \/ (copies'[r] = copies[r] + 1 /\ Newly(r, old, new))
  <2>1. CallsFit(old, copies)
    BY <1>1, <1>11
  <2>2. ASSUME old.kind = "create", r \in old.sent
        PROVE  Newly(r, old, new)
    <3>1. CASE old.pc = "bulk"
      BY <1>3, <1>7, <2>1, <2>2, <3>1 DEF CallsFit, Newly, BulkOver
    <3>2. CASE old.pc = "single"
      <4>1. old.at \in DOMAIN old.data /\ old.data[old.at] = r
        BY <2>1, <2>2, <3>2 DEF CallsFit
      <4>2. SingleOver(new, old.at) /\ ~SingleOver(old, old.at)
        BY <1>3, <1>6, <1>7, <2>2, <3>2 DEF SingleOver
      <4> QED
        BY <4>1, <4>2 DEF Newly
    <3> QED
      BY <3>1, <3>2
  <2> QED
    BY <1>5, <2>2
<1>12. old.pc \in Busy /\ old.pc # "done"
  BY DEF Busy
<1>13. ended = IF new.pc = "done" THEN {c} ELSE {}
  BY <1>3
<1>14. unnamed' \in SUBSET Record
  <2>1. i <= Len(chunk.data) => chunk.data[i] \in Record
    BY <1>6, <1>7
  <2> QED
    BY <1>1, <2>1 DEF TakeUp
<1> HIDE DEF old, changed
<1> QED
  BY <1>3, <1>4, <1>5, <1>8, <1>9, <1>10, <1>11, <1>12, <1>13, <1>14, ChunkStep DEF old, changed

LEMMA BulkAnswersKeeps ==
    ASSUME BatchInv, NEW t \in Task, NEW c \in DOMAIN execution[t].chunks,
           NEW done \in BOOLEAN, NEW ok \in BOOLEAN, BulkAnswers(t, c, done, ok)
    PROVE  BatchInv'
<1> DEFINE old == execution[t].chunks[c]
<1>1. /\ old.pc = "bulk" /\ (ok => done) /\ copies' = Created(old, done)
      /\ UNCHANGED <<now, batch, batches>>
  BY DEF BulkAnswers
<1>2. old \in Chunk /\ Ends(old)
  BY ChunkFacts
<1>3. old.pc \in Busy /\ old.outcome = "none"
  BY <1>1, <1>2 DEF Busy, Ends
<1>4. CASE (ok \/ old.kind # "create")
           /\ execution' = Ended(t, c, old, IF ok THEN "success" ELSE "failure")
           /\ UNCHANGED unnamed
  <2> DEFINE outcome == IF ok THEN "success" ELSE "failure"
  <2>1. outcome \in {"success", "failure", "timeout"} /\ (outcome = "success" => done)
    BY <1>1
  <2>2. execution' = Ended(t, c, old, outcome) /\ UNCHANGED <<batch, batches, unnamed>>
    BY <1>1, <1>4
  <2> HIDE DEF outcome
  <2> QED
    BY <1>1, <1>3, <2>1, <2>2, CallEnds
<1>5. CASE ~ok /\ old.kind = "create" /\ TakeUp(t, c, 1, old)
  <2>1. 1 \in Nat \ {0} /\ \A j \in DOMAIN old.data : ~(j < 1)
    <3>1. old.data \in Seq(Record)
      BY <1>2, ChunkTypes
    <3> QED
      BY <3>1
  <2> QED
    BY <1>1, <1>2, <1>3, <1>5, <2>1, CallGoesOn
<1> QED
  BY <1>4, <1>5 DEF BulkAnswers

LEMMA SingleAnswersKeeps ==
    ASSUME BatchInv, NEW t \in Task, NEW c \in DOMAIN execution[t].chunks,
           NEW done \in BOOLEAN, NEW ok \in BOOLEAN, SingleAnswers(t, c, done, ok)
    PROVE  BatchInv'
<1> DEFINE old == execution[t].chunks[c]
           changed == execution[t].changed
           chunk == IF ok THEN [old EXCEPT !.made = TRUE]
                    ELSE [old EXCEPT !.missed = @ \cup old.sent]
<1>1. /\ old.pc = "single" /\ (ok => done) /\ copies' = Created(old, done)
      /\ TakeUp(t, c, old.at + 1, chunk) /\ UNCHANGED <<now, batch, batches>>
  BY DEF SingleAnswers
<1>2. /\ old \in Chunk /\ Ends(old) /\ copies \in [Record -> Nat]
      /\ ~changed => CallsFit(old, copies)
  BY ChunkFacts
<1>3. old.outcome = "none" /\ old.at \in Nat /\ old.sent \in SUBSET Record
      /\ old.missed \in SUBSET Record /\ old.data \in Seq(Record)
  BY <1>1, <1>2, ChunkTypes DEF Ends
<1>4. /\ chunk \in Chunk
      /\ chunk.kind = old.kind /\ chunk.data = old.data /\ chunk.priority = old.priority
      /\ chunk.outcome = "none"
      /\ old.missed \subseteq chunk.missed
      /\ ~ok => old.sent \subseteq chunk.missed
  <2>1. CASE ok
    <3>1. [old EXCEPT !.made = TRUE] \in Chunk
      BY <1>2 DEF Chunk
    <3> QED
      BY <1>2, <1>3, <2>1, <3>1 DEF Chunk
  <2>2. CASE ~ok
    <3>1. old.missed \cup old.sent \in SUBSET Record
      BY <1>3
    <3>2. [old EXCEPT !.missed = @ \cup old.sent] \in Chunk
      BY <1>2, <3>1 DEF Chunk
    <3> QED
      BY <1>2, <1>3, <2>2, <3>2, Zenon DEF Chunk
  <2> QED
    BY <2>1, <2>2
<1> HIDE DEF chunk
<1>5. /\ \A r \in Record : copies[r] <= copies'[r]
      /\ copies' \in [Record -> Nat]
      /\ old.kind = "create" /\ done => \A r \in Record : r \in old.sent => copies'[r] > 0
  BY <1>1, <1>2, CreatedFacts
<1>6. ASSUME ~changed, chunk.kind = "create", NEW j \in DOMAIN chunk.data, j < old.at + 1
      PROVE  Made(chunk.data[j], chunk, copies')
  <2>1. CallsFit(old, copies)
    BY <1>2, <1>6
  <2>2. chunk.data[j] = old.data[j] /\ old.data[j] \in Record /\ j \in Nat /\ j \in DOMAIN old.data
    BY <1>3, <1>4, <1>6
  <2>3. CASE j < old.at
    <3>1. Made(old.data[j], old, copies)
      BY <1>1, <1>4, <1>6, <2>1, <2>2, <2>3 DEF CallsFit
    <3> QED
      BY <1>2, <1>4, <1>5, <2>2, <3>1 DEF Made
  <2>4. CASE j = old.at
    <3>1. old.sent = {old.data[j]}
      BY <1>1, <2>1, <2>4 DEF CallsFit
    <3>2. CASE ok
      BY <1>1, <1>4, <1>5, <1>6, <2>2, <3>1, <3>2 DEF Made
    <3>3. CASE ~ok
      BY <1>4, <2>2, <3>1, <3>3 DEF Made
    <3> QED
      BY <3>2, <3>3
  <2> QED
    BY <1>3, <1>6, <2>2, <2>3, <2>4
<1>7. old.at + 1 \in Nat \ {0}
  BY <1>3
<1> QED
  BY <1>1, <1>4, <1>6, <1>7, CallGoesOn

LEMMA ChunkTimesOutKeeps ==
    ASSUME BatchInv, NEW t \in Task, NEW c \in DOMAIN execution[t].chunks,
           NEW done \in BOOLEAN, ChunkTimesOut(t, c, done)
    PROVE  BatchInv'
<1>1. /\ execution[t].chunks[c].pc \in Busy
      /\ copies' = Created(execution[t].chunks[c], done)
      /\ execution' = Ended(t, c, execution[t].chunks[c], "timeout")
      /\ UNCHANGED <<batch, batches, unnamed>>
  BY DEF ChunkTimesOut
<1>2. "timeout" \in {"success", "failure", "timeout"} /\ "timeout" # "success"
  OBVIOUS
<1> QED
  BY <1>1, <1>2, CallEnds

(****************************************************************************)
(* The loop over the results.                                               *)
(****************************************************************************)

LEMMA ReportedType ==
    ASSUME NEW run \in Execution
    PROVE  Reported(run) \in Seq(Nat) /\ Len(Reported(run)) = Len(run.chunks)
           /\ DOMAIN Reported(run) = DOMAIN run.chunks
<1>1. /\ DOMAIN run.chunks = 1..Len(run.chunks) /\ Len(run.chunks) \in Nat
      /\ \A c \in DOMAIN run.chunks : run.chunks[c] \in Chunk
  BY RunTypes
<1>2. \A c \in DOMAIN run.chunks : Len(run.chunks[c].data) \in Nat
  BY <1>1, ChunkTypes
<1>3. Reported(run) \in [1..Len(run.chunks) -> Nat]
  BY <1>1, <1>2 DEF Reported
<1> QED
  BY <1>1, <1>3

LEMMA ResultsFinite ==
    ASSUME NEW run \in Execution, NEW outcomes
    PROVE  IsFiniteSet(Results(run, outcomes)) /\ Cardinality(Results(run, outcomes)) \in Nat
<1>1. Results(run, outcomes) \in SUBSET (1..Len(run.chunks)) /\ Len(run.chunks) \in Nat
  BY RunTypes DEF Results
<1>2. IsFiniteSet(1..Len(run.chunks))
  BY <1>1, FS_Interval
<1> QED
  BY <1>1, <1>2, FewerOf

LEMMA AwaitedKeeps ==
    ASSUME NEW run \in Execution, RunSafe(run), run.pc = "executing",
           NEW c \in run.finished, NEW raises \in BOOLEAN
    PROVE  LET next == Awaited(run, c, raises)
           IN  /\ next \in Execution /\ next.pc = "executing"
               /\ next.chunks = run.chunks /\ next.changed = run.changed
               /\ RunSafe(next)
<1> DEFINE next == Awaited(run, c, raises)
           chunk == run.chunks[c]
           success == IF chunk.outcome = "success" THEN 1 ELSE 0
           failure == IF chunk.outcome # "success" THEN 1 ELSE 0
           raised == IF raises THEN 1 ELSE 0
           size == IF chunk.outcome = "success" THEN chunk.size ELSE 0
<1>1. /\ run.chunks \in Seq(Chunk) /\ run.finished \in SUBSET Nat
      /\ run.completed \in Nat /\ run.failed \in Nat /\ run.processed \in Nat
      /\ run.changed \in BOOLEAN
      /\ DOMAIN run.chunks = 1..Len(run.chunks) /\ Len(run.chunks) \in Nat
      /\ \A d \in DOMAIN run.chunks : run.chunks[d] \in Chunk
  BY RunTypes
<1>2. /\ \A d \in run.finished : d \in DOMAIN run.chunks /\ run.chunks[d].pc = "done"
      /\ \A d \in DOMAIN run.chunks : Ends(run.chunks[d])
      /\ InOrder(run.chunks) /\ Cardinality(AtWork(run.chunks)) <= MaxConcurrency
      /\ CountsFit(run)
  BY Zenon DEF RunSafe
<1>3. /\ c \in DOMAIN run.chunks /\ chunk \in Chunk /\ chunk.pc = "done"
      /\ chunk.outcome # "none" /\ chunk.size = Len(chunk.data)
  BY <1>1, <1>2 DEF Ends
<1>4. chunk.size \in Nat /\ chunk.outcome \in {"none", "success", "failure", "timeout"}
  BY <1>3, ChunkTypes
<1>5. success \in Nat /\ failure \in Nat /\ raised \in Nat /\ size \in Nat
  BY <1>4
<1>6. next = [run EXCEPT !.finished = run.finished \ {c},
                         !.completed = run.completed + success,
                         !.failed = run.failed + failure + raised,
                         !.processed = run.processed + size]
  BY DEF Awaited
<1> HIDE DEF chunk, success, failure, raised, size
<1>7. run.completed + success \in Nat /\ run.failed + failure + raised \in Nat
      /\ run.processed + size \in Nat /\ run.finished \ {c} \in SUBSET Nat
  <2>1. run.finished \ {c} \in SUBSET Nat
    BY <1>1
  <2>2. run.completed \in Nat /\ run.failed \in Nat /\ run.processed \in Nat
    BY <1>1
  <2> QED
    BY ONLY <1>5, <2>1, <2>2
<1>8. next \in Execution
  BY <1>6, <1>7 DEF Execution
<1>9. /\ next.pc = "executing" /\ next.chunks = run.chunks /\ next.changed = run.changed
      /\ next.finished = run.finished \ {c} /\ next.completed = run.completed + success
      /\ next.failed = run.failed + failure + raised /\ next.processed = run.processed + size
  BY <1>6 DEF Execution
<1> HIDE DEF next
<1>10. next.completed = Cardinality(Results(next, {"success"}))
  <2>1. run.completed = Cardinality(Results(run, {"success"})) /\ c \notin Results(run, {"success"})
    BY <1>2 DEF CountsFit, Results
  <2>2. CASE chunk.outcome = "success"
    <3>1. Results(next, {"success"}) = Results(run, {"success"}) \cup {c}
      BY <1>3, <1>9, <2>2 DEF Results, chunk
    <3>2. Cardinality(Results(run, {"success"}) \cup {c}) = Cardinality(Results(run, {"success"})) + 1
      BY <2>1, ResultsFinite, OneMore
    <3> QED
      BY <1>9, <2>1, <2>2, <3>1, <3>2 DEF success
  <2>3. CASE chunk.outcome # "success"
    <3>1. Results(next, {"success"}) = Results(run, {"success"})
      BY <1>3, <1>9, <2>3 DEF Results, chunk
    <3> QED
      BY <1>1, <1>9, <2>1, <2>3, <3>1 DEF success
  <2> QED
    BY <2>2, <2>3
<1>11. next.failed >= Cardinality(Results(next, {"failure", "timeout"}))
  <2> DEFINE failures == {"failure", "timeout"}
  <2>1. /\ run.failed >= Cardinality(Results(run, failures)) /\ c \notin Results(run, failures)
        /\ Cardinality(Results(run, failures)) \in Nat
    BY <1>2, ResultsFinite DEF CountsFit, Results
  <2>4. run.failed \in Nat
    BY <1>1
  <2>2. CASE chunk.outcome # "success"
    <3>1. Results(next, failures) = Results(run, failures) \cup {c}
      BY <1>3, <1>4, <1>9, <2>2 DEF Results, chunk
    <3>2. Cardinality(Results(run, failures) \cup {c}) = Cardinality(Results(run, failures)) + 1
      BY <2>1, ResultsFinite, OneMore
    <3>3. next.failed = run.failed + 1 + raised
      BY <1>9, <2>2 DEF failure
    <3> QED
      BY ONLY <1>5, <2>1, <2>4, <3>1, <3>2, <3>3
  <2>3. CASE chunk.outcome = "success"
    <3>1. Results(next, failures) = Results(run, failures)
      BY <1>3, <1>9, <2>3 DEF Results, chunk
    <3> QED
      BY <1>1, <1>5, <1>9, <2>1, <3>1
  <2> QED
    BY <2>2, <2>3
<1>12. next.processed = Total(Reported(next))
  <2>1. run.processed = Total(Reported(run))
    BY <1>2 DEF CountsFit
  <2>2. /\ Reported(run) \in Seq(Nat) /\ Reported(next) \in Seq(Nat)
        /\ Len(Reported(next)) = Len(Reported(run)) /\ c \in 1..Len(Reported(run))
        /\ DOMAIN Reported(run) = DOMAIN run.chunks
    BY <1>1, <1>3, <1>8, <1>9, ReportedType
  <2>3. Reported(run)[c] = 0 /\ Reported(next)[c] = size
    BY <1>3, <1>9 DEF Reported, chunk, size
  <2>4. \A d \in 1..Len(Reported(run)) : d # c => Reported(next)[d] = Reported(run)[d]
    BY <1>9, <2>2 DEF Reported
  <2>5. Total(Reported(next)) + Reported(run)[c] = Total(Reported(run)) + Reported(next)[c]
    BY ONLY <2>2, <2>4, TotalChanges
  <2>6. Total(Reported(next)) \in Nat
    BY <2>2, TotalType
  <2> QED
    BY <1>9, <2>1, <2>3, <2>5, <2>6
<1>13. CountsFit(next)
  BY <1>10, <1>11, <1>12 DEF CountsFit
<1>14. RunSafe(next)
  BY <1>2, <1>9, <1>13 DEF RunSafe
<1> QED
  BY <1>8, <1>9, <1>14 DEF next

\* An execution leaves the loop.
LEMMA LoopLeft ==
    ASSUME NEW run \in Execution, RunSafe(run), run.pc = "executing",
           NEW pc \in {"abandoned", "returned", "raised"},
           pc # "abandoned" =>
              run.finished = {} /\ \A d \in DOMAIN run.chunks : run.chunks[d].pc = "done"
    PROVE  LET next == [run EXCEPT !.pc = pc]
           IN  /\ next \in Execution /\ next.pc = pc
               /\ next.chunks = run.chunks /\ next.changed = run.changed
               /\ RunSafe(next)
<1> DEFINE next == [run EXCEPT !.pc = pc]
<1>1. next \in Execution
  BY DEF Execution
<1>2. /\ next.pc = pc /\ next.chunks = run.chunks /\ next.changed = run.changed
      /\ next.finished = run.finished /\ next.completed = run.completed
      /\ next.failed = run.failed /\ next.processed = run.processed
  BY DEF Execution
<1> HIDE DEF next
<1>3. CountsFit(next)
  BY <1>2 DEF RunSafe, CountsFit, Results, Reported
<1>4. RunSafe(next)
  BY <1>2, <1>3 DEF RunSafe
<1> QED
  BY <1>1, <1>2, <1>4 DEF next

LEMMA RunGoesOn ==
    ASSUME BatchInv, NEW t \in Task, NEW next \in Execution,
           execution' = [execution EXCEPT ![t] = next],
           next.chunks = execution[t].chunks, next.changed = execution[t].changed,
           RunSafe(next), UNCHANGED copies
    PROVE  /\ execution' \in [Task -> Execution]
           /\ \A u \in Task : RunSafe(execution'[u]) /\ RunWhole(execution'[u], copies')
           /\ CopiesFit'
<1>1. /\ execution \in [Task -> Execution]
      /\ \A u \in Task : RunSafe(execution[u]) /\ RunWhole(execution[u], copies)
      /\ CopiesFit
  BY Zenon DEF BatchInv, BatchTypes
<1>2. execution'[t] = next /\ \A u \in Task : u # t => execution'[u] = execution[u]
  BY <1>1
<1>3. execution' \in [Task -> Execution]
  BY <1>1
<1>4. \A u \in Task : execution'[u].chunks = execution[u].chunks
                      /\ execution'[u].changed = execution[u].changed
  BY <1>2
<1>5. \A u \in Task : RunSafe(execution'[u])
  BY <1>1, <1>2
<1>6. \A u \in Task : RunWhole(execution'[u], copies')
  BY <1>1, <1>4 DEF RunWhole
<1>7. \A r \in Record : Bulked(execution', r) = Bulked(execution, r)
                        /\ Singled(execution', r) = Singled(execution, r)
  BY <1>4 DEF Bulked, Singled
<1>8. CopiesFit'
  BY <1>1, <1>4, <1>7 DEF CopiesFit
<1> QED
  BY <1>3, <1>5, <1>6, <1>8

\* The batch as it is when an execution of it ends.
LEMMA BatchMarked ==
    ASSUME BatchTypes, OperationsFit, NEW executed \in BOOLEAN, NEW active \in BOOLEAN,
           batch' = [batch EXCEPT !.executed = executed, !.active = active]
    PROVE  /\ batch' \in [mode : {"batch", "context"} \cup Collectors,
                          operations : Seq(Operation), executed : BOOLEAN,
                          active : BOOLEAN, extent : [items : Nat, calls : Nat]]
           /\ batch'.executed = executed
           /\ OperationsFit'
<1>1. batch' \in [mode : {"batch", "context"} \cup Collectors,
                  operations : Seq(Operation), executed : BOOLEAN,
                  active : BOOLEAN, extent : [items : Nat, calls : Nat]]
      /\ batch'.executed = executed /\ batch'.mode = batch.mode
      /\ batch'.operations = batch.operations
  BY DEF BatchTypes
<1> QED
  BY <1>1 DEF OperationsFit, Collecting

LEMMA CountedFacts ==
    ASSUME BatchTypes, batches.total = batches.completed + batches.failed,
           NEW run \in Execution, batches' = CountedBatch(run)
    PROVE  /\ batches' \in [total : Nat, completed : Nat, failed : Nat, records : Nat]
           /\ batches'.total = batches'.completed + batches'.failed
<1> DEFINE lengths == [c \in DOMAIN run.chunks |-> Len(run.chunks[c].data)]
           completed == IF run.failed = 0 THEN batches.completed + 1 ELSE batches.completed
           failed == IF run.failed > 0 THEN batches.failed + 1 ELSE batches.failed
           records == batches.records + Total(lengths)
<1>1. batches \in [total : Nat, completed : Nat, failed : Nat, records : Nat]
      /\ run.failed \in Nat
  BY RunTypes DEF BatchTypes
<1>2. Total(lengths) \in Nat
  <2>1. /\ DOMAIN run.chunks = 1..Len(run.chunks) /\ Len(run.chunks) \in Nat
        /\ \A c \in DOMAIN run.chunks : run.chunks[c] \in Chunk
    BY RunTypes
  <2>2. \A c \in DOMAIN run.chunks : Len(run.chunks[c].data) \in Nat
    BY <2>1, ChunkTypes
  <2>3. lengths \in [1..Len(run.chunks) -> Nat]
    BY <2>1, <2>2
  <2>4. lengths \in Seq(Nat)
    BY <2>1, <2>3
  <2> HIDE DEF lengths
  <2> QED
    BY <2>4, TotalType
<1> HIDE DEF lengths
<1>3. /\ batches.total \in Nat /\ batches.completed \in Nat /\ batches.failed \in Nat
      /\ batches.records \in Nat
  BY <1>1
<1>4. /\ batches.total + 1 \in Nat /\ completed \in Nat /\ failed \in Nat /\ records \in Nat
      /\ batches.total + 1 = completed + failed
  BY <1>1, <1>2, <1>3
<1>5. batches' = [batches EXCEPT !.total = batches.total + 1, !.completed = completed,
                                 !.failed = failed, !.records = records]
  BY DEF CountedBatch, lengths
<1> HIDE DEF completed, failed, records
<1> QED
  BY <1>1, <1>4, <1>5

LEMMA ResultAwaitedKeeps ==
    ASSUME BatchInv, NEW t \in Task, NEW c \in execution[t].finished,
           NEW raises \in BOOLEAN, ResultAwaited(t, c, raises)
    PROVE  BatchInv'
<1> DEFINE run == Awaited(execution[t], c, raises)
           last == /\ \A d \in DOMAIN run.chunks : run.chunks[d].pc = "done"
                   /\ run.finished = {}
<1>1. /\ execution \in [Task -> Execution] /\ execution[t] \in Execution
      /\ RunSafe(execution[t]) /\ BatchTypes /\ OperationsFit
      /\ batches.total = batches.completed + batches.failed
      /\ batch.executed => \E u \in Task : execution[u].pc = "returned"
  BY DEF BatchInv, BatchTypes
<1>2. /\ execution[t].pc = "executing" /\ UNCHANGED <<now, unnamed, copies>>
      /\ \/ ~last /\ execution' = [execution EXCEPT ![t] = run] /\ UNCHANGED <<batch, batches>>
         \/ last /\ BatchEnds(t, run)
         \/ last /\ ContextEnds(t, run)
         \/ last /\ CollectorEnds(t, run)
  BY DEF ResultAwaited
<1>3. /\ run \in Execution /\ run.pc = "executing"
      /\ run.chunks = execution[t].chunks /\ run.changed = execution[t].changed
      /\ RunSafe(run)
  BY <1>1, <1>2, AwaitedKeeps
<1> HIDE DEF run
<1>4. ASSUME NEW next \in Execution, execution' = [execution EXCEPT ![t] = next],
             next.chunks = execution[t].chunks, next.changed = execution[t].changed,
             RunSafe(next), OperationsFit',
             batch' \in [mode : {"batch", "context"} \cup Collectors,
                         operations : Seq(Operation), executed : BOOLEAN,
                         active : BOOLEAN, extent : [items : Nat, calls : Nat]],
             batches' \in [total : Nat, completed : Nat, failed : Nat, records : Nat],
             batches'.total = batches'.completed + batches'.failed,
             batch'.executed => batch.executed \/ next.pc = "returned"
      PROVE  BatchInv'
  <2>1. /\ execution' \in [Task -> Execution]
        /\ \A u \in Task : RunSafe(execution'[u]) /\ RunWhole(execution'[u], copies')
        /\ CopiesFit'
    BY <1>2, <1>4, RunGoesOn
  <2>2. BatchTypes'
    BY <1>1, <1>2, <1>4, <2>1 DEF BatchTypes
  <2>3. execution'[t] = next /\ \A u \in Task : u # t => execution'[u] = execution[u]
    BY <1>1, <1>4
  <2>4. (batch.executed => \E u \in Task : execution[u].pc = "returned")'
    <3>1. ASSUME batch'.executed
          PROVE  \E u \in Task : execution'[u].pc = "returned"
      <4>1. CASE next.pc = "returned"
        BY <2>3, <4>1
      <4>2. CASE batch.executed
        <5>1. PICK u \in Task : execution[u].pc = "returned"
          BY <1>1, <4>2
        <5>2. u # t
          BY <1>2, <5>1
        <5> QED
          BY <2>3, <5>1, <5>2
      <4> QED
        BY <1>4, <3>1, <4>1, <4>2
    <3> QED
      BY <3>1
  <2> QED
    BY <1>4, <2>1, <2>2, <2>4 DEF BatchInv
<1>5. ASSUME NEW pc \in {"returned", "raised"}, last
      PROVE  /\ [run EXCEPT !.pc = pc] \in Execution
             /\ [run EXCEPT !.pc = pc].pc = pc
             /\ [run EXCEPT !.pc = pc].chunks = execution[t].chunks
             /\ [run EXCEPT !.pc = pc].changed = execution[t].changed
             /\ RunSafe([run EXCEPT !.pc = pc])
  <2>1. run.finished = {} /\ \A d \in DOMAIN run.chunks : run.chunks[d].pc = "done"
    BY <1>5
  <2>2. pc \in {"abandoned", "returned", "raised"}
    OBVIOUS
  <2>3. run.chunks = execution[t].chunks /\ run.changed = execution[t].changed
    BY <1>3
  <2> HIDE DEF last
  <2>4. /\ [run EXCEPT !.pc = pc] \in Execution /\ [run EXCEPT !.pc = pc].pc = pc
        /\ [run EXCEPT !.pc = pc].chunks = run.chunks
        /\ [run EXCEPT !.pc = pc].changed = run.changed
        /\ RunSafe([run EXCEPT !.pc = pc])
    BY ONLY <1>3, <2>1, <2>2, LoopLeft
  <2> QED
    BY ONLY <2>3, <2>4
<1>6. ASSUME UNCHANGED batch
      PROVE  /\ OperationsFit'
             /\ batch' \in [mode : {"batch", "context"} \cup Collectors,
                            operations : Seq(Operation), executed : BOOLEAN,
                            active : BOOLEAN, extent : [items : Nat, calls : Nat]]
             /\ batch'.executed = batch.executed
  BY <1>1, <1>6 DEF OperationsFit, Collecting, BatchTypes
<1>7. ASSUME UNCHANGED batches
      PROVE  /\ batches' \in [total : Nat, completed : Nat, failed : Nat, records : Nat]
             /\ batches'.total = batches'.completed + batches'.failed
  BY <1>1, <1>7 DEF BatchTypes
<1>8. CASE ~last /\ execution' = [execution EXCEPT ![t] = run] /\ UNCHANGED <<batch, batches>>
  BY <1>3, <1>4, <1>6, <1>7, <1>8
<1>9. CASE last /\ BatchEnds(t, run)
  <2>1. /\ execution' = [execution EXCEPT ![t] = [run EXCEPT !.pc = "returned"]]
        /\ batch' = [batch EXCEPT !.executed = TRUE, !.active = FALSE]
        /\ batches' = CountedBatch(run)
    BY <1>9 DEF BatchEnds
  <2> DEFINE next == [run EXCEPT !.pc = "returned"]
  <2>2. /\ next \in Execution /\ next.pc = "returned" /\ next.chunks = execution[t].chunks
        /\ next.changed = execution[t].changed /\ RunSafe(next)
    BY <1>5, <1>9
  <2>3. /\ batches' \in [total : Nat, completed : Nat, failed : Nat, records : Nat]
        /\ batches'.total = batches'.completed + batches'.failed
    BY <1>1, <1>3, <2>1, CountedFacts
  <2>4. /\ batch' \in [mode : {"batch", "context"} \cup Collectors,
                       operations : Seq(Operation), executed : BOOLEAN,
                       active : BOOLEAN, extent : [items : Nat, calls : Nat]]
        /\ OperationsFit'
    <3>1. TRUE \in BOOLEAN /\ FALSE \in BOOLEAN
      OBVIOUS
    <3> QED
      BY ONLY <1>1, <2>1, <3>1, BatchMarked
  <2>5. execution' = [execution EXCEPT ![t] = next]
    BY <2>1
  <2> HIDE DEF next
  <2> QED
    BY <1>4, <2>2, <2>3, <2>4, <2>5
<1>10. CASE last /\ ContextEnds(t, run)
  <2>1. /\ execution' = [execution EXCEPT ![t] = [run EXCEPT !.pc = "returned"]]
        /\ UNCHANGED <<batch, batches>>
    BY <1>10 DEF ContextEnds
  <2> DEFINE next == [run EXCEPT !.pc = "returned"]
  <2>2. /\ next \in Execution /\ next.pc = "returned" /\ next.chunks = execution[t].chunks
        /\ next.changed = execution[t].changed /\ RunSafe(next)
    BY <1>5, <1>10
  <2>3. execution' = [execution EXCEPT ![t] = next]
    BY <2>1
  <2> HIDE DEF next
  <2> QED
    BY <1>4, <1>6, <1>7, <2>1, <2>2, <2>3
<1>11. CASE last /\ CollectorEnds(t, run)
  <2> DEFINE pc == IF BulkRaises(run) THEN "raised" ELSE "returned"
             next == [run EXCEPT !.pc = pc]
             executed == batch.executed \/ ~BulkRaises(run)
  <2>1. /\ execution' = [execution EXCEPT ![t] = next]
        /\ batch' = [batch EXCEPT !.executed = executed]
        /\ UNCHANGED batches
    BY <1>11 DEF CollectorEnds
  <2>2. pc \in {"returned", "raised"} /\ (executed => batch.executed \/ pc = "returned")
        /\ executed \in BOOLEAN
    BY <1>1 DEF BatchTypes
  <2> HIDE DEF pc, executed
  <2>3. /\ next \in Execution /\ next.pc = pc /\ next.chunks = execution[t].chunks
        /\ next.changed = execution[t].changed /\ RunSafe(next)
    BY <1>5, <1>11, <2>2
  <2> HIDE DEF next
  <2>4. batch.active \in BOOLEAN
        /\ batch' = [batch EXCEPT !.executed = executed, !.active = batch.active]
    BY <1>1, <2>1 DEF BatchTypes
  <2>5. /\ batch' \in [mode : {"batch", "context"} \cup Collectors,
                       operations : Seq(Operation), executed : BOOLEAN,
                       active : BOOLEAN, extent : [items : Nat, calls : Nat]]
        /\ batch'.executed = executed
        /\ OperationsFit'
    BY ONLY <1>1, <2>2, <2>4, BatchMarked
  <2> QED
    BY <1>4, <1>7, <2>1, <2>2, <2>3, <2>5
<1> QED
  BY <1>2, <1>8, <1>9, <1>10, <1>11

LEMMA BatchCancelledKeeps ==
    ASSUME BatchInv, NEW t \in Task, BatchCancelled(t)
    PROVE  BatchInv'
<1> DEFINE run == execution[t]
           next == [run EXCEPT !.pc = "abandoned"]
<1>1. /\ execution \in [Task -> Execution] /\ run \in Execution /\ RunSafe(run)
      /\ batch.executed => \E u \in Task : execution[u].pc = "returned"
  BY DEF BatchInv, BatchTypes
<1>2. /\ run.pc = "executing" /\ execution' = [execution EXCEPT ![t] = next]
      /\ UNCHANGED <<batch, batches, unnamed, copies>>
  BY <1>1 DEF BatchCancelled
<1>3. next \in Execution /\ next.chunks = run.chunks /\ next.changed = run.changed
      /\ RunSafe(next)
  BY <1>1, <1>2, LoopLeft
<1> HIDE DEF next
<1>4. /\ execution' \in [Task -> Execution]
      /\ \A u \in Task : RunSafe(execution'[u]) /\ RunWhole(execution'[u], copies')
      /\ CopiesFit'
  BY <1>2, <1>3, RunGoesOn
<1>5. \A u \in Task : execution[u].pc = "returned" => execution'[u].pc = "returned"
  BY <1>1, <1>2
<1>6. BatchTypes' /\ OperationsFit'
  BY <1>2, <1>4 DEF BatchInv, BatchTypes, OperationsFit, Collecting
<1> QED
  BY <1>1, <1>2, <1>4, <1>5, <1>6 DEF BatchInv

(****************************************************************************)
(* Slices.                                                                  *)
(****************************************************************************)

LEMMA TimesOrder == \A a, b, m \in Nat : a <= b => a * m <= b * m
  OBVIOUS

LEMMA TimesNext == \A a, m \in Nat : (a + 1) * m = a * m + m /\ a * m \in Nat
  OBVIOUS

LEMMA Divided ==
    \A l \in Nat, m \in Nat \ {0} :
       l \div m \in Nat /\ (l \div m) * m <= l /\ l < (l \div m) * m + m
<1>1. \A l \in Nat, m \in Nat \ {0} : l \div m \in Nat
  OBVIOUS
<1>2. \A l \in Nat, m \in Nat \ {0} : (l \div m) * m <= l
  OBVIOUS
<1>3. \A l \in Nat, m \in Nat \ {0} : l < (l \div m) * m + m
  OBVIOUS
<1> QED
  BY <1>1, <1>2, <1>3

\* Where slice i ends.
SliceEnd(data, i) ==
    IF i * MaxChunkSize < Len(data) THEN i * MaxChunkSize ELSE Len(data)

SliceCount(data) == (Len(data) + MaxChunkSize - 1) \div MaxChunkSize

LEMMA SlicePlaces ==
    ASSUME NEW S, NEW data \in Seq(S)
    PROVE  /\ SliceCount(data) \in Nat
           /\ SliceCount(data) * MaxChunkSize >= Len(data)
           /\ \A i \in 1..SliceCount(data) :
                 /\ (i - 1) * MaxChunkSize \in Nat
                 /\ i * MaxChunkSize = (i - 1) * MaxChunkSize + MaxChunkSize
                 /\ (i - 1) * MaxChunkSize < Len(data)
                 /\ SliceEnd(data, i) \in ((i - 1) * MaxChunkSize + 1)..Len(data)
                 /\ SliceEnd(data, i) <= i * MaxChunkSize
<1> DEFINE M == MaxChunkSize
           L == Len(data)
           K == SliceCount(data)
<1>1. M \in Nat \ {0} /\ L \in Nat
  BY BatchAssumption
<1>2. K = (L + M - 1) \div M
  BY DEF SliceCount
<1> HIDE DEF M, L, K
<1>3. L + M - 1 \in Nat
  BY <1>1
<1>4. K \in Nat /\ K * M <= L + M - 1 /\ L + M - 1 < K * M + M
  BY <1>1, <1>2, <1>3, Divided
<1>5. K * M \in Nat
  BY <1>1, <1>4, TimesNext
<1>6. K * M >= L
  BY ONLY <1>1, <1>4, <1>5
<1>7. ASSUME NEW i \in 1..K
      PROVE  /\ (i - 1) * M \in Nat
             /\ i * M = (i - 1) * M + M
             /\ (i - 1) * M < L
             /\ SliceEnd(data, i) \in ((i - 1) * M + 1)..L
             /\ SliceEnd(data, i) <= i * M
  <2>1. i - 1 \in Nat /\ i \in Nat /\ (i - 1) + 1 = i /\ i <= K
    BY <1>4
  <2>2. i * M = (i - 1) * M + M /\ (i - 1) * M \in Nat
    <3>1. M \in Nat
      BY <1>1
    <3>2. ((i - 1) + 1) * M = (i - 1) * M + M /\ (i - 1) * M \in Nat
      BY ONLY <2>1, <3>1, TimesNext
    <3> QED
      BY ONLY <2>1, <3>2
  <2>3. i * M <= K * M
    BY <1>1, <1>4, <2>1, TimesOrder
  <2>4. i * M \in Nat
    BY ONLY <1>1, <2>2
  <2>5. (i - 1) * M < L
    BY ONLY <1>1, <1>4, <1>5, <2>2, <2>3, <2>4
  <2>6. SliceEnd(data, i) = IF i * M < L THEN i * M ELSE L
    BY DEF SliceEnd, M, L
  <2>7. SliceEnd(data, i) \in ((i - 1) * M + 1)..L /\ SliceEnd(data, i) <= i * M
    BY ONLY <1>1, <2>2, <2>4, <2>5, <2>6
  <2> QED
    BY <2>2, <2>5, <2>7
<1> QED
  BY <1>4, <1>6, <1>7 DEF M, L, K

\* Where the items of slice i are.
SliceOf(data, i, slice) ==
    \A j \in DOMAIN slice :
       /\ j \in 1..MaxChunkSize
       /\ (i - 1) * MaxChunkSize + j \in DOMAIN data
       /\ slice[j] = data[(i - 1) * MaxChunkSize + j]

LEMMA SlicesAre ==
    ASSUME NEW S, NEW data \in Seq(S)
    PROVE  /\ Slices(data) \in Seq(Seq(S))
           /\ Len(Slices(data)) = SliceCount(data)
           /\ DOMAIN Slices(data) = 1..SliceCount(data)
           /\ \A i \in 1..SliceCount(data) :
                 /\ Slices(data)[i] = SubSeq(data, (i - 1) * MaxChunkSize + 1, SliceEnd(data, i))
                 /\ Slices(data)[i] \in Seq(S)
                 /\ Len(Slices(data)[i]) \in 1..MaxChunkSize
                 /\ SliceOf(data, i, Slices(data)[i])
<1> DEFINE M == MaxChunkSize
           K == SliceCount(data)
           part(i) == SubSeq(data, (i - 1) * M + 1, SliceEnd(data, i))
<1>1. M \in Nat \ {0} /\ Len(data) \in Nat
  BY BatchAssumption
<1>2. /\ K \in Nat
      /\ \A i \in 1..K : /\ (i - 1) * M \in Nat
                         /\ i * M = (i - 1) * M + M
                         /\ SliceEnd(data, i) \in ((i - 1) * M + 1)..Len(data)
                         /\ SliceEnd(data, i) <= i * M
  BY SlicePlaces
<1>3. Slices(data) = [i \in 1..K |-> part(i)]
  BY DEF Slices, SliceCount, SliceEnd
<1> HIDE DEF M, K
<1>4. ASSUME NEW i \in 1..K
      PROVE  /\ part(i) \in Seq(S) /\ Len(part(i)) \in 1..M
             /\ SliceOf(data, i, part(i))
  <2> PICK a : a = (i - 1) * M
    OBVIOUS
  <2> PICK b : b = SliceEnd(data, i)
    OBVIOUS
  <2>1. a \in Nat /\ b \in (a + 1)..Len(data) /\ b <= a + M
    BY <1>2
  <2>2. part(i) = SubSeq(data, a + 1, b)
    OBVIOUS
  <2>3. /\ SubSeq(data, a + 1, b) \in Seq(S)
        /\ Len(SubSeq(data, a + 1, b)) = b - a
        /\ \A j \in 1..(b - a) : SubSeq(data, a + 1, b)[j] = data[a + j]
    BY ONLY <1>1, <2>1, data \in Seq(S)
  <2>4. b - a \in 1..M /\ \A j \in 1..(b - a) : j \in 1..M /\ a + j \in 1..Len(data)
    BY ONLY <1>1, <2>1
  <2>5. /\ part(i) \in Seq(S) /\ Len(part(i)) = b - a
        /\ \A j \in 1..(b - a) : part(i)[j] = data[a + j]
    BY <2>2, <2>3
  <2> HIDE DEF part
  <2>6. \A j \in DOMAIN part(i) : j \in 1..M /\ a + j \in DOMAIN data
                                 /\ part(i)[j] = data[a + j]
    BY <2>4, <2>5
  <2> QED
    BY <2>4, <2>5, <2>6 DEF SliceOf, M
<1>5. Slices(data) \in Seq(Seq(S)) /\ Len(Slices(data)) = K /\ DOMAIN Slices(data) = 1..K
  <2>1. Slices(data) \in [1..K -> Seq(S)]
    BY <1>3, <1>4
  <2> QED
    BY <1>2, <2>1
<1>6. \A i \in 1..K : Slices(data)[i] = part(i)
  BY <1>3
<1> QED
  BY <1>4, <1>5, <1>6 DEF M, K

LEMMA PartsJoin ==
    ASSUME NEW S, NEW data \in Seq(S), NEW a \in 0..Len(data), NEW b \in a..Len(data)
    PROVE  SubSeq(data, 1, a) \o SubSeq(data, a + 1, b) = SubSeq(data, 1, b)
<1> DEFINE p == SubSeq(data, 1, a)
           q == SubSeq(data, a + 1, b)
           r == SubSeq(data, 1, b)
<1>0. a \in Nat /\ b \in Nat /\ a <= b /\ Len(data) \in Nat /\ b <= Len(data)
  OBVIOUS
<1>a. ASSUME NEW c \in Nat, c <= Len(data)
      PROVE  /\ SubSeq(data, 1, c) \in Seq(S) /\ Len(SubSeq(data, 1, c)) = c
             /\ \A i \in 1..c : SubSeq(data, 1, c)[i] = data[i]
  BY <1>a
<1>b. q \in Seq(S) /\ Len(q) = b - a /\ \A i \in 1..(b - a) : q[i] = data[a + i]
  BY <1>0
<1>1. /\ p \in Seq(S) /\ Len(p) = a /\ \A i \in 1..a : p[i] = data[i]
      /\ q \in Seq(S) /\ Len(q) = b - a /\ \A i \in 1..(b - a) : q[i] = data[a + i]
      /\ r \in Seq(S) /\ Len(r) = b /\ \A i \in 1..b : r[i] = data[i]
  BY <1>0, <1>a, <1>b
<1>2. a \in Nat /\ b \in Nat /\ a <= b
  BY <1>0
<1> HIDE DEF p, q, r
<1>3. /\ p \o q \in Seq(S) /\ Len(p \o q) = Len(p) + Len(q)
      /\ \A i \in 1..(Len(p) + Len(q)) :
            (p \o q)[i] = IF i <= Len(p) THEN p[i] ELSE q[i - Len(p)]
  BY ONLY <1>1, ConcatProperties
<1>4. Len(p \o q) = b
  BY ONLY <1>1, <1>2, <1>3
<1>5. ASSUME NEW i \in 1..b
      PROVE  (p \o q)[i] = r[i]
  <2>1. (p \o q)[i] = IF i <= a THEN p[i] ELSE q[i - a]
    BY ONLY <1>1, <1>2, <1>3
  <2>2. CASE i <= a
    <3>1. i \in 1..a
      BY ONLY <1>2, <2>2
    <3> QED
      BY <1>1, <2>1, <2>2, <3>1
  <2>3. CASE ~(i <= a)
    <3>1. i - a \in 1..(b - a) /\ a + (i - a) = i
      BY ONLY <1>2, <2>3
    <3> QED
      BY <1>1, <2>1, <2>3, <3>1
  <2> QED
    BY <2>2, <2>3
<1>6. p \o q = r
  BY ONLY <1>1, <1>3, <1>4, <1>5, SeqEqual
<1> QED
  BY <1>6 DEF p, q, r

\* The slices, one after the other, are the data.
LEMMA SlicesJoined ==
    ASSUME NEW S, NEW data \in Seq(S)
    PROVE  Joined(Slices(data)) = data
<1> DEFINE ss == Slices(data)
           M == MaxChunkSize
           L == Len(data)
           K == SliceCount(data)
<1>1. /\ ss \in Seq(Seq(S)) /\ Len(ss) = K
      /\ \A i \in 1..K : ss[i] = SubSeq(data, (i - 1) * M + 1, SliceEnd(data, i))
  BY SlicesAre
<1>2. /\ K \in Nat /\ K * M >= L
      /\ \A i \in 1..K : /\ (i - 1) * M \in Nat
                         /\ (i - 1) * M < L
                         /\ SliceEnd(data, i) \in ((i - 1) * M + 1)..L
  BY SlicePlaces
<1>3. M \in Nat /\ L \in Nat
  BY BatchAssumption
<1>4. \A i : SliceEnd(data, i) = IF i * M < L THEN i * M ELSE L
  BY DEF SliceEnd
<1> HIDE DEF ss, M, K, L
<1>5. PICK f : f \in JoinedLoop(S, ss)
  BY <1>1, JoinedGoesOn
<1>6. /\ f[0] = <<>> /\ Joined(ss) = f[K]
      /\ \A n \in 1..K : f[n] = f[n - 1] \o ss[n]
  BY <1>1, <1>5, Zenon DEF JoinedLoop
<1> DEFINE T == {n \in 0..K : f[n] = SubSeq(data, 1, SliceEnd(data, n))}
<1>7. 0 \in T
  <2>1. 0 * M = 0
    BY <1>3
  <2>2. SliceEnd(data, 0) = 0
    BY ONLY <1>3, <1>4, <2>1
  <2>3. SubSeq(data, 1, 0) = <<>>
    BY SubSeqEmpty
  <2>4. 0 \in 0..K
    BY <1>2
  <2>5. f[0] = SubSeq(data, 1, SliceEnd(data, 0))
    BY ONLY <1>6, <2>2, <2>3
  <2> QED
    BY ONLY <2>4, <2>5
<1>8. ASSUME NEW n \in 1..K, n - 1 \in T
      PROVE  n \in T
  <2>1. SliceEnd(data, n - 1) = (n - 1) * M
    BY <1>2, <1>4
  <2> PICK a : a = (n - 1) * M
    OBVIOUS
  <2> PICK b : b = SliceEnd(data, n)
    OBVIOUS
  <2>2. a \in 0..L /\ b \in a..L
    <3>1. a \in Nat /\ a < L /\ b \in (a + 1)..L
      BY <1>2
    <3> QED
      BY ONLY <1>3, <3>1
  <2>3. f[n] = SubSeq(data, 1, a) \o SubSeq(data, a + 1, b)
    BY <1>1, <1>6, <1>8, <2>1
  <2>4. SubSeq(data, 1, a) \o SubSeq(data, a + 1, b) = SubSeq(data, 1, b)
    BY <2>2, PartsJoin DEF L
  <2>5. n \in 0..K
    BY <1>2
  <2> QED
    BY <2>3, <2>4, <2>5
<1>9. K \in T
  <2>1. K \in Nat /\ K \in 0..K
    BY <1>2
  <2> HIDE DEF T
  <2> QED
    BY ONLY <1>7, <1>8, <2>1, EveryPosition
<1>10. SliceEnd(data, K) = L
  <2>1. K * M \in Nat
    BY <1>2, <1>3, TimesNext
  <2> QED
    BY ONLY <1>2, <1>3, <1>4, <2>1
<1>11. SubSeq(data, 1, L) = data
  BY SubSeqFull DEF L
<1> QED
  BY <1>6, <1>9, <1>10, <1>11 DEF ss

LEMMA SlicesAreWhole == SlicesWhole
<1> SUFFICES ASSUME NEW op \in Operations
             PROVE  /\ Joined(Slices(op.data)) = op.data
                    /\ \A i \in DOMAIN Slices(op.data) :
                          Len(Slices(op.data)[i]) \in 1..MaxChunkSize
  BY DEF SlicesWhole
<1>1. op.data \in Seq(Record)
  BY BatchAssumption DEF Operation
<1> QED
  BY <1>1, SlicesJoined, SlicesAre

\* No item is in two slices, or twice in one.
LEMMA SlicesApart ==
    ASSUME NEW S, NEW data \in Seq(S), IsInjective(data)
    PROVE  \A i \in 1..SliceCount(data) :
              /\ IsInjective(Slices(data)[i])
              /\ Range(Slices(data)[i]) \subseteq Range(data)
              /\ \A k \in 1..SliceCount(data) : i < k =>
                    Range(Slices(data)[i]) \cap Range(Slices(data)[k]) = {}
<1> DEFINE M == MaxChunkSize
           K == SliceCount(data)
           ss == Slices(data)
<1>1. \A i \in 1..K : \A j \in DOMAIN ss[i] :
         /\ j \in 1..M
         /\ (i - 1) * M + j \in DOMAIN data
         /\ ss[i][j] = data[(i - 1) * M + j]
  <2>1. \A i \in 1..K : SliceOf(data, i, ss[i])
    BY SlicesAre
  <2> QED
    BY <2>1 DEF SliceOf
<1>2. M \in Nat /\ K \in Nat
  BY BatchAssumption, SlicePlaces
<1>3. \A i \in 1..K : (i - 1) * M \in Nat /\ i * M = (i - 1) * M + M
  BY SlicePlaces
<1> HIDE DEF M, K, ss
<1>4. ASSUME NEW i \in 1..K
      PROVE  IsInjective(ss[i]) /\ Range(ss[i]) \subseteq Range(data)
  <2>1. ASSUME NEW j \in DOMAIN ss[i], NEW l \in DOMAIN ss[i], ss[i][j] = ss[i][l]
        PROVE  j = l
    <3>1. (i - 1) * M + j = (i - 1) * M + l
      BY <1>1, <2>1 DEF IsInjective
    <3>2. j \in Nat /\ l \in Nat /\ (i - 1) * M \in Nat
      BY <1>1, <1>2, <1>3
    <3> QED
      BY ONLY <3>1, <3>2
  <2>2. Range(ss[i]) \subseteq Range(data)
    BY <1>1 DEF Range
  <2> QED
    BY <2>1, <2>2 DEF IsInjective
<1>5. ASSUME NEW i \in 1..K, NEW k \in 1..K, i < k,
             NEW j \in DOMAIN ss[i], NEW l \in DOMAIN ss[k], ss[i][j] = ss[k][l]
      PROVE  FALSE
  <2>1. (i - 1) * M + j = (k - 1) * M + l
    BY <1>1, <1>5 DEF IsInjective
  <2>2. i \in Nat /\ k - 1 \in Nat /\ i <= k - 1
    BY <1>2, <1>5
  <2>3. i * M <= (k - 1) * M
    BY ONLY <1>2, <2>2, TimesOrder
  <2>4. /\ j \in 1..M /\ l \in 1..M /\ (i - 1) * M \in Nat /\ (k - 1) * M \in Nat
        /\ i * M = (i - 1) * M + M
    BY <1>1, <1>3
  <2> QED
    BY ONLY <1>2, <2>1, <2>3, <2>4
<1>6. ASSUME NEW i \in 1..K, NEW k \in 1..K, i < k
      PROVE  Range(ss[i]) \cap Range(ss[k]) = {}
  BY <1>5, <1>6 DEF Range
<1> QED
  BY <1>4, <1>6 DEF M, K, ss

(****************************************************************************)
(* Executing.                                                               *)
(****************************************************************************)

\* Operations that are executed in the order of their priorities.
Queued(ops) ==
    /\ ops \in Seq(Operation)
    /\ \A i \in DOMAIN ops : IsInjective(ops[i].data)
    /\ \A i, j \in DOMAIN ops :
          i # j => Range(ops[i].data) \cap Range(ops[j].data) = {}
    /\ \A i, j \in DOMAIN ops : i < j => ops[i].priority >= ops[j].priority

LEMMA OperationTypes ==
    ASSUME NEW op \in Operation
    PROVE  op.data \in Seq(Record) /\ op.priority \in Nat
           /\ op.kind \in {"create", "write", "update", "unlink"}
  BY DEF Operation

\* A chunk that waits.
Waits(chunk) ==
    /\ chunk \in Chunk /\ Ends(chunk) /\ chunk.pc = "waiting"
    /\ chunk.outcome = "none" /\ IsInjective(chunk.data)

LEMMA ChunkOfWaits ==
    ASSUME NEW op \in Operation, NEW data \in Seq(Record), IsInjective(data)
    PROVE  /\ Waits(ChunkOf(op, data))
           /\ ChunkOf(op, data).data = data
           /\ ChunkOf(op, data).priority = op.priority
<1>1. ChunkOf(op, data) \in Chunk
  BY OperationTypes DEF ChunkOf, Chunk
<1> QED
  BY <1>1 DEF ChunkOf, Waits, Ends

\* The chunks of operations: each waits, and they are apart and in order.
LEMMA ChunksWait ==
    ASSUME NEW ops, Queued(ops)
    PROVE  /\ ChunksOf(ops) \in Seq(Chunk)
           /\ \A c \in DOMAIN ChunksOf(ops) : Waits(ChunksOf(ops)[c])
           /\ \A c, d \in DOMAIN ChunksOf(ops) : c < d =>
                 /\ ChunksOf(ops)[c].priority >= ChunksOf(ops)[d].priority
                 /\ Range(ChunksOf(ops)[c].data) \cap Range(ChunksOf(ops)[d].data) = {}
<1> DEFINE ss == [i \in DOMAIN ops |-> Split(ops[i])]
           chunks == ChunksOf(ops)
           slices(i) == Slices(ops[i].data)
           K(i) == SliceCount(ops[i].data)
<1>1. /\ DOMAIN ops = 1..Len(ops) /\ Len(ops) \in Nat
      /\ \A i \in DOMAIN ops : ops[i] \in Operation /\ i \in Nat
  BY DEF Queued
<1>2. \A i \in DOMAIN ops : /\ ops[i].data \in Seq(Record) /\ ops[i].priority \in Nat
                            /\ IsInjective(ops[i].data)
  BY <1>1, OperationTypes DEF Queued
<1>3. ASSUME NEW i \in DOMAIN ops
      PROVE  /\ K(i) \in Nat
             /\ slices(i) \in Seq(Seq(Record)) /\ DOMAIN slices(i) = 1..K(i)
             /\ \A j \in 1..K(i) : slices(i)[j] \in Seq(Record)
  BY <1>2, SlicesAre, SlicePlaces
<1>4. ASSUME NEW i \in DOMAIN ops
      PROVE  \A j \in 1..K(i) :
                /\ IsInjective(slices(i)[j])
                /\ Range(slices(i)[j]) \subseteq Range(ops[i].data)
                /\ \A k \in 1..K(i) : j < k =>
                      Range(slices(i)[j]) \cap Range(slices(i)[k]) = {}
  BY <1>2, SlicesApart
<1>5. \A i \in DOMAIN ops : Split(ops[i]) = [j \in DOMAIN slices(i) |-> ChunkOf(ops[i], slices(i)[j])]
  BY DEF Split
<1> HIDE DEF slices, K
<1>6. ASSUME NEW i \in DOMAIN ops, NEW j \in 1..K(i)
      PROVE  /\ Split(ops[i])[j] = ChunkOf(ops[i], slices(i)[j])
             /\ Waits(Split(ops[i])[j])
             /\ Split(ops[i])[j].data = slices(i)[j]
             /\ Split(ops[i])[j].priority = ops[i].priority
  <2>1. Split(ops[i])[j] = ChunkOf(ops[i], slices(i)[j])
    BY <1>3, <1>5
  <2>2. slices(i)[j] \in Seq(Record) /\ IsInjective(slices(i)[j]) /\ ops[i] \in Operation
    BY <1>1, <1>3, <1>4
  <2> QED
    BY ONLY <2>1, <2>2, ChunkOfWaits
<1>7. ASSUME NEW i \in DOMAIN ops
      PROVE  Split(ops[i]) \in Seq(Chunk) /\ DOMAIN Split(ops[i]) = 1..K(i)
  <2>1. DOMAIN Split(ops[i]) = 1..K(i) /\ \A j \in 1..K(i) : Split(ops[i])[j] \in Chunk
    BY <1>3, <1>5, <1>6 DEF Waits
  <2>2. Split(ops[i]) = [j \in 1..K(i) |-> Split(ops[i])[j]]
    BY <1>3, <1>5
  <2>3. Split(ops[i]) \in [1..K(i) -> Chunk]
    BY <2>1, <2>2
  <2> QED
    BY <1>3, <2>1, <2>3
<1>8. ss \in Seq(Seq(Chunk)) /\ DOMAIN ss = DOMAIN ops /\ \A i \in DOMAIN ops : ss[i] = Split(ops[i])
  <2>1. ss \in [1..Len(ops) -> Seq(Chunk)]
    BY <1>1, <1>7
  <2> QED
    BY <1>1, <2>1
<1>9. chunks = Joined(ss)
  BY DEF ChunksOf
<1> HIDE DEF ss, chunks
<1>10. chunks \in Seq(Chunk) /\ Origins(chunks, ss, Len(ss)) # {}
  BY <1>8, <1>9, JoinedPlaces
<1>11. PICK at \in [DOMAIN chunks -> Places(ss)] :
          /\ \A c \in DOMAIN chunks : chunks[c] = ss[at[c][1]][at[c][2]]
          /\ \A c, d \in DOMAIN chunks : c < d => Before(at[c], at[d])
  BY <1>10 DEF Origins
<1>12. ASSUME NEW c \in DOMAIN chunks
       PROVE  /\ at[c][1] \in DOMAIN ops /\ at[c][2] \in 1..K(at[c][1])
              /\ chunks[c] = Split(ops[at[c][1]])[at[c][2]]
  <2>1. at[c] \in Places(ss)
    BY <1>11
  <2>2. at[c][1] \in DOMAIN ss /\ at[c][2] \in DOMAIN ss[at[c][1]]
    BY <2>1, Zenon DEF Places
  <2> QED
    BY <1>7, <1>8, <1>11, <2>2
<1>13. ASSUME NEW c \in DOMAIN chunks, NEW d \in DOMAIN chunks, c < d
       PROVE  /\ chunks[c].priority >= chunks[d].priority
              /\ Range(chunks[c].data) \cap Range(chunks[d].data) = {}
  <2> PICK i \in DOMAIN ops : i = at[c][1]
    BY <1>12
  <2> PICK k \in DOMAIN ops : k = at[d][1]
    BY <1>12
  <2> PICK j \in 1..K(i) : j = at[c][2]
    BY <1>12
  <2> PICK l \in 1..K(k) : l = at[d][2]
    BY <1>12
  <2>1. /\ chunks[c].data = slices(i)[j] /\ chunks[c].priority = ops[i].priority
        /\ chunks[d].data = slices(k)[l] /\ chunks[d].priority = ops[k].priority
    BY <1>6, <1>12
  <2>2. i < k \/ (i = k /\ j < l)
    BY <1>11, <1>13 DEF Before
  <2>3. CASE i < k
    <3>1. /\ Range(slices(i)[j]) \subseteq Range(ops[i].data)
          /\ Range(slices(k)[l]) \subseteq Range(ops[k].data)
      BY <1>4
    <3>2. i # k
      BY <1>1, <2>3
    <3>3. /\ Range(ops[i].data) \cap Range(ops[k].data) = {}
          /\ ops[i].priority >= ops[k].priority
      BY <2>3, <3>2 DEF Queued
    <3> QED
      BY <2>1, <3>1, <3>3
  <2>4. CASE i = k /\ j < l
    <3>1. Range(slices(i)[j]) \cap Range(slices(k)[l]) = {}
      BY <1>4, <2>4
    <3>2. ops[i].priority >= ops[k].priority
      BY <1>2, <2>4
    <3> QED
      BY <2>1, <3>1, <3>2
  <2> QED
    BY <2>2, <2>3, <2>4
<1>14. \A c \in DOMAIN chunks : Waits(chunks[c])
  BY <1>6, <1>12
<1> QED
  BY <1>10, <1>13, <1>14 DEF chunks

NewRun(chunks) == [NoExecution EXCEPT !.pc = "executing", !.chunks = chunks]

LEMMA NewRunSafe ==
    ASSUME NEW ops, Queued(ops), NEW have \in [Record -> Nat]
    PROVE  LET run == NewRun(ChunksOf(ops))
           IN  /\ run \in Execution
               /\ RunSafe(run) /\ RunWhole(run, have) /\ ~run.changed
               /\ \A c \in DOMAIN run.chunks : run.chunks[c].pc = "waiting"
<1> DEFINE run == NewRun(ChunksOf(ops))
           chunks == ChunksOf(ops)
<1>1. /\ chunks \in Seq(Chunk)
      /\ \A c \in DOMAIN chunks : Waits(chunks[c])
      /\ \A c, d \in DOMAIN chunks : c < d =>
            /\ chunks[c].priority >= chunks[d].priority
            /\ Range(chunks[c].data) \cap Range(chunks[d].data) = {}
  BY ChunksWait
<1> HIDE DEF chunks
<1>2. run \in Execution
  BY <1>1 DEF NewRun, NoExecution, Execution, chunks
<1>3. /\ run.pc = "executing" /\ run.chunks = chunks /\ run.finished = {}
      /\ run.completed = 0 /\ run.failed = 0 /\ run.processed = 0 /\ run.changed = FALSE
  BY DEF NewRun, NoExecution, chunks
<1> HIDE DEF run
<1>4. \A outcomes : "none" \notin outcomes => Results(run, outcomes) = {}
  BY <1>1, <1>3 DEF Results, Waits
<1>5. Results(run, {"success"}) = {} /\ Results(run, {"failure", "timeout"}) = {}
  BY <1>4
<1>6. Total(Reported(run)) = 0
  <2>1. Reported(run) \in Seq(Nat) /\ DOMAIN Reported(run) = DOMAIN run.chunks
    BY <1>2, ReportedType
  <2>2. \A c \in DOMAIN Reported(run) : Reported(run)[c] = 0
    BY <1>1, <1>3, <2>1 DEF Reported, Waits
  <2> QED
    BY <2>1, <2>2, TotalOfZeros
<1>7. Cardinality({}) = 0
  BY FS_EmptySet
<1>8. CountsFit(run)
  BY <1>3, <1>5, <1>6, <1>7 DEF CountsFit
<1>9. AtWork(chunks) = {}
  BY <1>1 DEF AtWork, Waits, Busy
<1>10. MaxConcurrency \in Nat
  BY BatchAssumption
<1>11. InOrder(chunks) /\ \A c \in DOMAIN chunks : Ends(chunks[c]) /\ chunks[c].pc = "waiting"
  BY <1>1 DEF InOrder, Waits
<1>12. RunSafe(run)
  BY <1>3, <1>7, <1>8, <1>9, <1>10, <1>11 DEF RunSafe
<1>13. \A c \in DOMAIN chunks : CallsFit(chunks[c], have)
  BY <1>1 DEF Waits, CallsFit
<1>14. \A c, d \in DOMAIN chunks : c # d =>
          Range(chunks[c].data) \cap Range(chunks[d].data) = {}
  <2>1. \A c \in DOMAIN chunks : c \in Nat
    BY <1>1
  <2>2. \A c, d \in DOMAIN chunks : c # d => c < d \/ d < c
    BY <2>1
  <2> QED
    BY <1>1, <2>2
<1> QED
  BY <1>2, <1>3, <1>11, <1>12, <1>13, <1>14 DEF RunWhole, run

\* An execution without chunks.
EmptyRun(pc) == [NoExecution EXCEPT !.pc = pc]

LEMMA EmptyRunSafe ==
    ASSUME NEW pc \in {"idle", "raised"}, NEW have
    PROVE  LET run == EmptyRun(pc)
           IN  /\ run \in Execution /\ run.pc = pc /\ run.chunks = <<>> /\ ~run.changed
               /\ RunSafe(run) /\ RunWhole(run, have)
<1> DEFINE run == EmptyRun(pc)
<1>1. run \in Execution
  <2>1. /\ pc \in {"idle", "executing", "abandoned", "returned", "raised"}
        /\ <<>> \in Seq(Chunk) /\ {} \in SUBSET Nat
    OBVIOUS
  <2>2. NoExecution \in Execution
    BY <2>1 DEF NoExecution, Execution
  <2> QED
    BY <2>1, <2>2 DEF EmptyRun, Execution
<1>2. /\ run.pc = pc /\ run.chunks = <<>> /\ run.finished = {}
      /\ run.completed = 0 /\ run.failed = 0 /\ run.processed = 0 /\ run.changed = FALSE
  BY DEF EmptyRun, NoExecution
<1> HIDE DEF run
<1>3. DOMAIN run.chunks = {}
  BY <1>2
<1>4. Results(run, {"success"}) = {} /\ Results(run, {"failure", "timeout"}) = {}
  BY <1>3 DEF Results
<1>5. Total(Reported(run)) = 0
  <2>1. Reported(run) \in Seq(Nat) /\ DOMAIN Reported(run) = {}
    BY <1>1, <1>3, ReportedType
  <2> QED
    BY <2>1, TotalOfZeros
<1>6. Cardinality({}) = 0
  BY FS_EmptySet
<1>7. CountsFit(run)
  <2>1. 0 >= 0
    OBVIOUS
  <2> QED
    BY ONLY <1>2, <1>4, <1>5, <1>6, <2>1 DEF CountsFit
<1>8. Cardinality(AtWork(run.chunks)) <= MaxConcurrency
  <2>1. AtWork(run.chunks) = {} /\ MaxConcurrency \in Nat
    BY <1>3, BatchAssumption DEF AtWork
  <2> QED
    BY <1>6, <2>1
<1>9. RunSafe(run)
  <2>1. InOrder(run.chunks)
    BY <1>3 DEF InOrder
  <2> QED
    BY <1>2, <1>3, <1>7, <1>8, <2>1 DEF RunSafe
<1>10. RunWhole(run, have)
  BY <1>3 DEF RunWhole
<1> QED
  BY <1>1, <1>2, <1>9, <1>10 DEF run

\* An execution begins, or fails before it has.
LEMMA RunBegins ==
    ASSUME BatchInv, NEW t \in Task, execution[t].pc = "idle", NEW next \in Execution,
           execution' = [execution EXCEPT ![t] = next],
           RunSafe(next), RunWhole(next, copies), ~next.changed,
           \A c \in DOMAIN next.chunks : next.chunks[c].pc = "waiting",
           UNCHANGED <<batch, unnamed, copies>>,
           batches' \in [total : Nat, completed : Nat, failed : Nat, records : Nat],
           batches'.total = batches'.completed + batches'.failed
    PROVE  BatchInv'
<1>1. /\ execution \in [Task -> Execution] /\ execution[t] \in Execution
      /\ \A u \in Task : RunSafe(execution[u]) /\ RunWhole(execution[u], copies)
      /\ CopiesFit /\ BatchTypes
      /\ batch.executed => \E u \in Task : execution[u].pc = "returned"
  BY Zenon DEF BatchInv, BatchTypes
<1>2. /\ execution' \in [Task -> Execution]
      /\ execution'[t] = next /\ \A u \in Task : u # t => execution'[u] = execution[u]
  BY <1>1
<1>3. DOMAIN execution[t].chunks = {} /\ ~execution[t].changed
  BY <1>1 DEF RunSafe
<1>4. \A u \in Task : RunSafe(execution'[u]) /\ RunWhole(execution'[u], copies')
  BY <1>1, <1>2
<1>5. \A r \in Record : Bulked(execution', r) = Bulked(execution, r)
  BY <1>2, <1>3 DEF Bulked, BulkOver
<1>6. \A r \in Record : Singled(execution', r) = Singled(execution, r)
  BY <1>2, <1>3 DEF Singled, SingleOver
<1>7. \A u \in Task : execution'[u].changed = execution[u].changed
  <2>1. next.changed = execution[t].changed
    BY <1>1, <1>3, RunTypes
  <2> QED
    BY <1>2, <2>1
<1>8. CopiesFit'
  BY <1>1, <1>5, <1>6, <1>7 DEF CopiesFit
<1>9. \A u \in Task : execution[u].pc = "returned" => execution'[u].pc = "returned"
  BY <1>2
<1>10. BatchTypes' /\ OperationsFit'
  BY <1>1, <1>2 DEF BatchInv, BatchTypes, OperationsFit, Collecting
<1> QED
  BY <1>1, <1>4, <1>8, <1>9, <1>10 DEF BatchInv

LEMMA SortedQueued ==
    ASSUME NEW ops \in Seq(Operation),
           \A i \in DOMAIN ops : IsInjective(ops[i].data),
           \A i, j \in DOMAIN ops :
              i # j => Range(ops[i].data) \cap Range(ops[j].data) = {},
           NEW sorted \in ByPriority(ops)
    PROVE  Queued(sorted)
<1>1. PICK f \in [DOMAIN ops -> DOMAIN ops] :
         /\ \A i, j \in DOMAIN ops : i < j =>
               \/ ops[f[i]].priority > ops[f[j]].priority
               \/ ops[f[i]].priority = ops[f[j]].priority /\ f[i] < f[j]
         /\ sorted = [i \in DOMAIN ops |-> ops[f[i]]]
  BY DEF ByPriority
<1>2. /\ DOMAIN ops = 1..Len(ops) /\ Len(ops) \in Nat
      /\ \A i \in DOMAIN ops : /\ i \in Nat /\ f[i] \in DOMAIN ops /\ f[i] \in Nat
                               /\ ops[i] \in Operation /\ ops[i].priority \in Nat
  BY <1>1, OperationTypes
<1>3. sorted \in Seq(Operation) /\ DOMAIN sorted = DOMAIN ops
      /\ \A i \in DOMAIN ops : sorted[i] = ops[f[i]]
  <2>1. sorted \in [1..Len(ops) -> Operation]
    BY <1>1, <1>2
  <2> QED
    BY <1>1, <1>2, <2>1
<1>4. ASSUME NEW i \in DOMAIN ops, NEW j \in DOMAIN ops, i < j
      PROVE  ops[f[i]].priority >= ops[f[j]].priority /\ f[i] # f[j]
  <2>1. \/ ops[f[i]].priority > ops[f[j]].priority
        \/ ops[f[i]].priority = ops[f[j]].priority /\ f[i] < f[j]
    BY <1>1, <1>4
  <2>2. f[i] \in DOMAIN ops /\ f[j] \in DOMAIN ops /\ f[i] \in Nat /\ f[j] \in Nat
    BY <1>2
  <2>3. ops[f[i]].priority \in Nat /\ ops[f[j]].priority \in Nat
    BY ONLY <1>2, <2>2
  <2>4. ops[f[i]].priority >= ops[f[j]].priority
    BY ONLY <2>1, <2>3
  <2>5. f[i] # f[j]
    <3>1. CASE f[i] = f[j]
      <4>1. ops[f[i]].priority = ops[f[j]].priority /\ ~(f[i] < f[j])
        BY ONLY <2>2, <3>1
      <4> QED
        BY ONLY <2>1, <2>3, <4>1
    <3> QED
      BY <3>1
  <2> QED
    BY <2>4, <2>5
<1>5. \A i, j \in DOMAIN ops : i < j => f[i] # f[j]
  BY <1>4
<1>6. \A i, j \in DOMAIN ops : i # j => f[i] # f[j]
  BY <1>2, <1>5
<1>7. \A i, j \in DOMAIN sorted : i < j => sorted[i].priority >= sorted[j].priority
  BY <1>3, <1>4
<1>8. ASSUME NEW i \in DOMAIN sorted, NEW j \in DOMAIN sorted, i # j
      PROVE  Range(sorted[i].data) \cap Range(sorted[j].data) = {}
  <2>1. i \in DOMAIN ops /\ j \in DOMAIN ops
    BY <1>3
  <2>2. f[i] \in DOMAIN ops /\ f[j] \in DOMAIN ops /\ f[i] # f[j]
    BY <1>2, <1>6, <1>8, <2>1
  <2>3. Range(ops[f[i]].data) \cap Range(ops[f[j]].data) = {}
    BY <2>2
  <2> QED
    BY <1>3, <2>1, <2>3
<1>9. \A i \in DOMAIN sorted : IsInjective(sorted[i].data)
  BY <1>2, <1>3
<1> QED
  BY <1>3, <1>7, <1>8, <1>9 DEF Queued

LEMMA ExecutesKeeps ==
    ASSUME BatchInv, NEW t \in Task, execution[t].pc = "idle", NEW ops, Queued(ops),
           ExecuteOperations(t, ops), UNCHANGED <<batch, unnamed, copies>>
    PROVE  BatchInv'
<1> DEFINE next == NewRun(ChunksOf(ops))
<1>1. execution' = [execution EXCEPT ![t] = next] /\ UNCHANGED batches
  BY DEF ExecuteOperations, NewRun
<1>2. copies \in [Record -> Nat]
  BY DEF BatchInv, BatchTypes
<1>3. /\ next \in Execution
      /\ RunSafe(next) /\ RunWhole(next, copies) /\ ~next.changed
      /\ \A c \in DOMAIN next.chunks : next.chunks[c].pc = "waiting"
  BY <1>2, NewRunSafe
<1>4. /\ batches' \in [total : Nat, completed : Nat, failed : Nat, records : Nat]
      /\ batches'.total = batches'.completed + batches'.failed
  BY <1>1 DEF BatchInv, BatchTypes
<1> HIDE DEF next
<1> QED
  BY <1>1, <1>3, <1>4, RunBegins

\* The operations of the batch, as the invariant has them.
LEMMA OperationsOf ==
    ASSUME BatchInv
    PROVE  /\ batch.operations \in Seq(Operation)
           /\ \A i \in DOMAIN batch.operations : IsInjective(batch.operations[i].data)
           /\ \A i, j \in DOMAIN batch.operations : i # j =>
                 Range(batch.operations[i].data) \cap Range(batch.operations[j].data) = {}
           /\ batch.mode # "batch" =>
                 \A i \in DOMAIN batch.operations : batch.operations[i].priority = 0
           /\ Collecting => Len(batch.operations) <= 1
  BY DEF BatchInv, BatchTypes, OperationsFit

LEMMA ContextExecutesKeeps ==
    ASSUME BatchInv, NEW t \in Task, ContextExecutes(t)
    PROVE  BatchInv'
<1>1. /\ batch.mode = "context" /\ execution[t].pc = "idle"
      /\ ExecuteOperations(t, batch.operations)
      /\ UNCHANGED <<batch, unnamed, copies>>
  BY DEF ContextExecutes
<1>2. Queued(batch.operations)
  <2>1. \A i \in DOMAIN batch.operations : batch.operations[i].priority = 0
    BY <1>1, OperationsOf
  <2>2. \A i, j \in DOMAIN batch.operations :
           batch.operations[i].priority >= batch.operations[j].priority
    BY <2>1
  <2> QED
    BY <2>2, OperationsOf DEF Queued
<1> QED
  BY <1>1, <1>2, ExecutesKeeps

LEMMA BatchExecuteKeeps ==
    ASSUME BatchInv, NEW t \in Task, BatchExecute(t)
    PROVE  BatchInv'
<1>1. execution[t].pc = "idle" /\ UNCHANGED <<batch, unnamed, copies>>
  BY DEF BatchExecute
<1>2. ASSUME NEW sorted \in ByPriority(batch.operations), ExecuteOperations(t, sorted)
      PROVE  BatchInv'
  <2>1. Queued(sorted)
    BY OperationsOf, SortedQueued
  <2> QED
    BY <1>1, <1>2, <2>1, ExecutesKeeps
<1>3. CASE /\ execution' = [execution EXCEPT ![t] = [NoExecution EXCEPT !.pc = "raised"]]
           /\ batches' = IF batch.mode = "batch"
                         THEN [batches EXCEPT !.total = @ + 1, !.failed = @ + 1]
                         ELSE batches
  <2> DEFINE next == EmptyRun("raised")
  <2>1. execution' = [execution EXCEPT ![t] = next]
    BY <1>3 DEF EmptyRun
  <2>2. /\ next \in Execution /\ next.chunks = <<>> /\ ~next.changed
        /\ RunSafe(next) /\ RunWhole(next, copies)
    BY EmptyRunSafe
  <2>3. /\ batches' \in [total : Nat, completed : Nat, failed : Nat, records : Nat]
        /\ batches'.total = batches'.completed + batches'.failed
    <3>1. /\ batches \in [total : Nat, completed : Nat, failed : Nat, records : Nat]
          /\ batches.total = batches.completed + batches.failed
      BY DEF BatchInv, BatchTypes
    <3>2. CASE batch.mode = "batch"
      <4>1. batches' = [batches EXCEPT !.total = @ + 1, !.failed = @ + 1]
        BY <1>3, <3>2
      <4>2. batches.total \in Nat /\ batches.completed \in Nat /\ batches.failed \in Nat
        BY <3>1
      <4>3. batches.total + 1 \in Nat /\ batches.failed + 1 \in Nat
        BY <4>2
      <4>4. /\ batches' \in [total : Nat, completed : Nat, failed : Nat, records : Nat]
            /\ batches'.total = batches.total + 1 /\ batches'.failed = batches.failed + 1
            /\ batches'.completed = batches.completed
        BY <3>1, <4>1, <4>3
      <4> QED
        BY ONLY <3>1, <4>4, <4>2
    <3>3. CASE batch.mode # "batch"
      BY <1>3, <3>1, <3>3
    <3> QED
      BY <3>2, <3>3
  <2>4. \A c \in DOMAIN next.chunks : next.chunks[c].pc = "waiting"
    BY <2>2
  <2> HIDE DEF next
  <2> QED
    BY <1>1, <2>1, <2>2, <2>3, <2>4, RunBegins
<1> QED
  BY <1>2, <1>3 DEF BatchExecute

(****************************************************************************)
(* Building.                                                                *)
(****************************************************************************)

LEMMA ItemsAre ==
    ASSUME NEW ops \in Seq(Operation)
    PROVE  /\ Items(ops) \in Seq(Record)
           /\ \A i \in DOMAIN ops : Range(ops[i].data) \subseteq Range(Items(ops))
           /\ ops = <<>> => Items(ops) = <<>>
           /\ Len(ops) = 1 => Items(ops) = ops[1].data
<1> DEFINE ss == [i \in DOMAIN ops |-> ops[i].data]
<1>1. /\ DOMAIN ops = 1..Len(ops) /\ Len(ops) \in Nat
      /\ \A i \in DOMAIN ops : ops[i].data \in Seq(Record)
  BY OperationTypes
<1>2. ss \in Seq(Seq(Record)) /\ DOMAIN ss = DOMAIN ops
      /\ \A i \in DOMAIN ops : ss[i] = ops[i].data
  <2>1. ss \in [1..Len(ops) -> Seq(Record)]
    BY <1>1
  <2> QED
    BY <1>1, <2>1
<1>3. Items(ops) = Joined(ss)
  BY DEF Items
<1>4. ops = <<>> => ss = <<>>
  BY <1>2
<1>5. ASSUME Len(ops) = 1
      PROVE  ss = <<ops[1].data>> /\ ops[1].data \in Seq(Record)
  <2>1. 1 \in DOMAIN ops
    BY <1>5
  <2>2. ops[1].data \in Seq(Record) /\ ss[1] = ops[1].data /\ DOMAIN ss = 1..1
    BY <1>1, <1>2, <1>5, <2>1
  <2>3. Len(ss) = 1
    BY <1>2, <2>2
  <2> HIDE DEF ss
  <2> QED
    BY <1>2, <2>2, <2>3
<1> HIDE DEF ss
<1>6. Joined(ss) \in Seq(Record)
  BY <1>2, JoinedPlaces
<1>7. \A i \in DOMAIN ss : Range(ss[i]) \subseteq Range(Joined(ss))
  BY <1>2, JoinedRange
<1>8. Joined(<<>>) = <<>> /\ \A s \in Seq(Record) : Joined(<<s>>) = s
  BY JoinedFew
<1> QED
  BY <1>2, <1>3, <1>4, <1>5, <1>6, <1>7, <1>8

\* Lists without repetitions and apart, one after the other.
LEMMA InjectiveConcat ==
    ASSUME NEW S, NEW s \in Seq(S), NEW u \in Seq(S), IsInjective(s), IsInjective(u),
           Range(s) \cap Range(u) = {}
    PROVE  s \o u \in Seq(S) /\ IsInjective(s \o u)
<1> DEFINE v == s \o u
           m == Len(s)
           k == Len(u)
<1>1. /\ m \in Nat /\ k \in Nat /\ DOMAIN s = 1..m /\ DOMAIN u = 1..k
  OBVIOUS
<1>2. /\ v \in Seq(S) /\ Len(v) = m + k
      /\ \A c \in 1..(m + k) : v[c] = IF c <= m THEN s[c] ELSE u[c - m]
  BY ConcatProperties
<1> HIDE DEF v, m, k
<1>3. DOMAIN v = 1..(m + k)
  BY <1>2
<1>4. ASSUME NEW c \in 1..(m + k)
      PROVE  /\ c <= m => c \in DOMAIN s /\ v[c] = s[c] /\ v[c] \in Range(s)
             /\ ~(c <= m) => c - m \in DOMAIN u /\ v[c] = u[c - m] /\ v[c] \in Range(u)
  <2>1. CASE c <= m
    <3>1. c \in 1..m
      BY <1>1, <2>1
    <3> QED
      BY <1>1, <1>2, <2>1, <3>1 DEF Range
  <2>2. CASE ~(c <= m)
    <3>1. c - m \in 1..k
      BY <1>1, <2>2
    <3> QED
      BY <1>1, <1>2, <2>2, <3>1 DEF Range
  <2> QED
    BY <2>1, <2>2
<1>5. ASSUME NEW c \in 1..(m + k), NEW d \in 1..(m + k), v[c] = v[d]
      PROVE  c = d
  <2>1. CASE c <= m /\ d <= m
    <3>1. s[c] = s[d] /\ c \in DOMAIN s /\ d \in DOMAIN s
      BY <1>4, <1>5, <2>1
    <3> QED
      BY <3>1 DEF IsInjective
  <2>2. CASE ~(c <= m) /\ ~(d <= m)
    <3>1. u[c - m] = u[d - m] /\ c - m \in DOMAIN u /\ d - m \in DOMAIN u
      BY <1>4, <1>5, <2>2
    <3>2. c - m = d - m
      BY <3>1 DEF IsInjective
    <3> QED
      BY <1>1, <3>2
  <2>3. CASE c <= m /\ ~(d <= m)
    BY <1>4, <1>5, <2>3
  <2>4. CASE ~(c <= m) /\ d <= m
    BY <1>4, <1>5, <2>4
  <2> QED
    BY <2>1, <2>2, <2>3, <2>4
<1> QED
  BY <1>2, <1>3, <1>5 DEF IsInjective, v

\* The data of a chunk is changed under it.
LEMMA DataChanges ==
    ASSUME NEW run \in Execution, RunSafe(run), NEW data \in Seq(Record),
           run.chunks # <<>>, run.chunks[1].pc # "done"
    PROVE  LET next == Changed(run, data)
           IN  /\ next \in Execution /\ next.changed /\ next.pc = run.pc
               /\ RunSafe(next)
<1> DEFINE old == run.chunks[1]
           new == [old EXCEPT !.data = data]
           chunks == [run.chunks EXCEPT ![1] = new]
           next == [run EXCEPT !.chunks = chunks, !.changed = TRUE]
<1>1. /\ run.chunks \in Seq(Chunk) /\ 1 \in DOMAIN run.chunks
      /\ DOMAIN run.chunks = 1..Len(run.chunks)
      /\ \A d \in DOMAIN run.chunks : run.chunks[d] \in Chunk
  BY RunTypes
<1>a. old \in Chunk
  BY <1>1
<1>b. new \in Chunk
  BY <1>a DEF Chunk
<1>c. /\ new.pc = old.pc /\ new.outcome = old.outcome
      /\ new.priority = old.priority /\ new.data = data /\ new.size = old.size
  BY <1>a DEF Chunk
<1>2. /\ new \in Chunk /\ new.pc = old.pc /\ new.outcome = old.outcome
      /\ new.priority = old.priority /\ new.data = data /\ new.size = old.size
  BY <1>b, <1>c
<1> HIDE DEF new
<1>3. /\ chunks \in Seq(Chunk) /\ DOMAIN chunks = DOMAIN run.chunks
      /\ \A d \in DOMAIN run.chunks : chunks[d] = IF d = 1 THEN new ELSE run.chunks[d]
  BY <1>1, <1>2
<1> HIDE DEF chunks
<1>4. Changed(run, data) = next
  BY DEF new, chunks, Changed
<1>5. next \in Execution
  BY <1>3 DEF Execution
<1>6. /\ next.chunks = chunks /\ next.changed = TRUE /\ next.pc = run.pc
      /\ next.finished = run.finished /\ next.completed = run.completed
      /\ next.failed = run.failed /\ next.processed = run.processed
  BY DEF Execution
<1> HIDE DEF next
<1>7. \A d \in DOMAIN run.chunks : /\ chunks[d].pc = run.chunks[d].pc
                                   /\ chunks[d].outcome = run.chunks[d].outcome
                                   /\ chunks[d].priority = run.chunks[d].priority
                                   /\ d # 1 => chunks[d] = run.chunks[d]
  BY <1>2, <1>3
<1>8. /\ run.pc \notin {"idle", "returned", "raised"}
      /\ \A d \in run.finished : d \in DOMAIN run.chunks /\ run.chunks[d].pc = "done"
      /\ \A d \in DOMAIN run.chunks : Ends(run.chunks[d])
      /\ InOrder(run.chunks)
      /\ Cardinality(AtWork(run.chunks)) <= MaxConcurrency
      /\ CountsFit(run)
  BY <1>1 DEF RunSafe
<1>9. old.outcome = "none"
  BY <1>1, <1>8 DEF Ends
<1>10. \A d \in DOMAIN chunks : Ends(chunks[d])
  BY <1>2, <1>3, <1>7, <1>8 DEF Ends
<1>11. InOrder(chunks)
  BY <1>3, <1>7, <1>8 DEF InOrder
<1>12. AtWork(chunks) = AtWork(run.chunks)
  BY <1>3, <1>7 DEF AtWork
<1>13. CountsFit(next)
  <2>1. \A outcomes : Results(next, outcomes) = Results(run, outcomes)
    BY <1>3, <1>6, <1>7 DEF Results
  <2>2. Reported(next) = Reported(run)
    <3>1. ASSUME NEW d \in DOMAIN run.chunks
          PROVE  (IF chunks[d].outcome = "success" /\ d \notin next.finished
                  THEN Len(chunks[d].data) ELSE 0)
                 = IF run.chunks[d].outcome = "success" /\ d \notin run.finished
                   THEN Len(run.chunks[d].data) ELSE 0
      BY <1>6, <1>7, <1>9
    <3> QED
      BY <1>3, <1>6, <3>1 DEF Reported
  <2> QED
    BY <1>6, <1>8, <2>1, <2>2 DEF CountsFit
<1>14. RunSafe(next)
  BY <1>3, <1>6, <1>7, <1>8, <1>10, <1>11, <1>12, <1>13 DEF RunSafe
<1> QED
  BY <1>4, <1>5, <1>6, <1>14

LEMMA SharedKeeps ==
    ASSUME BatchInv, NEW data \in Seq(Record), execution' = Shared(data),
           UNCHANGED copies
    PROVE  /\ execution' \in [Task -> Execution]
           /\ \A u \in Task : RunSafe(execution'[u]) /\ RunWhole(execution'[u], copies')
           /\ CopiesFit'
           /\ \A u \in Task : execution'[u].pc = execution[u].pc
<1>1. /\ execution \in [Task -> Execution] /\ copies \in [Record -> Nat]
      /\ \A u \in Task : RunSafe(execution[u]) /\ RunWhole(execution[u], copies)
      /\ CopiesFit
  BY Zenon DEF BatchInv, BatchTypes
<1>2. ASSUME NEW u \in Task
      PROVE  /\ execution'[u] \in Execution /\ RunSafe(execution'[u])
             /\ execution'[u].pc = execution[u].pc
             /\ execution'[u] = execution[u] \/ execution'[u].changed
  <2> DEFINE run == execution[u]
  <2>1. run \in Execution /\ RunSafe(run)
    BY <1>1
  <2>2. execution'[u] = IF \/ run.chunks = <<>>
                           \/ ~run.chunks[1].whole
                           \/ run.chunks[1].pc = "done"
                        THEN run
                        ELSE Changed(run, data)
    BY DEF Shared
  <2> HIDE DEF run
  <2>3. CASE execution'[u] = run
    BY <2>1, <2>3 DEF run
  <2>4. CASE /\ run.chunks # <<>> /\ run.chunks[1].pc # "done"
             /\ execution'[u] = Changed(run, data)
    <3>1. /\ execution'[u] \in Execution /\ execution'[u].changed /\ execution'[u].pc = run.pc
          /\ RunSafe(execution'[u])
      BY <2>1, <2>4, DataChanges
    <3> QED
      BY <3>1 DEF run
  <2> QED
    BY <2>2, <2>3, <2>4
<1>3. execution' \in [Task -> Execution]
  <2>1. execution' = [u \in Task |-> execution'[u]]
    BY DEF Shared
  <2> QED
    BY <1>2, <2>1
<1>4. ASSUME NEW u \in Task
      PROVE  RunWhole(execution'[u], copies')
  <2>1. CASE execution'[u] = execution[u]
    BY <1>1, <2>1
  <2>2. CASE execution'[u].changed
    BY <2>2 DEF RunWhole
  <2> QED
    BY <1>2, <2>1, <2>2
<1>5. CopiesFit'
  <2>1. CASE \E u \in Task : execution'[u].changed
    BY <2>1 DEF CopiesFit
  <2>2. CASE \A u \in Task : execution'[u] = execution[u]
    <3>1. execution' = execution
      BY <1>1, <1>3, <2>2
    <3> QED
      BY <1>1, <3>1 DEF CopiesFit
  <2> QED
    BY <1>2, <2>1, <2>2
<1> QED
  BY <1>2, <1>3, <1>4, <1>5

\* What is left when the operations alone, or an execution's data too, change.
LEMMA BuildingKeeps ==
    ASSUME BatchInv, NEW ops \in Seq(Operation),
           batch' = [batch EXCEPT !.operations = ops],
           OperationsFit', UNCHANGED <<batches, unnamed, copies>>,
           \/ UNCHANGED execution
           \/ \E data \in Seq(Record) : execution' = Shared(data)
    PROVE  BatchInv'
<1>1. /\ batch' \in [mode : {"batch", "context"} \cup Collectors,
                     operations : Seq(Operation), executed : BOOLEAN,
                     active : BOOLEAN, extent : [items : Nat, calls : Nat]]
      /\ batch'.executed = batch.executed
  BY DEF BatchInv, BatchTypes
<1>2. /\ batches \in [total : Nat, completed : Nat, failed : Nat, records : Nat]
      /\ unnamed \in SUBSET Record /\ copies \in [Record -> Nat]
      /\ execution \in [Task -> Execution]
      /\ batches.total = batches.completed + batches.failed
      /\ batch.executed => \E t \in Task : execution[t].pc = "returned"
      /\ \A t \in Task : RunSafe(execution[t]) /\ RunWhole(execution[t], copies)
      /\ CopiesFit
  BY DEF BatchInv, BatchTypes
<1>3. /\ execution' \in [Task -> Execution]
      /\ \A u \in Task : RunSafe(execution'[u]) /\ RunWhole(execution'[u], copies')
      /\ CopiesFit'
      /\ \A u \in Task : execution'[u].pc = execution[u].pc
  <2>1. CASE UNCHANGED execution
    BY <1>2, <2>1 DEF CopiesFit
  <2>2. CASE \E data \in Seq(Record) : execution' = Shared(data)
    BY <2>2, SharedKeeps
  <2> QED
    BY <2>1, <2>2
<1>4. BatchTypes'
  BY <1>1, <1>2, <1>3 DEF BatchTypes
<1>5. batches'.total = batches'.completed + batches'.failed
  BY <1>2
<1>6. batch'.executed => \E t \in Task : execution'[t].pc = "returned"
  BY <1>1, <1>2, <1>3
<1> QED
  BY <1>3, <1>4, <1>5, <1>6 DEF BatchInv

LEMMA FreshFacts ==
    ASSUME BatchInv, NEW op \in Operations, Fresh(op)
    PROVE  /\ op \in Operation /\ op.data \in Seq(Record) /\ IsInjective(op.data)
           /\ Items(batch.operations) \in Seq(Record)
           /\ Range(Items(batch.operations)) \cap Range(op.data) = {}
           /\ \A i \in DOMAIN batch.operations :
                 Range(batch.operations[i].data) \cap Range(op.data) = {}
<1>1. op \in Operation /\ op.data \in Seq(Record) /\ IsInjective(op.data)
  BY BatchAssumption DEF Operation
<1>2. batch.operations \in Seq(Operation)
  BY DEF BatchInv, BatchTypes
<1>3. /\ Items(batch.operations) \in Seq(Record)
      /\ \A i \in DOMAIN batch.operations :
            Range(batch.operations[i].data) \subseteq Range(Items(batch.operations))
  BY <1>2, ItemsAre
<1>4. Range(Items(batch.operations)) \cap Range(op.data) = {}
  BY DEF Fresh
<1> QED
  BY <1>1, <1>3, <1>4

\* An operation more, of items that no other has.
LEMMA AppendKeeps ==
    ASSUME BatchInv, NEW op \in Operation, IsInjective(op.data),
           \A i \in DOMAIN batch.operations :
              Range(batch.operations[i].data) \cap Range(op.data) = {},
           ~Collecting, batch.mode # "batch" => op.priority = 0,
           batch' = [batch EXCEPT !.operations = Append(@, op)],
           UNCHANGED <<batches, execution, unnamed, copies>>
    PROVE  BatchInv'
<1> DEFINE old == batch.operations
           ops == Append(old, op)
<1>1. old \in Seq(Operation) /\ OperationsFit
  BY DEF BatchInv, BatchTypes
<1>2. /\ ops \in Seq(Operation) /\ DOMAIN ops = 1..(Len(old) + 1)
      /\ DOMAIN old = 1..Len(old) /\ Len(old) \in Nat
      /\ \A i \in DOMAIN ops : ops[i] = IF i = Len(old) + 1 THEN op ELSE old[i]
  BY <1>1, AppendProperties
<1>3. batch' = [batch EXCEPT !.operations = ops]
  OBVIOUS
<1>4. batch'.mode = batch.mode /\ batch'.operations = ops
  BY <1>3 DEF BatchInv, BatchTypes
<1> HIDE DEF ops
<1>5. ~Collecting'
  BY <1>4 DEF Collecting
<1>6. \A i \in DOMAIN ops : i # Len(old) + 1 => i \in DOMAIN old
  BY <1>2
<1>7. /\ \A i \in DOMAIN old : IsInjective(old[i].data)
      /\ \A i, j \in DOMAIN old : i # j => Range(old[i].data) \cap Range(old[j].data) = {}
      /\ batch.mode # "batch" => \A i \in DOMAIN old : old[i].priority = 0
  BY <1>1 DEF OperationsFit
<1>8. \A i \in DOMAIN ops : IsInjective(ops[i].data)
  BY <1>2, <1>6, <1>7
<1>9. batch.mode # "batch" => \A i \in DOMAIN ops : ops[i].priority = 0
  BY <1>2, <1>6, <1>7
<1>10. ASSUME NEW i \in DOMAIN ops, NEW j \in DOMAIN ops, i # j
       PROVE  Range(ops[i].data) \cap Range(ops[j].data) = {}
  <2>1. CASE i # Len(old) + 1 /\ j # Len(old) + 1
    BY <1>2, <1>6, <1>7, <1>10, <2>1
  <2>2. CASE i = Len(old) + 1 /\ j # Len(old) + 1
    BY <1>2, <1>6, <2>2
  <2>3. CASE i # Len(old) + 1 /\ j = Len(old) + 1
    BY <1>2, <1>6, <2>3
  <2> QED
    BY <1>10, <2>1, <2>2, <2>3
<1>11. OperationsFit'
  BY <1>4, <1>5, <1>8, <1>9, <1>10 DEF OperationsFit
<1> QED
  BY <1>2, <1>3, <1>11, BuildingKeeps

LEMMA BatchAddKeeps ==
    ASSUME BatchInv, NEW op \in Operations, BatchAdd(op)
    PROVE  BatchInv'
<1>1. /\ batch.mode = "batch" /\ Fresh(op)
      /\ batch' = [batch EXCEPT !.operations = Append(@, op)]
      /\ UNCHANGED <<batches, execution, unnamed, copies>>
  BY DEF BatchAdd
<1>2. ~Collecting
  BY <1>1 DEF Collecting, Collectors
<1>3. /\ op \in Operation /\ IsInjective(op.data)
      /\ \A i \in DOMAIN batch.operations :
            Range(batch.operations[i].data) \cap Range(op.data) = {}
  BY <1>1, FreshFacts
<1> QED
  BY <1>1, <1>2, <1>3, AppendKeeps

LEMMA ContextAddKeeps ==
    ASSUME BatchInv, NEW op \in Operations, ContextAdd(op)
    PROVE  BatchInv'
<1> DEFINE added == [op EXCEPT !.priority = 0]
<1>1. /\ batch.mode = "context" /\ Fresh(op)
      /\ batch' = [batch EXCEPT !.operations = Append(@, added)]
      /\ UNCHANGED <<batches, execution, unnamed, copies>>
  BY DEF ContextAdd
<1>2. ~Collecting
  BY <1>1 DEF Collecting, Collectors
<1>3. /\ op \in Operation /\ IsInjective(op.data)
      /\ \A i \in DOMAIN batch.operations :
            Range(batch.operations[i].data) \cap Range(op.data) = {}
  BY <1>1, FreshFacts
<1>4. added \in Operation /\ added.data = op.data /\ added.priority = 0
  BY <1>3 DEF Operation
<1> HIDE DEF added
<1> QED
  BY <1>1, <1>2, <1>3, <1>4, AppendKeeps

LEMMA CollectorAddKeeps ==
    ASSUME BatchInv, NEW op \in Operations, CollectorAdd(op)
    PROVE  BatchInv'
<1> DEFINE data == Items(batch.operations) \o op.data
           added == [op EXCEPT !.priority = 0, !.data = data]
<1>1. /\ batch.mode = op.kind /\ Fresh(op)
      /\ batch' = [batch EXCEPT !.operations = <<added>>]
      /\ execution' = Shared(data)
      /\ UNCHANGED <<batches, unnamed, copies>>
  BY DEF CollectorAdd
<1>2. /\ op \in Operation /\ op.data \in Seq(Record) /\ IsInjective(op.data)
      /\ Items(batch.operations) \in Seq(Record)
      /\ Range(Items(batch.operations)) \cap Range(op.data) = {}
  BY <1>1, FreshFacts
<1>3. Collecting
  <2>1. op.kind \notin {"batch", "context"}
    BY <1>2 DEF Operation
  <2> QED
    BY <1>1, <2>1 DEF BatchInv, BatchTypes, Collecting
<1>4. batch.operations \in Seq(Operation) /\ OperationsFit
  BY DEF BatchInv, BatchTypes
<1>5. IsInjective(Items(batch.operations))
  <2>1. Len(batch.operations) = 0 \/ Len(batch.operations) = 1
    <3>1. Len(batch.operations) \in Nat
      BY <1>4
    <3>2. Len(batch.operations) <= 1
      BY <1>3, OperationsOf
    <3>3. PICK n \in Nat : n = Len(batch.operations)
      BY <3>1
    <3>4. n <= 1
      BY <3>2, <3>3
    <3>5. n = 0 \/ n = 1
      BY ONLY <3>4, n \in Nat
    <3> QED
      BY <3>3, <3>5
  <2>2. CASE Len(batch.operations) = 0
    <3>1. Items(batch.operations) = <<>>
      BY <1>4, <2>2, ItemsAre
    <3> QED
      BY <3>1 DEF IsInjective
  <2>3. CASE Len(batch.operations) = 1
    <3>1. Items(batch.operations) = batch.operations[1].data
      BY <1>4, <2>3, ItemsAre
    <3>2. 1 \in DOMAIN batch.operations
      BY <1>4, <2>3
    <3> QED
      BY <1>4, <3>1, <3>2 DEF OperationsFit
  <2> QED
    BY <2>1, <2>2, <2>3
<1>6. data \in Seq(Record) /\ IsInjective(data)
  BY <1>2, <1>5, InjectiveConcat
<1> HIDE DEF data
<1>7. added \in Operation /\ added.data = data /\ added.priority = 0
  BY <1>2, <1>6 DEF Operation
<1> HIDE DEF added
<1>8. /\ <<added>> \in Seq(Operation) /\ Len(<<added>>) = 1
      /\ DOMAIN <<added>> = {1} /\ <<added>>[1] = added
  BY <1>7
<1>9. batch'.operations = <<added>> /\ batch'.mode = batch.mode
  BY <1>1 DEF BatchInv, BatchTypes
<1>10. OperationsFit'
  BY <1>6, <1>7, <1>8, <1>9 DEF OperationsFit
<1> QED
  BY <1>1, <1>6, <1>8, <1>10, BuildingKeeps

LEMMA BatchClearKeeps ==
    ASSUME BatchInv, BatchClear
    PROVE  BatchInv'
<1>1. /\ batch' = [batch EXCEPT !.operations = <<>>]
      /\ execution' = Shared(<<>>) \/ execution' = execution
      /\ UNCHANGED <<batches, unnamed, copies>>
  BY DEF BatchClear
<1>2. <<>> \in Seq(Operation) /\ <<>> \in Seq(Record)
  OBVIOUS
<1>3. batch'.operations = <<>>
  BY <1>1 DEF BatchInv, BatchTypes
<1>4. OperationsFit'
  BY <1>3 DEF OperationsFit
<1> QED
  BY <1>1, <1>2, <1>4, BuildingKeeps

(****************************************************************************)
(* The theorem.                                                             *)
(****************************************************************************)

LEMMA BatchInvInit ==
    ASSUME BatchInit
    PROVE  BatchInv
<1> DEFINE run == EmptyRun("idle")
<1>1. /\ batch \in EmptyBatches /\ batches = NoneCounted
      /\ execution = [t \in Task |-> NoExecution]
      /\ unnamed = {} /\ copies = [r \in Record |-> 0]
  BY DEF BatchInit
<1>2. NoExecution = run
  BY DEF NoExecution, EmptyRun
<1>3. /\ run \in Execution /\ run.chunks = <<>> /\ ~run.changed
      /\ RunSafe(run) /\ RunWhole(run, copies)
  BY EmptyRunSafe
<1> HIDE DEF run
<1>4. /\ execution \in [Task -> Execution]
      /\ \A t \in Task : execution[t] = run
  BY <1>1, <1>2, <1>3
<1>5. /\ batch \in [mode : {"batch", "context"} \cup Collectors,
                    operations : Seq(Operation), executed : BOOLEAN,
                    active : BOOLEAN, extent : [items : Nat, calls : Nat]]
      /\ batch.operations = <<>> /\ batch.executed = FALSE
  <2>1. Extents \subseteq [items : Nat, calls : Nat]
    BY BatchAssumption
  <2>2. {<<>>} \subseteq Seq(Operation) /\ {FALSE} \subseteq BOOLEAN /\ {TRUE} \subseteq BOOLEAN
    OBVIOUS
  <2> QED
    BY <1>1, <2>1, <2>2 DEF EmptyBatches
<1>6. BatchTypes
  BY <1>1, <1>4, <1>5 DEF BatchTypes, NoneCounted
<1>7. OperationsFit
  BY <1>5 DEF OperationsFit
<1>8. batches.total = batches.completed + batches.failed
  BY <1>1 DEF NoneCounted
<1>9. CopiesFit
  <2>1. \A r \in Record : Bulked(execution, r) = {} /\ Singled(execution, r) = {}
    BY <1>3, <1>4 DEF Bulked, Singled
  <2>2. Cardinality({}) = 0
    BY FS_EmptySet
  <2>3. \A r \in Record : copies[r] = 0
    BY <1>1
  <2>4. \A r \in Record : copies[r] <= Cardinality(Bulked(execution, r))
                                         + Cardinality(Singled(execution, r))
    BY <2>1, <2>2, <2>3
  <2> QED
    BY <2>4 DEF CopiesFit
<1> QED
  BY <1>3, <1>4, <1>5, <1>6, <1>7, <1>8, <1>9 DEF BatchInv

LEMMA BatchInvNext ==
    ASSUME BatchInv, [BatchNext]_<<now, batchVars>>
    PROVE  BatchInv'
<1>1. ASSUME NEW op \in Operations, BatchAdd(op) PROVE BatchInv'
  BY <1>1, BatchAddKeeps
<1>2. ASSUME NEW op \in Operations, ContextAdd(op) PROVE BatchInv'
  BY <1>2, ContextAddKeeps
<1>3. ASSUME NEW op \in Operations, CollectorAdd(op) PROVE BatchInv'
  BY <1>3, CollectorAddKeeps
<1>4. CASE BatchClear
  BY <1>4, BatchClearKeeps
<1>5. ASSUME NEW t \in Task, BatchExecute(t) PROVE BatchInv'
  BY <1>5, BatchExecuteKeeps
<1>6. ASSUME NEW t \in Task, ContextExecutes(t) PROVE BatchInv'
  BY <1>6, ContextExecutesKeeps
<1>7. ASSUME NEW t \in Task, NEW c \in DOMAIN execution[t].chunks, ChunkStarts(t, c)
      PROVE  BatchInv'
  BY <1>7, ChunkStartsKeeps
<1>8. ASSUME NEW t \in Task, NEW c \in DOMAIN execution[t].chunks,
             NEW done \in BOOLEAN, NEW ok \in BOOLEAN, BulkAnswers(t, c, done, ok)
      PROVE  BatchInv'
  BY <1>8, BulkAnswersKeeps
<1>9. ASSUME NEW t \in Task, NEW c \in DOMAIN execution[t].chunks,
             NEW done \in BOOLEAN, NEW ok \in BOOLEAN, SingleAnswers(t, c, done, ok)
      PROVE  BatchInv'
  BY <1>9, SingleAnswersKeeps
<1>10. ASSUME NEW t \in Task, NEW c \in DOMAIN execution[t].chunks,
              NEW done \in BOOLEAN, ChunkTimesOut(t, c, done)
       PROVE  BatchInv'
  BY <1>10, ChunkTimesOutKeeps
<1>11. ASSUME NEW t \in Task, NEW c \in execution[t].finished,
              NEW raises \in BOOLEAN, ResultAwaited(t, c, raises)
       PROVE  BatchInv'
  BY <1>11, ResultAwaitedKeeps
<1>12. ASSUME NEW t \in Task, BatchCancelled(t) PROVE BatchInv'
  BY <1>12, BatchCancelledKeeps
<1>13. CASE UNCHANGED <<now, batchVars>>
  BY <1>13 DEF batchVars, BatchInv, BatchTypes, OperationsFit, CopiesFit, Collecting
<1>14. CASE BatchNext
  BY <1>14, <1>1, <1>2, <1>3, <1>4, <1>5, <1>6, <1>7, <1>8, <1>9, <1>10, <1>11, <1>12
     DEF BatchNext
<1> QED
  BY <1>13, <1>14

\* A finished execution has awaited all its results.
LEMMA WholeAccounted ==
    ASSUME NEW run \in Execution, RunSafe(run), Whole(run)
    PROVE  LET with(o) == {c \in DOMAIN run.chunks : run.chunks[c].outcome = o}
           IN  /\ \A c \in DOMAIN run.chunks : run.chunks[c].pc = "done"
               /\ run.completed = Cardinality(with("success"))
               /\ run.failed >= Cardinality(with("failure") \cup with("timeout"))
               /\ run.processed = Total([c \in DOMAIN run.chunks |->
                     IF c \in with("success") THEN Len(run.chunks[c].data) ELSE 0])
<1> DEFINE with(o) == {c \in DOMAIN run.chunks : run.chunks[c].outcome = o}
<1>1. run.pc \in {"returned", "raised"}
  BY DEF Whole
<1>2. /\ run.finished = {}
      /\ \A c \in DOMAIN run.chunks : run.chunks[c].pc = "done"
      /\ CountsFit(run)
  BY <1>1 DEF RunSafe
<1>3. Results(run, {"success"}) = with("success")
  BY <1>2 DEF Results
<1>4. Results(run, {"failure", "timeout"}) = with("failure") \cup with("timeout")
  BY <1>2 DEF Results
<1>5. Reported(run) = [c \in DOMAIN run.chunks |->
                         IF c \in with("success") THEN Len(run.chunks[c].data) ELSE 0]
  BY <1>2 DEF Reported
<1>6. /\ run.completed = Cardinality(Results(run, {"success"}))
      /\ run.failed >= Cardinality(Results(run, {"failure", "timeout"}))
      /\ run.processed = Total(Reported(run))
  BY <1>1, <1>2 DEF CountsFit
<1> QED
  BY <1>2, <1>3, <1>4, <1>5, <1>6

\* After an execution without a failure every record to create was made.
LEMMA WholeMakes ==
    ASSUME NEW run \in Execution, NEW have, RunSafe(run), RunWhole(run, have),
           Whole(run), run.failed = 0, ~run.changed,
           NEW c \in DOMAIN run.chunks, run.chunks[c].kind = "create",
           NEW r \in Range(run.chunks[c].data)
    PROVE  have[r] > 0 \/ r \in run.chunks[c].missed
<1> DEFINE chunk == run.chunks[c]
           lost == Results(run, {"failure", "timeout"})
<1>1. chunk \in Chunk
  BY RunTypes
<1>2. run.pc \in {"returned", "raised"}
  BY DEF Whole
<1>3. /\ run.finished = {} /\ chunk.pc = "done" /\ Ends(chunk) /\ CountsFit(run)
  BY <1>2 DEF RunSafe
<1>4. run.failed >= Cardinality(lost)
  BY <1>2, <1>3 DEF CountsFit
<1>5. IsFiniteSet(lost) /\ Cardinality(lost) \in Nat
  BY ResultsFinite
<1>6. Cardinality(lost) = 0
  BY <1>4, <1>5
<1>7. lost = {}
  BY <1>5, <1>6, FS_EmptySet
<1>8. chunk.outcome = "success"
  <2>1. c \notin lost
    BY <1>7
  <2>2. chunk.outcome \in {"none", "success", "failure", "timeout"}
    BY <1>1, ChunkTypes
  <2>3. chunk.outcome # "none"
    BY <1>3 DEF Ends
  <2>4. chunk.outcome \notin {"failure", "timeout"}
    BY <1>3, <2>1 DEF Results
  <2> QED
    BY <2>2, <2>3, <2>4
<1>9. CallsFit(chunk, have)
  BY DEF RunWhole
<1>10. PICK i \in DOMAIN chunk.data : chunk.data[i] = r
  BY DEF Range
<1>11. Made(chunk.data[i], chunk, have)
  BY <1>8, <1>9, <1>10 DEF CallsFit
<1> QED
  BY <1>10, <1>11 DEF Made

\* Each execution counts for a bulk call and for an own call of a record.
LEMMA CopiesFew ==
    ASSUME BatchInv, NEW r \in Record, \A t \in Task : ~execution[t].changed
    PROVE  copies[r] <= 2 * Quantify(Task, LAMBDA t : execution[t].chunks # <<>>)
<1> DEFINE having == {t \in Task : execution[t].chunks # <<>>}
<1>1. IsFiniteSet(having)
  <2>1. IsFiniteSet(Task)
    BY TaskAssumption
  <2> QED
    BY <2>1, FewerOf
<1>2. Quantify(Task, LAMBDA t : execution[t].chunks # <<>>) = Cardinality(having)
  BY DEF Quantify
<1>3. \A t \in Task : execution[t].chunks \in Seq(Chunk)
  BY RunTypes DEF BatchInv, BatchTypes
<1>4. /\ Bulked(execution, r) \in SUBSET having
      /\ Singled(execution, r) \in SUBSET having
  BY <1>3 DEF Bulked, Singled
<1>5. /\ Cardinality(having) \in Nat
      /\ Cardinality(Bulked(execution, r)) \in Nat
      /\ Cardinality(Bulked(execution, r)) <= Cardinality(having)
      /\ Cardinality(Singled(execution, r)) \in Nat
      /\ Cardinality(Singled(execution, r)) <= Cardinality(having)
  BY <1>1, <1>4, FewerOf, FS_CardinalityType
<1>6. copies[r] <= Cardinality(Bulked(execution, r)) + Cardinality(Singled(execution, r))
  BY DEF BatchInv, CopiesFit
<1>7. copies[r] \in Nat
  BY DEF BatchInv, BatchTypes
<1> QED
  BY <1>2, <1>5, <1>6, <1>7

LEMMA BatchInvCorrect ==
    ASSUME BatchInv
    PROVE  BatchCorrect
<1>1. /\ BatchTypes /\ execution \in [Task -> Execution]
      /\ batches.total = batches.completed + batches.failed
      /\ batch.executed => \E t \in Task : execution[t].pc = "returned"
      /\ \A t \in Task : /\ execution[t] \in Execution /\ RunSafe(execution[t])
                         /\ RunWhole(execution[t], copies)
  BY DEF BatchInv, BatchTypes
<1>2. BatchTypeOK
  BY <1>1 DEF BatchTypes, BatchTypeOK
<1>3. BatchAccounted
  BY <1>1, WholeAccounted DEF BatchAccounted
<1>4. BatchOrderly
  <2> SUFFICES ASSUME NEW t \in Task
               PROVE  LET chunks == execution[t].chunks
                      IN  /\ Quantify(DOMAIN chunks, LAMBDA c : chunks[c].pc \in Busy)
                               <= MaxConcurrency
                          /\ \A c, d \in DOMAIN chunks :
                                /\ chunks[c].pc # "waiting"
                                /\ chunks[c].priority < chunks[d].priority
                                => chunks[d].pc # "waiting"
    BY DEF BatchOrderly
  <2> DEFINE chunks == execution[t].chunks
  <2>1. /\ Cardinality(AtWork(chunks)) <= MaxConcurrency /\ InOrder(chunks)
    BY <1>1 DEF RunSafe
  <2>2. Quantify(DOMAIN chunks, LAMBDA c : chunks[c].pc \in Busy) = Cardinality(AtWork(chunks))
    BY DEF Quantify, AtWork
  <2>3. /\ DOMAIN chunks = 1..Len(chunks) /\ Len(chunks) \in Nat
        /\ \A c \in DOMAIN chunks : chunks[c].priority \in Nat
    BY <1>1, RunTypes, ChunkTypes
  <2>4. ASSUME NEW c \in DOMAIN chunks, NEW d \in DOMAIN chunks,
               chunks[c].pc # "waiting", chunks[c].priority < chunks[d].priority
        PROVE  chunks[d].pc # "waiting"
    <3>1. chunks[c].priority \in Nat /\ chunks[d].priority \in Nat /\ c \in Nat /\ d \in Nat
      BY <2>3
    <3>2. ~(c < d)
      BY <2>1, <2>4, <3>1 DEF InOrder
    <3>3. c = d \/ d < c
      BY <3>1, <3>2
    <3> QED
      BY <2>1, <2>4, <3>3 DEF InOrder
  <2> QED
    BY <2>1, <2>2, <2>4
<1>5. BatchCreates
  <2>1. SlicesWhole
    BY SlicesAreWhole
  <2>2. \/ \E t \in Task : execution[t].changed
        \/ \A r \in Record :
              copies[r] <= 2 * Quantify(Task, LAMBDA t : execution[t].chunks # <<>>)
    BY CopiesFew
  <2>3. ASSUME NEW t \in Task, Whole(execution[t]), execution[t].failed = 0,
               ~execution[t].changed, NEW c \in DOMAIN execution[t].chunks,
               execution[t].chunks[c].kind = "create",
               NEW r \in Range(execution[t].chunks[c].data)
        PROVE  copies[r] > 0 \/ r \in execution[t].chunks[c].missed
    BY <1>1, <2>3, WholeMakes
  <2> QED
    BY <2>1, <2>2, <2>3 DEF BatchCreates
<1> QED
  BY <1>2, <1>3, <1>4, <1>5 DEF BatchCorrect

\* What one or several executions of a batch must not do: the manager counts
\* each finished execution as completed or failed, a call that returned has
\* awaited every chunk, the chunks start in the order of their priorities, at
\* most max_concurrency at a time, and a record is created at most twice by
\* an execution (execute_operations(), _execute_single_operation(), split()).
THEOREM BatchSafe == BatchSpec => []BatchCorrect
<1>1. now = 0 /\ BatchInit => BatchInv
  BY BatchInvInit
<1>2. BatchInv /\ [BatchNext]_<<now, batchVars>> => BatchInv'
  BY BatchInvNext
<1>3. BatchInv => BatchCorrect
  BY BatchInvCorrect
<1> QED
  BY <1>1, <1>2, <1>3, PTL DEF BatchSpec

================================================================================
