------------------------------- MODULE ListProofs -------------------------------
(****************************************************************************)
(* Induction on the natural numbers over sets, the existence of functions    *)
(* defined by recursion, and what the operators of Lists return.             *)
(****************************************************************************)
EXTENDS Lists, FiniteSetTheorems, SequenceTheorems, WellFoundedInduction, TLAPS

(****************************************************************************)
(* Functions defined by recursion on the natural numbers.                   *)
(****************************************************************************)

LEMMA LeastNatural ==
    ASSUME NEW S \in SUBSET Nat, NEW x \in S
    PROVE  \E m \in S : \A n \in S : m <= n
<1> DEFINE R == OpToRel(<, Nat)
<1>1. IsWellFoundedOn(R, Nat)
  BY NatLessThanWellFounded
<1> HIDE DEF R
<1>2. PICK m \in S : \A y \in S : ~(<<y, m>> \in R)
  BY <1>1, WFMin, Zenon
<1>3. \A y, z \in Nat : y < z => <<y, z>> \in R
  BY DEF R, OpToRel
<1>4. ASSUME NEW n \in S
      PROVE  m <= n
  <2>1. n \in Nat /\ m \in Nat /\ ~(n < m)
    BY <1>2, <1>3
  <2> QED
    BY <2>1
<1> QED
  BY <1>4

\* Induction, over a set in place of a formula.
LEMMA EveryNatural ==
    ASSUME NEW S \in SUBSET Nat, 0 \in S, \A n \in S : n + 1 \in S
    PROVE  S = Nat
<1> SUFFICES ASSUME NEW x \in Nat \ S
             PROVE  FALSE
  OBVIOUS
<1>1. PICK m \in Nat \ S : \A n \in Nat \ S : m <= n
  BY LeastNatural
<1>2. m # 0 /\ m - 1 \in Nat /\ (m - 1) + 1 = m /\ ~(m <= m - 1)
  BY <1>1
<1>3. m - 1 \in S
  BY <1>1, <1>2
<1> QED
  BY <1>1, <1>2, <1>3

\* The functions that start with v and go on by step up to n.
Begun(V, v, step, n) ==
    {g \in [0..n -> V] : /\ g[0] = v
                         /\ \A i \in 0..n : i # 0 => g[i] = step[g[i - 1]]}

LEMMA BegunExists ==
    ASSUME NEW V, NEW v \in V, NEW step \in [V -> V], NEW n \in Nat
    PROVE  Begun(V, v, step, n) # {}
<1> DEFINE S == {k \in Nat : Begun(V, v, step, k) = {}}
<1> SUFFICES ASSUME n \in S
             PROVE  FALSE
  OBVIOUS
<1>1. PICK m \in S : \A k \in S : m <= k
  <2>1. S \in SUBSET Nat
    OBVIOUS
  <2> HIDE DEF S
  <2> QED
    BY <2>1, LeastNatural
<1>2. CASE m = 0
  <2> DEFINE g == [i \in 0..0 |-> v]
  <2>1. g \in Begun(V, v, step, 0)
    BY DEF Begun
  <2> QED
    BY <1>2, <2>1
<1>3. CASE m # 0
  <2>1. m \in Nat /\ m - 1 \in Nat /\ ~(m <= m - 1)
    BY <1>3
  <2>2. PICK g : g \in Begun(V, v, step, m - 1)
    BY <1>1, <2>1
  <2>3. /\ g \in [0..(m - 1) -> V] /\ g[0] = v
        /\ \A i \in 0..(m - 1) : i # 0 => g[i] = step[g[i - 1]]
    BY <2>2 DEF Begun
  <2> DEFINE h == [i \in 0..m |-> IF i = m THEN step[g[m - 1]] ELSE g[i]]
  <2>4. /\ step[g[m - 1]] \in V /\ 0 \in 0..(m - 1) /\ 0 # m
        /\ \A i \in 0..m : i # m => i \in 0..(m - 1)
        /\ \A i \in 0..m : i # 0 => i - 1 \in 0..(m - 1) /\ i - 1 \in 0..m
                                    /\ i - 1 # m
    BY <1>3, <2>1, <2>3
  <2>5. h \in [0..m -> V]
    BY <2>3, <2>4
  <2>6. h[0] = v
    BY <2>1, <2>3, <2>4
  <2>7. ASSUME NEW i \in 0..m, i # 0
        PROVE  h[i] = step[h[i - 1]]
    <3>1. h[i - 1] = g[i - 1]
      BY <2>4, <2>7
    <3>2. i # m => h[i] = g[i] /\ g[i] = step[g[i - 1]]
      BY <2>3, <2>4, <2>7
    <3>3. i = m => h[i] = step[g[i - 1]]
      OBVIOUS
    <3> QED
      BY <3>1, <3>2, <3>3
  <2>8. h \in Begun(V, v, step, m)
    BY <2>5, <2>6, <2>7 DEF Begun
  <2> QED
    BY <2>8
<1> QED
  BY <1>2, <1>3

LEMMA BegunAgree ==
    ASSUME NEW V, NEW v \in V, NEW step \in [V -> V], NEW n \in Nat,
           NEW g \in Begun(V, v, step, n), NEW h \in Begun(V, v, step, n + 1)
    PROVE  g[n] = h[n]
<1> DEFINE S == {i \in 0..n : g[i] # h[i]}
<1>1. /\ g[0] = v /\ h[0] = v
      /\ \A i \in 0..n : i # 0 => g[i] = step[g[i - 1]]
      /\ \A i \in 0..(n + 1) : i # 0 => h[i] = step[h[i - 1]]
  BY DEF Begun
<1>2. SUFFICES ASSUME n \in S
               PROVE  FALSE
  OBVIOUS
<1>3. PICK m \in S : \A k \in S : m <= k
  <2>1. S \in SUBSET Nat
    OBVIOUS
  <2> HIDE DEF S
  <2> QED
    BY <1>2, <2>1, LeastNatural
<1>4. m \in 0..n /\ m # 0 /\ m - 1 \in 0..n /\ m \in 0..(n + 1)
  BY <1>1, <1>3
<1>5. g[m - 1] = h[m - 1]
  <2>1. m - 1 \notin S
    <3>1. m \in Nat /\ ~(m <= m - 1)
      BY <1>4
    <3> HIDE DEF S
    <3> QED
      BY <1>3, <3>1
  <2> QED
    BY <1>4, <2>1
<1>6. g[m] = h[m]
  BY <1>1, <1>4, <1>5
<1> QED
  BY <1>3, <1>6

\* There is a function with a given first value and a given step.
LEMMA RecursionOnNat ==
    ASSUME NEW V, NEW v \in V, NEW step \in [V -> V]
    PROVE  \E f \in [Nat -> V] :
              f[0] = v /\ \A n \in Nat : f[n + 1] = step[f[n]]
<1> DEFINE B(n) == CHOOSE g : g \in Begun(V, v, step, n)
           f == [n \in Nat |-> B(n)[n]]
<1>1. \A n \in Nat : B(n) \in Begun(V, v, step, n)
  BY BegunExists, Zenon
<1> HIDE DEF B
<1>2. \A n \in Nat : B(n) \in [0..n -> V] /\ n \in 0..n
  BY <1>1 DEF Begun
<1>3. f \in [Nat -> V]
  BY <1>2
<1>4. f[0] = v
  BY <1>1 DEF Begun
<1>5. ASSUME NEW n \in Nat
      PROVE  f[n + 1] = step[f[n]]
  <2>1. B(n)[n] = B(n + 1)[n]
    BY <1>1, BegunAgree
  <2>2. B(n + 1)[n + 1] = step[B(n + 1)[(n + 1) - 1]]
    <3>1. n + 1 \in Nat /\ n + 1 # 0 /\ n + 1 \in 0..(n + 1)
      OBVIOUS
    <3> QED
      BY <1>1, <3>1 DEF Begun
  <2>3. (n + 1) - 1 = n /\ n + 1 \in Nat
    OBVIOUS
  <2> QED
    BY <2>1, <2>2, <2>3
<1> QED
  BY <1>3, <1>4, <1>5

\* Induction up to the length of a list.
LEMMA EveryPosition ==
    ASSUME NEW N \in Nat, NEW S, 0 \in S,
           \A n \in 1..N : n - 1 \in S => n \in S
    PROVE  \A n \in 0..N : n \in S
<1> DEFINE T == {n \in Nat : n \in 0..N => n \in S}
<1>1. T \in SUBSET Nat /\ 0 \in T
  OBVIOUS
<1>2. ASSUME NEW n \in T
      PROVE  n + 1 \in T
  <2>1. n \in Nat /\ (n + 1 \in 0..N => n + 1 \in 1..N /\ n \in 0..N /\ (n + 1) - 1 = n)
    OBVIOUS
  <2> QED
    BY <2>1
<1>3. T = Nat
  <2> HIDE DEF T
  <2> QED
    BY <1>1, <1>2, EveryNatural
<1> QED
  BY <1>3

\* The functions that start with u and go on by go, which knows the place.
Looped(N, U, u, go) ==
    {f \in [0..N -> U] : /\ f[0] = u
                        /\ \A n \in 1..N : f[n] = go[<<n, f[n - 1]>>]}

LEMMA LoopExists ==
    ASSUME NEW N \in Nat, NEW U, NEW u \in U, NEW go, go \in [(1..N) \X U -> U]
    PROVE  Looped(N, U, u, go) # {}
<1> DEFINE W == Nat \X U
           first == <<0, u>>
           next == [w \in W |-> <<w[1] + 1, IF w[1] + 1 \in 1..N
                                            THEN go[<<w[1] + 1, w[2]>>] ELSE w[2]>>]
<1>1. first \in W
  OBVIOUS
<1>2. next \in [W -> W]
  OBVIOUS
<1>3. PICK g \in [Nat -> W] : g[0] = first /\ \A n \in Nat : g[n + 1] = next[g[n]]
  <2>1. ASSUME NEW V, NEW v, v \in V, NEW step, step \in [V -> V]
        PROVE  \E g \in [Nat -> V] : g[0] = v /\ \A n \in Nat : g[n + 1] = step[g[n]]
    BY ONLY <2>1, RecursionOnNat
  <2> HIDE DEF W, first, next
  <2> QED
    BY ONLY <1>1, <1>2, <2>1
<1>7. \A n \in Nat :
         /\ g[n] \in W
         /\ g[n + 1][1] = g[n][1] + 1
         /\ g[n][1] + 1 \in 1..N => g[n + 1][2] = go[<<g[n][1] + 1, g[n][2]>>]
  <2> TAKE n \in Nat
  <2>1. g[n] \in W /\ g[n + 1] = next[g[n]]
    BY <1>3
  <2> QED
    BY <2>1
<1>4. \A n \in Nat : g[n][1] = n
  <2> DEFINE S == {n \in Nat : g[n][1] = n}
  <2>1. g[0][1] = 0
    BY <1>3
  <2>4. \A n \in Nat : g[n][1] = n => g[n + 1][1] = n + 1
    BY <1>7
  <2>3. S \in SUBSET Nat /\ 0 \in S /\ \A n \in S : n + 1 \in S
    BY ONLY <2>1, <2>4
  <2>2. S = Nat
    <3> HIDE DEF S
    <3> QED
      BY <2>3, EveryNatural
  <2> QED
    BY <2>2
<1> DEFINE f == [n \in 0..N |-> g[n][2]]
<1>5. f \in [0..N -> U] /\ f[0] = u
  BY <1>3
<1>6. ASSUME NEW n \in 1..N
      PROVE  f[n] = go[<<n, f[n - 1]>>]
  <2>1. n - 1 \in Nat /\ (n - 1) + 1 = n /\ n - 1 \in 0..N /\ n \in 0..N
    OBVIOUS
  <2>2. g[n - 1][1] = n - 1
    BY <1>4, <2>1
  <2>3. g[n][2] = go[<<n, g[n - 1][2]>>]
    BY <1>7, <2>1, <2>2
  <2> QED
    BY <2>1, <2>3
<1> QED
  BY <1>5, <1>6 DEF Looped

(****************************************************************************)
(* Keeping.                                                                 *)
(****************************************************************************)

\* How Keeping goes through the list.
KeepingLoop(S, s, K) ==
    {f \in [0..Len(s) -> Seq(S)] :
        /\ f[0] = <<>>
        /\ \A n \in 1..Len(s) :
              f[n] = IF s[n] \in K THEN Append(f[n - 1], s[n]) ELSE f[n - 1]
        /\ Keeping(s, K) = f[Len(s)]}

LEMMA KeepingGoesOn ==
    ASSUME NEW S, NEW s \in Seq(S), NEW K
    PROVE  KeepingLoop(S, s, K) # {}
<1> DEFINE N == Len(s)
           V == Seq(S)
           empty == <<>>
           step == [w \in (1..N) \X V |->
                       IF s[w[1]] \in K THEN Append(w[2], s[w[1]]) ELSE w[2]]
           Body(h) == [n \in 0..N |->
                          IF n = 0 THEN <<>>
                          ELSE IF s[n] \in K THEN Append(h[n - 1], s[n]) ELSE h[n - 1]]
           g == CHOOSE h : h = Body(h)
<1>1. /\ N \in Nat
      /\ empty \in V
      /\ \A n \in 1..N, w \in V : Append(w, s[n]) \in V
      /\ \A n \in 1..N : n - 1 \in 0..N /\ n \in 0..N /\ n # 0
      /\ \A n \in 0..N : n # 0 => n \in 1..N
  OBVIOUS
<1>2. Keeping(s, K) = g[N]
  BY Zenon DEF Keeping
<1> HIDE DEF N, V
<1>3. step \in [(1..N) \X V -> V]
  BY <1>1
<1>4. PICK f \in [0..N -> V] :
         f[0] = empty /\ \A n \in 1..N : f[n] = step[<<n, f[n - 1]>>]
  <2>1. N \in Nat /\ empty \in V
    BY <1>1
  <2> HIDE DEF empty, step
  <2>2. Looped(N, V, empty, step) # {}
    BY ONLY <1>3, <2>1, LoopExists
  <2> QED
    BY <2>2, Zenon DEF Looped
<1>5. f = Body(f)
  <2>1. ASSUME NEW n \in 1..N
        PROVE  f[n] = IF s[n] \in K THEN Append(f[n - 1], s[n]) ELSE f[n - 1]
    <3>1. <<n, f[n - 1]>> \in (1..N) \X V
      BY <1>1
    <3> QED
      BY <1>4, <3>1
  <2>2. f = [n \in 0..N |-> f[n]]
    OBVIOUS
  <2> QED
    BY <1>1, <1>4, <2>1, <2>2
<1>6. g = Body(g)
  <2> HIDE DEF Body
  <2> QED
    BY <1>5
<1> HIDE DEF g
<1>7. /\ g[0] = <<>>
      /\ \A n \in 1..N : g[n] = IF s[n] \in K THEN Append(g[n - 1], s[n]) ELSE g[n - 1]
      /\ g = [n \in 0..N |-> g[n]]
  <2>1. 0 \in 0..N
    BY <1>1
  <2> QED
    BY <1>1, <1>6, <2>1
<1> HIDE DEF Body
<1> DEFINE T == {n \in 0..N : g[n] \in V}
<1>8. \A n \in 0..N : n \in T
  <2>1. 0 \in T
    BY <1>1, <1>7
  <2>2. ASSUME NEW n \in 1..N, n - 1 \in T
        PROVE  n \in T
    BY <1>1, <1>7, <2>2
  <2>3. N \in Nat
    BY <1>1
  <2> HIDE DEF T
  <2> QED
    BY ONLY <2>1, <2>2, <2>3, EveryPosition
<1>9. g \in [0..N -> V]
  BY <1>7, <1>8
<1> QED
  BY <1>2, <1>7, <1>9 DEF N, V, KeepingLoop

LEMMA AppendedRange ==
    ASSUME NEW S, NEW w \in Seq(S), NEW e \in S
    PROVE  /\ Append(w, e) \in Seq(S)
           /\ Len(Append(w, e)) = Len(w) + 1
           /\ Range(Append(w, e)) = Range(w) \cup {e}
<1>1. /\ Append(w, e) \in Seq(S) /\ Len(Append(w, e)) = Len(w) + 1 /\ Len(w) \in Nat
      /\ DOMAIN w = 1..Len(w) /\ DOMAIN Append(w, e) = 1..(Len(w) + 1)
  OBVIOUS
<1>2. Append(w, e)[Len(w) + 1] = e /\ \A i \in 1..Len(w) : Append(w, e)[i] = w[i]
  OBVIOUS
<1>3. \A i \in 1..(Len(w) + 1) : i \in 1..Len(w) \/ i = Len(w) + 1
  BY <1>1
<1>4. \A i \in 1..Len(w) : i \in 1..(Len(w) + 1)
  BY <1>1
<1>5. Len(w) + 1 \in 1..(Len(w) + 1)
  BY <1>1
<1> QED
  BY <1>1, <1>2, <1>3, <1>4, <1>5 DEF Range

\* What Keeping returns.
LEMMA KeepingKeeps ==
    ASSUME NEW S, NEW s \in Seq(S), NEW K
    PROVE  /\ Keeping(s, K) \in Seq(S)
           /\ Len(Keeping(s, K)) <= Len(s)
           /\ Range(Keeping(s, K)) = Range(s) \cap K
           /\ Range(s) \subseteq K \/ Len(Keeping(s, K)) < Len(s)
<1>1. PICK f : f \in KeepingLoop(S, s, K)
  BY KeepingGoesOn
<1>2. /\ f \in [0..Len(s) -> Seq(S)]
      /\ f[0] = <<>>
      /\ \A n \in 1..Len(s) :
            f[n] = IF s[n] \in K THEN Append(f[n - 1], s[n]) ELSE f[n - 1]
      /\ Keeping(s, K) = f[Len(s)]
  BY <1>1, Zenon DEF KeepingLoop
<1> DEFINE P(n) == {s[i] : i \in 1..n}
           T == {n \in 0..Len(s) :
                    /\ Len(f[n]) <= n
                    /\ Range(f[n]) = P(n) \cap K
                    /\ P(n) \subseteq K \/ Len(f[n]) < n}
<1>3. /\ \A n \in 1..Len(s) : /\ n \in 0..Len(s) /\ n - 1 \in 0..Len(s) /\ s[n] \in S
                              /\ P(n) = P(n - 1) \cup {s[n]}
      /\ Len(s) \in Nat /\ 0 \in 0..Len(s) /\ Len(s) \in 0..Len(s)
      /\ P(0) = {}
      /\ Range(s) = P(Len(s))
  <2>1. \A n \in 1..Len(s) : \A i \in 1..n : i \in 1..(n - 1) \/ i = n
    OBVIOUS
  <2>2. \A n \in 1..Len(s) : n \in 1..n /\ \A i \in 1..(n - 1) : i \in 1..n
    OBVIOUS
  <2>3. \A n \in 1..Len(s) : P(n) = P(n - 1) \cup {s[n]}
    BY <2>1, <2>2
  <2> QED
    BY <2>3 DEF Range
<1> HIDE DEF P
<1>4. 0 \in T
  <2>1. Range(<<>>) = {} /\ Len(<<>>) = 0
    BY DEF Range
  <2> QED
    BY <1>2, <1>3, <2>1
<1>5. ASSUME NEW n \in 1..Len(s), n - 1 \in T
      PROVE  n \in T
  <2> DEFINE w == f[n - 1]
             v == f[n]
             e == s[n]
  <2>1. /\ w \in Seq(S) /\ Len(w) <= n - 1 /\ Range(w) = P(n - 1) \cap K
        /\ P(n - 1) \subseteq K \/ Len(w) < n - 1
    BY <1>2, <1>3, <1>5
  <2>2. v = (IF e \in K THEN Append(w, e) ELSE w) /\ e \in S /\ P(n) = P(n - 1) \cup {e}
    BY <1>2, <1>3
  <2> HIDE DEF w, v, e
  <2>3. /\ Len(v) <= n
        /\ Range(v) = P(n) \cap K
        /\ P(n) \subseteq K \/ Len(v) < n
    <3>1. CASE e \in K
      <4>1. v = Append(w, e) /\ Len(v) = Len(w) + 1 /\ Range(v) = Range(w) \cup {e}
        BY <2>1, <2>2, <3>1, AppendedRange
      <4>2. Len(w) \in Nat
        BY <2>1
      <4> QED
        BY <2>1, <2>2, <3>1, <4>1, <4>2
    <3>2. CASE e \notin K
      <4>1. Len(w) \in Nat
        BY <2>1
      <4> QED
        BY <2>1, <2>2, <3>2, <4>1
    <3> QED
      BY <3>1, <3>2
  <2> QED
    BY <1>3, <2>3 DEF v
<1>6. Len(s) \in T
  <2> HIDE DEF T
  <2> QED
    BY <1>3, <1>4, <1>5, EveryPosition
<1>7. f[Len(s)] \in Seq(S)
  BY <1>2, <1>3
<1> QED
  BY <1>2, <1>3, <1>6, <1>7


(****************************************************************************)
(* Joined and Total.                                                        *)
(****************************************************************************)

\* How Joined goes through the lists.
JoinedLoop(S, ss) ==
    {f \in [0..Len(ss) -> Seq(S)] :
        /\ f[0] = <<>>
        /\ \A n \in 1..Len(ss) : f[n] = f[n - 1] \o ss[n]
        /\ Joined(ss) = f[Len(ss)]}

LEMMA JoinedGoesOn ==
    ASSUME NEW S, NEW ss \in Seq(Seq(S))
    PROVE  JoinedLoop(S, ss) # {}
<1> DEFINE N == Len(ss)
           V == Seq(S)
           empty == <<>>
           step == [w \in (1..N) \X V |-> w[2] \o ss[w[1]]]
           Body(h) == [n \in 0..N |-> IF n = 0 THEN <<>> ELSE h[n - 1] \o ss[n]]
           g == CHOOSE h : h = Body(h)
<1>1. /\ N \in Nat
      /\ empty \in V
      /\ \A n \in 1..N, w \in V : w \o ss[n] \in V
      /\ \A n \in 1..N : n - 1 \in 0..N /\ n \in 0..N /\ n # 0
      /\ \A n \in 0..N : n # 0 => n \in 1..N
  OBVIOUS
<1>2. Joined(ss) = g[N]
  BY Zenon DEF Joined
<1> HIDE DEF N, V
<1>3. step \in [(1..N) \X V -> V]
  BY <1>1
<1>4. PICK f \in [0..N -> V] :
         f[0] = empty /\ \A n \in 1..N : f[n] = step[<<n, f[n - 1]>>]
  <2>1. N \in Nat /\ empty \in V
    BY <1>1
  <2> HIDE DEF empty, step
  <2>2. Looped(N, V, empty, step) # {}
    BY ONLY <1>3, <2>1, LoopExists
  <2> QED
    BY <2>2, Zenon DEF Looped
<1>5. f = Body(f)
  <2>1. ASSUME NEW n \in 1..N
        PROVE  f[n] = f[n - 1] \o ss[n]
    <3>1. <<n, f[n - 1]>> \in (1..N) \X V
      BY <1>1
    <3> QED
      BY <1>4, <3>1
  <2>2. f = [n \in 0..N |-> f[n]]
    OBVIOUS
  <2> QED
    BY <1>1, <1>4, <2>1, <2>2
<1>6. g = Body(g)
  <2> HIDE DEF Body
  <2> QED
    BY <1>5
<1> HIDE DEF g
<1>7. /\ g[0] = <<>>
      /\ \A n \in 1..N : g[n] = g[n - 1] \o ss[n]
      /\ g = [n \in 0..N |-> g[n]]
  <2>1. 0 \in 0..N
    BY <1>1
  <2> QED
    BY <1>1, <1>6, <2>1
<1> HIDE DEF Body
<1> DEFINE T == {n \in 0..N : g[n] \in V}
<1>8. \A n \in 0..N : n \in T
  <2>1. 0 \in T
    BY <1>1, <1>7
  <2>2. ASSUME NEW n \in 1..N, n - 1 \in T
        PROVE  n \in T
    BY <1>1, <1>7, <2>2
  <2>3. N \in Nat
    BY <1>1
  <2> HIDE DEF T
  <2> QED
    BY ONLY <2>1, <2>2, <2>3, EveryPosition
<1>9. g \in [0..N -> V]
  BY <1>7, <1>8
<1> QED
  BY <1>2, <1>7, <1>9 DEF N, V, JoinedLoop

\* How Total goes through the numbers.
TotalLoop(s) ==
    {f \in [0..Len(s) -> Nat] :
        /\ f[0] = 0
        /\ \A n \in 1..Len(s) : f[n] = f[n - 1] + s[n]
        /\ Total(s) = f[Len(s)]}

LEMMA TotalGoesOn ==
    ASSUME NEW s \in Seq(Nat)
    PROVE  TotalLoop(s) # {}
<1> DEFINE N == Len(s)
           V == Nat
           zero == 0
           step == [w \in (1..N) \X V |-> w[2] + s[w[1]]]
           Body(h) == [n \in 0..N |-> IF n = 0 THEN 0 ELSE h[n - 1] + s[n]]
           g == CHOOSE h : h = Body(h)
<1>1. /\ N \in Nat
      /\ zero \in V
      /\ \A n \in 1..N, w \in V : w + s[n] \in V
      /\ \A n \in 1..N : n - 1 \in 0..N /\ n \in 0..N /\ n # 0
      /\ \A n \in 0..N : n # 0 => n \in 1..N
  OBVIOUS
<1>2. Total(s) = g[N]
  BY Zenon DEF Total
<1> HIDE DEF N, V
<1>3. step \in [(1..N) \X V -> V]
  BY <1>1
<1>4. PICK f \in [0..N -> V] :
         f[0] = zero /\ \A n \in 1..N : f[n] = step[<<n, f[n - 1]>>]
  <2>1. N \in Nat /\ zero \in V
    BY <1>1
  <2> HIDE DEF zero, step
  <2>2. Looped(N, V, zero, step) # {}
    BY ONLY <1>3, <2>1, LoopExists
  <2> QED
    BY <2>2, Zenon DEF Looped
<1>5. f = Body(f)
  <2>1. ASSUME NEW n \in 1..N
        PROVE  f[n] = f[n - 1] + s[n]
    <3>1. <<n, f[n - 1]>> \in (1..N) \X V
      BY <1>1
    <3> QED
      BY <1>4, <3>1
  <2>2. f = [n \in 0..N |-> f[n]]
    OBVIOUS
  <2> QED
    BY <1>1, <1>4, <2>1, <2>2
<1>6. g = Body(g)
  <2> HIDE DEF Body
  <2> QED
    BY <1>5
<1> HIDE DEF g
<1>7. /\ g[0] = 0
      /\ \A n \in 1..N : g[n] = g[n - 1] + s[n]
      /\ g = [n \in 0..N |-> g[n]]
  <2>1. 0 \in 0..N
    BY <1>1
  <2> QED
    BY <1>1, <1>6, <2>1
<1> HIDE DEF Body
<1> DEFINE T == {n \in 0..N : g[n] \in V}
<1>8. \A n \in 0..N : n \in T
  <2>1. 0 \in T
    BY <1>1, <1>7
  <2>2. ASSUME NEW n \in 1..N, n - 1 \in T
        PROVE  n \in T
    BY <1>1, <1>7, <2>2
  <2>3. N \in Nat
    BY <1>1
  <2> HIDE DEF T
  <2> QED
    BY ONLY <2>1, <2>2, <2>3, EveryPosition
<1>9. g \in [0..N -> V]
  BY <1>7, <1>8
<1> QED
  BY <1>2, <1>7, <1>9 DEF N, V, TotalLoop

\* Where the items of a list of lists are, and in which order.
Places(ss) == {p \in (DOMAIN ss) \X Nat : p[2] \in DOMAIN ss[p[1]]}

Before(p, q) == p[1] < q[1] \/ (p[1] = q[1] /\ p[2] < q[2])

\* Where the items of the first n lists, one after the other, come from.
Origins(w, ss, n) ==
    {at \in [DOMAIN w -> Places(ss)] :
        /\ \A c \in DOMAIN w : at[c][1] <= n /\ w[c] = ss[at[c][1]][at[c][2]]
        /\ \A c, d \in DOMAIN w : c < d => Before(at[c], at[d])
        /\ \A p \in Places(ss) : p[1] <= n => \E c \in DOMAIN w : at[c] = p}

LEMMA OriginsGoOn ==
    ASSUME NEW S, NEW ss \in Seq(Seq(S)), NEW n \in 1..Len(ss), NEW w \in Seq(S),
           Origins(w, ss, n - 1) # {}
    PROVE  Origins(w \o ss[n], ss, n) # {}
<1> DEFINE m == Len(w)
           k == Len(ss[n])
           v == w \o ss[n]
<1>1. PICK at \in [DOMAIN w -> Places(ss)] :
         /\ \A c \in DOMAIN w : at[c][1] <= n - 1 /\ w[c] = ss[at[c][1]][at[c][2]]
         /\ \A c, d \in DOMAIN w : c < d => Before(at[c], at[d])
         /\ \A p \in Places(ss) : p[1] <= n - 1 => \E c \in DOMAIN w : at[c] = p
  BY DEF Origins
<1>2. /\ m \in Nat /\ k \in Nat /\ DOMAIN w = 1..m /\ DOMAIN ss[n] = 1..k
      /\ DOMAIN ss = 1..Len(ss) /\ ss[n] \in Seq(S) /\ n \in Nat
  OBVIOUS
<1>3. /\ v \in Seq(S) /\ DOMAIN v = 1..(m + k)
      /\ \A c \in 1..(m + k) : v[c] = IF c <= m THEN w[c] ELSE ss[n][c - m]
  <2> HIDE DEF m, k, v
  <2>1. v \in Seq(S) /\ Len(v) = m + k
        /\ \A c \in 1..(m + k) : v[c] = IF c <= m THEN w[c] ELSE ss[n][c - m]
    BY <1>2, ConcatProperties DEF m, k, v
  <2> QED
    BY <1>2, <2>1
<1> HIDE DEF m, k, v
<1> DEFINE new == [c \in 1..(m + k) |-> IF c <= m THEN at[c] ELSE <<n, c - m>>]
<1>4. /\ \A c \in 1..(m + k) : /\ c <= m => c \in DOMAIN w
                               /\ ~(c <= m) => c - m \in 1..k /\ c - m \in Nat
      /\ \A c \in DOMAIN w : c \in 1..(m + k) /\ c <= m
      /\ \A j \in 1..k : m + j \in 1..(m + k) /\ ~(m + j <= m) /\ (m + j) - m = j
  BY <1>2
<1>5. \A j \in 1..k : <<n, j>> \in Places(ss)
  BY <1>2 DEF Places
<1>6. new \in [DOMAIN v -> Places(ss)]
  BY <1>1, <1>3, <1>4, <1>5
<1>7. \A c \in DOMAIN v : /\ c <= m => new[c] = at[c]
                          /\ ~(c <= m) => new[c] = <<n, c - m>>
  BY <1>3
<1>8. \A c \in DOMAIN w : at[c] \in Places(ss) /\ at[c][1] \in Nat
  <2>1. \A p \in Places(ss) : p[1] \in DOMAIN ss
    BY Zenon DEF Places
  <2>2. \A p \in Places(ss) : p[1] \in Nat
    BY <1>2, <2>1
  <2>3. \A c \in DOMAIN w : at[c] \in Places(ss)
    BY <1>1
  <2> QED
    BY ONLY <2>2, <2>3
<1> HIDE DEF new
<1>9. ASSUME NEW c \in DOMAIN v
      PROVE  new[c][1] <= n /\ v[c] = ss[new[c][1]][new[c][2]]
  <2>1. CASE c <= m
    <3>1. new[c] = at[c] /\ v[c] = w[c] /\ c \in DOMAIN w
      BY <1>3, <1>4, <1>7, <2>1
    <3>2. at[c][1] <= n - 1 /\ at[c][1] \in Nat /\ w[c] = ss[at[c][1]][at[c][2]]
      BY <1>1, <1>8, <3>1
    <3>3. at[c][1] <= n
      BY ONLY <1>2, <3>2
    <3> QED
      BY ONLY <3>1, <3>2, <3>3
  <2>2. CASE ~(c <= m)
    <3>1. new[c] = <<n, c - m>> /\ v[c] = ss[n][c - m]
      BY <1>3, <1>7, <2>2
    <3>2. new[c][1] = n /\ new[c][2] = c - m /\ n <= n
      BY ONLY <1>2, <3>1
    <3> QED
      BY ONLY <3>1, <3>2
  <2> QED
    BY <2>1, <2>2
<1>10. ASSUME NEW c \in DOMAIN v, NEW d \in DOMAIN v, c < d
       PROVE  Before(new[c], new[d])
  <2>1. CASE c <= m /\ d <= m
    BY <1>1, <1>3, <1>4, <1>7, <1>10, <2>1
  <2>2. CASE c <= m /\ ~(d <= m)
    <3>1. new[c][1] <= n - 1 /\ new[c][1] \in Nat /\ new[d][1] = n
      BY <1>1, <1>3, <1>4, <1>7, <1>8, <2>2
    <3> QED
      BY <1>2, <3>1 DEF Before
  <2>3. CASE ~(c <= m)
    <3>1. ~(d <= m) /\ c - m < d - m
      BY <1>2, <1>3, <1>10, <2>3
    <3> QED
      BY <1>7, <2>3, <3>1 DEF Before
  <2> QED
    BY <2>1, <2>2, <2>3
<1>11. ASSUME NEW p \in Places(ss), p[1] <= n
       PROVE  \E c \in DOMAIN v : new[c] = p
  <2>1. p[1] \in 1..Len(ss) /\ p[2] \in DOMAIN ss[p[1]] /\ p = <<p[1], p[2]>>
    BY <1>2 DEF Places
  <2>2. CASE p[1] <= n - 1
    <3>1. PICK c \in DOMAIN w : at[c] = p
      BY <1>1, <2>2
    <3> QED
      BY <1>3, <1>4, <1>7, <3>1
  <2>3. CASE p[1] = n
    <3>1. p[2] \in 1..k
      BY <1>2, <2>1, <2>3
    <3>2. new[m + p[2]] = <<n, p[2]>> /\ m + p[2] \in DOMAIN v
      BY <1>3, <1>4, <1>7, <3>1
    <3> QED
      BY <2>1, <2>3, <3>2
  <2> QED
    BY <1>2, <1>11, <2>1, <2>2, <2>3
<1>12. new \in Origins(v, ss, n)
  BY <1>6, <1>9, <1>10, <1>11 DEF Origins
<1> QED
  BY <1>12 DEF v

\* What Joined returns: the items in their order.
LEMMA JoinedPlaces ==
    ASSUME NEW S, NEW ss \in Seq(Seq(S))
    PROVE  Joined(ss) \in Seq(S) /\ Origins(Joined(ss), ss, Len(ss)) # {}
<1>1. PICK f : f \in JoinedLoop(S, ss)
  BY JoinedGoesOn
<1>2. /\ f \in [0..Len(ss) -> Seq(S)] /\ f[0] = <<>>
      /\ \A n \in 1..Len(ss) : f[n] = f[n - 1] \o ss[n]
      /\ Joined(ss) = f[Len(ss)]
  BY <1>1, Zenon DEF JoinedLoop
<1>3. Len(ss) \in Nat /\ 0 \in 0..Len(ss) /\ Len(ss) \in 0..Len(ss) /\ DOMAIN ss = 1..Len(ss)
      /\ \A n \in 1..Len(ss) : n - 1 \in 0..Len(ss) /\ n \in 0..Len(ss)
  OBVIOUS
<1> DEFINE T == {n \in 0..Len(ss) : Origins(f[n], ss, n) # {}}
<1>4. 0 \in T
  <2> DEFINE none == [c \in {} |-> 0]
  <2>1. DOMAIN f[0] = {}
    BY <1>2
  <2>2. \A p \in Places(ss) : ~(p[1] <= 0)
    BY <1>3 DEF Places
  <2>3. none \in [DOMAIN f[0] -> Places(ss)]
    BY <2>1
  <2>4. none \in Origins(f[0], ss, 0)
    BY <2>1, <2>2, <2>3 DEF Origins
  <2> QED
    BY <1>3, <2>4
<1>5. ASSUME NEW n \in 1..Len(ss), n - 1 \in T
      PROVE  n \in T
  <2>1. f[n - 1] \in Seq(S)
    BY <1>2, <1>3
  <2>2. Origins(f[n - 1] \o ss[n], ss, n) # {}
    BY <1>5, <2>1, OriginsGoOn
  <2> QED
    BY <1>2, <1>3, <2>2
<1>6. Len(ss) \in T
  <2> HIDE DEF T
  <2> QED
    BY ONLY <1>3, <1>4, <1>5, EveryPosition
<1> QED
  BY <1>2, <1>3, <1>6

LEMMA JoinedRange ==
    ASSUME NEW S, NEW ss \in Seq(Seq(S))
    PROVE  \A i \in DOMAIN ss : Range(ss[i]) \subseteq Range(Joined(ss))
<1>1. PICK at \in [DOMAIN Joined(ss) -> Places(ss)] :
         /\ \A c \in DOMAIN Joined(ss) : Joined(ss)[c] = ss[at[c][1]][at[c][2]]
         /\ \A p \in Places(ss) : p[1] <= Len(ss) => \E c \in DOMAIN Joined(ss) : at[c] = p
  BY JoinedPlaces DEF Origins
<1>2. ASSUME NEW i \in DOMAIN ss, NEW j \in DOMAIN ss[i]
      PROVE  ss[i][j] \in Range(Joined(ss))
  <2>1. <<i, j>> \in Places(ss) /\ i <= Len(ss)
    BY DEF Places
  <2>2. PICK c \in DOMAIN Joined(ss) : at[c] = <<i, j>>
    BY <1>1, <2>1
  <2>3. Joined(ss)[c] = ss[i][j]
    BY <1>1, <2>2
  <2> QED
    BY <2>3 DEF Range
<1> QED
  BY <1>2 DEF Range

\* Nothing, and one list, joined.
LEMMA JoinedFew ==
    ASSUME NEW S
    PROVE  /\ Joined(<<>>) = <<>>
           /\ \A s \in Seq(S) : Joined(<<s>>) = s
<1>1. Joined(<<>>) = <<>>
  <2>1. <<>> \in Seq(Seq(S)) /\ Len(<<>>) = 0
    OBVIOUS
  <2>2. PICK f : f \in JoinedLoop(S, <<>>)
    BY <2>1, JoinedGoesOn
  <2> QED
    BY <2>1, <2>2 DEF JoinedLoop
<1>2. ASSUME NEW s \in Seq(S)
      PROVE  Joined(<<s>>) = s
  <2>1. <<s>> \in Seq(Seq(S)) /\ Len(<<s>>) = 1 /\ <<s>>[1] = s
    OBVIOUS
  <2>2. PICK f : f \in JoinedLoop(S, <<s>>)
    BY <2>1, JoinedGoesOn
  <2>3. f[0] = <<>> /\ f[1] = f[1 - 1] \o <<s>>[1] /\ Joined(<<s>>) = f[1]
    <3>1. /\ f[0] = <<>>
          /\ \A n \in 1..Len(<<s>>) : f[n] = f[n - 1] \o (<<s>>)[n]
          /\ Joined(<<s>>) = f[Len(<<s>>)]
      BY <2>2, Zenon DEF JoinedLoop
    <3>2. 1 \in 1..Len(<<s>>)
      BY <2>1
    <3> QED
      BY <2>1, <3>1, <3>2
  <2>4. 1 - 1 = 0 /\ <<>> \o s = s
    OBVIOUS
  <2> QED
    BY <2>1, <2>3, <2>4
<1> QED
  BY <1>1, <1>2

LEMMA TotalType ==
    ASSUME NEW s \in Seq(Nat)
    PROVE  Total(s) \in Nat
<1>1. PICK f : f \in TotalLoop(s)
  BY TotalGoesOn
<1>2. Len(s) \in 0..Len(s)
  OBVIOUS
<1> QED
  BY <1>1, <1>2 DEF TotalLoop

LEMMA TotalOfZeros ==
    ASSUME NEW s \in Seq(Nat), \A n \in DOMAIN s : s[n] = 0
    PROVE  Total(s) = 0
<1>1. PICK f : f \in TotalLoop(s)
  BY TotalGoesOn
<1>2. /\ f \in [0..Len(s) -> Nat] /\ f[0] = 0 /\ Total(s) = f[Len(s)]
      /\ \A n \in 1..Len(s) : f[n] = f[n - 1] + s[n]
  BY <1>1, Zenon DEF TotalLoop
<1> DEFINE T == {n \in 0..Len(s) : f[n] = 0}
<1>3. Len(s) \in Nat /\ Len(s) \in 0..Len(s)
  OBVIOUS
<1>4. 0 \in T
  BY <1>2, <1>3
<1>5. \A n \in 1..Len(s) : n - 1 \in T => n \in T
  BY <1>2
<1>6. Len(s) \in T
  <2> HIDE DEF T
  <2> QED
    BY ONLY <1>3, <1>4, <1>5, EveryPosition
<1> QED
  BY <1>2, <1>6

LEMMA Sums ==
    \A a, x, y \in Nat : (a + x) + y = (a + y) + x
  OBVIOUS

\* One number more or less.
LEMMA TotalChanges ==
    ASSUME NEW s \in Seq(Nat), NEW u \in Seq(Nat), Len(u) = Len(s),
           NEW k \in 1..Len(s), \A n \in 1..Len(s) : n # k => u[n] = s[n]
    PROVE  Total(u) + s[k] = Total(s) + u[k]
<1>1. PICK f : f \in TotalLoop(s)
  BY TotalGoesOn
<1>2. PICK g : g \in TotalLoop(u)
  BY TotalGoesOn
<1>3. /\ f \in [0..Len(s) -> Nat] /\ f[0] = 0 /\ Total(s) = f[Len(s)]
      /\ \A n \in 1..Len(s) : f[n] = f[n - 1] + s[n]
  BY <1>1, Zenon DEF TotalLoop
<1>4. /\ g \in [0..Len(s) -> Nat] /\ g[0] = 0 /\ Total(u) = g[Len(s)]
      /\ \A n \in 1..Len(s) : g[n] = g[n - 1] + u[n]
  BY <1>2 DEF TotalLoop
<1> DEFINE T == {n \in 0..Len(s) : IF n < k THEN g[n] = f[n]
                                   ELSE g[n] + s[k] = f[n] + u[k]}
<1>5. Len(s) \in Nat /\ Len(s) \in 0..Len(s) /\ k \in Nat /\ k # 0
  OBVIOUS
<1>6. 0 \in T
  BY <1>3, <1>4, <1>5
<1>7. ASSUME NEW n \in 1..Len(s), n - 1 \in T
      PROVE  n \in T
  <2>1. /\ n \in Nat /\ n \in 0..Len(s) /\ n - 1 \in 0..Len(s) /\ s[n] \in Nat /\ u[n] \in Nat
        /\ f[n] \in Nat /\ f[n - 1] \in Nat /\ g[n] \in Nat /\ g[n - 1] \in Nat
        /\ s[k] \in Nat /\ u[k] \in Nat
    <3>1. k \in DOMAIN s /\ k \in DOMAIN u /\ n \in DOMAIN s /\ n \in DOMAIN u
      OBVIOUS
    <3>2. n \in Nat /\ n \in 0..Len(s) /\ n - 1 \in 0..Len(s)
      OBVIOUS
    <3>3. s[n] \in Nat /\ u[n] \in Nat /\ s[k] \in Nat /\ u[k] \in Nat
      BY <3>1
    <3> QED
      BY <1>3, <1>4, <3>2, <3>3
  <2>2. f[n] = f[n - 1] + s[n] /\ g[n] = g[n - 1] + u[n]
    BY <1>3, <1>4
  <2>3. CASE n < k
    <3>1. n - 1 < k /\ n # k
      BY ONLY <1>5, <2>1, <2>3
    <3>2. g[n - 1] = f[n - 1] /\ u[n] = s[n]
      BY <1>7, <3>1
    <3>3. g[n] = f[n]
      BY ONLY <2>2, <3>2
    <3> QED
      BY <2>1, <2>3, <3>3
  <2>4. CASE n = k
    <3>1. n - 1 < k /\ ~(n < k)
      BY ONLY <1>5, <2>1, <2>4
    <3>2. g[n - 1] = f[n - 1] /\ s[n] = s[k] /\ u[n] = u[k]
      BY <1>7, <2>4, <3>1
    <3>3. g[n] = f[n - 1] + u[k] /\ f[n] = f[n - 1] + s[k]
      BY ONLY <2>2, <3>2
    <3>4. (f[n - 1] + u[k]) + s[k] = (f[n - 1] + s[k]) + u[k]
      BY <2>1, Sums
    <3>5. g[n] + s[k] = f[n] + u[k]
      BY ONLY <3>3, <3>4
    <3> QED
      BY <2>1, <3>1, <3>5
  <2>5. CASE ~(n < k) /\ n # k
    <3>1. ~(n - 1 < k)
      BY ONLY <1>5, <2>1, <2>5
    <3>2. g[n - 1] + s[k] = f[n - 1] + u[k] /\ u[n] = s[n]
      BY <1>7, <2>5, <3>1
    <3>3. g[n] = g[n - 1] + s[n] /\ f[n] = f[n - 1] + s[n]
      BY ONLY <2>2, <3>2
    <3>4. (g[n - 1] + s[n]) + s[k] = (f[n - 1] + s[n]) + u[k]
      <4>1. PICK a \in Nat, b \in Nat : a = g[n - 1] /\ b = f[n - 1]
        BY ONLY <2>1
      <4>2. PICK x \in Nat, y \in Nat, z \in Nat : x = s[k] /\ y = u[k] /\ z = s[n]
        BY ONLY <2>1
      <4>3. a + x = b + y
        BY ONLY <3>2, <4>1, <4>2
      <4>4. (a + z) + x = (b + z) + y
        BY ONLY <4>3
      <4> QED
        BY ONLY <4>1, <4>2, <4>4
    <3>5. g[n] + s[k] = f[n] + u[k]
      BY ONLY <3>3, <3>4
    <3> QED
      BY <2>1, <2>5, <3>5
  <2> QED
    BY <2>3, <2>4, <2>5
<1>8. Len(s) \in T
  <2> HIDE DEF T
  <2> QED
    BY ONLY <1>5, <1>6, <1>7, EveryPosition
<1> QED
  BY <1>3, <1>4, <1>5, <1>8

================================================================================
