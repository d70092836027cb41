----------------------------- MODULE SedProofs -----------------------------
(***************************************************************************)
(* Proofs about Sed: its types, that a script which edits nothing keeps     *)
(* every line, and that the two interpreters agree on simple scripts.       *)
(*                                                                         *)
(* The second interpreter and the parser are folds over sequences, that is  *)
(* recursive functions given by CHOOSE.  Induction over them is done with   *)
(* sets: < on the naturals is well-founded, so a set of naturals with 0 and *)
(* with the successor of each of its members holds them all.                *)
(***************************************************************************)
EXTENDS Sed, SequenceTheorems, WellFoundedInduction, TLAPS

-----------------------------------------------------------------------------
(* Induction over sets of naturals, and folds.                             *)

LEMMA NatSet ==
    ASSUME NEW S, 0 \in S, \A n \in Nat : n \in S => n + 1 \in S
    PROVE  Nat \subseteq S
<1>. DEFINE T == Nat \ S
<1>1. SUFFICES ASSUME T # {} PROVE FALSE
      OBVIOUS
<1>2. PICK m \in T : \A k \in T : <<k, m>> \notin OpToRel(<, Nat)
      BY <1>1, NatLessThanWellFounded, WFMin
<1>3. \A k \in T : ~ (k < m)
      BY <1>2 DEF OpToRel
<1>4. m # 0 /\ m - 1 \in Nat /\ m - 1 \notin T
      BY <1>3
<1>. QED BY <1>4

\* Some numbers up to n: one of them is the greatest.
LEMMA Greatest ==
    ASSUME NEW n \in Nat, NEW s \in SUBSET (1 .. n), s # {}
    PROVE  \E m \in s : \A y \in s : y <= m
<1>. DEFINE S == {k \in Nat : \A t \in SUBSET (1 .. k) : t # {} => \E m \in t : \A y \in t : y <= m}
<1>1. 0 \in S
      <2>1. 1 .. 0 = {}
            OBVIOUS
      <2>. QED BY <2>1
<1>2. ASSUME NEW k \in Nat, k \in S PROVE k + 1 \in S
      <2>1. ASSUME NEW t \in SUBSET (1 .. k + 1), t # {}
            PROVE  \E m \in t : \A y \in t : y <= m
            <3>1. CASE k + 1 \in t
                  <4>1. \A y \in t : y <= k + 1
                        OBVIOUS
                  <4>. QED BY <3>1, <4>1
            <3>2. CASE k + 1 \notin t
                  <4>1. t \in SUBSET (1 .. k)
                        BY <3>2
                  <4>. QED BY <1>2, <2>1, <4>1
            <3>. QED BY <3>1, <3>2
      <2>. QED BY <2>1
<1>. HIDE DEF S
<1>3. Nat \subseteq S
      BY <1>1, <1>2, NatSet
<1>. QED BY <1>3 DEF S

LEMMA MaxIn ==
    ASSUME NEW n \in Nat, NEW s \in SUBSET (1 .. n), s # {}
    PROVE  Max(s) \in s /\ s \ {Max(s)} \in SUBSET (1 .. n)
<1>1. PICK m \in s : \A y \in s : m >= y
      BY Greatest
<1>2. Max(s) \in s
      BY <1>1 DEF Max
<1>. QED BY <1>2

LEMMA MaxPrefix ==
    ASSUME NEW k \in Nat \ {0}
    PROVE  Max(1 .. k) = k /\ (1 .. k) \ {k} = 1 .. k - 1 /\ 1 .. k # {}
<1>1. k \in 1 .. k /\ \A x \in 1 .. k : (\A y \in 1 .. k : x >= y) => x = k
      OBVIOUS
<1>2. Max(1 .. k) = k
      BY <1>1 DEF Max
<1>. QED BY <1>1, <1>2

\* What MapThenFoldSet computes, with step G, from b and over 1 .. n: a
\* function of sets that is given by its values on smaller ones.
Folded(h, b, G, n) ==
    h = [s \in SUBSET (1 .. n) |-> IF s = {} THEN b ELSE G[<<h[s \ {Max(s)}], Max(s)>>]]

\* There is one.
LEMMA Folding ==
    ASSUME NEW V, NEW b \in V, NEW n \in Nat, NEW G \in [V \X (1 .. n) -> V]
    PROVE  \E h \in [SUBSET (1 .. n) -> V] : Folded(h, b, G, n)
<1>. DEFINE P(m) == \E h \in [SUBSET (1 .. m) -> V] : Folded(h, b, G, m)
            S == {m \in Nat : m <= n => P(m)}
<1>1. P(0)
      <2>. DEFINE h == [s \in SUBSET (1 .. 0) |-> b]
      <2>1. h \in [SUBSET (1 .. 0) -> V] /\ 1 .. 0 = {}
            OBVIOUS
      <2>2. \A s \in SUBSET (1 .. 0) : s = {}
            BY <2>1
      <2>3. Folded(h, b, G, 0)
            BY <2>2 DEF Folded
      <2>. QED BY <2>1, <2>3
<1>2. ASSUME NEW m \in Nat, m + 1 <= n, P(m) PROVE P(m + 1)
      <2>1. PICK h \in [SUBSET (1 .. m) -> V] : Folded(h, b, G, m)
            BY <1>2
      <2>. DEFINE g == [s \in SUBSET (1 .. m + 1) |->
                          IF m + 1 \in s THEN G[<<h[s \ {m + 1}], m + 1>>] ELSE h[s]]
      <2>2. ASSUME NEW s \in SUBSET (1 .. m + 1) PROVE s \ {m + 1} \in SUBSET (1 .. m)
            OBVIOUS
      <2>3. g \in [SUBSET (1 .. m + 1) -> V]
            <3>1. m + 1 \in 1 .. n
                  BY <1>2
            <3>2. ASSUME NEW s \in SUBSET (1 .. m + 1) PROVE g[s] \in V
                  <4>1. CASE m + 1 \in s
                        BY <2>2, <3>1, <4>1
                  <4>2. CASE m + 1 \notin s
                        BY <2>2, <4>2
                  <4>. QED BY <4>1, <4>2
            <3>. QED BY <3>2
      <2>4. ASSUME NEW s \in SUBSET (1 .. m + 1)
            PROVE  g[s] = IF s = {} THEN b ELSE G[<<g[s \ {Max(s)}], Max(s)>>]
            <3>1. s # {} => Max(s) \in s /\ s \ {Max(s)} \in SUBSET (1 .. m + 1)
                  BY MaxIn
            <3>2. CASE m + 1 \in s
                  <4>1. \A x \in s : (\A y \in s : x >= y) => x = m + 1
                        BY <3>2
                  <4>2. Max(s) = m + 1
                        <5>1. \A y \in s : m + 1 >= y
                              OBVIOUS
                        <5>. QED BY <3>2, <4>1, <5>1 DEF Max
                  <4>3. g[s \ {m + 1}] = h[s \ {m + 1}]
                        BY <2>2
                  <4>. QED BY <3>2, <4>2, <4>3
            <3>3. CASE m + 1 \notin s
                  <4>1. s \in SUBSET (1 .. m)
                        BY <2>2, <3>3
                  <4>2. g[s] = h[s] /\ (s # {} => g[s \ {Max(s)}] = h[s \ {Max(s)}])
                        BY <3>1, <3>3
                  <4>. QED BY <2>1, <4>1, <4>2 DEF Folded
            <3>. QED BY <3>2, <3>3
      <2>. HIDE DEF g
      <2>5. g = [s \in SUBSET (1 .. m + 1) |-> IF s = {} THEN b ELSE G[<<g[s \ {Max(s)}], Max(s)>>]]
            BY <2>3, <2>4
      <2>6. Folded(g, b, G, m + 1)
            BY <2>5 DEF Folded
      <2>. QED BY <2>3, <2>6
<1>. HIDE DEF P
<1>3. Nat \subseteq S
      <2>1. 0 \in S
            BY <1>1
      <2>2. \A m \in Nat : m \in S => m + 1 \in S
            BY <1>2
      <2>. HIDE DEF S
      <2>. QED BY <2>1, <2>2, NatSet
<1>4. P(n)
      BY <1>3
<1>. QED BY <1>4 DEF P

\* F is the results of the first k steps, for each k.
Results(F, V, b, G, n) ==
    /\ F \in [0 .. n -> V] /\ F[0] = b
    /\ \A k \in 1 .. n : F[k] = G[<<F[k - 1], k>>]

Follows(h, V, b, G, n) ==
    /\ h[{}] = b
    /\ \A k \in 1 .. n : h[1 .. k - 1] \in V => h[1 .. k] = G[<<h[1 .. k - 1], k>>]

\* Any function that is folded in this way gives them.
LEMMA FoldResults ==
    ASSUME NEW V, NEW b \in V, NEW n \in Nat, NEW G \in [V \X (1 .. n) -> V], NEW h,
           Follows(h, V, b, G, n)
    PROVE  \E F : Results(F, V, b, G, n) /\ F[n] = h[1 .. n]
<1>. DEFINE S == {k \in Nat : k <= n => h[1 .. k] \in V}
            F == [k \in 0 .. n |-> h[1 .. k]]
<1>. USE DEF Follows
<1>0. 1 .. 0 = {}
      OBVIOUS
<1>1. 0 \in S
      BY <1>0
<1>2. ASSUME NEW k \in Nat, k \in S PROVE k + 1 \in S
      <2>1. SUFFICES ASSUME k + 1 <= n PROVE h[1 .. k + 1] \in V
            OBVIOUS
      <2>2. k + 1 \in 1 .. n /\ k + 1 - 1 = k /\ h[1 .. k] \in V
            BY <1>2, <2>1
      <2>3. h[1 .. k + 1] = G[<<h[1 .. k], k + 1>>]
            BY <2>2
      <2>. QED BY <2>2, <2>3
<1>3. \A k \in 0 .. n : h[1 .. k] \in V
      <2>. HIDE DEF S
      <2>1. Nat \subseteq S
            BY <1>1, <1>2, NatSet
      <2>. QED BY <2>1 DEF S
<1>4. F \in [0 .. n -> V] /\ F[n] = h[1 .. n] /\ F[0] = b
      BY <1>0, <1>3
<1>5. ASSUME NEW k \in 1 .. n PROVE F[k] = G[<<F[k - 1], k>>]
      <2>1. k - 1 \in 0 .. n /\ k \in 0 .. n
            OBVIOUS
      <2>. QED BY <1>3, <2>1
<1>. HIDE DEF F
<1>. QED BY <1>4, <1>5 DEF Results

-----------------------------------------------------------------------------
(* The four folds of Sed.                                                  *)

FastCommandRuns(V, b, S, n) ==
    \E F \in [0 .. n -> V] :
       /\ F[0] = b /\ \A k \in 1 .. n : F[k] = FastCommand(F[k - 1], S[k])
       /\ FoldLeft(FastCommand, b, S) = F[n]

LEMMA FastCommandFold ==
    ASSUME NEW V, NEW b \in V, NEW S, NEW n \in Nat, DOMAIN S = 1 .. n,
           \A v \in V, k \in 1 .. n : FastCommand(v, S[k]) \in V
    PROVE  FastCommandRuns(V, b, S, n)
<1>. DEFINE G == [x \in V \X (1 .. n) |-> FastCommand(x[1], S[x[2]])]
            Again(h) == [s \in SUBSET DOMAIN S |->
                           IF s = {} THEN b ELSE FastCommand(h[s \ {Max(s)}], S[Max(s)])]
<1>1. G \in [V \X (1 .. n) -> V]
      OBVIOUS
<1>2. \E h : h = Again(h)
      <2>1. PICK h \in [SUBSET (1 .. n) -> V] : Folded(h, b, G, n)
            BY <1>1, Folding
      <2>2. ASSUME NEW s \in SUBSET (1 .. n) PROVE h[s] = Again(h)[s]
            BY <2>1, MaxIn DEF Folded
      <2>. QED BY <2>2
<1>3. PICK f : f = Again(f) /\ FoldLeft(FastCommand, b, S) = f[1 .. n]
      <2>1. FoldLeft(FastCommand, b, S) = (CHOOSE f : f = Again(f))[1 .. n]
            BY DEF FoldLeft, MapThenFoldSet
      <2>. HIDE DEF Again
      <2>. QED BY <1>2, <2>1
<1>4. f[{}] = b /\ \A k \in 1 .. n : f[1 .. k] = FastCommand(f[1 .. k - 1], S[k])
      <2>1. ASSUME NEW s \in SUBSET (1 .. n)
            PROVE  f[s] = IF s = {} THEN b ELSE FastCommand(f[s \ {Max(s)}], S[Max(s)])
            BY <1>3
      <2>2. f[{}] = b
            BY <2>1
      <2>3. ASSUME NEW k \in 1 .. n PROVE f[1 .. k] = FastCommand(f[1 .. k - 1], S[k])
            <3>1. 1 .. k \in SUBSET (1 .. n)
                  OBVIOUS
            <3>. k \in Nat \ {0}
                  OBVIOUS
            <3>2. Max(1 .. k) = k /\ (1 .. k) \ {k} = 1 .. k - 1 /\ 1 .. k # {}
                  BY MaxPrefix
            <3>3. f[1 .. k] = FastCommand(f[(1 .. k) \ {Max(1 .. k)}], S[Max(1 .. k)])
                  BY <2>1, <3>1, <3>2
            <3>. QED BY <3>2, <3>3
      <2>. QED BY <2>2, <2>3
<1>5. ASSUME NEW k \in 1 .. n, f[1 .. k - 1] \in V PROVE f[1 .. k] = G[<<f[1 .. k - 1], k>>]
      BY <1>4, <1>5
<1>6. PICK F : Results(F, V, b, G, n) /\ F[n] = f[1 .. n]
      <2>. HIDE DEF G
      <2>1. Follows(f, V, b, G, n)
            BY <1>4, <1>5 DEF Follows
      <2>. QED BY <1>1, <2>1, FoldResults
<1>7. ASSUME NEW k \in 1 .. n PROVE F[k] = FastCommand(F[k - 1], S[k])
      <2>1. F[k - 1] \in V /\ F[k] = G[<<F[k - 1], k>>]
            <3>1. k - 1 \in 0 .. n
                  OBVIOUS
            <3>. HIDE DEF G
            <3>. QED BY <1>6, <3>1 DEF Results
      <2>. QED BY <2>1
<1>. QED BY <1>3, <1>6, <1>7 DEF Results, FastCommandRuns

PushedRuns(V, b, S, n) ==
    \E F \in [0 .. n -> V] :
       /\ F[0] = b /\ \A k \in 1 .. n : F[k] = Pushed(F[k - 1], S[k])
       /\ FoldLeft(Pushed, b, S) = F[n]

LEMMA PushedResults ==
    ASSUME NEW V, NEW b \in V, NEW S, NEW n \in Nat, DOMAIN S = 1 .. n,
           \A v \in V, k \in 1 .. n : Pushed(v, S[k]) \in V
    PROVE  PushedRuns(V, b, S, n)
<1>. DEFINE G == [x \in V \X (1 .. n) |-> Pushed(x[1], S[x[2]])]
            Again(h) == [s \in SUBSET DOMAIN S |->
                           IF s = {} THEN b ELSE Pushed(h[s \ {Max(s)}], S[Max(s)])]
<1>1. G \in [V \X (1 .. n) -> V]
      OBVIOUS
<1>2. \E h : h = Again(h)
      <2>1. PICK h \in [SUBSET (1 .. n) -> V] : Folded(h, b, G, n)
            BY <1>1, Folding
      <2>2. ASSUME NEW s \in SUBSET (1 .. n) PROVE h[s] = Again(h)[s]
            BY <2>1, MaxIn DEF Folded
      <2>. QED BY <2>2
<1>3. PICK f : f = Again(f) /\ FoldLeft(Pushed, b, S) = f[1 .. n]
      <2>1. FoldLeft(Pushed, b, S) = (CHOOSE f : f = Again(f))[1 .. n]
            BY DEF FoldLeft, MapThenFoldSet
      <2>. HIDE DEF Again
      <2>. QED BY <1>2, <2>1
<1>4. f[{}] = b /\ \A k \in 1 .. n : f[1 .. k] = Pushed(f[1 .. k - 1], S[k])
      <2>1. ASSUME NEW s \in SUBSET (1 .. n)
            PROVE  f[s] = IF s = {} THEN b ELSE Pushed(f[s \ {Max(s)}], S[Max(s)])
            BY <1>3
      <2>2. f[{}] = b
            BY <2>1
      <2>3. ASSUME NEW k \in 1 .. n PROVE f[1 .. k] = Pushed(f[1 .. k - 1], S[k])
            <3>1. 1 .. k \in SUBSET (1 .. n)
                  OBVIOUS
            <3>. k \in Nat \ {0}
                  OBVIOUS
            <3>2. Max(1 .. k) = k /\ (1 .. k) \ {k} = 1 .. k - 1 /\ 1 .. k # {}
                  BY MaxPrefix
            <3>3. f[1 .. k] = Pushed(f[(1 .. k) \ {Max(1 .. k)}], S[Max(1 .. k)])
                  BY <2>1, <3>1, <3>2
            <3>. QED BY <3>2, <3>3
      <2>. QED BY <2>2, <2>3
<1>5. ASSUME NEW k \in 1 .. n, f[1 .. k - 1] \in V PROVE f[1 .. k] = G[<<f[1 .. k - 1], k>>]
      BY <1>4, <1>5
<1>6. PICK F : Results(F, V, b, G, n) /\ F[n] = f[1 .. n]
      <2>. HIDE DEF G
      <2>1. Follows(f, V, b, G, n)
            BY <1>4, <1>5 DEF Follows
      <2>. QED BY <1>1, <2>1, FoldResults
<1>7. ASSUME NEW k \in 1 .. n PROVE F[k] = Pushed(F[k - 1], S[k])
      <2>1. F[k - 1] \in V /\ F[k] = G[<<F[k - 1], k>>]
            <3>1. k - 1 \in 0 .. n
                  OBVIOUS
            <3>. HIDE DEF G
            <3>. QED BY <1>6, <3>1 DEF Results
      <2>. QED BY <2>1
<1>. QED BY <1>3, <1>6, <1>7 DEF Results, PushedRuns

LEMMA PushedFold ==
    ASSUME NEW V, NEW b \in V, NEW S, NEW n \in Nat, DOMAIN S = 1 .. n,
           \A v \in V, k \in 1 .. n : Pushed(v, S[k]) \in V
    PROVE  FoldLeft(Pushed, b, S) \in V
<1>1. PushedRuns(V, b, S, n)
      BY PushedResults
<1>. QED BY <1>1 DEF PushedRuns

LEMMA ClosedFold ==
    ASSUME NEW V, NEW b \in V, NEW S, NEW n \in Nat, DOMAIN S = 1 .. n,
           \A v \in V, k \in 1 .. n : Closed(v) \in V
    PROVE  FoldLeft(LAMBDA p, s : Closed(p), b, S) \in V
<1>. DEFINE G == [x \in V \X (1 .. n) |-> Closed(x[1])]
            Again(h) == [s \in SUBSET DOMAIN S |->
                           IF s = {} THEN b ELSE Closed(h[s \ {Max(s)}])]
<1>1. G \in [V \X (1 .. n) -> V]
      OBVIOUS
<1>2. \E h : h = Again(h)
      <2>1. PICK h \in [SUBSET (1 .. n) -> V] : Folded(h, b, G, n)
            BY <1>1, Folding
      <2>2. ASSUME NEW s \in SUBSET (1 .. n) PROVE h[s] = Again(h)[s]
            BY <2>1, MaxIn DEF Folded
      <2>. QED BY <2>2
<1>3. PICK f : f = Again(f) /\ FoldLeft(LAMBDA p, s : Closed(p), b, S) = f[1 .. n]
      <2>1. FoldLeft(LAMBDA p, s : Closed(p), b, S) = (CHOOSE f : f = Again(f))[1 .. n]
            BY DEF FoldLeft, MapThenFoldSet
      <2>. HIDE DEF Again
      <2>. QED BY <1>2, <2>1
<1>4. f[{}] = b /\ \A k \in 1 .. n : f[1 .. k] = Closed(f[1 .. k - 1])
      <2>1. ASSUME NEW s \in SUBSET (1 .. n)
            PROVE  f[s] = IF s = {} THEN b ELSE Closed(f[s \ {Max(s)}])
            BY <1>3
      <2>2. f[{}] = b
            BY <2>1
      <2>3. ASSUME NEW k \in 1 .. n PROVE f[1 .. k] = Closed(f[1 .. k - 1])
            <3>1. 1 .. k \in SUBSET (1 .. n)
                  OBVIOUS
            <3>. k \in Nat \ {0}
                  OBVIOUS
            <3>2. Max(1 .. k) = k /\ (1 .. k) \ {k} = 1 .. k - 1 /\ 1 .. k # {}
                  BY MaxPrefix
            <3>3. f[1 .. k] = Closed(f[(1 .. k) \ {Max(1 .. k)}])
                  BY <2>1, <3>1, <3>2
            <3>. QED BY <3>2, <3>3
      <2>. QED BY <2>2, <2>3
<1>5. ASSUME NEW k \in 1 .. n, f[1 .. k - 1] \in V PROVE f[1 .. k] = G[<<f[1 .. k - 1], k>>]
      BY <1>4, <1>5
<1>6. PICK F : Results(F, V, b, G, n) /\ F[n] = f[1 .. n]
      <2>. HIDE DEF G
      <2>1. Follows(f, V, b, G, n)
            BY <1>4, <1>5 DEF Follows
      <2>. QED BY <1>1, <2>1, FoldResults
<1>7. f[1 .. n] \in V
      BY <1>6 DEF Results
<1>. QED BY <1>3, <1>7

PrintedRuns(q, V, b, S, n) ==
    \E F \in [0 .. n -> V] :
       /\ F[0] = b /\ \A k \in 1 .. n : F[k] = Printed(q, F[k - 1], S[k])
       /\ FoldLeft(LAMBDA r, l : Printed(q, r, l), b, S) = F[n]

LEMMA PrintedFold ==
    ASSUME NEW q, NEW V, NEW b \in V, NEW S, NEW n \in Nat, DOMAIN S = 1 .. n,
           \A v \in V, k \in 1 .. n : Printed(q, v, S[k]) \in V
    PROVE  PrintedRuns(q, V, b, S, n)
<1>. DEFINE G == [x \in V \X (1 .. n) |-> Printed(q, x[1], S[x[2]])]
            Again(h) == [s \in SUBSET DOMAIN S |->
                           IF s = {} THEN b ELSE Printed(q, h[s \ {Max(s)}], S[Max(s)])]
<1>1. G \in [V \X (1 .. n) -> V]
      OBVIOUS
<1>2. \E h : h = Again(h)
      <2>1. PICK h \in [SUBSET (1 .. n) -> V] : Folded(h, b, G, n)
            BY <1>1, Folding
      <2>2. ASSUME NEW s \in SUBSET (1 .. n) PROVE h[s] = Again(h)[s]
            BY <2>1, MaxIn DEF Folded
      <2>. QED BY <2>2
<1>3. PICK f : f = Again(f) /\ FoldLeft(LAMBDA r, l : Printed(q, r, l), b, S) = f[1 .. n]
      <2>1. FoldLeft(LAMBDA r, l : Printed(q, r, l), b, S) = (CHOOSE f : f = Again(f))[1 .. n]
            BY DEF FoldLeft, MapThenFoldSet
      <2>. HIDE DEF Again
      <2>. QED BY <1>2, <2>1
<1>4. f[{}] = b /\ \A k \in 1 .. n : f[1 .. k] = Printed(q, f[1 .. k - 1], S[k])
      <2>1. ASSUME NEW s \in SUBSET (1 .. n)
            PROVE  f[s] = IF s = {} THEN b ELSE Printed(q, f[s \ {Max(s)}], S[Max(s)])
            BY <1>3
      <2>2. f[{}] = b
            BY <2>1
      <2>3. ASSUME NEW k \in 1 .. n PROVE f[1 .. k] = Printed(q, f[1 .. k - 1], S[k])
            <3>1. 1 .. k \in SUBSET (1 .. n)
                  OBVIOUS
            <3>. k \in Nat \ {0}
                  OBVIOUS
            <3>2. Max(1 .. k) = k /\ (1 .. k) \ {k} = 1 .. k - 1 /\ 1 .. k # {}
                  BY MaxPrefix
            <3>3. f[1 .. k] = Printed(q, f[(1 .. k) \ {Max(1 .. k)}], S[Max(1 .. k)])
                  BY <2>1, <3>1, <3>2
            <3>. QED BY <3>2, <3>3
      <2>. QED BY <2>2, <2>3
<1>5. ASSUME NEW k \in 1 .. n, f[1 .. k - 1] \in V PROVE f[1 .. k] = G[<<f[1 .. k - 1], k>>]
      BY <1>4, <1>5
<1>6. PICK F : Results(F, V, b, G, n) /\ F[n] = f[1 .. n]
      <2>. HIDE DEF G
      <2>1. Follows(f, V, b, G, n)
            BY <1>4, <1>5 DEF Follows
      <2>. QED BY <1>1, <2>1, FoldResults
<1>7. ASSUME NEW k \in 1 .. n PROVE F[k] = Printed(q, F[k - 1], S[k])
      <2>1. F[k - 1] \in V /\ F[k] = G[<<F[k - 1], k>>]
            <3>1. k - 1 \in 0 .. n
                  OBVIOUS
            <3>. HIDE DEF G
            <3>. QED BY <1>6, <3>1 DEF Results
      <2>. QED BY <2>1
<1>. QED BY <1>3, <1>6, <1>7 DEF Results, PrintedRuns

-----------------------------------------------------------------------------
(* Types.                                                                  *)

Line  == Seq(Letter)
Text  == Seq(Line)
Cycle == [pat : Text \ {<<>>}, no : Nat, subst : BOOLEAN, changed : Line \cup {NoText},
          extra : Nat, ins : Text, app : Text]

TypeOK ==
    /\ stmts \in Scripts /\ prog \in Seq(Statement) /\ quiet \in BOOLEAN /\ input \in Inputs
    /\ i \in Nat /\ hold \in Text \ {<<>>} /\ active \in [1 .. Len(prog) -> BOOLEAN]
    /\ cyc \in Cycle /\ pc \in Nat \ {0} /\ out \in Text
    /\ phase \in {"start", "run", "end", "no_print", "quit", "done"}
    /\ \A k \in 1 .. Len(prog) : prog[k].op \in {"b", "t"} => prog[k].to # 0

\* A function on 1 .. n is a sequence.
LEMMA Listed ==
    ASSUME NEW S, NEW n \in Nat, NEW f \in [1 .. n -> S]
    PROVE  f \in Seq(S) /\ Len(f) = n
  OBVIOUS

\* Overwriting a part of a sequence.
LEMMA Overwritten ==
    ASSUME NEW S, NEW s \in Seq(S), NEW k, NEW e \in S
    PROVE  [s EXCEPT ![k] = e] \in Seq(S) /\ Len([s EXCEPT ![k] = e]) = Len(s)
<1>1. s \in [1 .. Len(s) -> S] /\ Len(s) \in Nat
      BY LenProperties
<1>2. [s EXCEPT ![k] = e] \in [1 .. Len(s) -> S]
      BY <1>1
<1>. QED BY <1>1, <1>2, Listed

LEMMA PartOf ==
    ASSUME NEW S, NEW s \in Seq(S), NEW m \in Nat \ {0}, NEW n \in Int, n <= Len(s)
    PROVE  SubSeq(s, m, n) \in Seq(S)
<1>1. s \in [1 .. Len(s) -> S] /\ Len(s) \in Nat
      BY LenProperties
<1>2. ASSUME NEW k \in m .. n PROVE s[k] \in S
      BY <1>1
<1>. QED BY <1>2, SubSeqProperties

\* The statements whose command is one of O.
Among(O) == {s \in Statement : s.op \in O}

\* Parsing adds no command but the ends of blocks.
Parsed(O) == [cmds : Seq(Among(O)), stack : Seq(Nat)]

LEMMA Directed ==
    ASSUME NEW O, NEW s \in Among(O), NEW n \in Nat
    PROVE  [s EXCEPT !.to = n] \in Among(O)
  BY DEF Among, Statement

LEMMA BlockClosed ==
    ASSUME NEW O, "close" \in O, NEW c \in Seq(Among(O)), NEW j
    PROVE  Append([c EXCEPT ![j].to = Len(c) + 1],
                  [op |-> "close", a |-> NoAddr, x |-> "none", y |-> "none", f |-> {}, to |-> 0])
             \in Seq(Among(O))
<1>. DEFINE q == [c EXCEPT ![j].to = Len(c) + 1]
            e == [op |-> "close", a |-> NoAddr, x |-> "none", y |-> "none", f |-> {}, to |-> 0]
<1>1. c \in [1 .. Len(c) -> Among(O)] /\ Len(c) \in Nat /\ Len(c) + 1 \in Nat
      BY LenProperties
<1>2. q \in Seq(Among(O))
      <2>1. ASSUME NEW k \in 1 .. Len(c) PROVE q[k] \in Among(O)
            <3>1. q[k] = IF k = j THEN [c[k] EXCEPT !.to = Len(c) + 1] ELSE c[k]
                  BY <1>1
            <3>. QED BY <1>1, <3>1, Directed
      <2>2. q \in [1 .. Len(c) -> Among(O)]
            BY <1>1, <2>1
      <2>. QED BY <1>1, <2>2, Listed
<1>3. e \in Among(O)
      BY SedAssumption
      DEF SedAssumption, Among, Statement, Addr, NoAddr, NoSpec, Spec0, LineSpec, Control
<1>. HIDE DEF q, e
<1>4. Append(q, e) \in Seq(Among(O))
      BY <1>2, <1>3, AppendProperties
<1>. QED BY <1>4 DEF q, e

LEMMA ClosedParsed ==
    ASSUME NEW O, "close" \in O, NEW p \in Parsed(O)
    PROVE  Closed(p) \in Parsed(O)
<1>1. p.cmds \in Seq(Among(O)) /\ p.stack \in Seq(Nat)
      BY DEF Parsed
<1>2. Len(p.stack) \in Nat
      BY <1>1, LenProperties
<1>3. Front(p.stack) \in Seq(Nat)
      <2>. DEFINE t == p.stack
      <2>1. t \in Seq(Nat) /\ Len(t) - 1 \in Int /\ Len(t) - 1 <= Len(t)
            BY <1>1, <1>2
      <2>. HIDE DEF t
      <2>2. SubSeq(t, 1, Len(t) - 1) \in Seq(Nat)
            BY <2>1, PartOf
      <2>. QED BY <2>2 DEF Front, t
<1>. QED BY <1>1, <1>3, BlockClosed DEF Closed, Parsed

LEMMA PushedParsed ==
    ASSUME NEW O, "close" \in O, NEW p \in Parsed(O), NEW s \in Among(O)
    PROVE  Pushed(p, s) \in Parsed(O)
<1>1. p.cmds \in Seq(Among(O)) /\ p.stack \in Seq(Nat) /\ p = [cmds |-> p.cmds, stack |-> p.stack]
      BY DEF Parsed
<1>2. Append(p.cmds, s) \in Seq(Among(O)) /\ Append(p.stack, Len(p.cmds) + 1) \in Seq(Nat)
      BY <1>1, LenProperties, AppendProperties
<1>3. [s EXCEPT !.a = NoAddr] \in Among(O)
      BY SedAssumption
      DEF SedAssumption, Among, Statement, Addr, NoAddr, NoSpec, Spec0, LineSpec
<1>4. Append(p.cmds, [s EXCEPT !.a = NoAddr]) \in Seq(Among(O))
      BY <1>1, <1>3, AppendProperties
<1>5. \A c \in Seq(Among(O)) : [p EXCEPT !.cmds = c] \in Parsed(O)
      BY <1>1 DEF Parsed
<1>6. CASE s.op = "close"
      BY <1>6, ClosedParsed DEF Pushed
<1>7. CASE s.op = "open"
      BY <1>1, <1>2, <1>7 DEF Pushed, Parsed
<1>8. CASE s.op \in {"b", "t", ":"}
      BY <1>4, <1>5, <1>8 DEF Pushed
<1>9. CASE s.op \notin {"close", "open", "b", "t", ":"}
      BY <1>2, <1>5, <1>9 DEF Pushed
<1>. QED BY <1>6, <1>7, <1>8, <1>9

\* A parsed script has the commands of the script and the ends of its blocks,
\* and its branches go somewhere.
LEMMA ProgramTyped ==
    ASSUME NEW O, "close" \in O, NEW S \in Seq(Among(O))
    PROVE  /\ Program(S) \in Seq(Among(O))
           /\ \A k \in 1 .. Len(Program(S)) :
                 Program(S)[k].op \in {"b", "t"} => Program(S)[k].to # 0
<1>. DEFINE p == FoldLeft(Pushed, [cmds |-> <<>>, stack |-> <<>>], S)
            q == FoldLeft(LAMBDA r, s : Closed(r), p, p.stack)
            c == q.cmds
            at(l) == {k \in 1 .. Len(c) : c[k].op = ":" /\ c[k].x = l}
            goal(l) == IF at(l) = {} THEN Len(c) + 1 ELSE CHOOSE k \in at(l) : \A j \in at(l) : j <= k
            done == [k \in 1 .. Len(c) |->
                       IF c[k].op \in {"b", "t"} THEN [c[k] EXCEPT !.to = goal(c[k].x)] ELSE c[k]]
<1>1. S \in [1 .. Len(S) -> Among(O)] /\ Len(S) \in Nat /\ DOMAIN S = 1 .. Len(S)
      BY LenProperties
<1>2. p \in Parsed(O)
      <2>1. [cmds |-> <<>>, stack |-> <<>>] \in Parsed(O)
            BY DEF Parsed
      <2>2. \A v \in Parsed(O), k \in 1 .. Len(S) : Pushed(v, S[k]) \in Parsed(O)
            BY <1>1, PushedParsed
      <2>. QED BY <1>1, <2>1, <2>2, PushedFold
<1>. HIDE DEF p
<1>3. q \in Parsed(O)
      <2>1. p.stack \in Seq(Nat)
            BY <1>2 DEF Parsed
      <2>2. Len(p.stack) \in Nat /\ DOMAIN p.stack = 1 .. Len(p.stack)
            BY <2>1, LenProperties
      <2>3. \A v \in Parsed(O), k \in 1 .. Len(p.stack) : Closed(v) \in Parsed(O)
            BY ClosedParsed
      <2>. QED BY <1>2, <2>2, <2>3, ClosedFold
<1>. HIDE DEF q
<1>4. c \in Seq(Among(O))
      BY <1>3 DEF Parsed
<1>. HIDE DEF c
<1>5. c \in [1 .. Len(c) -> Among(O)] /\ Len(c) \in Nat
      BY <1>4, LenProperties
<1>6. ASSUME NEW l PROVE goal(l) \in 1 .. Len(c) + 1
      <2>1. CASE at(l) = {}
            BY <1>5, <2>1
      <2>2. CASE at(l) # {}
            <3>1. PICK k \in at(l) : \A j \in at(l) : j <= k
                  BY <1>5, <2>2, Greatest
            <3>2. (CHOOSE m \in at(l) : \A j \in at(l) : j <= m) \in at(l)
                  BY <3>1
            <3>3. at(l) \subseteq 1 .. Len(c) + 1
                  BY <1>5
            <3>4. goal(l) \in at(l)
                  BY <2>2, <3>2
            <3>. HIDE DEF at, goal
            <3>. QED BY <3>3, <3>4
      <2>. QED BY <2>1, <2>2
<1>. HIDE DEF goal
<1>7. \A l : goal(l) \in Nat /\ goal(l) # 0
      BY <1>5, <1>6
<1>8. done \in [1 .. Len(c) -> Among(O)]
      <2>1. ASSUME NEW k \in 1 .. Len(c) PROVE done[k] \in Among(O)
            BY <1>5, <1>7, Directed
      <2>. QED BY <2>1
<1>9. \A k \in 1 .. Len(c) : done[k].op \in {"b", "t"} => done[k].to # 0
      <2>1. ASSUME NEW k \in 1 .. Len(c), done[k].op \in {"b", "t"} PROVE done[k].to # 0
            <3>1. c[k] \in Among(O)
                  BY <1>5
            <3>2. CASE c[k].op \in {"b", "t"}
                  <4>1. done[k] = [c[k] EXCEPT !.to = goal(c[k].x)]
                        BY <3>2
                  <4>. HIDE DEF done
                  <4>. QED BY <1>7, <3>1, <4>1 DEF Among, Statement
            <3>3. CASE c[k].op \notin {"b", "t"}
                  BY <2>1, <3>3
            <3>. QED BY <3>2, <3>3
      <2>. QED BY <2>1
<1>10. Program(S) = done
      BY DEF Program, done, goal, c, q, p
<1>. HIDE DEF done
<1>. QED BY <1>5, <1>8, <1>9, <1>10, Listed

LEMMA Flattened ==
    ASSUME NEW S, NEW s \in Seq(Seq(S))
    PROVE  FlattenSeq(s) \in Seq(S)
<1>. DEFINE n == Len(s)
            V == Seq(S)
            G == [x \in V \X (1 .. n) |-> IF x[2] = 1 THEN s[1] ELSE x[1] \o s[x[2]]]
            Again(f) == [k \in 1 .. n |-> IF k = 1 THEN s[k] ELSE f[k - 1] \o s[k]]
<1>1. n \in Nat /\ s \in [1 .. n -> V] /\ <<>> \in V
      BY LenProperties
<1>2. CASE n = 0
      BY <1>1, <1>2 DEF FlattenSeq
<1>3. CASE n # 0
      <2>1. G \in [V \X (1 .. n) -> V]
            <3>1. ASSUME NEW x \in V \X (1 .. n) PROVE G[x] \in V
                  BY <1>1, ConcatProperties
            <3>. QED BY <3>1
      <2>2. \A v \in V, k \in 1 .. n : G[<<v, k>>] = IF k = 1 THEN s[1] ELSE v \o s[k]
            OBVIOUS
      <2>. HIDE DEF n, V, G
      <2>3. PICK h \in [SUBSET (1 .. n) -> V] : Folded(h, <<>>, G, n)
            BY <1>1, <2>1, Folding
      <2>4. \E f : f = Again(f)
            <3>. DEFINE f == [k \in 1 .. n |-> h[1 .. k]]
            <3>1. ASSUME NEW k \in 1 .. n PROVE h[1 .. k] = G[<<h[1 .. k - 1], k>>]
                  <4>. k \in Nat \ {0}
                        BY <1>1
                  <4>1. 1 .. k \in SUBSET (1 .. n)
                        BY <1>1
                  <4>2. Max(1 .. k) = k /\ (1 .. k) \ {k} = 1 .. k - 1 /\ 1 .. k # {}
                        BY MaxPrefix
                  <4>. QED BY <2>3, <4>1, <4>2 DEF Folded
            <3>2. ASSUME NEW k \in 1 .. n PROVE f[k] = Again(f)[k]
                  <4>1. 1 .. k - 1 \in SUBSET (1 .. n) /\ h[1 .. k - 1] \in V
                        BY <1>1
                  <4>2. CASE k = 1
                        BY <2>2, <3>1, <4>1, <4>2
                  <4>3. CASE k # 1
                        <5>1. k - 1 \in 1 .. n
                              BY <1>1, <4>3
                        <5>. QED BY <2>2, <3>1, <4>1, <4>3, <5>1
                  <4>. QED BY <4>2, <4>3
            <3>3. f = Again(f)
                  BY <3>2
            <3>. QED BY <3>3
      <2>5. PICK f : f = Again(f) /\ FlattenSeq(s) = f[n]
            <3>1. FlattenSeq(s) = (CHOOSE f : f = Again(f))[n]
                  BY <1>3 DEF FlattenSeq, n
            <3>. HIDE DEF Again
            <3>. QED BY <2>4, <3>1
      <2>6. ASSUME NEW k \in 1 .. n PROVE f[k] = IF k = 1 THEN s[k] ELSE f[k - 1] \o s[k]
            BY <2>5
      <2>. DEFINE T == {k \in Nat : k + 1 <= n => f[k + 1] \in V}
      <2>7. 0 \in T
            BY <1>1, <1>3, <2>6
      <2>8. ASSUME NEW k \in Nat, k \in T PROVE k + 1 \in T
            <3>1. SUFFICES ASSUME k + 2 <= n PROVE f[k + 2] \in V
                  OBVIOUS
            <3>2. PICK m \in 1 .. n : m = k + 2 /\ m - 1 = k + 1 /\ m # 1
                  BY <1>1, <3>1
            <3>3. f[m - 1] \in V
                  BY <1>1, <2>8, <3>1, <3>2
            <3>4. f[m] = f[m - 1] \o s[m]
                  BY <2>6, <3>2
            <3>. QED BY <1>1, <3>2, <3>3, <3>4, ConcatProperties DEF V
      <2>9. n - 1 \in T
            <3>. HIDE DEF T
            <3>1. Nat \subseteq T
                  BY <2>7, <2>8, NatSet
            <3>. QED BY <1>1, <1>3, <3>1
      <2>. QED BY <1>1, <1>3, <2>5, <2>9 DEF V
<1>. QED BY <1>2, <1>3

LEMMA TimesTyped ==
    ASSUME NEW lines \in Text, NEW k \in Nat
    PROVE  Times(lines, k) \in Text
<1>1. [j \in 1 .. k |-> lines] \in Seq(Seq(Line))
      BY Listed DEF Text
<1>. QED BY <1>1, Flattened DEF Times, Text

LEMMA MappedTyped ==
    ASSUME NEW x, NEW y \in Letter, NEW pat \in Text
    PROVE  Mapped(x, y, pat) \in Text /\ Len(Mapped(x, y, pat)) = Len(pat)
<1>1. Len(pat) \in Nat /\ pat \in [1 .. Len(pat) -> Line]
      BY LenProperties DEF Text
<1>2. ASSUME NEW l \in 1 .. Len(pat)
      PROVE  [k \in 1 .. Len(pat[l]) |-> IF pat[l][k] = x THEN y ELSE pat[l][k]] \in Line
      <2>. DEFINE line == pat[l]
      <2>1. line \in Line
            BY <1>1
      <2>. HIDE DEF line
      <2>2. Len(line) \in Nat /\ line \in [1 .. Len(line) -> Letter]
            BY <2>1, LenProperties DEF Line
      <2>3. [k \in 1 .. Len(line) |-> IF line[k] = x THEN y ELSE line[k]] \in [1 .. Len(line) -> Letter]
            BY <2>2
      <2>4. [k \in 1 .. Len(line) |-> IF line[k] = x THEN y ELSE line[k]] \in Line
            BY <2>2, <2>3, Listed DEF Line
      <2>. QED BY <2>4 DEF line
<1>3. Mapped(x, y, pat) \in [1 .. Len(pat) -> Line]
      BY <1>2 DEF Mapped
<1>. QED BY <1>1, <1>3, Listed DEF Text

LEMMA SubstTyped ==
    ASSUME NEW s \in Statement, NEW pat \in Text
    PROVE  Subst(s, pat) \in Text /\ Len(Subst(s, pat)) = Len(pat)
<1>. DEFINE l == SelectInSeq(pat, LAMBDA line : s.x \in Range(line))
            j == SelectInSeq(pat[l], LAMBDA c : c = s.x)
            new == [pat EXCEPT ![l] = [@ EXCEPT ![j] = s.y]]
<1>1. Len(pat) \in Nat /\ pat \in [1 .. Len(pat) -> Line] /\ s.y \in Letter
      BY LenProperties DEF Text, Statement
<1>2. [pat EXCEPT ![l][j] = s.y] \in Text /\ Len([pat EXCEPT ![l][j] = s.y]) = Len(pat)
      <2>. HIDE DEF l, j
      <2>1. ASSUME NEW k \in 1 .. Len(pat) PROVE [pat EXCEPT ![l][j] = s.y][k] \in Line
            <3>1. [pat EXCEPT ![l][j] = s.y][k] = IF k = l THEN [pat[k] EXCEPT ![j] = s.y] ELSE pat[k]
                  BY <1>1
            <3>2. pat[k] \in Line
                  BY <1>1
            <3>3. [pat[k] EXCEPT ![j] = s.y] \in Line
                  BY <1>1, <3>2, Overwritten DEF Line
            <3>. QED BY <3>1, <3>2, <3>3
      <2>2. [pat EXCEPT ![l][j] = s.y] \in [1 .. Len(pat) -> Line]
            BY <1>1, <2>1
      <2>. QED BY <1>1, <2>2, Listed DEF Text
<1>. QED BY <1>1, <1>2, MappedTyped DEF Subst

LEMMA NotEmpty ==
    ASSUME NEW S, NEW s \in Seq(S), Len(s) > 0
    PROVE  s # <<>>
  OBVIOUS

LEMMA SaidTyped ==
    ASSUME TypeOK, NEW printed \in BOOLEAN
    PROVE  Said(printed) \in Text
<1>1. /\ cyc.ins \in Text /\ cyc.pat \in Text /\ cyc.extra \in Nat /\ cyc.changed \in Line \cup {NoText}
      BY DEF TypeOK, Cycle
<1>2. Times(cyc.pat, cyc.extra) \in Text
      BY <1>1, TimesTyped
<1>3. <<>> \in Text /\ (cyc.changed # NoText => <<cyc.changed>> \in Text)
      BY <1>1 DEF Text
<1>4. \A s, t \in Text : s \o t \in Text
      BY ConcatProperties DEF Text
<1>. QED BY <1>1, <1>2, <1>3, <1>4 DEF Said

LEMMA LookTyped ==
    ASSUME TypeOK, pc <= Len(prog), Look
    PROVE  active' \in [1 .. Len(prog) -> BOOLEAN] /\ Cmd \in Statement
<1>1. pc \in 1 .. Len(prog) /\ Cmd \in Statement
      BY DEF TypeOK, Cmd
<1>. QED BY <1>1 DEF TypeOK, Look

LEMMA InitTyped == Init => TypeOK
<1>. SUFFICES ASSUME Init PROVE TypeOK
     OBVIOUS
<1>1. stmts \in Seq(Statement) /\ input \in Seq(Line)
      BY SedAssumption DEF SedAssumption, Init, Line
<1>. DEFINE O == {s.op : s \in Statement} \cup {"close"}
<1>2. \A s \in Statement : s \in Among(O)
      BY DEF Among
<1>3. stmts \in Seq(Among(O))
      BY <1>1, <1>2
<1>4. "close" \in O
      OBVIOUS
<1>. HIDE DEF O
<1>5. prog \in Seq(Among(O)) /\ \A k \in 1 .. Len(prog) : prog[k].op \in {"b", "t"} => prog[k].to # 0
      BY <1>3, <1>4, ProgramTyped DEF Init
<1>6. prog \in Seq(Statement) /\ Len(prog) \in Nat
      <2>1. Among(O) \subseteq Statement
            BY DEF Among
      <2>. QED BY <1>5, <2>1, LenProperties
<1>7. << <<>> >> \in Text \ {<<>>} /\ <<>> \in Text
      BY DEF Text, Line
<1>8. cyc \in Cycle
      BY <1>7 DEF Init, Fresh, Cycle
<1>. QED BY <1>5, <1>6, <1>7, <1>8 DEF Init, TypeOK

LEMMA NextTyped == TypeOK /\ [Next]_vars => TypeOK'
<1>. SUFFICES ASSUME TypeOK, [Next]_vars PROVE TypeOK'
     OBVIOUS
<1>1. input \in Text /\ Len(input) \in Nat /\ \A k \in 1 .. Len(input) : input[k] \in Line
      BY SedAssumption, LenProperties DEF SedAssumption, TypeOK, Line, Text
<1>2. \A l \in Line : <<l>> \in Text \ {<<>>}
      BY DEF Text
<1>3. \A s, t \in Text : s \o t \in Text /\ (s # <<>> => s \o t # <<>> /\ t \o s # <<>>)
      BY ConcatProperties, EmptySeq DEF Text
<1>4. \A x \in Letter : <<x>> \in Line
      BY DEF Line
<1>5. \A t \in Text, l \in Line : Append(t, l) \in Text \ {<<>>}
      BY AppendProperties DEF Text
<1>6. Len(prog) \in Nat
      BY LenProperties DEF TypeOK
<1>7. \A s \in Statement : s.x \in Letter /\ s.y \in Letter /\ s.to \in Nat
      BY DEF Statement
<1>0. \A p \in Text \ {<<>>} : [cyc EXCEPT !.pat = p] \in Cycle
      BY DEF TypeOK, Cycle
<1>8. ASSUME UNCHANGED vars PROVE TypeOK'
      BY <1>8 DEF TypeOK, vars, given
<1>9. CASE Start
      <2>1. CASE i < Len(input)
            <3>1. input[i + 1] \in Line
                  BY <1>1, <2>1 DEF TypeOK
            <3>2. <<input[i + 1]>> \in Text \ {<<>>} /\ i + 1 \in Nat /\ <<>> \in Text
                  BY <1>2, <3>1 DEF TypeOK, Text
            <3>3. cyc' = Fresh(input[i + 1], i + 1)
                  BY <1>9, <2>1 DEF Start
            <3>4. cyc' \in Cycle
                  BY <3>2, <3>3 DEF Fresh, Cycle
            <3>. QED BY <1>9, <2>1, <3>4 DEF TypeOK, Start, given
      <2>2. CASE ~ (i < Len(input))
            BY <1>9, <2>2 DEF TypeOK, Start, given
      <2>. QED BY <2>1, <2>2
<1>10. CASE EndCycle
      <2>1. cyc.app \in Text
            BY DEF TypeOK, Cycle
      <2>2. Said(TRUE) \in Text
            BY SaidTyped
      <2>3. out \in Text /\ out' = out \o Said(TRUE) \o cyc.app
            BY <1>10 DEF TypeOK, EndCycle
      <2>4. out' \in Text
            BY <1>3, <2>1, <2>2, <2>3
      <2>5. i' = i + 1 /\ phase' = "start" /\ UNCHANGED <<stmts, prog, quiet, input, hold, active, cyc, pc>>
            BY <1>10 DEF EndCycle, given
      <2>. QED BY <2>4, <2>5 DEF TypeOK
<1>11. CASE EndAll
      <2>1. (phase = "quit") \in BOOLEAN
            OBVIOUS
      <2>. QED BY <1>3, <1>11, <2>1, SaidTyped DEF TypeOK, EndAll, given
<1>12. CASE Block
      BY <1>6, <1>7, <1>12, LookTyped DEF Block, Running, TypeOK, given
<1>13. CASE NoOp
      BY <1>13 DEF NoOp, Running, Step, TypeOK, given
<1>14. CASE Branch
      <2>1. pc \in 1 .. Len(prog) /\ Cmd \in Statement /\ Cmd.to # 0
            BY <1>6, <1>14 DEF Branch, Running, TypeOK, Cmd
      <2>. QED BY <1>7, <1>14, <2>1 DEF Branch, TypeOK, given
<1>15. CASE BranchIfSubst
      <2>1. pc \in 1 .. Len(prog) /\ Cmd \in Statement /\ Cmd.to # 0
            BY <1>6, <1>15 DEF BranchIfSubst, Running, TypeOK, Cmd
      <2>2. cyc' \in Cycle
            BY <1>15 DEF BranchIfSubst, TypeOK, Cycle
      <2>. QED BY <1>7, <1>15, <2>1, <2>2 DEF BranchIfSubst, TypeOK, given
<1>16. CASE Next_
      <2>1. out' \in Text
            BY <1>3, <1>16 DEF Next_, Shown, TypeOK, Cycle
      <2>2. cyc' \in Cycle
            <3>1. CASE i + 1 < Len(input)
                  <4>1. input[i + 2] \in Line /\ i + 2 \in Nat
                        BY <1>1, <3>1 DEF TypeOK
                  <4>. QED BY <1>2, <1>16, <4>1 DEF Next_, TypeOK, Cycle
            <3>2. CASE ~ (i + 1 < Len(input))
                  BY <1>1, <1>16, <3>2 DEF Next_, TypeOK
            <3>. QED BY <3>1, <3>2
      <2>. QED BY <1>16, <2>1, <2>2, LookTyped DEF Next_, Running, TypeOK, given
<1>17. CASE AppendNext
      <2>1. cyc' \in Cycle
            <3>1. CASE Hit /\ i + 1 < Len(input)
                  <4>1. input[i + 2] \in Line
                        BY <1>1, <3>1 DEF TypeOK
                  <4>2. Append(cyc.pat, input[i + 2]) \in Text \ {<<>>}
                        BY <1>5, <4>1 DEF TypeOK, Cycle
                  <4>. QED BY <1>0, <1>17, <3>1, <4>2 DEF AppendNext
            <3>2. CASE ~ (Hit /\ i + 1 < Len(input))
                  BY <1>17, <3>2 DEF AppendNext, TypeOK
            <3>. QED BY <3>1, <3>2
      <2>. QED BY <1>17, <2>1, LookTyped DEF AppendNext, Running, TypeOK, given
<1>18. CASE DeleteFirst
      <2>1. cyc' \in Cycle
            <3>1. CASE Hit /\ Len(cyc.pat) > 1
                  <4>1. cyc.pat \in Text /\ cyc.pat # <<>>
                        BY DEF TypeOK, Cycle
                  <4>2. PICK t \in Text : t = Tail(cyc.pat) /\ Len(t) = Len(cyc.pat) - 1
                        BY <4>1, HeadTailProperties DEF Text
                  <4>3. Len(cyc.pat) \in Nat
                        BY <4>1, LenProperties DEF Text
                  <4>5. Len(t) > 0
                        BY <3>1, <4>2, <4>3
                  <4>4. t # <<>>
                        BY <4>5, NotEmpty DEF Text
                  <4>. QED BY <1>18, <3>1, <4>2, <4>4 DEF DeleteFirst, TypeOK, Cycle
            <3>2. CASE ~ (Hit /\ Len(cyc.pat) > 1)
                  BY <1>18, <3>2 DEF DeleteFirst, TypeOK
            <3>. QED BY <3>1, <3>2
      <2>2. i' \in Nat /\ pc' \in Nat \ {0} /\ phase' \in {"start", "run"}
            BY <1>18 DEF DeleteFirst, Running, TypeOK
      <2>. QED BY <1>18, <2>1, <2>2, LookTyped DEF DeleteFirst, Running, TypeOK, given
<1>19. CASE PrintFirst
      <2>1. Head(cyc.pat) \in Line
            BY HeadTailProperties DEF TypeOK, Cycle, Text
      <2>. QED BY <1>5, <1>19, <2>1, LookTyped DEF PrintFirst, Running, TypeOK, given
<1>20. CASE Hold
      <2>. DEFINE p == cyc.pat
                  q == CASE Cmd.op = "h" -> <<p, p>>
                         [] Cmd.op = "H" -> <<p, hold \o p>>
                         [] Cmd.op = "g" -> <<hold, hold>>
                         [] Cmd.op = "G" -> <<p \o hold, hold>>
                         [] Cmd.op = "x" -> <<hold, p>>
      <2>2. p \in Text \ {<<>>} /\ hold \in Text \ {<<>>}
            BY DEF TypeOK, Cycle
      <2>3. p \o hold \in Text \ {<<>>} /\ hold \o p \in Text \ {<<>>}
            BY <1>3, <2>2
      <2>4. Cmd.op \in {"h", "H", "g", "G", "x"}
            BY <1>20 DEF Hold
      <2>5. q[1] \in Text \ {<<>>} /\ q[2] \in Text \ {<<>>}
            <3>. HIDE DEF p
            <3>. QED BY <2>2, <2>3, <2>4
      <2>6. \/ cyc' = [cyc EXCEPT !.pat = q[1]] /\ hold' = q[2]
            \/ UNCHANGED <<cyc, hold>>
            BY <1>20 DEF Hold
      <2>1. cyc' \in Cycle /\ hold' \in Text \ {<<>>}
            <3>. HIDE DEF q
            <3>. QED BY <1>0, <2>5, <2>6 DEF TypeOK
      <2>. QED BY <1>20, <2>1, LookTyped DEF Hold, TypeOK, given
<1>21. CASE Delete
      BY <1>21, LookTyped DEF Delete, Running, TypeOK, given
<1>22. CASE Quit
      BY <1>22, LookTyped DEF Quit, Running, TypeOK, given
<1>23. ASSUME NEW c \in Cycle, phase = "run", pc <= Len(prog), Look, Step(c) PROVE TypeOK'
      BY <1>23, LookTyped DEF Step, TypeOK, given
<1>24. ASSUME phase = "run", pc <= Len(prog), Look PROVE cyc \in Cycle /\ Cmd \in Statement
      BY <1>24, LookTyped DEF TypeOK
<1>25. CASE PrintSpace
      <2>1. [cyc EXCEPT !.extra = @ + 1] \in Cycle
            BY DEF TypeOK, Cycle
      <2>. QED BY <1>23, <1>24, <1>25, <2>1 DEF PrintSpace, Running
<1>26. CASE Insert
      <2>1. Cmd \in Statement /\ cyc \in Cycle
            BY <1>24, <1>26 DEF Insert, Running
      <2>2. [cyc EXCEPT !.ins = Append(@, <<Cmd.x>>)] \in Cycle
            BY <1>4, <1>5, <1>7, <2>1 DEF Cycle
      <2>. QED BY <1>23, <1>26, <2>1, <2>2 DEF Insert, Running
<1>27. CASE Appended
      <2>1. Cmd \in Statement /\ cyc \in Cycle
            BY <1>24, <1>27 DEF Appended, Running
      <2>2. [cyc EXCEPT !.app = Append(@, <<Cmd.x>>)] \in Cycle
            BY <1>4, <1>5, <1>7, <2>1 DEF Cycle
      <2>. QED BY <1>23, <1>27, <2>1, <2>2 DEF Appended, Running
<1>28. CASE Change
      <2>1. Cmd \in Statement /\ cyc \in Cycle
            BY <1>24, <1>28 DEF Change, Running
      <2>2. [cyc EXCEPT !.changed = <<Cmd.x>>] \in Cycle
            BY <1>4, <1>7, <2>1 DEF Cycle
      <2>. QED BY <1>23, <1>28, <2>1, <2>2 DEF Change, Running
<1>29. CASE Transliterate
      <2>1. Cmd \in Statement /\ cyc \in Cycle
            BY <1>24, <1>29 DEF Transliterate, Running
      <2>2. Mapped(Cmd.x, Cmd.y, cyc.pat) \in Text \ {<<>>}
            BY <1>7, <2>1, MappedTyped, EmptySeq DEF Cycle, Text
      <2>3. [cyc EXCEPT !.pat = Mapped(Cmd.x, Cmd.y, @)] \in Cycle
            BY <2>1, <2>2 DEF Cycle
      <2>. QED BY <1>23, <1>29, <2>1, <2>3 DEF Transliterate, Running
<1>30. CASE Substitute
      <2>1. Cmd \in Statement /\ cyc \in Cycle
            BY <1>24, <1>30 DEF Substitute, Running
      <2>2. Subst(Cmd, cyc.pat) \in Text \ {<<>>}
            BY <2>1, SubstTyped, EmptySeq DEF Cycle, Text
      <2>3. ASSUME NEW t \in Text \ {<<>>}, NEW e \in Nat
            PROVE  [cyc EXCEPT !.pat = t, !.subst = TRUE, !.extra = e] \in Cycle
            BY DEF TypeOK, Cycle
      <2>4. (IF "p" \in Cmd.f THEN cyc.extra + 1 ELSE cyc.extra) \in Nat
            BY DEF TypeOK, Cycle
      <2>5. [cyc EXCEPT !.pat = Subst(Cmd, @), !.subst = TRUE,
                        !.extra = IF "p" \in Cmd.f THEN @ + 1 ELSE @] \in Cycle
            BY <2>2, <2>3, <2>4
      <2>. QED BY <1>23, <1>30, <2>1, <2>5 DEF Substitute, Running
<1>. QED BY <1>8, <1>9, <1>10, <1>11, <1>12, <1>13, <1>14, <1>15, <1>16, <1>17, <1>18, <1>19,
            <1>20, <1>21, <1>22, <1>25, <1>26, <1>27, <1>28, <1>29, <1>30 DEF Next

\* The variables of apply_sed_script keep their types: the pattern and hold
\* spaces are never empty, the command counter is never before the first command,
\* every cycle is over in a known way.
THEOREM TypesHold == Spec => []TypeOK
<1>. QED BY InitTyped, NextTyped, PTL DEF Spec

-----------------------------------------------------------------------------
(* A script that edits nothing.                                            *)

\* Nothing is queued for the end of the cycle.
Unedited == cyc.extra = 0 /\ cyc.ins = <<>> /\ cyc.app = <<>> /\ cyc.changed = NoText

\* What is out, with the pattern space if there is one, is the input as far as
\* it is read; the commands are those of the script.
Walked ==
    /\ phase \in {"start", "run", "no_print", "done"}
    /\ \A k \in 1 .. Len(prog) : prog[k].op \in Walking
    /\ phase = "start" => i <= Len(input) /\ out = SubSeq(input, 1, i)
    /\ phase = "run" => i < Len(input) /\ Unedited /\ out \o cyc.pat = SubSeq(input, 1, i + 1)
    /\ phase = "no_print" => Unedited /\ out = input
    /\ phase = "done" => out = input

WalkOnly == ~quiet /\ Ops \subseteq Walking
WalkInv  == WalkOnly => Walked

LEMMA OneMoreLine ==
    ASSUME NEW t \in Text, NEW k \in Nat, k < Len(t)
    PROVE  SubSeq(t, 1, k) \o <<t[k + 1]>> = SubSeq(t, 1, k + 1) /\ t[k + 1] \in Line
<1>1. Len(t) \in Nat /\ t \in [1 .. Len(t) -> Line] /\ t \in Seq(Line)
      BY LenProperties DEF Text
<1>2. 1 \in 1 .. Len(t) /\ k + 1 \in 1 .. Len(t) /\ k + 1 - 1 = k
      BY <1>1
<1>3. SubSeq(t, 1, k + 1) = SubSeq(t, 1, k + 1 - 1) \o <<t[k + 1]>>
      BY <1>1, <1>2, SubSeqRecursiveSecond
<1>. QED BY <1>1, <1>2, <1>3

LEMMA AppendLast ==
    ASSUME NEW o \in Text, NEW p \in Text, NEW l \in Line
    PROVE  o \o Append(p, l) = (o \o p) \o <<l>>
<1>. <<l>> \in Seq(Line)
      OBVIOUS
<1>1. PICK s \in Seq(Line) : s = <<l>>
      OBVIOUS
<1>2. Append(p, l) = p \o s
      BY <1>1, AppendIsConcat DEF Text
<1>3. o \in Seq(Line) /\ p \in Seq(Line)
      BY DEF Text
<1>4. (o \o p) \o s = o \o (p \o s)
      BY <1>3, ConcatAssociative
<1>. QED BY <1>1, <1>2, <1>4

\* With nothing queued, the end of a cycle prints the pattern space.
LEMMA UneditedSaid ==
    ASSUME TypeOK, ~quiet, Unedited
    PROVE  Said(TRUE) = cyc.pat /\ Said(FALSE) = <<>>
<1>1. cyc.pat \in Text
      BY DEF TypeOK, Cycle
<1>2. Times(cyc.pat, 0) = <<>>
      <2>1. [j \in 1 .. 0 |-> cyc.pat] = <<>>
            BY Listed, EmptySeq
      <2>. QED BY <2>1 DEF Times, FlattenSeq
<1>3. \A t \in Text : t \o <<>> = t /\ <<>> \o t = t
      BY ConcatEmptySeq DEF Text
<1>4. <<>> \in Text
      BY DEF Text
<1>. QED BY <1>1, <1>2, <1>3, <1>4 DEF Said, Unedited

LEMMA WalkInit == Init => WalkInv
<1>. SUFFICES ASSUME Init, WalkOnly PROVE Walked
     BY DEF WalkInv
<1>1. stmts \in Seq(Statement) /\ input \in Text
      BY SedAssumption DEF SedAssumption, Init, Line, Text
<1>2. Len(stmts) \in Nat /\ stmts \in [1 .. Len(stmts) -> Statement]
      BY <1>1, LenProperties
<1>3. \A k \in 1 .. Len(stmts) : stmts[k] \in Among(Walking)
      BY <1>2 DEF WalkOnly, Ops, Among
<1>4. stmts \in Seq(Among(Walking))
      <2>1. stmts \in [1 .. Len(stmts) -> Among(Walking)]
            BY <1>2, <1>3
      <2>. QED BY <1>2, <2>1, Listed
<1>5. "close" \in Walking
      BY DEF Walking
<1>6. prog \in Seq(Among(Walking))
      BY <1>4, <1>5, ProgramTyped DEF Init
<1>7. \A k \in 1 .. Len(prog) : prog[k].op \in Walking
      <2>1. prog \in [1 .. Len(prog) -> Among(Walking)]
            BY <1>6, LenProperties
      <2>. QED BY <2>1 DEF Among
<1>8. SubSeq(input, 1, 0) = <<>> /\ Len(input) \in Nat
      BY <1>1, SubSeqEmpty, LenProperties DEF Text
<1>. QED BY <1>7, <1>8 DEF Init, Walked

LEMMA WalkStep == TypeOK /\ WalkInv /\ [Next]_vars => WalkInv'
<1>. SUFFICES ASSUME TypeOK, WalkInv, [Next]_vars, WalkOnly' PROVE Walked'
     BY DEF WalkInv
<1>1. UNCHANGED given
      BY DEF Next, vars, given, Start, EndCycle, EndAll, Block, NoOp, Step, Branch, BranchIfSubst, Next_,
             AppendNext, DeleteFirst, PrintFirst, Hold, Delete, Quit, PrintSpace, Insert,
             Appended, Change, Transliterate, Substitute
<1>2. Walked /\ ~quiet
      <2>1. WalkOnly
            BY <1>1 DEF given, WalkOnly, Ops
      <2>. QED BY <2>1 DEF WalkInv, WalkOnly
<1>. DEFINE L == Len(input)
<1>3. input \in Text /\ L \in Nat
      BY SedAssumption, LenProperties DEF SedAssumption, TypeOK, Line, Text
<1>4. out \in Text /\ cyc.pat \in Text /\ i \in Nat /\ cyc \in Cycle
      BY DEF TypeOK, Cycle
<1>5. SubSeq(input, 1, L) = input
      BY <1>3, SubSeqFull DEF Text
<1>6. \A k \in Nat : k < L => /\ SubSeq(input, 1, k) \o <<input[k + 1]>> = SubSeq(input, 1, k + 1)
                              /\ input[k + 1] \in Line
      BY <1>3, OneMoreLine
<1>7. \A t \in Text : t \o <<>> = t /\ <<>> \o t = t
      BY ConcatEmptySeq DEF Text
<1>8. Len(prog) \in Nat /\ pc \in Nat \ {0}
      BY LenProperties DEF TypeOK
<1>9. pc <= Len(prog) => Cmd.op \in Walking
      BY <1>2, <1>8 DEF Walked, Cmd
<1>. HIDE DEF L
<1>10. ASSUME UNCHANGED vars PROVE Walked'
      BY <1>2, <1>10 DEF Walked, Unedited, vars, given
<1>11. ASSUME phase = "run", phase' = "run", UNCHANGED <<given, i, out>>, cyc'.pat = cyc.pat,
              cyc'.extra = cyc.extra, cyc'.ins = cyc.ins, cyc'.app = cyc.app,
              cyc'.changed = cyc.changed
       PROVE  Walked'
      BY <1>2, <1>11 DEF Walked, Unedited, given
<1>12. CASE Start
      <2>1. out = SubSeq(input, 1, i) /\ i <= L
            BY <1>2, <1>12 DEF Walked, Start, L
      <2>2. CASE i < L
            <3>1. cyc' = Fresh(input[i + 1], i + 1) /\ phase' = "run"
                  BY <1>12, <2>2 DEF Start, L
            <3>2. cyc'.pat = <<input[i + 1]>> /\ Unedited'
                  BY <3>1 DEF Fresh, Unedited
            <3>3. out' \o cyc'.pat = SubSeq(input, 1, i + 1)
                  BY <1>4, <1>6, <1>12, <2>1, <2>2, <3>2 DEF Start
            <3>. QED BY <1>1, <1>2, <1>12, <2>2, <3>1, <3>2, <3>3 DEF Walked, Start, given, L
      <2>3. CASE i = L
            <3>1. phase' = "done" /\ out' = input
                  BY <1>5, <1>12, <2>1, <2>3 DEF Start, L
            <3>. QED BY <1>1, <1>2, <3>1 DEF Walked, given
      <2>. QED BY <1>3, <1>4, <2>1, <2>2, <2>3
<1>13. CASE EndCycle
      <2>1. /\ phase = "run" /\ Unedited /\ i < L /\ out \o cyc.pat = SubSeq(input, 1, i + 1)
            BY <1>2, <1>13 DEF Walked, EndCycle, L
      <2>2. out \o cyc.pat \in Text
            BY <1>4, ConcatProperties DEF Text
      <2>3. Said(TRUE) = cyc.pat /\ cyc.app = <<>>
            BY <1>2, <2>1, UneditedSaid DEF Unedited
      <2>4. out' = out \o Said(TRUE) \o cyc.app /\ i' = i + 1 /\ phase' = "start"
            BY <1>13 DEF EndCycle
      <2>5. out' = SubSeq(input, 1, i + 1)
            BY <1>7, <2>1, <2>2, <2>3, <2>4
      <2>6. input' = input /\ prog' = prog /\ i + 1 <= L
            BY <1>1, <1>3, <1>4, <2>1 DEF given
      <2>. QED BY <1>2, <2>4, <2>5, <2>6 DEF Walked, L
<1>14. CASE EndAll
      <2>1. phase = "no_print" /\ Unedited /\ out = input
            BY <1>2, <1>14 DEF Walked, EndAll
      <2>2. Said(phase = "quit") = <<>>
            BY <1>2, <2>1, UneditedSaid
      <2>3. out' = input /\ phase' = "done"
            BY <1>4, <1>7, <1>14, <2>1, <2>2 DEF EndAll
      <2>. QED BY <1>1, <1>2, <2>3 DEF Walked, given
<1>15. CASE Block
      BY <1>11, <1>15 DEF Block, Running
<1>16. CASE NoOp
      BY <1>11, <1>16 DEF NoOp, Running, Step
<1>17. CASE Branch
      BY <1>11, <1>17 DEF Branch, Running
<1>18. CASE BranchIfSubst
      <2>1. /\ phase = "run" /\ phase' = "run" /\ UNCHANGED <<given, i, out>>
            /\ cyc' = [cyc EXCEPT !.subst = FALSE]
            BY <1>18 DEF BranchIfSubst, Running
      <2>. QED BY <1>4, <1>11, <2>1 DEF Cycle
<1>19. CASE Next_
      <2>1. phase = "run" /\ Unedited /\ i < L /\ out \o cyc.pat = SubSeq(input, 1, i + 1)
            BY <1>2, <1>19 DEF Walked, Next_, Running, L
      <2>2. CASE ~Hit
            BY <1>11, <1>19, <2>1, <2>2 DEF Next_
      <2>3. CASE Hit
            <3>1. out' = SubSeq(input, 1, i + 1) /\ i' = i + 1
                  BY <1>2, <1>19, <2>1, <2>3 DEF Next_, Shown
            <3>2. CASE i + 1 >= L
                  <4>1. i + 1 = L /\ phase' = "no_print" /\ cyc' = cyc
                        BY <1>3, <1>4, <1>19, <2>1, <2>3, <3>2 DEF Next_, L
                  <4>. QED BY <1>1, <1>2, <1>5, <2>1, <3>1, <4>1 DEF Walked, Unedited, given
            <3>3. CASE i + 1 < L
                  <4>1. /\ cyc' = [cyc EXCEPT !.pat = <<input[i + 2]>>, !.no = i + 2, !.subst = FALSE]
                        /\ phase' = "run"
                        BY <1>3, <1>4, <1>19, <2>1, <2>3, <3>3 DEF Next_, L
                  <4>2. cyc'.pat = <<input[i + 2]>> /\ Unedited'
                        BY <1>4, <2>1, <4>1 DEF Cycle, Unedited
                  <4>3. SubSeq(input, 1, i + 1) \o <<input[i + 2]>> = SubSeq(input, 1, i + 2)
                        <5>1. i + 1 \in Nat /\ (i + 1) + 1 = i + 2
                              BY <1>4
                        <5>. QED BY <1>6, <3>3, <5>1
                  <4>4. input' = input /\ prog' = prog /\ i' + 1 = i + 2 /\ i' < L
                        BY <1>1, <1>3, <1>4, <3>1, <3>3 DEF given
                  <4>5. out' \o cyc'.pat = SubSeq(input, 1, i' + 1)
                        BY <3>1, <4>2, <4>3, <4>4
                  <4>. QED BY <1>2, <4>1, <4>2, <4>4, <4>5 DEF Walked, L
            <3>. QED BY <1>3, <1>4, <3>2, <3>3
      <2>. QED BY <2>2, <2>3
<1>20. CASE AppendNext
      <2>1. phase = "run" /\ Unedited /\ i < L /\ out \o cyc.pat = SubSeq(input, 1, i + 1)
            BY <1>2, <1>20 DEF Walked, AppendNext, Running, L
      <2>2. CASE Hit /\ i + 1 < L
            <3>1. /\ i' = i + 1 /\ cyc' = [cyc EXCEPT !.pat = Append(@, input[i + 2])]
                  /\ phase' = "run" /\ out' = out
                  BY <1>20, <2>1, <2>2 DEF AppendNext, L
            <3>2. cyc'.pat = Append(cyc.pat, input[i + 2]) /\ Unedited'
                  BY <1>4, <2>1, <3>1 DEF Cycle, Unedited
            <3>3. /\ SubSeq(input, 1, i + 1) \o <<input[i + 2]>> = SubSeq(input, 1, i + 2)
                  /\ input[i + 2] \in Line
                  <4>1. i + 1 \in Nat /\ (i + 1) + 1 = i + 2
                        BY <1>4
                  <4>. QED BY <1>6, <2>2, <4>1
            <3>4. out \o Append(cyc.pat, input[i + 2]) = (out \o cyc.pat) \o <<input[i + 2]>>
                  BY <1>4, <3>3, AppendLast
            <3>6. out' \o cyc'.pat = SubSeq(input, 1, i + 2)
                  BY <2>1, <3>1, <3>2, <3>3, <3>4
            <3>9. input' = input /\ prog' = prog /\ i' + 1 = i + 2 /\ i' < L
                  BY <1>1, <1>3, <1>4, <2>2, <3>1 DEF given
            <3>. QED BY <1>2, <3>1, <3>2, <3>6, <3>9 DEF Walked, L
      <2>3. CASE ~ (Hit /\ i + 1 < L)
            BY <1>11, <1>20, <2>1, <2>3 DEF AppendNext, L
      <2>. QED BY <2>2, <2>3
<1>21. CASE Hold
      <2>1. Cmd.op \in {"h", "H"}
            BY <1>9, <1>21 DEF Hold, Walking
      <2>2. cyc'.pat = cyc.pat /\ cyc'.extra = cyc.extra /\ cyc'.ins = cyc.ins /\ cyc'.app = cyc.app
            /\ cyc'.changed = cyc.changed
            BY <1>4, <1>21, <2>1 DEF Hold, Cycle
      <2>. QED BY <1>11, <1>21, <2>2 DEF Hold
<1>22. CASE DeleteFirst \/ PrintFirst \/ Delete \/ Quit
      BY <1>9, <1>22 DEF DeleteFirst, PrintFirst, Delete, Quit, Running, Walking
<1>23. CASE PrintSpace \/ Insert \/ Appended \/ Change \/ Transliterate \/ Substitute
      BY <1>9, <1>23 DEF PrintSpace, Insert, Appended, Change, Transliterate, Substitute, Running, Walking
<1>. QED BY <1>10, <1>12, <1>13, <1>14, <1>15, <1>16, <1>17, <1>18, <1>19, <1>20, <1>21, <1>22,
            <1>23 DEF Next

\* However a script walks over its input, with n and N, branches and blocks, every
\* line comes out, once and in order (apply_sed_script).
THEOREM EveryLineKept == Spec => []LinesKept
<1>1. TypeOK /\ WalkInv => LinesKept
      BY DEF WalkInv, WalkOnly, Walked, LinesKept
<1>. QED BY <1>1, InitTyped, NextTyped, WalkInit, WalkStep, PTL DEF Spec

-----------------------------------------------------------------------------
(* The fast path.                                                          *)

FastOps == {"i", "a", "c", "d", "p", "q", "s", "y"}

\* A statement both interpreters take alike: a range is from a number, and does
\* not end before it starts.
Alike(s) ==
    /\ s \in Statement /\ s.op \in FastOps
    /\ IsRange(s) => /\ s.a.start.k = "num" /\ s.a.start.n # 0
                     /\ s.a.end.k # "pat"
                     /\ s.a.end.k = "last" \/ s.a.start.n <= s.a.end.n

LEMMA SimpleAlike ==
    ASSUME TypeOK, Simple
    PROVE  \A k \in 1 .. Len(stmts) : Alike(stmts[k])
<1>1. stmts \in Seq(Statement)
      BY SedAssumption DEF SedAssumption, TypeOK
<1>2. ASSUME NEW k \in 1 .. Len(stmts) PROVE Alike(stmts[k])
      <2>1. stmts[k] \in Statement
            BY <1>1
      <2>2. ~ IsControl(stmts[k]) /\ stmts[k].op # "open"
            BY DEF Simple, IsScript, Ops
      <2>3. stmts[k].op \in FastOps
            BY <2>1, <2>2 DEF IsControl, Statement, Control, Texts, FastOps
      <2>4. IsRange(stmts[k]) => stmts[k].a.end.k # "pat"
            BY <2>2 DEF IsControl
      <2>. QED BY <2>1, <2>3, <2>4 DEF Simple, Alike
<1>. QED BY <1>2

\* Such a script is its own program.
LEMMA AlikeProgram ==
    ASSUME NEW S \in Seq(Statement), \A k \in 1 .. Len(S) : S[k].op \in FastOps
    PROVE  Program(S) = S
<1>. DEFINE n == Len(S)
            b == [cmds |-> <<>>, stack |-> <<>>]
            V == [cmds : Seq(Statement), stack : {<<>>}]
            p == FoldLeft(Pushed, b, S)
            q == FoldLeft(LAMBDA r, s : Closed(r), p, p.stack)
<1>1. n \in Nat /\ S \in [1 .. n -> Statement] /\ DOMAIN S = 1 .. n
      BY LenProperties
<1>2. ASSUME NEW v \in V, NEW k \in 1 .. n
      PROVE  Pushed(v, S[k]) = [v EXCEPT !.cmds = Append(@, S[k])] /\ Pushed(v, S[k]) \in V
      <2>1. Pushed(v, S[k]) = [v EXCEPT !.cmds = Append(@, S[k])]
            BY DEF Pushed, FastOps
      <2>2. Append(v.cmds, S[k]) \in Seq(Statement)
            BY <1>1, AppendProperties
      <2>. QED BY <2>1, <2>2
<1>3. b \in V
      OBVIOUS
<1>4. PICK F \in [0 .. n -> V] : /\ F[0] = b /\ \A k \in 1 .. n : F[k] = Pushed(F[k - 1], S[k])
                                 /\ p = F[n]
      <2>1. \A v \in V, k \in 1 .. n : Pushed(v, S[k]) \in V
            BY <1>2
      <2>. HIDE DEF V, b, n
      <2>2. PushedRuns(V, b, S, n)
            BY <1>1, <1>3, <2>1, PushedResults
      <2>. QED BY <2>2 DEF PushedRuns
<1>. HIDE DEF p
<1>. DEFINE T == {k \in Nat : k <= n => F[k].cmds = SubSeq(S, 1, k)}
<1>5. 0 \in T
      BY <1>1, <1>4, SubSeqEmpty
<1>6. ASSUME NEW k \in Nat, k \in T PROVE k + 1 \in T
      <2>1. SUFFICES ASSUME k + 1 <= n PROVE F[k + 1].cmds = SubSeq(S, 1, k + 1)
            OBVIOUS
      <2>2. k + 1 \in 1 .. n /\ k + 1 - 1 = k /\ 1 \in 1 .. n /\ k \in 0 .. n
            BY <1>1, <2>1
      <2>3. F[k + 1] = Pushed(F[k], S[k + 1]) /\ F[k] \in V
            <3>1. F[k] \in V
                  <4>. HIDE DEF V, n
                  <4>. QED BY <1>4, <2>2
            <3>. HIDE DEF V, n, T
            <3>. QED BY <1>4, <2>2, <3>1
      <2>4. F[k + 1].cmds = Append(F[k].cmds, S[k + 1])
            <3>1. PICK v \in V, m \in 1 .. n : v = F[k] /\ m = k + 1
                  BY <2>2, <2>3
            <3>2. Pushed(v, S[m]) = [v EXCEPT !.cmds = Append(@, S[m])]
                  BY <1>2
            <3>3. Pushed(v, S[m]).cmds = Append(v.cmds, S[m])
                  BY <3>2
            <3>. QED BY <2>3, <3>1, <3>3
      <2>5. F[k].cmds = SubSeq(S, 1, k) /\ F[k].cmds \in Seq(Statement)
            BY <1>6, <2>1, <2>3
      <2>6. Append(F[k].cmds, S[k + 1]) = F[k].cmds \o <<S[k + 1]>>
            BY <1>1, <2>2, <2>5, AppendIsConcat
      <2>7. SubSeq(S, 1, k + 1) = SubSeq(S, 1, k) \o <<S[k + 1]>>
            BY <2>2, SubSeqRecursiveSecond
      <2>. QED BY <2>4, <2>5, <2>6, <2>7
<1>7. p = [cmds |-> S, stack |-> <<>>]
      <2>1. Nat \subseteq T
            <3>. HIDE DEF T
            <3>. QED BY <1>5, <1>6, NatSet
      <2>2. F[n].cmds = S
            BY <1>1, <2>1, SubSeqFull
      <2>3. F[n] \in V
            BY <1>1, <1>4
      <2>. QED BY <1>4, <2>2, <2>3
<1>8. q = p
      <2>1. p.stack = <<>>
            BY <1>7
      <2>2. DOMAIN p.stack = 1 .. 0
            BY <2>1
      <2>3. \A v \in {p}, k \in 1 .. 0 : Closed(v) \in {p}
            OBVIOUS
      <2>4. p \in {p} /\ 0 \in Nat
            OBVIOUS
      <2>5. q \in {p}
            BY <2>2, <2>3, <2>4, ClosedFold
      <2>. QED BY <2>5
<1>. HIDE DEF q
<1>9. q.cmds = S
      BY <1>7, <1>8
<1>10. ASSUME NEW k \in 1 .. Len(S) PROVE S[k].op \notin {"b", "t"}
      BY DEF FastOps
<1>. QED BY <1>1, <1>9, <1>10 DEF Program, q, p

LineState ==
    [line : Line, no : Nat, total : Nat, keep : BOOLEAN, extra : Nat, ins : Text, app : Text,
     changed : Line \cup {NoText}, stop : BOOLEAN, quit : BOOLEAN]
Untouched(text, no) ==
    [line |-> text[no], no |-> no, total |-> Len(text), keep |-> TRUE, extra |-> 0,
     ins |-> <<>>, app |-> <<>>, changed |-> NoText, stop |-> FALSE, quit |-> FALSE]

LEMMA FastCommandTyped ==
    ASSUME NEW l \in LineState, NEW s \in Statement, s.op \in FastOps
    PROVE  FastCommand(l, s) \in LineState
<1>1. /\ s.x \in Letter /\ s.y \in Letter /\ <<s.x>> \in Line
      /\ l.line \in Line /\ l.ins \in Text /\ l.app \in Text /\ l.extra \in Nat
      BY DEF LineState, Statement, Line
<1>2. <<l.line>> \in Text /\ Len(<<l.line>>) = 1
      BY <1>1 DEF Text
<1>3. ASSUME NEW t \in Text, Len(t) = 1 PROVE t[1] \in Line
      BY <1>3, LenProperties DEF Text
<1>4. Mapped(s.x, s.y, <<l.line>>)[1] \in Line
      BY <1>1, <1>2, <1>3, MappedTyped
<1>5. Subst(s, <<l.line>>)[1] \in Line
      BY <1>2, <1>3, SubstTyped
<1>6. Append(l.ins, <<s.x>>) \in Text /\ Append(l.app, <<s.x>>) \in Text
      BY <1>1, AppendProperties DEF Text
<1>7. CASE l.stop \/ ~ Matches(s, l.no, l.total, l.line)
      BY <1>7 DEF FastCommand
<1>8. CASE ~ (l.stop \/ ~ Matches(s, l.no, l.total, l.line))
      <2>1. CASE s.op = "i"
            BY <1>6, <1>8, <2>1 DEF FastCommand, LineState
      <2>2. CASE s.op = "a"
            BY <1>6, <1>8, <2>2 DEF FastCommand, LineState
      <2>3. CASE s.op = "c"
            BY <1>1, <1>8, <2>3 DEF FastCommand, LineState
      <2>4. CASE s.op = "y"
            BY <1>4, <1>8, <2>4 DEF FastCommand, LineState
      <2>5. CASE s.op = "d"
            BY <1>8, <2>5 DEF FastCommand, LineState
      <2>7. CASE s.op = "q"
            BY <1>8, <2>7 DEF FastCommand, LineState
      <2>8. CASE s.op = "p"
            BY <1>8, <2>8 DEF FastCommand, LineState
      <2>6. CASE s.op = "s"
            <3>1. ASSUME NEW e \in Nat, NEW t \in Line
                  PROVE  [l EXCEPT !.line = t, !.extra = e] \in LineState
                  BY DEF LineState
            <3>2. (IF "p" \in s.f /\ Occurs(s.x, <<l.line>>) THEN l.extra + 1 ELSE l.extra) \in Nat
                  BY <1>1
            <3>3. FastCommand(l, s) =
                    [l EXCEPT !.line = Subst(s, <<@>>)[1],
                              !.extra = IF "p" \in s.f /\ Occurs(s.x, <<l.line>>) THEN @ + 1 ELSE @]
                  BY <1>8, <2>6 DEF FastCommand
            <3>. QED BY <1>5, <3>1, <3>2, <3>3
      <2>. QED BY <2>1, <2>2, <2>3, <2>4, <2>5, <2>6, <2>7, <2>8 DEF FastOps
<1>. QED BY <1>7, <1>8

\* What the fast path makes of a line with the first k statements.
IsProgress(F, S, text, no) ==
    /\ F \in [0 .. Len(S) -> LineState] /\ F[0] = Untouched(text, no)
    /\ \A k \in 1 .. Len(S) : F[k] = FastCommand(F[k - 1], S[k])
    /\ FastLine(S, text, no) = F[Len(S)]
Progress(S, text, no) == CHOOSE F : IsProgress(F, S, text, no)

Script(S) == S \in Seq(Statement) /\ \A k \in 1 .. Len(S) : S[k].op \in FastOps

LEMMA ProgressIs ==
    ASSUME NEW S, Script(S), NEW text \in Text, NEW no \in 1 .. Len(text)
    PROVE  IsProgress(Progress(S, text, no), S, text, no)
<1>1. /\ Len(S) \in Nat /\ S \in [1 .. Len(S) -> Statement] /\ DOMAIN S = 1 .. Len(S)
      /\ \A k \in 1 .. Len(S) : S[k].op \in FastOps
      BY LenProperties DEF Script
<1>2. Untouched(text, no) \in LineState
      <2>1. Len(text) \in Nat /\ text[no] \in Line /\ <<>> \in Text
            BY LenProperties DEF Text
      <2>. QED BY <2>1 DEF Untouched, LineState
<1>3. \A v \in LineState, k \in 1 .. Len(S) : FastCommand(v, S[k]) \in LineState
      BY <1>1, FastCommandTyped
<1>4. FastCommandRuns(LineState, Untouched(text, no), S, Len(S))
      BY <1>1, <1>2, <1>3, FastCommandFold
<1>5. \E F : IsProgress(F, S, text, no)
      BY <1>4 DEF FastCommandRuns, IsProgress, FastLine, Untouched
<1>. QED BY <1>5 DEF Progress

\* A line given up is left as it is.
LEMMA StopLasts ==
    ASSUME NEW S, Script(S), NEW text, NEW no, NEW F, IsProgress(F, S, text, no),
           NEW k \in 0 .. Len(S), F[k].stop
    PROVE  F[Len(S)] = F[k]
<1>. DEFINE T == {d \in Nat : k + d <= Len(S) => F[k + d] = F[k]}
<1>1. Len(S) \in Nat
      BY LenProperties DEF Script
<1>2. 0 \in T
      OBVIOUS
<1>3. ASSUME NEW d \in Nat, d \in T PROVE d + 1 \in T
      <2>1. SUFFICES ASSUME k + (d + 1) <= Len(S) PROVE F[k + (d + 1)] = F[k]
            OBVIOUS
      <2>2. PICK j \in 1 .. Len(S) : j = k + (d + 1) /\ j - 1 = k + d
            BY <1>1, <2>1
      <2>3. F[j - 1] = F[k]
            BY <1>1, <1>3, <2>1, <2>2
      <2>4. F[j] = FastCommand(F[j - 1], S[j])
            BY DEF IsProgress
      <2>. QED BY <2>2, <2>3, <2>4 DEF FastCommand
<1>4. Nat \subseteq T
      <2>. HIDE DEF T
      <2>. QED BY <1>2, <1>3, NatSet
<1>5. PICK d \in Nat : k + d = Len(S)
      <2>1. Len(S) - k \in Nat /\ k + (Len(S) - k) = Len(S)
            BY <1>1
      <2>. QED BY <2>1
<1>. QED BY <1>1, <1>4, <1>5

\* What it prints of the first k lines, and whether it has quit.
Output == [out : Text, quit : BOOLEAN]
IsOutput(R, S, text, q) ==
    /\ R \in [0 .. Len(text) -> Output] /\ R[0] = [out |-> <<>>, quit |-> FALSE]
    /\ \A k \in 1 .. Len(text) : R[k] = Printed(q, R[k - 1], FastLine(S, text, k))
    /\ Fast(S, text, q) = R[Len(text)].out
Upto(S, text, q) == CHOOSE R : IsOutput(R, S, text, q)

LEMMA PrintedTyped ==
    ASSUME NEW q, NEW r \in Output, NEW l \in LineState
    PROVE  Printed(q, r, l) \in Output
<1>1. /\ l.line \in Line /\ l.ins \in Text /\ l.app \in Text /\ l.extra \in Nat
      /\ l.changed \in Line \cup {NoText} /\ l.quit \in BOOLEAN /\ r.out \in Text
      BY DEF LineState, Output
<1>2. <<l.line>> \in Text /\ <<>> \in Text /\ (l.changed # NoText => <<l.changed>> \in Text)
      BY <1>1 DEF Text
<1>3. \A s, t \in Text : s \o t \in Text
      BY ConcatProperties DEF Text
<1>4. Times(<<l.line>>, l.extra) \in Text
      BY <1>1, <1>2, TimesTyped
<1>. DEFINE shown == IF l.changed # NoText THEN <<l.changed>>
                     ELSE IF ~ l.keep THEN <<>>
                     ELSE (IF q THEN <<>> ELSE <<l.line>>) \o Times(<<l.line>>, l.extra)
<1>5. shown \in Text
      BY <1>2, <1>3, <1>4
<1>6. r.out \o l.ins \o shown \o l.app \in Text
      <2>. HIDE DEF shown
      <2>. QED BY <1>1, <1>3, <1>5
<1>. QED BY <1>1, <1>6 DEF Printed, Output

LEMMA UptoIs ==
    ASSUME NEW S, Script(S), NEW text \in Text, NEW q
    PROVE  IsOutput(Upto(S, text, q), S, text, q)
<1>. DEFINE n == Len(text)
            b == [out |-> <<>>, quit |-> FALSE]
            all == [no \in 1 .. Len(text) |-> FastLine(S, text, no)]
<1>1. n \in Nat /\ DOMAIN all = 1 .. n /\ \A k \in 1 .. n : all[k] = FastLine(S, text, k)
      BY LenProperties DEF Text
<1>2. b \in Output
      BY DEF Output, Text
<1>3. ASSUME NEW v \in Output, NEW k \in 1 .. n PROVE Printed(q, v, all[k]) \in Output
      <2>1. Len(S) \in Nat
            BY LenProperties DEF Script
      <2>2. FastLine(S, text, k) \in LineState
            BY <2>1, ProgressIs DEF IsProgress
      <2>. QED BY <2>2, PrintedTyped
<1>4. PrintedRuns(q, Output, b, all, n)
      <2>1. \A v \in Output, k \in 1 .. n : Printed(q, v, all[k]) \in Output
            BY <1>3
      <2>. HIDE DEF n, b, all
      <2>. QED BY <1>1, <1>2, <2>1, PrintedFold
<1>5. PICK R \in [0 .. n -> Output] :
         /\ R[0] = b /\ \A k \in 1 .. n : R[k] = Printed(q, R[k - 1], all[k])
         /\ FoldLeft(LAMBDA r, l : Printed(q, r, l), b, all) = R[n]
      BY <1>4 DEF PrintedRuns
<1>6. Fast(S, text, q) = R[n].out
      BY <1>5 DEF Fast
<1>7. IsOutput(R, S, text, q)
      <2>. HIDE DEF all
      <2>. QED BY <1>1, <1>5, <1>6 DEF IsOutput
<1>. QED BY <1>7 DEF Upto

LEMMA QuitLasts ==
    ASSUME NEW S, NEW text \in Text, NEW q, NEW R, IsOutput(R, S, text, q),
           NEW k \in 0 .. Len(text), R[k].quit
    PROVE  R[Len(text)] = R[k]
<1>. DEFINE T == {d \in Nat : k + d <= Len(text) => R[k + d] = R[k]}
<1>1. Len(text) \in Nat
      BY LenProperties DEF Text
<1>2. 0 \in T
      OBVIOUS
<1>3. ASSUME NEW d \in Nat, d \in T PROVE d + 1 \in T
      <2>1. SUFFICES ASSUME k + (d + 1) <= Len(text) PROVE R[k + (d + 1)] = R[k]
            OBVIOUS
      <2>2. PICK j \in 1 .. Len(text) : j = k + (d + 1) /\ j - 1 = k + d
            BY <1>1, <2>1
      <2>3. R[j - 1] = R[k]
            BY <1>1, <1>3, <2>1, <2>2
      <2>4. R[j] = Printed(q, R[j - 1], FastLine(S, text, j))
            BY DEF IsOutput
      <2>. QED BY <2>2, <2>3, <2>4 DEF Printed
<1>4. Nat \subseteq T
      <2>. HIDE DEF T
      <2>. QED BY <1>2, <1>3, NatSet
<1>5. PICK d \in Nat : k + d = Len(text)
      <2>1. Len(text) - k \in Nat /\ k + (Len(text) - k) = Len(text)
            BY <1>1
      <2>. QED BY <2>1
<1>. QED BY <1>1, <1>4, <1>5

-----------------------------------------------------------------------------
(* The two interpreters, side by side.                                     *)

\* The range a is open after line n.
Open(a, n, total) == a.start.n <= n /\ ~ Ends(a.end, n, total, <<>>)

GivesUp == Ops \cap {"d", "q"} # {}

\* The cycle is the fast path's state l of the line after i.
Seen(l) ==
    /\ l.no = i + 1 /\ l.total = Len(input)
    /\ cyc.no = i + 1 /\ cyc.pat = <<l.line>> /\ cyc.changed = l.changed
    /\ cyc.extra = l.extra /\ cyc.ins = l.ins /\ cyc.app = l.app

OpenTo(n) ==
    \A k \in 1 .. Len(prog) :
       IsRange(prog[k]) /\ ~ GivesUp => (active[k] <=> Open(prog[k].a, n, Len(input)))

\* At line i + 1 and before statement pc, as far as the fast path with pc - 1.
Abreast ==
    LET l == Progress(stmts, input, i + 1)[pc - 1]
    IN  /\ i < Len(input) /\ pc <= Len(prog) + 1
        /\ Seen(l) /\ l.keep /\ ~ l.stop /\ ~ l.quit
        /\ \A k \in 1 .. Len(prog) :
              IsRange(prog[k]) /\ ~ GivesUp =>
                 (active[k] <=> Open(prog[k].a, IF k < pc THEN i + 1 ELSE i, Len(input)))
HasQuit ==
    LET l == Progress(stmts, input, i + 1)[Len(stmts)]
    IN  GivesUp /\ i < Len(input) /\ Seen(l) /\ l.keep /\ l.quit

NoTexts == cyc.ins = <<>> /\ cyc.app = <<>> /\ cyc.changed = NoText

Together ==
    /\ prog = stmts /\ phase \in {"start", "run", "quit", "done"}
    /\ phase # "done" =>
         LET r == Upto(stmts, input, quiet)[i] IN i <= Len(input) /\ out = r.out /\ ~ r.quit
    /\ phase = "start" => OpenTo(i)
    /\ phase = "run" => Abreast
    /\ phase = "quit" => HasQuit
    /\ phase \in {"run", "quit"} /\ GivesUp => NoTexts
    /\ phase = "done" => out = Upto(stmts, input, quiet)[Len(input)].out
AgreeInv == Simple => Together

LEMMA InputTyped ==
    ASSUME TypeOK
    PROVE  /\ stmts \in Seq(Statement) /\ input \in Text /\ Len(input) \in Nat /\ Len(stmts) \in Nat
           /\ \A k \in 1 .. Len(input) : input[k] \in Line
<1>1. stmts \in Seq(Statement) /\ input \in Text
      BY SedAssumption DEF SedAssumption, TypeOK, Line, Text
<1>. QED BY <1>1, LenProperties DEF Text

LEMMA SimpleScript ==
    ASSUME TypeOK, Simple
    PROVE  Script(stmts)
  BY InputTyped, SimpleAlike DEF Script, Alike

\* A statement is taken by both or by neither, and then its range is open in the
\* first if it goes on in the second.
LEMMA HitMatches ==
    ASSUME TypeOK, Simple, prog = stmts, Abreast, pc <= Len(prog), NEW l, Seen(l)
    PROVE  /\ Hit <=> Matches(Cmd, l.no, l.total, l.line)
           /\ Look /\ IsRange(Cmd) /\ ~ GivesUp => (active'[pc] <=> Open(Cmd.a, i + 1, Len(input)))
<1>1. pc \in 1 .. Len(prog) /\ Alike(Cmd) /\ Cmd = prog[pc] /\ i \in Nat /\ Len(input) \in Nat
      BY SimpleAlike, InputTyped DEF TypeOK, Cmd
<1>2. i + 1 <= Len(input)
      BY <1>1 DEF Abreast
<1>3. CASE ~ HasAddr(Cmd)
      <2>1. ~ IsRange(Cmd)
            BY <1>3 DEF HasAddr, IsRange, NoAddr
      <2>. QED BY <1>3, <2>1 DEF Hit, Matches
<1>4. CASE HasAddr(Cmd) /\ ~ IsRange(Cmd)
      BY <1>4 DEF Hit, Matches, Seen
<1>5. CASE IsRange(Cmd)
      <2>1. HasAddr(Cmd)
            BY <1>5 DEF HasAddr, IsRange, NoAddr
      <2>2. ~ GivesUp
            BY <1>1, <1>5 DEF Simple, GivesUp
      <2>3. active[pc] <=> Open(Cmd.a, i, Len(input))
            BY <1>1, <1>5, <2>2 DEF Abreast
      <2>4. /\ Cmd.a.start.k = "num" /\ Cmd.a.start.n # 0 /\ Cmd.a.start.n \in Nat
            /\ Cmd.a.end.k \in {"num", "last", "step"} /\ Cmd.a.end.n \in Nat
            /\ Cmd.a.end.k = "last" \/ Cmd.a.start.n <= Cmd.a.end.n
            BY <1>1, <1>5 DEF Alike, Statement, Addr, LineSpec, NoSpec, Spec0, IsRange
      <2>5. l.no = i + 1 /\ l.total = Len(input) /\ cyc.no = i + 1
            BY DEF Seen
      <2>. DEFINE first == Cmd.a.start.n
                  e == Cmd.a.end
      <2>6. Hit <=> active[pc] \/ i + 1 = first
            BY <1>5, <2>1, <2>4, <2>5 DEF Hit, Starts
      <2>7. Matches(Cmd, l.no, l.total, l.line) <=>
               i + 1 \in first .. Point(e, Len(input), Len(input))
            BY <1>5, <2>1, <2>4, <2>5 DEF Matches, Point
      <2>8. Look => (active'[pc] <=> IF Hit THEN ~ Ends(e, i + 1, Len(input), cyc.pat) ELSE active[pc])
            BY <1>1, <1>5, <2>5 DEF Look, TypeOK
      <2>9. CASE e.k = "num"
            BY <1>1, <1>2, <2>3, <2>4, <2>6, <2>7, <2>8, <2>9 DEF Open, Ends, Point
      <2>10. CASE e.k = "last"
            BY <1>1, <1>2, <2>3, <2>4, <2>6, <2>7, <2>8, <2>10 DEF Open, Ends, Point
      <2>11. CASE e.k = "step"
            BY <1>1, <1>2, <2>3, <2>4, <2>6, <2>7, <2>8, <2>11 DEF Open, Ends, Point
      <2>. QED BY <2>4, <2>9, <2>10, <2>11
<1>. QED BY <1>3, <1>4, <1>5

LEMMA TextAssociative ==
    ASSUME NEW s \in Text, NEW t \in Text, NEW u \in Text
    PROVE  (s \o t) \o u = s \o (t \o u)
  BY ConcatAssociative DEF Text

\* What both print at the end of a line.
LEMMA PrintedSaid ==
    ASSUME TypeOK, NEW l \in LineState, Seen(l), l.keep, NEW r \in Output, r.out = out, ~ r.quit
    PROVE  Printed(quiet, r, l) = [out |-> out \o Said(TRUE) \o cyc.app, quit |-> l.quit]
<1>. DEFINE pat == <<l.line>>
            shown == IF l.changed # NoText THEN <<l.changed>>
                     ELSE (IF quiet THEN <<>> ELSE pat) \o Times(pat, l.extra)
<1>1. /\ pat \in Text /\ <<>> \in Text /\ (l.changed # NoText => <<l.changed>> \in Text)
      /\ l.extra \in Nat /\ l.ins \in Text /\ l.app \in Text /\ out \in Text
      BY DEF LineState, Text, TypeOK
<1>2. \A s, t \in Text : s \o t \in Text
      BY ConcatProperties DEF Text
<1>3. shown \in Text
      <2>1. Times(pat, l.extra) \in Text
            BY <1>1, TimesTyped
      <2>. QED BY <1>1, <1>2, <2>1
<1>4. Said(TRUE) = l.ins \o shown
      BY DEF Said, Seen
<1>5. Printed(quiet, r, l) = [out |-> out \o l.ins \o shown \o l.app, quit |-> l.quit]
      BY DEF Printed
<1>. HIDE DEF shown
<1>6. (out \o l.ins) \o shown = out \o (l.ins \o shown)
      <2>1. PICK o \in Text, b \in Text, c \in Text : o = out /\ b = l.ins /\ c = shown
            BY <1>1, <1>3
      <2>2. (o \o b) \o c = o \o (b \o c)
            BY TextAssociative
      <2>. QED BY <2>1, <2>2
<1>. QED BY <1>4, <1>5, <1>6 DEF Seen

LEMMA AgreeInit == Init => AgreeInv
<1>. SUFFICES ASSUME Init, Simple PROVE Together
     BY DEF AgreeInv
<1>1. TypeOK
      BY InitTyped
<1>2. Script(stmts) /\ Len(input) \in Nat /\ input \in Text
      BY <1>1, SimpleScript, InputTyped
<1>3. prog = stmts
      BY <1>2, AlikeProgram DEF Init, Script
<1>4. \A k \in 1 .. Len(stmts) : Alike(stmts[k])
      BY <1>1, SimpleAlike
<1>5. Upto(stmts, input, quiet)[0] = [out |-> <<>>, quit |-> FALSE]
      BY <1>2, UptoIs DEF IsOutput
<1>6. ASSUME NEW k \in 1 .. Len(prog), IsRange(prog[k]) PROVE active[k] <=> Open(prog[k].a, 0, Len(input))
      <2>1. prog[k].a.start.n # 0 /\ prog[k].a.start.n \in Nat
            BY <1>3, <1>4, <1>6 DEF Alike, Statement, Addr, LineSpec, NoSpec, Spec0
      <2>. QED BY <1>6, <2>1 DEF Open, Init
<1>. QED BY <1>2, <1>3, <1>5, <1>6 DEF Init, Together, OpenTo

LEMMA OneLine ==
    ASSUME NEW pat \in Text, Len(pat) = 1
    PROVE  pat = <<pat[1]>> /\ pat[1] \in Line
<1>1. pat \in [1 .. 1 -> Line]
      BY LenProperties DEF Text
<1>. QED BY <1>1

\* A letter that does not occur is not replaced.
LEMMA NoSubst ==
    ASSUME NEW s \in Statement, NEW t \in Line, ~ Occurs(s.x, <<t>>)
    PROVE  Subst(s, <<t>>)[1] = t
<1>1. \A k \in 1 .. Len(t) : t[k] # s.x
      <2>1. ASSUME NEW k \in 1 .. Len(t) PROVE t[k] # s.x
            <3>1. t[k] \in Range(t)
                  BY LenProperties DEF Range, Line
            <3>2. 1 \in 1 .. Len(<<t>>) /\ <<t>>[1] = t
                  OBVIOUS
            <3>. QED BY <3>1, <3>2 DEF Occurs
      <2>. QED BY <2>1
<1>2. Mapped(s.x, s.y, <<t>>)[1] = t
      <2>1. Mapped(s.x, s.y, <<t>>)[1] = [k \in 1 .. Len(t) |-> IF t[k] = s.x THEN s.y ELSE t[k]]
            BY DEF Mapped
      <2>2. t \in [1 .. Len(t) -> Letter]
            BY LenProperties DEF Line
      <2>. QED BY <1>1, <2>1, <2>2
<1>. QED BY <1>2 DEF Subst

LEMMA AgreeStep == TypeOK /\ AgreeInv /\ [Next]_vars => AgreeInv'
<1>. SUFFICES ASSUME TypeOK, AgreeInv, [Next]_vars, Simple' PROVE Together'
     BY DEF AgreeInv
<1>1. UNCHANGED given
      BY DEF Next, vars, given, Start, EndCycle, EndAll, Block, NoOp, Step, Branch, BranchIfSubst, Next_,
             AppendNext, DeleteFirst, PrintFirst, Hold, Delete, Quit, PrintSpace, Insert,
             Appended, Change, Transliterate, Substitute
<1>2. stmts' = stmts /\ prog' = prog /\ quiet' = quiet /\ input' = input
      BY <1>1 DEF given
<1>3. Ops' = Ops /\ (GivesUp' <=> GivesUp)
      BY <1>2 DEF Ops, GivesUp
<1>4. Simple /\ Together
      <2>1. Simple
            BY <1>2 DEF Simple, IsScript, Ops
      <2>. QED BY <2>1 DEF AgreeInv
<1>5. Script(stmts) /\ input \in Text /\ Len(input) \in Nat /\ Len(stmts) \in Nat
      BY <1>4, SimpleScript, InputTyped
<1>6. prog = stmts /\ i \in Nat /\ pc \in Nat \ {0} /\ out \in Text /\ cyc \in Cycle
      BY <1>4 DEF Together, TypeOK
<1>. DEFINE n == Len(stmts)
            L == Len(input)
            F(k) == Progress(stmts, input, i + 1)[k]
<1>7. PICK R : R = Upto(stmts, input, quiet) /\ IsOutput(R, stmts, input, quiet)
      BY <1>5, UptoIs
<1>8. /\ phase \in {"start", "run", "quit", "done"}
      /\ phase # "done" => i <= L /\ out = R[i].out /\ ~ R[i].quit
      /\ phase = "start" => OpenTo(i)
      /\ phase = "run" => Abreast
      /\ phase = "quit" => HasQuit
      /\ phase \in {"run", "quit"} /\ GivesUp => NoTexts
      /\ phase = "done" => out = R[L].out
      BY <1>4, <1>7 DEF Together
<1>9. ASSUME \/ phase' \in {"start", "run", "quit"} /\ i' <= L /\ out' = R[i'].out /\ ~ R[i'].quit
             \/ phase' = "done" /\ out' = R[L].out,
             phase' = "start" => OpenTo(i)', phase' = "run" => Abreast', phase' = "quit" => HasQuit',
             phase' \in {"run", "quit"} /\ GivesUp => NoTexts'
      PROVE  Together'
      BY <1>2, <1>3, <1>6, <1>7, <1>9 DEF Together
<1>10. ASSUME UNCHANGED vars PROVE Together'
       BY <1>2, <1>3, <1>4, <1>10 DEF Together, vars, OpenTo, Abreast, HasQuit, NoTexts, Seen
\* Within a line.
<1>11. ASSUME phase \in {"run", "quit"}
       PROVE  /\ i < L /\ i + 1 \in 1 .. L /\ IsProgress(Progress(stmts, input, i + 1), stmts, input, i + 1)
              /\ R[i] \in Output /\ R[i + 1] = Printed(quiet, R[i], FastLine(stmts, input, i + 1))
       <2>1. i < L
             BY <1>8, <1>11 DEF Abreast, HasQuit
       <2>2. i + 1 \in 1 .. L
             BY <1>5, <1>6, <2>1
       <2>3. PICK k \in 1 .. Len(input) : k = i + 1 /\ k - 1 = i /\ k - 1 \in 0 .. Len(input)
             BY <1>5, <1>6, <2>2
       <2>4. R[k - 1] \in Output /\ R[k] = Printed(quiet, R[k - 1], FastLine(stmts, input, k))
             BY <1>7, <2>3 DEF IsOutput
       <2>. QED BY <1>5, <2>1, <2>2, <2>3, <2>4, ProgressIs
<1>12. CASE Start
       <2>1. i <= L /\ OpenTo(i) /\ out = R[i].out /\ ~ R[i].quit
             BY <1>8, <1>12 DEF Start
       <2>2. CASE i < L
             <3>1. /\ cyc' = Fresh(input[i + 1], i + 1) /\ pc' = 1 /\ phase' = "run"
                   /\ i' = i /\ out' = out /\ active' = active
                   BY <1>12, <2>2 DEF Start
             <3>2. i + 1 \in 1 .. L
                   BY <1>5, <1>6, <2>2
             <3>3. F(0) = Untouched(input, i + 1)
                   BY <1>5, <3>2, ProgressIs DEF IsProgress
             <3>4. Abreast'
                   <4>1. Seen(F(0))' /\ F(0).keep /\ ~ F(0).stop /\ ~ F(0).quit
                         BY <1>2, <3>1, <3>3 DEF Seen, Untouched, Fresh
                   <4>2. \A k \in 1 .. Len(prog) : ~ (k < 1)
                         OBVIOUS
                   <4>. QED BY <1>2, <1>3, <1>5, <1>6, <2>1, <2>2, <3>1, <4>1, <4>2 DEF Abreast, OpenTo
             <3>5. NoTexts'
                   BY <3>1 DEF NoTexts, Fresh
             <3>. QED BY <1>9, <2>1, <3>1, <3>4, <3>5
       <2>3. CASE i = L
             <3>1. phase' = "done" /\ out' = out
                   BY <1>12, <2>3 DEF Start
             <3>. QED BY <1>9, <2>1, <2>3, <3>1
       <2>. QED BY <1>5, <1>6, <2>1, <2>2, <2>3
<1>13. CASE EndCycle
       <2>1. phase = "run" /\ pc = n + 1
             BY <1>5, <1>6, <1>8, <1>13 DEF EndCycle, Abreast
       <2>2. PICK l \in LineState : l = F(n) /\ l = FastLine(stmts, input, i + 1) /\ Seen(l) /\ l.keep /\ ~ l.quit
             BY <1>5, <1>8, <1>11, <2>1 DEF Abreast, IsProgress
       <2>3. R[i] \in Output /\ R[i + 1] = Printed(quiet, R[i], l)
             BY <1>11, <2>1, <2>2
       <2>4. R[i + 1] = [out |-> out \o Said(TRUE) \o cyc.app, quit |-> l.quit]
             BY <1>8, <2>1, <2>2, <2>3, PrintedSaid
       <2>5. i' = i + 1 /\ phase' = "start" /\ active' = active /\ out' = out \o Said(TRUE) \o cyc.app
             BY <1>13 DEF EndCycle
       <2>6. OpenTo(i)'
             <3>1. \A k \in 1 .. Len(prog) : k < pc
                   BY <1>5, <1>6, <2>1
             <3>. QED BY <1>2, <1>3, <1>8, <2>1, <2>5, <3>1 DEF Abreast, OpenTo
       <2>8. PICK t : t = out'
             OBVIOUS
       <2>9. R[i + 1] = [out |-> t, quit |-> l.quit]
             BY <2>4, <2>5, <2>8
       <2>10. i' = i + 1
             BY <2>5
       <2>7. i' <= L /\ out' = R[i'].out /\ ~ R[i'].quit
             BY <1>5, <1>6, <1>11, <2>1, <2>2, <2>8, <2>9, <2>10
       <2>. QED BY <1>9, <2>5, <2>6, <2>7
<1>14. CASE EndAll
       <2>1. phase = "quit" /\ HasQuit
             BY <1>8, <1>14 DEF EndAll
       <2>2. PICK l \in LineState : l = F(n) /\ l = FastLine(stmts, input, i + 1) /\ Seen(l) /\ l.keep /\ l.quit
             BY <1>5, <1>11, <2>1 DEF HasQuit, IsProgress
       <2>3. R[i] \in Output /\ R[i + 1] = Printed(quiet, R[i], l)
             BY <1>11, <2>1, <2>2
       <2>4. R[i + 1] = [out |-> out \o Said(TRUE) \o cyc.app, quit |-> l.quit]
             BY <1>8, <2>1, <2>2, <2>3, PrintedSaid
       <2>5. GivesUp
             BY <2>1 DEF HasQuit
       <2>6. cyc.app = <<>>
             BY <1>8, <2>1, <2>5 DEF NoTexts
       <2>7. out \o Said(TRUE) \in Text
             BY <1>6, SaidTyped, ConcatProperties DEF Text
       <2>8. out' = out \o Said(TRUE) /\ phase' = "done"
             BY <1>14, <2>1 DEF EndAll
       <2>9. R[i + 1].out = out' /\ R[i + 1].quit
             <3>1. PICK t \in Seq(Line) : t = out \o Said(TRUE)
                   BY <2>7 DEF Text
             <3>2. t \o <<>> = t
                   BY ConcatEmptySeq
             <3>3. R[i + 1] = [out |-> t, quit |-> l.quit]
                   BY <2>4, <2>6, <3>1, <3>2
             <3>4. out' = t
                   BY <2>8, <3>1
             <3>. QED BY <2>2, <3>3, <3>4
       <2>10. R[L] = R[i + 1]
             <3>1. i + 1 \in 0 .. Len(input)
                   BY <1>11, <2>1
             <3>. QED BY <1>5, <1>7, <2>9, <3>1, QuitLasts
       <2>. QED BY <1>9, <2>8, <2>9, <2>10
\* A statement.
<1>15. ASSUME phase = "run", pc <= n
       PROVE  /\ pc \in 1 .. n /\ Alike(Cmd) /\ Cmd = stmts[pc] /\ Cmd.op \in Ops
              /\ \E l, m \in LineState :
                    /\ l = F(pc - 1) /\ m = F(pc) /\ m = FastCommand(l, Cmd)
                    /\ Seen(l) /\ l.keep /\ ~ l.stop /\ ~ l.quit
                    /\ Hit <=> Matches(Cmd, l.no, l.total, l.line)
       <2>1. pc \in 1 .. n /\ Cmd = stmts[pc] /\ Abreast
             BY <1>5, <1>6, <1>8, <1>15 DEF Cmd
       <2>2. Alike(Cmd)
             BY <1>4, <2>1, SimpleAlike
       <2>3. pc - 1 \in 0 .. n /\ pc \in 0 .. n
             BY <1>5, <2>1
       <2>4. F(pc - 1) \in LineState /\ F(pc) \in LineState /\ F(pc) = FastCommand(F(pc - 1), Cmd)
             BY <1>11, <1>15, <2>1, <2>3 DEF IsProgress
       <2>5. LET l == F(pc - 1) IN Seen(l) /\ l.keep /\ ~ l.stop /\ ~ l.quit
             BY <2>1 DEF Abreast
       <2>6. LET l == F(pc - 1) IN Hit <=> Matches(Cmd, l.no, l.total, l.line)
             BY <1>4, <1>6, <1>15, <2>1, <2>5, HitMatches
       <2>7. Cmd.op \in Ops
             BY <2>1 DEF Ops
       <2>. HIDE DEF F
       <2>. QED BY <2>1, <2>2, <2>4, <2>5, <2>6, <2>7
\* Both go on with the next one.
<1>16. ASSUME phase = "run", pc <= n, Look, UNCHANGED <<i, out>>, phase' = "run", pc' = pc + 1,
              NEW m, m = F(pc), Seen(m)', m.keep, ~ m.stop, ~ m.quit, GivesUp => NoTexts'
       PROVE  Together'
       <2>1. Abreast /\ pc \in 1 .. n
             BY <1>8, <1>15, <1>16
       <2>2. m = (Progress(stmts, input, i + 1)[pc - 1])'
             BY <1>2, <1>6, <1>16
       <2>3. ASSUME NEW k \in 1 .. n, IsRange(prog[k]), ~ GivesUp
             PROVE  active'[k] <=> Open(prog[k].a, IF k < pc + 1 THEN i + 1 ELSE i, L)
             <3>1. CASE k = pc
                   <4>1. PICK l : Seen(l)
                         BY <1>15, <1>16
                   <4>2. IsRange(Cmd) /\ Cmd = prog[pc] /\ pc < pc + 1
                         BY <1>6, <2>1, <2>3, <3>1 DEF Cmd
                   <4>. QED BY <1>4, <1>6, <1>16, <2>1, <2>3, <3>1, <4>1, <4>2, HitMatches
             <3>2. CASE k # pc
                   <4>1. active'[k] <=> active[k]
                         BY <1>6, <1>16, <2>1, <3>2 DEF Look, TypeOK
                   <4>2. k < pc + 1 <=> k < pc
                         BY <1>6, <3>2
                   <4>. QED BY <1>6, <2>1, <2>3, <4>1, <4>2 DEF Abreast
             <3>. QED BY <3>1, <3>2
       <2>4. Abreast'
             <3>1. i' < Len(input') /\ pc' <= Len(prog') + 1
                   BY <1>2, <1>5, <1>6, <1>16, <2>1 DEF Abreast
             <3>. QED BY <1>2, <1>3, <1>6, <1>16, <2>2, <2>3, <3>1 DEF Abreast
       <2>. QED BY <1>8, <1>9, <1>16, <2>4
<1>17. ASSUME phase = "run", pc <= n, ~ Hit, Look, UNCHANGED <<i, cyc, out>>, phase' = "run", pc' = pc + 1
       PROVE  Together'
       <2>1. PICK l \in LineState, m \in LineState :
                /\ l = F(pc - 1) /\ m = F(pc) /\ m = FastCommand(l, Cmd)
                /\ Seen(l) /\ l.keep /\ ~ l.stop /\ ~ l.quit
                /\ Hit <=> Matches(Cmd, l.no, l.total, l.line)
             BY <1>15, <1>17
       <2>2. m = l
             BY <1>17, <2>1 DEF FastCommand
       <2>3. Seen(m)' /\ (GivesUp => NoTexts')
             BY <1>2, <1>8, <1>17, <2>1, <2>2 DEF Seen, NoTexts
       <2>. QED BY <1>16, <1>17, <2>1, <2>2, <2>3
<1>18. ASSUME phase = "run", pc <= n, Hit
       PROVE  \E l, m \in LineState :
                /\ l = F(pc - 1) /\ m = F(pc) /\ m = FastCommand(l, Cmd)
                /\ Seen(l) /\ l.keep /\ ~ l.stop /\ ~ l.quit
                /\ Matches(Cmd, l.no, l.total, l.line)
       BY <1>15, <1>18
<1>19. CASE PrintSpace
       <2>1. phase = "run" /\ pc <= n /\ Cmd.op = "p" /\ Look
             BY <1>6, <1>19 DEF PrintSpace, Running
       <2>2. CASE ~ Hit
             BY <1>17, <1>19, <2>1, <2>2 DEF PrintSpace, Step
       <2>3. CASE Hit
             <3>1. PICK l \in LineState, m \in LineState :
                      /\ l = F(pc - 1) /\ m = F(pc) /\ m = FastCommand(l, Cmd)
                      /\ Seen(l) /\ l.keep /\ ~ l.stop /\ ~ l.quit
                      /\ Matches(Cmd, l.no, l.total, l.line)
                   BY <1>18, <2>1, <2>3
             <3>2. m = [l EXCEPT !.extra = @ + 1]
                   BY <2>1, <3>1 DEF FastCommand
             <3>3. cyc' = [cyc EXCEPT !.extra = @ + 1] /\ pc' = pc + 1 /\ UNCHANGED <<i, out, phase>>
                   BY <1>19, <2>3 DEF PrintSpace, Step
             <3>5. /\ cyc'.extra = cyc.extra + 1 /\ cyc'.pat = cyc.pat /\ cyc'.no = cyc.no
                   /\ cyc'.ins = cyc.ins /\ cyc'.app = cyc.app /\ cyc'.changed = cyc.changed
                   BY <1>6, <3>3 DEF Cycle
             <3>6. /\ m.extra = l.extra + 1 /\ m.line = l.line /\ m.no = l.no /\ m.total = l.total
                   /\ m.ins = l.ins /\ m.app = l.app /\ m.changed = l.changed
                   /\ m.keep /\ ~ m.stop /\ ~ m.quit
                   BY <3>1, <3>2 DEF LineState
             <3>4. Seen(m)' /\ (GivesUp => NoTexts')
                   BY <1>2, <1>8, <2>1, <3>1, <3>3, <3>5, <3>6 DEF Seen, NoTexts
             <3>. QED BY <1>16, <2>1, <3>1, <3>3, <3>4, <3>6
       <2>. QED BY <2>2, <2>3
<1>20. CASE Delete
       <2>1. phase = "run" /\ pc <= n /\ Cmd.op = "d" /\ Look
             BY <1>6, <1>20 DEF Delete, Running
       <2>2. CASE ~ Hit
             BY <1>17, <1>20, <2>1, <2>2 DEF Delete
       <2>3. CASE Hit
             <3>1. PICK l \in LineState, m \in LineState :
                      /\ l = F(pc - 1) /\ m = F(pc) /\ m = FastCommand(l, Cmd)
                      /\ Seen(l) /\ l.keep /\ ~ l.stop /\ ~ l.quit
                      /\ Matches(Cmd, l.no, l.total, l.line)
                   BY <1>18, <2>1, <2>3
             <3>2. m = [l EXCEPT !.keep = FALSE, !.stop = TRUE]
                   BY <2>1, <3>1 DEF FastCommand
             <3>3. GivesUp /\ NoTexts
                   BY <1>8, <1>15, <2>1 DEF GivesUp
             <3>4. m.stop /\ ~ m.keep /\ ~ m.quit /\ m.ins = <<>> /\ m.app = <<>> /\ m.changed = NoText
                   BY <3>1, <3>2, <3>3 DEF LineState, NoTexts, Seen
             <3>5. FastLine(stmts, input, i + 1) = m
                   <4>1. pc \in 0 .. n /\ m = Progress(stmts, input, i + 1)[pc]
                         BY <1>15, <2>1, <3>1
                   <4>2. Progress(stmts, input, i + 1)[n] = m
                         BY <1>5, <1>11, <2>1, <3>4, <4>1, StopLasts
                   <4>. QED BY <1>11, <2>1, <4>2 DEF IsProgress
             <3>6. R[i] \in Output /\ R[i + 1] = Printed(quiet, R[i], m)
                   BY <1>11, <2>1, <3>5
             <3>7. R[i].out = out /\ ~ R[i].quit
                   BY <1>8, <2>1
             <3>8. out \o <<>> = out
                   BY <1>6, ConcatEmptySeq DEF Text
             <3>12. Printed(quiet, R[i], m) = [out |-> R[i].out \o <<>> \o <<>> \o <<>>, quit |-> m.quit]
                   BY <3>4, <3>7 DEF Printed
             <3>9. R[i + 1].out = out /\ ~ R[i + 1].quit
                   BY <3>4, <3>6, <3>7, <3>8, <3>12
             <3>10. i' = i + 1 /\ phase' = "start" /\ out' = out
                   BY <1>20, <2>3 DEF Delete
             <3>11. OpenTo(i)'
                   BY <1>3, <3>3 DEF OpenTo
             <3>. QED BY <1>9, <1>11, <2>1, <3>9, <3>10, <3>11
       <2>. QED BY <2>2, <2>3
<1>21. CASE Quit
       <2>1. phase = "run" /\ pc <= n /\ Cmd.op = "q" /\ Look
             BY <1>6, <1>21 DEF Quit, Running
       <2>2. CASE ~ Hit
             BY <1>17, <1>21, <2>1, <2>2 DEF Quit
       <2>3. CASE Hit
             <3>1. PICK l \in LineState, m \in LineState :
                      /\ l = F(pc - 1) /\ m = F(pc) /\ m = FastCommand(l, Cmd)
                      /\ Seen(l) /\ l.keep /\ ~ l.stop /\ ~ l.quit
                      /\ Matches(Cmd, l.no, l.total, l.line)
                   BY <1>18, <2>1, <2>3
             <3>2. m = [l EXCEPT !.quit = TRUE, !.stop = TRUE]
                   BY <2>1, <3>1 DEF FastCommand
             <3>3. GivesUp /\ NoTexts
                   BY <1>8, <1>15, <2>1 DEF GivesUp
             <3>4. m.stop /\ m.keep /\ m.quit
                   BY <3>1, <3>2 DEF LineState
             <3>5. Progress(stmts, input, i + 1)[n] = m
                   <4>1. pc \in 0 .. n /\ m = Progress(stmts, input, i + 1)[pc]
                         BY <1>15, <2>1, <3>1
                   <4>. QED BY <1>5, <1>11, <2>1, <3>4, <4>1, StopLasts
             <3>6. phase' = "quit" /\ UNCHANGED <<i, cyc, out>>
                   BY <1>21, <2>3 DEF Quit
             <3>7. Seen(m)'
                   BY <1>2, <3>1, <3>2, <3>6 DEF Seen, LineState
             <3>8. HasQuit'
                   BY <1>2, <1>3, <1>11, <2>1, <3>3, <3>4, <3>5, <3>6, <3>7 DEF HasQuit
             <3>9. NoTexts'
                   BY <3>3, <3>6 DEF NoTexts
             <3>. QED BY <1>8, <1>9, <2>1, <3>6, <3>8, <3>9
       <2>. QED BY <2>2, <2>3
\* Neither d nor q goes with a text, and what else a statement changes is seen.
<1>22. ASSUME phase = "run", pc <= n, Cmd.op \in Texts PROVE ~ GivesUp
       BY <1>4, <1>15, <1>22 DEF Simple, GivesUp
<1>23. ASSUME phase = "run", pc <= n, NEW l, NEW m, Seen(l), m.no = l.no, m.total = l.total, cyc'.no = cyc.no,
              cyc'.pat = <<m.line>>, cyc'.changed = m.changed, cyc'.extra = m.extra,
              cyc'.ins = m.ins, cyc'.app = m.app, i' = i,
              (m.ins = l.ins /\ m.app = l.app /\ m.changed = l.changed) \/ ~ GivesUp
       PROVE  Seen(m)' /\ (GivesUp => NoTexts')
       BY <1>2, <1>8, <1>23 DEF Seen, NoTexts
<1>24. CASE Insert
       <2>1. phase = "run" /\ pc <= n /\ Cmd.op = "i" /\ Look /\ Cmd.op \in Texts
             BY <1>6, <1>24 DEF Insert, Running, Texts
       <2>2. CASE ~ Hit
             BY <1>17, <1>24, <2>1, <2>2 DEF Insert, Step
       <2>3. CASE Hit
             <3>1. PICK l \in LineState, m \in LineState :
                      /\ l = F(pc - 1) /\ m = F(pc) /\ m = FastCommand(l, Cmd)
                      /\ Seen(l) /\ l.keep /\ ~ l.stop /\ ~ l.quit
                      /\ Matches(Cmd, l.no, l.total, l.line)
                   BY <1>18, <2>1, <2>3
             <3>2. m = [l EXCEPT !.ins = Append(@, <<Cmd.x>>)]
                   BY <2>1, <3>1 DEF FastCommand
             <3>3. /\ cyc' = [cyc EXCEPT !.ins = Append(@, <<Cmd.x>>)]
                   /\ pc' = pc + 1 /\ UNCHANGED <<i, out, phase>>
                   BY <1>24, <2>3 DEF Insert, Step
             <3>4. /\ cyc'.extra = cyc.extra /\ cyc'.pat = cyc.pat /\ cyc'.no = cyc.no
                   /\ cyc'.ins = Append(cyc.ins, <<Cmd.x>>) /\ cyc'.app = cyc.app /\ cyc'.changed = cyc.changed
                   BY <1>6, <3>3 DEF Cycle
             <3>5. /\ m.extra = l.extra /\ m.line = l.line /\ m.no = l.no /\ m.total = l.total
                   /\ m.ins = Append(l.ins, <<Cmd.x>>) /\ m.app = l.app /\ m.changed = l.changed
                   /\ m.keep /\ ~ m.stop /\ ~ m.quit
                   BY <3>1, <3>2 DEF LineState
             <3>6. /\ cyc'.pat = <<m.line>> /\ cyc'.changed = m.changed /\ cyc'.extra = m.extra
                   /\ cyc'.ins = m.ins /\ cyc'.app = m.app
                   BY <3>1, <3>4, <3>5 DEF Seen
             <3>7. ~ GivesUp
                   BY <1>22, <2>1
             <3>8. Seen(m)' /\ (GivesUp => NoTexts')
                   BY <1>23, <2>1, <3>1, <3>3, <3>4, <3>5, <3>6, <3>7
             <3>. QED BY <1>16, <2>1, <3>1, <3>3, <3>5, <3>8
       <2>. QED BY <2>2, <2>3
<1>25. CASE Appended
       <2>1. phase = "run" /\ pc <= n /\ Cmd.op = "a" /\ Look /\ Cmd.op \in Texts
             BY <1>6, <1>25 DEF Appended, Running, Texts
       <2>2. CASE ~ Hit
             BY <1>17, <1>25, <2>1, <2>2 DEF Appended, Step
       <2>3. CASE Hit
             <3>1. PICK l \in LineState, m \in LineState :
                      /\ l = F(pc - 1) /\ m = F(pc) /\ m = FastCommand(l, Cmd)
                      /\ Seen(l) /\ l.keep /\ ~ l.stop /\ ~ l.quit
                      /\ Matches(Cmd, l.no, l.total, l.line)
                   BY <1>18, <2>1, <2>3
             <3>2. m = [l EXCEPT !.app = Append(@, <<Cmd.x>>)]
                   BY <2>1, <3>1 DEF FastCommand
             <3>3. /\ cyc' = [cyc EXCEPT !.app = Append(@, <<Cmd.x>>)]
                   /\ pc' = pc + 1 /\ UNCHANGED <<i, out, phase>>
                   BY <1>25, <2>3 DEF Appended, Step
             <3>4. /\ cyc'.extra = cyc.extra /\ cyc'.pat = cyc.pat /\ cyc'.no = cyc.no
                   /\ cyc'.app = Append(cyc.app, <<Cmd.x>>) /\ cyc'.ins = cyc.ins /\ cyc'.changed = cyc.changed
                   BY <1>6, <3>3 DEF Cycle
             <3>5. /\ m.extra = l.extra /\ m.line = l.line /\ m.no = l.no /\ m.total = l.total
                   /\ m.app = Append(l.app, <<Cmd.x>>) /\ m.ins = l.ins /\ m.changed = l.changed
                   /\ m.keep /\ ~ m.stop /\ ~ m.quit
                   BY <3>1, <3>2 DEF LineState
             <3>6. /\ cyc'.pat = <<m.line>> /\ cyc'.changed = m.changed /\ cyc'.extra = m.extra
                   /\ cyc'.ins = m.ins /\ cyc'.app = m.app
                   BY <3>1, <3>4, <3>5 DEF Seen
             <3>7. ~ GivesUp
                   BY <1>22, <2>1
             <3>8. Seen(m)' /\ (GivesUp => NoTexts')
                   BY <1>23, <2>1, <3>1, <3>3, <3>4, <3>5, <3>6, <3>7
             <3>. QED BY <1>16, <2>1, <3>1, <3>3, <3>5, <3>8
       <2>. QED BY <2>2, <2>3
<1>26. CASE Change
       <2>1. phase = "run" /\ pc <= n /\ Cmd.op = "c" /\ Look /\ Cmd.op \in Texts
             BY <1>6, <1>26 DEF Change, Running, Texts
       <2>2. CASE ~ Hit
             BY <1>17, <1>26, <2>1, <2>2 DEF Change, Step
       <2>3. CASE Hit
             <3>1. PICK l \in LineState, m \in LineState :
                      /\ l = F(pc - 1) /\ m = F(pc) /\ m = FastCommand(l, Cmd)
                      /\ Seen(l) /\ l.keep /\ ~ l.stop /\ ~ l.quit
                      /\ Matches(Cmd, l.no, l.total, l.line)
                   BY <1>18, <2>1, <2>3
             <3>2. m = [l EXCEPT !.changed = <<Cmd.x>>]
                   BY <2>1, <3>1 DEF FastCommand
             <3>3. cyc' = [cyc EXCEPT !.changed = <<Cmd.x>>] /\ pc' = pc + 1 /\ UNCHANGED <<i, out, phase>>
                   BY <1>26, <2>3 DEF Change, Step
             <3>4. /\ cyc'.extra = cyc.extra /\ cyc'.pat = cyc.pat /\ cyc'.no = cyc.no
                   /\ cyc'.app = cyc.app /\ cyc'.ins = cyc.ins /\ cyc'.changed = <<Cmd.x>>
                   BY <1>6, <3>3 DEF Cycle
             <3>5. /\ m.extra = l.extra /\ m.line = l.line /\ m.no = l.no /\ m.total = l.total
                   /\ m.app = l.app /\ m.ins = l.ins /\ m.changed = <<Cmd.x>>
                   /\ m.keep /\ ~ m.stop /\ ~ m.quit
                   BY <3>1, <3>2 DEF LineState
             <3>6. /\ cyc'.pat = <<m.line>> /\ cyc'.changed = m.changed /\ cyc'.extra = m.extra
                   /\ cyc'.ins = m.ins /\ cyc'.app = m.app
                   BY <3>1, <3>4, <3>5 DEF Seen
             <3>7. ~ GivesUp
                   BY <1>22, <2>1
             <3>8. Seen(m)' /\ (GivesUp => NoTexts')
                   BY <1>23, <2>1, <3>1, <3>3, <3>4, <3>5, <3>6, <3>7
             <3>. QED BY <1>16, <2>1, <3>1, <3>3, <3>5, <3>8
       <2>. QED BY <2>2, <2>3
<1>27. CASE Transliterate
       <2>1. phase = "run" /\ pc <= n /\ Cmd.op = "y" /\ Look
             BY <1>6, <1>27 DEF Transliterate, Running
       <2>2. CASE ~ Hit
             BY <1>17, <1>27, <2>1, <2>2 DEF Transliterate, Step
       <2>3. CASE Hit
             <3>1. PICK l \in LineState, m \in LineState :
                      /\ l = F(pc - 1) /\ m = F(pc) /\ m = FastCommand(l, Cmd)
                      /\ Seen(l) /\ l.keep /\ ~ l.stop /\ ~ l.quit
                      /\ Matches(Cmd, l.no, l.total, l.line)
                   BY <1>18, <2>1, <2>3
             <3>2. m = [l EXCEPT !.line = Mapped(Cmd.x, Cmd.y, <<@>>)[1]]
                   BY <2>1, <3>1 DEF FastCommand
             <3>3. /\ cyc' = [cyc EXCEPT !.pat = Mapped(Cmd.x, Cmd.y, @)]
                   /\ pc' = pc + 1 /\ UNCHANGED <<i, out, phase>>
                   BY <1>27, <2>3 DEF Transliterate, Step
             <3>4. /\ cyc'.extra = cyc.extra /\ cyc'.pat = Mapped(Cmd.x, Cmd.y, cyc.pat) /\ cyc'.no = cyc.no
                   /\ cyc'.app = cyc.app /\ cyc'.ins = cyc.ins /\ cyc'.changed = cyc.changed
                   BY <1>6, <3>3 DEF Cycle
             <3>5. /\ m.extra = l.extra /\ m.no = l.no /\ m.total = l.total
                   /\ m.line = Mapped(Cmd.x, Cmd.y, <<l.line>>)[1]
                   /\ m.app = l.app /\ m.ins = l.ins /\ m.changed = l.changed
                   /\ m.keep /\ ~ m.stop /\ ~ m.quit
                   BY <3>1, <3>2 DEF LineState
             <3>6. PICK p : p = Mapped(Cmd.x, Cmd.y, <<l.line>>)
                   OBVIOUS
             <3>7. p = <<p[1]>>
                   <4>1. <<l.line>> \in Text /\ Len(<<l.line>>) = 1 /\ Cmd.y \in Letter
                         BY <1>15, <2>1, <3>1 DEF LineState, Text, Alike, Statement
                   <4>2. p \in Text /\ Len(p) = 1
                         BY <3>6, <4>1, MappedTyped
                   <4>. QED BY <4>2, OneLine
             <3>8. cyc'.pat = <<m.line>>
                   BY <3>1, <3>4, <3>5, <3>6, <3>7 DEF Seen
             <3>9. Seen(m)' /\ (GivesUp => NoTexts')
                   BY <1>23, <2>1, <3>1, <3>3, <3>4, <3>5, <3>8 DEF Seen
             <3>. QED BY <1>16, <2>1, <3>1, <3>3, <3>5, <3>9
       <2>. QED BY <2>2, <2>3
<1>28. CASE Substitute
       <2>1. phase = "run" /\ pc <= n /\ Cmd.op = "s" /\ Look
             BY <1>6, <1>28 DEF Substitute, Running
       <2>2. CASE ~ Hit
             BY <1>17, <1>28, <2>1, <2>2 DEF Substitute, Step
       <2>3. CASE Hit
             <3>1. PICK l \in LineState, m \in LineState :
                      /\ l = F(pc - 1) /\ m = F(pc) /\ m = FastCommand(l, Cmd)
                      /\ Seen(l) /\ l.keep /\ ~ l.stop /\ ~ l.quit
                      /\ Matches(Cmd, l.no, l.total, l.line)
                   BY <1>18, <2>1, <2>3
             <3>2. m = [l EXCEPT !.line = Subst(Cmd, <<@>>)[1],
                                 !.extra = IF "p" \in Cmd.f /\ Occurs(Cmd.x, <<l.line>>) THEN @ + 1 ELSE @]
                   BY <2>1, <3>1 DEF FastCommand
             <3>3. /\ m.no = l.no /\ m.total = l.total /\ m.line = Subst(Cmd, <<l.line>>)[1]
                   /\ m.extra = IF "p" \in Cmd.f /\ Occurs(Cmd.x, <<l.line>>) THEN l.extra + 1 ELSE l.extra
                   /\ m.app = l.app /\ m.ins = l.ins /\ m.changed = l.changed
                   /\ m.keep /\ ~ m.stop /\ ~ m.quit
                   BY <3>1, <3>2 DEF LineState
             <3>4. cyc.pat = <<l.line>> /\ l.line \in Line /\ Cmd \in Statement
                   BY <1>15, <2>1, <3>1 DEF Seen, LineState, Alike
             <3>5. pc' = pc + 1 /\ UNCHANGED <<i, out, phase>>
                   BY <1>28 DEF Substitute, Step
             <3>6. CASE Occurs(Cmd.x, cyc.pat)
                   <4>1. cyc' = [cyc EXCEPT !.pat = Subst(Cmd, @), !.subst = TRUE,
                                            !.extra = IF "p" \in Cmd.f THEN @ + 1 ELSE @]
                         BY <1>28, <2>3, <3>6 DEF Substitute, Step
                   <4>2. /\ cyc'.extra = IF "p" \in Cmd.f THEN cyc.extra + 1 ELSE cyc.extra
                         /\ cyc'.pat = Subst(Cmd, cyc.pat) /\ cyc'.no = cyc.no
                         /\ cyc'.app = cyc.app /\ cyc'.ins = cyc.ins /\ cyc'.changed = cyc.changed
                         BY <1>6, <4>1 DEF Cycle
                   <4>3. PICK p : p = Subst(Cmd, <<l.line>>)
                         OBVIOUS
                   <4>4. p = <<p[1]>>
                         <5>1. <<l.line>> \in Text /\ Len(<<l.line>>) = 1
                               BY <3>4 DEF Text
                         <5>2. p \in Text /\ Len(p) = 1
                               BY <3>4, <4>3, <5>1, SubstTyped
                         <5>. QED BY <5>2, OneLine
                   <4>5. cyc'.pat = <<m.line>>
                         BY <3>3, <3>4, <4>2, <4>3, <4>4
                   <4>6. cyc'.extra = m.extra
                         BY <3>1, <3>3, <3>4, <3>6, <4>2 DEF Seen
                   <4>7. Seen(m)' /\ (GivesUp => NoTexts')
                         BY <1>23, <2>1, <3>1, <3>3, <3>5, <4>2, <4>5, <4>6 DEF Seen
                   <4>. QED BY <1>16, <2>1, <3>1, <3>3, <3>5, <4>7
             <3>7. CASE ~ Occurs(Cmd.x, cyc.pat)
                   <4>1. cyc' = cyc
                         BY <1>28, <3>7 DEF Substitute, Step
                   <4>2. m.line = l.line /\ m.extra = l.extra
                         BY <3>3, <3>4, <3>7, NoSubst
                   <4>3. Seen(m)' /\ (GivesUp => NoTexts')
                         BY <1>23, <2>1, <3>1, <3>3, <3>5, <4>1, <4>2 DEF Seen
                   <4>. QED BY <1>16, <2>1, <3>1, <3>3, <3>5, <4>3
             <3>. QED BY <3>6, <3>7
       <2>. QED BY <2>2, <2>3
\* No other command is in a simple script.
<1>29. ASSUME phase = "run", pc <= n PROVE Cmd.op \in FastOps
       BY <1>15, <1>29 DEF Alike
<1>30. CASE Block \/ NoOp \/ Branch \/ BranchIfSubst \/ Next_ \/ AppendNext
       BY <1>6, <1>29, <1>30 DEF Block, NoOp, Branch, BranchIfSubst, Next_, AppendNext, Running, FastOps
<1>31. CASE DeleteFirst \/ PrintFirst \/ Hold
       BY <1>6, <1>29, <1>31 DEF DeleteFirst, PrintFirst, Hold, Running, FastOps
<1>. QED BY <1>10, <1>12, <1>13, <1>14, <1>19, <1>20, <1>21, <1>24, <1>25, <1>26, <1>27, <1>28, <1>30,
            <1>31 DEF Next

\* A script that needs no control flow prints the same whichever interpreter runs
\* it, and ends in the same line (is_control_script, apply_sed_commands).
THEOREM InterpretersAgree == Spec => []PathsAgree
<1>1. ASSUME TypeOK, AgreeInv, phase = "done", Simple PROVE out = Fast(stmts, input, quiet)
      <2>1. IsOutput(Upto(stmts, input, quiet), stmts, input, quiet)
            BY <1>1, SimpleScript, InputTyped, UptoIs
      <2>2. out = Upto(stmts, input, quiet)[Len(input)].out
            BY <1>1 DEF AgreeInv, Together
      <2>. QED BY <2>1, <2>2 DEF IsOutput
<1>2. TypeOK /\ AgreeInv => PathsAgree
      BY <1>1 DEF PathsAgree
<1>. QED BY <1>2, InitTyped, NextTyped, AgreeInit, AgreeStep, PTL DEF Spec
=============================================================================
