---------------------------- MODULE InterpProofs ----------------------------
(***************************************************************************)
(* Proofs about Interp, for every script: the depth counters that bound     *)
(* function calls and substitutions are exact.                             *)
(***************************************************************************)
EXTENDS Interp, FiniteSetTheorems, SequenceTheorems, TLAPS

-----------------------------------------------------------------------------
(* The stack of activations.                                               *)

Entries(s) == {s[i] : i \in DOMAIN s}

\* A frame is a record whose phase says what it waits for; the call of the
\* host is at the bottom, and who waits for a substitution is in it.
Stacked ==
    /\ stack \in Seq(Entries(stack))
    /\ \A i \in DOMAIN stack :
         /\ {"k", "ph"} \subseteq DOMAIN stack[i]
         /\ stack[i].k = "top" => i = 1
         /\ stack[i].k = "call" => stack[i].ph = "body"
         /\ stack[i].k = "subst" /\ (i < Len(stack) \/ ret # Nil) =>
              stack[i].ph = "inner"

\* The depths are those of the open activations, and within their limits.
Depths ==
    stack # <<>> /\ ~ drift =>
        /\ fnDepth = Count("call", "body") /\ fnDepth \in 0 .. MaxFn
        /\ substDepth = Count("subst", "inner") /\ substDepth \in 0 .. MaxSubst
        /\ Len(scopes) >= fnDepth

IInv == Stacked /\ Depths /\ scopes \in Seq(Entries(scopes))

-----------------------------------------------------------------------------
(* Sequences: what pushing, popping and replacing a frame makes of them.    *)

LEMMA Entered ==
    ASSUME NEW S, NEW s \in Seq(S)
    PROVE  s \in Seq(Entries(s))
<1>1. s \in [1 .. Len(s) -> Entries(s)] /\ Len(s) \in Nat
      BY DEF Entries
<1>. QED BY <1>1, SeqDef

LEMMA Popped ==
    ASSUME NEW S, NEW s \in Seq(S), s # <<>>
    PROVE  LET b == SubSeq(s, 1, Len(s) - 1)
           IN  /\ b \in Seq(S) /\ b \in Seq(Entries(b))
               /\ Len(s) \in Nat \ {0} /\ Len(b) = Len(s) - 1
               /\ \A i \in 1 .. Len(s) - 1 : b[i] = s[i]
<1>. DEFINE n == Len(s) - 1
<1>. DEFINE b == SubSeq(s, 1, n)
<1>1. Len(s) \in Nat \ {0} /\ s \in [1 .. Len(s) -> S]
      BY EmptySeq, LenProperties
<1>2. n \in Nat /\ n <= Len(s)
      BY <1>1
<1>. HIDE DEF n
<1>3. \A i \in 1 .. n : s[i] \in S
      BY <1>1, <1>2
<1>4. /\ b \in Seq(S) /\ Len(b) = IF 1 <= n THEN n - 1 + 1 ELSE 0
      /\ \A i \in 1 .. n - 1 + 1 : b[i] = s[1 + i - 1]
      BY <1>2, <1>3, SubSeqProperties
<1>. HIDE DEF b
<1>5. Len(b) = n
      BY <1>2, <1>4
<1>6. \A i \in 1 .. n : b[i] = s[i]
      BY <1>2, <1>4
<1>7. b \in Seq(Entries(b))
      BY <1>4, Entered
<1>. QED BY <1>1, <1>4, <1>5, <1>6, <1>7 DEF b, n

LEMMA Pushed ==
    ASSUME NEW S, NEW s \in Seq(S), NEW f, NEW g
    PROVE  LET b == s \o <<f, g>>
           IN  /\ b \in Seq(Entries(b)) /\ Len(s) \in Nat /\ Len(b) = Len(s) + 2
               /\ \A i \in 1 .. Len(s) : b[i] = s[i]
               /\ b[Len(s) + 1] = f /\ b[Len(s) + 2] = g
<1>. DEFINE T == S \cup {f, g}
<1>. DEFINE b == s \o <<f, g>>
<1>1. s \in Seq(T) /\ Len(s) \in Nat
      BY SeqMonotonic, LenProperties
<1>2. <<f, g>> \in Seq(T) /\ Len(<<f, g>>) = 2 /\ <<f, g>>[1] = f /\ <<f, g>>[2] = g
      OBVIOUS
<1>. HIDE DEF T
<1>3. /\ b \in Seq(T) /\ Len(b) = Len(s) + 2
      /\ \A i \in 1 .. Len(s) + 2 :
           b[i] = IF i <= Len(s) THEN s[i] ELSE <<f, g>>[i - Len(s)]
      BY <1>1, <1>2, ConcatProperties
<1>. HIDE DEF b
<1>4. b[Len(s) + 1] = <<f, g>>[1] /\ b[Len(s) + 2] = <<f, g>>[2]
      BY <1>1, <1>3
<1>5. \A i \in 1 .. Len(s) : b[i] = s[i]
      BY <1>1, <1>3
<1>6. b \in Seq(Entries(b))
      BY <1>3, Entered
<1>. QED BY <1>1, <1>2, <1>3, <1>4, <1>5, <1>6 DEF b

LEMMA Added ==
    ASSUME NEW S, NEW s \in Seq(S), NEW f
    PROVE  LET b == Append(s, f)
           IN  /\ b \in Seq(Entries(b)) /\ Len(s) \in Nat /\ Len(b) = Len(s) + 1
               /\ \A i \in 1 .. Len(s) : b[i] = s[i]
               /\ b[Len(s) + 1] = f
<1>. DEFINE T == S \cup {f}
<1>. DEFINE b == Append(s, f)
<1>1. s \in Seq(T) /\ Len(s) \in Nat
      BY SeqMonotonic, LenProperties
<1>2. f \in T
      OBVIOUS
<1>. HIDE DEF T
<1>3. /\ b \in Seq(T) /\ Len(b) = Len(s) + 1 /\ b[Len(s) + 1] = f
      /\ \A i \in 1 .. Len(s) : b[i] = s[i]
      BY <1>1, <1>2, AppendProperties
<1>. HIDE DEF b
<1>4. b \in Seq(Entries(b))
      BY <1>3, Entered
<1>. QED BY <1>1, <1>3, <1>4 DEF b

-----------------------------------------------------------------------------
(* The steps that neither open nor close a call or a substitution.          *)

Opened(k, p) == {i \in DOMAIN stack : stack[i].k = k /\ stack[i].ph = p}

\* The frame at the top goes on as f; it waits for the new frame g.
GoesOn(f) ==
    /\ {"k", "ph"} \subseteq DOMAIN f
    /\ Top.k \notin {"call", "subst"} /\ f.k \in {Top.k, "list"}
Begins(g) ==
    /\ {"k", "ph"} \subseteq DOMAIN g
    /\ g.k \notin {"top", "call"} /\ (g.k = "subst" => g.ph = "mark")

Moves ==
    \/ UNCHANGED stack /\ (Top.k = "list" \/ UNCHANGED ret)
    \/ \E f : GoesOn(f) /\ stack' = Append(Below, f)
    \/ \E f, g : GoesOn(f) /\ Begins(g) /\ ret' = Nil /\ stack' = Below \o <<f, g>>
    \/ Top.k # "call" /\ (Top.k = "subst" => Top.ph = "mark") /\ stack' = Below

Pairs == {<<"call", "body">>, <<"subst", "inner">>}

LEMMA AtTop ==
    ASSUME Stacked, stack # <<>>
    PROVE  LET n == Len(stack)
           IN  /\ stack \in Seq(Entries(stack)) /\ n \in Nat \ {0}
               /\ DOMAIN stack = 1 .. n /\ Top = stack[n]
               /\ Below \in Seq(Entries(stack)) /\ Below \in Seq(Entries(Below))
               /\ Len(Below) = n - 1 /\ DOMAIN Below = 1 .. n - 1
               /\ \A i \in 1 .. n - 1 : Below[i] = stack[i]
<1>. DEFINE n == Len(stack)
<1>1. stack \in Seq(Entries(stack)) /\ stack # <<>>
      BY DEF Stacked
<1>2. /\ Below \in Seq(Entries(stack)) /\ Below \in Seq(Entries(Below))
      /\ n \in Nat \ {0} /\ Len(Below) = n - 1
      /\ \A i \in 1 .. n - 1 : Below[i] = stack[i]
      BY <1>1, Popped DEF Below
<1>3. DOMAIN stack = 1 .. n /\ DOMAIN Below = 1 .. n - 1
      BY <1>1, <1>2, LenProperties
<1>. QED BY <1>1, <1>2, <1>3 DEF Top

LEMMA MovesKeep ==
    ASSUME Stacked, stack # <<>>, Moves
    PROVE  Stacked' /\ \A x \in Pairs : Opened(x[1], x[2])' = Opened(x[1], x[2])
<1>. DEFINE n == Len(stack)
<1>1. /\ stack \in Seq(Entries(stack)) /\ n \in Nat \ {0} /\ DOMAIN stack = 1 .. n
      /\ Top = stack[n]
      /\ Below \in Seq(Entries(stack)) /\ Below \in Seq(Entries(Below))
      /\ Len(Below) = n - 1 /\ DOMAIN Below = 1 .. n - 1
      /\ \A i \in 1 .. n - 1 : Below[i] = stack[i]
      BY AtTop
<1>2. \A i \in 1 .. n :
        /\ {"k", "ph"} \subseteq DOMAIN stack[i]
        /\ stack[i].k = "top" => i = 1
        /\ stack[i].k = "call" => stack[i].ph = "body"
        /\ stack[i].k = "subst" /\ (i < n \/ ret # Nil) => stack[i].ph = "inner"
      BY <1>1 DEF Stacked
<1>. HIDE DEF n
<1>3. CASE UNCHANGED stack /\ (Top.k = "list" \/ UNCHANGED ret)
      <2>1. Opened("call", "body")' = Opened("call", "body")
            BY <1>3 DEF Opened
      <2>2. Opened("subst", "inner")' = Opened("subst", "inner")
            BY <1>3 DEF Opened
      <2>3. Len(stack) = n
            BY DEF n
      <2>4. \A i \in 1 .. n : stack[i].k = "subst" /\ ret' # Nil => stack[i].ph = "inner"
            BY <1>1, <1>2, <1>3
      <2>. QED BY <1>1, <1>2, <1>3, <2>1, <2>2, <2>3, <2>4 DEF Stacked, Pairs
<1>4. ASSUME NEW f, GoesOn(f), stack' = Append(Below, f)
      PROVE  Stacked' /\ \A x \in Pairs : Opened(x[1], x[2])' = Opened(x[1], x[2])
      <2>1. /\ stack' \in Seq(Entries(stack')) /\ Len(stack') = n
            /\ DOMAIN stack' = 1 .. n
            /\ \A i \in 1 .. n - 1 : stack'[i] = stack[i]
            /\ stack'[n] = f
            <3>1. /\ stack' \in Seq(Entries(stack')) /\ Len(stack') = n - 1 + 1
                  /\ \A i \in 1 .. n - 1 : stack'[i] = Below[i]
                  /\ stack'[n - 1 + 1] = f
                  BY <1>1, <1>4, Added
            <3>2. n - 1 + 1 = n
                  BY <1>1
            <3>. QED BY <1>1, <3>1, <3>2, LenProperties
      <2>2. Stacked'
            <3>. SUFFICES ASSUME NEW i \in 1 .. n
                          PROVE  /\ {"k", "ph"} \subseteq DOMAIN stack'[i]
                                 /\ stack'[i].k = "top" => i = 1
                                 /\ stack'[i].k = "call" => stack'[i].ph = "body"
                                 /\ stack'[i].k = "subst" /\ (i < n \/ ret' # Nil) =>
                                      stack'[i].ph = "inner"
                 BY <2>1 DEF Stacked
            <3>1. CASE i = n
                  BY <1>1, <1>2, <1>4, <2>1, <3>1 DEF GoesOn
            <3>2. CASE i # n
                  <4>1. i \in 1 .. n - 1 /\ i < n
                        BY <1>1, <3>2
                  <4>. QED BY <1>2, <2>1, <4>1
            <3>. QED BY <3>1, <3>2
      <2>3. \A i \in 1 .. n : i = n \/ i \in 1 .. n - 1
            BY <1>1
      <2>4. Opened("call", "body")' = Opened("call", "body")
            BY <1>1, <1>4, <2>1, <2>3 DEF Opened, GoesOn
      <2>5. Opened("subst", "inner")' = Opened("subst", "inner")
            BY <1>1, <1>4, <2>1, <2>3 DEF Opened, GoesOn
      <2>. QED BY <2>2, <2>4, <2>5 DEF Pairs
<1>5. ASSUME NEW f, NEW g, GoesOn(f), Begins(g), ret' = Nil, stack' = Below \o <<f, g>>
      PROVE  Stacked' /\ \A x \in Pairs : Opened(x[1], x[2])' = Opened(x[1], x[2])
      <2>1. /\ stack' \in Seq(Entries(stack')) /\ Len(stack') = n + 1
            /\ DOMAIN stack' = 1 .. n + 1
            /\ \A i \in 1 .. n - 1 : stack'[i] = stack[i]
            /\ stack'[n] = f /\ stack'[n + 1] = g
            <3>1. /\ stack' \in Seq(Entries(stack')) /\ Len(stack') = n - 1 + 2
                  /\ \A i \in 1 .. n - 1 : stack'[i] = Below[i]
                  /\ stack'[n - 1 + 1] = f /\ stack'[n - 1 + 2] = g
                  <4>. DEFINE b == Below \o <<f, g>>
                  <4>1. /\ b \in Seq(Entries(b)) /\ Len(b) = Len(Below) + 2
                        /\ \A i \in 1 .. Len(Below) : b[i] = Below[i]
                        /\ b[Len(Below) + 1] = f /\ b[Len(Below) + 2] = g
                        BY <1>1, Pushed
                  <4>2. stack' = b
                        BY <1>5
                  <4>. HIDE DEF b
                  <4>. QED BY <1>1, <4>1, <4>2
            <3>2. n - 1 + 1 = n /\ n - 1 + 2 = n + 1
                  BY <1>1
            <3>. QED BY <1>1, <3>1, <3>2, LenProperties
      <2>2. \A i \in 1 .. n + 1 : i = n + 1 \/ i = n \/ (i \in 1 .. n - 1 /\ i < n)
            BY <1>1
      <2>3. Stacked'
            <3>. SUFFICES ASSUME NEW i \in 1 .. n + 1
                          PROVE  /\ {"k", "ph"} \subseteq DOMAIN stack'[i]
                                 /\ stack'[i].k = "top" => i = 1
                                 /\ stack'[i].k = "call" => stack'[i].ph = "body"
                                 /\ stack'[i].k = "subst" /\ i < n + 1 =>
                                      stack'[i].ph = "inner"
                 BY <1>5, <2>1 DEF Stacked
            <3>1. CASE i = n + 1
                  BY <1>1, <1>5, <2>1, <3>1 DEF Begins
            <3>2. CASE i = n
                  BY <1>1, <1>2, <1>5, <2>1, <3>2 DEF GoesOn
            <3>3. CASE i \in 1 .. n - 1 /\ i < n
                  BY <1>1, <1>2, <2>1, <3>3
            <3>. QED BY <2>2, <3>1, <3>2, <3>3
      <2>4. n + 1 \notin 1 .. n /\ \A i \in 1 .. n : i \in 1 .. n + 1
            BY <1>1
      <2>5. Opened("call", "body")' = Opened("call", "body")
            BY <1>1, <1>5, <2>1, <2>2, <2>4 DEF Opened, GoesOn, Begins
      <2>6. Opened("subst", "inner")' = Opened("subst", "inner")
            BY <1>1, <1>5, <2>1, <2>2, <2>4 DEF Opened, GoesOn, Begins
      <2>. QED BY <2>3, <2>5, <2>6 DEF Pairs
<1>6. CASE Top.k # "call" /\ (Top.k = "subst" => Top.ph = "mark") /\ stack' = Below
      <2>1. \A i \in 1 .. n - 1 : i \in 1 .. n /\ i < n
            BY <1>1
      <2>2. Stacked'
            <3>. SUFFICES ASSUME NEW i \in 1 .. n - 1
                          PROVE  /\ {"k", "ph"} \subseteq DOMAIN Below[i]
                                 /\ Below[i].k = "top" => i = 1
                                 /\ Below[i].k = "call" => Below[i].ph = "body"
                                 /\ Below[i].k = "subst" => Below[i].ph = "inner"
                 BY <1>1, <1>6 DEF Stacked
            <3>. QED BY <1>1, <1>2, <2>1
      <2>3. \A i \in 1 .. n : i = n \/ i \in 1 .. n - 1
            BY <1>1
      <2>4. Opened("call", "body")' = Opened("call", "body")
            BY <1>1, <1>6, <2>1, <2>3 DEF Opened
      <2>5. Opened("subst", "inner")' = Opened("subst", "inner")
            BY <1>1, <1>6, <2>1, <2>3 DEF Opened
      <2>. QED BY <2>2, <2>4, <2>5 DEF Pairs
<1>. QED BY <1>3, <1>4, <1>5, <1>6 DEF Moves

\* What a new frame is.
LEMMA Frames ==
    /\ \A k, c, p : /\ {"k", "ph"} \subseteq DOMAIN Frame(k, c, p)
                    /\ Frame(k, c, p).k = k /\ Frame(k, c, p).ph = p
    /\ \A b : /\ {"k", "ph"} \subseteq DOMAIN List(b)
              /\ List(b).k = "list" /\ List(b).ph = "seg"
BY DEF Frame, List

\* A call or a substitution waits for its list.
LEMMA PushKeeps ==
    ASSUME Stacked, stack # <<>>, Top.k = "list", ret' = Nil,
           NEW f, NEW b, stack' = stack \o <<f, List(b)>>,
           {"k", "ph"} \subseteq DOMAIN f, f.k # "top",
           f.k = "call" => f.ph = "body", f.k = "subst" => f.ph = "inner"
    PROVE  /\ Stacked'
           /\ \A x \in Pairs :
                Opened(x[1], x[2])' = IF f.k = x[1]
                                      THEN Opened(x[1], x[2]) \cup {Len(stack) + 1}
                                      ELSE Opened(x[1], x[2])
           /\ Len(stack) + 1 \notin DOMAIN stack
<1>. DEFINE n == Len(stack)
<1>1. /\ stack \in Seq(Entries(stack)) /\ n \in Nat \ {0} /\ DOMAIN stack = 1 .. n
      /\ Top = stack[n]
      BY AtTop
<1>2. \A i \in 1 .. n :
        /\ {"k", "ph"} \subseteq DOMAIN stack[i]
        /\ stack[i].k = "top" => i = 1
        /\ stack[i].k = "call" => stack[i].ph = "body"
        /\ stack[i].k = "subst" => stack[i].ph = "inner"
      <2>. SUFFICES ASSUME NEW i \in 1 .. n, stack[i].k = "subst"
                    PROVE  stack[i].ph = "inner"
           BY <1>1 DEF Stacked
      <2>1. i < n
            BY <1>1
      <2>. QED BY <1>1, <2>1 DEF Stacked
<1>. HIDE DEF n
<1>3. /\ stack' \in Seq(Entries(stack')) /\ Len(stack') = n + 2
      /\ DOMAIN stack' = 1 .. n + 2
      /\ \A i \in 1 .. n : stack'[i] = stack[i]
      /\ stack'[n + 1] = f /\ stack'[n + 2] = List(b)
      <2>. DEFINE g == List(b)
      <2>. DEFINE s == stack \o <<f, g>>
      <2>. HIDE DEF g
      <2>1. /\ s \in Seq(Entries(s)) /\ Len(s) = n + 2
            /\ \A i \in 1 .. n : s[i] = stack[i]
            /\ s[n + 1] = f /\ s[n + 2] = g
            BY <1>1, Pushed DEF n
      <2>2. stack' = s
            BY DEF g
      <2>. HIDE DEF s
      <2>. QED BY <2>1, <2>2, LenProperties DEF g
<1>4. \A i \in 1 .. n + 2 : i = n + 2 \/ i = n + 1 \/ i \in 1 .. n
      BY <1>1
<1>5. {"k", "ph"} \subseteq DOMAIN List(b) /\ List(b).k = "list"
      BY Frames
<1>6. Stacked'
      <2>. SUFFICES ASSUME NEW i \in 1 .. n + 2
                    PROVE  /\ {"k", "ph"} \subseteq DOMAIN stack'[i]
                           /\ stack'[i].k = "top" => i = 1
                           /\ stack'[i].k = "call" => stack'[i].ph = "body"
                           /\ stack'[i].k = "subst" => stack'[i].ph = "inner"
           BY <1>3 DEF Stacked
      <2>. QED BY <1>2, <1>3, <1>4, <1>5
<1>7. n + 1 \notin 1 .. n /\ n + 2 \notin 1 .. n /\ n + 1 \in 1 .. n + 2
      /\ \A i \in 1 .. n : i \in 1 .. n + 2
      BY <1>1
<1>8. Opened("call", "body")' = IF f.k = "call" THEN Opened("call", "body") \cup {n + 1}
                                ELSE Opened("call", "body")
      BY <1>1, <1>3, <1>4, <1>5, <1>7 DEF Opened
<1>9. Opened("subst", "inner")' = IF f.k = "subst" THEN Opened("subst", "inner") \cup {n + 1}
                                  ELSE Opened("subst", "inner")
      BY <1>1, <1>3, <1>4, <1>5, <1>7 DEF Opened
<1>. QED BY <1>1, <1>6, <1>7, <1>8, <1>9 DEF n, Pairs

\* A call that returns, a substitution whose list has ended.
LEMMA CloseKeeps ==
    ASSUME Stacked, stack # <<>>, ret # Nil,
           \/ Top.k = "call" /\ stack' = Below
           \/ Top.k = "subst" /\ ret' = Nil /\ stack' = Append(Below, [Top EXCEPT !.ph = "mark"])
    PROVE  /\ Stacked'
           /\ \A x \in Pairs :
                Opened(x[1], x[2])' = IF Top.k = x[1]
                                      THEN Opened(x[1], x[2]) \ {Len(stack)}
                                      ELSE Opened(x[1], x[2])
           /\ \A x \in Pairs : Top.k = x[1] => Len(stack) \in Opened(x[1], x[2])
<1>. DEFINE n == Len(stack)
<1>1. /\ stack \in Seq(Entries(stack)) /\ n \in Nat \ {0} /\ DOMAIN stack = 1 .. n
      /\ Top = stack[n]
      /\ Below \in Seq(Entries(stack)) /\ Below \in Seq(Entries(Below))
      /\ Len(Below) = n - 1 /\ DOMAIN Below = 1 .. n - 1
      /\ \A i \in 1 .. n - 1 : Below[i] = stack[i]
      BY AtTop
<1>2. \A i \in 1 .. n :
        /\ {"k", "ph"} \subseteq DOMAIN stack[i]
        /\ stack[i].k = "top" => i = 1
        /\ stack[i].k = "call" => stack[i].ph = "body"
        /\ stack[i].k = "subst" => stack[i].ph = "inner"
      BY <1>1 DEF Stacked
<1>. HIDE DEF n
<1>3. \A i \in 1 .. n : i = n \/ (i \in 1 .. n - 1 /\ i < n)
      BY <1>1
<1>4. \A i \in 1 .. n - 1 : i \in 1 .. n /\ i # n
      BY <1>1
<1>5. \A x \in Pairs : Top.k = x[1] => n \in Opened(x[1], x[2])
      <2>1. n \in 1 .. n
            BY <1>1
      <2>. QED BY <1>1, <1>2, <2>1 DEF Opened, Pairs
<1>6. CASE Top.k = "call" /\ stack' = Below
      <2>1. Stacked'
            BY <1>1, <1>2, <1>4, <1>6 DEF Stacked
      <2>2. Opened("call", "body")' = Opened("call", "body") \ {n}
            BY <1>1, <1>3, <1>4, <1>6 DEF Opened
      <2>3. Opened("subst", "inner")' = Opened("subst", "inner")
            BY <1>1, <1>3, <1>4, <1>6 DEF Opened
      <2>. QED BY <1>5, <1>6, <2>1, <2>2, <2>3 DEF n, Pairs
<1>7. CASE Top.k = "subst" /\ ret' = Nil /\ stack' = Append(Below, [Top EXCEPT !.ph = "mark"])
      <2>. DEFINE f == [Top EXCEPT !.ph = "mark"]
      <2>1. {"k", "ph"} \subseteq DOMAIN f /\ f.k = "subst" /\ f.ph = "mark"
            <3>1. {"k", "ph"} \subseteq DOMAIN Top
                  BY <1>1, <1>2
            <3>. QED BY <1>7, <3>1
      <2>2. stack' = Append(Below, f)
            BY <1>7
      <2>. HIDE DEF f
      <2>3. /\ stack' \in Seq(Entries(stack')) /\ Len(stack') = n
            /\ DOMAIN stack' = 1 .. n
            /\ \A i \in 1 .. n - 1 : stack'[i] = stack[i]
            /\ stack'[n] = f
            <3>1. /\ stack' \in Seq(Entries(stack')) /\ Len(stack') = n - 1 + 1
                  /\ \A i \in 1 .. n - 1 : stack'[i] = Below[i]
                  /\ stack'[n - 1 + 1] = f
                  BY <1>1, <2>2, Added
            <3>2. n - 1 + 1 = n
                  BY <1>1
            <3>. QED BY <1>1, <3>1, <3>2, LenProperties
      <2>4. Stacked'
            <3>. SUFFICES ASSUME NEW i \in 1 .. n
                          PROVE  /\ {"k", "ph"} \subseteq DOMAIN stack'[i]
                                 /\ stack'[i].k = "top" => i = 1
                                 /\ stack'[i].k = "call" => stack'[i].ph = "body"
                                 /\ stack'[i].k = "subst" /\ i < n => stack'[i].ph = "inner"
                 BY <1>7, <2>3 DEF Stacked
            <3>1. ~ n < n
                  BY <1>1
            <3>. QED BY <1>2, <1>3, <2>1, <2>3, <3>1
      <2>5. Opened("call", "body")' = Opened("call", "body")
            BY <1>1, <1>3, <1>7, <2>1, <2>3 DEF Opened
      <2>6. Opened("subst", "inner")' = Opened("subst", "inner") \ {n}
            BY <1>1, <1>3, <1>4, <2>1, <2>3 DEF Opened
      <2>. QED BY <1>5, <1>7, <2>4, <2>5, <2>6 DEF n, Pairs
<1>. QED BY <1>6, <1>7

\* What most steps leave alone.
Even ==
    /\ stack # <<>> /\ Moves
    /\ UNCHANGED <<fnDepth, substDepth, drift>>
    /\ \/ UNCHANGED scopes
       \/ scopes # <<>> /\ \E x : scopes' = [scopes EXCEPT ![Len(scopes)] = x]

LEMMA TopFrame ==
    ASSUME Stacked, Fits
    PROVE  stack # <<>> /\ {"k", "ph"} \subseteq DOMAIN Top
<1>1. Len(stack) \in 1 .. MaxStack /\ stack \in Seq(Entries(stack))
      BY DEF Fits, Stacked
<1>2. stack # <<>>
      BY <1>1
<1>3. Len(stack) \in DOMAIN stack
      BY <1>1, <1>2, Popped, LenProperties
<1>. QED BY <1>2, <1>3 DEF Stacked, Top

\* Commands that need no frame.
LEMMA SimpleEven ==
    ASSUME Stacked, Simple, ~ Panic
    PROVE  Even
<1>1. Stacked /\ Fits /\ Top.k = "list"
      BY DEF Simple, Mark, Fail, Test, Configure, Assign, Define, SetPositional,
         Local, Signal, Unknown, Runs, AtSegment, Running
<1>2. UNCHANGED <<stack, fnDepth, substDepth, drift>>
      BY DEF Simple, Mark, Fail, Test, Configure, Assign, Define, SetPositional,
         Local, Signal, Unknown, Cancelled, Answer, depth
<1>3. \/ UNCHANGED scopes
      \/ scopes # <<>> /\ \E x : scopes' = [scopes EXCEPT ![Len(scopes)] = x]
      <2>1. CASE Local
            <3>1. scopes # <<>> => scopes' = [scopes EXCEPT ![Len(scopes)] =
                                    Append(scopes[Len(scopes)], <<Do.x, sh.vars[Do.x]>>)]
                  BY <2>1 DEF Local
            <3>2. scopes = <<>> => scopes' = scopes
                  BY <2>1 DEF Local
            <3>. QED BY <3>1, <3>2
      <2>2. CASE ~ Local
            BY <2>2 DEF Simple, Mark, Fail, Test, Configure, Assign, Define,
               SetPositional, Signal, Unknown, depth
      <2>. QED BY <2>1, <2>2
<1>. QED BY <1>1, <1>2, <1>3, TopFrame DEF Even, Moves

LEMMA ListsEven ==
    ASSUME Stacked, Lists, ~ ListResult
    PROVE  Even
<1>1. Stacked /\ Fits /\ Top.k = "list"
      BY DEF Lists, ListEnd, ListCancelled, ListSkip, ErrTrapDone, ListNext,
         AtSegment, Running, Back
<1>2. UNCHANGED <<fnDepth, substDepth, drift, scopes>>
      BY DEF Lists, ListEnd, ListCancelled, ListSkip, ErrTrapDone, ListNext, depth
<1>3. stack # <<>> /\ {"k", "ph"} \subseteq DOMAIN Top
      BY <1>1, TopFrame
<1>4. Moves
      <2>1. CASE ListEnd \/ ListCancelled
            BY <1>1, <2>1 DEF ListEnd, ListCancelled, Return, Moves
      <2>2. CASE ListSkip
            <3>. DEFINE f == [Top EXCEPT !.i = @ + 1]
            <3>1. stack' = Append(Below, f)
                  BY <2>2 DEF ListSkip, Goto
            <3>2. GoesOn(f)
                  BY <1>1, <1>3 DEF GoesOn
            <3>. QED BY <3>1, <3>2 DEF Moves
      <2>3. CASE ErrTrapDone
            <3>. DEFINE f == [Top EXCEPT !.ph = "after", !.out = @ \o ret.out]
            <3>1. stack' = Append(Below, f)
                  BY <2>3 DEF ErrTrapDone, Goto
            <3>2. GoesOn(f)
                  BY <1>1, <1>3 DEF GoesOn
            <3>. QED BY <3>1, <3>2 DEF Moves
      <2>4. CASE ListNext
            <3>. DEFINE f == [Top EXCEPT !.ph = "seg", !.i = @ + 1]
            <3>1. stack' = Append(Below, f) \/ stack' = Below
                  BY <2>4 DEF ListNext, Goto, Return
            <3>2. GoesOn(f)
                  BY <1>1, <1>3 DEF GoesOn
            <3>. QED BY <1>1, <3>1, <3>2 DEF Moves
      <2>. QED BY <2>1, <2>2, <2>3, <2>4 DEF Lists
<1>. QED BY <1>2, <1>3, <1>4 DEF Even

\* The construct at the top goes on with a frame or with nothing.
LEMMA ConstructsEven ==
    ASSUME Stacked, Group \/ Case \/ Not \/ NotStep \/ If \/ IfStep
    PROVE  Even
<1>1. Fits /\ Top.k \in {"list", "not", "if"}
      BY DEF Group, Case, Not, NotStep, If, IfStep, Runs, AtSegment, Running, Back
<1>2. UNCHANGED <<fnDepth, substDepth, drift, scopes>>
      BY DEF Group, Case, Not, NotStep, If, IfStep, depth
<1>3. stack # <<>> /\ {"k", "ph"} \subseteq DOMAIN Top
      BY <1>1, TopFrame
<1>4. GoesOn(Top) /\ \A b : GoesOn(List(b)) /\ Begins(List(b))
      BY <1>1, <1>3, Frames DEF GoesOn, Begins
<1>5. Moves
      <2>1. CASE Group
            BY <1>4, <2>1 DEF Group, Wait, Enter, Moves
      <2>2. CASE Case
            <3>1. \/ UNCHANGED stack /\ Top.k = "list"
                  \/ \E b : ret' = Nil /\ stack' = Below \o <<Top, List(b)>>
                  BY <2>2 DEF Case, Wait, Enter, Answer, Runs, AtSegment, Running
            <3>. QED BY <1>4, <3>1 DEF Moves
      <2>3. CASE Not
            <3>. DEFINE g == [Frame("not", Do, "run") EXCEPT !.i = 1]
            <3>1. ret' = Nil /\ stack' = Below \o <<Top, g>>
                  BY <2>3 DEF Not, Wait, Enter
            <3>2. Begins(g)
                  BY Frames DEF Begins
            <3>. QED BY <1>4, <3>1, <3>2 DEF Moves
      <2>4. CASE NotStep
            <3>1. \/ ret' = Nil /\ stack' = Below \o <<Top, List(Top.cmd.x)>>
                  \/ stack' = Below
                  BY <2>4 DEF NotStep, Enter, Return
            <3>. QED BY <1>1, <1>4, <3>1 DEF Moves
      <2>5. CASE If
            <3>. DEFINE g == Frame("if", Do, "cond")
            <3>1. ret' = Nil /\ stack' = Below \o <<Top, g>>
                  BY <2>5 DEF If, Wait, Enter
            <3>2. Begins(g)
                  BY Frames DEF Begins
            <3>. QED BY <1>4, <3>1, <3>2 DEF Moves
      <2>6. CASE IfStep
            <3>. DEFINE f == [Top EXCEPT !.i = @ + 1]
            <3>1. \/ ret' = Nil /\ \E b : stack' = Below \o <<Top, List(b)>>
                  \/ stack' = Below \/ stack' = Append(Below, f)
                  \/ \E b : stack' = Append(Below, List(b))
                  BY <2>6 DEF IfStep, Enter, Return, Goto
            <3>2. GoesOn(f)
                  BY <1>1, <1>3 DEF GoesOn
            <3>. QED BY <1>1, <1>4, <3>1, <3>2 DEF Moves
      <2>. QED BY <2>1, <2>2, <2>3, <2>4, <2>5, <2>6
<1>. QED BY <1>2, <1>3, <1>5 DEF Even

LEMMA LoopsEven ==
    ASSUME Stacked, Loop \/ LoopProduce \/ LoopHead \/ LoopCond \/ LoopBody
    PROVE  Even
<1>1. Fits /\ Top.k \in {"list", "loop"}
      BY DEF Loop, LoopProduce, LoopHead, LoopCond, LoopBody, Runs, AtSegment,
         Running, Back
<1>2. UNCHANGED <<fnDepth, substDepth, drift, scopes>>
      BY DEF Loop, LoopProduce, LoopHead, LoopCond, LoopBody, depth
<1>3. stack # <<>> /\ {"k", "ph"} \subseteq DOMAIN Top
      BY <1>1, TopFrame
<1>4. GoesOn(Top) /\ \A b : Begins(List(b))
      BY <1>1, <1>3, Frames DEF GoesOn, Begins
<1>5. Moves
      <2>1. CASE Loop
            <3>1. \E p : ret' = Nil /\ stack' = Below \o <<Top, Frame("loop", Do, p)>>
                  BY <2>1 DEF Loop, Wait, Enter
            <3>2. \A p : Begins(Frame("loop", Do, p))
                  BY Frames DEF Begins
            <3>. QED BY <1>4, <3>1, <3>2 DEF Moves
      <2>2. CASE LoopProduce
            <3>. DEFINE f == [Top EXCEPT !.ph = "lines"]
            <3>. DEFINE g == [Top EXCEPT !.ph = "head", !.keep = ret.out]
            <3>1. \/ ret' = Nil /\ \E b : stack' = Below \o <<f, List(b)>>
                  \/ stack' = Below \/ stack' = Append(Below, g)
                  BY <2>2 DEF LoopProduce, Enter, Return, Goto
            <3>2. GoesOn(f) /\ GoesOn(g)
                  BY <1>1, <1>3 DEF GoesOn
            <3>. QED BY <1>1, <1>4, <3>1, <3>2 DEF Moves
      <2>3. CASE LoopHead
            <3>1. \/ stack' = Below
                  \/ \E b, p : /\ ret' = Nil
                               /\ stack' = Below \o <<[Top EXCEPT !.ph = p], List(b)>>
                  <4>1. CASE Exhausted \/ cancel
                        BY <2>3, <4>1 DEF LoopHead, Return
                  <4>2. CASE ~ Exhausted /\ ~ cancel
                        <5>1. \/ Enter([Top EXCEPT !.ph = "cond"], List(Top.cmd.v))
                              \/ Enter([Top EXCEPT !.ph = "body"], List(Top.cmd.body))
                              BY <2>3, <4>2 DEF LoopHead
                        <5>. QED BY <5>1 DEF Enter
                  <4>. QED BY <4>1, <4>2
            <3>2. \A p : GoesOn([Top EXCEPT !.ph = p])
                  BY <1>1, <1>3 DEF GoesOn
            <3>. QED BY <1>1, <1>4, <3>1, <3>2 DEF Moves
      <2>4. CASE LoopCond
            <3>. DEFINE f == [Top EXCEPT !.ph = "body"]
            <3>1. \/ ret' = Nil /\ \E b : stack' = Below \o <<f, List(b)>>
                  \/ stack' = Below
                  BY <2>4 DEF LoopCond, Enter, Return
            <3>2. GoesOn(f)
                  BY <1>1, <1>3 DEF GoesOn
            <3>. QED BY <1>1, <1>4, <3>1, <3>2 DEF Moves
      <2>5. CASE LoopBody
            <3>. DEFINE f == [Top EXCEPT !.ph = "head", !.i = @ + 1, !.code = ret.code,
                                         !.out = @ \o ret.out]
            <3>1. stack' = Below \/ stack' = Append(Below, f)
                  BY <2>5 DEF LoopBody, Return, Goto
            <3>2. GoesOn(f)
                  BY <1>1, <1>3 DEF GoesOn
            <3>. QED BY <1>1, <3>1, <3>2 DEF Moves
      <2>. QED BY <2>1, <2>2, <2>3, <2>4, <2>5
<1>. QED BY <1>2, <1>3, <1>5 DEF Even

\* A call or a substitution at its limit opens nothing; nor does the command
\* around a substitution that has ended, nor a subshell that ends.
LEMMA LimitsEven ==
    ASSUME Stacked, \/ Call /\ fnDepth >= MaxFn
                    \/ Subst /\ substDepth >= MaxSubst
                    \/ SubstMark \/ SubshellReturn
    PROVE  Even
<1>1. Fits /\ UNCHANGED <<fnDepth, substDepth, drift, scopes>>
      BY DEF Call, Subst, SubstMark, SubshellReturn, Runs, AtSegment, Running, Back,
         depth
<1>2. stack # <<>> /\ {"k", "ph"} \subseteq DOMAIN Top
      BY <1>1, TopFrame
<1>3. Moves
      <2>1. CASE Call /\ fnDepth >= MaxFn
            BY <2>1 DEF Call, Answer, Runs, AtSegment, Running, Moves
      <2>2. CASE Subst /\ substDepth >= MaxSubst
            <3>. DEFINE g == Frame("subst", Do, "mark")
            <3>1. Top.k = "list" /\ ret' = Nil /\ stack' = Below \o <<Top, g>>
                  BY <2>2 DEF Subst, Wait, Enter, Runs, AtSegment, Running
            <3>2. Begins(g) /\ GoesOn(Top)
                  BY <1>2, <3>1, Frames DEF Begins, GoesOn
            <3>. QED BY <3>1, <3>2 DEF Moves
      <2>3. CASE SubstMark
            BY <2>3 DEF SubstMark, Running, Return, Moves
      <2>4. CASE SubshellReturn
            BY <2>4 DEF SubshellReturn, Back, Return, Moves
      <2>. QED BY <2>1, <2>2, <2>3, <2>4
<1>. QED BY <1>1, <1>2, <1>3 DEF Even

-----------------------------------------------------------------------------
(* The depths.                                                             *)

LEMMA Down1 ==
    ASSUME NEW n \in Nat, n > 0, NEW m \in Nat, n <= m, m < Wrap
    PROVE  Down(n) = n - 1
<1>1. Wrap \in Nat /\ n - 1 \in Nat /\ n - 1 < Wrap
      BY InterpAssumption
<1>2. \A w \in Nat \ {0}, k \in Nat : k < w => (k + w) % w = k
      OBVIOUS
<1>3. n + Wrap - 1 = n - 1 + Wrap /\ Wrap \in Nat \ {0}
      BY <1>1
<1>. QED BY <1>1, <1>2, <1>3 DEF Down

LEMMA Counts ==
    ASSUME Stacked, NEW k, NEW p
    PROVE  /\ Count(k, p) = Cardinality(Opened(k, p))
           /\ IsFiniteSet(Opened(k, p))
<1>1. Len(stack) \in Nat /\ DOMAIN stack = 1 .. Len(stack)
      BY LenProperties DEF Stacked
<1>2. IsFiniteSet(1 .. Len(stack))
      BY <1>1, FS_Interval
<1>3. Opened(k, p) \subseteq 1 .. Len(stack)
      BY <1>1 DEF Opened
<1>. QED BY <1>2, <1>3, FS_Subset DEF Count, Opened

LEMMA ScopesKept ==
    ASSUME scopes \in Seq(Entries(scopes)),
           \/ UNCHANGED scopes
           \/ scopes # <<>> /\ \E x : scopes' = [scopes EXCEPT ![Len(scopes)] = x]
    PROVE  scopes' \in Seq(Entries(scopes')) /\ Len(scopes') = Len(scopes)
<1>1. CASE UNCHANGED scopes
      BY <1>1
<1>2. ASSUME NEW x, scopes # <<>>, scopes' = [scopes EXCEPT ![Len(scopes)] = x]
      PROVE  scopes' \in Seq(Entries(scopes')) /\ Len(scopes') = Len(scopes)
      <2>. DEFINE T == Entries(scopes) \cup {x}
      <2>1. scopes \in Seq(T) /\ x \in T
            BY SeqMonotonic
      <2>. HIDE DEF T
      <2>2. Len(scopes) \in 1 .. Len(scopes)
            BY <1>2, <2>1, EmptySeq
      <2>3. scopes' \in Seq(T) /\ Len(scopes') = Len(scopes)
            BY <1>2, <2>1, <2>2, ExceptSeq
      <2>. QED BY <2>3, Entered
<1>. QED BY <1>1, <1>2

LEMMA EvenKeeps ==
    ASSUME IInv, Even
    PROVE  IInv'
<1>1. Stacked /\ Depths /\ scopes \in Seq(Entries(scopes)) /\ stack # <<>> /\ Moves
      BY DEF IInv, Even
<1>2. /\ Stacked' /\ Opened("call", "body")' = Opened("call", "body")
      /\ Opened("subst", "inner")' = Opened("subst", "inner")
      BY <1>1, MovesKeep DEF Pairs
<1>3. scopes' \in Seq(Entries(scopes')) /\ Len(scopes') = Len(scopes)
      BY <1>1, ScopesKept DEF Even
<1>4. Count("call", "body")' = Count("call", "body")
      BY <1>2 DEF Count, Opened
<1>5. Count("subst", "inner")' = Count("subst", "inner")
      BY <1>2 DEF Count, Opened
<1>6. Depths'
      BY <1>1, <1>3, <1>4, <1>5 DEF Depths, Even
<1>. QED BY <1>2, <1>3, <1>6 DEF IInv

\* An empty stack has nothing to say.
LEMMA EmptyKeeps ==
    ASSUME scopes \in Seq(Entries(scopes)), stack' = <<>>, UNCHANGED scopes
    PROVE  IInv'
<1>1. stack' \in Seq(Entries(stack')) /\ DOMAIN stack' = {}
      BY DEF Entries
<1>. QED BY <1>1 DEF IInv, Stacked, Depths

\* An ERR trap leaves the depths alone, or says that it does not.
LEMMA ListResultKeeps ==
    ASSUME IInv, ListResult
    PROVE  IInv'
<1>1. Stacked /\ Depths /\ Fits /\ Top.k = "list" /\ scopes \in Seq(Entries(scopes))
      BY DEF IInv, ListResult, Back
<1>2. stack # <<>> /\ {"k", "ph"} \subseteq DOMAIN Top
      BY <1>1, TopFrame
<1>3. UNCHANGED scopes
      BY DEF ListResult
<1>4. Moves
      <2>. DEFINE f == [Top EXCEPT !.ph = "after", !.code = ret.code,
                                   !.out = @ \o ret.out]
      <2>. DEFINE g == [f EXCEPT !.ph = "trap"]
      <2>1. \/ stack' = Append(Below, f)
            \/ ret' = Nil /\ stack' = Below \o <<g, List(rest.traps.ERR)>>
            BY DEF ListResult, Enter, Goto
      <2>2. GoesOn(f) /\ GoesOn(g) /\ Begins(List(rest.traps.ERR))
            BY <1>1, <1>2, Frames DEF GoesOn, Begins
      <2>. QED BY <2>1, <2>2 DEF Moves
<1>5. ~ drift' => ~ drift /\ UNCHANGED <<fnDepth, substDepth>>
      <2>. SUFFICES ASSUME ~ drift' PROVE ~ drift /\ UNCHANGED <<fnDepth, substDepth>>
           OBVIOUS
      <2>1. CASE FiresErr(ret.code)
            <3>1. /\ fnDepth' = 0 /\ substDepth' = 0
                  /\ ~ drift /\ ~ fnDepth > 0 /\ ~ substDepth > 0
                  BY <2>1 DEF ListResult, ResetTransient
            <3>2. fnDepth \in 0 .. MaxFn /\ substDepth \in 0 .. MaxSubst
                  BY <1>1, <1>2, <3>1 DEF Depths
            <3>3. fnDepth = 0 /\ substDepth = 0
                  BY <3>1, <3>2, InterpAssumption
            <3>. QED BY <3>1, <3>3
      <2>2. CASE ~ FiresErr(ret.code)
            BY <2>2 DEF ListResult
      <2>. QED BY <2>1, <2>2
<1>6. /\ Stacked' /\ Opened("call", "body")' = Opened("call", "body")
      /\ Opened("subst", "inner")' = Opened("subst", "inner")
      BY <1>1, <1>2, <1>4, MovesKeep DEF Pairs
<1>7. Count("call", "body")' = Count("call", "body")
      BY <1>6 DEF Count, Opened
<1>8. Count("subst", "inner")' = Count("subst", "inner")
      BY <1>6 DEF Count, Opened
<1>9. Depths'
      BY <1>1, <1>2, <1>3, <1>5, <1>7, <1>8 DEF Depths
<1>. QED BY <1>1, <1>3, <1>6, <1>9 DEF IInv

\* A call opens one level more of its own, a substitution of its.
LEMMA OpenKeeps ==
    ASSUME IInv, \/ Call /\ ~ fnDepth >= MaxFn
                 \/ Subst /\ ~ substDepth >= MaxSubst
                 \/ Subshell
    PROVE  IInv'
<1>1. /\ Stacked /\ Depths /\ Fits /\ Top.k = "list" /\ ret' = Nil
      /\ scopes \in Seq(Entries(scopes)) /\ UNCHANGED drift
      BY DEF IInv, Call, Subst, Subshell, Runs, AtSegment, Running
<1>2. stack # <<>>
      BY <1>1, TopFrame
<1>3. Call /\ ~ fnDepth >= MaxFn =>
        /\ UNCHANGED substDepth /\ fnDepth' = fnDepth + 1
        /\ scopes' = Append(scopes, <<>>)
        /\ \E f, b : /\ stack' = stack \o <<f, List(b)>>
                     /\ {"k", "ph"} \subseteq DOMAIN f /\ f.k = "call" /\ f.ph = "body"
      <2>. SUFFICES ASSUME Call, ~ fnDepth >= MaxFn
                    PROVE  /\ UNCHANGED substDepth /\ fnDepth' = fnDepth + 1
                           /\ scopes' = Append(scopes, <<>>)
                           /\ \E f, b : /\ stack' = stack \o <<f, List(b)>>
                                        /\ {"k", "ph"} \subseteq DOMAIN f
                                        /\ f.k = "call" /\ f.ph = "body"
           OBVIOUS
      <2>. DEFINE f == [Frame("call", Do, "body") EXCEPT !.keep = rest.pos]
      <2>1. stack' = stack \o <<f, List(Do.x)>>
            BY DEF Call
      <2>2. {"k", "ph"} \subseteq DOMAIN f /\ f.k = "call" /\ f.ph = "body"
            BY Frames
      <2>3. UNCHANGED substDepth /\ fnDepth' = fnDepth + 1 /\ scopes' = Append(scopes, <<>>)
            BY DEF Call
      <2>. HIDE DEF f
      <2>. QED BY <2>1, <2>2, <2>3
<1>4. Subst /\ ~ substDepth >= MaxSubst =>
        /\ UNCHANGED <<fnDepth, scopes>> /\ substDepth' = substDepth + 1
        /\ \E f, b : /\ stack' = stack \o <<f, List(b)>>
                     /\ {"k", "ph"} \subseteq DOMAIN f /\ f.k = "subst" /\ f.ph = "inner"
      <2>. SUFFICES ASSUME Subst, ~ substDepth >= MaxSubst
                    PROVE  /\ UNCHANGED <<fnDepth, scopes>>
                           /\ substDepth' = substDepth + 1
                           /\ \E f, b : /\ stack' = stack \o <<f, List(b)>>
                                        /\ {"k", "ph"} \subseteq DOMAIN f
                                        /\ f.k = "subst" /\ f.ph = "inner"
           OBVIOUS
      <2>. DEFINE f == Frame("subst", Do, "inner")
      <2>1. stack' = stack \o <<f, List(Do.body)>>
            BY DEF Subst
      <2>2. {"k", "ph"} \subseteq DOMAIN f /\ f.k = "subst" /\ f.ph = "inner"
            BY Frames
      <2>3. UNCHANGED <<fnDepth, scopes>> /\ substDepth' = substDepth + 1
            BY DEF Subst
      <2>. HIDE DEF f
      <2>. QED BY <2>1, <2>2, <2>3
<1>5. Subshell =>
        /\ UNCHANGED <<fnDepth, scopes, substDepth>>
        /\ \E f, b : /\ stack' = stack \o <<f, List(b)>>
                     /\ {"k", "ph"} \subseteq DOMAIN f /\ f.k = "sub"
      <2>. SUFFICES ASSUME Subshell
                    PROVE  /\ UNCHANGED <<fnDepth, scopes, substDepth>>
                           /\ \E f, b : /\ stack' = stack \o <<f, List(b)>>
                                        /\ {"k", "ph"} \subseteq DOMAIN f /\ f.k = "sub"
           OBVIOUS
      <2>. DEFINE f == [Frame("sub", Do, "body") EXCEPT !.keep = [sh |-> sh, sig |-> sig]]
      <2>1. stack' = stack \o <<f, List(Do.x)>>
            BY DEF Subshell
      <2>2. {"k", "ph"} \subseteq DOMAIN f /\ f.k = "sub"
            BY Frames
      <2>3. UNCHANGED <<fnDepth, scopes, substDepth>>
            BY DEF Subshell, depth
      <2>. HIDE DEF f
      <2>. QED BY <2>1, <2>2, <2>3
<1>6. Count("call", "body") = Cardinality(Opened("call", "body"))
      /\ Count("subst", "inner") = Cardinality(Opened("subst", "inner"))
      /\ IsFiniteSet(Opened("call", "body")) /\ IsFiniteSet(Opened("subst", "inner"))
      BY <1>1, Counts
<1>7. \A p : Len(stack) + 1 \notin DOMAIN stack => Len(stack) + 1 \notin Opened("call", p)
                                        /\ Len(stack) + 1 \notin Opened("subst", p)
      BY DEF Opened
<1>8. CASE Call /\ ~ fnDepth >= MaxFn
      <2>1. PICK f, b : /\ stack' = stack \o <<f, List(b)>>
                        /\ {"k", "ph"} \subseteq DOMAIN f /\ f.k = "call" /\ f.ph = "body"
            BY <1>3, <1>8
      <2>2. /\ Stacked'
            /\ Opened("call", "body")' = Opened("call", "body") \cup {Len(stack) + 1}
            /\ Opened("subst", "inner")' = Opened("subst", "inner")
            /\ Len(stack) + 1 \notin Opened("call", "body")
            BY <1>1, <1>2, <1>7, <2>1, PushKeeps DEF Pairs
      <2>3. Cardinality(Opened("call", "body"))' = Cardinality(Opened("call", "body")) + 1
            BY <1>6, <2>2, FS_AddElement
      <2>4. Count("call", "body")' = Count("call", "body") + 1
            BY <1>6, <2>3 DEF Count, Opened
      <2>5. Count("subst", "inner")' = Count("subst", "inner")
            BY <2>2 DEF Count, Opened
      <2>6. scopes' \in Seq(Entries(scopes')) /\ Len(scopes') = Len(scopes) + 1
            /\ Len(scopes) \in Nat
            <3>. DEFINE s == Append(scopes, <<>>)
            <3>1. s \in Seq(Entries(s)) /\ Len(s) = Len(scopes) + 1 /\ Len(scopes) \in Nat
                  BY <1>1, Added
            <3>2. scopes' = s
                  BY <1>3, <1>8
            <3>. HIDE DEF s
            <3>. QED BY <3>1, <3>2
      <2>7. Depths'
            <3>. SUFFICES ASSUME ~ drift
                          PROVE  /\ fnDepth + 1 = Count("call", "body") + 1
                                 /\ fnDepth + 1 \in 0 .. MaxFn
                                 /\ substDepth = Count("subst", "inner")
                                 /\ substDepth \in 0 .. MaxSubst
                                 /\ Len(scopes) + 1 >= fnDepth + 1
                 BY <1>1, <1>3, <1>8, <2>4, <2>5, <2>6 DEF Depths
            <3>. QED BY <1>1, <1>2, <1>8, <2>6, InterpAssumption DEF Depths
      <2>. QED BY <2>2, <2>6, <2>7 DEF IInv
<1>9. CASE Subst /\ ~ substDepth >= MaxSubst
      <2>1. PICK f, b : /\ stack' = stack \o <<f, List(b)>>
                        /\ {"k", "ph"} \subseteq DOMAIN f /\ f.k = "subst" /\ f.ph = "inner"
            BY <1>4, <1>9
      <2>2. /\ Stacked'
            /\ Opened("subst", "inner")' = Opened("subst", "inner") \cup {Len(stack) + 1}
            /\ Opened("call", "body")' = Opened("call", "body")
            /\ Len(stack) + 1 \notin Opened("subst", "inner")
            BY <1>1, <1>2, <1>7, <2>1, PushKeeps DEF Pairs
      <2>3. Cardinality(Opened("subst", "inner"))' = Cardinality(Opened("subst", "inner")) + 1
            BY <1>6, <2>2, FS_AddElement
      <2>4. Count("subst", "inner")' = Count("subst", "inner") + 1
            BY <1>6, <2>3 DEF Count, Opened
      <2>5. Count("call", "body")' = Count("call", "body")
            BY <2>2 DEF Count, Opened
      <2>6. Depths'
            <3>. SUFFICES ASSUME ~ drift
                          PROVE  /\ substDepth + 1 = Count("subst", "inner") + 1
                                 /\ substDepth + 1 \in 0 .. MaxSubst
                                 /\ fnDepth = Count("call", "body")
                                 /\ fnDepth \in 0 .. MaxFn /\ Len(scopes) >= fnDepth
                 BY <1>1, <1>4, <1>9, <2>4, <2>5 DEF Depths
            <3>. QED BY <1>1, <1>2, <1>9, InterpAssumption DEF Depths
      <2>. QED BY <1>1, <1>4, <1>9, <2>2, <2>6 DEF IInv
<1>10. CASE Subshell
      <2>1. PICK f, b : /\ stack' = stack \o <<f, List(b)>>
                        /\ {"k", "ph"} \subseteq DOMAIN f /\ f.k = "sub"
            BY <1>5, <1>10
      <2>2. /\ Stacked'
            /\ Opened("subst", "inner")' = Opened("subst", "inner")
            /\ Opened("call", "body")' = Opened("call", "body")
            BY <1>1, <1>2, <2>1, PushKeeps DEF Pairs
      <2>3. Count("subst", "inner")' = Count("subst", "inner")
            BY <2>2 DEF Count, Opened
      <2>4. Count("call", "body")' = Count("call", "body")
            BY <2>2 DEF Count, Opened
      <2>5. Depths'
            BY <1>1, <1>2, <1>5, <1>10, <2>3, <2>4 DEF Depths
      <2>. QED BY <1>1, <1>5, <1>10, <2>2, <2>5 DEF IInv
<1>. QED BY <1>8, <1>9, <1>10

\* What was opened is closed once.
LEMMA ReturnKeeps ==
    ASSUME IInv, CallReturn \/ SubstReturn
    PROVE  IInv'
<1>1. /\ Stacked /\ Depths /\ Fits /\ ret # Nil
      /\ scopes \in Seq(Entries(scopes)) /\ UNCHANGED drift
      BY DEF IInv, CallReturn, SubstReturn, Back
<1>2. stack # <<>>
      BY <1>1, TopFrame
<1>3. /\ Count("call", "body") = Cardinality(Opened("call", "body"))
      /\ Count("subst", "inner") = Cardinality(Opened("subst", "inner"))
      /\ IsFiniteSet(Opened("call", "body")) /\ IsFiniteSet(Opened("subst", "inner"))
      BY <1>1, Counts
<1>4. \A S, x : IsFiniteSet(S) /\ x \in S =>
        /\ Cardinality(S) \in Nat \ {0} /\ Cardinality(S \ {x}) = Cardinality(S) - 1
      <2>. SUFFICES ASSUME NEW S, NEW x, IsFiniteSet(S), x \in S
                    PROVE  /\ Cardinality(S) \in Nat \ {0}
                           /\ Cardinality(S \ {x}) = Cardinality(S) - 1
           OBVIOUS
      <2>1. Cardinality(S) \in Nat /\ Cardinality(S) # 0
            BY FS_CardinalityType, FS_EmptySet
      <2>. QED BY <2>1, FS_RemoveElement
<1>5. CASE CallReturn
      <2>1. /\ Top.k = "call" /\ stack' = Below
            /\ fnDepth' = Down(fnDepth) /\ UNCHANGED substDepth
            /\ scopes' = IF scopes = <<>> THEN scopes ELSE SubSeq(scopes, 1, Len(scopes) - 1)
            BY <1>5 DEF CallReturn, Back, Return, Front
      <2>2. /\ Stacked'
            /\ Opened("call", "body")' = Opened("call", "body") \ {Len(stack)}
            /\ Opened("subst", "inner")' = Opened("subst", "inner")
            /\ Len(stack) \in Opened("call", "body")
            BY <1>1, <1>2, <2>1, CloseKeeps DEF Pairs
      <2>3. /\ Count("call", "body")' = Count("call", "body") - 1
            /\ Count("call", "body") \in Nat \ {0}
            <3>1. /\ Cardinality(Opened("call", "body")) \in Nat \ {0}
                  /\ Cardinality(Opened("call", "body") \ {Len(stack)}) =
                       Cardinality(Opened("call", "body")) - 1
                  BY <1>3, <1>4, <2>2
            <3>2. Count("call", "body")' = Cardinality(Opened("call", "body")')
                  BY DEF Count, Opened
            <3>. QED BY <1>3, <2>2, <3>1, <3>2
      <2>4. Count("subst", "inner")' = Count("subst", "inner")
            BY <2>2 DEF Count, Opened
      <2>5. /\ scopes' \in Seq(Entries(scopes')) /\ Len(scopes) \in Nat
            /\ scopes # <<>> => Len(scopes') = Len(scopes) - 1
            /\ scopes = <<>> => Len(scopes) = 0
            <3>1. CASE scopes = <<>>
                  BY <1>1, <2>1, <3>1
            <3>2. CASE scopes # <<>>
                  <4>. DEFINE s == SubSeq(scopes, 1, Len(scopes) - 1)
                  <4>1. s \in Seq(Entries(s)) /\ Len(s) = Len(scopes) - 1 /\ Len(scopes) \in Nat
                        BY <1>1, <3>2, Popped
                  <4>2. scopes' = s
                        BY <2>1, <3>2
                  <4>. HIDE DEF s
                  <4>. QED BY <3>2, <4>1, <4>2
            <3>. QED BY <3>1, <3>2
      <2>6. Depths'
            <3>. SUFFICES ASSUME ~ drift
                          PROVE  /\ Down(fnDepth) = Count("call", "body") - 1
                                 /\ Down(fnDepth) \in 0 .. MaxFn
                                 /\ substDepth = Count("subst", "inner")
                                 /\ substDepth \in 0 .. MaxSubst
                                 /\ Len(scopes') >= Down(fnDepth)
                 BY <1>1, <2>1, <2>3, <2>4 DEF Depths
            <3>1. /\ fnDepth = Count("call", "body") /\ fnDepth \in 0 .. MaxFn
                  /\ substDepth = Count("subst", "inner") /\ substDepth \in 0 .. MaxSubst
                  /\ Len(scopes) >= fnDepth
                  BY <1>1, <1>2 DEF Depths
            <3>2. MaxFn \in Nat /\ fnDepth \in Nat /\ fnDepth > 0 /\ fnDepth <= MaxFn
                  /\ MaxFn < Wrap
                  BY <2>3, <3>1, InterpAssumption
            <3>3. Down(fnDepth) = fnDepth - 1
                  BY <3>2, Down1
            <3>4. scopes # <<>>
                  BY <2>5, <3>1, <3>2
            <3>. QED BY <2>5, <3>1, <3>2, <3>3, <3>4
      <2>. QED BY <2>2, <2>5, <2>6 DEF IInv
<1>6. CASE SubstReturn
      <2>1. /\ Top.k = "subst" /\ ret' = Nil
            /\ stack' = Append(Below, [Top EXCEPT !.ph = "mark"])
            /\ substDepth' = Down(substDepth) /\ UNCHANGED <<fnDepth, scopes>>
            BY <1>6 DEF SubstReturn, Back, Goto
      <2>2. /\ Stacked'
            /\ Opened("subst", "inner")' = Opened("subst", "inner") \ {Len(stack)}
            /\ Opened("call", "body")' = Opened("call", "body")
            /\ Len(stack) \in Opened("subst", "inner")
            BY <1>1, <1>2, <2>1, CloseKeeps DEF Pairs
      <2>3. /\ Count("subst", "inner")' = Count("subst", "inner") - 1
            /\ Count("subst", "inner") \in Nat \ {0}
            <3>1. /\ Cardinality(Opened("subst", "inner")) \in Nat \ {0}
                  /\ Cardinality(Opened("subst", "inner") \ {Len(stack)}) =
                       Cardinality(Opened("subst", "inner")) - 1
                  BY <1>3, <1>4, <2>2
            <3>2. Count("subst", "inner")' = Cardinality(Opened("subst", "inner")')
                  BY DEF Count, Opened
            <3>. QED BY <1>3, <2>2, <3>1, <3>2
      <2>4. Count("call", "body")' = Count("call", "body")
            BY <2>2 DEF Count, Opened
      <2>5. Depths'
            <3>. SUFFICES ASSUME ~ drift
                          PROVE  /\ Down(substDepth) = Count("subst", "inner") - 1
                                 /\ Down(substDepth) \in 0 .. MaxSubst
                                 /\ fnDepth = Count("call", "body")
                                 /\ fnDepth \in 0 .. MaxFn /\ Len(scopes) >= fnDepth
                 BY <1>1, <2>1, <2>3, <2>4 DEF Depths
            <3>1. /\ fnDepth = Count("call", "body") /\ fnDepth \in 0 .. MaxFn
                  /\ substDepth = Count("subst", "inner") /\ substDepth \in 0 .. MaxSubst
                  /\ Len(scopes) >= fnDepth
                  BY <1>1, <1>2 DEF Depths
            <3>2. MaxSubst \in Nat /\ substDepth \in Nat /\ substDepth > 0
                  /\ substDepth <= MaxSubst /\ MaxSubst < Wrap
                  BY <2>3, <3>1, InterpAssumption
            <3>3. Down(substDepth) = substDepth - 1
                  BY <3>2, Down1
            <3>. QED BY <3>1, <3>2, <3>3
      <2>. QED BY <1>1, <2>1, <2>2, <2>5 DEF IInv
<1>. QED BY <1>5, <1>6

\* The call of the host starts and ends with nothing open.
LEMMA TopKeeps ==
    ASSUME IInv, StartCall \/ TopNext
    PROVE  IInv'
<1>1. Stacked /\ Depths /\ scopes \in Seq(Entries(scopes)) /\ UNCHANGED scopes
      BY DEF IInv, StartCall, TopNext
<1>2. Len(scopes) \in Nat
      BY <1>1, LenProperties
<1>3. ASSUME Stacked', Opened("call", "body")' = {}, Opened("subst", "inner")' = {},
             fnDepth' = 0, substDepth' = 0
      PROVE  IInv'
      <2>1. Count("call", "body")' = 0
            <3>1. Cardinality({}) = 0
                  BY FS_EmptySet
            <3>. QED BY <1>3, <3>1 DEF Count, Opened
      <2>2. Count("subst", "inner")' = 0
            <3>1. Cardinality({}) = 0
                  BY FS_EmptySet
            <3>. QED BY <1>3, <3>1 DEF Count, Opened
      <2>. QED BY <1>1, <1>2, <1>3, <2>1, <2>2, InterpAssumption DEF IInv, Depths
<1>4. CASE StartCall
      <2>. DEFINE f == Frame("top", script.calls[calls + 1], "main")
      <2>. DEFINE g == List(script.calls[calls + 1])
      <2>1. /\ {"k", "ph"} \subseteq DOMAIN f /\ f.k = "top" /\ {"k", "ph"} \subseteq DOMAIN g
            /\ g.k = "list"
            BY Frames
      <2>2. stack' = <<f, g>> /\ fnDepth' = 0 /\ substDepth' = 0
            BY <1>4 DEF StartCall, ResetTransient
      <2>. HIDE DEF f, g
      <2>3. /\ stack' \in Seq({f, g}) /\ DOMAIN stack' = {1, 2}
            /\ stack'[1] = f /\ stack'[2] = g
            BY <2>2
      <2>4. Stacked'
            BY <2>1, <2>3, Entered DEF Stacked
      <2>5. Opened("call", "body")' = {} /\ Opened("subst", "inner")' = {}
            BY <2>1, <2>3 DEF Opened
      <2>. QED BY <1>3, <2>2, <2>4, <2>5
<1>5. CASE TopNext
      <2>1. Fits /\ Top.k = "top"
            BY <1>5 DEF TopNext, Back
      <2>2. stack # <<>> /\ {"k", "ph"} \subseteq DOMAIN Top
            BY <1>1, <2>1, TopFrame
      <2>3. CASE stack' = <<>>
            BY <1>1, <2>3, EmptyKeeps
      <2>4. CASE stack' # <<>>
            <3>1. /\ fnDepth' = 0 /\ substDepth' = 0 /\ ret' = Nil
                  /\ \E f, b : /\ stack' = Below \o <<f, List(b)>>
                               /\ {"k", "ph"} \subseteq DOMAIN f /\ f.k = Top.k
                  <4>. DEFINE c == IF Top.ph = "main" THEN ret.code
                                   ELSE IF Top.ph = "exit" /\ ret.code # 0
                                   THEN ret.code ELSE Top.code
                  <4>. DEFINE h == [Top EXCEPT !.out = @ \o ret.out, !.code = c]
                  <4>1. \E t, p : Handler(h, t, p)
                        BY <1>5, <2>4 DEF TopNext, Finish
                  <4>2. PICK t, p : Handler(h, t, p)
                        BY <4>1
                  <4>. DEFINE f == [h EXCEPT !.ph = p]
                  <4>3. {"k", "ph"} \subseteq DOMAIN f /\ f.k = Top.k
                        BY <2>2
                  <4>4. /\ fnDepth' = 0 /\ substDepth' = 0 /\ ret' = Nil
                        /\ stack' = Below \o <<f, List(rest.traps[t])>>
                        BY <4>2 DEF Handler, Enter, ResetTransient
                  <4>. HIDE DEF f
                  <4>. QED BY <4>3, <4>4
            <3>2. Moves
                  BY <2>1, <3>1, Frames DEF Moves, GoesOn, Begins
            <3>3. /\ Stacked' /\ Opened("call", "body")' = Opened("call", "body")
                  /\ Opened("subst", "inner")' = Opened("subst", "inner")
                  BY <1>1, <2>2, <3>2, MovesKeep DEF Pairs
            <3>4. \A i \in DOMAIN stack : stack[i] = Top
                  <4>1. /\ Len(stack) \in Nat \ {0} /\ DOMAIN stack = 1 .. Len(stack)
                        /\ Top = stack[Len(stack)]
                        BY <1>1, <2>2, AtTop
                  <4>2. Len(stack) = 1
                        BY <1>1, <2>1, <4>1 DEF Stacked
                  <4>. QED BY <4>1, <4>2
            <3>5. Opened("call", "body") = {} /\ Opened("subst", "inner") = {}
                  BY <2>1, <3>4 DEF Opened
            <3>. QED BY <1>3, <3>1, <3>3, <3>5
      <2>. QED BY <2>3, <2>4
<1>. QED BY <1>4, <1>5

LEMMA InvHolds == Spec => []IInv
<1>1. Init => IInv
      <2>. SUFFICES ASSUME Init PROVE IInv
           OBVIOUS
      <2>1. stack = <<>> /\ scopes = <<>>
            BY DEF Init
      <2>2. <<>> \in Seq(Entries(<<>>)) /\ DOMAIN <<>> = {}
            BY DEF Entries
      <2>. QED BY <2>1, <2>2 DEF IInv, Stacked, Depths
<1>2. IInv /\ [Next]_vars => IInv'
      <2>. SUFFICES ASSUME IInv, [Next]_vars PROVE IInv'
           OBVIOUS
      <2>0. Stacked /\ scopes \in Seq(Entries(scopes))
            BY DEF IInv
      <2>1. CASE Lists
            BY <2>0, <2>1, ListsEven, EvenKeeps, ListResultKeeps
      <2>2. CASE Simple
            <3>1. CASE ~ Panic
                  BY <2>0, <2>2, <3>1, SimpleEven, EvenKeeps
            <3>2. CASE Panic /\ cancel
                  <4>1. /\ Fits /\ Top.k = "list"
                        /\ UNCHANGED <<stack, fnDepth, substDepth, scopes, drift>>
                        BY <3>2 DEF Panic, Cancelled, Answer, Runs, AtSegment, Running,
                           depth
                  <4>. QED BY <2>0, <4>1, TopFrame, EvenKeeps DEF Even, Moves
            <3>3. CASE Panic /\ ~ cancel
                  <4>1. stack' = <<>> /\ UNCHANGED scopes
                        BY <3>3 DEF Panic, depth
                  <4>. QED BY <2>0, <4>1, EmptyKeeps
            <3>. QED BY <3>1, <3>2, <3>3
      <2>3. CASE Compound
            <3>1. CASE Group \/ Case \/ Not \/ NotStep \/ If \/ IfStep
                  BY <2>0, <3>1, ConstructsEven, EvenKeeps
            <3>2. CASE Loop \/ LoopProduce \/ LoopHead \/ LoopCond \/ LoopBody
                  BY <2>0, <3>2, LoopsEven, EvenKeeps
            <3>3. CASE \/ Call /\ fnDepth >= MaxFn
                       \/ Subst /\ substDepth >= MaxSubst
                       \/ SubstMark \/ SubshellReturn
                  BY <2>0, <3>3, LimitsEven, EvenKeeps
            <3>4. CASE \/ Call /\ ~ fnDepth >= MaxFn
                       \/ Subst /\ ~ substDepth >= MaxSubst
                       \/ Subshell
                  BY <3>4, OpenKeeps
            <3>5. CASE CallReturn \/ SubstReturn
                  BY <3>5, ReturnKeeps
            <3>. QED BY <2>3, <3>1, <3>2, <3>3, <3>4, <3>5 DEF Compound
      <2>4. CASE StartCall \/ TopNext
            BY <2>4, TopKeeps
      <2>5. CASE Overflow
            <3>1. stack' = <<>> /\ UNCHANGED scopes
                  BY <2>5 DEF Overflow, depth
            <3>. QED BY <2>0, <3>1, EmptyKeeps
      <2>6. CASE HostCancel
            <3>1. /\ stack # <<>> /\ UNCHANGED <<stack, ret, scopes, fnDepth, substDepth, drift>>
                  BY <2>6 DEF HostCancel, depth
            <3>. QED BY <2>0, <3>1, EvenKeeps DEF Even, Moves
      <2>7. CASE UNCHANGED vars
            BY <2>7 DEF vars, depth, IInv, Stacked, Depths, Count
      <2>. QED BY <2>1, <2>2, <2>3, <2>4, <2>5, <2>6, <2>7 DEF Next
<1>. QED BY <1>1, <1>2, PTL DEF Spec

\* fn_call_depth and subst_depth count the calls and substitutions that are
\* open, however those end and whatever an earlier call of the host left
\* behind: so the limits on both are limits on the depth of the program, and
\* no decrement wraps around.
THEOREM DepthCountersExact == Spec => []DepthsExact
<1>1. IInv => DepthsExact
      BY DEF IInv, Depths, DepthsExact
<1>. QED BY <1>1, InvHolds, PTL
=============================================================================
