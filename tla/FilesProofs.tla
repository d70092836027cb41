----------------------------- MODULE FilesProofs -----------------------------
(***************************************************************************)
(* Proofs about Files, for every disk: after any commands the disk is a     *)
(* tree, the places the shell keeps are paths of it, rm takes away its      *)
(* operands and nothing else, mv moves the whole of what it moves, and cd    *)
(* goes to where a directory really is.                                     *)
(***************************************************************************)
EXTENDS Files, FiniteSetTheorems, SequenceTheorems, WellFoundedInduction, TLAPS

LEMMA NatSet ==
    ASSUME NEW S, 0 \in S, \A n \in Nat : n \in S => n + 1 \in S
    PROVE  Nat \subseteq S
<1>. DEFINE T == Nat \ S
<1>1. SUFFICES ASSUME T # {} PROVE FALSE
      OBVIOUS
<1>2. PICK m \in T : \A k \in T : <<k, m>> \notin OpToRel(<, Nat)
      BY <1>1, NatLessThanWellFounded, WFMin
<1>3. \A k \in T : ~ (k < m)
      BY <1>2 DEF OpToRel
<1>4. m # 0 /\ m - 1 \in Nat /\ m - 1 \notin T
      BY <1>3
<1>. QED BY <1>4

-----------------------------------------------------------------------------
(* The two loops of Vfs.                                                   *)

Iterates(g, f, a, n) == g = [k \in 0 .. n |-> IF k = 0 THEN a ELSE f[g[k - 1]]]

LEMMA IteratesExist ==
    ASSUME NEW f, NEW a, NEW n \in Nat
    PROVE  \E g : Iterates(g, f, a, n)
<1>. DEFINE S == {m \in Nat : \E g : Iterates(g, f, a, m)}
<1>1. 0 \in S
      <2>. DEFINE g == [k \in 0 .. 0 |-> a]
      <2>1. g = [k \in 0 .. 0 |-> IF k = 0 THEN a ELSE f[g[k - 1]]]
            OBVIOUS
      <2>. QED BY <2>1 DEF Iterates
<1>2. ASSUME NEW m \in Nat, m \in S PROVE m + 1 \in S
      <2>1. PICK g : Iterates(g, f, a, m)
            BY <1>2
      <2>. DEFINE h == [k \in 0 .. m + 1 |-> IF k = m + 1 THEN f[g[m]] ELSE g[k]]
      <2>2. ASSUME NEW k \in 0 .. m + 1
            PROVE  h[k] = IF k = 0 THEN a ELSE f[h[k - 1]]
            <3>1. CASE k = m + 1
                  BY <3>1
            <3>2. CASE k # m + 1
                  <4>1. k \in 0 .. m /\ (k # 0 => k - 1 \in 0 .. m /\ k - 1 \in 0 .. m + 1 /\ k - 1 # m + 1)
                        BY <3>2
                  <4>2. g[k] = IF k = 0 THEN a ELSE f[g[k - 1]]
                        BY <2>1, <4>1 DEF Iterates
                  <4>. QED BY <3>2, <4>1, <4>2
            <3>. QED BY <3>1, <3>2
      <2>3. h = [k \in 0 .. m + 1 |-> h[k]]
            OBVIOUS
      <2>. HIDE DEF h
      <2>4. Iterates(h, f, a, m + 1)
            BY <2>2, <2>3 DEF Iterates
      <2>. QED BY <2>4
<1>. HIDE DEF S
<1>3. n \in S
      BY <1>1, <1>2, NatSet
<1>. QED BY <1>3 DEF S

LEMMA TimesIs ==
    ASSUME NEW f, NEW a, NEW n \in Nat
    PROVE  \E g : Iterates(g, f, a, n) /\ Times(f, a, n) = g[n]
<1>. DEFINE R == CHOOSE g : g = [k \in 0 .. n |-> IF k = 0 THEN a ELSE f[g[k - 1]]]
<1>1. Iterates(R, f, a, n)
      <2>1. \E g : Iterates(g, f, a, n)
            BY IteratesExist
      <2>2. \E g : g = [k \in 0 .. n |-> IF k = 0 THEN a ELSE f[g[k - 1]]]
            BY <2>1, Zenon DEF Iterates
      <2>. QED BY <2>2, Zenon DEF Iterates
<1>2. Times(f, a, n) = R[n]
      BY DEF Times
<1>. HIDE DEF R
<1>. QED BY <1>1, <1>2

\* What a pair of functions keeps of a pair, it keeps when repeated.
LEMMA TimesPair ==
    ASSUME NEW f, NEW e, NEW R, NEW a, NEW b, <<a, b>> \in R, NEW n \in Nat,
           \A x, y : <<x, y>> \in R => <<f[x], e[y]>> \in R
    PROVE  <<Times(f, a, n), Times(e, b, n)>> \in R
<1>1. PICK F : Iterates(F, f, a, n) /\ Times(f, a, n) = F[n]
      BY TimesIs
<1>2. PICK G : Iterates(G, e, b, n) /\ Times(e, b, n) = G[n]
      BY TimesIs
<1>. DEFINE S == {k \in Nat : k <= n => <<F[k], G[k]>> \in R}
<1>3. 0 \in S
      BY <1>1, <1>2 DEF Iterates
<1>4. ASSUME NEW k \in Nat, k \in S PROVE k + 1 \in S
      <2>1. SUFFICES ASSUME k + 1 <= n PROVE <<F[k + 1], G[k + 1]>> \in R
            OBVIOUS
      <2>2. k + 1 \in 0 .. n /\ k + 1 # 0 /\ k + 1 - 1 = k /\ <<F[k], G[k]>> \in R
            BY <1>4, <2>1
      <2>3. F[k + 1] = f[F[k]] /\ G[k + 1] = e[G[k]]
            BY <1>1, <1>2, <2>2 DEF Iterates
      <2>. QED BY <2>2, <2>3
<1>. HIDE DEF S
<1>5. n \in S
      BY <1>3, <1>4, NatSet
<1>. QED BY <1>1, <1>2, <1>5 DEF S

\* What a function keeps, it keeps when repeated.
LEMMA TimesIn ==
    ASSUME NEW f, NEW X, NEW a \in X, NEW n \in Nat, \A x \in X : f[x] \in X
    PROVE  Times(f, a, n) \in X
<1>. DEFINE R == {<<x, x>> : x \in X}
<1>1. <<a, a>> \in R /\ \A x, y : <<x, y>> \in R => <<f[x], f[y]>> \in R
      OBVIOUS
<1>. HIDE DEF R
<1>2. <<Times(f, a, n), Times(f, a, n)>> \in R
      BY <1>1, TimesPair
<1>. QED BY <1>2 DEF R

Steps(g, f, d, S, n) ==
    g = [k \in 0 .. n |-> IF k = 0 THEN Done(d) ELSE Then(f, g[k - 1], S[k])]

LEMMA StepsExist ==
    ASSUME NEW f, NEW d, NEW s, NEW n \in Nat
    PROVE  \E g : Steps(g, f, d, s, n)
<1>. DEFINE S == {m \in Nat : \E g : Steps(g, f, d, s, m)}
<1>1. 0 \in S
      <2>. DEFINE g == [k \in 0 .. 0 |-> Done(d)]
      <2>1. g = [k \in 0 .. 0 |-> IF k = 0 THEN Done(d) ELSE Then(f, g[k - 1], s[k])]
            OBVIOUS
      <2>. QED BY <2>1 DEF Steps
<1>2. ASSUME NEW m \in Nat, m \in S PROVE m + 1 \in S
      <2>1. PICK g : Steps(g, f, d, s, m)
            BY <1>2
      <2>. DEFINE h == [k \in 0 .. m + 1 |-> IF k = m + 1 THEN Then(f, g[m], s[k]) ELSE g[k]]
      <2>2. ASSUME NEW k \in 0 .. m + 1
            PROVE  h[k] = IF k = 0 THEN Done(d) ELSE Then(f, h[k - 1], s[k])
            <3>1. CASE k = m + 1
                  BY <3>1
            <3>2. CASE k # m + 1
                  <4>1. k \in 0 .. m /\ (k # 0 => k - 1 \in 0 .. m /\ k - 1 \in 0 .. m + 1 /\ k - 1 # m + 1)
                        BY <3>2
                  <4>2. g[k] = IF k = 0 THEN Done(d) ELSE Then(f, g[k - 1], s[k])
                        BY <2>1, <4>1 DEF Steps
                  <4>. QED BY <3>2, <4>1, <4>2
            <3>. QED BY <3>1, <3>2
      <2>3. h = [k \in 0 .. m + 1 |-> h[k]]
            OBVIOUS
      <2>. HIDE DEF h
      <2>4. Steps(h, f, d, s, m + 1)
            BY <2>2, <2>3 DEF Steps
      <2>. QED BY <2>4
<1>. HIDE DEF S
<1>3. n \in S
      BY <1>1, <1>2, NatSet
<1>. QED BY <1>3 DEF S

\* The disks that a host can hold, and what a call leaves.
Tree   == {d \in Disk : IsTree(d)}
Result == [disk : Tree, ok : BOOLEAN]

LEMMA DoneIn ==
    ASSUME NEW d \in Tree
    PROVE  Done(d) \in Result /\ Fail(d) \in Result
<1>1. Done(d) \in Result
      BY DEF Done, Result
<1>2. Fail(d) \in Result
      BY DEF Fail, Result
<1>. QED BY <1>1, <1>2

\* What every step of a loop keeps, the loop keeps.
LEMMA StepsIn ==
    ASSUME NEW f, NEW d \in Tree, NEW s, NEW n \in Nat, NEW g, Steps(g, f, d, s, n),
           \A x \in Tree, i \in 1 .. n : f[<<x, s[i]>>] \in Result
    PROVE  g[n] \in Result
<1>. DEFINE S == {k \in Nat : k <= n => g[k] \in Result}
<1>1. 0 \in S
      <2>1. g[0] = Done(d)
            BY DEF Steps
      <2>. QED BY <2>1, DoneIn
<1>2. ASSUME NEW k \in Nat, k \in S PROVE k + 1 \in S
      <2>1. SUFFICES ASSUME k + 1 <= n PROVE g[k + 1] \in Result
            OBVIOUS
      <2>2. k + 1 \in 0 .. n /\ k + 1 \in 1 .. n /\ k + 1 # 0 /\ k + 1 - 1 = k /\ g[k] \in Result
            BY <1>2, <2>1
      <2>3. g[k + 1] = Then(f, g[k], s[k + 1])
            BY <2>2 DEF Steps
      <2>4. g[k].disk \in Tree
            BY <2>2 DEF Result
      <2>5. f[<<g[k].disk, s[k + 1]>>] \in Result
            BY <2>2, <2>4
      <2>. QED BY <2>2, <2>3, <2>5 DEF Then
<1>. HIDE DEF S
<1>3. n \in S
      BY <1>1, <1>2, NatSet
<1>. QED BY <1>3 DEF S

LEMMA LoopIn ==
    ASSUME NEW f, NEW d \in Tree, NEW s, NEW n \in Nat, Len(s) = n,
           \A x \in Tree, i \in 1 .. n : f[<<x, s[i]>>] \in Result
    PROVE  Loop(f, d, s) \in Result
<1>. DEFINE R == CHOOSE g : g = [k \in 0 .. n |-> IF k = 0 THEN Done(d) ELSE Then(f, g[k - 1], s[k])]
<1>1. Steps(R, f, d, s, n)
      BY StepsExist DEF Steps
<1>2. Loop(f, d, s) = R[n]
      BY DEF Loop
<1>. HIDE DEF R
<1>3. R[n] \in Result
      BY <1>1, StepsIn
<1>. QED BY <1>2, <1>3

-----------------------------------------------------------------------------
(* Paths and nodes.                                                        *)

LEMMA SeqFacts ==
    ASSUME NEW p \in Name
    PROVE  /\ p \in Seq(Nat) /\ Len(p) \in Nat /\ Len(p) > 0
           /\ Last(p) \in Nat /\ Front(p) \in Seq(Nat) /\ Len(Front(p)) = Len(p) - 1
           /\ Front(p) = Pre(p, Len(p) - 1)
<1>1. p \in Seq(Nat) /\ Len(p) \in Nat /\ Len(p) > 0
      BY DEF Name, Root
<1>2. p[Len(p)] \in Nat
      BY <1>1
<1>3. Front(p) \in Seq(Nat) /\ Len(Front(p)) = Len(p) - 1
      <2>1. \A i \in 1 .. Len(p) - 1 : p[i] \in Nat
            BY <1>1
      <2>2. PICK m \in Int : m = Len(p) - 1 /\ m >= 0
            BY <1>1
      <2>3. SubSeq(p, 1, m) \in Seq(Nat)
            BY <2>1, <2>2, SubSeqProperties
      <2>4. Len(SubSeq(p, 1, m)) = IF 1 <= m THEN m - 1 + 1 ELSE 0
            BY <2>1, <2>2, SubSeqProperties
      <2>5. Len(SubSeq(p, 1, m)) = m
            BY <2>2, <2>4
      <2>6. Front(p) = SubSeq(p, 1, m)
            BY <2>2 DEF Front
      <2>. QED BY <2>2, <2>3, <2>5, <2>6
<1>. QED BY <1>1, <1>2, <1>3 DEF Last, Front, Pre

LEMMA PathFacts ==
    ASSUME NEW p \in Path
    PROVE  p \in Name /\ Front(p) \in Path \cup {Root}
<1>1. p \in Seq(Nat) /\ p # Root /\ (Len(p) > 1 => Front(p) \in Path)
      BY VfsAssumption
<1>2. CASE Len(p) = 1
      <2>1. Front(p) = Root
            BY <1>1, <1>2 DEF Front, Root
      <2>. QED BY <1>1, <2>1 DEF Name
<1>3. CASE Len(p) # 1
      <2>1. p \in Name
            BY <1>1 DEF Name
      <2>2. Len(p) \in Nat /\ Len(p) > 0
            BY <2>1, SeqFacts
      <2>3. Len(p) > 1
            BY <1>3, <2>2
      <2>. QED BY <1>1, <2>1, <2>3
<1>. QED BY <1>2, <1>3

LEMMA AppendName ==
    ASSUME NEW p \in Seq(Nat), NEW n \in Nat
    PROVE  /\ Append(p, n) \in Name
           /\ Front(Append(p, n)) = p
<1>1. Append(p, n) \in Seq(Nat) /\ Len(Append(p, n)) = Len(p) + 1
      OBVIOUS
<1>2. Append(p, n) # <<>>
      BY <1>1
<1>. QED BY <1>1, <1>2 DEF Name, Root, Front

LEMMA ConcatName ==
    ASSUME NEW p \in Seq(Nat), NEW q \in Seq(Nat), p \in Name \/ q \in Name
    PROVE  p \o q \in Name
<1>1. p \o q \in Seq(Nat) /\ Len(p \o q) = Len(p) + Len(q)
      OBVIOUS
<1>2. Len(p) > 0 \/ Len(q) > 0
      BY SeqFacts
<1>3. p \o q # <<>>
      BY <1>1, <1>2
<1>. QED BY <1>1, <1>3 DEF Name, Root

\* What a node is, from its kind.
LEMMA Kinds ==
    ASSUME NEW n \in Node
    PROVE  /\ n.kind = "none" <=> n = None
           /\ n.kind = "dir" <=> n = Dir
           /\ n.kind = "file" => n.ino \in Ino /\ n = File(n.ino)
           /\ n.kind = "link" => n.to \in Target /\ n.to.path \in Name /\ n.to.abs \in BOOLEAN
<1>1. CASE n = None
      BY <1>1 DEF None, Dir
<1>2. CASE n = Dir
      BY <1>2 DEF None, Dir
<1>3. CASE n \in {File(i) : i \in Ino}
      BY <1>3 DEF None, Dir, File
<1>4. CASE n \in [kind : {"link"}, ino : {0}, to : Target]
      <2>1. n.kind = "link" /\ n.to \in Target
            BY <1>4
      <2>2. n # None /\ n # Dir
            BY <2>1 DEF None, Dir
      <2>. QED BY <2>1, <2>2 DEF Target
<1>. QED BY <1>1, <1>2, <1>3, <1>4 DEF Node

LEMMA DirIsNone ==
    None # Dir /\ None.kind = "none" /\ Dir.kind = "dir" /\ \A i : File(i) # Dir /\ File(i) # None
BY DEF None, Dir, File

LEMMA AtIn ==
    ASSUME NEW d \in Disk, NEW p
    PROVE  At(d, p) \in Node /\ (At(d, p) # None => p \in Path \cup {Root})
<1>1. Dir \in Node /\ None \in Node
      BY DEF Node
<1>2. p \in Path => d.node[p] \in Node
      BY DEF Disk
<1>. QED BY <1>1, <1>2 DEF At

-----------------------------------------------------------------------------
(* Where the host comes to.                                                *)

\* Every directory on the way to w is there.
Landed(d, w) == w \in Path => At(d, Front(w)) = Dir

LEMMA WalkLands ==
    ASSUME NEW d, NEW p, NEW last
    PROVE  Landed(d, Walk(d, p, last))
<1>. DEFINE w == Walk(d, p, last)
<1>1. SUFFICES ASSUME w \in Path PROVE At(d, Front(w)) = Dir
      BY DEF Landed
<1>2. w # NoPath /\ w \in Name /\ Front(w) \in Path \cup {Root}
      BY <1>1, PathFacts, VfsAssumption
<1>3. \A i \in 1 .. Len(w) - 1 : At(d, Pre(w, i)) = Dir
      BY <1>2 DEF Walk, Settled
<1>. HIDE DEF w
<1>4. CASE Len(w) = 1
      <2>1. Front(w) = Root
            BY <1>2, <1>4 DEF Front, Root, Name
      <2>. QED BY <2>1 DEF At
<1>5. CASE Len(w) # 1
      <2>1. Len(w) - 1 \in 1 .. Len(w) - 1 /\ Front(w) = Pre(w, Len(w) - 1)
            <3>1. PICK n \in Nat : n = Len(w) /\ n > 0
                  BY <1>2, SeqFacts
            <3>2. n - 1 \in 1 .. n - 1
                  BY <1>5, <3>1
            <3>3. Front(w) = Pre(w, Len(w) - 1)
                  BY <1>2, SeqFacts
            <3>. QED BY <3>1, <3>2, <3>3
      <2>. QED BY <1>3, <2>1
<1>. QED BY <1>4, <1>5

LEMMA FollowedIn ==
    ASSUME NEW d \in Disk, NEW q \in Name \cup {NoPath}, NEW last \in BOOLEAN
    PROVE  Followed(d, q, last) \in Name \cup {NoPath}
<1>. DEFINE L == Links(d, q, last)
            i == CHOOSE i \in L : \A j \in L : i <= j
            t == At(d, Pre(q, i)).to
<1>1. CASE q = NoPath \/ L = {}
      BY <1>1 DEF Followed
<1>2. CASE ~ (q = NoPath \/ L = {})
      <2>1. q \in Name /\ q \in Seq(Nat) /\ Len(q) \in Nat
            BY <1>2, SeqFacts
      <2>2. L \subseteq 1 .. Len(q)
            BY <2>1 DEF Links
      <2>3. i \in L
            <3>1. \E m \in L : \A j \in L : m <= j
                  <4>. HIDE DEF L
                  <4>0. L # {} /\ L \subseteq Nat
                        BY <1>2, <2>1, <2>2
                  <4>1. PICK m \in L : \A k \in L : <<k, m>> \notin OpToRel(<, Nat)
                        BY <4>0, NatLessThanWellFounded, WFMin
                  <4>2. ASSUME NEW j \in L PROVE m <= j
                        <5>1. j \in Nat /\ m \in Nat
                              BY <4>0
                        <5>2. ~ (j < m)
                              BY <4>1, <5>1 DEF OpToRel
                        <5>. QED BY <5>1, <5>2
                  <4>. QED BY <4>2
            <3>. HIDE DEF L
            <3>. QED BY <3>1
      <2>4. i \in 1 .. Len(q) /\ At(d, Pre(q, i)).kind = "link"
            BY <2>2, <2>3 DEF Links
      <2>5. t.path \in Name
            BY <2>4, AtIn, Kinds
      <2>6. Followed(d, q, last) = Through(q, i, t)
            BY <1>2 DEF Followed
      <2>. HIDE DEF i, t, L
      <2>7. Pre(q, i - 1) \in Seq(Nat) /\ SubSeq(q, i + 1, Len(q)) \in Seq(Nat)
            BY <2>1, <2>4 DEF Pre
      <2>8. Pre(q, i - 1) \o t.path \in Name /\ t.path \in Seq(Nat)
            BY <2>5, <2>7, ConcatName, SeqFacts
      <2>9. (Pre(q, i - 1) \o t.path) \o SubSeq(q, i + 1, Len(q)) \in Name
            BY <2>7, <2>8, ConcatName, SeqFacts
      <2>. QED BY <2>6, <2>9 DEF Through
<1>. QED BY <1>1, <1>2

LEMMA WalkIn ==
    ASSUME NEW d \in Disk, NEW p \in Name, NEW last \in BOOLEAN
    PROVE  Walk(d, p, last) \in Name \cup {NoPath}
<1>. DEFINE X == Name \cup {NoPath}
            f == [q \in {NoPath} \cup Seq(Nat) |-> Followed(d, q, last)]
<1>1. \A x \in X : f[x] \in X
      BY FollowedIn DEF Name
<1>. HIDE DEF f
<1>2. Times(f, p, MaxLinks) \in X
      BY <1>1, TimesIn, VfsAssumption
<1>3. Leading(d, p, last) \in X
      BY <1>2 DEF Leading, f
<1>. QED BY <1>3 DEF Walk, Settled

LEMMA WalkRoot ==
    ASSUME NEW d, NEW last \in BOOLEAN
    PROVE  Walk(d, Root, last) = Root
<1>1. Len(Root) = 0 /\ Root # NoPath /\ 1 .. 0 = {} /\ 1 .. 0 - 1 = {}
      <2>1. Root \in Seq(Nat) /\ Len(Root) = 0
            BY DEF Root
      <2>2. 1 .. 0 = {} /\ 1 .. 0 - 1 = {}
            OBVIOUS
      <2>. QED BY <2>1, <2>2, VfsAssumption
<1>2. Links(d, Root, last) = {} /\ 1 .. Len(Root) - 1 = {}
      BY <1>1 DEF Links
<1>. QED BY <1>1, <1>2 DEF Walk, Leading, Settled

LEMMA RealIn ==
    ASSUME NEW d \in Disk, NEW p \in Seq(Nat)
    PROVE  /\ Real(d, p) \in Path \cup {Root, NoPath}
           /\ p \in Name => Real(d, p) \in Path \cup {NoPath}
           /\ Root \notin Path
<1>1. Root \notin Path
      BY VfsAssumption
<1>2. CASE p = Root
      BY <1>1, <1>2, WalkRoot DEF Real, There, Name
<1>3. CASE p # Root
      <2>1. p \in Name
            BY <1>3 DEF Name
      <2>2. Walk(d, p, TRUE) \in Name \cup {NoPath}
            BY <2>1, WalkIn
      <2>3. Walk(d, p, TRUE) # NoPath /\ At(d, Walk(d, p, TRUE)) # None => Walk(d, p, TRUE) \in Path
            BY <2>2, AtIn DEF Name
      <2>. QED BY <1>1, <2>3 DEF Real, There, NodeAt
<1>. QED BY <1>1, <1>2, <1>3

-----------------------------------------------------------------------------
(* What the calls of the host do to a tree.                                *)

LEMMA TreeIn ==
    ASSUME NEW d \in Tree
    PROVE  /\ d \in Disk /\ d = [node |-> d.node, data |-> d.data]
           /\ d.node \in [Path -> Node] /\ d.data \in [Ino -> Seq(Chunk)]
           /\ \A p \in Path : d.node[p] # None => At(d, Front(p)) = Dir
BY DEF Tree, Disk, IsTree

LEMMA PutIn ==
    ASSUME NEW d \in Tree, NEW w \in Path, NEW n \in Node,
           n # None => At(d, Front(w)) = Dir,
           n # Dir => \A q \in Path : Front(q) = w => d.node[q] = None
    PROVE  Put(d, w, n) \in Tree
<1>. DEFINE e == Put(d, w, n)
<1>1. e \in Disk /\ e.node = [d.node EXCEPT ![w] = n]
      BY TreeIn DEF Put, Disk
<1>. HIDE DEF e
<1>2. ASSUME NEW q \in Path, e.node[q] # None PROVE At(e, Front(q)) = Dir
      <2>1. /\ e.node[w] = n /\ \A x \in Path : x # w => e.node[x] = d.node[x]
            BY <1>1, TreeIn
      <2>2. \A x : x # w => At(e, x) = At(d, x)
            BY <2>1 DEF At
      <2>3. w # Root /\ At(e, w) = n
            BY <2>1, VfsAssumption DEF At
      <2>4. CASE q = w
            <3>1. Front(w) # w
                  BY PathFacts, SeqFacts
            <3>. QED BY <1>2, <2>1, <2>2, <2>4, <3>1
      <2>5. CASE q # w
            <3>1. d.node[q] # None
                  BY <1>2, <2>1, <2>5
            <3>2. At(d, Front(q)) = Dir
                  BY <3>1, TreeIn
            <3>. QED BY <2>2, <2>3, <3>1, <3>2
      <2>. QED BY <2>4, <2>5
<1>3. e \in Tree
      BY <1>1, <1>2 DEF Tree, IsTree
<1>. QED BY <1>3 DEF e

\* What is not a directory has nothing in it.
LEMMA Leaf ==
    ASSUME NEW d \in Tree, NEW w \in Path, d.node[w] # Dir
    PROVE  \A q \in Path : Front(q) = w => d.node[q] = None
<1>1. At(d, w) # Dir
      BY VfsAssumption DEF At
<1>. QED BY <1>1, TreeIn

LEMMA PutAtIn ==
    ASSUME NEW d \in Tree, NEW w, NEW kinds, NEW n \in Node,
           n # None => Landed(d, w),
           "dir" \in kinds => \A q \in Path : Front(q) = w => d.node[q] = None
    PROVE  PutAt(d, w, kinds, n) \in Result
<1>1. CASE w \in Path /\ At(d, w).kind \in kinds
      <2>1. At(d, w) = d.node[w]
            BY <1>1, VfsAssumption DEF At
      <2>2. d.node[w] = Dir => "dir" \in kinds
            BY <1>1, <2>1, DirIsNone
      <2>3. \A q \in Path : Front(q) = w => d.node[q] = None
            BY <1>1, <2>2, Leaf
      <2>4. Put(d, w, n) \in Tree
            BY <1>1, <2>3, PutIn DEF Landed
      <2>. QED BY <1>1, <2>4, DoneIn DEF PutAt
<1>2. CASE ~ (w \in Path /\ At(d, w).kind \in kinds)
      BY <1>2, DoneIn DEF PutAt
<1>. QED BY <1>1, <1>2

LEMMA DataIn ==
    ASSUME NEW d \in Tree, NEW i, NEW text \in Seq(Chunk)
    PROVE  [d EXCEPT !.data[i] = text] \in Tree
<1>. DEFINE e == [d EXCEPT !.data[i] = text]
<1>1. e.node = d.node /\ e \in Disk
      BY TreeIn DEF Disk
<1>. HIDE DEF e
<1>2. \A x : At(e, x) = At(d, x)
      BY <1>1 DEF At
<1>3. e \in Tree
      BY <1>1, <1>2, TreeIn DEF Tree, IsTree
<1>. QED BY <1>3 DEF e

\* There is an inode for every path.
LEMMA FreeInode ==
    ASSUME NEW d \in Disk, NEW w \in Path, d.node[w] = None
    PROVE  \E i \in Ino : \A q \in Path : d.node[q] # File(i)
<1>1. SUFFICES ASSUME \A i \in Ino : \E q \in Path : d.node[q] = File(i) PROVE FALSE
      OBVIOUS
<1>. DEFINE T == Path \ {w}
            f == [i \in Ino |-> CHOOSE q \in Path : d.node[q] = File(i)]
<1>2. \A i \in Ino : f[i] \in Path /\ d.node[f[i]] = File(i)
      BY <1>1
<1>3. f \in [Ino -> T]
      BY <1>2, DirIsNone
<1>4. IsFiniteSet(Path) /\ Cardinality(Path) \in Nat
      BY VfsAssumption, FS_CardinalityType
<1>5. IsFiniteSet(T) /\ Cardinality(T) = Cardinality(Path) - 1
      BY <1>4, FS_RemoveElement
<1>6. IsFiniteSet(Ino) /\ Cardinality(Ino) = Cardinality(Path)
      <2>1. Cardinality(Path) # 0
            BY <1>4, FS_EmptySet
      <2>. QED BY <1>4, <2>1, FS_Interval DEF Ino
<1>7. Cardinality(T) < Cardinality(Ino)
      BY <1>4, <1>5, <1>6
<1>. HIDE DEF f, T
<1>8. PICK i \in Ino, j \in Ino : i # j /\ f[i] = f[j]
      BY <1>3, <1>5, <1>6, <1>7, FS_PigeonHole
<1>9. File(i) = File(j)
      BY <1>2, <1>8
<1>. QED BY <1>8, <1>9 DEF File

LEMMA OpenAtIn ==
    ASSUME NEW d \in Tree, NEW w, Landed(d, w), NEW create \in BOOLEAN, NEW trunc \in BOOLEAN
    PROVE  OpenAt(d, w, create, trunc) \in Result
<1>1. CASE NodeAt(d, w).kind = "file"
      <2>1. <<>> \in Seq(Chunk)
            OBVIOUS
      <2>2. [d EXCEPT !.data[At(d, w).ino] = <<>>] \in Tree
            BY <2>1, DataIn
      <2>3. OpenAt(d, w, create, trunc) = Done(IF trunc THEN [d EXCEPT !.data[At(d, w).ino] = <<>>] ELSE d)
            BY <1>1 DEF OpenAt
      <2>. QED BY <2>2, <2>3, DoneIn
<1>2. CASE NodeAt(d, w).kind # "file" /\ create /\ w \in Path /\ At(d, w) = None
      <2>. DEFINE i == CHOOSE i \in Ino : \A q \in Path : d.node[q] # File(i)
      <2>1. d.node[w] = None
            BY <1>2, VfsAssumption DEF At
      <2>2. i \in Ino
            BY <1>2, <2>1, TreeIn, FreeInode
      <2>3. OpenAt(d, w, create, trunc) = Done(Put(d, w, File(i)))
            BY <1>2 DEF OpenAt
      <2>. HIDE DEF i
      <2>4. File(i) \in Node
            BY <2>2 DEF Node
      <2>5. Put(d, w, File(i)) \in Tree
            BY <1>2, <2>1, <2>4, PutIn, Leaf, DirIsNone DEF Landed
      <2>. QED BY <2>3, <2>5, DoneIn
<1>3. CASE NodeAt(d, w).kind # "file" /\ ~ (create /\ w \in Path /\ At(d, w) = None)
      BY <1>3, DoneIn DEF OpenAt
<1>. QED BY <1>1, <1>2, <1>3

LEMMA OpenIn ==
    ASSUME NEW d \in Tree, NEW p, NEW create \in BOOLEAN, NEW trunc \in BOOLEAN
    PROVE  Open(d, p, create, trunc) \in Result
BY OpenAtIn, WalkLands DEF Open

LEMMA StoredIn ==
    ASSUME NEW r \in Result, NEW p, NEW text \in Seq(Chunk)
    PROVE  Stored(r, p, text) \in Result
<1>1. r.disk \in Tree
      BY DEF Result
<1>2. [r.disk EXCEPT !.data[At(r.disk, Walk(r.disk, p, TRUE)).ino] = text] \in Tree
      BY <1>1, DataIn
<1>. QED BY <1>2, DoneIn DEF Stored

LEMMA FileIn ==
    ASSUME NEW d \in Tree, NEW p, IsFile(d, p)
    PROVE  At(d, Real(d, p)).ino \in Ino /\ Held(d, p) \in Seq(Chunk)
<1>1. At(d, Real(d, p)).kind = "file"
      BY DirIsNone DEF IsFile, NodeAt, None
<1>2. At(d, Real(d, p)).ino \in Ino
      BY <1>1, AtIn, Kinds, TreeIn
<1>. QED BY <1>2, TreeIn DEF Held

LEMMA FsWriteIn ==
    ASSUME NEW d \in Tree, NEW p, NEW text \in Seq(Chunk)
    PROVE  FsWrite(d, p, text) \in Result
BY OpenIn, StoredIn DEF FsWrite

LEMMA FsCopyIn ==
    ASSUME NEW d \in Tree, NEW s, NEW t
    PROVE  FsCopy(d, s, t) \in Result
<1>1. CASE IsFile(d, s)
      <2>1. PICK i \in Ino : i = At(d, Real(d, s)).ino
            BY <1>1, FileIn
      <2>2. PICK r \in Result : r = Open(d, t, TRUE, TRUE)
            BY OpenIn
      <2>3. r.disk.data[i] \in Seq(Chunk)
            BY TreeIn DEF Result
      <2>4. Filled(r, i, t) \in Result
            BY <2>3, StoredIn DEF Filled
      <2>. QED BY <1>1, <2>1, <2>2, <2>4 DEF FsCopy
<1>2. CASE ~ IsFile(d, s)
      BY <1>2, DoneIn DEF FsCopy
<1>. QED BY <1>1, <1>2

LEMMA MkDirIn ==
    ASSUME NEW d \in Tree, NEW p
    PROVE  MkDir(d, p) \in Result
<1>1. Dir \in Node
      BY DEF Node
<1>2. Landed(d, Walk(d, p, FALSE))
      BY WalkLands
<1>. QED BY <1>1, <1>2, PutAtIn DEF MkDir

LEMMA MkDirAllIn ==
    ASSUME NEW d \in Tree, NEW p \in Seq(Nat)
    PROVE  MkDirAll(d, p) \in Result
<1>. DEFINE f == [x \in Disk \X Seq(Nat) |-> MkDirOr(x[1], x[2])]
            s == [i \in 1 .. Len(p) |-> Pre(p, i)]
<1>1. MkDirAll(d, p) = Loop(f, d, s)
      BY DEF MkDirAll, Each
<1>2. PICK n \in Nat : n = Len(p)
      OBVIOUS
<1>3. \A i \in 1 .. n : s[i] = Pre(p, i) /\ Pre(p, i) \in Seq(Nat)
      BY <1>2 DEF Pre
<1>4. Len(s) = n
      BY <1>2
<1>5. ASSUME NEW x \in Tree, NEW i \in 1 .. n PROVE f[<<x, s[i]>>] \in Result
      <2>1. f[<<x, Pre(p, i)>>] = MkDirOr(x, Pre(p, i))
            BY <1>3, TreeIn
      <2>. QED BY <1>3, <2>1, MkDirIn, DoneIn DEF MkDirOr
<1>. HIDE DEF f, s
<1>. QED BY <1>1, <1>4, <1>5, LoopIn

LEMMA FsUnlinkIn ==
    ASSUME NEW d \in Tree, NEW p
    PROVE  FsUnlink(d, p) \in Result
<1>1. None \in Node
      BY DEF Node
<1>. QED BY <1>1, PutAtIn DEF FsUnlink

-----------------------------------------------------------------------------
(* What is below a path.                                                   *)

\* A part of a sequence, by its elements.
LEMMA Part ==
    ASSUME NEW p \in Seq(Nat), NEW m \in Nat, NEW n \in Nat, m >= 1, n <= Len(p)
    PROVE  /\ SubSeq(p, m, n) \in Seq(Nat)
           /\ Len(SubSeq(p, m, n)) = IF m <= n THEN n - m + 1 ELSE 0
           /\ \A i \in 1 .. n - m + 1 : SubSeq(p, m, n)[i] = p[m + i - 1]
<1>1. \A i \in m .. n : p[i] \in Nat
      OBVIOUS
<1>. QED BY <1>1, SubSeqProperties

LEMMA WithinIs ==
    ASSUME NEW p \in Seq(Nat), NEW q \in Seq(Nat)
    PROVE  Within(q, p) <=> Len(p) <= Len(q) /\ \A i \in 1 .. Len(p) : p[i] = q[i]
<1>1. PICK n \in Nat : n = Len(p)
      OBVIOUS
<1>2. PICK m \in Nat : m = Len(q)
      OBVIOUS
<1>3. Within(q, p) <=> n <= m /\ SubSeq(p, 1, n) = SubSeq(q, 1, n)
      BY <1>1, <1>2 DEF Within, IsPrefix
<1>. SUFFICES ASSUME n <= m
              PROVE  SubSeq(p, 1, n) = SubSeq(q, 1, n) <=> \A i \in 1 .. n : p[i] = q[i]
     BY <1>1, <1>2, <1>3
<1>. DEFINE a == SubSeq(p, 1, n)
            b == SubSeq(q, 1, n)
<1>4. a \in Seq(Nat) /\ Len(a) = n /\ \A i \in 1 .. n : a[i] = p[i]
      BY <1>1, Part
<1>5. b \in Seq(Nat) /\ Len(b) = n /\ \A i \in 1 .. n : b[i] = q[i]
      BY <1>2, Part
<1>. HIDE DEF a, b
<1>6. a = b <=> \A i \in 1 .. n : a[i] = b[i]
      BY <1>4, <1>5, SeqEqual
<1>7. a = b <=> \A i \in 1 .. n : p[i] = q[i]
      BY <1>4, <1>5, <1>6
<1>. QED BY <1>7 DEF a, b

\* The elements of the directory's path.
LEMMA FrontIs ==
    ASSUME NEW q \in Name
    PROVE  \A i \in 1 .. Len(q) - 1 : Front(q)[i] = q[i]
<1>1. PICK m \in Nat : m = Len(q) - 1
      BY SeqFacts
<1>2. Front(q) = SubSeq(q, 1, m)
      BY <1>1 DEF Front
<1>3. q \in Seq(Nat) /\ m <= Len(q)
      BY <1>1, SeqFacts
<1>4. \A i \in 1 .. m - 1 + 1 : SubSeq(q, 1, m)[i] = q[1 + i - 1]
      BY <1>3, Part
<1>5. ASSUME NEW i \in 1 .. m PROVE SubSeq(q, 1, m)[i] = q[i]
      <2>1. i \in 1 .. m - 1 + 1 /\ 1 + i - 1 = i
            BY <1>1
      <2>. QED BY <1>4, <2>1
<1>. QED BY <1>1, <1>2, <1>5

LEMMA WithinFront ==
    ASSUME NEW p \in Seq(Nat), NEW q \in Name
    PROVE  /\ Within(Front(q), p) => Within(q, p)
           /\ Within(q, p) /\ q # p => Within(Front(q), p)
           /\ Within(q, Front(q))
           /\ Within(q, q)
<1>. DEFINE f == Front(q)
<1>1. q \in Seq(Nat) /\ f \in Seq(Nat) /\ Len(q) \in Nat /\ Len(p) \in Nat /\ Len(f) = Len(q) - 1
      BY SeqFacts
<1>2. \A i \in 1 .. Len(q) - 1 : f[i] = q[i]
      BY FrontIs
<1>. HIDE DEF f
<1>3. Within(f, p) <=> Len(p) <= Len(f) /\ \A i \in 1 .. Len(p) : p[i] = f[i]
      BY <1>1, WithinIs
<1>4. Within(q, p) <=> Len(p) <= Len(q) /\ \A i \in 1 .. Len(p) : p[i] = q[i]
      BY <1>1, WithinIs
<1>5. Within(q, f) <=> Len(f) <= Len(q) /\ \A i \in 1 .. Len(f) : f[i] = q[i]
      BY <1>1, WithinIs
<1>6. Within(q, q) <=> Len(q) <= Len(q) /\ \A i \in 1 .. Len(q) : q[i] = q[i]
      BY <1>1, WithinIs
<1>7. Within(f, p) => Within(q, p)
      BY <1>1, <1>2, <1>3, <1>4
<1>8. ASSUME Within(q, p), q # p PROVE Within(f, p)
      <2>1. Len(p) # Len(q)
            BY <1>1, <1>4, <1>8, SeqEqual
      <2>. QED BY <1>1, <1>2, <1>3, <1>4, <1>8, <2>1
<1>9. Within(q, f) /\ Within(q, q)
      BY <1>1, <1>2, <1>5, <1>6
<1>. QED BY <1>7, <1>8, <1>9 DEF f

LEMMA FsRmDirIn ==
    ASSUME NEW d \in Tree, NEW p
    PROVE  FsRmDir(d, p) \in Result
<1>. DEFINE w == Walk(d, p, FALSE)
<1>. HIDE DEF w
<1>1. None \in Node
      BY DEF Node
<1>2. CASE Children(d, w) = {}
      <2>1. ASSUME NEW q \in Path, Front(q) = w PROVE d.node[q] = None
            <3>1. Len(q) = Len(w) + 1 /\ Within(q, w)
                  BY <2>1, PathFacts, SeqFacts, WithinFront
            <3>. QED BY <1>2, <3>1 DEF Children
      <2>2. PutAt(d, w, {"dir"}, None) \in Result
            BY <1>1, <2>1, PutAtIn
      <2>. QED BY <1>2, <2>2, DoneIn DEF FsRmDir, RmDirAt, w
<1>3. CASE Children(d, w) # {}
      BY <1>3, DoneIn DEF FsRmDir, RmDirAt, w
<1>. QED BY <1>2, <1>3

LEMMA FsRmTreeIn ==
    ASSUME NEW d \in Tree, NEW p \in Seq(Nat)
    PROVE  FsRmTree(d, p) \in Result
<1>. DEFINE e == [d EXCEPT !.node = [q \in Path |-> IF Within(q, p) THEN None ELSE @[q]]]
<1>1. None \in Node
      BY DEF Node
<1>2. e \in Disk /\ \A q \in Path : e.node[q] = IF Within(q, p) THEN None ELSE d.node[q]
      BY <1>1, TreeIn DEF Disk
<1>3. FsRmTree(d, p) = Done(e)
      BY DEF FsRmTree
<1>. HIDE DEF e
<1>4. ASSUME NEW q \in Path, e.node[q] # None PROVE At(e, Front(q)) = Dir
      <2>1. ~ Within(q, p) /\ d.node[q] # None
            BY <1>2, <1>4
      <2>2. At(d, Front(q)) = Dir
            BY <2>1, TreeIn
      <2>3. ~ Within(Front(q), p)
            BY <2>1, PathFacts, WithinFront
      <2>. QED BY <1>2, <2>2, <2>3 DEF At
<1>5. e \in Tree
      BY <1>2, <1>4 DEF Tree, IsTree
<1>. QED BY <1>3, <1>5, DoneIn

\* Where what is below t comes from, when s is moved to t.
Origin(s, t, x) == s \o SubSeq(x, Len(t) + 1, Len(x))

LEMMA OriginIs ==
    ASSUME NEW s \in Name, NEW t \in Name, NEW x \in Name, Within(x, t)
    PROVE  /\ Origin(s, t, x) \in Name
           /\ Len(Origin(s, t, x)) = Len(s) + Len(x) - Len(t)
           /\ \A i \in 1 .. Len(s) + Len(x) - Len(t) :
                Origin(s, t, x)[i] = IF i <= Len(s) THEN s[i] ELSE x[Len(t) + i - Len(s)]
<1>1. PICK l \in Nat, m \in Nat, n \in Nat :
          l = Len(s) /\ m = Len(t) /\ n = Len(x) /\ s \in Seq(Nat) /\ t \in Seq(Nat) /\ x \in Seq(Nat)
      BY SeqFacts
<1>2. m <= n
      BY <1>1, WithinIs
<1>. DEFINE r == SubSeq(x, m + 1, n)
<1>3. r \in Seq(Nat) /\ Len(r) = IF m + 1 <= n THEN n - (m + 1) + 1 ELSE 0
      BY <1>1, Part
<1>4. \A i \in 1 .. n - (m + 1) + 1 : r[i] = x[m + 1 + i - 1]
      BY <1>1, Part
<1>. HIDE DEF r
<1>5. Len(r) = n - m
      BY <1>2, <1>3
<1>6. s \o r \in Name
      BY <1>1, <1>3, ConcatName
<1>7. Len(s \o r) = l + (n - m)
      BY <1>1, <1>3, <1>5, ConcatProperties
<1>8. ASSUME NEW i \in 1 .. l + (n - m)
      PROVE  (s \o r)[i] = IF i <= l THEN s[i] ELSE x[m + i - l]
      <2>1. (s \o r)[i] = IF i <= l THEN s[i] ELSE r[i - l]
            BY <1>1, <1>3, <1>5, ConcatProperties
      <2>2. CASE i <= l
            BY <2>1, <2>2
      <2>3. CASE ~ (i <= l)
            <3>1. i - l \in 1 .. n - (m + 1) + 1 /\ m + 1 + (i - l) - 1 = m + i - l
                  BY <1>2, <2>3
            <3>2. r[i - l] = x[m + 1 + (i - l) - 1]
                  BY <1>4, <3>1
            <3>. QED BY <2>1, <2>3, <3>1, <3>2
      <2>. QED BY <2>2, <2>3
<1>9. Origin(s, t, x) = s \o r
      BY <1>1 DEF Origin, r
<1>10. l + (n - m) = Len(s) + Len(x) - Len(t)
      BY <1>1
<1>. QED BY <1>1, <1>6, <1>7, <1>8, <1>9, <1>10

LEMMA OriginFront ==
    ASSUME NEW s \in Name, NEW t \in Name, NEW x \in Name, Within(x, t), x # t
    PROVE  /\ Front(x) \in Name /\ Within(Front(x), t)
           /\ Front(Origin(s, t, x)) = Origin(s, t, Front(x))
<1>. DEFINE f == Front(x)
            o == Origin(s, t, x)
            a == Front(o)
            b == Origin(s, t, f)
<1>1. PICK l \in Nat, m \in Nat, n \in Nat :
          /\ l = Len(s) /\ m = Len(t) /\ n = Len(x) /\ l > 0 /\ m > 0 /\ n > 0
          /\ s \in Seq(Nat) /\ t \in Seq(Nat) /\ x \in Seq(Nat)
      BY SeqFacts
<1>2. f \in Seq(Nat) /\ Len(f) = n - 1 /\ Within(f, t)
      BY <1>1, SeqFacts, WithinFront
<1>3. m <= n - 1
      BY <1>1, <1>2, WithinIs
<1>4. f \in Name
      BY <1>1, <1>2, <1>3 DEF Name, Root
<1>. HIDE DEF f
<1>5. /\ o \in Name /\ Len(o) = Len(s) + Len(x) - Len(t)
      /\ \A i \in 1 .. Len(s) + Len(x) - Len(t) :
           o[i] = IF i <= Len(s) THEN s[i] ELSE x[Len(t) + i - Len(s)]
      BY OriginIs
<1>7. /\ b \in Name /\ Len(b) = Len(s) + Len(f) - Len(t)
      /\ \A i \in 1 .. Len(s) + Len(f) - Len(t) :
           b[i] = IF i <= Len(s) THEN s[i] ELSE f[Len(t) + i - Len(s)]
      BY <1>2, <1>4, OriginIs
<1>. HIDE DEF o, b
<1>6. Len(o) = l + n - m /\ \A i \in 1 .. l + n - m : o[i] = IF i <= l THEN s[i] ELSE x[m + i - l]
      BY <1>1, <1>5
<1>8. /\ Len(b) = l + (n - 1) - m
      /\ \A i \in 1 .. l + (n - 1) - m : b[i] = IF i <= l THEN s[i] ELSE f[m + i - l]
      BY <1>1, <1>2, <1>7
<1>9. \A i \in 1 .. n - 1 : f[i] = x[i]
      BY <1>1, FrontIs DEF f
<1>10. a \in Seq(Nat) /\ Len(a) = l + n - m - 1
      <2>1. a \in Seq(Nat) /\ Len(a) = Len(o) - 1
            BY <1>5, SeqFacts
      <2>2. Len(o) = l + n - m
            BY <1>6
      <2>. QED BY <2>1, <2>2
<1>11. \A i \in 1 .. l + n - m - 1 : a[i] = o[i]
      BY <1>5, <1>6, FrontIs
<1>12. b \in Seq(Nat) /\ Len(b) = l + n - m - 1
      <2>1. b \in Seq(Nat)
            BY <1>7, SeqFacts
      <2>2. Len(b) = l + (n - 1) - m
            BY <1>8
      <2>. QED BY <2>1, <2>2
<1>. HIDE DEF a, b, f, o
<1>13. ASSUME NEW i \in 1 .. l + n - m - 1 PROVE a[i] = b[i]
      <2>0. i \in 1 .. l + n - m /\ i \in 1 .. l + (n - 1) - m
            BY <1>3
      <2>1. a[i] = IF i <= l THEN s[i] ELSE x[m + i - l]
            <3>1. a[i] = o[i]
                  BY <1>11
            <3>. QED BY <1>6, <2>0, <3>1
      <2>2. b[i] = IF i <= l THEN s[i] ELSE f[m + i - l]
            BY <1>8, <2>0
      <2>3. ~ (i <= l) => m + i - l \in 1 .. n - 1
            BY <1>3
      <2>. QED BY <1>9, <2>1, <2>2, <2>3
<1>14. a = b
      BY <1>10, <1>12, <1>13, SeqEqual
<1>. QED BY <1>2, <1>4, <1>14 DEF a, b, f, o

LEMMA RenameAtIn ==
    ASSUME NEW d \in Tree, NEW s, NEW t, Landed(d, t)
    PROVE  RenameAt(d, s, t) \in Result
<1>. DEFINE e == [d EXCEPT !.node = [x \in Path |->
                     IF Within(x, t) THEN At(d, s \o SubSeq(x, Len(t) + 1, Len(x)))
                     ELSE IF Within(x, s) THEN None ELSE @[x]]]
<1>1. CASE RenameAt(d, s, t) \in {Done(d), Fail(d)}
      BY <1>1, DoneIn
<1>2. CASE RenameAt(d, s, t) \notin {Done(d), Fail(d)}
      <2>1. RenameAt(d, s, t) = Done(e) /\ s \in Path /\ t \in Path /\ ~ Within(t, s)
            BY <1>2 DEF RenameAt
      <2>2. e = [d EXCEPT !.node = [x \in Path |->
                     IF Within(x, t) THEN At(d, Origin(s, t, x))
                     ELSE IF Within(x, s) THEN None ELSE d.node[x]]]
            BY DEF Origin
      <2>. HIDE DEF e
      <2>3. None \in Node /\ \A x : At(d, x) \in Node
            BY AtIn, TreeIn DEF Node
      <2>4. e \in Disk /\ \A x \in Path :
                e.node[x] = IF Within(x, t) THEN At(d, Origin(s, t, x))
                            ELSE IF Within(x, s) THEN None ELSE d.node[x]
            BY <2>2, <2>3, TreeIn DEF Disk
      <2>5. s \in Name /\ t \in Name /\ s \in Seq(Nat) /\ t \in Seq(Nat)
            BY <2>1, PathFacts, SeqFacts
      <2>6. ASSUME NEW x \in Path, e.node[x] # None PROVE At(e, Front(x)) = Dir
            <3>1. x \in Name /\ Front(x) \in Path \cup {Root}
                  BY PathFacts
            <3>2. CASE x = t
                  <4>1. ~ Within(Front(t), s)
                        BY <2>1, <2>5, WithinFront
                  <4>2. ~ Within(Front(t), t)
                        <5>1. Len(Front(t)) = Len(t) - 1 /\ Front(t) \in Seq(Nat) /\ Len(t) \in Nat
                              BY <2>5, SeqFacts
                        <5>. QED BY <2>5, <5>1, WithinIs
                  <4>3. At(d, Front(t)) = Dir
                        BY <2>1 DEF Landed
                  <4>. QED BY <2>4, <3>1, <3>2, <4>1, <4>2, <4>3 DEF At
            <3>3. CASE x # t /\ Within(x, t)
                  <4>1. /\ Front(x) \in Name /\ Within(Front(x), t)
                        /\ Front(Origin(s, t, x)) = Origin(s, t, Front(x))
                        BY <2>5, <3>1, <3>3, OriginFront
                  <4>2. Origin(s, t, x) \in Name
                        BY <2>5, <3>1, <3>3, OriginIs
                  <4>3. At(d, Origin(s, t, x)) # None
                        BY <2>4, <2>6, <3>3
                  <4>4. Origin(s, t, x) \in Path /\ d.node[Origin(s, t, x)] # None
                        BY <4>2, <4>3 DEF At, Name
                  <4>5. At(d, Origin(s, t, Front(x))) = Dir
                        BY <4>1, <4>4, TreeIn
                  <4>6. Front(x) \in Path
                        BY <3>1, <4>1 DEF Name
                  <4>7. e.node[Front(x)] = Dir
                        BY <2>4, <4>1, <4>5, <4>6
                  <4>. QED BY <4>6, <4>7 DEF At
            <3>4. CASE ~ Within(x, t)
                  <4>1. ~ Within(x, s) /\ d.node[x] # None
                        BY <2>4, <2>6, <3>4
                  <4>2. ~ Within(Front(x), t) /\ ~ Within(Front(x), s)
                        BY <2>5, <3>1, <3>4, <4>1, WithinFront
                  <4>3. At(d, Front(x)) = Dir
                        BY <4>1, TreeIn
                  <4>. QED BY <2>4, <4>2, <4>3 DEF At
            <3>. QED BY <3>2, <3>3, <3>4
      <2>7. e \in Tree
            BY <2>4, <2>6 DEF Tree, IsTree
      <2>. QED BY <2>1, <2>7, DoneIn
<1>. QED BY <1>1, <1>2

LEMMA FsRenameIn ==
    ASSUME NEW d \in Tree, NEW p, NEW q
    PROVE  FsRename(d, p, q) \in Result
BY RenameAtIn, WalkLands DEF FsRename

-----------------------------------------------------------------------------
(* Where the virtual file system comes to.                                 *)

LEMMA MetaIn ==
    ASSUME NEW d \in Tree, NEW p
    PROVE  Meta(d, p) \in Node
<1>1. None \in Node /\ \A w : At(d, w) \in Node
      BY AtIn, TreeIn DEF Node
<1>. QED BY <1>1 DEF Meta, NodeAt

LEMMA HopIn ==
    ASSUME NEW d \in Tree, NEW q \in Name \cup {NoPath}
    PROVE  Hop(d, q) \in Name \cup {NoPath}
<1>1. CASE q = NoPath
      BY <1>1 DEF Hop
<1>2. CASE q # NoPath
      <2>1. q \in Name /\ Front(q) \in Seq(Nat)
            BY <1>2, SeqFacts
      <2>2. PICK n \in Node : n = Meta(d, q)
            BY MetaIn
      <2>3. CASE n.kind = "link"
            <3>1. n.to.path \in Name /\ n.to.path \in Seq(Nat) /\ n # None
                  BY <2>3, Kinds, SeqFacts, DirIsNone
            <3>2. Front(q) \o n.to.path \in Name
                  BY <2>1, <3>1, ConcatName
            <3>. QED BY <1>2, <2>2, <2>3, <3>1, <3>2 DEF Hop, HopTo
      <2>4. CASE n.kind # "link"
            BY <1>2, <2>1, <2>2, <2>4 DEF Hop, HopTo
      <2>. QED BY <2>3, <2>4
<1>. QED BY <1>1, <1>2

LEMMA FollowIn ==
    ASSUME NEW d \in Tree, NEW p \in Name
    PROVE  /\ Follow(d, p) \in Name \cup {NoPath}
           /\ Follow(d, p) \in Path \cup {NoPath} \/ Real(d, Follow(d, p)) = NoPath
           /\ Exists(d, Follow(d, p)) => \E e \in Seq(Nat) : Follow(d, p) = Real(d, e) \/ Follow(d, p) = NoPath
<1>. DEFINE X == Name \cup {NoPath}
            f == [q \in {NoPath} \cup Seq(Nat) |-> Hop(d, q)]
            e == Times(f, p, MaxLinks)
<1>1. \A x \in X : f[x] \in X
      BY HopIn DEF Name
<1>. HIDE DEF f
<1>2. e \in X
      BY <1>1, TimesIn, VfsAssumption
<1>3. Follow(d, p) \in {Ending(d, e), NoPath}
      BY DEF Follow, f
<1>. HIDE DEF e
<1>4. e \in Name => Real(d, e) \in Path \cup {NoPath}
      BY RealIn, TreeIn DEF Name
<1>5. Ending(d, e) \in Path \cup {NoPath} \/ (Ending(d, e) = e /\ Real(d, e) = NoPath)
      BY <1>2, <1>4 DEF Ending, Or
<1>6. Path \subseteq Name
      BY PathFacts
<1>7. ASSUME Real(d, Follow(d, p)) # NoPath
      PROVE  \E z \in Seq(Nat) : Follow(d, p) = Real(d, z) \/ Follow(d, p) = NoPath
      <2>1. Root \in Seq(Nat)
            BY DEF Root
      <2>2. CASE Follow(d, p) = NoPath
            BY <2>1, <2>2
      <2>3. CASE Follow(d, p) # NoPath
            <3>1. Follow(d, p) = Ending(d, e) /\ e # NoPath
                  BY <1>3, <2>3 DEF Ending
            <3>2. e \in Seq(Nat)
                  BY <1>2, <3>1 DEF Name
            <3>3. Follow(d, p) = Real(d, e)
                  BY <1>7, <3>1 DEF Ending, Or
            <3>. QED BY <3>2, <3>3
      <2>. QED BY <2>2, <2>3
<1>. QED BY <1>2, <1>3, <1>5, <1>6, <1>7 DEF Exists

LEMMA ResolveNFIn ==
    ASSUME NEW d \in Tree, NEW p \in Name
    PROVE  ResolveNF(d, p) \in Name
<1>1. p # Root /\ Front(p) \in Seq(Nat) /\ Last(p) \in Nat
      BY SeqFacts DEF Name
<1>2. Real(d, Front(p)) \in Path \cup {Root, NoPath}
      BY <1>1, RealIn, TreeIn
<1>3. Root \in Seq(Nat) /\ \A q \in Path : q \in Seq(Nat)
      BY VfsAssumption DEF Root
<1>4. In(Real(d, Front(p)), p) \in Name
      BY <1>1, <1>2, <1>3, AppendName DEF In
<1>. QED BY <1>1, <1>4 DEF ResolveNF

LEMMA RootReal ==
    ASSUME NEW d
    PROVE  Real(d, Root) = Root /\ Resolve(d, Root) = Root
<1>1. Root # NoPath /\ At(d, Root) # None
      <2>1. Root \in Seq(Nat)
            BY DEF Root
      <2>2. At(d, Root) = Dir
            BY DEF At
      <2>. QED BY <2>1, <2>2, VfsAssumption, DirIsNone
<1>2. Real(d, Root) = Root
      BY <1>1, WalkRoot DEF Real, There, NodeAt
<1>. QED BY <1>1, <1>2 DEF Resolve, Or

LEMMA ResolveIn ==
    ASSUME NEW d \in Tree, NEW p \in Seq(Nat)
    PROVE  Resolve(d, p) \in Seq(Nat) /\ (p \in Name => Resolve(d, p) \in Name)
<1>1. CASE p = Root
      BY <1>1, RootReal DEF Name
<1>2. CASE p # Root
      <2>1. p \in Name
            BY <1>2 DEF Name
      <2>2. Real(d, p) \in Name \cup {NoPath}
            BY <2>1, RealIn, PathFacts, TreeIn
      <2>3. Resolve(d, p) \in Name
            BY <2>1, <2>2, FollowIn, ResolveNFIn DEF Resolve, Or
      <2>. QED BY <2>3 DEF Name
<1>. QED BY <1>1, <1>2


\* Where the host comes to, there are no links on the way.
LEMMA Straight ==
    ASSUME NEW d, NEW p, Real(d, p) # NoPath
    PROVE  Links(d, Real(d, p), TRUE) = {}
BY DEF Real, There, Walk, Settled

\* What can be entered is a path that may exist.
LEMMA EnterIn ==
    ASSUME NEW d \in Tree, NEW p \in Path \cup {Root}, IsDir(d, Resolve(d, p))
    PROVE  Resolve(d, p) \in Path \cup {Root}
<1>. DEFINE t == Resolve(d, p)
<1>1. Real(d, t) # NoPath
      BY DirIsNone DEF IsDir, NodeAt
<1>2. CASE p = Root
      BY <1>2, RootReal
<1>3. CASE p # Root /\ Real(d, p) # NoPath
      <2>1. p \in Name /\ p \in Seq(Nat)
            BY <1>3, PathFacts, SeqFacts
      <2>. QED BY <1>3, <2>1, RealIn, TreeIn DEF Resolve, Or
<1>4. CASE p # Root /\ Real(d, p) = NoPath /\ Follow(d, p) # NoPath
      <2>1. p \in Name /\ t = Follow(d, p)
            BY <1>4, PathFacts DEF Resolve, Or
      <2>. QED BY <1>1, <1>4, <2>1, FollowIn
<1>5. CASE p # Root /\ Real(d, p) = NoPath /\ Follow(d, p) = NoPath
      <2>. DEFINE r == Real(d, Front(p))
      <2>1. p \in Name /\ p \in Path /\ Front(p) \in Seq(Nat) /\ Last(p) \in Nat
            BY <1>5, PathFacts, SeqFacts
      <2>2. t = In(r, p)
            BY <1>5 DEF Resolve, Or, ResolveNF
      <2>3. r \in Path \cup {Root, NoPath}
            BY <2>1, RealIn, TreeIn
      <2>4. CASE r = NoPath
            BY <2>1, <2>2, <2>4 DEF In
      <2>5. CASE r # NoPath
            <3>1. t = Append(r, Last(p))
                  BY <2>2, <2>5 DEF In
            <3>2. Links(d, r, TRUE) = {}
                  BY <2>5, Straight
            <3>3. r \in Seq(Nat)
                  <4>1. Root \in Seq(Nat) /\ Path \subseteq Seq(Nat)
                        BY VfsAssumption DEF Root
                  <4>. HIDE DEF r
                  <4>. QED BY <2>3, <2>5, <4>1
            <3>. HIDE DEF r, t
            <3>4. PICK n \in Nat : n = Len(r)
                  BY <3>3
            <3>5. t \in Seq(Nat) /\ Len(t) = n + 1 /\ \A i \in 1 .. n : t[i] = r[i]
                  BY <2>1, <3>1, <3>3, <3>4
            <3>6. CASE At(d, t).kind = "link"
                  <4>1. At(d, t) # None
                        BY <3>6, DirIsNone
                  <4>. QED BY <4>1, AtIn, TreeIn DEF t
            <3>7. CASE At(d, t).kind # "link"
                  <4>1. ASSUME NEW i \in 1 .. n + 1 PROVE At(d, Pre(t, i)).kind # "link"
                        <5>1. CASE i = n + 1
                              <6>1. Pre(t, i) = t
                                    <7>. DEFINE a == SubSeq(t, 1, n + 1)
                                    <7>1. a \in Seq(Nat) /\ Len(a) = n + 1 /\ \A j \in 1 .. n + 1 : a[j] = t[j]
                                          BY <3>5, Part
                                    <7>. HIDE DEF a
                                    <7>2. a = t
                                          BY <3>5, <7>1, SeqEqual
                                    <7>. QED BY <5>1, <7>2 DEF Pre, a
                              <6>. QED BY <3>7, <6>1
                        <5>2. CASE i # n + 1
                              <6>0. i \in 1 .. n /\ i \in Nat
                                    BY <5>2
                              <6>. DEFINE a == SubSeq(t, 1, i)
                                          b == SubSeq(r, 1, i)
                              <6>1. a \in Seq(Nat) /\ Len(a) = i /\ \A j \in 1 .. i : a[j] = t[j]
                                    BY <3>5, <6>0, Part
                              <6>2. b \in Seq(Nat) /\ Len(b) = i /\ \A j \in 1 .. i : b[j] = r[j]
                                    BY <3>3, <3>4, <6>0, Part
                              <6>. HIDE DEF a, b
                              <6>3. \A j \in 1 .. i : a[j] = b[j]
                                    BY <3>5, <6>0, <6>1, <6>2
                              <6>4. a = b
                                    BY <6>1, <6>2, <6>3, SeqEqual
                              <6>5. Pre(t, i) = Pre(r, i)
                                    BY <6>4 DEF Pre, a, b
                              <6>6. At(d, Pre(r, i)).kind # "link"
                                    BY <3>2, <3>4, <6>0 DEF Links
                              <6>. QED BY <6>5, <6>6
                        <5>. QED BY <5>1, <5>2
                  <4>2. Links(d, t, TRUE) = {}
                        BY <3>5, <4>1 DEF Links
                  <4>3. Walk(d, t, TRUE) \in {t, NoPath}
                        BY <4>2 DEF Walk, Leading, Settled
                  <4>4. Walk(d, t, TRUE) = t /\ At(d, t) # None
                        BY <1>1, <4>3 DEF Real, There, NodeAt
                  <4>. QED BY <4>4, AtIn, TreeIn DEF t
            <3>. QED BY <3>6, <3>7
      <2>. QED BY <2>4, <2>5
<1>. QED BY <1>2, <1>3, <1>4, <1>5

-----------------------------------------------------------------------------
(* What the calls of the virtual file system do to a tree.                 *)

LEMMA WriteToIn ==
    ASSUME NEW d \in Tree, NEW t \in Seq(Nat), NEW text \in Seq(Chunk)
    PROVE  Parents(d, t) \in Result /\ WriteTo(d, t, text) \in Result
<1>1. t # Root => Front(t) \in Seq(Nat)
      BY SeqFacts DEF Name
<1>2. PICK r \in Result : r = Parents(d, t)
      BY <1>1, MkDirAllIn, DoneIn DEF Parents
<1>3. r.disk \in Tree
      BY DEF Result
<1>4. WriteAt(r, t, text) \in Result
      BY <1>3, FsWriteIn DEF WriteAt
<1>. QED BY <1>2, <1>4 DEF WriteTo

LEMMA WriteIn ==
    ASSUME NEW d \in Tree, NEW p \in Seq(Nat), NEW text \in Seq(Chunk)
    PROVE  Write(d, p, text) \in Result
BY ResolveIn, WriteToIn DEF Write

LEMMA RemoveIn ==
    ASSUME NEW d \in Tree, NEW p \in Seq(Nat)
    PROVE  /\ RemoveFile(d, p) \in Result
           /\ RemoveDir(d, p) \in Result
           /\ RemoveDirAll(d, p) \in Result
<1>1. RemoveFile(d, p) \in Result /\ RemoveDir(d, p) \in Result
      BY FsUnlinkIn, FsRmDirIn DEF RemoveFile, RemoveDir
<1>2. RemoveDirAll(d, p) \in Result
      BY ResolveIn, FsRmTreeIn, DoneIn DEF RemoveDirAll
<1>. QED BY <1>1, <1>2

\* An order of some paths is a sequence of them.
LEMMA InOrderIn ==
    ASSUME NEW S \in SUBSET Path
    PROVE  InOrder(S) \in Seq(S)
<1>. DEFINE more(s, q) == IF q = {} THEN s ELSE Append(s, CHOOSE x \in q : TRUE)
            f == [s \in Seq(S) |-> more(s, Least(S \ Range(s)))]
<1>1. ASSUME NEW s \in Seq(S) PROVE f[s] \in Seq(S)
      <2>. DEFINE q == Least(S \ Range(s))
      <2>1. q \subseteq S
            BY DEF Least
      <2>. HIDE DEF q
      <2>2. more(s, q) \in Seq(S)
            <3>1. CASE q = {}
                  BY <3>1
            <3>2. CASE q # {}
                  <4>1. (CHOOSE x \in q : TRUE) \in S
                        BY <2>1, <3>2
                  <4>. QED BY <3>2, <4>1
            <3>. QED BY <3>1, <3>2
      <2>3. f[s] = more(s, q)
            BY DEF q
      <2>. QED BY <2>2, <2>3
<1>2. InOrder(S) = Times(f, <<>>, Cardinality(S))
      BY DEF InOrder
<1>3. PICK n \in Nat : n = Cardinality(S)
      BY VfsAssumption, FS_Subset, FS_CardinalityType
<1>. HIDE DEF f
<1>4. PICK X : X = Seq(S)
      OBVIOUS
<1>5. <<>> \in X /\ \A x \in X : f[x] \in X
      BY <1>1, <1>4
<1>6. Times(f, <<>>, n) \in X
      BY <1>5, TimesIn
<1>. QED BY <1>2, <1>3, <1>4, <1>6

LEMMA CopyTreeIn ==
    ASSUME NEW d \in Tree, NEW s \in Seq(Nat), NEW t \in Seq(Nat)
    PROVE  CopyTree(d, s, t) \in Result
<1>. DEFINE below == {q \in Path : Within(q, s) /\ q # s /\ d.node[q] # None}
            to(q) == t \o SubSeq(q, Len(s) + 1, Len(q))
            one(x, q) == IF At(d, q) = Dir THEN MkDirAll(x, to(q)) ELSE FsCopy(x, q, to(q))
            f == [x \in Disk \X Seq(Nat) |-> one(x[1], x[2])]
            S == InOrder(below)
<1>1. PICK r \in Result : r = MkDirAll(d, t)
      BY MkDirAllIn
<1>2. CopyTree(d, s, t) = IF r.ok THEN Loop(f, r.disk, S) ELSE r
      BY <1>1 DEF CopyTree, Each
<1>3. ASSUME NEW x \in Tree, NEW q \in Path PROVE f[<<x, q>>] \in Result
      <2>1. q \in Seq(Nat) /\ Len(s) + 1 \in Nat /\ Len(q) \in Nat /\ Len(s) + 1 >= 1
            BY VfsAssumption
      <2>2. to(q) \in Seq(Nat)
            <3>1. SubSeq(q, Len(s) + 1, Len(q)) \in Seq(Nat)
                  BY <2>1, Part
            <3>. QED BY <3>1
      <2>. HIDE DEF to
      <2>3. one(x, q) \in Result
            BY <2>2, MkDirAllIn, FsCopyIn
      <2>4. f[<<x, q>>] = one(x, q)
            BY <2>1, TreeIn
      <2>. QED BY <2>3, <2>4
<1>4. S \in Seq(Path)
      <2>1. below \in SUBSET Path
            OBVIOUS
      <2>. HIDE DEF below
      <2>2. S \in Seq(below)
            BY <2>1, InOrderIn
      <2>. QED BY <2>1, <2>2
<1>. HIDE DEF f, S
<1>5. PICK n \in Nat : n = Len(S)
      BY <1>4
<1>6. \A i \in 1 .. n : S[i] \in Path
      BY <1>4, <1>5
<1>7. \A x \in Tree, i \in 1 .. n : f[<<x, S[i]>>] \in Result
      BY <1>3, <1>6
<1>8. r.disk \in Tree
      BY DEF Result
<1>9. Loop(f, r.disk, S) \in Result
      BY <1>5, <1>7, <1>8, LoopIn
<1>. QED BY <1>2, <1>9

LEMMA CopyIsIn ==
    ASSUME NEW d \in Tree, NEW p \in Seq(Nat), NEW q \in Seq(Nat)
    PROVE  Copy(d, p, q) \in Result
<1>1. PICK s \in Seq(Nat), t \in Seq(Nat) : s = Resolve(d, p) /\ t = Resolve(d, q)
      BY ResolveIn
<1>2. PICK r \in Result : r = Parents(d, t)
      BY <1>1, WriteToIn, EmptySeq
<1>3. CopyIn(r, s, t) \in Result
      BY FsCopyIn DEF CopyIn, Result
<1>4. CopyTo(d, s, t) \in Result
      BY <1>2, <1>3, CopyTreeIn, DoneIn DEF CopyTo
<1>. QED BY <1>1, <1>4 DEF Copy

LEMMA RenameIsIn ==
    ASSUME NEW d \in Tree, NEW p \in Seq(Nat), NEW q \in Seq(Nat)
    PROVE  Rename(d, p, q) \in Result
<1>1. PICK s \in Seq(Nat), t \in Seq(Nat) : s = Resolve(d, p) /\ t = Resolve(d, q)
      BY ResolveIn
<1>2. PICK r \in Result : r = Parents(d, t)
      BY <1>1, WriteToIn, EmptySeq
<1>3. RenameIn(r, s, t) \in Result
      BY FsRenameIn DEF RenameIn, Result
<1>4. RenameTo(d, s, t) \in Result
      BY <1>2, <1>3, DoneIn DEF RenameTo
<1>. QED BY <1>1, <1>4 DEF Rename

-----------------------------------------------------------------------------
(* What the commands do to a tree.                                         *)

LEMMA EachIn ==
    ASSUME NEW f, NEW d \in Tree, NEW S \in Seq(Path),
           \A x \in Tree, i \in 1 .. Len(S) : f[<<x, S[i]>>] \in Result
    PROVE  Loop(f, d, S) \in Result
<1>1. PICK n \in Nat : n = Len(S)
      OBVIOUS
<1>. QED BY <1>1, LoopIn

LEMMA ListFacts ==
    ASSUME NEW S \in Lists
    PROVE  /\ S \in Seq(Path)
           /\ \A i \in 1 .. Len(S) : /\ S[i] \in Path /\ S[i] \in Name /\ S[i] \in Seq(Nat)
                                     /\ Last(S[i]) \in Nat
<1>1. S \in Seq(Path)
      BY FilesAssumption
<1>2. \A i \in 1 .. Len(S) : S[i] \in Path
      BY <1>1
<1>. QED BY <1>1, <1>2, PathFacts, SeqFacts

LEMMA SweptIn ==
    ASSUME NEW d \in Tree
    PROVE  Swept(d) \in Tree
<1>. DEFINE e == Swept(d)
<1>1. e.node = d.node /\ e.data \in [Ino -> Seq(Chunk)] /\ e \in Disk
      <2>1. <<>> \in Seq(Chunk)
            OBVIOUS
      <2>. QED BY <2>1, TreeIn DEF Swept, Disk
<1>. HIDE DEF e
<1>2. \A x : At(e, x) = At(d, x)
      BY <1>1 DEF At
<1>3. e \in Tree
      BY <1>1, <1>2, TreeIn DEF Tree, IsTree
<1>. QED BY <1>3 DEF e

LEMMA ForcedIn ==
    ASSUME NEW force \in BOOLEAN, NEW r \in Result
    PROVE  Forced(force, r) \in Result
BY DEF Forced, Result

LEMMA OldIn ==
    ASSUME NEW d \in Tree, NEW t, NEW bin \in BOOLEAN
    PROVE  Content(d, t, bin) \in Seq(Chunk) /\ Old(d, t, bin) \in Seq(Chunk)
<1>1. <<>> \in Seq(Chunk)
      OBVIOUS
<1>2. ASSUME NEW x PROVE Content(d, x, bin) \in Seq(Chunk)
      BY <1>1, FileIn DEF Content
<1>. QED BY <1>2 DEF Old

LEMMA OutIn ==
    ASSUME NEW d \in Tree, NEW p \in Path \cup {NoPath}, NEW append \in BOOLEAN,
           NEW text \in Seq(Chunk), NEW bin \in BOOLEAN
    PROVE  Out(d, p, append, text, bin) \in Result
<1>1. (IF append THEN Old(d, p, bin) ELSE <<>>) \o text \in Seq(Chunk)
      <2>1. Old(d, p, bin) \in Seq(Chunk) /\ <<>> \in Seq(Chunk)
            BY OldIn
      <2>. QED BY <2>1
<1>2. p # NoPath => p \in Seq(Nat)
      BY VfsAssumption
<1>. QED BY <1>1, <1>2, WriteIn, DoneIn DEF Out

LEMMA AppendToIn ==
    ASSUME NEW d \in Tree, NEW t, NEW text \in Seq(Chunk)
    PROVE  AppendTo(d, t, text) \in Result
<1>1. PICK c \in Seq(Chunk) : c = Content(d, t, TRUE)
      BY OldIn
<1>2. c \o text \in Seq(Chunk)
      OBVIOUS
<1>. QED BY <1>1, <1>2, OpenIn, StoredIn DEF AppendTo

LEMMA TouchAtIn ==
    ASSUME NEW d \in Tree, NEW t, NEW nocreate \in BOOLEAN
    PROVE  TouchAt(d, t, nocreate) \in Result
<1>1. <<>> \in Seq(Chunk)
      OBVIOUS
<1>. QED BY <1>1, FsWriteIn, DoneIn DEF TouchAt

LEMMA DestIn ==
    ASSUME NEW d \in Tree, NEW p \in Name, NEW q \in Path \cup {Root}
    PROVE  Dest(d, p, q) \in Seq(Nat)
<1>1. q \in Seq(Nat)
      <2>1. Root \in Seq(Nat)
            BY DEF Root
      <2>. QED BY <2>1, VfsAssumption
<1>2. Last(Resolve(d, p)) \in Nat
      BY ResolveIn, SeqFacts
<1>. QED BY <1>1, <1>2 DEF Dest

LEMMA CpOneIn ==
    ASSUME NEW d \in Tree, NEW p \in Name, NEW s, NEW t \in Seq(Nat),
           NEW recursive \in BOOLEAN, NEW keep \in BOOLEAN, NEW force \in BOOLEAN
    PROVE  CpOne(d, p, s, t, recursive, keep, force) \in Result
<1>1. Forced(force, Copy(d, p, t)) \in Result
      BY SeqFacts, CopyIsIn, ForcedIn
<1>. QED BY <1>1, DoneIn DEF CpOne

LEMMA MvOneIn ==
    ASSUME NEW d \in Tree, NEW p \in Name, NEW t \in Seq(Nat),
           NEW keep \in BOOLEAN, NEW force \in BOOLEAN
    PROVE  MvOne(d, p, t, keep, force) \in Result
<1>1. Forced(force, Rename(d, p, t)) \in Result
      BY SeqFacts, RenameIsIn, ForcedIn
<1>. QED BY <1>1, DoneIn DEF MvOne

LEMMA WriteFromIn ==
    ASSUME NEW d \in Tree, NEW s, NEW t \in Seq(Nat)
    PROVE  WriteFrom(d, s, t) \in Result
BY FileIn, WriteIn, DoneIn DEF WriteFrom

LEMMA RmOneIn ==
    ASSUME NEW d \in Tree, NEW p \in Name,
           NEW recursive \in BOOLEAN, NEW force \in BOOLEAN, NEW dir \in BOOLEAN
    PROVE  RmOne(d, p, recursive, force, dir) \in Result
<1>1. PICK n : n = Meta(d, ResolveNF(d, p))
      OBVIOUS
<1>2. RmNode(d, p, n, recursive, dir) \in Result
      BY SeqFacts, RemoveIn, DoneIn DEF RmNode
<1>. QED BY <1>1, <1>2, ForcedIn DEF RmOne

LEMMA UpFromIn ==
    ASSUME NEW d \in Tree, NEW s \in Seq(Nat)
    PROVE  UpFrom(d, s) \in Result
<1>. DEFINE f == [x \in Disk \X Seq(Nat) |-> FsRmDir(x[1], x[2])]
            S == [k \in 1 .. Len(s) |-> Pre(s, Len(s) - k + 1)]
<1>1. UpFrom(d, s) = Done(Loop(f, d, S).disk)
      BY DEF UpFrom, Each
<1>2. PICK n \in Nat : n = Len(s)
      OBVIOUS
<1>3. \A i \in 1 .. n : S[i] = Pre(s, n - i + 1) /\ Pre(s, n - i + 1) \in Seq(Nat)
      <2>1. ASSUME NEW i \in 1 .. n PROVE Pre(s, n - i + 1) \in Seq(Nat)
            <3>1. PICK m \in Nat : m = n - i + 1 /\ m <= n
                  OBVIOUS
            <3>2. SubSeq(s, 1, m) \in Seq(Nat)
                  BY <1>2, <3>1, Part
            <3>. QED BY <3>1, <3>2 DEF Pre
      <2>. QED BY <1>2, <2>1
<1>4. Len(S) = n
      BY <1>2
<1>5. ASSUME NEW x \in Tree, NEW i \in 1 .. n PROVE f[<<x, S[i]>>] \in Result
      <2>1. f[<<x, Pre(s, n - i + 1)>>] = FsRmDir(x, Pre(s, n - i + 1))
            BY <1>3, TreeIn
      <2>. QED BY <1>3, <2>1, FsRmDirIn
<1>. HIDE DEF f, S
<1>6. Loop(f, d, S) \in Result
      BY <1>4, <1>5, LoopIn
<1>7. Loop(f, d, S).disk \in Tree
      BY <1>6 DEF Result
<1>. QED BY <1>1, <1>7, DoneIn

LEMMA RmDirAllIn ==
    ASSUME NEW d \in Tree, NEW s \in Seq(Nat), NEW r \in Result
    PROVE  RmDirAll(r, d, s) \in Result
BY UpFromIn DEF RmDirAll

LEMMA FsLinkIn ==
    ASSUME NEW d \in Tree, NEW s, NEW t
    PROVE  FsLink(d, s, t) \in Result
<1>. DEFINE a == Walk(d, s, FALSE)
            b == Walk(d, t, FALSE)
<1>1. Landed(d, b)
      BY WalkLands
<1>. HIDE DEF a, b
<1>2. At(d, a) \in Node
      BY AtIn, TreeIn
<1>3. PutAt(d, b, {"none"}, At(d, a)) \in Result
      BY <1>1, <1>2, PutAtIn
<1>4. LinkAt(d, a, b) \in Result
      BY <1>3, DoneIn DEF LinkAt
<1>. QED BY <1>4 DEF FsLink, a, b

LEMMA ClearedIn ==
    ASSUME NEW d \in Tree, NEW t, NEW n
    PROVE  Cleared(d, t, n) \in Tree
<1>1. FsRmDir(d, t).disk \in Tree /\ FsUnlink(d, t).disk \in Tree
      BY FsRmDirIn, FsUnlinkIn DEF Result
<1>. QED BY <1>1 DEF Cleared

LEMMA MkdirOneIn ==
    ASSUME NEW d \in Tree, NEW t \in Seq(Nat), NEW parents \in BOOLEAN
    PROVE  MkdirOne(d, t, parents) \in Result
BY MkDirAllIn, MkDirIn, DoneIn DEF MkdirOne

\* A relative link says what is left of the path below the working directory.
LEMMA LnAtIn ==
    ASSUME NEW d \in Tree, NEW p \in Path, NEW s, NEW t,
           NEW symbolic \in BOOLEAN, NEW abs \in BOOLEAN,
           cwd \in Seq(Nat), symbolic /\ ~abs => Within(p, cwd) /\ p # cwd
    PROVE  LnAt(d, p, s, t, symbolic, abs) \in Result
<1>. DEFINE to == IF abs THEN p ELSE SubSeq(p, Len(cwd) + 1, Len(p))
<1>1. CASE symbolic
      <2>1. to \in Name
            <3>1. CASE abs
                  BY <3>1, PathFacts
            <3>2. CASE ~ abs
                  <4>1. PICK m \in Nat, n \in Nat : m = Len(cwd) /\ n = Len(p) /\ p \in Seq(Nat)
                        BY VfsAssumption
                  <4>2. m <= n /\ \A i \in 1 .. m : cwd[i] = p[i]
                        BY <1>1, <3>2, <4>1, WithinIs
                  <4>3. m # n
                        BY <1>1, <3>2, <4>1, <4>2, SeqEqual
                  <4>. DEFINE x == SubSeq(p, m + 1, n)
                  <4>4. x \in Seq(Nat) /\ Len(x) = IF m + 1 <= n THEN n - (m + 1) + 1 ELSE 0
                        BY <4>1, Part
                  <4>. HIDE DEF x
                  <4>5. Len(x) # 0
                        BY <4>2, <4>3, <4>4
                  <4>6. x # <<>>
                        BY <4>5
                  <4>. QED BY <3>2, <4>1, <4>4, <4>6 DEF Name, Root, x
            <3>. QED BY <3>1, <3>2
      <2>. HIDE DEF to
      <2>2. Link([abs |-> abs, path |-> to]) \in Node
            <3>1. [abs |-> abs, path |-> to] \in Target
                  BY <2>1 DEF Target
            <3>. QED BY <3>1 DEF Link, Node
      <2>3. Landed(d, Walk(d, t, FALSE))
            BY WalkLands
      <2>4. PutAt(d, Walk(d, t, FALSE), {"none"}, Link([abs |-> abs, path |-> to])) \in Result
            BY <2>2, <2>3, PutAtIn
      <2>. QED BY <1>1, <2>4 DEF LnAt, to
<1>2. CASE ~ symbolic
      <2>1. PICK r \in Result : r = FsLink(d, s, t)
            BY FsLinkIn
      <2>2. OrCopy(r, d, s, t) \in Result
            BY FsCopyIn DEF OrCopy
      <2>. QED BY <1>2, <2>1, <2>2 DEF LnAt
<1>. QED BY <1>1, <1>2

LEMMA LnOneIn ==
    ASSUME NEW d \in Tree, NEW p \in Path, NEW s, NEW t,
           NEW symbolic \in BOOLEAN, NEW abs \in BOOLEAN, NEW force \in BOOLEAN,
           cwd \in Seq(Nat), symbolic /\ ~abs => Within(p, cwd) /\ p # cwd
    PROVE  LnOne(d, p, s, t, symbolic, abs, force) \in Result
<1>1. PICK x \in Tree : x = IF force THEN Cleared(d, t, Meta(d, t)) ELSE d
      BY ClearedIn
<1>2. LnAt(x, p, s, t, symbolic, abs) \in Result
      BY LnAtIn
<1>. QED BY <1>1, <1>2 DEF LnOne

-----------------------------------------------------------------------------
(* The invariant.                                                          *)

\* TypeOK of a disk and of the places.
PlaceOK == /\ cwd \in Path \cup {Root} /\ stack \in Seq(Path \cup {Root})
           /\ prev \in Path \cup {Root, NoPath}

LEMMA TypeIs ==
    TypeOK <=> disk \in Tree /\ InBounds(disk) /\ PlaceOK
BY DEF TypeOK, Tree, PlaceOK

LEMMA AnswerIn ==
    ASSUME NEW op, NEW from, NEW to, NEW text, NEW r \in Result,
           Answer(op, from, to, text, r)
    PROVE  disk' \in Tree /\ InBounds(disk)'
<1>1. disk' = Swept(r.disk) /\ InBounds(disk')
      BY DEF Answer
<1>2. r.disk \in Tree
      BY DEF Result
<1>3. InBounds(disk)'
      BY <1>1 DEF InBounds
<1>. QED BY <1>1, <1>2, <1>3, SweptIn

\* A command that moves nobody.
LEMMA StayIn ==
    ASSUME PlaceOK, NEW op, NEW from, NEW to, NEW text, NEW r \in Result,
           Answer(op, from, to, text, r), UNCHANGED place
    PROVE  TypeOK'
<1>1. disk' \in Tree /\ InBounds(disk)'
      BY AnswerIn
<1>2. PlaceOK'
      BY DEF PlaceOK, place
<1>. QED BY <1>1, <1>2 DEF TypeOK, Tree, PlaceOK

LEMMA InitInv == Init => TypeOK
<1> SUFFICES ASSUME Init PROVE TypeOK
    OBVIOUS
<1>1. disk \in Tree /\ InBounds(disk)
      BY FilesAssumption DEF Init, Tree
<1>2. PlaceOK
      BY DEF Init, PlaceOK
<1>. QED BY <1>1, <1>2, TypeIs

-----------------------------------------------------------------------------
(* One lemma for each kind of command.                                     *)

LEMMA TextFacts ==
    ASSUME NEW t \in Texts \cup {<<>>}
    PROVE  t \in Seq(Chunk) /\ Contains(t, Binary) \in BOOLEAN
<1>1. t \in Seq(Chunk)
      <2>1. \A c \in Chunk : <<c>> \in Seq(Chunk)
            OBVIOUS
      <2>2. <<>> \in Seq(Chunk)
            OBVIOUS
      <2>. QED BY <2>1, <2>2 DEF Texts
<1>2. Contains(t, Binary) \in BOOLEAN
      BY DEF Contains
<1>. QED BY <1>1, <1>2

LEMMA RedirectInv ==
    ASSUME TypeOK, NEW p \in Path, NEW q \in Path \cup {NoPath}, NEW append \in BOOLEAN,
           NEW o \in Texts, NEW e \in {<<>>} \cup (Texts \ {<<Binary>>}),
           Redirect(p, q, append, o, e)
    PROVE  TypeOK'
<1>. DEFINE bin == Contains(o, Binary)
<1>1. o \in Seq(Chunk) /\ e \in Seq(Chunk) /\ bin \in BOOLEAN /\ o \o e \in Seq(Chunk)
      BY TextFacts
<1>. HIDE DEF bin
<1>2. disk \in Tree /\ PlaceOK
      BY TypeIs
<1>3. PICK r \in Result : r = Out(disk, p, append, o, bin)
      BY <1>1, <1>2, OutIn
<1>4. Out(disk, p, append, o \o e, bin) \in Result
      BY <1>1, <1>2, OutIn
<1>5. Second(r, q, append, e) \in Result
      <2>1. PICK x \in Result : x = Out(r.disk, q, append, e, FALSE)
            <3>1. r.disk \in Tree
                  BY DEF Result
            <3>. QED BY <1>1, <3>1, OutIn
      <2>2. [x EXCEPT !.ok = x.ok /\ r.ok] \in Result
            BY DEF Result
      <2>. QED BY <2>1, <2>2 DEF Second
<1>6. \E x \in Result :
         Answer(IF append THEN ">>" ELSE ">", <<>>, <<p, q>>, <<o, e>>, x) /\ UNCHANGED place
      BY <1>3, <1>4, <1>5 DEF Redirect, bin
<1>. QED BY <1>2, <1>6, StayIn

LEMMA TeeInv ==
    ASSUME TypeOK, NEW S \in Lists, NEW append \in BOOLEAN, NEW text \in Texts,
           Tee(S, append, text)
    PROVE  TypeOK'
<1>. DEFINE one(d, p) ==
                IF append THEN AppendTo(d, Resolve(d, p), text) ELSE Write(d, p, text)
            f == [x \in Disk \X Seq(Nat) |-> one(x[1], x[2])]
<1>1. disk \in Tree /\ PlaceOK /\ text \in Seq(Chunk)
      BY TypeIs, TextFacts
<1>2. ASSUME NEW x \in Tree, NEW i \in 1 .. Len(S) PROVE f[<<x, S[i]>>] \in Result
      <2>1. S[i] \in Seq(Nat)
            BY ListFacts
      <2>2. one(x, S[i]) \in Result
            BY <1>1, <2>1, WriteIn, AppendToIn
      <2>. QED BY <2>1, <2>2, TreeIn
<1>3. Answer("tee", <<>>, S, <<text>>, Loop(f, disk, S)) /\ UNCHANGED place
      BY DEF Tee, Each
<1>. HIDE DEF f
<1>4. Loop(f, disk, S) \in Result
      BY <1>1, <1>2, ListFacts, EachIn
<1>. QED BY <1>1, <1>3, <1>4, StayIn

LEMMA TouchInv ==
    ASSUME TypeOK, NEW S \in Lists, NEW nocreate \in BOOLEAN,
           Touch(S, nocreate)
    PROVE  TypeOK'
<1>. DEFINE one(d, p) == TouchAt(d, Resolve(d, p), nocreate)
            f == [x \in Disk \X Seq(Nat) |-> one(x[1], x[2])]
<1>1. disk \in Tree /\ PlaceOK
      BY TypeIs
<1>2. ASSUME NEW x \in Tree, NEW i \in 1 .. Len(S) PROVE f[<<x, S[i]>>] \in Result
      <2>1. S[i] \in Seq(Nat) /\ S[i] \in Name /\ S[i] \in Path /\ Last(S[i]) \in Nat
            BY ListFacts
      <2>2. one(x, S[i]) \in Result
            BY TouchAtIn
      <2>. QED BY <2>1, <2>2, TreeIn
<1>3. Answer("touch", <<>>, S, <<>>, Loop(f, disk, S))
      /\ UNCHANGED place
      BY DEF Touch, Each
<1>. HIDE DEF f
<1>4. Loop(f, disk, S) \in Result
      BY <1>1, <1>2, ListFacts, EachIn
<1>. QED BY <1>1, <1>3, <1>4, StayIn

LEMMA TruncateInv ==
    ASSUME TypeOK, NEW S \in Lists,
           Truncate(S)
    PROVE  TypeOK'
<1>. DEFINE one(d, p) == Open(d, Resolve(d, p), FALSE, TRUE)
            f == [x \in Disk \X Seq(Nat) |-> one(x[1], x[2])]
<1>1. disk \in Tree /\ PlaceOK
      BY TypeIs
<1>2. ASSUME NEW x \in Tree, NEW i \in 1 .. Len(S) PROVE f[<<x, S[i]>>] \in Result
      <2>1. S[i] \in Seq(Nat) /\ S[i] \in Name /\ S[i] \in Path /\ Last(S[i]) \in Nat
            BY ListFacts
      <2>2. one(x, S[i]) \in Result
            BY OpenIn
      <2>. QED BY <2>1, <2>2, TreeIn
<1>3. Answer("truncate", <<>>, S, <<>>, Loop(f, disk, S))
      /\ UNCHANGED place
      BY DEF Truncate, Each
<1>. HIDE DEF f
<1>4. Loop(f, disk, S) \in Result
      BY <1>1, <1>2, ListFacts, EachIn
<1>. QED BY <1>1, <1>3, <1>4, StayIn

LEMMA CpInv ==
    ASSUME TypeOK, NEW S \in Lists, NEW q \in Path \cup {Root},
           NEW recursive \in BOOLEAN, NEW keep \in BOOLEAN, NEW force \in BOOLEAN,
           Cp(S, q, recursive, keep, force)
    PROVE  TypeOK'
<1>. DEFINE one(d, p) == CpOne(d, p, Resolve(d, p), Dest(d, p, q), recursive, keep, force)
            f == [x \in Disk \X Seq(Nat) |-> one(x[1], x[2])]
<1>1. disk \in Tree /\ PlaceOK
      BY TypeIs
<1>2. ASSUME NEW x \in Tree, NEW i \in 1 .. Len(S) PROVE f[<<x, S[i]>>] \in Result
      <2>1. S[i] \in Seq(Nat) /\ S[i] \in Name /\ S[i] \in Path /\ Last(S[i]) \in Nat
            BY ListFacts
      <2>2. one(x, S[i]) \in Result
            BY <2>1, DestIn, CpOneIn
      <2>. QED BY <2>1, <2>2, TreeIn
<1>3. Answer(IF force THEN "cp -f" ELSE IF keep THEN "cp -n" ELSE "cp", S, <<q>>, <<>>,
             Loop(f, disk, S))
      /\ UNCHANGED place
      BY DEF Cp, Each
<1>. HIDE DEF f
<1>4. Loop(f, disk, S) \in Result
      BY <1>1, <1>2, ListFacts, EachIn
<1>. QED BY <1>1, <1>3, <1>4, StayIn

LEMMA MvInv ==
    ASSUME TypeOK, NEW S \in Lists, NEW q \in Path \cup {Root},
           NEW keep \in BOOLEAN, NEW force \in BOOLEAN,
           Mv(S, q, keep, force)
    PROVE  TypeOK'
<1>. DEFINE one(d, p) == MvOne(d, p, Dest(d, p, q), keep, force)
            f == [x \in Disk \X Seq(Nat) |-> one(x[1], x[2])]
<1>1. disk \in Tree /\ PlaceOK
      BY TypeIs
<1>2. ASSUME NEW x \in Tree, NEW i \in 1 .. Len(S) PROVE f[<<x, S[i]>>] \in Result
      <2>1. S[i] \in Seq(Nat) /\ S[i] \in Name /\ S[i] \in Path /\ Last(S[i]) \in Nat
            BY ListFacts
      <2>2. one(x, S[i]) \in Result
            BY <2>1, DestIn, MvOneIn
      <2>. QED BY <2>1, <2>2, TreeIn
<1>3. Answer(IF force THEN "mv -f" ELSE IF keep THEN "mv -n" ELSE "mv", S, <<q>>, <<>>,
             Loop(f, disk, S))
      /\ UNCHANGED place
      BY DEF Mv, Each
<1>. HIDE DEF f
<1>4. Loop(f, disk, S) \in Result
      BY <1>1, <1>2, ListFacts, EachIn
<1>. QED BY <1>1, <1>3, <1>4, StayIn

LEMMA InstallInv ==
    ASSUME TypeOK, NEW S \in Lists, NEW q \in Path, NEW dir \in BOOLEAN,
           Install(S, q, dir)
    PROVE  TypeOK'
<1>. DEFINE one(d, p) == WriteFrom(d, Resolve(d, p), IF dir THEN Append(q, Last(p)) ELSE q)
            f == [x \in Disk \X Seq(Nat) |-> one(x[1], x[2])]
<1>1. disk \in Tree /\ PlaceOK
      BY TypeIs
<1>2. ASSUME NEW x \in Tree, NEW i \in 1 .. Len(S) PROVE f[<<x, S[i]>>] \in Result
      <2>1. S[i] \in Seq(Nat) /\ S[i] \in Name /\ S[i] \in Path /\ Last(S[i]) \in Nat
            BY ListFacts
      <2>3. (IF dir THEN Append(q, Last(S[i])) ELSE q) \in Seq(Nat)
            BY <2>1, VfsAssumption
      <2>2. one(x, S[i]) \in Result
            BY <2>3, WriteFromIn
      <2>. QED BY <2>1, <2>2, TreeIn
<1>3. Answer("install", S, <<q>>, <<>>, Loop(f, disk, S))
      /\ UNCHANGED place
      BY DEF Install, Each
<1>. HIDE DEF f
<1>4. Loop(f, disk, S) \in Result
      BY <1>1, <1>2, ListFacts, EachIn
<1>. QED BY <1>1, <1>3, <1>4, StayIn

LEMMA RmInv ==
    ASSUME TypeOK, NEW S \in Lists, NEW recursive \in BOOLEAN, NEW force \in BOOLEAN, NEW dir \in BOOLEAN,
           Rm(S, recursive, force, dir)
    PROVE  TypeOK'
<1>. DEFINE one(d, p) == RmOne(d, p, recursive, force, dir)
            f == [x \in Disk \X Seq(Nat) |-> one(x[1], x[2])]
<1>1. disk \in Tree /\ PlaceOK
      BY TypeIs
<1>2. ASSUME NEW x \in Tree, NEW i \in 1 .. Len(S) PROVE f[<<x, S[i]>>] \in Result
      <2>1. S[i] \in Seq(Nat) /\ S[i] \in Name /\ S[i] \in Path /\ Last(S[i]) \in Nat
            BY ListFacts
      <2>2. one(x, S[i]) \in Result
            BY <2>1, RmOneIn
      <2>. QED BY <2>1, <2>2, TreeIn
<1>3. Answer(IF force THEN "rm -f" ELSE "rm", S, <<>>, <<>>, Loop(f, disk, S))
      /\ UNCHANGED place
      BY DEF Rm, Each
<1>. HIDE DEF f
<1>4. Loop(f, disk, S) \in Result
      BY <1>1, <1>2, ListFacts, EachIn
<1>. QED BY <1>1, <1>3, <1>4, StayIn

LEMMA MkdirInv ==
    ASSUME TypeOK, NEW S \in Lists, NEW parents \in BOOLEAN,
           Mkdir(S, parents)
    PROVE  TypeOK'
<1>. DEFINE one(d, p) == MkdirOne(d, Resolve(d, p), parents)
            f == [x \in Disk \X Seq(Nat) |-> one(x[1], x[2])]
<1>1. disk \in Tree /\ PlaceOK
      BY TypeIs
<1>2. ASSUME NEW x \in Tree, NEW i \in 1 .. Len(S) PROVE f[<<x, S[i]>>] \in Result
      <2>1. S[i] \in Seq(Nat) /\ S[i] \in Name /\ S[i] \in Path /\ Last(S[i]) \in Nat
            BY ListFacts
      <2>2. one(x, S[i]) \in Result
            BY <2>1, ResolveIn, MkdirOneIn
      <2>. QED BY <2>1, <2>2, TreeIn
<1>3. Answer("mkdir", <<>>, S, <<>>, Loop(f, disk, S))
      /\ UNCHANGED place
      BY DEF Mkdir, Each
<1>. HIDE DEF f
<1>4. Loop(f, disk, S) \in Result
      BY <1>1, <1>2, ListFacts, EachIn
<1>. QED BY <1>1, <1>3, <1>4, StayIn

LEMMA LnInv ==
    ASSUME TypeOK, NEW S \in Lists, NEW q \in Path, NEW symbolic \in BOOLEAN,
           NEW abs \in BOOLEAN, NEW force \in BOOLEAN, Ln(S, q, symbolic, abs, force)
    PROVE  TypeOK'
<1>. DEFINE to(p) == IF VIsDir(disk, q) THEN Append(Resolve(disk, q), Last(p)) ELSE ResolveNF(disk, q)
            one(d, p) == LnOne(d, p, Resolve(d, p), to(Resolve(d, p)), symbolic, abs, force)
            f == [x \in Disk \X Seq(Nat) |-> one(x[1], x[2])]
<1>1. disk \in Tree /\ PlaceOK
      BY TypeIs
<1>2. cwd \in Seq(Nat)
      <2>1. Root \in Seq(Nat)
            BY DEF Root
      <2>. QED BY <1>1, <2>1, VfsAssumption DEF PlaceOK
<1>3. symbolic /\ ~abs => \A i \in 1 .. Len(S) : Within(S[i], cwd) /\ S[i] # cwd
      BY DEF Ln
<1>. HIDE DEF to
<1>4. ASSUME NEW x \in Tree, NEW i \in 1 .. Len(S) PROVE f[<<x, S[i]>>] \in Result
      <2>1. S[i] \in Seq(Nat) /\ S[i] \in Path
            BY ListFacts
      <2>2. one(x, S[i]) \in Result
            BY <1>2, <1>3, <2>1, LnOneIn
      <2>. QED BY <2>1, <2>2, TreeIn
<1>5. Answer(IF symbolic THEN "ln -s" ELSE "ln", S, <<q>>, <<>>, Loop(f, disk, S))
      /\ UNCHANGED place
      BY DEF Ln, Each, to
<1>. HIDE DEF f
<1>6. Loop(f, disk, S) \in Result
      BY <1>1, <1>4, ListFacts, EachIn
<1>. QED BY <1>1, <1>5, <1>6, StayIn

LEMMA OneInv ==
    ASSUME TypeOK, NEW p \in Path, NEW q \in Path, NEW parents \in BOOLEAN,
           Unlink(p) \/ RmDir(p, parents) \/ LinkTo(p, q)
    PROVE  TypeOK'
<1>1. disk \in Tree /\ PlaceOK
      BY TypeIs
<1>2. p \in Seq(Nat) /\ q \in Seq(Nat)
      BY VfsAssumption
<1>3. PICK s \in Seq(Nat) : s = Resolve(disk, p)
      BY <1>1, <1>2, ResolveIn
<1>4. CASE Unlink(p)
      <2>1. RemoveFile(disk, p) \in Result
            BY <1>1, <1>2, RemoveIn
      <2>. QED BY <1>1, <1>4, <2>1, StayIn DEF Unlink
<1>5. CASE RmDir(p, parents)
      <2>1. PICK r \in Result : r = FsRmDir(disk, s)
            BY <1>1, FsRmDirIn
      <2>2. RmDirAll(r, disk, s) \in Result
            BY <1>1, RmDirAllIn
      <2>3. \E x \in Result : Answer("rmdir", <<p>>, <<>>, <<>>, x) /\ UNCHANGED place
            BY <1>3, <1>5, <2>1, <2>2 DEF RmDir
      <2>. QED BY <1>1, <2>3, StayIn
<1>6. CASE LinkTo(p, q)
      <2>1. PICK r \in Result : r = FsLink(disk, s, Resolve(disk, q))
            BY <1>1, FsLinkIn
      <2>2. OrWrite(r, disk, s, q) \in Result
            BY <1>1, <1>2, WriteFromIn DEF OrWrite
      <2>3. \E x \in Result : Answer("ln", <<p>>, <<q>>, <<>>, x) /\ UNCHANGED place
            BY <1>3, <1>6, <2>1, <2>2 DEF LinkTo
      <2>. QED BY <1>1, <2>3, StayIn
<1>. QED BY <1>4, <1>5, <1>6

-----------------------------------------------------------------------------
(* Going from one directory to another.                                    *)

LEMMA MovedIn ==
    ASSUME TypeOK, NEW p \in Path \cup {Root}, Moved(p)
    PROVE  cwd' \in Path \cup {Root} /\ prev' \in Path \cup {Root, NoPath}
<1>1. disk \in Tree /\ PlaceOK
      BY TypeIs
<1>2. IsDir(disk, Resolve(disk, p)) => Resolve(disk, p) \in Path \cup {Root}
      BY <1>1, EnterIn
<1>. QED BY <1>1, <1>2 DEF Moved, Enter, PlaceOK

LEMMA ToldIn ==
    ASSUME TypeOK, NEW op, NEW p, Told(op, p)
    PROVE  disk' \in Tree /\ InBounds(disk)'
<1>1. disk \in Tree
      BY TypeIs
<1>2. Done(disk) \in Result /\ Fail(disk) \in Result
      BY <1>1, DoneIn
<1>3. \E r \in Result : Answer(op, <<>>, <<p>>, <<>>, r)
      BY <1>2 DEF Told
<1>. QED BY <1>3, AnswerIn

LEMMA GoInv ==
    ASSUME TypeOK, NEW p \in Path \cup {Root}, Moved(p), Told("cd", p),
           stack' \in Seq(Path \cup {Root})
    PROVE  TypeOK'
<1>1. disk' \in Tree /\ InBounds(disk)'
      BY ToldIn
<1>2. PlaceOK'
      BY MovedIn DEF PlaceOK
<1>. QED BY <1>1, <1>2 DEF TypeOK, Tree, PlaceOK

LEMMA CdInv ==
    ASSUME TypeOK, NEW p \in Path \cup {Root}, Cd(p)
    PROVE  TypeOK'
<1>1. stack' \in Seq(Path \cup {Root})
      BY DEF Cd, TypeOK
<1>. QED BY <1>1, GoInv DEF Cd

LEMMA PushDirInv ==
    ASSUME TypeOK, NEW p \in Path \cup {Root}, PushDir(p)
    PROVE  TypeOK'
<1>1. stack \in Seq(Path \cup {Root}) /\ cwd \in Path \cup {Root}
      BY DEF TypeOK
<1>2. stack' \in Seq(Path \cup {Root})
      BY <1>1 DEF PushDir
<1>. QED BY <1>2, GoInv DEF PushDir

\* The top of the stack, and what is under it.
LEMMA StackFacts ==
    ASSUME NEW P, NEW s \in Seq(P), s # <<>>
    PROVE  Last(s) \in P /\ Front(s) \in Seq(P)
<1>1. PICK m \in Nat : m = Len(s) - 1
      OBVIOUS
<1>2. Len(s) \in 1 .. Len(s)
      BY <1>1
<1>3. \A i \in 1 .. m : s[i] \in P
      BY <1>1
<1>4. SubSeq(s, 1, m) \in Seq(P)
      BY <1>3, SubSeqProperties
<1>. QED BY <1>1, <1>2, <1>4 DEF Last, Front

LEMMA BackInv ==
    ASSUME TypeOK, CdBack \/ PushSwap \/ PopDir
    PROVE  TypeOK'
<1>. DEFINE P == Path \cup {Root}
<1>1. stack \in Seq(P) /\ cwd \in P /\ prev \in P \cup {NoPath}
      BY DEF TypeOK
<1>2. stack # <<>> => Last(stack) \in P /\ Front(stack) \in Seq(P)
      BY <1>1, StackFacts
<1>3. CASE CdBack
      BY <1>1, <1>3, CdInv DEF CdBack
<1>4. CASE PushSwap
      <2>1. stack' \in Seq(P)
            BY <1>1, <1>2, <1>4 DEF PushSwap
      <2>. QED BY <1>2, <1>4, <2>1, GoInv DEF PushSwap
<1>5. CASE PopDir
      <2>1. stack' \in Seq(P)
            BY <1>2, <1>5 DEF PopDir
      <2>. QED BY <1>2, <1>5, <2>1, GoInv DEF PopDir
<1>. QED BY <1>3, <1>4, <1>5

-----------------------------------------------------------------------------

LEMMA NextInv == TypeOK /\ [Next]_vars => TypeOK'
<1> SUFFICES ASSUME TypeOK, [Next]_vars PROVE TypeOK'
    OBVIOUS
<1>1. CASE UNCHANGED vars
      BY <1>1 DEF vars, TypeOK, InBounds, IsTree, At
<1>2. ASSUME NEW p \in Path, NEW q \in Path \cup {NoPath}, NEW append \in BOOLEAN, NEW o \in Texts,
             NEW e \in {<<>>} \cup (Texts \ {<<Binary>>}), Redirect(p, q, append, o, e)
      PROVE  TypeOK'
      BY <1>2, RedirectInv
<1>3. ASSUME NEW S \in Lists, NEW append \in BOOLEAN, NEW t \in Texts \ {<<Binary>>},
             Tee(S, append, t)
      PROVE  TypeOK'
      BY <1>3, TeeInv
<1>4. ASSUME NEW S \in Lists, NEW b \in BOOLEAN, Touch(S, b) \/ Truncate(S) \/ Mkdir(S, b)
      PROVE  TypeOK'
      BY <1>4, TouchInv, TruncateInv, MkdirInv
<1>5. ASSUME NEW S \in Lists, NEW q \in Path \cup {Root}, NEW r \in BOOLEAN, NEW keep \in BOOLEAN,
             NEW force \in BOOLEAN, Cp(S, q, r, keep, force) \/ Mv(S, q, keep, force)
      PROVE  TypeOK'
      BY <1>5, CpInv, MvInv
<1>6. ASSUME NEW S \in Lists, NEW q \in Path, NEW dir \in BOOLEAN, Install(S, q, dir)
      PROVE  TypeOK'
      BY <1>6, InstallInv
<1>7. ASSUME NEW S \in Lists, NEW r \in BOOLEAN, NEW force \in BOOLEAN, NEW dir \in BOOLEAN,
             Rm(S, r, force, dir)
      PROVE  TypeOK'
      BY <1>7, RmInv
<1>8. ASSUME NEW p \in Path, NEW q \in Path, NEW parents \in BOOLEAN,
             Unlink(p) \/ RmDir(p, parents) \/ LinkTo(p, q)
      PROVE  TypeOK'
      BY <1>8, OneInv
<1>9. ASSUME NEW S \in Lists, NEW q \in Path, NEW symbolic \in BOOLEAN, NEW abs \in BOOLEAN,
             NEW force \in BOOLEAN, Ln(S, q, symbolic, abs, force)
      PROVE  TypeOK'
      BY <1>9, LnInv
<1>10. ASSUME NEW p \in Path \cup {Root}, Cd(p) \/ PushDir(p)
       PROVE  TypeOK'
       BY <1>10, CdInv, PushDirInv
<1>11. CASE CdBack \/ PushSwap \/ PopDir
       BY <1>11, BackInv
<1>12. CASE Next
       BY <1>2, <1>3, <1>4, <1>5, <1>6, <1>7, <1>8, <1>9, <1>10, <1>11, <1>12 DEF Next
<1>. QED BY <1>1, <1>12

\* The disk stays a tree: every node has its directory, whatever commands ran and
\* wherever links led them; the working directory, the previous one and those on
\* the stack are paths that may exist (cd.rs:27, shell_builtins_ext.rs:30).
THEOREM TypesHold == Spec => []TypeOK
<1>. QED BY InitInv, NextInv, PTL DEF Spec

-----------------------------------------------------------------------------
(* Two paths followed side by side.                                        *)

LEMMA PreIs ==
    ASSUME NEW q \in Seq(Nat)
    PROVE  /\ Pre(q, Len(q)) = q
           /\ \A i \in 0 .. Len(q) : Pre(q, i) \in Seq(Nat) /\ Len(Pre(q, i)) = i
           /\ \A i \in 0 .. Len(q), j \in 1 .. Len(q) : j <= i => Pre(q, i)[j] = q[j]
<1>1. PICK m \in Nat : m = Len(q)
      OBVIOUS
<1>2. ASSUME NEW i \in 0 .. m
      PROVE  /\ Pre(q, i) \in Seq(Nat) /\ Len(Pre(q, i)) = i
             /\ \A j \in 1 .. i : Pre(q, i)[j] = q[j]
      <2>. DEFINE a == SubSeq(q, 1, i)
      <2>1. /\ a \in Seq(Nat) /\ Len(a) = (IF 1 <= i THEN i - 1 + 1 ELSE 0)
            /\ \A j \in 1 .. i - 1 + 1 : a[j] = q[1 + j - 1]
            BY <1>1, Part
      <2>. HIDE DEF a
      <2>2. Len(a) = i
            BY <2>1
      <2>3. \A j \in 1 .. i : a[j] = q[j]
            BY <2>1
      <2>. QED BY <2>1, <2>2, <2>3 DEF Pre, a
<1>3. Pre(q, m) = q
      BY <1>1, <1>2, SeqEqual
<1>4. \A i \in 0 .. m, j \in 1 .. m : j <= i => Pre(q, i)[j] = q[j]
      BY <1>2
<1>. QED BY <1>1, <1>2, <1>3, <1>4

LEMMA AppendIs ==
    ASSUME NEW q \in Seq(Nat), NEW n \in Nat
    PROVE  /\ Append(q, n) \in Seq(Nat) /\ Len(Append(q, n)) = Len(q) + 1
           /\ \A i \in 0 .. Len(q) : Pre(Append(q, n), i) = Pre(q, i)
           /\ Pre(Append(q, n), Len(q) + 1) = Append(q, n)
<1>. DEFINE a == Append(q, n)
<1>1. PICK m \in Nat : m = Len(q)
      OBVIOUS
<1>2. a \in Seq(Nat) /\ Len(a) = m + 1 /\ \A i \in 1 .. m : a[i] = q[i]
      BY <1>1
<1>. HIDE DEF a
<1>3. ASSUME NEW i \in 0 .. m PROVE Pre(a, i) = Pre(q, i)
      <2>1. i \in 0 .. m + 1
            OBVIOUS
      <2>2. /\ Pre(a, i) \in Seq(Nat) /\ Len(Pre(a, i)) = i
            /\ Pre(q, i) \in Seq(Nat) /\ Len(Pre(q, i)) = i
            BY <1>1, <1>2, <2>1, PreIs
      <2>3. ASSUME NEW j \in 1 .. i PROVE Pre(a, i)[j] = Pre(q, i)[j]
            <3>1. j \in 1 .. m /\ j \in 1 .. m + 1 /\ j <= i
                  OBVIOUS
            <3>2. Pre(a, i)[j] = a[j]
                  BY <1>2, <2>1, <3>1, PreIs
            <3>3. Pre(q, i)[j] = q[j]
                  BY <1>1, <3>1, PreIs
            <3>. QED BY <1>2, <3>1, <3>2, <3>3
      <2>. QED BY <2>2, <2>3, SeqEqual
<1>4. Pre(a, m + 1) = a
      BY <1>2, PreIs
<1>. QED BY <1>1, <1>2, <1>3, <1>4 DEF a

\* The first link of a path.
LEMMA FirstLink ==
    ASSUME NEW d, NEW q \in Seq(Nat), NEW last \in BOOLEAN, Links(d, q, last) # {}
    PROVE  \E i \in Links(d, q, last) :
              /\ \A j \in Links(d, q, last) : i <= j
              /\ i = CHOOSE k \in Links(d, q, last) : \A j \in Links(d, q, last) : k <= j
              /\ Followed(d, q, last) = IF q = NoPath THEN q ELSE Through(q, i, At(d, Pre(q, i)).to)
              /\ i \in 1 .. Len(q)
<1>. DEFINE L == Links(d, q, last)
            i == CHOOSE k \in L : \A j \in L : k <= j
<1>1. L \subseteq 1 .. Len(q) /\ L \subseteq Nat
      BY DEF Links
<1>2. \E m \in L : \A j \in L : m <= j
      <2>. HIDE DEF L
      <2>1. L # {}
            BY DEF L
      <2>2. PICK m \in L : \A k \in L : <<k, m>> \notin OpToRel(<, Nat)
            BY <1>1, <2>1, NatLessThanWellFounded, WFMin
      <2>3. ASSUME NEW j \in L PROVE m <= j
            <3>1. j \in Nat /\ m \in Nat
                  BY <1>1
            <3>2. ~ (j < m)
                  BY <2>2, <3>1 DEF OpToRel
            <3>. QED BY <3>1, <3>2
      <2>. QED BY <2>3
<1>3. i \in L /\ \A j \in L : i <= j
      <2>. HIDE DEF L
      <2>. QED BY <1>2
<1>4. Followed(d, q, last) = IF q = NoPath THEN q ELSE Through(q, i, At(d, Pre(q, i)).to)
      BY DEF Followed
<1>. HIDE DEF L, i
<1>. QED BY <1>1, <1>3, <1>4 DEF L, i

-----------------------------------------------------------------------------
(* A path and what is in it.                                               *)

\* The links on the way to a name are those of its directory's path.
LEMMA AppendLinks ==
    ASSUME NEW d, NEW q \in Seq(Nat), NEW n \in Nat
    PROVE  /\ Links(d, Append(q, n), FALSE) = Links(d, q, TRUE)
           /\ \A i \in Links(d, q, TRUE) : i \in Links(d, Append(q, n), TRUE)
           /\ \A i \in Links(d, Append(q, n), TRUE) :
                i \in Links(d, q, TRUE) \/ (i = Len(q) + 1 /\ At(d, Append(q, n)).kind = "link")
<1>. DEFINE a == Append(q, n)
<1>1. PICK m \in Nat : m = Len(q)
      OBVIOUS
<1>2. Len(a) = m + 1 /\ Pre(a, m + 1) = a /\ \A i \in 1 .. m : Pre(a, i) = Pre(q, i)
      <2>1. \A i \in 1 .. m : i \in 0 .. m
            OBVIOUS
      <2>. QED BY <1>1, <2>1, AppendIs
<1>. HIDE DEF a
<1>3. /\ Links(d, a, FALSE) = {i \in 1 .. m + 1 - 1 : At(d, Pre(a, i)).kind = "link"}
      /\ Links(d, a, TRUE) = {i \in 1 .. m + 1 : At(d, Pre(a, i)).kind = "link"}
      /\ Links(d, q, TRUE) = {i \in 1 .. m : At(d, Pre(q, i)).kind = "link"}
      BY <1>1, <1>2 DEF Links
<1>4. m + 1 - 1 = m
      OBVIOUS
<1>5. Links(d, a, FALSE) = Links(d, q, TRUE)
      BY <1>2, <1>3, <1>4
<1>6. \A i \in Links(d, q, TRUE) : i \in Links(d, a, TRUE)
      <2>1. ASSUME NEW i \in Links(d, q, TRUE) PROVE i \in Links(d, a, TRUE)
            <3>1. i \in 1 .. m /\ At(d, Pre(q, i)).kind = "link"
                  BY <1>3
            <3>2. i \in 1 .. m + 1 /\ Pre(a, i) = Pre(q, i)
                  BY <1>2, <3>1
            <3>. QED BY <1>3, <3>1, <3>2
      <2>. QED BY <2>1
<1>7. ASSUME NEW i \in Links(d, a, TRUE)
      PROVE  i \in Links(d, q, TRUE) \/ (i = m + 1 /\ At(d, a).kind = "link")
      <2>1. i \in 1 .. m + 1 /\ At(d, Pre(a, i)).kind = "link"
            BY <1>3
      <2>2. CASE i = m + 1
            BY <1>2, <2>1, <2>2
      <2>3. CASE i # m + 1
            <3>1. i \in 1 .. m /\ Pre(a, i) = Pre(q, i)
                  BY <1>2, <2>1, <2>3
            <3>2. At(d, Pre(q, i)).kind = "link"
                  BY <2>1, <3>1
            <3>. QED BY <1>3, <3>1, <3>2
      <2>. QED BY <2>2, <2>3
<1>. QED BY <1>1, <1>5, <1>6, <1>7 DEF a

Number == Nat
LEMMA NumbersConcat ==
    ASSUME NEW x \in Seq(Number), NEW y \in Seq(Number), NEW z \in Seq(Number)
    PROVE  (x \o y) \o z = x \o (y \o z)
BY ConcatAssociative

LEMMA NamesConcat ==
    ASSUME NEW x \in Seq(Nat), NEW y \in Seq(Nat), NEW z \in Seq(Nat)
    PROVE  (x \o y) \o z = x \o (y \o z)
<1>1. x \in Seq(Number) /\ y \in Seq(Number) /\ z \in Seq(Number)
      BY Zenon DEF Number
<1>. QED BY <1>1, NumbersConcat

LEMMA AppendNames ==
    ASSUME NEW v \in Seq(Nat), NEW n \in Nat
    PROVE  /\ Append(v, n) \in Seq(Nat) /\ Len(Append(v, n)) = Len(v) + 1
           /\ Append(v, n)[Len(v) + 1] = n
           /\ \A j \in 1 .. Len(v) : Append(v, n)[j] = v[j]
OBVIOUS

LEMMA RestOf ==
    ASSUME NEW q \in Seq(Nat), NEW m \in Nat, Len(q) = m, NEW i \in 1 .. m
    PROVE  /\ SubSeq(q, i + 1, Len(q)) \in Seq(Nat)
           /\ Len(SubSeq(q, i + 1, Len(q))) = m - i
           /\ \A j \in 1 .. m - i : SubSeq(q, i + 1, Len(q))[j] = q[i + j]
<1>. DEFINE v == SubSeq(q, i + 1, m)
<1>1. /\ v \in Seq(Nat) /\ Len(v) = (IF i + 1 <= m THEN m - (i + 1) + 1 ELSE 0)
      /\ \A j \in 1 .. m - (i + 1) + 1 : v[j] = q[i + 1 + j - 1]
      BY Part
<1>. HIDE DEF v
<1>2. Len(v) = m - i
      BY <1>1
<1>3. ASSUME NEW j \in 1 .. m - i PROVE v[j] = q[i + j]
      <2>1. j \in 1 .. m - (i + 1) + 1 /\ i + 1 + j - 1 = i + j
            OBVIOUS
      <2>. QED BY <1>1, <2>1
<1>. QED BY <1>1, <1>2, <1>3 DEF v

LEMMA AppendThrough ==
    ASSUME NEW q \in Seq(Nat), NEW n \in Nat, NEW i \in 1 .. Len(q), NEW t \in Target
    PROVE  /\ t.abs => Through(Append(q, n), i, t) = NoPath /\ Through(q, i, t) = NoPath
           /\ ~ t.abs => /\ Through(q, i, t) \in Seq(Nat)
                         /\ Through(Append(q, n), i, t) = Append(Through(q, i, t), n)
<1>1. SUFFICES ASSUME ~ t.abs
               PROVE  /\ Through(q, i, t) \in Seq(Nat)
                      /\ Through(Append(q, n), i, t) = Append(Through(q, i, t), n)
      BY DEF Through
<1>. DEFINE a == Append(q, n)
            u == Pre(q, i - 1) \o t.path
            v == SubSeq(q, i + 1, Len(q))
            w == SubSeq(a, i + 1, Len(a))
<1>2. PICK m \in Nat : m = Len(q)
      OBVIOUS
<1>3. t.path \in Seq(Nat)
      BY DEF Target, Name
<1>4. Pre(q, i - 1) \in Seq(Nat) /\ Pre(a, i - 1) = Pre(q, i - 1)
      <2>1. i - 1 \in 0 .. m
            BY <1>2
      <2>. QED BY <1>2, <2>1, PreIs, AppendIs
<1>5. u \in Seq(Nat)
      BY <1>3, <1>4
<1>6. a \in Seq(Nat) /\ Len(a) = m + 1 /\ a[m + 1] = n /\ \A j \in 1 .. m : a[j] = q[j]
      BY <1>2
<1>7. i \in 1 .. m /\ i \in 1 .. m + 1
      BY <1>2
<1>. HIDE DEF a
<1>8. v \in Seq(Nat) /\ Len(v) = m - i /\ \A j \in 1 .. m - i : v[j] = q[i + j]
      BY <1>2, <1>7, RestOf
<1>9. PICK l \in Nat : l = m + 1
      OBVIOUS
<1>10. w \in Seq(Nat) /\ Len(w) = l - i /\ \A j \in 1 .. l - i : w[j] = a[i + j]
      <2>1. a \in Seq(Nat) /\ Len(a) = l /\ i \in 1 .. l
            BY <1>6, <1>7, <1>9
      <2>. QED BY <2>1, RestOf
<1>. HIDE DEF u, v, w
<1>11. m - i \in Nat /\ l - i = m - i + 1
      BY <1>7, <1>9
<1>12. w = Append(v, n)
      <2>. DEFINE b == Append(v, n)
      <2>1. PICK k \in Nat : k = m - i
            BY <1>11
      <2>2. v \in Seq(Nat) /\ Len(v) = k /\ \A j \in 1 .. k : v[j] = q[i + j]
            BY <1>8, <2>1
      <2>3. w \in Seq(Nat) /\ Len(w) = k + 1 /\ \A j \in 1 .. k + 1 : w[j] = a[i + j]
            <3>1. l - i = k + 1
                  BY <1>11, <2>1
            <3>. QED BY <1>10, <3>1
      <2>4. b \in Seq(Nat) /\ Len(b) = k + 1 /\ b[k + 1] = n /\ \A j \in 1 .. k : b[j] = v[j]
            BY <2>2, AppendNames
      <2>. HIDE DEF b
      <2>5. ASSUME NEW j \in 1 .. k + 1 PROVE w[j] = b[j]
            <3>1. CASE j = k + 1
                  <4>1. i + j = m + 1
                        BY <1>7, <2>1, <3>1
                  <4>. QED BY <1>6, <2>3, <2>4, <3>1, <4>1
            <3>2. CASE j # k + 1
                  <4>1. j \in 1 .. k /\ i + j \in 1 .. m
                        BY <1>7, <2>1, <3>2
                  <4>. QED BY <1>6, <2>2, <2>3, <2>4, <4>1
            <3>. QED BY <3>1, <3>2
      <2>6. Len(w) = Len(b)
            BY <2>3, <2>4
      <2>7. w = b
            BY <2>3, <2>4, <2>5, <2>6, SeqEqual
      <2>. QED BY <2>7 DEF b
<1>13. u \o w = Append(u \o v, n) /\ u \o v \in Seq(Nat)
      <2>1. v \in Seq(Nat) /\ <<n>> \in Seq(Nat) /\ u \o v \in Seq(Nat)
            BY <1>5, <1>8, ConcatProperties
      <2>2. Append(v, n) = v \o <<n>> /\ Append(u \o v, n) = (u \o v) \o <<n>>
            BY <2>1, AppendIsConcat
      <2>3. (u \o v) \o <<n>> = u \o (v \o <<n>>)
            BY <1>5, <2>1, NamesConcat
      <2>. QED BY <1>12, <2>1, <2>2, <2>3
<1>. QED BY <1>1, <1>4, <1>13 DEF Through, a, u, v, w

LEMMA FollowedSeq ==
    ASSUME NEW d \in Disk, NEW q \in Seq(Nat) \cup {NoPath}, NEW last \in BOOLEAN
    PROVE  Followed(d, q, last) \in Seq(Nat) \cup {NoPath}
<1>1. CASE q = NoPath \/ Links(d, q, last) = {}
      BY <1>1 DEF Followed
<1>2. CASE q # NoPath /\ Links(d, q, last) # {}
      <2>1. q \in Seq(Nat) /\ Links(d, q, last) \subseteq 1 .. Len(q)
            BY <1>2 DEF Links
      <2>2. q # Root
            BY <1>2, <2>1 DEF Root
      <2>. QED BY <2>1, <2>2, FollowedIn DEF Name
<1>. QED BY <1>1, <1>2

\* A path is followed as the path of its directory is.
LEMMA AppendFollowed ==
    ASSUME NEW d \in Disk, NEW q \in Seq(Nat), NEW n \in Nat, NEW last \in BOOLEAN,
           Links(d, q, TRUE) # {}
    PROVE  LET w == Followed(d, q, TRUE)
           IN  Followed(d, Append(q, n), last) = IF w = NoPath THEN NoPath ELSE Append(w, n)
<1>. DEFINE a == Append(q, n)
<1>1. a \in Seq(Nat) /\ q # NoPath /\ a # NoPath
      BY VfsAssumption
<1>2. \A i \in 1 .. Len(q) : Pre(a, i) = Pre(q, i)
      <2>1. \A i \in 1 .. Len(q) : i \in 0 .. Len(q)
            OBVIOUS
      <2>. QED BY <2>1, AppendIs
<1>3. Links(d, a, FALSE) = Links(d, q, TRUE) /\ \A i \in Links(d, q, TRUE) : i \in Links(d, a, TRUE)
      BY AppendLinks
<1>4. ASSUME NEW i \in Links(d, a, TRUE) PROVE i \in Links(d, q, TRUE) \/ i = Len(q) + 1
      <2>1. \A k \in Links(d, a, TRUE) :
               k \in Links(d, q, TRUE) \/ (k = Len(q) + 1 /\ At(d, a).kind = "link")
            BY AppendLinks
      <2>. HIDE DEF a
      <2>. QED BY <2>1
<1>. HIDE DEF a
<1>5. Links(d, a, last) # {} /\ Links(d, q, TRUE) \subseteq Links(d, a, last)
      BY <1>3
<1>6. \A i \in Links(d, a, last) : i \in Links(d, q, TRUE) \/ i = Len(q) + 1
      BY <1>3, <1>4
<1>7. PICK i \in Links(d, q, TRUE) :
              /\ \A j \in Links(d, q, TRUE) : i <= j
              /\ Followed(d, q, TRUE) = IF q = NoPath THEN q ELSE Through(q, i, At(d, Pre(q, i)).to)
              /\ i \in 1 .. Len(q)
      BY FirstLink
<1>8. PICK j \in Links(d, a, last) :
              /\ \A k \in Links(d, a, last) : j <= k
              /\ Followed(d, a, last) = IF a = NoPath THEN a ELSE Through(a, j, At(d, Pre(a, j)).to)
              /\ j \in 1 .. Len(a)
      BY <1>1, <1>5, FirstLink
<1>9. i = j
      <2>1. PICK m \in Nat : m = Len(q)
            OBVIOUS
      <2>2. PICK l \in Nat : l = Len(a)
            BY <1>1
      <2>3. i \in 1 .. m /\ j \in 1 .. l
            BY <1>7, <1>8, <2>1, <2>2
      <2>4. i \in Links(d, a, last)
            BY <1>5
      <2>5. j <= i
            BY <1>8, <2>4
      <2>6. j \in Links(d, q, TRUE) \/ j = m + 1
            BY <1>6, <2>1
      <2>7. j \in Links(d, q, TRUE)
            <3>1. i \in Int /\ j \in Int /\ i <= m
                  BY <2>3
            <3>2. j # m + 1
                  BY <2>1, <2>5, <3>1
            <3>. QED BY <2>6, <3>2
      <2>8. i <= j
            BY <1>7, <2>7
      <2>. QED BY <2>3, <2>5, <2>8
<1>10. At(d, Pre(q, i)).to \in Target /\ Pre(a, i) = Pre(q, i)
      <2>1. At(d, Pre(q, i)).kind = "link"
            BY <1>7 DEF Links
      <2>. QED BY <1>2, <1>7, <2>1, AtIn, Kinds
<1>. DEFINE t == At(d, Pre(q, i)).to
<1>11. Followed(d, q, TRUE) = Through(q, i, t) /\ Followed(d, a, last) = Through(a, i, t)
      BY <1>1, <1>7, <1>8, <1>9, <1>10
<1>12. t \in Target /\ t.abs \in BOOLEAN
      BY <1>10 DEF Target
<1>. HIDE DEF t
<1>13. CASE t.abs
      <2>1. Through(a, i, t) = NoPath /\ Through(q, i, t) = NoPath
            BY <1>7, <1>12, <1>13, AppendThrough DEF a
      <2>. QED BY <1>11, <2>1 DEF a
<1>14. CASE ~ t.abs
      <2>1. Through(q, i, t) \in Seq(Nat) /\ Through(a, i, t) = Append(Through(q, i, t), n)
            BY <1>7, <1>12, <1>14, AppendThrough DEF a
      <2>2. Through(q, i, t) # NoPath
            BY <2>1, VfsAssumption
      <2>. QED BY <1>11, <2>1, <2>2 DEF a
<1>. QED BY <1>12, <1>13, <1>14

LEMMA Leads ==
    ASSUME NEW d \in Disk, NEW p \in Seq(Nat), NEW last \in BOOLEAN
    PROVE  /\ Leading(d, p, last) \in Seq(Nat) \cup {NoPath}
           /\ Leading(d, p, last) =
                Times([q \in {NoPath} \cup Seq(Nat) |-> Followed(d, q, last)], p, MaxLinks)
<1>. DEFINE f == [q \in {NoPath} \cup Seq(Nat) |-> Followed(d, q, last)]
            X == Seq(Nat) \cup {NoPath}
<1>1. \A x \in X : f[x] = Followed(d, x, last) /\ f[x] \in X
      BY FollowedSeq
<1>. HIDE DEF f
<1>2. Times(f, p, MaxLinks) \in X
      BY <1>1, TimesIn, VfsAssumption
<1>3. CASE Links(d, p, last) = {}
      <2>1. f[p] = p
            BY <1>1, <1>3 DEF Followed
      <2>. DEFINE Y == {p}
      <2>2. p \in Y /\ \A x \in Y : f[x] \in Y
            BY <2>1
      <2>. HIDE DEF Y
      <2>3. Times(f, p, MaxLinks) \in Y
            BY <2>2, TimesIn, VfsAssumption
      <2>4. Times(f, p, MaxLinks) = p
            BY <2>3 DEF Y
      <2>. QED BY <1>3, <2>4 DEF Leading, f
<1>4. CASE Links(d, p, last) # {}
      BY <1>2, <1>4 DEF Leading, f
<1>. QED BY <1>3, <1>4

\* The paths of a directory and of a name in it, while both are followed: the
\* latter may end with a link.
Beside(d, n, last) ==
    {z \in ({NoPath} \cup Seq(Nat)) \X ({NoPath} \cup Seq(Nat)) :
        \/ z[1] = NoPath /\ z[2] = NoPath
        \/ /\ z[1] # NoPath
           /\ \/ z[2] = Append(z[1], n)
              \/ /\ last /\ Links(d, z[1], TRUE) = {}
                 /\ At(d, Append(z[1], n)).kind = "link"}

LEMMA BesideStays ==
    ASSUME NEW d \in Disk, NEW n \in Nat, NEW last \in BOOLEAN,
           NEW x, NEW y, <<x, y>> \in Beside(d, n, last)
    PROVE  <<Followed(d, x, TRUE), Followed(d, y, last)>> \in Beside(d, n, last)
<1>1. x \in Seq(Nat) \cup {NoPath} /\ y \in Seq(Nat) \cup {NoPath}
      BY DEF Beside
<1>2. Followed(d, x, TRUE) \in Seq(Nat) \cup {NoPath} /\ Followed(d, y, last) \in Seq(Nat) \cup {NoPath}
      BY <1>1, FollowedSeq
<1>3. CASE x = NoPath /\ y = NoPath
      <2>1. Followed(d, x, TRUE) = NoPath /\ Followed(d, y, last) = NoPath
            BY <1>3 DEF Followed
      <2>. QED BY <2>1 DEF Beside
<1>4. CASE x # NoPath /\ last /\ Links(d, x, TRUE) = {} /\ At(d, Append(x, n)).kind = "link"
      <2>1. Followed(d, x, TRUE) = x
            BY <1>4 DEF Followed
      <2>. QED BY <1>2, <1>4, <2>1 DEF Beside
<1>5. CASE x # NoPath /\ y = Append(x, n) /\ Links(d, x, TRUE) # {}
      <2>1. LET w == Followed(d, x, TRUE)
            IN  Followed(d, y, last) = IF w = NoPath THEN NoPath ELSE Append(w, n)
            BY <1>1, <1>5, AppendFollowed
      <2>. QED BY <1>2, <2>1 DEF Beside
<1>6. CASE /\ x # NoPath /\ y = Append(x, n) /\ Links(d, x, TRUE) = {}
           /\ ~ (last /\ At(d, Append(x, n)).kind = "link")
      <2>1. Followed(d, x, TRUE) = x
            BY <1>6 DEF Followed
      <2>2. Links(d, y, last) = {}
            BY <1>1, <1>6, AppendLinks
      <2>3. Followed(d, y, last) = y
            BY <2>2 DEF Followed
      <2>. QED BY <1>2, <1>6, <2>1, <2>3 DEF Beside
<1>7. \/ x = NoPath /\ y = NoPath
      \/ /\ x # NoPath
         /\ \/ y = Append(x, n)
            \/ last /\ Links(d, x, TRUE) = {} /\ At(d, Append(x, n)).kind = "link"
      BY DEF Beside
<1>. QED BY <1>3, <1>4, <1>5, <1>6, <1>7

LEMMA LeadsBeside ==
    ASSUME NEW d \in Disk, NEW q \in Seq(Nat), NEW n \in Nat, NEW last \in BOOLEAN
    PROVE  <<Leading(d, q, TRUE), Leading(d, Append(q, n), last)>> \in Beside(d, n, last)
<1>. DEFINE f == [x \in {NoPath} \cup Seq(Nat) |-> Followed(d, x, TRUE)]
            e == [x \in {NoPath} \cup Seq(Nat) |-> Followed(d, x, last)]
            R == Beside(d, n, last)
<1>1. ASSUME NEW x, NEW y, <<x, y>> \in R PROVE <<f[x], e[y]>> \in R
      <2>1. x \in {NoPath} \cup Seq(Nat) /\ y \in {NoPath} \cup Seq(Nat)
            BY <1>1 DEF Beside
      <2>2. <<Followed(d, x, TRUE), Followed(d, y, last)>> \in R
            BY <1>1, BesideStays
      <2>. QED BY <2>1, <2>2
<1>2. Append(q, n) \in Seq(Nat) /\ q # NoPath
      BY VfsAssumption
<1>3. <<q, Append(q, n)>> \in R
      BY <1>2 DEF Beside
<1>4. /\ Leading(d, q, TRUE) = Times(f, q, MaxLinks)
      /\ Leading(d, Append(q, n), last) = Times(e, Append(q, n), MaxLinks)
      BY <1>2, Leads
<1>. HIDE DEF f, e, R
<1>5. <<Times(f, q, MaxLinks), Times(e, Append(q, n), MaxLinks)>> \in R
      BY <1>1, <1>3, TimesPair, VfsAssumption
<1>. QED BY <1>4, <1>5 DEF R

-----------------------------------------------------------------------------
(* A name in a directory.                                                  *)

LEMMA RootIs ==
    ASSUME NEW x \in Seq(Nat), Len(x) = 0
    PROVE  x = Root
BY DEF Root

LEMMA WalkIs ==
    ASSUME NEW d \in Disk, NEW p \in Seq(Nat), NEW last \in BOOLEAN
    PROVE  LET w == Walk(d, p, last)
               l == Leading(d, p, last)
           IN  /\ w # NoPath => /\ w = l /\ w \in Seq(Nat) /\ Links(d, w, last) = {}
                                /\ \A i \in 1 .. Len(w) - 1 : At(d, Pre(w, i)) = Dir
               /\ /\ l # NoPath /\ Links(d, l, last) = {}
                  /\ \A i \in 1 .. Len(l) - 1 : At(d, Pre(l, i)) = Dir
                  => w = l
BY Leads DEF Walk, Settled

LEMMA RealIs ==
    ASSUME NEW d \in Disk, NEW p \in Seq(Nat), Real(d, p) # NoPath
    PROVE  LET a == Real(d, p)
           IN  /\ a = Walk(d, p, TRUE) /\ a = Leading(d, p, TRUE) /\ a \in Seq(Nat)
               /\ At(d, a) # None /\ Links(d, a, TRUE) = {}
               /\ \A i \in 1 .. Len(a) - 1 : At(d, Pre(a, i)) = Dir
<1>1. Real(d, p) = Walk(d, p, TRUE) /\ At(d, Real(d, p)) # None
      BY DEF Real, There, NodeAt
<1>. QED BY <1>1, WalkIs

\* If there is a place for a name in it, the directory is there.
LEMMA EntryDir ==
    ASSUME NEW d \in Disk, NEW q \in Seq(Nat), NEW n \in Nat,
           Walk(d, Append(q, n), FALSE) # NoPath
    PROVE  /\ Real(d, q) # NoPath /\ At(d, Real(d, q)) = Dir
           /\ Walk(d, Append(q, n), FALSE) = Append(Real(d, q), n)
<1>. DEFINE w == Walk(d, Append(q, n), FALSE)
            x == Leading(d, q, TRUE)
<1>1. Append(q, n) \in Seq(Nat)
      OBVIOUS
<1>2. /\ w = Leading(d, Append(q, n), FALSE) /\ Links(d, w, FALSE) = {}
      /\ \A i \in 1 .. Len(w) - 1 : At(d, Pre(w, i)) = Dir
      BY <1>1, WalkIs
<1>3. <<x, w>> \in Beside(d, n, FALSE)
      BY <1>2, LeadsBeside
<1>4. x # NoPath /\ x \in Seq(Nat) /\ w = Append(x, n)
      BY <1>3 DEF Beside
<1>. HIDE DEF w, x
<1>5. PICK m \in Nat : m = Len(x)
      BY <1>4
<1>6. Len(w) = m + 1 /\ \A i \in 1 .. m : Pre(w, i) = Pre(x, i)
      <2>1. \A i \in 1 .. m : i \in 0 .. m
            OBVIOUS
      <2>. QED BY <1>4, <1>5, <2>1, AppendIs
<1>7. \A i \in 1 .. m : At(d, Pre(x, i)) = Dir
      <2>1. Len(w) - 1 = m
            BY <1>6
      <2>. QED BY <1>2, <1>6, <2>1
<1>8. Links(d, x, TRUE) = {}
      BY <1>2, <1>4, AppendLinks
<1>9. At(d, x) = Dir
      <2>1. CASE m = 0
            <3>1. x = Root
                  BY <1>4, <1>5, <2>1, RootIs
            <3>. QED BY <3>1 DEF At
      <2>2. CASE m # 0
            <3>1. Pre(x, m) = x
                  BY <1>4, <1>5, PreIs
            <3>2. m \in 1 .. m
                  BY <2>2
            <3>. QED BY <1>7, <3>1, <3>2
      <2>. QED BY <2>1, <2>2
<1>10. Walk(d, q, TRUE) = x
      <2>1. \A i \in 1 .. Len(x) - 1 : At(d, Pre(x, i)) = Dir
            <3>1. \A i \in 1 .. m - 1 : i \in 1 .. m
                  OBVIOUS
            <3>. QED BY <1>5, <1>7, <3>1
      <2>. QED BY <1>4, <1>8, <2>1, WalkIs DEF x
<1>11. Real(d, q) = x
      BY <1>4, <1>9, <1>10, DirIsNone DEF Real, There, NodeAt
<1>. QED BY <1>4, <1>9, <1>11 DEF w

\* The other way.
LEMMA EntryAt ==
    ASSUME NEW d \in Disk, NEW q \in Seq(Nat), NEW n \in Nat, Real(d, q) # NoPath
    PROVE  LET a == Real(d, q)
           IN  /\ Append(a, n) \in Seq(Nat)
               /\ Walk(d, Append(a, n), FALSE) \in {NoPath, Append(a, n)}
               /\ Walk(d, Append(a, n), FALSE) # NoPath => At(d, a) = Dir
<1>. DEFINE a == Real(d, q)
            b == Append(a, n)
<1>1. a \in Seq(Nat) /\ a # NoPath /\ Links(d, a, TRUE) = {}
      BY RealIs
<1>. HIDE DEF a
<1>2. b \in Seq(Nat) /\ Links(d, b, FALSE) = {}
      <2>1. a \in Seq(Nat)
            BY <1>1
      <2>2. Links(d, b, FALSE) = Links(d, a, TRUE)
            BY <2>1, AppendLinks
      <2>3. b \in Seq(Nat)
            BY <2>1
      <2>. HIDE DEF b
      <2>. QED BY <1>1, <2>2, <2>3
<1>3. Leading(d, b, FALSE) = b
      BY <1>2 DEF Leading
<1>4. Walk(d, b, FALSE) \in {NoPath, b}
      BY <1>2, <1>3, WalkIs
<1>5. ASSUME Walk(d, b, FALSE) # NoPath PROVE At(d, a) = Dir
      <2>1. \A i \in 1 .. Len(b) - 1 : At(d, Pre(b, i)) = Dir
            BY <1>2, <1>4, <1>5, WalkIs
      <2>2. PICK m \in Nat : m = Len(a)
            BY <1>1
      <2>3. Len(b) = m + 1 /\ Pre(b, m) = Pre(a, m) /\ Pre(a, m) = a
            <3>1. m \in 0 .. m
                  OBVIOUS
            <3>. QED BY <1>1, <2>2, <3>1, AppendIs, PreIs
      <2>4. CASE m = 0
            <3>1. a = Root
                  BY <1>1, <2>2, <2>4, RootIs
            <3>. QED BY <3>1 DEF At
      <2>5. CASE m # 0
            <3>. HIDE DEF b
            <3>1. m \in 1 .. Len(b) - 1
                  BY <2>3, <2>5
            <3>. QED BY <2>1, <2>3, <3>1
      <2>. QED BY <2>4, <2>5
<1>. QED BY <1>2, <1>4, <1>5 DEF a

LEMMA EntryReal ==
    ASSUME NEW d \in Disk, NEW q \in Seq(Nat), NEW n \in Nat, Real(d, q) # NoPath,
           At(d, Real(d, q)) = Dir, At(d, Append(Real(d, q), n)) = Dir
    PROVE  Real(d, Append(q, n)) = Append(Real(d, q), n)
<1>. DEFINE a == Real(d, q)
            b == Append(a, n)
            y == Leading(d, Append(q, n), TRUE)
<1>1. /\ a \in Seq(Nat) /\ a # NoPath /\ Links(d, a, TRUE) = {} /\ a = Leading(d, q, TRUE)
      /\ \A i \in 1 .. Len(a) - 1 : At(d, Pre(a, i)) = Dir
      BY RealIs
<1>2. <<a, y>> \in Beside(d, n, TRUE)
      BY <1>1, LeadsBeside
<1>3. y = b
      <2>1. At(d, b).kind # "link"
            BY DirIsNone
      <2>. QED BY <1>1, <1>2, <2>1 DEF Beside
<1>4. At(d, a) = Dir /\ At(d, b) = Dir
      OBVIOUS
<1>. HIDE DEF a, y
<1>5. a \in Seq(Nat) /\ b \in Seq(Nat) /\ b # NoPath
      <2>1. a \in Seq(Nat)
            BY <1>1
      <2>2. b \in Seq(Nat)
            BY <2>1
      <2>. QED BY <2>1, <2>2, VfsAssumption
<1>6. Links(d, b, TRUE) = {}
      <2>1. ASSUME NEW i \in Links(d, b, TRUE) PROVE FALSE
            <3>1. \A k \in Links(d, b, TRUE) :
                     k \in Links(d, a, TRUE) \/ (k = Len(a) + 1 /\ At(d, b).kind = "link")
                  BY <1>5, AppendLinks
            <3>. HIDE DEF b
            <3>. QED BY <1>1, <1>4, <2>1, <3>1, DirIsNone
      <2>. QED BY <2>1
<1>7. ASSUME NEW i \in 1 .. Len(b) - 1 PROVE At(d, Pre(b, i)) = Dir
      <2>1. PICK m \in Nat : m = Len(a)
            BY <1>5
      <2>2. Len(b) = m + 1 /\ Pre(a, m) = a /\ \A j \in 0 .. m : Pre(b, j) = Pre(a, j)
            BY <1>5, <2>1, AppendIs, PreIs
      <2>. HIDE DEF b
      <2>3. i \in 1 .. m /\ i \in 0 .. m
            BY <2>2
      <2>4. CASE i = m
            BY <1>4, <2>2, <2>3, <2>4
      <2>5. CASE i # m
            <3>1. i \in 1 .. m - 1
                  BY <2>3, <2>5
            <3>. QED BY <1>1, <2>1, <2>2, <2>3, <3>1
      <2>. QED BY <2>4, <2>5
<1>8. Walk(d, Append(q, n), TRUE) = b
      <2>1. Append(q, n) \in Seq(Nat)
            OBVIOUS
      <2>. HIDE DEF b
      <2>. QED BY <1>3, <1>5, <1>6, <1>7, <2>1, WalkIs DEF y
<1>. QED BY <1>4, <1>5, <1>8, DirIsNone DEF Real, There, NodeAt, a

-----------------------------------------------------------------------------
(* A disk of which something was taken.                                    *)

Shrunk(d, e) == \A q \in Path : e.node[q] \in {d.node[q], None}

LEMMA ShrunkAt ==
    ASSUME NEW d, NEW e, Shrunk(d, e), NEW p
    PROVE  At(e, p) \in {At(d, p), None}
BY DEF Shrunk, At

\* Below what is not there is nothing.
LEMMA NothingBelow ==
    ASSUME NEW d \in Tree, NEW x \in Seq(Nat), NEW i \in 1 .. Len(x), NEW j \in 1 .. Len(x),
           i <= j, At(d, Pre(x, i)) = None
    PROVE  At(d, Pre(x, j)) = None
<1>1. PICK m \in Nat : m = Len(x)
      OBVIOUS
<1>. DEFINE S == {k \in Nat : i + k <= m => At(d, Pre(x, i + k)) = None}
<1>2. 0 \in S
      <2>1. i + 0 = i
            OBVIOUS
      <2>. QED BY <2>1
<1>3. ASSUME NEW k \in Nat, k \in S PROVE k + 1 \in S
      <2>1. SUFFICES ASSUME i + (k + 1) <= m PROVE At(d, Pre(x, i + (k + 1))) = None
            OBVIOUS
      <2>2. PICK l \in Nat : l = i + k
            OBVIOUS
      <2>3. i + (k + 1) = l + 1 /\ l + 1 <= m /\ l \in 0 .. m /\ l + 1 \in 0 .. m /\ l # 0
            BY <2>1, <2>2
      <2>4. At(d, Pre(x, l)) = None
            BY <1>3, <2>2, <2>3
      <2>. DEFINE y == Pre(x, l + 1)
      <2>5. y \in Seq(Nat) /\ Len(y) = l + 1
            BY <1>1, <2>3, PreIs
      <2>6. Front(y) = Pre(x, l)
            <3>1. y # Root
                  BY <2>5 DEF Root
            <3>2. y \in Name
                  BY <2>5, <3>1 DEF Name
            <3>3. Front(y) \in Seq(Nat) /\ Len(Front(y)) = l /\ Front(y) = Pre(y, l)
                  <4>1. Front(y) \in Seq(Nat) /\ Len(Front(y)) = Len(y) - 1 /\ Front(y) = Pre(y, Len(y) - 1)
                        BY <3>2, SeqFacts
                  <4>2. Len(y) - 1 = l
                        BY <2>5
                  <4>. QED BY <4>1, <4>2
            <3>4. Pre(x, l) \in Seq(Nat) /\ Len(Pre(x, l)) = l
                  BY <1>1, <2>3, PreIs
            <3>5. ASSUME NEW a \in 1 .. l PROVE Front(y)[a] = Pre(x, l)[a]
                  <4>1. a \in 1 .. m /\ a \in 1 .. l + 1 /\ a <= l /\ a <= l + 1 /\ l \in 0 .. l + 1
                        BY <2>3
                  <4>2. Pre(x, l)[a] = x[a] /\ y[a] = x[a]
                        BY <1>1, <2>3, <4>1, PreIs
                  <4>3. Pre(y, l)[a] = y[a]
                        BY <2>5, <4>1, PreIs
                  <4>. QED BY <3>3, <4>2, <4>3
            <3>. QED BY <3>3, <3>4, <3>5, SeqEqual
      <2>. HIDE DEF y
      <2>7. ASSUME At(d, y) # None PROVE FALSE
            <3>1. y # Root
                  BY <2>5 DEF Root
            <3>2. y \in Path
                  BY <2>7, <3>1 DEF At
            <3>3. At(d, Front(y)) = Dir
                  BY <2>7, <3>1, <3>2, TreeIn DEF At
            <3>. QED BY <2>4, <2>6, <3>3, DirIsNone
      <2>. QED BY <2>3, <2>7 DEF y
<1>. HIDE DEF S
<1>4. j - i \in Nat
      BY <1>1
<1>5. j - i \in S
      BY <1>2, <1>3, <1>4, NatSet
<1>6. i + (j - i) = j /\ j <= m
      BY <1>1
<1>. QED BY <1>5, <1>6 DEF S

\* A path that is followed no further and leads to nothing.
Dead(e, y, last) ==
    \/ y = NoPath
    \/ /\ Links(e, y, last) = {}
       /\ \E i \in 1 .. (IF last THEN Len(y) ELSE Len(y) - 1) : At(e, Pre(y, i)) = None

Alike(d, e, last) ==
    {z \in ({NoPath} \cup Seq(Nat)) \X ({NoPath} \cup Seq(Nat)) :
        z[1] = z[2] \/ Dead(e, z[2], last)}

LEMMA AlikeStays ==
    ASSUME NEW d \in Tree, NEW e \in Tree, Shrunk(d, e), NEW last \in BOOLEAN,
           NEW x, NEW y, <<x, y>> \in Alike(d, e, last)
    PROVE  <<Followed(d, x, last), Followed(e, y, last)>> \in Alike(d, e, last)
<1>1. x \in Seq(Nat) \cup {NoPath} /\ y \in Seq(Nat) \cup {NoPath}
      BY DEF Alike
<1>2. d \in Disk /\ e \in Disk
      BY TreeIn
<1>3. Followed(d, x, last) \in Seq(Nat) \cup {NoPath} /\ Followed(e, y, last) \in Seq(Nat) \cup {NoPath}
      BY <1>1, <1>2, FollowedSeq
<1>4. CASE Dead(e, y, last)
      <2>1. Followed(e, y, last) = y
            BY <1>4 DEF Dead, Followed
      <2>. QED BY <1>3, <1>4, <2>1 DEF Alike
<1>5. CASE x = y /\ (x = NoPath \/ Links(d, x, last) = {})
      <2>1. Followed(d, x, last) = x
            BY <1>5 DEF Followed
      <2>2. x # NoPath => Links(e, x, last) = {}
            <3>1. SUFFICES ASSUME x # NoPath, NEW i \in Links(e, x, last) PROVE FALSE
                  OBVIOUS
            <3>2. At(e, Pre(x, i)).kind = "link"
                  BY <3>1 DEF Links
            <3>3. At(d, Pre(x, i)) = At(e, Pre(x, i))
                  BY <3>2, ShrunkAt, DirIsNone
            <3>4. i \in Links(d, x, last)
                  BY <3>1, <3>2, <3>3 DEF Links
            <3>. QED BY <1>5, <3>1, <3>4
      <2>3. Followed(e, x, last) = x
            BY <2>2 DEF Followed
      <2>. QED BY <1>3, <1>5, <2>1, <2>3 DEF Alike
<1>6. CASE x = y /\ x # NoPath /\ Links(d, x, last) # {}
      <2>0. x \in Seq(Nat)
            BY <1>1, <1>6
      <2>1. PICK i \in Links(d, x, last) :
              /\ \A j \in Links(d, x, last) : i <= j
              /\ Followed(d, x, last) = IF x = NoPath THEN x ELSE Through(x, i, At(d, Pre(x, i)).to)
              /\ i \in 1 .. Len(x)
            BY <1>6, <2>0, FirstLink
      <2>2. At(d, Pre(x, i)).kind = "link"
            BY DEF Links
      <2>3. ASSUME NEW j \in Links(e, x, last)
            PROVE  j \in Links(d, x, last) /\ j \in 1 .. Len(x) /\ At(e, Pre(x, j)).kind = "link"
            <3>1. At(e, Pre(x, j)).kind = "link"
                  BY <2>3 DEF Links
            <3>2. At(d, Pre(x, j)) = At(e, Pre(x, j))
                  BY <3>1, ShrunkAt, DirIsNone
            <3>3. j \in Links(d, x, last)
                  BY <2>3, <3>1, <3>2 DEF Links
            <3>4. j \in 1 .. Len(x)
                  <4>1. PICK m \in Nat : m = Len(x)
                        BY <2>0
                  <4>. QED BY <2>3, <4>1 DEF Links
            <3>. QED BY <3>1, <3>3, <3>4
      <2>4. CASE At(e, Pre(x, i)) = At(d, Pre(x, i))
            <3>1. i \in Links(e, x, last)
                  BY <2>1, <2>2, <2>4 DEF Links
            <3>2. PICK j \in Links(e, x, last) :
                    /\ \A k \in Links(e, x, last) : j <= k
                    /\ Followed(e, x, last) = IF x = NoPath THEN x ELSE Through(x, j, At(e, Pre(x, j)).to)
                    /\ j \in 1 .. Len(x)
                  BY <2>0, <3>1, FirstLink
            <3>3. i <= j /\ j <= i
                  BY <2>1, <2>3, <3>1, <3>2
            <3>4. i = j
                  <4>1. PICK m \in Nat : m = Len(x)
                        BY <2>0
                  <4>2. i \in 1 .. m /\ j \in 1 .. m
                        BY <2>1, <3>2, <4>1
                  <4>. QED BY <3>3, <4>2
            <3>5. Followed(e, x, last) = Followed(d, x, last)
                  BY <1>6, <2>1, <2>4, <3>2, <3>4
            <3>. QED BY <1>3, <1>6, <3>5 DEF Alike
      <2>5. CASE At(e, Pre(x, i)) = None
            <3>1. ASSUME NEW j \in Links(e, x, last) PROVE FALSE
                  <4>1. i <= j /\ j \in 1 .. Len(x) /\ At(e, Pre(x, j)).kind = "link"
                        BY <2>1, <2>3
                  <4>2. At(e, Pre(x, j)) = None
                        BY <2>0, <2>1, <2>5, <4>1, NothingBelow
                  <4>. QED BY <4>1, <4>2, DirIsNone
            <3>2. Links(e, x, last) = {}
                  BY <3>1
            <3>3. Followed(e, x, last) = x
                  BY <3>2 DEF Followed
            <3>4. i \in 1 .. (IF last THEN Len(x) ELSE Len(x) - 1)
                  BY DEF Links
            <3>5. Dead(e, x, last)
                  BY <2>5, <3>2, <3>4 DEF Dead
            <3>. QED BY <1>3, <1>6, <3>3, <3>5 DEF Alike
      <2>. QED BY <2>4, <2>5, ShrunkAt
<1>. QED BY <1>4, <1>5, <1>6 DEF Alike

\* What a path leads to is where it was, or it is nothing.
LEMMA WalkShrinks ==
    ASSUME NEW d \in Tree, NEW e \in Tree, Shrunk(d, e), NEW p \in Seq(Nat), NEW last \in BOOLEAN
    PROVE  NodeAt(e, Walk(e, p, last)) = None \/ Walk(e, p, last) = Walk(d, p, last)
<1>. DEFINE f == [q \in {NoPath} \cup Seq(Nat) |-> Followed(d, q, last)]
            g == [q \in {NoPath} \cup Seq(Nat) |-> Followed(e, q, last)]
            x == Leading(d, p, last)
            y == Leading(e, p, last)
            R == Alike(d, e, last)
<1>0. d \in Disk /\ e \in Disk
      BY TreeIn
<1>1. <<x, y>> \in R
      <2>1. ASSUME NEW a, NEW b, <<a, b>> \in R PROVE <<f[a], g[b]>> \in R
            <3>1. a \in {NoPath} \cup Seq(Nat) /\ b \in {NoPath} \cup Seq(Nat)
                  BY <2>1 DEF Alike
            <3>2. <<Followed(d, a, last), Followed(e, b, last)>> \in R
                  BY <2>1, AlikeStays
            <3>. QED BY <3>1, <3>2
      <2>2. <<p, p>> \in R
            BY DEF Alike
      <2>3. x = Times(f, p, MaxLinks) /\ y = Times(g, p, MaxLinks)
            BY <1>0, Leads
      <2>. HIDE DEF f, g, R, x, y
      <2>4. <<Times(f, p, MaxLinks), Times(g, p, MaxLinks)>> \in R
            BY <2>1, <2>2, TimesPair, VfsAssumption
      <2>. QED BY <2>3, <2>4
<1>. DEFINE v == Walk(d, p, last)
            w == Walk(e, p, last)
<1>2. CASE w = NoPath
      BY <1>2 DEF NodeAt
<1>3. CASE w # NoPath
      <2>1. /\ w = y /\ w \in Seq(Nat) /\ Links(e, w, last) = {}
            /\ \A i \in 1 .. Len(w) - 1 : At(e, Pre(w, i)) = Dir
            BY <1>0, <1>3, WalkIs
      <2>2. \A i \in 1 .. Len(w) - 1 : At(d, Pre(w, i)) = Dir
            BY <2>1, ShrunkAt, DirIsNone
      <2>. HIDE DEF w, x, y
      <2>3. PICK m \in Nat : m = Len(w)
            BY <2>1
      <2>4. ASSUME NEW i \in 1 .. m, At(e, Pre(w, i)) = None PROVE NodeAt(e, w) = None
            <3>1. CASE i = m
                  <4>1. Pre(w, m) = w
                        BY <2>1, <2>3, PreIs
                  <4>. QED BY <1>3, <2>4, <3>1, <4>1 DEF NodeAt
            <3>2. CASE i # m
                  <4>1. i \in 1 .. Len(w) - 1
                        BY <2>3, <3>2
                  <4>. QED BY <2>1, <2>4, <4>1, DirIsNone
            <3>. QED BY <3>1, <3>2
      <2>5. CASE Dead(e, w, last)
            <3>1. PICK i \in 1 .. (IF last THEN m ELSE m - 1) : At(e, Pre(w, i)) = None
                  BY <1>3, <2>3, <2>5 DEF Dead
            <3>2. i \in 1 .. m
                  OBVIOUS
            <3>. QED BY <2>4, <3>1, <3>2 DEF w
      <2>6. CASE x = w /\ Links(d, w, last) = {}
            <3>1. v = x
                  BY <1>0, <1>3, <2>2, <2>6, WalkIs DEF x
            <3>. QED BY <2>6, <3>1 DEF w
      <2>7. CASE Links(d, w, last) # {}
            <3>1. PICK i \in Links(d, w, last) : TRUE
                  BY <2>7
            <3>2. i \in 1 .. m /\ At(d, Pre(w, i)).kind = "link"
                  BY <2>3 DEF Links
            <3>3. At(e, Pre(w, i)) # At(d, Pre(w, i))
                  BY <2>1, <3>2 DEF Links
            <3>4. At(e, Pre(w, i)) = None
                  BY <3>3, ShrunkAt
            <3>. QED BY <2>4, <3>2, <3>4 DEF w
      <2>. QED BY <1>1, <2>1, <2>5, <2>6, <2>7 DEF Alike
<1>. QED BY <1>2, <1>3

LEMMA RealShrinks ==
    ASSUME NEW d \in Tree, NEW e \in Tree, Shrunk(d, e), NEW p \in Seq(Nat)
    PROVE  Real(e, p) \in {Real(d, p), NoPath}
<1>. DEFINE v == Walk(d, p, TRUE)
            w == Walk(e, p, TRUE)
<1>1. NodeAt(e, w) = None \/ w = v
      BY WalkShrinks
<1>. HIDE DEF v, w
<1>2. CASE NodeAt(e, w) = None
      BY <1>2 DEF Real, There, w
<1>3. CASE w = v /\ NodeAt(e, w) # None
      <2>1. NodeAt(d, v) # None
            BY <1>3, ShrunkAt DEF NodeAt
      <2>. QED BY <1>3, <2>1 DEF Real, There, v, w
<1>. QED BY <1>1, <1>2, <1>3

LEMMA MetaShrinks ==
    ASSUME NEW d \in Tree, NEW e \in Tree, Shrunk(d, e), NEW p \in Seq(Nat)
    PROVE  Meta(e, p) # None => Walk(e, p, FALSE) = Walk(d, p, FALSE) /\ Meta(d, p) # None
<1>. DEFINE v == Walk(d, p, FALSE)
            w == Walk(e, p, FALSE)
<1>1. NodeAt(e, w) = None \/ w = v
      BY WalkShrinks
<1>. HIDE DEF v, w
<1>2. SUFFICES ASSUME NodeAt(e, w) # None PROVE w = v /\ NodeAt(d, v) # None
      BY DEF Meta, v, w
<1>3. w = v
      BY <1>1, <1>2
<1>. QED BY <1>2, <1>3, ShrunkAt DEF NodeAt

-----------------------------------------------------------------------------
(* What rm removes.                                                        *)

LEMMA LastFront ==
    ASSUME NEW p \in Name
    PROVE  p = Append(Front(p), Last(p))
<1>. DEFINE q == Front(p)
            a == Append(q, Last(p))
<1>1. PICK m \in Nat : m = Len(p) /\ m > 0
      BY SeqFacts
<1>2. p \in Seq(Nat) /\ Last(p) \in Nat /\ q \in Seq(Nat) /\ Len(q) = m - 1
      BY <1>1, SeqFacts
<1>3. Last(p) = p[m]
      BY <1>1 DEF Last
<1>4. \A i \in 1 .. m - 1 : q[i] = p[i]
      BY <1>1, FrontIs
<1>. HIDE DEF q
<1>5. a \in Seq(Nat) /\ Len(a) = m - 1 + 1 /\ a[m - 1 + 1] = Last(p) /\ \A i \in 1 .. m - 1 : a[i] = q[i]
      <2>1. PICK k \in Nat : k = m - 1
            BY <1>1
      <2>. QED BY <1>2, <2>1
<1>. HIDE DEF a
<1>6. m - 1 + 1 = m
      OBVIOUS
<1>7. \A i \in 1 .. m : a[i] = p[i]
      <2>1. ASSUME NEW i \in 1 .. m PROVE a[i] = p[i]
            <3>1. i = m \/ i \in 1 .. m - 1
                  OBVIOUS
            <3>. QED BY <1>3, <1>4, <1>5, <1>6, <3>1
      <2>. QED BY <2>1
<1>. QED BY <1>1, <1>2, <1>5, <1>6, <1>7, SeqEqual DEF a, q

\* An operand that is there has a directory, and is what it resolves to.
LEMMA OperandIs ==
    ASSUME NEW d \in Tree, NEW p \in Path, Meta(d, ResolveNF(d, p)) # None
    PROVE  LET a == Real(d, Front(p))
               r == ResolveNF(d, p)
           IN  /\ a # NoPath /\ a \in Seq(Nat) /\ At(d, a) = Dir
               /\ r = Append(a, Last(p)) /\ r \in Path
               /\ Walk(d, r, FALSE) = r /\ Meta(d, r) = At(d, r)
<1>. DEFINE q == Front(p)
            n == Last(p)
            r == ResolveNF(d, p)
            a == Real(d, q)
<1>1. p \in Name /\ q \in Seq(Nat) /\ n \in Nat /\ p = Append(q, n) /\ d \in Disk
      BY PathFacts, SeqFacts, LastFront, TreeIn
<1>2. r = IF a = NoPath THEN p ELSE Append(a, n)
      BY <1>1 DEF ResolveNF, In, Name
<1>3. Walk(d, r, FALSE) # NoPath /\ NodeAt(d, Walk(d, r, FALSE)) # None
      BY DEF Meta, NodeAt
<1>. HIDE DEF q, n, r
<1>4. a # NoPath
      BY <1>1, <1>2, <1>3, EntryDir
<1>5. a \in Seq(Nat)
      BY <1>1, <1>4, RealIs
<1>6. Walk(d, r, FALSE) = r /\ At(d, a) = Dir
      BY <1>1, <1>2, <1>3, <1>4, EntryAt
<1>7. r # Root
      <2>1. Append(a, n) \in Name
            BY <1>1, <1>5, AppendName
      <2>. QED BY <1>2, <1>4, <2>1 DEF Name
<1>8. r \in Path /\ Meta(d, r) = At(d, r)
      BY <1>3, <1>6, <1>7 DEF NodeAt, At, Meta
<1>. QED BY <1>2, <1>4, <1>5, <1>6, <1>8 DEF q, n, r

\* A smaller disk: an operand that is still there resolves to what it did.
LEMMA OperandStays ==
    ASSUME NEW d \in Tree, NEW e \in Tree, Shrunk(d, e), NEW p \in Path,
           Meta(e, ResolveNF(e, p)) # None
    PROVE  ResolveNF(e, p) = ResolveNF(d, p) /\ Meta(d, ResolveNF(d, p)) # None
<1>1. p \in Name /\ Front(p) \in Seq(Nat) /\ p # Root
      BY PathFacts, SeqFacts DEF Name
<1>2. Real(e, Front(p)) # NoPath /\ ResolveNF(e, p) = Append(Real(e, Front(p)), Last(p))
      BY OperandIs
<1>3. Real(e, Front(p)) = Real(d, Front(p))
      BY <1>1, <1>2, RealShrinks
<1>4. ResolveNF(d, p) = ResolveNF(e, p)
      BY <1>1, <1>3 DEF ResolveNF
<1>5. ResolveNF(e, p) \in Seq(Nat)
      <2>1. ResolveNF(e, p) \in Path
            BY OperandIs
      <2>. QED BY <2>1, VfsAssumption
<1>. QED BY <1>4, <1>5, MetaShrinks

LEMMA GoneStays ==
    ASSUME NEW d \in Tree, NEW e \in Tree, Shrunk(d, e), NEW p \in Path, Gone(d, p)
    PROVE  Gone(e, p)
BY OperandStays DEF Gone

\* From d to e, nodes at or below r were taken away.
Taken(d, e, r) ==
    /\ e.data = d.data
    /\ \A q \in Path : e.node[q] = d.node[q] \/ (e.node[q] = None /\ Within(q, r))

LEMMA PutTakes ==
    ASSUME NEW d \in Tree, NEW w \in Path
    PROVE  Taken(d, Put(d, w, None), w) /\ Put(d, w, None).node[w] = None
<1>1. Within(w, w)
      BY PathFacts, SeqFacts, WithinFront
<1>2. Put(d, w, None).data = d.data
      BY TreeIn DEF Put
<1>3. \A q \in Path : Put(d, w, None).node[q] = IF q = w THEN None ELSE d.node[q]
      BY TreeIn DEF Put
<1>. QED BY <1>1, <1>2, <1>3 DEF Taken

LEMMA PutAtTakes ==
    ASSUME NEW d \in Tree, NEW w \in Path, NEW kinds
    PROVE  LET r == PutAt(d, w, kinds, None)
           IN  /\ r.ok => Taken(d, r.disk, w) /\ r.disk.node[w] = None
               /\ ~ r.ok => r.disk = d
BY PutTakes DEF PutAt, Done, Fail

LEMMA RmTreeTakes ==
    ASSUME NEW d \in Tree, NEW w \in Path
    PROVE  LET r == FsRmTree(d, w)
           IN  Taken(d, r.disk, w) /\ r.disk.node[w] = None
<1>. DEFINE e == FsRmTree(d, w).disk
<1>1. e.data = d.data /\ \A q \in Path : e.node[q] = IF Within(q, w) THEN None ELSE d.node[q]
      BY TreeIn DEF FsRmTree, Done
<1>2. Within(w, w)
      BY PathFacts, SeqFacts, WithinFront
<1>. HIDE DEF e
<1>3. Taken(d, e, w) /\ e.node[w] = None
      BY <1>1, <1>2 DEF Taken
<1>. QED BY <1>3 DEF e

\* One operand: what is there is taken, or nothing happens.
LEMMA RmNodeTakes ==
    ASSUME NEW d \in Tree, NEW p \in Path, NEW recursive \in BOOLEAN, NEW dir \in BOOLEAN
    PROVE  LET w == ResolveNF(d, p)
               r == RmNode(d, p, Meta(d, w), recursive, dir)
           IN  /\ r.ok \in BOOLEAN
               /\ r.ok => Meta(d, w) # None /\ w \in Path /\ Taken(d, r.disk, w) /\ r.disk.node[w] = None
               /\ ~ r.ok => r.disk = d
<1>. DEFINE w == ResolveNF(d, p)
            n == Meta(d, w)
            r == RmNode(d, p, n, recursive, dir)
<1>1. CASE n = None
      <2>1. r = Fail(d)
            BY <1>1, DirIsNone DEF RmNode
      <2>2. r.ok = FALSE /\ r.disk = d
            BY <2>1 DEF Fail
      <2>. QED BY <2>2
<1>2. CASE n # None
      <2>1. /\ Real(d, Front(p)) # NoPath /\ At(d, Real(d, Front(p))) = Dir
            /\ w = Append(Real(d, Front(p)), Last(p)) /\ w \in Path
            /\ Walk(d, w, FALSE) = w /\ n = At(d, w)
            BY <1>2, OperandIs
      <2>2. n \in Node
            BY MetaIn
      <2>. HIDE DEF n, w
      <2>3. CASE n # Dir
            <3>1. r = PutAt(d, w, {"file", "link"}, None)
                  BY <1>2, <2>1, <2>3 DEF RmNode, RemoveFile, FsUnlink, w
            <3>2. r.ok \in BOOLEAN
                  BY <3>1 DEF PutAt, Done, Fail
            <3>. HIDE DEF r
            <3>. QED BY <1>2, <2>1, <3>1, <3>2, PutAtTakes DEF n, w, r
      <2>4. CASE n = Dir /\ ~ recursive /\ ~ dir
            BY <2>4, DirIsNone DEF RmNode, Fail, n, w
      <2>5. CASE n = Dir /\ ~ recursive /\ dir
            <3>1. r = RmDirAt(d, w)
                  <4>1. r = FsRmDir(d, w)
                        BY <2>5, DirIsNone DEF RmNode, RemoveDir, w
                  <4>2. Meta(d, w) = Dir /\ Walk(d, w, FALSE) = w
                        BY <2>1, <2>5 DEF n
                  <4>. QED BY <4>1, <4>2 DEF FsRmDir
            <3>2. r = PutAt(d, w, {"dir"}, None) \/ r = Fail(d)
                  BY <3>1 DEF RmDirAt
            <3>. HIDE DEF r
            <3>3. r.ok \in BOOLEAN
                  <4>1. PutAt(d, w, {"dir"}, None).ok \in BOOLEAN /\ Fail(d).ok \in BOOLEAN
                        BY DEF PutAt, Done, Fail
                  <4>. QED BY <3>2, <4>1
            <3>4. CASE r = Fail(d)
                  <4>1. r.ok = FALSE /\ r.disk = d
                        BY <3>4 DEF Fail
                  <4>. QED BY <4>1 DEF n, w, r
            <3>5. CASE r = PutAt(d, w, {"dir"}, None)
                  BY <1>2, <2>1, <3>3, <3>5, PutAtTakes DEF n, w, r
            <3>. QED BY <3>2, <3>4, <3>5
      <2>6. CASE n = Dir /\ recursive
            <3>1. Real(d, p) = w
                  <4>1. p \in Name /\ Front(p) \in Seq(Nat) /\ Last(p) \in Nat /\ d \in Disk
                        BY PathFacts, SeqFacts, TreeIn
                  <4>2. p = Append(Front(p), Last(p))
                        BY <4>1, LastFront
                  <4>3. At(d, Append(Real(d, Front(p)), Last(p))) = Dir
                        BY <2>1, <2>6
                  <4>4. Real(d, Append(Front(p), Last(p))) = Append(Real(d, Front(p)), Last(p))
                        BY <2>1, <4>1, <4>3, EntryReal
                  <4>. QED BY <2>1, <4>2, <4>4
            <3>2. w # NoPath
                  BY <2>1, VfsAssumption
            <3>3. Resolve(d, p) = w
                  BY <3>1, <3>2 DEF Resolve, Or
            <3>4. r = FsRmTree(d, w) \/ r = Fail(d)
                  BY <2>6, <3>3, DirIsNone DEF RmNode, RemoveDirAll
            <3>5. CASE r = Fail(d)
                  <4>1. r.ok = FALSE /\ r.disk = d
                        BY <3>5 DEF Fail
                  <4>. QED BY <4>1 DEF n, w, r
            <3>6. CASE r = FsRmTree(d, w)
                  <4>1. r.ok = TRUE
                        BY <3>6 DEF FsRmTree, Done
                  <4>2. Taken(d, r.disk, w) /\ r.disk.node[w] = None
                        BY <2>1, <3>6, RmTreeTakes
                  <4>. QED BY <1>2, <2>1, <4>1, <4>2 DEF n, w, r
            <3>. QED BY <3>4, <3>5, <3>6
      <2>. QED BY <2>3, <2>4, <2>5, <2>6
<1>. QED BY <1>1, <1>2

\* What was taken is gone: for every way there was to it.
LEMMA TakenGone ==
    ASSUME NEW d \in Tree, NEW e \in Tree, NEW p \in Path, Shrunk(d, e),
           \A w \in Path : w = ResolveNF(d, p) => e.node[w] = None
    PROVE  Gone(e, p)
<1>1. SUFFICES ASSUME Meta(e, ResolveNF(e, p)) # None PROVE FALSE
      BY DEF Gone
<1>2. ResolveNF(e, p) = ResolveNF(d, p)
      BY <1>1, OperandStays
<1>3. ResolveNF(e, p) \in Path /\ Meta(e, ResolveNF(e, p)) = At(e, ResolveNF(e, p))
      BY <1>1, OperandIs
<1>. QED BY <1>1, <1>2, <1>3, VfsAssumption DEF At

\* rm of the first k operands: what it has taken from d0, and what is gone.
Removed(d, r, S, k, force) ==
    /\ r \in Result
    /\ r.disk.data = d.data
    /\ \A q \in Path : \/ r.disk.node[q] = d.node[q]
                       \/ /\ r.disk.node[q] = None
                          /\ \E i \in 1 .. k : Within(q, ResolveNF(d, S[i]))
    /\ r.ok /\ ~ force => \A i \in 1 .. k : Gone(r.disk, S[i])

LEMMA RmOneRemoves ==
    ASSUME NEW d \in Tree, NEW S \in Seq(Path), NEW k \in Nat, k + 1 \in 1 .. Len(S),
           NEW recursive \in BOOLEAN, NEW force \in BOOLEAN, NEW dir \in BOOLEAN,
           NEW r, Removed(d, r, S, k, force), r.ok
    PROVE  Removed(d, RmOne(r.disk, S[k + 1], recursive, force, dir), S, k + 1, force)
<1>. DEFINE c == r.disk
            p == S[k + 1]
            w == ResolveNF(c, p)
            t == RmNode(c, p, Meta(c, w), recursive, dir)
            u == RmOne(c, p, recursive, force, dir)
<1>1. c \in Tree /\ p \in Path
      BY DEF Removed, Result
<1>2. u \in Result
      BY <1>1, RmOneIn, PathFacts
<1>3. /\ t.ok \in BOOLEAN
      /\ t.ok => Meta(c, w) # None /\ w \in Path /\ Taken(c, t.disk, w) /\ t.disk.node[w] = None
      /\ ~ t.ok => t.disk = c
      <2>. HIDE DEF c, p
      <2>. QED BY <1>1, RmNodeTakes
<1>4. u.disk = t.disk /\ (u.ok /\ ~ force => t.ok)
      <2>1. u = Forced(force, t)
            BY DEF RmOne
      <2>2. t \in Result
            <3>1. p \in Name /\ p \in Seq(Nat)
                  BY <1>1, PathFacts, SeqFacts
            <3>. QED BY <1>1, <3>1, RemoveIn, DoneIn DEF RmNode
      <2>. HIDE DEF u, t
      <2>. QED BY <2>1, <2>2 DEF Forced, Result
<1>5. /\ c.data = d.data
      /\ \A q \in Path : \/ c.node[q] = d.node[q]
                         \/ /\ c.node[q] = None
                            /\ \E i \in 1 .. k : Within(q, ResolveNF(d, S[i]))
      /\ ~ force => \A i \in 1 .. k : Gone(c, S[i])
      BY DEF Removed
<1>6. Shrunk(d, c)
      BY <1>5 DEF Shrunk
<1>7. \A i \in 1 .. k : i \in 1 .. k + 1 /\ S[i] \in Path
      <2>1. PICK m \in Nat : m = Len(S)
            OBVIOUS
      <2>2. k + 1 <= m
            BY <2>1
      <2>3. \A i \in 1 .. m : S[i] \in Path
            BY <2>1
      <2>. QED BY <2>2, <2>3
<1>8. k + 1 \in 1 .. k + 1 /\ \A i \in 1 .. k + 1 : i \in 1 .. k \/ i = k + 1
      OBVIOUS
<1>9. u.disk \in Tree
      BY <1>2 DEF Result
<1>. HIDE DEF c, p, w, t, u
<1>10. CASE ~ t.ok
      <2>1. u.disk = c
            BY <1>3, <1>4, <1>10
      <2>2. ~ (u.ok /\ ~ force)
            BY <1>4, <1>10
      <2>. QED BY <1>2, <1>5, <1>7, <2>1, <2>2 DEF Removed, u, c, p
<1>11. CASE t.ok
      <2>1. Meta(c, w) # None /\ w \in Path /\ Taken(c, u.disk, w) /\ u.disk.node[w] = None
            BY <1>3, <1>4, <1>11
      <2>2. w = ResolveNF(d, p)
            BY <1>1, <1>6, <2>1, OperandStays DEF w
      <2>3. u.disk.data = d.data
            BY <1>5, <2>1 DEF Taken
      <2>4. ASSUME NEW q \in Path
            PROVE  \/ u.disk.node[q] = d.node[q]
                   \/ /\ u.disk.node[q] = None
                      /\ \E i \in 1 .. k + 1 : Within(q, ResolveNF(d, S[i]))
            <3>1. CASE u.disk.node[q] = c.node[q]
                  BY <1>5, <1>7, <3>1
            <3>2. CASE u.disk.node[q] = None /\ Within(q, w)
                  BY <1>8, <2>2, <3>2 DEF p
            <3>. QED BY <2>1, <3>1, <3>2 DEF Taken
      <2>5. Shrunk(c, u.disk)
            BY <2>1 DEF Taken, Shrunk
      <2>6. Gone(u.disk, p)
            BY <1>1, <1>9, <2>1, <2>5, TakenGone DEF w
      <2>7. ASSUME ~ force, NEW i \in 1 .. k + 1 PROVE Gone(u.disk, S[i])
            <3>1. CASE i = k + 1
                  BY <2>6, <3>1 DEF p
            <3>2. CASE i \in 1 .. k
                  <4>1. Gone(c, S[i]) /\ S[i] \in Path
                        BY <1>5, <1>7, <2>7, <3>2
                  <4>. QED BY <1>1, <1>9, <2>5, <4>1, GoneStays
            <3>. QED BY <1>8, <3>1, <3>2
      <2>. QED BY <1>2, <2>3, <2>4, <2>7 DEF Removed, u, c, p
<1>. QED BY <1>3, <1>10, <1>11

\* The function a loop of rm repeats.
IsRm(f, S, recursive, force, dir) ==
    \A x \in Tree, i \in 1 .. Len(S) : f[<<x, S[i]>>] = RmOne(x, S[i], recursive, force, dir)

LEMMA RmLoop ==
    ASSUME NEW d \in Tree, NEW S \in Seq(Path), NEW f,
           NEW recursive \in BOOLEAN, NEW force \in BOOLEAN, NEW dir \in BOOLEAN,
           IsRm(f, S, recursive, force, dir)
    PROVE  Removed(d, Loop(f, d, S), S, Len(S), force)
<1>1. PICK n \in Nat : n = Len(S)
      OBVIOUS
<1>. DEFINE R == CHOOSE g : g = [k \in 0 .. n |-> IF k = 0 THEN Done(d) ELSE Then(f, g[k - 1], S[k])]
<1>2. Steps(R, f, d, S, n)
      <2>1. \E g : Steps(g, f, d, S, n)
            BY StepsExist
      <2>2. \E g : g = [k \in 0 .. n |-> IF k = 0 THEN Done(d) ELSE Then(f, g[k - 1], S[k])]
            BY <2>1, Zenon DEF Steps
      <2>. QED BY <2>2, Zenon DEF Steps
<1>3. Loop(f, d, S) = R[n]
      BY <1>1 DEF Loop
<1>. HIDE DEF R
<1>. DEFINE K == {k \in Nat : k <= n => Removed(d, R[k], S, k, force)}
<1>4. 0 \in K
      <2>1. R[0] = Done(d)
            BY <1>2 DEF Steps
      <2>2. Removed(d, Done(d), S, 0, force)
            <3>1. Done(d) \in Result
                  BY DoneIn
            <3>2. Done(d).disk = d
                  BY DEF Done
            <3>. QED BY <3>1, <3>2 DEF Removed
      <2>. QED BY <2>1, <2>2
<1>5. ASSUME NEW k \in Nat, k \in K PROVE k + 1 \in K
      <2>1. SUFFICES ASSUME k + 1 <= n PROVE Removed(d, R[k + 1], S, k + 1, force)
            OBVIOUS
      <2>2. k + 1 \in 0 .. n /\ k + 1 \in 1 .. Len(S) /\ k + 1 # 0 /\ k + 1 - 1 = k
            BY <1>1, <2>1
      <2>3. Removed(d, R[k], S, k, force)
            BY <1>5, <2>1
      <2>4. R[k + 1] = Then(f, R[k], S[k + 1])
            BY <1>2, <2>2 DEF Steps
      <2>5. CASE R[k].ok
            <3>1. R[k].disk \in Tree
                  BY <2>3 DEF Removed, Result
            <3>2. R[k + 1] = RmOne(R[k].disk, S[k + 1], recursive, force, dir)
                  BY <2>2, <2>4, <2>5, <3>1 DEF Then, IsRm
            <3>. QED BY <2>2, <2>3, <2>5, <3>2, RmOneRemoves
      <2>6. CASE ~ R[k].ok
            <3>1. R[k + 1] = R[k]
                  BY <2>4, <2>6 DEF Then
            <3>2. \A i \in 1 .. k : i \in 1 .. k + 1
                  OBVIOUS
            <3>. QED BY <2>3, <2>6, <3>1, <3>2 DEF Removed
      <2>. QED BY <2>5, <2>6
<1>. HIDE DEF K
<1>6. n \in K
      BY <1>4, <1>5, NatSet
<1>. QED BY <1>1, <1>3, <1>6 DEF K

LEMMA UnlinkRemoves ==
    ASSUME NEW d \in Tree, NEW p \in Path
    PROVE  Removed(d, RemoveFile(d, p), <<p>>, 1, FALSE)
<1>. DEFINE w == ResolveNF(d, p)
            n == Meta(d, w)
            v == Walk(d, w, FALSE)
            r == RemoveFile(d, p)
            S == <<p>>
<1>1. r = PutAt(d, v, {"file", "link"}, None)
      BY DEF RemoveFile, FsUnlink
<1>2. r \in Result
      <2>1. p \in Seq(Nat)
            BY VfsAssumption
      <2>. QED BY <2>1, RemoveIn
<1>3. CASE v \in Path /\ At(d, v).kind \in {"file", "link"}
      <2>1. v # NoPath /\ n = At(d, v)
            BY <1>3, VfsAssumption DEF Meta, NodeAt
      <2>2. n # None /\ n # Dir
            <3>. HIDE DEF n, v
            <3>. QED BY <1>3, <2>1, DirIsNone
      <2>3. RmNode(d, p, n, FALSE, FALSE) = r
            BY <2>2 DEF RmNode
      <2>4. RmOne(d, p, FALSE, FALSE, FALSE) = r
            <3>1. RmOne(d, p, FALSE, FALSE, FALSE) = Forced(FALSE, r)
                  BY <2>3 DEF RmOne
            <3>. HIDE DEF r
            <3>2. Forced(FALSE, r) = r
                  BY <1>2 DEF Forced, Result
            <3>. QED BY <3>1, <3>2
      <2>5. S \in Seq(Path) /\ Len(S) = 1 /\ S[1] = p
            OBVIOUS
      <2>6. Removed(d, Done(d), S, 0, FALSE) /\ Done(d).ok /\ Done(d).disk = d
            <3>1. Done(d) \in Result
                  BY DoneIn
            <3>2. Done(d).disk = d /\ Done(d).ok
                  BY DEF Done
            <3>. QED BY <3>1, <3>2 DEF Removed
      <2>. HIDE DEF r, S, n, w, v
      <2>7. PICK t : t = Done(d)
            OBVIOUS
      <2>8. 0 + 1 \in 1 .. Len(S) /\ 0 + 1 = 1 /\ 0 \in Nat
            BY <2>5
      <2>9. Removed(d, RmOne(t.disk, S[0 + 1], FALSE, FALSE, FALSE), S, 0 + 1, FALSE)
            BY <2>5, <2>6, <2>7, <2>8, RmOneRemoves
      <2>. QED BY <2>4, <2>5, <2>6, <2>7, <2>8, <2>9 DEF r, S
<1>4. CASE ~ (v \in Path /\ At(d, v).kind \in {"file", "link"})
      <2>1. r = Fail(d)
            BY <1>1, <1>4 DEF PutAt
      <2>2. r.disk = d /\ r.ok = FALSE
            BY <2>1 DEF Fail
      <2>. HIDE DEF r
      <2>. QED BY <1>2, <2>2 DEF Removed, r
<1>. QED BY <1>3, <1>4

LEMMA AnswerIs ==
    ASSUME NEW op, NEW from, NEW to, NEW text, NEW r, Answer(op, from, to, text, r)
    PROVE  /\ answer'.op = op /\ answer'.from = from /\ answer'.to = to /\ answer'.ok = r.ok
           /\ disk' = Swept(r.disk)
BY DEF Answer

\* What the disk of the answer has of all that.
Cleanly(S, ok) ==
    /\ \A q \in Path : disk'.node[q] # disk.node[q] =>
          /\ disk'.node[q] = None
          /\ \E i \in 1 .. Len(S) : Within(q, ResolveNF(disk, S[i]))
    /\ \A q \in Path : disk'.node[q].kind = "file" =>
          disk'.data[disk'.node[q].ino] = disk.data[disk'.node[q].ino]
    /\ ok => \A i \in 1 .. Len(S) : Gone(disk', S[i])

LEMMA RemovedCleanly ==
    ASSUME disk \in Tree, NEW S \in Seq(Path), NEW force \in BOOLEAN, NEW r,
           Removed(disk, r, S, Len(S), force), disk' = Swept(r.disk)
    PROVE  Cleanly(S, r.ok /\ ~ force)
<1>. DEFINE c == r.disk
<1>1. c \in Tree
      BY DEF Removed, Result
<1>2. disk' \in Tree /\ disk'.node = c.node
      <2>1. Swept(c).node = c.node
            BY <1>1, TreeIn DEF Swept
      <2>. QED BY <1>1, <2>1, SweptIn
<1>3. \A q \in Path : \/ c.node[q] = disk.node[q]
                      \/ /\ c.node[q] = None
                         /\ \E i \in 1 .. Len(S) : Within(q, ResolveNF(disk, S[i]))
      BY DEF Removed
<1>4. c.data = disk.data /\ (r.ok /\ ~ force => \A i \in 1 .. Len(S) : Gone(c, S[i]))
      BY DEF Removed
<1>5. disk' = Swept(c)
      OBVIOUS
<1>. HIDE DEF c
<1>6. ASSUME NEW q \in Path, disk'.node[q].kind = "file"
      PROVE  disk'.data[disk'.node[q].ino] = disk.data[disk'.node[q].ino]
      <2>1. PICK n \in Node : n = c.node[q]
            BY <1>1, TreeIn
      <2>2. n.kind = "file"
            BY <1>2, <1>6, <2>1
      <2>3. n.ino \in Ino /\ c.node[q] = File(n.ino)
            BY <2>1, <2>2, Kinds
      <2>4. Swept(c).data[n.ino] = c.data[n.ino]
            BY <1>1, <2>3, TreeIn DEF Swept
      <2>. QED BY <1>2, <1>4, <1>5, <2>1, <2>4
<1>7. Shrunk(c, disk')
      BY <1>2 DEF Shrunk
<1>8. ASSUME r.ok /\ ~ force, NEW i \in 1 .. Len(S) PROVE Gone(disk', S[i])
      <2>1. S[i] \in Path /\ Gone(c, S[i])
            BY <1>4, <1>8
      <2>2. PICK e \in Tree : e = disk'
            BY <1>2
      <2>3. Gone(e, S[i])
            BY <1>1, <1>7, <2>1, <2>2, GoneStays
      <2>. QED BY <2>2, <2>3
<1>. QED BY <1>2, <1>3, <1>6, <1>8 DEF Cleanly

LEMMA RmCleanly ==
    ASSUME TypeOK, NEW S \in Lists, NEW recursive \in BOOLEAN, NEW force \in BOOLEAN, NEW dir \in BOOLEAN,
           Rm(S, recursive, force, dir)
    PROVE  \E x \in Seq(Path) : /\ answer'.from = x /\ Cleanly(x, answer'.ok /\ ~ force)
                                /\ answer'.op = IF force THEN "rm -f" ELSE "rm"
<1>. DEFINE one(d, p) == RmOne(d, p, recursive, force, dir)
            f == [x \in Disk \X Seq(Nat) |-> one(x[1], x[2])]
            op == IF force THEN "rm -f" ELSE "rm"
<1>1. disk \in Tree /\ S \in Seq(Path)
      BY TypeIs, ListFacts
<1>2. ASSUME NEW x \in Tree, NEW i \in 1 .. Len(S)
      PROVE  f[<<x, S[i]>>] = RmOne(x, S[i], recursive, force, dir)
      <2>1. S[i] \in Seq(Nat) /\ x \in Disk
            BY ListFacts, TreeIn
      <2>2. PICK y \in Seq(Nat) : y = S[i]
            BY <2>1
      <2>3. f[<<x, y>>] = one(x, y)
            BY <2>1
      <2>. QED BY <2>2, <2>3
<1>3. Answer(op, S, <<>>, <<>>, Loop(f, disk, S))
      BY Zenon DEF Rm, Each
<1>. HIDE DEF f, op
<1>4. PICK r : r = Loop(f, disk, S)
      OBVIOUS
<1>5. Removed(disk, r, S, Len(S), force)
      <2>1. IsRm(f, S, recursive, force, dir)
            BY <1>2, Zenon DEF IsRm
      <2>2. Removed(disk, Loop(f, disk, S), S, Len(S), force)
            BY <1>1, <2>1, RmLoop
      <2>. QED BY <1>4, <2>2, Zenon
<1>6. answer'.op = op /\ answer'.from = S /\ answer'.ok = r.ok /\ disk' = Swept(r.disk)
      BY <1>3, <1>4, AnswerIs
<1>7. Cleanly(S, r.ok /\ ~ force)
      BY <1>1, <1>5, <1>6, RemovedCleanly
<1>. QED BY <1>1, <1>6, <1>7, Zenon DEF op

LEMMA UnlinkCleanly ==
    ASSUME TypeOK, NEW p \in Path, Unlink(p)
    PROVE  \E x \in Seq(Path) : /\ answer'.from = x /\ Cleanly(x, answer'.ok)
                                /\ answer'.op = "rm"
<1>1. disk \in Tree
      BY TypeIs
<1>2. PICK r : r = RemoveFile(disk, p)
      OBVIOUS
<1>3. Removed(disk, r, <<p>>, 1, FALSE)
      BY <1>1, <1>2, UnlinkRemoves
<1>4. answer'.op = "rm" /\ answer'.from = <<p>> /\ answer'.ok = r.ok /\ disk' = Swept(r.disk)
      BY <1>2, AnswerIs DEF Unlink
<1>5. <<p>> \in Seq(Path) /\ Len(<<p>>) = 1
      OBVIOUS
<1>6. PICK S \in Seq(Path) : S = <<p>> /\ Len(S) = 1
      BY <1>5
<1>7. Cleanly(S, r.ok /\ ~ FALSE)
      BY <1>1, <1>3, <1>4, <1>6, RemovedCleanly
<1>8. r.ok \in BOOLEAN
      BY <1>3 DEF Removed, Result
<1>9. Cleanly(S, r.ok)
      BY <1>7, <1>8 DEF Cleanly
<1>. QED BY <1>4, <1>6, <1>9

LEMMA MvCalled ==
    ASSUME NEW S, NEW q, NEW keep, NEW force, Mv(S, q, keep, force)
    PROVE  answer'.op = IF force THEN "mv -f" ELSE IF keep THEN "mv -n" ELSE "mv"
<1>. DEFINE op == IF force THEN "mv -f" ELSE IF keep THEN "mv -n" ELSE "mv"
            one(d, p) == MvOne(d, p, Dest(d, p, q), keep, force)
            f == [x \in Disk \X Seq(Nat) |-> one(x[1], x[2])]
<1>1. Answer(op, S, <<q>>, <<>>, Loop(f, disk, S))
      BY Zenon DEF Mv, Each
<1>. HIDE DEF op
<1>2. answer'.op = op
      BY <1>1, AnswerIs
<1>. QED BY <1>2 DEF op

\* cd, pushd and popd.
Going ==
    \/ \E p \in Path \cup {Root} : Cd(p) \/ PushDir(p)
    \/ CdBack \/ PushSwap \/ PopDir

LEMMA GoingCalled == Going => answer'.op = "cd"
BY AnswerIs DEF Going, CdBack, Cd, PushDir, PushSwap, PopDir, Told

\* No other command is called rm, mv or cd.
Others == {">", ">>", "tee", "touch", "truncate", "cp -f", "cp -n", "cp", "install", "rmdir",
           "ln -s", "ln", "mkdir"}

LEMMA OthersAre ==
    ASSUME NEW op \in Others
    PROVE  op # "rm" /\ op # "rm -f" /\ op # "mv" /\ op # "cd"
BY Zenon DEF Others

LEMMA OtherCommands ==
    ASSUME Next,
           ~ \E S \in Lists, r \in BOOLEAN, force \in BOOLEAN, dir \in BOOLEAN : Rm(S, r, force, dir),
           ~ \E p \in Path : Unlink(p),
           ~ \E S \in Lists, q \in Path \cup {Root}, keep \in BOOLEAN, force \in BOOLEAN :
                 Mv(S, q, keep, force),
           ~ Going
    PROVE  answer'.op \in Others
<1>1. ASSUME NEW S, NEW append, NEW t, Tee(S, append, t)
      PROVE  answer'.op \in Others
      <2>1. answer'.op = "tee"
            BY <1>1, AnswerIs DEF Tee
      <2>. QED BY <2>1, Zenon DEF Others
<1>2. ASSUME NEW S, NEW b, Touch(S, b)
      PROVE  answer'.op \in Others
      <2>1. answer'.op = "touch"
            BY <1>2, AnswerIs DEF Touch
      <2>. QED BY <2>1, Zenon DEF Others
<1>3. ASSUME NEW S, Truncate(S)
      PROVE  answer'.op \in Others
      <2>1. answer'.op = "truncate"
            BY <1>3, AnswerIs DEF Truncate
      <2>. QED BY <2>1, Zenon DEF Others
<1>4. ASSUME NEW S, NEW q, NEW dir, Install(S, q, dir)
      PROVE  answer'.op \in Others
      <2>1. answer'.op = "install"
            BY <1>4, AnswerIs DEF Install
      <2>. QED BY <2>1, Zenon DEF Others
<1>5. ASSUME NEW p, NEW parents, RmDir(p, parents)
      PROVE  answer'.op \in Others
      <2>1. answer'.op = "rmdir"
            BY <1>5, AnswerIs DEF RmDir
      <2>. QED BY <2>1, Zenon DEF Others
<1>6. ASSUME NEW p, NEW q, LinkTo(p, q)
      PROVE  answer'.op \in Others
      <2>1. answer'.op = "ln"
            BY <1>6, AnswerIs DEF LinkTo
      <2>. QED BY <2>1, Zenon DEF Others
<1>7. ASSUME NEW S, NEW parents, Mkdir(S, parents)
      PROVE  answer'.op \in Others
      <2>1. answer'.op = "mkdir"
            BY <1>7, AnswerIs DEF Mkdir
      <2>. QED BY <2>1, Zenon DEF Others
<1>8. ASSUME NEW p, NEW q, NEW append, NEW o, NEW e, Redirect(p, q, append, o, e)
      PROVE  answer'.op \in Others
      <2>. DEFINE op == IF append THEN ">>" ELSE ">"
      <2>1. \E from, to, text, r : Answer(op, from, to, text, r)
            BY <1>8, Zenon DEF Redirect
      <2>2. op \in Others
            BY Zenon DEF Others
      <2>. HIDE DEF op
      <2>3. answer'.op = op
            BY <2>1, AnswerIs
      <2>. QED BY <2>2, <2>3
<1>9. ASSUME NEW S, NEW q, NEW recursive, NEW keep, NEW force, Cp(S, q, recursive, keep, force)
      PROVE  answer'.op \in Others
      <2>. DEFINE op == IF force THEN "cp -f" ELSE IF keep THEN "cp -n" ELSE "cp"
                  one(d, p) == CpOne(d, p, Resolve(d, p), Dest(d, p, q), recursive, keep, force)
                  f == [x \in Disk \X Seq(Nat) |-> one(x[1], x[2])]
      <2>1. Answer(op, S, <<q>>, <<>>, Loop(f, disk, S))
            BY <1>9, Zenon DEF Cp, Each
      <2>2. op \in Others
            BY Zenon DEF Others
      <2>. HIDE DEF op
      <2>3. answer'.op = op
            BY <2>1, AnswerIs
      <2>. QED BY <2>2, <2>3
<1>10. ASSUME NEW S, NEW q, NEW symbolic, NEW abs, NEW force, Ln(S, q, symbolic, abs, force)
      PROVE  answer'.op \in Others
      <2>. DEFINE op == IF symbolic THEN "ln -s" ELSE "ln"
                  to(p) == IF VIsDir(disk, q) THEN Append(Resolve(disk, q), Last(p)) ELSE ResolveNF(disk, q)
                  one(d, p) == LnOne(d, p, Resolve(d, p), to(Resolve(d, p)), symbolic, abs, force)
                  f == [x \in Disk \X Seq(Nat) |-> one(x[1], x[2])]
      <2>1. Answer(op, S, <<q>>, <<>>, Loop(f, disk, S))
            BY <1>10, Zenon DEF Ln, Each
      <2>2. op \in Others
            BY Zenon DEF Others
      <2>. HIDE DEF op
      <2>3. answer'.op = op
            BY <2>1, AnswerIs
      <2>. QED BY <2>2, <2>3
<1>. QED BY <1>1, <1>2, <1>3, <1>4, <1>5, <1>6, <1>7, <1>8, <1>9, <1>10, Zenon DEF Next, Going

\* From an operand of the list to its index.
LEMMA OperandAt ==
    ASSUME NEW S \in Seq(Path)
    PROVE  /\ \A p \in Range(S) : \E i \in 1 .. Len(S) : p = S[i]
           /\ \A i \in 1 .. Len(S) : S[i] \in Range(S)
<1>1. DOMAIN S = 1 .. Len(S)
      OBVIOUS
<1>. QED BY <1>1 DEF Range

LEMMA CleanIs ==
    ASSUME NEW S \in Seq(Path), answer'.from = S, NEW ok \in BOOLEAN, Cleanly(S, ok)
    PROVE  /\ RmOnly
           /\ ok => \A p \in Range(answer'.from) : Gone(disk', p)
<1>1. ASSUME NEW q \in Path, disk'.node[q] # disk.node[q]
      PROVE  disk'.node[q] = None /\ \E p \in Range(answer'.from) : Within(q, ResolveNF(disk, p))
      <2>1. disk'.node[q] = None /\ \E i \in 1 .. Len(S) : Within(q, ResolveNF(disk, S[i]))
            BY <1>1 DEF Cleanly
      <2>. QED BY <2>1, OperandAt
<1>2. \A q \in Path : disk'.node[q].kind = "file" =>
          disk'.data[disk'.node[q].ino] = disk.data[disk'.node[q].ino]
      BY DEF Cleanly
<1>3. ok => \A p \in Range(answer'.from) : Gone(disk', p)
      BY OperandAt DEF Cleanly
<1>. QED BY <1>1, <1>2, <1>3, Zenon DEF RmOnly

LEMMA RmExact == TypeOK /\ Next => RmOnly /\ RmDone
<1> SUFFICES ASSUME TypeOK, Next PROVE RmOnly /\ RmDone
    OBVIOUS
<1>1. ASSUME NEW S \in Lists, NEW recursive \in BOOLEAN, NEW force \in BOOLEAN, NEW dir \in BOOLEAN,
             Rm(S, recursive, force, dir)
      PROVE  RmOnly /\ RmDone
      <2>1. PICK x \in Seq(Path) : /\ answer'.from = x /\ Cleanly(x, answer'.ok /\ ~ force)
                                   /\ answer'.op = IF force THEN "rm -f" ELSE "rm"
            BY <1>1, RmCleanly
      <2>2. PICK ok \in BOOLEAN : ok = (answer'.ok /\ ~ force)
            OBVIOUS
      <2>3. RmOnly /\ (ok => \A p \in Range(answer'.from) : Gone(disk', p))
            BY <2>1, <2>2, CleanIs
      <2>4. answer'.op = "rm" => ~ force
            BY <2>1, Zenon
      <2>. QED BY <2>2, <2>3, <2>4, Zenon DEF RmDone
<1>2. ASSUME NEW p \in Path, Unlink(p) PROVE RmOnly /\ RmDone
      <2>1. PICK x \in Seq(Path) : answer'.from = x /\ Cleanly(x, answer'.ok) /\ answer'.op = "rm"
            BY <1>2, UnlinkCleanly
      <2>2. PICK ok \in BOOLEAN : ok = (answer'.ok = TRUE)
            OBVIOUS
      <2>3. Cleanly(x, ok)
            BY <2>1, <2>2 DEF Cleanly
      <2>4. RmOnly /\ (ok => \A q \in Range(answer'.from) : Gone(disk', q))
            BY <2>1, <2>3, CleanIs
      <2>. QED BY <2>2, <2>4 DEF RmDone
<1>3. ASSUME NEW S, NEW q, NEW keep, NEW force, Mv(S, q, keep, force) PROVE RmOnly /\ RmDone
      <2>1. answer'.op # "rm" /\ answer'.op # "rm -f"
            BY <1>3, MvCalled, Zenon
      <2>. QED BY <2>1, Zenon DEF RmOnly, RmDone
<1>4. CASE Going
      <2>1. answer'.op # "rm" /\ answer'.op # "rm -f"
            BY <1>4, GoingCalled, Zenon
      <2>. QED BY <2>1, Zenon DEF RmOnly, RmDone
<1>5. CASE /\ ~ \E S \in Lists, r \in BOOLEAN, force \in BOOLEAN, dir \in BOOLEAN : Rm(S, r, force, dir)
           /\ ~ \E p \in Path : Unlink(p)
           /\ ~ \E S \in Lists, q \in Path \cup {Root}, keep \in BOOLEAN, force \in BOOLEAN :
                    Mv(S, q, keep, force)
           /\ ~ Going
      <2>1. answer'.op # "rm" /\ answer'.op # "rm -f"
            BY <1>5, OtherCommands, OthersAre
      <2>. QED BY <2>1, Zenon DEF RmOnly, RmDone
<1>. QED BY <1>1, <1>2, <1>3, <1>4, <1>5, Zenon

\* rm, with any options, takes away nothing but what is at or below its operands,
\* wherever links lead, and the files that stay hold what they held; if it answers
\* 0 without -f, no operand is left (rm.rs:45, vfs/mod.rs:343).
THEOREM RemovalExact == Spec => [][RmOnly /\ RmDone]_vars
<1>1. TypeOK /\ [Next]_vars => [RmOnly /\ RmDone]_vars
      BY RmExact
<1>. QED BY <1>1, TypesHold, PTL DEF Spec

-----------------------------------------------------------------------------
(* Where a path may lead to.                                               *)

LEMMA PreWithin ==
    ASSUME NEW q \in Seq(Nat), NEW u \in Seq(Nat), Within(q, u), NEW j \in 1 .. Len(u)
    PROVE  j \in 1 .. Len(q) /\ Pre(q, j) = Pre(u, j)
<1>1. PICK m \in Nat : m = Len(u)
      OBVIOUS
<1>2. PICK n \in Nat : n = Len(q)
      OBVIOUS
<1>3. m <= n /\ \A i \in 1 .. m : u[i] = q[i]
      BY <1>1, <1>2, WithinIs
<1>4. j \in 0 .. m /\ j \in 0 .. n /\ j \in 1 .. n
      BY <1>1, <1>3
<1>5. /\ Pre(q, j) \in Seq(Nat) /\ Len(Pre(q, j)) = j /\ \A i \in 1 .. n : i <= j => Pre(q, j)[i] = q[i]
      /\ Pre(u, j) \in Seq(Nat) /\ Len(Pre(u, j)) = j /\ \A i \in 1 .. m : i <= j => Pre(u, j)[i] = u[i]
      BY <1>1, <1>2, <1>4, PreIs
<1>6. ASSUME NEW i \in 1 .. j PROVE Pre(q, j)[i] = Pre(u, j)[i]
      <2>1. i \in 1 .. m /\ i \in 1 .. n /\ i <= j
            BY <1>4
      <2>. QED BY <1>3, <1>5, <2>1
<1>. QED BY <1>2, <1>4, <1>5, <1>6, SeqEqual

LEMMA ConcatIs ==
    ASSUME NEW x \in Seq(Nat), NEW y \in Seq(Nat)
    PROVE  /\ x \o y \in Seq(Nat) /\ Len(x \o y) = Len(x) + Len(y)
           /\ \A j \in 1 .. Len(x) : (x \o y)[j] = x[j]
OBVIOUS

\* Following a link never makes a path shorter, and what is before the link stays.
LEMMA ThroughIs ==
    ASSUME NEW q \in Seq(Nat), NEW i \in 1 .. Len(q), NEW t \in Target, ~ t.abs
    PROVE  LET w == Through(q, i, t)
           IN  /\ w \in Seq(Nat) /\ Len(w) >= Len(q)
               /\ \A j \in 1 .. Len(q) : j < i => w[j] = q[j]
<1>. DEFINE a == Pre(q, i - 1)
            b == t.path
            c == SubSeq(q, i + 1, Len(q))
<1>1. PICK m \in Nat : m = Len(q)
      OBVIOUS
<1>2. i \in 1 .. m /\ i - 1 \in 0 .. m
      BY <1>1
<1>3. a \in Seq(Nat) /\ Len(a) = i - 1 /\ \A j \in 1 .. m : j <= i - 1 => a[j] = q[j]
      BY <1>1, <1>2, PreIs
<1>4. c \in Seq(Nat) /\ Len(c) = m - i
      BY <1>1, <1>2, RestOf
<1>5. b \in Seq(Nat) /\ Len(b) \in Nat /\ Len(b) > 0
      BY SeqFacts DEF Target
<1>6. Through(q, i, t) = a \o b \o c
      BY DEF Through
<1>. HIDE DEF a, b, c
<1>7. PICK k \in Nat : k = Len(b) /\ k > 0
      BY <1>5
<1>8. a \o b \in Seq(Nat) /\ Len(a \o b) = i - 1 + k /\ \A j \in 1 .. i - 1 : (a \o b)[j] = a[j]
      <2>1. a \in Seq(Nat) /\ b \in Seq(Nat) /\ Len(a) = i - 1 /\ Len(b) = k
            BY <1>3, <1>5, <1>7
      <2>2. a \o b \in Seq(Nat) /\ Len(a \o b) = Len(a) + Len(b) /\ \A j \in 1 .. Len(a) : (a \o b)[j] = a[j]
            BY <2>1, ConcatIs, Zenon
      <2>. QED BY <2>1, <2>2
<1>9. PICK x \in Seq(Nat) : x = a \o b
      BY <1>8
<1>10. x \o c \in Seq(Nat) /\ Len(x \o c) = Len(x) + Len(c) /\ \A j \in 1 .. Len(x) : (x \o c)[j] = x[j]
      <2>1. x \in Seq(Nat) /\ c \in Seq(Nat)
            BY <1>4
      <2>. QED BY <2>1, ConcatIs
<1>11. Len(x \o c) = i - 1 + k + (m - i)
      BY <1>4, <1>8, <1>9, <1>10
<1>12. Len(x \o c) >= m
      BY <1>2, <1>7, <1>11
<1>13. ASSUME NEW j \in 1 .. m, j < i PROVE (x \o c)[j] = q[j]
      <2>1. j \in 1 .. i - 1 /\ j \in 1 .. Len(x) /\ j <= i - 1
            BY <1>2, <1>7, <1>8, <1>9, <1>13
      <2>. QED BY <1>3, <1>8, <1>9, <1>10, <2>1
<1>. QED BY <1>1, <1>6, <1>9, <1>10, <1>12, <1>13

LEMMA FollowKeeps ==
    ASSUME NEW d \in Disk, NEW q \in Seq(Nat), NEW last \in BOOLEAN, Followed(d, q, last) # NoPath
    PROVE  LET w == Followed(d, q, last)
           IN  /\ w \in Seq(Nat) /\ Len(w) >= Len(q)
               /\ \A u \in Seq(Nat) : Links(d, u, TRUE) = {} /\ Within(q, u) => Within(w, u)
<1>1. CASE Links(d, q, last) = {}
      <2>. DEFINE w == Followed(d, q, last)
      <2>1. w = q
            BY <1>1 DEF Followed
      <2>2. Len(q) >= Len(q)
            OBVIOUS
      <2>. HIDE DEF w
      <2>. QED BY <2>1, <2>2 DEF w
<1>2. CASE Links(d, q, last) # {}
      <2>. DEFINE w == Followed(d, q, last)
      <2>1. PICK i \in Links(d, q, last) :
                 /\ w = IF q = NoPath THEN q ELSE Through(q, i, At(d, Pre(q, i)).to)
                 /\ i \in 1 .. Len(q)
            BY <1>2, FirstLink
      <2>2. q # NoPath /\ At(d, Pre(q, i)).kind = "link"
            BY VfsAssumption DEF Links
      <2>3. PICK t \in Target : t = At(d, Pre(q, i)).to /\ t.abs \in BOOLEAN
            BY <2>2, AtIn, Kinds
      <2>4. w = Through(q, i, t)
            BY <2>1, <2>2, <2>3
      <2>5. ~ t.abs
            BY <2>4 DEF Through
      <2>. HIDE DEF w
      <2>6. w \in Seq(Nat) /\ Len(w) >= Len(q) /\ \A j \in 1 .. Len(q) : j < i => w[j] = q[j]
            BY <2>1, <2>4, <2>5, ThroughIs
      <2>7. ASSUME NEW u \in Seq(Nat), Links(d, u, TRUE) = {}, Within(q, u) PROVE Within(w, u)
            <3>1. PICK n \in Nat : n = Len(u)
                  OBVIOUS
            <3>2. PICK m \in Nat : m = Len(q)
                  OBVIOUS
            <3>3. n <= m /\ \A j \in 1 .. n : u[j] = q[j]
                  BY <2>7, <3>1, <3>2, WithinIs
            <3>4. i > n
                  <4>1. SUFFICES ASSUME i \in 1 .. n PROVE FALSE
                        BY <2>1, <3>2
                  <4>2. Pre(q, i) = Pre(u, i)
                        BY <2>7, <3>1, <4>1, PreWithin
                  <4>3. i \in Links(d, u, TRUE)
                        BY <2>2, <3>1, <4>1, <4>2 DEF Links
                  <4>. QED BY <2>7, <4>3
            <3>5. \A j \in 1 .. n : u[j] = w[j]
                  <4>1. ASSUME NEW j \in 1 .. n PROVE u[j] = w[j]
                        <5>1. j \in 1 .. m /\ j < i
                              BY <2>1, <3>2, <3>3, <3>4
                        <5>. QED BY <2>6, <3>2, <3>3, <5>1
                  <4>. QED BY <4>1
            <3>6. Len(u) <= Len(w)
                  BY <2>6, <3>1, <3>2, <3>3
            <3>. QED BY <2>6, <3>1, <3>5, <3>6, WithinIs
      <2>. QED BY <2>6, <2>7 DEF w
<1>. QED BY <1>1, <1>2

\* A name in a directory leads nowhere else than below it.
Below(d, n) ==
    {z \in ({NoPath} \cup Seq(Nat)) \X ({NoPath} \cup Seq(Nat)) :
        \/ z[1] = NoPath \/ z[2] = NoPath
        \/ z[2] = Append(z[1], n)
        \/ Links(d, z[1], TRUE) = {} /\ Within(z[2], z[1])}

LEMMA BelowStays ==
    ASSUME NEW d \in Disk, NEW n \in Nat, NEW x, NEW y, <<x, y>> \in Below(d, n)
    PROVE  <<Followed(d, x, TRUE), Followed(d, y, TRUE)>> \in Below(d, n)
<1>. DEFINE v == Followed(d, x, TRUE)
            w == Followed(d, y, TRUE)
<1>1. x \in Seq(Nat) \cup {NoPath} /\ y \in Seq(Nat) \cup {NoPath}
      BY DEF Below
<1>2. v \in Seq(Nat) \cup {NoPath} /\ w \in Seq(Nat) \cup {NoPath}
      BY <1>1, FollowedSeq
<1>3. CASE x = NoPath \/ y = NoPath
      <2>1. v = NoPath \/ w = NoPath
            BY <1>3 DEF Followed
      <2>. QED BY <1>2, <2>1 DEF Below
<1>4. CASE w = NoPath
      BY <1>2, <1>4 DEF Below
<1>5. CASE x # NoPath /\ y # NoPath /\ w # NoPath /\ Links(d, x, TRUE) = {}
      <2>1. v = x
            BY <1>5 DEF Followed
      <2>2. Within(y, x)
            <3>1. CASE y = Append(x, n)
                  <4>1. Append(x, n) \in Name /\ Front(Append(x, n)) = x
                        BY <1>1, <1>5, AppendName
                  <4>. QED BY <1>1, <1>5, <3>1, <4>1, WithinFront
            <3>. QED BY <1>5, <3>1 DEF Below
      <2>3. Within(w, x)
            BY <1>1, <1>5, <2>2, FollowKeeps
      <2>. QED BY <1>2, <1>5, <2>1, <2>3 DEF Below
<1>6. CASE x # NoPath /\ y # NoPath /\ w # NoPath /\ Links(d, x, TRUE) # {}
      <2>1. y = Append(x, n)
            BY <1>6 DEF Below
      <2>2. LET z == Followed(d, x, TRUE)
            IN  Followed(d, y, TRUE) = IF z = NoPath THEN NoPath ELSE Append(z, n)
            BY <1>1, <1>6, <2>1, AppendFollowed
      <2>. QED BY <1>2, <2>2 DEF Below
<1>. QED BY <1>3, <1>4, <1>5, <1>6

LEMMA EntryWithin ==
    ASSUME NEW d \in Disk, NEW q \in Seq(Nat), NEW n \in Nat,
           Real(d, q) # NoPath, Real(d, Append(q, n)) # NoPath
    PROVE  Within(Real(d, Append(q, n)), Real(d, q))
<1>. DEFINE f == [x \in {NoPath} \cup Seq(Nat) |-> Followed(d, x, TRUE)]
            R == Below(d, n)
            a == Real(d, q)
            b == Real(d, Append(q, n))
<1>1. ASSUME NEW x, NEW y, <<x, y>> \in R PROVE <<f[x], f[y]>> \in R
      <2>1. x \in {NoPath} \cup Seq(Nat) /\ y \in {NoPath} \cup Seq(Nat)
            BY <1>1 DEF Below
      <2>2. <<Followed(d, x, TRUE), Followed(d, y, TRUE)>> \in R
            BY <1>1, BelowStays
      <2>. QED BY <2>1, <2>2
<1>2. Append(q, n) \in Seq(Nat) /\ q # NoPath
      BY VfsAssumption
<1>3. <<q, Append(q, n)>> \in R
      BY <1>2 DEF Below
<1>4. /\ Leading(d, q, TRUE) = Times(f, q, MaxLinks)
      /\ Leading(d, Append(q, n), TRUE) = Times(f, Append(q, n), MaxLinks)
      BY <1>2, Leads
<1>5. /\ a = Leading(d, q, TRUE) /\ a \in Seq(Nat) /\ Links(d, a, TRUE) = {}
      /\ b = Leading(d, Append(q, n), TRUE) /\ b \in Seq(Nat)
      BY <1>2, RealIs
<1>. HIDE DEF f, R
<1>6. <<Times(f, q, MaxLinks), Times(f, Append(q, n), MaxLinks)>> \in R
      BY <1>1, <1>3, TimesPair, VfsAssumption
<1>7. <<a, b>> \in Below(d, n)
      BY <1>4, <1>5, <1>6 DEF R
<1>. HIDE DEF a, b
<1>8. b = Append(a, n) \/ Within(b, a)
      BY <1>5, <1>7, VfsAssumption DEF Below
<1>9. Append(a, n) \in Name /\ Front(Append(a, n)) = a
      BY <1>5, AppendName
<1>. QED BY <1>5, <1>8, <1>9, WithinFront DEF a, b

-----------------------------------------------------------------------------
(* A path on a disk of which a tree was taken and another put somewhere.   *)

\* The path that leads to b is not below s, and no longer than b.
Off(s, b, x) == x = NoPath \/ Len(x) > Len(b) \/ Within(x, s)

\* Nothing has changed but at or below s and b.
Changed(d, e, s, b) ==
    \A q \in Path : e.node[q] # d.node[q] => Within(q, s) \/ Within(q, b)

LEMMA OffStays ==
    ASSUME NEW d \in Disk, NEW s \in Seq(Nat), NEW b \in Seq(Nat), Links(d, s, TRUE) = {},
           NEW x \in Seq(Nat) \cup {NoPath}, Off(s, b, x)
    PROVE  Off(s, b, Followed(d, x, FALSE))
<1>1. PICK w : w = Followed(d, x, FALSE)
      OBVIOUS
<1>2. ASSUME w # NoPath PROVE Off(s, b, w)
      <2>1. x # NoPath /\ x \in Seq(Nat)
            BY <1>1, <1>2 DEF Followed
      <2>2. w \in Seq(Nat) /\ Len(w) >= Len(x) /\ (Within(x, s) => Within(w, s))
            BY <1>1, <1>2, <2>1, FollowKeeps
      <2>3. PICK i \in Nat, j \in Nat, k \in Nat : i = Len(w) /\ j = Len(x) /\ k = Len(b)
            BY <2>1, <2>2
      <2>4. j > k \/ Within(x, s)
            BY <2>1, <2>3 DEF Off
      <2>5. i > k \/ Within(w, s)
            BY <2>2, <2>3, <2>4
      <2>. QED BY <2>3, <2>5 DEF Off
<1>. QED BY <1>1, <1>2 DEF Off

LEMMA PreInside ==
    ASSUME NEW x \in Seq(Nat), NEW i \in 0 .. Len(x)
    PROVE  /\ Within(x, Pre(x, i))
           /\ \A u \in Seq(Nat) : Within(Pre(x, i), u) => Len(u) <= i /\ Within(x, u)
<1>1. PICK m \in Nat : m = Len(x)
      OBVIOUS
<1>. DEFINE y == Pre(x, i)
<1>2. y \in Seq(Nat) /\ Len(y) = i /\ \A j \in 1 .. m : j <= i => y[j] = x[j]
      BY <1>1, PreIs
<1>. HIDE DEF y
<1>3. i \in 0 .. m
      BY <1>1
<1>4. ASSUME NEW j \in 1 .. i PROVE y[j] = x[j]
      BY <1>2, <1>3
<1>5. Within(x, y)
      BY <1>1, <1>2, <1>3, <1>4, WithinIs
<1>6. ASSUME NEW u \in Seq(Nat), Within(y, u) PROVE Len(u) <= i /\ Within(x, u)
      <2>1. PICK k \in Nat : k = Len(u)
            OBVIOUS
      <2>2. k <= i /\ \A j \in 1 .. k : u[j] = y[j]
            BY <1>2, <1>6, <2>1, WithinIs
      <2>3. ASSUME NEW j \in 1 .. k PROVE u[j] = x[j]
            <3>1. j \in 1 .. i
                  BY <1>3, <2>2
            <3>. QED BY <1>4, <2>2, <3>1
      <2>. QED BY <1>1, <1>3, <2>1, <2>2, <2>3, WithinIs
<1>. QED BY <1>5, <1>6 DEF y

\* On the way of a path both disks say the same.
SameWay(d, e, x) ==
    /\ \A i \in 1 .. Len(x) - 1 : At(e, Pre(x, i)) = At(d, Pre(x, i))
    /\ Links(e, x, FALSE) = Links(d, x, FALSE)
    /\ Followed(e, x, FALSE) = Followed(d, x, FALSE)

LEMMA SameStep ==
    ASSUME NEW d \in Disk, NEW e \in Disk, NEW s \in Seq(Nat), NEW b \in Seq(Nat), Changed(d, e, s, b),
           NEW x \in Seq(Nat), ~ Off(s, b, x)
    PROVE  SameWay(d, e, x)
<1>1. PICK m \in Nat : m = Len(x)
      OBVIOUS
<1>2. ASSUME NEW i \in 1 .. m - 1 PROVE At(e, Pre(x, i)) = At(d, Pre(x, i))
      <2>1. i \in 0 .. m
            OBVIOUS
      <2>2. ~ Within(Pre(x, i), s)
            BY <1>1, <2>1, PreInside DEF Off
      <2>3. ~ Within(Pre(x, i), b)
            <3>1. SUFFICES ASSUME Within(Pre(x, i), b) PROVE FALSE
                  OBVIOUS
            <3>2. Len(b) <= i /\ Len(b) \in Nat
                  BY <1>1, <2>1, <3>1, PreInside
            <3>3. Len(x) > Len(b)
                  BY <1>1, <3>2
            <3>. QED BY <3>3 DEF Off
      <2>. QED BY <2>2, <2>3 DEF At, Changed
<1>3. Links(e, x, FALSE) = Links(d, x, FALSE)
      BY <1>1, <1>2 DEF Links
<1>4. Followed(e, x, FALSE) = Followed(d, x, FALSE)
      <2>1. CASE Links(d, x, FALSE) = {}
            BY <1>3, <2>1 DEF Followed
      <2>2. CASE Links(d, x, FALSE) # {}
            <3>1. PICK i \in Links(d, x, FALSE) :
                       /\ i = CHOOSE k \in Links(d, x, FALSE) : \A j \in Links(d, x, FALSE) : k <= j
                       /\ Followed(d, x, FALSE) = IF x = NoPath THEN x ELSE Through(x, i, At(d, Pre(x, i)).to)
                  BY <2>2, FirstLink
            <3>2. PICK l \in Links(e, x, FALSE) :
                       /\ l = CHOOSE k \in Links(e, x, FALSE) : \A j \in Links(e, x, FALSE) : k <= j
                       /\ Followed(e, x, FALSE) = IF x = NoPath THEN x ELSE Through(x, l, At(e, Pre(x, l)).to)
                  BY <1>3, <2>2, FirstLink
            <3>3. i = l
                  BY <1>3, <3>1, <3>2, Zenon
            <3>4. i \in 1 .. m - 1
                  BY <1>1 DEF Links
            <3>5. At(e, Pre(x, i)) = At(d, Pre(x, i))
                  BY <1>2, <3>4
            <3>6. At(e, Pre(x, l)) = At(d, Pre(x, i))
                  BY <3>3, <3>5
            <3>7. Through(x, l, At(e, Pre(x, l)).to) = Through(x, i, At(d, Pre(x, i)).to)
                  BY <3>3, <3>6
            <3>8. x # NoPath
                  BY VfsAssumption
            <3>9. Followed(d, x, FALSE) = Through(x, i, At(d, Pre(x, i)).to)
                  BY <3>1, <3>8, Zenon
            <3>10. Followed(e, x, FALSE) = Through(x, l, At(e, Pre(x, l)).to)
                  BY <3>2, <3>8, Zenon
            <3>. QED BY <3>7, <3>9, <3>10
      <2>. QED BY <2>1, <2>2
<1>5. \A i \in 1 .. Len(x) - 1 : At(e, Pre(x, i)) = At(d, Pre(x, i))
      BY <1>1, <1>2
<1>. QED BY <1>3, <1>4, <1>5 DEF SameWay

\* What is looked up without following the last link is the same on both disks.
SameEnd(d, e, p) == Walk(e, p, FALSE) = Walk(d, p, FALSE)

LEMMA SameWalk ==
    ASSUME NEW d \in Disk, NEW e \in Disk, NEW s \in Seq(Nat), NEW p \in Seq(Nat),
           Walk(d, p, FALSE) # NoPath, ~ Within(Walk(d, p, FALSE), s),
           Links(d, s, TRUE) = {}, Changed(d, e, s, Walk(d, p, FALSE))
    PROVE  SameEnd(d, e, p)
<1>. DEFINE b == Walk(d, p, FALSE)
            X == {NoPath} \cup Seq(Nat)
            f == [x \in X |-> Followed(d, x, FALSE)]
            g == [x \in X |-> Followed(e, x, FALSE)]
            R == {z \in X \X X : z[1] = z[2] \/ Off(s, b, z[1])}
<1>1. /\ b = Leading(d, p, FALSE) /\ b \in Seq(Nat) /\ Links(d, b, FALSE) = {}
      /\ \A i \in 1 .. Len(b) - 1 : At(d, Pre(b, i)) = Dir
      BY WalkIs
<1>2. Changed(d, e, s, b) /\ ~ Within(b, s) /\ b # NoPath
      OBVIOUS
<1>. HIDE DEF b
<1>3. ASSUME NEW x, NEW y, <<x, y>> \in R PROVE <<f[x], g[y]>> \in R
      <2>1. x \in X /\ y \in X /\ (x = y \/ Off(s, b, x))
            BY <1>3
      <2>2. PICK v, w : v = Followed(d, x, FALSE) /\ w = Followed(e, y, FALSE)
            OBVIOUS
      <2>3. f[x] = v /\ g[y] = w
            BY <2>1, <2>2
      <2>4. v \in X /\ w \in X
            BY <2>1, <2>2, FollowedSeq
      <2>. HIDE DEF f, g
      <2>5. CASE Off(s, b, x)
            <3>1. Off(s, b, v)
                  BY <1>1, <2>1, <2>2, <2>5, OffStays
            <3>. QED BY <2>3, <2>4, <3>1
      <2>6. CASE ~ Off(s, b, x)
            <3>1. x = y /\ x \in Seq(Nat)
                  BY <2>1, <2>6 DEF Off
            <3>2. b \in Seq(Nat)
                  BY <1>1
            <3>3. SameWay(d, e, x)
                  BY <1>2, <2>6, <3>1, <3>2, SameStep
            <3>4. v = w
                  BY <2>2, <3>1, <3>3 DEF SameWay
            <3>. QED BY <2>3, <2>4, <3>4
      <2>. QED BY <2>5, <2>6
<1>4. <<p, p>> \in R
      OBVIOUS
<1>5. Leading(d, p, FALSE) = Times(f, p, MaxLinks) /\ Leading(e, p, FALSE) = Times(g, p, MaxLinks)
      BY Leads
<1>. HIDE DEF f, g, R
<1>6. <<Times(f, p, MaxLinks), Times(g, p, MaxLinks)>> \in R
      BY <1>3, <1>4, TimesPair, VfsAssumption
<1>7. ~ Off(s, b, b)
      <2>1. b \in Seq(Nat)
            BY <1>1
      <2>2. ~ (Len(b) > Len(b))
            BY <2>1
      <2>. QED BY <1>2, <2>2 DEF Off
<1>8. Leading(e, p, FALSE) = b
      BY <1>1, <1>5, <1>6, <1>7 DEF R
<1>9. /\ \A i \in 1 .. Len(b) - 1 : At(e, Pre(b, i)) = At(d, Pre(b, i))
      /\ Links(e, b, FALSE) = Links(d, b, FALSE)
      <2>1. b \in Seq(Nat)
            BY <1>1
      <2>2. SameWay(d, e, b)
            BY <1>2, <1>7, <2>1, SameStep
      <2>. QED BY <2>2 DEF SameWay
<1>10. \A i \in 1 .. Len(b) - 1 : At(e, Pre(b, i)) = Dir
      BY <1>1, <1>9
<1>11. Links(e, b, FALSE) = {}
      BY <1>1, <1>9
<1>12. PICK l : l = Leading(e, p, FALSE)
      OBVIOUS
<1>13. l = b
      BY <1>8, <1>12
<1>14. Walk(e, p, FALSE) = b
      BY <1>2, <1>10, <1>11, <1>12, <1>13, WalkIs
<1>. QED BY <1>14 DEF b, SameEnd

-----------------------------------------------------------------------------
(* The directories that are made for a path.                               *)

\* e is d with more directories.
Grown(d, e) ==
    \A q \in Path : e.node[q] = d.node[q] \/ (d.node[q] = None /\ e.node[q] = Dir)

LEMMA GrownAt ==
    ASSUME NEW d \in Disk, NEW e \in Disk, Grown(d, e), NEW p
    PROVE  /\ At(e, p) = At(d, p) \/ (At(d, p) = None /\ At(e, p) = Dir)
           /\ At(e, p).kind = "link" <=> At(d, p).kind = "link"
           /\ At(d, p).kind = "link" => At(e, p) = At(d, p)
<1>1. At(e, p) = At(d, p) \/ (At(d, p) = None /\ At(e, p) = Dir)
      BY DEF Grown, At
<1>. QED BY <1>1, DirIsNone

\* More directories change no way.
LEMMA GrownLeads ==
    ASSUME NEW d \in Disk, NEW e \in Disk, Grown(d, e), NEW p \in Seq(Nat), NEW last \in BOOLEAN
    PROVE  /\ Leading(e, p, last) = Leading(d, p, last)
           /\ \A q : Links(e, q, last) = Links(d, q, last)
<1>1. ASSUME NEW q PROVE Links(e, q, last) = Links(d, q, last)
      BY GrownAt DEF Links
<1>2. ASSUME NEW q \in {NoPath} \cup Seq(Nat) PROVE Followed(e, q, last) = Followed(d, q, last)
      <2>1. CASE q = NoPath \/ Links(d, q, last) = {}
            BY <1>1, <2>1 DEF Followed
      <2>2. CASE q # NoPath /\ Links(d, q, last) # {}
            <3>1. PICK i \in Links(d, q, last) :
                       /\ i = CHOOSE k \in Links(d, q, last) : \A j \in Links(d, q, last) : k <= j
                       /\ Followed(d, q, last) = IF q = NoPath THEN q ELSE Through(q, i, At(d, Pre(q, i)).to)
                  BY <2>2, FirstLink
            <3>2. PICK l \in Links(e, q, last) :
                       /\ l = CHOOSE k \in Links(e, q, last) : \A j \in Links(e, q, last) : k <= j
                       /\ Followed(e, q, last) = IF q = NoPath THEN q ELSE Through(q, l, At(e, Pre(q, l)).to)
                  BY <1>1, <2>2, FirstLink
            <3>10. Links(e, q, last) = Links(d, q, last)
                  BY <1>1
            <3>3. i = l
                  BY <3>1, <3>2, <3>10, Zenon
            <3>4. At(d, Pre(q, i)).kind = "link"
                  BY DEF Links
            <3>5. At(e, Pre(q, i)) = At(d, Pre(q, i))
                  BY <3>4, GrownAt
            <3>6. At(e, Pre(q, l)) = At(d, Pre(q, i))
                  BY <3>3, <3>5
            <3>7. Through(q, l, At(e, Pre(q, l)).to) = Through(q, i, At(d, Pre(q, i)).to)
                  BY <3>3, <3>6
            <3>8. Followed(d, q, last) = Through(q, i, At(d, Pre(q, i)).to)
                  BY <2>2, <3>1, Zenon
            <3>9. Followed(e, q, last) = Through(q, l, At(e, Pre(q, l)).to)
                  BY <2>2, <3>2, Zenon
            <3>. QED BY <3>7, <3>8, <3>9
      <2>. QED BY <2>1, <2>2
<1>3. [q \in {NoPath} \cup Seq(Nat) |-> Followed(e, q, last)]
        = [q \in {NoPath} \cup Seq(Nat) |-> Followed(d, q, last)]
      BY <1>2, Zenon
<1>4. Leading(e, p, last) = Leading(d, p, last)
      BY <1>1, <1>3, Zenon DEF Leading
<1>. QED BY <1>1, <1>4

LEMMA GrownWalk ==
    ASSUME NEW d \in Disk, NEW e \in Disk, Grown(d, e), NEW p \in Seq(Nat), NEW last \in BOOLEAN,
           Walk(d, p, last) # NoPath
    PROVE  Walk(e, p, last) = Walk(d, p, last)
<1>. DEFINE w == Walk(d, p, last)
<1>1. /\ w = Leading(d, p, last) /\ w \in Seq(Nat) /\ Links(d, w, last) = {}
      /\ \A i \in 1 .. Len(w) - 1 : At(d, Pre(w, i)) = Dir
      BY WalkIs
<1>2. w # NoPath
      OBVIOUS
<1>. HIDE DEF w
<1>3. Leading(e, p, last) = w /\ Links(e, w, last) = {}
      BY <1>1, GrownLeads
<1>4. \A i \in 1 .. Len(w) - 1 : At(e, Pre(w, i)) = Dir
      BY <1>1, GrownAt, DirIsNone
<1>5. Walk(e, p, last) = w
      BY <1>2, <1>3, <1>4, WalkIs
<1>. QED BY <1>5 DEF w

LEMMA GrownReal ==
    ASSUME NEW d \in Disk, NEW e \in Disk, Grown(d, e), NEW p \in Seq(Nat), Real(d, p) # NoPath
    PROVE  Real(e, p) = Real(d, p) /\ At(e, Real(d, p)) = At(d, Real(d, p))
<1>1. Real(d, p) = Walk(d, p, TRUE) /\ At(d, Real(d, p)) # None
      BY DEF Real, There, NodeAt
<1>2. Walk(e, p, TRUE) = Real(d, p)
      BY <1>1, GrownWalk
<1>3. At(e, Real(d, p)) = At(d, Real(d, p))
      BY <1>1, GrownAt
<1>. QED BY <1>1, <1>2, <1>3 DEF Real, There, NodeAt

LEMMA GrownOn ==
    ASSUME NEW d, NEW x, NEW e, Grown(d, x), Grown(x, e)
    PROVE  Grown(d, e)
BY DirIsNone DEF Grown

LEMMA PreNext ==
    ASSUME NEW p \in Seq(Nat), NEW k \in Nat, k + 1 \in 1 .. Len(p)
    PROVE  /\ Pre(p, k) \in Seq(Nat) /\ p[k + 1] \in Nat
           /\ Pre(p, k + 1) = Append(Pre(p, k), p[k + 1]) /\ Pre(p, k + 1) \in Seq(Nat)
<1>1. PICK m \in Nat : m = Len(p)
      OBVIOUS
<1>2. k \in 0 .. m /\ k + 1 \in 0 .. m /\ k + 1 \in 1 .. m
      BY <1>1
<1>. DEFINE a == Pre(p, k)
            b == Pre(p, k + 1)
            n == p[k + 1]
<1>3. /\ a \in Seq(Nat) /\ Len(a) = k /\ \A j \in 1 .. m : j <= k => a[j] = p[j]
      /\ b \in Seq(Nat) /\ Len(b) = k + 1 /\ \A j \in 1 .. m : j <= k + 1 => b[j] = p[j]
      BY <1>1, <1>2, PreIs
<1>4. n \in Nat
      BY <1>1, <1>2
<1>. HIDE DEF a, b
<1>. DEFINE c == Append(a, n)
<1>5. c \in Seq(Nat) /\ Len(c) = k + 1 /\ c[k + 1] = n /\ \A j \in 1 .. k : c[j] = a[j]
      <2>1. a \in Seq(Nat) /\ Len(a) = k
            BY <1>3
      <2>. HIDE DEF n
      <2>. QED BY <1>4, <2>1, AppendNames
<1>. HIDE DEF c
<1>6. ASSUME NEW j \in 1 .. k + 1 PROVE b[j] = c[j]
      <2>1. j \in 1 .. m /\ j <= k + 1
            BY <1>2
      <2>2. CASE j = k + 1
            BY <1>3, <1>5, <2>1, <2>2
      <2>3. CASE j # k + 1
            <3>1. j <= k /\ j \in 1 .. k
                  BY <2>3
            <3>. QED BY <1>3, <1>5, <2>1, <3>1
      <2>. QED BY <2>2, <2>3
<1>7. b = c
      BY <1>3, <1>5, <1>6, SeqEqual
<1>. QED BY <1>3, <1>4, <1>7 DEF a, b, c

\* After the directories of the first k names of p are there: what was made is on
\* the way.
Built(d, x, p, k) ==
    /\ x \in Tree /\ Grown(d, x) /\ x.data = d.data
    /\ Real(x, Pre(p, k)) # NoPath /\ At(x, Real(x, Pre(p, k))) = Dir
    /\ \A q \in Path : x.node[q] # d.node[q] => Within(Real(x, Pre(p, k)), q)

LEMMA WithinTrans ==
    ASSUME NEW x \in Seq(Nat), NEW y \in Seq(Nat), NEW z \in Seq(Nat), Within(x, y), Within(y, z)
    PROVE  Within(x, z)
<1>1. PICK i \in Nat, j \in Nat, k \in Nat : i = Len(x) /\ j = Len(y) /\ k = Len(z)
      OBVIOUS
<1>2. j <= i /\ \A n \in 1 .. j : y[n] = x[n]
      BY <1>1, WithinIs
<1>3. k <= j /\ \A n \in 1 .. k : z[n] = y[n]
      BY <1>1, WithinIs
<1>4. ASSUME NEW n \in 1 .. k PROVE z[n] = x[n]
      <2>1. n \in 1 .. j
            BY <1>3
      <2>. QED BY <1>2, <1>3, <2>1
<1>. QED BY <1>1, <1>2, <1>3, <1>4, WithinIs

LEMMA PutIs ==
    ASSUME NEW d \in Tree, NEW w \in Path, NEW n
    PROVE  /\ Put(d, w, n).data = d.data
           /\ \A q \in Path : Put(d, w, n).node[q] = IF q = w THEN n ELSE d.node[q]
<1>1. Put(d, w, n).data = d.data
      BY TreeIn DEF Put
<1>2. \A q \in Path : Put(d, w, n).node[q] = IF q = w THEN n ELSE d.node[q]
      BY TreeIn DEF Put
<1>. QED BY <1>1, <1>2

LEMMA MkDirBuilds ==
    ASSUME NEW d \in Tree, NEW x, NEW p \in Seq(Nat), NEW k \in Nat, k + 1 \in 1 .. Len(p),
           Built(d, x, p, k), MkDirOr(x, Pre(p, k + 1)).ok
    PROVE  Built(d, MkDirOr(x, Pre(p, k + 1)).disk, p, k + 1)
<1>. DEFINE q == Pre(p, k)
            n == p[k + 1]
            b == Pre(p, k + 1)
            a == Real(x, q)
<1>1. q \in Seq(Nat) /\ n \in Nat /\ b = Append(q, n) /\ b \in Seq(Nat)
      BY PreNext
<1>2. /\ x \in Tree /\ x \in Disk /\ Grown(d, x) /\ x.data = d.data /\ a # NoPath /\ At(x, a) = Dir
      /\ \A y \in Path : x.node[y] # d.node[y] => Within(a, y)
      BY TreeIn DEF Built
<1>. HIDE DEF n, q, b
<1>3. a \in Seq(Nat)
      BY <1>1, <1>2, RealIs
<1>4. CASE IsDir(x, b)
      <2>1. MkDirOr(x, b).disk = x
            BY <1>4 DEF MkDirOr, Done
      <2>2. Real(x, b) # NoPath /\ At(x, Real(x, b)) = Dir
            <3>1. NodeAt(x, Real(x, b)).kind = "dir"
                  BY <1>4 DEF IsDir
            <3>2. Real(x, b) # NoPath
                  BY <3>1, DirIsNone DEF NodeAt
            <3>. QED BY <1>2, <3>1, <3>2, AtIn, Kinds DEF NodeAt
      <2>3. Real(x, b) \in Seq(Nat)
            BY <1>1, <1>2, <2>2, RealIs
      <2>4. Within(Real(x, b), a)
            BY <1>1, <1>2, <2>2, EntryWithin
      <2>5. ASSUME NEW y \in Path, x.node[y] # d.node[y] PROVE Within(Real(x, b), y)
            <3>1. y \in Seq(Nat)
                  BY VfsAssumption
            <3>2. Within(a, y)
                  BY <1>2, <2>5
            <3>. QED BY <1>3, <2>3, <2>4, <3>1, <3>2, WithinTrans
      <2>6. Built(d, x, p, k + 1)
            BY <1>2, <2>2, <2>5 DEF Built, b
      <2>. QED BY <2>1, <2>6 DEF b
<1>5. CASE ~ IsDir(x, b)
      <2>18. PICK w : w = Walk(x, b, FALSE)
            OBVIOUS
      <2>19. PICK e : e = Put(x, w, Dir)
            OBVIOUS
      <2>1. MkDirOr(x, b) = PutAt(x, w, {"none"}, Dir)
            BY <1>5, <2>18 DEF MkDirOr, MkDir
      <2>2. MkDirOr(x, b).ok
            BY DEF b
      <2>3. w \in Path /\ At(x, w).kind = "none" /\ MkDirOr(x, b).disk = e
            <3>1. CASE w \in Path /\ At(x, w).kind \in {"none"}
                  <4>1. PutAt(x, w, {"none"}, Dir) = Done(e)
                        BY <2>19, <3>1 DEF PutAt
                  <4>. QED BY <2>1, <3>1, <4>1 DEF Done
            <3>2. CASE ~ (w \in Path /\ At(x, w).kind \in {"none"})
                  <4>1. PutAt(x, w, {"none"}, Dir) = Fail(x)
                        BY <3>2, Zenon DEF PutAt
                  <4>. QED BY <2>1, <2>2, <4>1 DEF Fail
            <3>. QED BY <3>1, <3>2
      <2>4. w \in Seq(Nat) /\ w # NoPath /\ w # Root /\ At(x, w) = None
            BY <1>2, <2>3, VfsAssumption, AtIn, Kinds
      <2>5. w = Append(a, n)
            BY <1>1, <1>2, <2>4, <2>18, EntryDir
      <2>6. x.node[w] = None
            BY <2>3, <2>4 DEF At
      <2>7. MkDirOr(x, b) \in Result
            BY <1>2, MkDirIn, DoneIn DEF MkDirOr
      <2>8. e \in Tree /\ e \in Disk
            BY <2>3, <2>7, TreeIn DEF Result
      <2>9. e.data = x.data /\ \A y \in Path : e.node[y] = IF y = w THEN Dir ELSE x.node[y]
            BY <1>2, <2>3, <2>19, PutIs
      <2>10. Grown(x, e)
            BY <2>6, <2>9 DEF Grown
      <2>11. Grown(d, e)
            BY <1>2, <2>10, GrownOn
      <2>12. Real(e, q) = a /\ At(e, a) = Dir
            BY <1>1, <1>2, <2>8, <2>10, GrownReal
      <2>13. At(e, w) = Dir
            BY <2>3, <2>4, <2>9 DEF At
      <2>14. Real(e, b) = w
            BY <1>1, <1>2, <2>5, <2>8, <2>12, <2>13, EntryReal
      <2>15. Within(w, w) /\ Within(w, a)
            <3>1. w \in Name /\ Front(w) = a
                  BY <1>1, <1>3, <2>5, AppendName
            <3>. QED BY <1>3, <3>1, WithinFront
      <2>16. ASSUME NEW y \in Path, e.node[y] # d.node[y] PROVE Within(w, y)
            <3>1. y \in Seq(Nat)
                  BY VfsAssumption
            <3>2. CASE y = w
                  BY <2>15, <3>2
            <3>3. CASE y # w
                  <4>1. Within(a, y)
                        BY <1>2, <2>9, <2>16, <3>3
                  <4>. QED BY <1>3, <2>4, <2>15, <3>1, <4>1, WithinTrans
            <3>. QED BY <3>2, <3>3
      <2>17. Built(d, e, p, k + 1)
            BY <1>2, <2>4, <2>8, <2>9, <2>11, <2>13, <2>14, <2>16 DEF Built, b
      <2>. QED BY <2>3, <2>17 DEF b
<1>. QED BY <1>4, <1>5

LEMMA MkDirAllBuilds ==
    ASSUME NEW d \in Tree, NEW p \in Seq(Nat), MkDirAll(d, p).ok
    PROVE  Built(d, MkDirAll(d, p).disk, p, Len(p))
<1>. DEFINE f == [x \in Disk \X Seq(Nat) |-> MkDirOr(x[1], x[2])]
            s == [i \in 1 .. Len(p) |-> Pre(p, i)]
<1>1. MkDirAll(d, p) = Loop(f, d, s)
      BY DEF MkDirAll, Each
<1>2. PICK n \in Nat : n = Len(p)
      OBVIOUS
<1>3. Len(s) = n /\ \A i \in 1 .. n : s[i] = Pre(p, i)
      BY <1>2
<1>4. ASSUME NEW x \in Tree, NEW y \in Seq(Nat) PROVE f[<<x, y>>] = MkDirOr(x, y)
      BY TreeIn
<1>. HIDE DEF f, s
<1>. DEFINE R == CHOOSE g : g = [k \in 0 .. n |-> IF k = 0 THEN Done(d) ELSE Then(f, g[k - 1], s[k])]
<1>5. Steps(R, f, d, s, n)
      <2>1. \E g : Steps(g, f, d, s, n)
            BY StepsExist
      <2>2. \E g : g = [k \in 0 .. n |-> IF k = 0 THEN Done(d) ELSE Then(f, g[k - 1], s[k])]
            BY <2>1, Zenon DEF Steps
      <2>. QED BY <2>2, Zenon DEF Steps
<1>6. Loop(f, d, s) = R[n]
      BY <1>3 DEF Loop
<1>. HIDE DEF R
<1>. DEFINE K == {k \in Nat : k <= n /\ R[k].ok => Built(d, R[k].disk, p, k)}
<1>7. 0 \in K
      <2>1. R[0].disk = d
            BY <1>5 DEF Steps, Done
      <2>2. Pre(p, 0) = Root
            <3>1. 0 \in 0 .. Len(p)
                  OBVIOUS
            <3>. QED BY <3>1, PreIs, RootIs
      <2>3. Root # NoPath
            <3>1. Root \in Seq(Nat)
                  BY DEF Root
            <3>. QED BY <3>1, VfsAssumption
      <2>4. Built(d, d, p, 0)
            BY <2>2, <2>3, RootReal DEF Built, Grown, At
      <2>. QED BY <2>1, <2>4
<1>8. ASSUME NEW k \in Nat, k \in K PROVE k + 1 \in K
      <2>1. SUFFICES ASSUME k + 1 <= n, R[k + 1].ok PROVE Built(d, R[k + 1].disk, p, k + 1)
            OBVIOUS
      <2>2. k + 1 \in 0 .. n /\ k + 1 \in 1 .. n /\ k + 1 # 0 /\ k + 1 - 1 = k /\ k <= n
            BY <2>1
      <2>3. R[k + 1] = Then(f, R[k], s[k + 1])
            BY <1>5, <2>2 DEF Steps
      <2>4. R[k].ok
            BY <2>1, <2>3 DEF Then
      <2>5. Built(d, R[k].disk, p, k)
            BY <1>8, <2>2, <2>4
      <2>6. R[k].disk \in Tree
            BY <2>5 DEF Built
      <2>7. Pre(p, k + 1) \in Seq(Nat) /\ s[k + 1] = Pre(p, k + 1)
            BY <1>2, <1>3, <2>2, PreNext
      <2>8. R[k + 1] = f[<<R[k].disk, Pre(p, k + 1)>>]
            BY <2>3, <2>4, <2>7 DEF Then
      <2>9. R[k + 1] = MkDirOr(R[k].disk, Pre(p, k + 1))
            BY <1>4, <2>6, <2>7, <2>8
      <2>. QED BY <1>2, <2>1, <2>2, <2>5, <2>9, MkDirBuilds
<1>. HIDE DEF K
<1>9. n \in K
      BY <1>7, <1>8, NatSet
<1>10. R[n].ok
      BY <1>1, <1>6
<1>. QED BY <1>1, <1>2, <1>6, <1>9, <1>10 DEF K

\* What is made for a path is on its way.
LEMMA ParentsBuild ==
    ASSUME NEW d \in Tree, NEW t \in Name, Parents(d, t).ok,
           Walk(Parents(d, t).disk, t, FALSE) # NoPath
    PROVE  LET e == Parents(d, t).disk
           IN  /\ e \in Tree /\ Grown(d, e) /\ e.data = d.data
               /\ \A q \in Path : e.node[q] # d.node[q] => Within(Walk(e, t, FALSE), q)
<1>1. PICK p \in Seq(Nat), n \in Nat : p = Front(t) /\ n = Last(t) /\ t = Append(p, n)
      BY SeqFacts, LastFront
<1>2. PICK e : e = Parents(d, t).disk
      OBVIOUS
<1>3. t # Root
      BY DEF Name
<1>4. Parents(d, t) = MkDirAll(d, p)
      BY <1>1, <1>3 DEF Parents
<1>5. Built(d, e, p, Len(p))
      BY <1>2, <1>4, MkDirAllBuilds
<1>6. /\ e \in Tree /\ e \in Disk /\ Grown(d, e) /\ e.data = d.data /\ Real(e, p) # NoPath
      /\ \A q \in Path : e.node[q] # d.node[q] => Within(Real(e, p), q)
      BY <1>5, PreIs, TreeIn DEF Built
<1>7. Real(e, p) \in Seq(Nat)
      BY <1>6, RealIs
<1>8. PICK w : w = Walk(e, t, FALSE)
      OBVIOUS
<1>9. w = Append(Real(e, p), n)
      BY <1>1, <1>2, <1>6, <1>8, EntryDir
<1>10. w \in Seq(Nat) /\ Within(w, Real(e, p))
      <2>1. w \in Name /\ Front(w) = Real(e, p)
            BY <1>1, <1>7, <1>9, AppendName
      <2>. QED BY <2>1, WithinFront DEF Name
<1>11. ASSUME NEW q \in Path, e.node[q] # d.node[q] PROVE Within(w, q)
      <2>1. q \in Seq(Nat) /\ Within(Real(e, p), q)
            BY <1>6, <1>11, VfsAssumption
      <2>. QED BY <1>7, <1>10, <2>1, WithinTrans
<1>. QED BY <1>2, <1>6, <1>8, <1>11

-----------------------------------------------------------------------------
(* What is moved.                                                          *)

LEMMA Canonical ==
    ASSUME NEW d \in Disk, NEW q \in Seq(Nat), Real(d, q) # NoPath
    PROVE  LET a == Real(d, q)
           IN  /\ a \in Seq(Nat) /\ a # NoPath /\ Links(d, a, TRUE) = {} /\ At(d, a) # None
               /\ Real(d, a) = a /\ Walk(d, a, FALSE) = a
<1>. DEFINE a == Real(d, q)
<1>1. /\ a \in Seq(Nat) /\ At(d, a) # None /\ Links(d, a, TRUE) = {} /\ a # NoPath
      /\ \A i \in 1 .. Len(a) - 1 : At(d, Pre(a, i)) = Dir
      BY RealIs
<1>. HIDE DEF a
<1>2. Links(d, a, FALSE) = {}
      <2>1. PICK m \in Nat : m = Len(a)
            BY <1>1
      <2>2. \A i \in 1 .. m - 1 : i \in 1 .. m
            OBVIOUS
      <2>. QED BY <1>1, <2>1, <2>2 DEF Links
<1>3. Leading(d, a, TRUE) = a /\ Leading(d, a, FALSE) = a
      BY <1>1, <1>2 DEF Leading
<1>4. Walk(d, a, TRUE) = a /\ Walk(d, a, FALSE) = a
      BY <1>1, <1>2, <1>3, WalkIs
<1>5. Real(d, a) = a
      BY <1>1, <1>4 DEF Real, There, NodeAt
<1>. QED BY <1>1, <1>4, <1>5 DEF a

\* What vfs resolves an operand to, if it is there and no link, is where the host
\* would come to.
LEMMA SourceIs ==
    ASSUME NEW d \in Tree, NEW p \in Name, Exists(d, Resolve(d, p)),
           At(d, Resolve(d, p)).kind # "link"
    PROVE  \E q \in Seq(Nat) : Real(d, q) # NoPath /\ Resolve(d, p) = Real(d, q)
<1>1. PICK s : s = Resolve(d, p)
      OBVIOUS
<1>2. d \in Disk /\ p \in Seq(Nat) /\ Real(d, s) # NoPath /\ s \in Name /\ s # NoPath
      BY <1>1, TreeIn, ResolveIn, VfsAssumption DEF Exists, Name
<1>3. CASE Real(d, p) # NoPath
      BY <1>1, <1>2, <1>3 DEF Resolve, Or
<1>4. CASE Real(d, p) = NoPath /\ Follow(d, p) # NoPath
      <2>1. s = Follow(d, p)
            BY <1>1, <1>4 DEF Resolve, Or
      <2>2. PICK e \in Seq(Nat) : s = Real(d, e)
            BY <1>2, <2>1, FollowIn DEF Exists
      <2>. QED BY <1>1, <1>2, <2>2
<1>5. CASE Real(d, p) = NoPath /\ Follow(d, p) = NoPath
      <2>1. s = ResolveNF(d, p) /\ p # Root
            BY <1>1, <1>5 DEF Resolve, Or, Name
      <2>2. PICK a : a = Real(d, Front(p))
            OBVIOUS
      <2>3. Front(p) \in Seq(Nat) /\ Last(p) \in Nat
            BY SeqFacts
      <2>4. CASE a = NoPath
            <3>1. s = p
                  BY <2>1, <2>2, <2>4 DEF ResolveNF, In
            <3>. QED BY <1>2, <1>5, <3>1
      <2>5. CASE a # NoPath
            <3>1. s = Append(a, Last(p))
                  BY <2>1, <2>2, <2>5 DEF ResolveNF, In
            <3>2. a \in Seq(Nat) /\ Links(d, a, TRUE) = {}
                  BY <1>2, <2>2, <2>3, <2>5, RealIs
            <3>3. Links(d, s, TRUE) = {}
                  <4>1. SUFFICES ASSUME NEW i \in Links(d, s, TRUE) PROVE FALSE
                        OBVIOUS
                  <4>2. i \in Links(d, a, TRUE) \/ At(d, s).kind = "link"
                        BY <2>3, <3>1, <3>2, <4>1, AppendLinks
                  <4>. QED BY <1>1, <3>2, <4>2
            <3>4. Leading(d, s, TRUE) = s
                  BY <3>3 DEF Leading
            <3>5. Real(d, s) = s
                  <4>1. s \in Seq(Nat)
                        BY <1>2 DEF Name
                  <4>. QED BY <1>2, <3>4, <4>1, RealIs
            <3>. QED BY <1>1, <1>2, <3>5 DEF Name
      <2>. QED BY <2>4, <2>5
<1>. QED BY <1>3, <1>4, <1>5

\* o is x with s for t, which is before it.
Moves(o, s, t, x) ==
    /\ Len(o) = Len(s) + Len(x) - Len(t)
    /\ \A n \in 1 .. Len(s) + Len(x) - Len(t) :
         o[n] = IF n <= Len(s) THEN s[n] ELSE x[Len(t) + n - Len(s)]

LEMMA OriginMoves ==
    ASSUME NEW s \in Name, NEW t \in Name, NEW x \in Name, Within(x, t)
    PROVE  Moves(Origin(s, t, x), s, t, x)
BY OriginIs, Zenon DEF Moves

LEMMA OriginBack ==
    ASSUME NEW s \in Name, NEW t \in Name, NEW q \in Name, Within(q, s)
    PROVE  /\ Origin(t, s, q) \in Name /\ Within(Origin(t, s, q), t)
           /\ Origin(s, t, Origin(t, s, q)) = q
<1>1. PICK i \in Nat, j \in Nat, k \in Nat : i = Len(s) /\ j = Len(t) /\ k = Len(q)
      BY SeqFacts
<1>2. s \in Seq(Nat) /\ t \in Seq(Nat) /\ q \in Seq(Nat)
      BY DEF Name
<1>3. i <= k /\ \A n \in 1 .. i : s[n] = q[n]
      BY <1>1, <1>2, WithinIs
<1>4. PICK z \in Name : z = Origin(t, s, q)
      BY OriginIs
<1>5. z \in Seq(Nat)
      BY DEF Name
<1>6. Len(z) = j + k - i /\ \A n \in 1 .. j + k - i : z[n] = IF n <= j THEN t[n] ELSE q[i + n - j]
      <2>1. Moves(z, t, s, q)
            BY <1>4, OriginMoves
      <2>. QED BY <1>1, <2>1 DEF Moves
<1>7. Within(z, t)
      <2>1. j <= Len(z)
            BY <1>3, <1>6
      <2>2. ASSUME NEW n \in 1 .. j PROVE t[n] = z[n]
            <3>1. n \in 1 .. j + k - i /\ n <= j
                  BY <1>3
            <3>. QED BY <1>6, <3>1
      <2>. QED BY <1>1, <1>2, <1>5, <2>1, <2>2, WithinIs
<1>8. PICK y \in Name : y = Origin(s, t, z)
      BY <1>7, OriginIs
<1>9. y \in Seq(Nat)
      BY DEF Name
<1>10. /\ Len(y) = i + Len(z) - j
       /\ \A n \in 1 .. i + Len(z) - j : y[n] = IF n <= i THEN s[n] ELSE z[j + n - i]
      <2>1. Moves(y, s, t, z)
            BY <1>7, <1>8, OriginMoves
      <2>. QED BY <1>1, <2>1 DEF Moves
<1>11. i + Len(z) - j = k
      BY <1>6
<1>12. ASSUME NEW n \in 1 .. k PROVE y[n] = q[n]
      <2>1. y[n] = IF n <= i THEN s[n] ELSE z[j + n - i]
            BY <1>10, <1>11
      <2>2. CASE n <= i
            <3>1. n \in 1 .. i
                  BY <2>2
            <3>. QED BY <1>3, <2>1, <2>2, <3>1
      <2>3. CASE ~ (n <= i)
            <3>1. PICK m \in 1 .. j + k - i : m = j + n - i /\ ~ (m <= j) /\ i + m - j = n
                  BY <2>3
            <3>2. z[m] = q[n]
                  BY <1>6, <3>1
            <3>. QED BY <2>1, <2>3, <3>1, <3>2
      <2>. QED BY <2>2, <2>3
<1>13. y = q
      <2>1. Len(y) = k
            BY <1>10, <1>11
      <2>. QED BY <1>1, <1>2, <1>9, <1>12, <2>1, SeqEqual
<1>. QED BY <1>4, <1>7, <1>8, <1>13

LEMMA SweptIs ==
    ASSUME NEW d \in Tree
    PROVE  /\ Swept(d) \in Tree /\ Swept(d).node = d.node
           /\ \A p : At(Swept(d), p) = At(d, p)
           /\ \A p \in Path, i \in Ino : d.node[p] = File(i) => Swept(d).data[i] = d.data[i]
<1>1. Swept(d).node = d.node
      BY TreeIn DEF Swept
<1>2. ASSUME NEW p \in Path, NEW i \in Ino, d.node[p] = File(i) PROVE Swept(d).data[i] = d.data[i]
      <2>1. Swept(d).data[i] = IF \E x \in Path : d.node[x] = File(i) THEN d.data[i] ELSE <<>>
            BY TreeIn DEF Swept
      <2>. QED BY <1>2, <2>1
<1>3. \A p : At(Swept(d), p) = At(d, p)
      BY <1>1 DEF At
<1>. QED BY <1>1, <1>2, <1>3, SweptIn

\* The cases in which a rename succeeds.
LEMMA RenameAtIs ==
    ASSUME NEW d \in Tree, NEW s, NEW t, RenameAt(d, s, t).ok
    PROVE  /\ s \in Path /\ t \in Path
           /\ \/ /\ s = t \/ (At(d, s).kind = "file" /\ At(d, s) = At(d, t))
                 /\ RenameAt(d, s, t) = Done(d)
              \/ /\ ~ Within(t, s)
                 /\ \A x \in Path : Within(x, s) /\ d.node[x] # None => Origin(t, s, x) \in Path
                 /\ RenameAt(d, s, t).disk.data = d.data
                 /\ \A x \in Path : RenameAt(d, s, t).disk.node[x] =
                        IF Within(x, t) THEN At(d, Origin(s, t, x))
                        ELSE IF Within(x, s) THEN None ELSE d.node[x]
<1>. DEFINE e == [d EXCEPT !.node = [x \in Path |->
                     IF Within(x, t) THEN At(d, s \o SubSeq(x, Len(t) + 1, Len(x)))
                     ELSE IF Within(x, s) THEN None ELSE @[x]]]
            same == s = t \/ (At(d, s).kind = "file" /\ At(d, s) = At(d, t))
            room == \A x \in Path : Within(x, s) /\ d.node[x] # None => Origin(t, s, x) \in Path
<1>1. Fail(d).ok = FALSE
      BY DEF Fail
<1>2. /\ s \in Path /\ t \in Path
      /\ \/ same /\ RenameAt(d, s, t) = Done(d)
         \/ RenameAt(d, s, t) = Done(e) /\ ~ Within(t, s) /\ room
      BY <1>1 DEF RenameAt, Origin
<1>3. e.data = d.data /\ \A x \in Path : e.node[x] =
                        IF Within(x, t) THEN At(d, Origin(s, t, x))
                        ELSE IF Within(x, s) THEN None ELSE d.node[x]
      BY TreeIn DEF Origin
<1>4. Done(e).disk = e
      BY DEF Done
<1>. HIDE DEF e, same, room
<1>5. CASE same /\ RenameAt(d, s, t) = Done(d)
      BY <1>2, <1>5 DEF same
<1>6. CASE RenameAt(d, s, t) = Done(e) /\ ~ Within(t, s) /\ room
      <2>1. RenameAt(d, s, t).disk = e
            BY <1>4, <1>6
      <2>. QED BY <1>2, <1>3, <1>6, <2>1 DEF room
<1>. QED BY <1>2, <1>5, <1>6

LEMMA GrownSwept ==
    ASSUME NEW d \in Tree
    PROVE  Grown(d, Swept(d))
BY SweptIs DEF Grown

\* What a move promises of a tree at s that goes to w.
Whole(d, e, s, w) ==
    s = w \/ (d.node[s].kind = "file" /\ d.node[s] = At(d, w)) \/ Carried(d, e, s, w)

\* A rename of s to w makes y of disk x, which is d with the directories for w.
Moving(d, x, y, s, w) ==
    /\ Grown(d, x) /\ x.data = d.data /\ y.data = x.data
    /\ \A q \in Path : x.node[q] # d.node[q] => Within(w, q)
    /\ ~ Within(w, s)
    /\ \A q \in Path : Within(q, s) /\ x.node[q] # None => Origin(w, s, q) \in Path
    /\ \A q \in Path : y.node[q] = IF Within(q, w) THEN At(x, Origin(s, w, q))
                                    ELSE IF Within(q, s) THEN None ELSE x.node[q]

LEMMA RenameCarries ==
    ASSUME NEW d \in Tree, NEW x \in Tree, NEW y \in Tree, NEW s \in Path, NEW w \in Path,
           Moving(d, x, y, s, w)
    PROVE  Carried(d, Swept(y), s, w)
<1>. DEFINE e == Swept(y)
<1>1. s \in Name /\ w \in Name /\ s \in Seq(Nat) /\ w \in Seq(Nat)
      BY VfsAssumption DEF Name
<1>2. /\ e.node = y.node /\ \A p : At(e, p) = At(y, p)
      /\ \A q \in Path, i \in Ino : y.node[q] = File(i) => e.data[i] = y.data[i]
      BY SweptIs
<1>. HIDE DEF e
<1>3. ASSUME NEW q \in Path, Within(q, s)
      PROVE  /\ At(e, Origin(w, s, q)) = d.node[q]
             /\ d.node[q].kind = "file" => e.data[d.node[q].ino] = d.data[d.node[q].ino]
             /\ ~Within(q, w) => e.node[q] = None
      <2>1. q \in Name /\ q \in Seq(Nat) /\ q # Root
            BY VfsAssumption DEF Name
      <2>2. x.node[q] = d.node[q]
            <3>1. SUFFICES ASSUME x.node[q] # d.node[q] PROVE FALSE
                  OBVIOUS
            <3>2. Within(w, q) /\ ~ Within(w, s)
                  BY <3>1 DEF Moving
            <3>. QED BY <1>1, <1>3, <2>1, <3>2, WithinTrans
      <2>3. PICK z \in Name : z = Origin(w, s, q) /\ Within(z, w) /\ Origin(s, w, z) = q
            BY <1>1, <1>3, <2>1, OriginBack
      <2>4. z # Root
            BY DEF Name
      <2>5. z \in Path => y.node[z] = d.node[q]
            BY <2>1, <2>2, <2>3 DEF At, Moving
      <2>6. z \notin Path => d.node[q] = None
            BY <1>3, <2>2, <2>3 DEF Moving
      <2>7. At(e, z) = d.node[q]
            BY <1>2, <2>4, <2>5, <2>6 DEF At
      <2>8. ASSUME d.node[q].kind = "file" PROVE e.data[d.node[q].ino] = d.data[d.node[q].ino]
            <3>1. d.node[q] \in Node
                  BY TreeIn DEF Disk
            <3>2. PICK i \in Ino : d.node[q] = File(i) /\ d.node[q].ino = i
                  BY <2>8, <3>1, Kinds
            <3>3. z \in Path
                  BY <2>6, <2>8, DirIsNone
            <3>4. y.node[z] = File(i)
                  BY <2>5, <3>2, <3>3
            <3>5. e.data[i] = y.data[i]
                  BY <1>2, <3>3, <3>4
            <3>. QED BY <3>2, <3>5 DEF Moving
      <2>9. ~Within(q, w) => e.node[q] = None
            BY <1>2, <1>3 DEF Moving
      <2>. QED BY <2>3, <2>7, <2>8, <2>9
<1>. QED BY <1>3 DEF Carried, Origin, e

LEMMA RenameIsWhole ==
    ASSUME NEW d \in Tree, NEW u \in Seq(Nat), NEW s, s = Real(d, u), s # NoPath,
           NEW t \in Seq(Nat), RenameTo(d, s, t).ok, NEW e, e = Swept(RenameTo(d, s, t).disk),
           NEW v, v = Walk(e, t, FALSE)
    PROVE  Whole(d, e, s, v)
<1>1. d \in Disk
      BY TreeIn
<1>2. /\ s \in Seq(Nat) /\ Links(d, s, TRUE) = {} /\ At(d, s) # None
      /\ Real(d, s) = s /\ Walk(d, s, FALSE) = s
      BY <1>1, Canonical
<1>3. PICK r : r = RenameTo(d, s, t)
      OBVIOUS
<1>4. r = RenameIn(Parents(d, t), s, t)
      BY <1>2, <1>3 DEF RenameTo, Exists
<1>5. PICK x : x = Parents(d, t).disk
      OBVIOUS
<1>6. PICK w : w = Walk(x, t, FALSE)
      OBVIOUS
<1>7. Parents(d, t).ok /\ r = RenameAt(x, Walk(x, s, FALSE), w) /\ r = FsRename(x, s, t)
      BY <1>3, <1>4, <1>5, <1>6 DEF RenameIn, FsRename
<1>8. x \in Tree /\ x \in Disk
      <2>1. Parents(d, t) \in Result
            BY WriteToIn, EmptySeq
      <2>. QED BY <1>5, <2>1, TreeIn DEF Result
<1>9. w \in Path
      <2>1. PICK a : a = Walk(x, s, FALSE)
            OBVIOUS
      <2>2. RenameAt(x, a, w).ok
            BY <1>3, <1>7, <2>1
      <2>. QED BY <1>8, <2>2, RenameAtIs
<1>10. w # NoPath /\ w \in Seq(Nat) /\ w # Root
      BY <1>9, VfsAssumption
<1>11. t \in Name
      <2>1. SUFFICES ASSUME t = Root PROVE FALSE
            BY DEF Name
      <2>2. w = Root
            BY <1>6, <1>8, <2>1, WalkRoot
      <2>. QED BY <1>10, <2>2
<1>12. Grown(d, x) /\ x.data = d.data /\ \A q \in Path : x.node[q] # d.node[q] => Within(w, q)
      BY <1>5, <1>6, <1>7, <1>10, <1>11, ParentsBuild
<1>13. Walk(x, s, FALSE) = s
      <2>1. s # NoPath /\ d \in Disk /\ s \in Seq(Nat) /\ FALSE \in BOOLEAN
            BY <1>1, <1>2
      <2>2. Walk(d, s, FALSE) = s
            BY <1>2
      <2>. QED BY <1>8, <1>12, <2>1, <2>2, GrownWalk
<1>14. r.ok /\ r = RenameAt(x, s, w) /\ e = Swept(r.disk)
      BY <1>3, <1>7, <1>13
<1>15. CASE /\ s = w \/ (At(x, s).kind = "file" /\ At(x, s) = At(x, w))
            /\ RenameAt(x, s, w) = Done(x)
      <2>1. e = Swept(x)
            BY <1>14, <1>15 DEF Done
      <2>2. v = w
            <3>1. e \in Tree /\ e \in Disk /\ Grown(x, e)
                  BY <1>8, <2>1, GrownSwept, SweptIs, TreeIn
            <3>. QED BY <1>6, <1>8, <1>10, <3>1, GrownWalk
      <2>3. ASSUME At(x, s).kind = "file", At(x, s) = At(x, w)
            PROVE  d.node[s].kind = "file" /\ d.node[s] = At(d, w)
            <3>1. At(d, s) = At(x, s)
                  BY <1>1, <1>2, <1>8, <1>12, GrownAt
            <3>2. At(d, w) = At(x, w)
                  BY <1>1, <1>8, <1>12, <2>3, GrownAt, DirIsNone
            <3>3. At(d, s) = d.node[s]
                  <4>1. s \in Path /\ s # Root
                        BY <1>8, <1>14, RenameAtIs, VfsAssumption
                  <4>. QED BY <4>1 DEF At
            <3>. QED BY <2>3, <3>1, <3>2, <3>3
      <2>. QED BY <1>15, <2>2, <2>3 DEF Whole
<1>16. CASE /\ ~ Within(w, s)
            /\ \A q \in Path : Within(q, s) /\ x.node[q] # None => Origin(w, s, q) \in Path
            /\ RenameAt(x, s, w).disk.data = x.data
            /\ \A q \in Path : RenameAt(x, s, w).disk.node[q] =
                   IF Within(q, w) THEN At(x, Origin(s, w, q))
                   ELSE IF Within(q, s) THEN None ELSE x.node[q]
      <2>1. PICK y : y = r.disk
            OBVIOUS
      <2>2. /\ s \in Path /\ y.data = x.data
            /\ \A q \in Path : y.node[q] = IF Within(q, w) THEN At(x, Origin(s, w, q))
                                           ELSE IF Within(q, s) THEN None ELSE x.node[q]
            BY <1>8, <1>14, <1>16, <2>1, RenameAtIs
      <2>3. y \in Tree
            <3>1. r \in Result
                  BY <1>7, <1>8, FsRenameIn
            <3>. QED BY <2>1, <3>1 DEF Result
      <2>4. e = Swept(y) /\ e \in Tree /\ e \in Disk /\ e.node = y.node
            BY <1>14, <2>1, <2>3, SweptIs, TreeIn
      <2>5. Changed(x, e, s, w)
            BY <2>2, <2>4 DEF Changed
      <2>6. Links(x, s, TRUE) = {}
            BY <1>1, <1>2, <1>8, <1>12, GrownLeads
      <2>7. v = w
            <3>1. SameEnd(x, e, t)
                  BY <1>2, <1>6, <1>8, <1>10, <1>16, <2>4, <2>5, <2>6, SameWalk
            <3>2. v = Walk(e, t, FALSE)
                  OBVIOUS
            <3>. QED BY <1>6, <3>1, <3>2, Zenon DEF SameEnd
      <2>8. Carried(d, e, s, w)
            <3>1. Moving(d, x, y, s, w)
                  BY <1>12, <1>16, <2>2 DEF Moving
            <3>. QED BY <1>8, <1>9, <2>2, <2>3, <2>4, <3>1, RenameCarries
      <2>. QED BY <2>7, <2>8 DEF Whole
<1>17. \/ /\ s = w \/ (At(x, s).kind = "file" /\ At(x, s) = At(x, w))
          /\ RenameAt(x, s, w) = Done(x)
       \/ /\ ~ Within(w, s)
          /\ \A q \in Path : Within(q, s) /\ x.node[q] # None => Origin(w, s, q) \in Path
          /\ RenameAt(x, s, w).disk.data = x.data
          /\ \A q \in Path : RenameAt(x, s, w).disk.node[q] =
                 IF Within(q, w) THEN At(x, Origin(s, w, q))
                 ELSE IF Within(q, s) THEN None ELSE x.node[q]
      <2>1. RenameAt(x, s, w).ok
            BY <1>14
      <2>. QED BY <1>8, <2>1, RenameAtIs
<1>. QED BY <1>15, <1>16, <1>17, Zenon

-----------------------------------------------------------------------------
(* mv.                                                                     *)

LEMMA LoopOne ==
    ASSUME NEW f, NEW d, NEW S, Len(S) = 1
    PROVE  Loop(f, d, S) = f[<<d, S[1]>>]
<1>. DEFINE R == CHOOSE g : g = [k \in 0 .. 1 |-> IF k = 0 THEN Done(d) ELSE Then(f, g[k - 1], S[k])]
<1>1. Steps(R, f, d, S, 1)
      <2>1. \E g : Steps(g, f, d, S, 1)
            BY StepsExist
      <2>2. \E g : g = [k \in 0 .. 1 |-> IF k = 0 THEN Done(d) ELSE Then(f, g[k - 1], S[k])]
            BY <2>1, Zenon DEF Steps
      <2>. QED BY <2>2, Zenon DEF Steps
<1>2. Loop(f, d, S) = R[1]
      BY DEF Loop
<1>. HIDE DEF R
<1>3. R[0] = Done(d) /\ R[1] = Then(f, R[0], S[1])
      BY <1>1 DEF Steps
<1>. QED BY <1>2, <1>3 DEF Then, Done

LEMMA MoveIs ==
    ASSUME NEW d \in Tree, NEW p \in Path, NEW q \in Seq(Nat), NEW r, NEW e,
           r = MvOne(d, p, q, FALSE, FALSE), r.ok, e = Swept(r.disk)
    PROVE  \/ d.node[Resolve(d, p)].kind = "link"
           \/ Whole(d, e, Resolve(d, p), Walk(e, Resolve(d, q), FALSE))
<1>1. PICK s \in Seq(Nat) : s = Resolve(d, p)
      BY ResolveIn, VfsAssumption
<1>2. PICK t \in Seq(Nat) : t = Resolve(d, q)
      BY ResolveIn
<1>3. PICK m : m = RenameTo(d, s, t)
      OBVIOUS
<1>4. r = [m EXCEPT !.ok = @ \/ FALSE]
      BY <1>1, <1>2, <1>3 DEF MvOne, Forced, Rename
<1>5. m \in Result
      <2>1. Rename(d, p, q) \in Result
            BY RenameIsIn, VfsAssumption
      <2>. QED BY <1>1, <1>2, <1>3, <2>1 DEF Rename
<1>6. m.ok /\ e = Swept(m.disk)
      BY <1>4, <1>5 DEF Result
<1>7. Exists(d, s)
      BY <1>3, <1>6 DEF RenameTo, Fail
<1>8. SUFFICES ASSUME d.node[s].kind # "link" PROVE Whole(d, e, s, Walk(e, t, FALSE))
      BY <1>1, <1>2, Zenon
<1>9. At(d, s).kind # "link"
      BY <1>8 DEF At, None, Dir
<1>10. p \in Name
      BY VfsAssumption DEF Name
<1>11. PICK u \in Seq(Nat) : Real(d, u) # NoPath /\ s = Real(d, u)
      BY <1>1, <1>7, <1>9, <1>10, SourceIs
<1>12. PICK v : v = Walk(e, t, FALSE)
      OBVIOUS
<1>13. Whole(d, e, s, v)
      <2>1. s # NoPath /\ RenameTo(d, s, t).ok /\ e = Swept(RenameTo(d, s, t).disk)
            BY <1>3, <1>6, <1>11
      <2>. QED BY <1>11, <1>12, <2>1, RenameIsWhole
<1>. QED BY <1>12, <1>13, Zenon

LEMMA MvWhole ==
    ASSUME TypeOK, NEW S \in Lists, NEW q \in Path \cup {Root}, NEW keep \in BOOLEAN, NEW force \in BOOLEAN,
           Mv(S, q, keep, force)
    PROVE  MoveOfOne
<1>. DEFINE one(d, p) == MvOne(d, p, Dest(d, p, q), keep, force)
            f == [x \in Disk \X Seq(Nat) |-> one(x[1], x[2])]
            op == IF force THEN "mv -f" ELSE IF keep THEN "mv -n" ELSE "mv"
<1> SUFFICES ASSUME answer'.op = "mv", answer'.ok, Len(answer'.from) = 1
             PROVE  LET p == answer'.from[1]
                        s == Resolve(disk, p)
                        t == Walk(disk', Resolve(disk, Dest(disk, p, answer'.to[1])), FALSE)
                    IN  \/ disk.node[s].kind = "link"
                        \/ s = t \/ (disk.node[s].kind = "file" /\ disk.node[s] = At(disk, t))
                        \/ Carried(disk, disk', s, t)
    BY Zenon DEF MoveOfOne
<1>1. disk \in Tree /\ disk \in Disk /\ S \in Seq(Path)
      BY TypeIs, ListFacts, TreeIn
<1>2. Answer(op, S, <<q>>, <<>>, Loop(f, disk, S))
      BY Zenon DEF Mv, Each
<1>3. ~ force /\ ~ keep
      <2>1. answer'.op = IF force THEN "mv -f" ELSE IF keep THEN "mv -n" ELSE "mv"
            BY MvCalled, Zenon
      <2>. QED BY <2>1, Zenon
<1>4. PICK r : r = Loop(f, disk, S)
      OBVIOUS
<1>. HIDE DEF op
<1>5. answer'.from = S /\ answer'.to = <<q>> /\ answer'.ok = r.ok /\ disk' = Swept(r.disk)
      BY <1>2, <1>4, AnswerIs
<1>6. Len(S) = 1
      BY <1>5
<1>7. PICK p \in Path : p = S[1]
      <2>1. 1 \in 1 .. Len(S)
            BY <1>6
      <2>. QED BY <2>1, ListFacts
<1>8. p \in Seq(Nat)
      BY VfsAssumption
<1>9. f[<<disk, p>>] = MvOne(disk, p, Dest(disk, p, q), keep, force)
      BY <1>1, <1>8
<1>. HIDE DEF f
<1>10. r = MvOne(disk, p, Dest(disk, p, q), keep, force)
      BY <1>4, <1>6, <1>7, <1>9, LoopOne
<1>11. PICK b \in Seq(Nat) : b = Dest(disk, p, q)
      BY <1>1, DestIn, PathFacts
<1>12. keep = FALSE /\ force = FALSE
      BY <1>3
<1>13. r = MvOne(disk, p, b, FALSE, FALSE) /\ r.ok
      BY <1>5, <1>10, <1>11, <1>12
<1>14. PICK e : e = disk'
      OBVIOUS
<1>15. \/ disk.node[Resolve(disk, p)].kind = "link"
       \/ Whole(disk, e, Resolve(disk, p), Walk(e, Resolve(disk, b), FALSE))
      BY <1>1, <1>5, <1>13, <1>14, MoveIs
<1>16. answer'.from[1] = p /\ answer'.to[1] = q
      BY <1>5, <1>7
<1>. QED BY <1>11, <1>14, <1>15, <1>16, Zenon DEF Whole

LEMMA MoveExact == TypeOK /\ Next => MoveOfOne
<1> SUFFICES ASSUME TypeOK, Next PROVE MoveOfOne
    OBVIOUS
<1>1. ASSUME NEW S \in Lists, NEW q \in Path \cup {Root}, NEW keep \in BOOLEAN, NEW force \in BOOLEAN,
             Mv(S, q, keep, force)
      PROVE  MoveOfOne
      BY <1>1, MvWhole
<1>2. CASE answer'.op # "mv"
      BY <1>2, Zenon DEF MoveOfOne
<1>3. ASSUME NEW S \in Lists, NEW recursive \in BOOLEAN, NEW force \in BOOLEAN, NEW dir \in BOOLEAN,
             Rm(S, recursive, force, dir)
      PROVE  answer'.op # "mv"
      <2>1. answer'.op = IF force THEN "rm -f" ELSE "rm"
            BY <1>3, RmCleanly
      <2>. QED BY <2>1, Zenon
<1>4. ASSUME NEW p \in Path, Unlink(p) PROVE answer'.op # "mv"
      <2>1. answer'.op = "rm"
            BY <1>4, UnlinkCleanly
      <2>. QED BY <2>1, Zenon
<1>5. CASE Going
      <2>1. answer'.op # "mv"
            BY <1>5, GoingCalled, Zenon
      <2>. QED BY <1>2, <2>1
<1>6. CASE /\ ~ \E S \in Lists, r \in BOOLEAN, force \in BOOLEAN, dir \in BOOLEAN : Rm(S, r, force, dir)
           /\ ~ \E p \in Path : Unlink(p)
           /\ ~ \E S \in Lists, q \in Path \cup {Root}, keep \in BOOLEAN, force \in BOOLEAN :
                    Mv(S, q, keep, force)
           /\ ~ Going
      <2>1. answer'.op # "mv"
            BY <1>6, OtherCommands, OthersAre
      <2>. QED BY <1>2, <2>1
<1>. QED BY <1>1, <1>2, <1>3, <1>4, <1>5, <1>6, Zenon

\* A move that answers 0 has moved all of it, whatever else the disk holds: the tree
\* with its files is where the destination leads to on the new disk, and nothing is
\* where it was (vfs/mod.rs:429).
THEOREM MoveIsWhole == Spec => MovesWhole
<1>1. TypeOK /\ [Next]_vars => [MoveOfOne]_vars
      BY MoveExact
<1>. QED BY <1>1, TypesHold, PTL DEF Spec, MovesWhole

-----------------------------------------------------------------------------
(* cd.                                                                     *)

LEMMA EndIsReal ==
    ASSUME NEW d \in Tree, NEW p \in Path \cup {Root}, IsDir(d, Resolve(d, p)),
           At(d, Resolve(d, p)).kind # "link"
    PROVE  Real(d, Resolve(d, p)) = Resolve(d, p)
<1>1. CASE p = Root
      BY <1>1, RootReal
<1>2. CASE p # Root
      <2>1. p \in Name /\ d \in Disk
            BY <1>2, PathFacts, TreeIn
      <2>2. Exists(d, Resolve(d, p))
            BY DirIsNone DEF IsDir, NodeAt, Exists
      <2>3. PICK u \in Seq(Nat) : Real(d, u) # NoPath /\ Resolve(d, p) = Real(d, u)
            BY <2>1, <2>2, SourceIs
      <2>4. Real(d, Real(d, u)) = Real(d, u)
            BY <2>1, <2>3, Canonical
      <2>. QED BY <2>3, <2>4, Zenon
<1>. QED BY <1>1, <1>2

LEMMA GoArrives ==
    ASSUME TypeOK, NEW p \in Path \cup {Root}, Moved(p), Told("cd", p)
    PROVE  CdDone
<1>1. PICK d \in Tree : d = disk
      BY TypeIs
<1>2. PICK t : t = Resolve(d, p)
      OBVIOUS
<1>3. PICK r : r = IF Goes(p) THEN Done(disk) ELSE Fail(disk)
      OBVIOUS
<1>4. answer'.ok = r.ok /\ disk' = Swept(r.disk)
      BY <1>3, AnswerIs DEF Told
<1>5. SUFFICES ASSUME answer'.ok PROVE At(disk', cwd').kind = "link" \/ Real(disk', cwd') = cwd'
      BY DEF CdDone
<1>6. IsDir(d, t) /\ disk' = Swept(d)
      BY <1>1, <1>2, <1>3, <1>4, <1>5 DEF Goes, Done, Fail
<1>7. cwd' = t
      BY <1>1, <1>2, <1>6 DEF Moved, Enter
<1>8. PICK e : e = disk'
      OBVIOUS
<1>9. e \in Tree /\ e \in Disk /\ Grown(d, e) /\ At(e, t) = At(d, t) /\ d \in Disk
      BY <1>6, <1>8, SweptIs, GrownSwept, TreeIn
<1>10. CASE At(d, t).kind = "link"
      BY <1>7, <1>8, <1>9, <1>10
<1>11. CASE At(d, t).kind # "link"
      <2>1. Real(d, t) = t
            BY <1>2, <1>6, <1>11, EndIsReal
      <2>2. t \in Seq(Nat) /\ t # NoPath
            <3>1. t \in Path \cup {Root}
                  BY <1>2, <1>6, EnterIn
            <3>2. Root \in Seq(Nat)
                  BY DEF Root
            <3>. QED BY <3>1, <3>2, VfsAssumption
      <2>3. Real(e, t) = Real(d, t)
            BY <1>9, <2>1, <2>2, GrownReal
      <2>. QED BY <1>7, <1>8, <2>1, <2>3
<1>. QED BY <1>10, <1>11

LEMMA CdExact == TypeOK /\ Next => CdDone
<1> SUFFICES ASSUME TypeOK, Next PROVE CdDone
    OBVIOUS
<1>1. CASE Going
      <2>. DEFINE P == Path \cup {Root}
      <2>1. stack \in Seq(P) /\ prev \in P \cup {NoPath}
            BY DEF TypeOK
      <2>2. stack # <<>> => Last(stack) \in P
            BY <2>1, StackFacts
      <2>3. \E p \in P : Moved(p) /\ Told("cd", p)
            BY <1>1, <2>1, <2>2 DEF Going, CdBack, Cd, PushDir, PushSwap, PopDir
      <2>. QED BY <2>3, GoArrives
<1>2. CASE answer'.op # "cd"
      BY <1>2, Zenon DEF CdDone
<1>3. ASSUME NEW S \in Lists, NEW recursive \in BOOLEAN, NEW force \in BOOLEAN, NEW dir \in BOOLEAN,
             Rm(S, recursive, force, dir)
      PROVE  answer'.op # "cd"
      <2>1. answer'.op = IF force THEN "rm -f" ELSE "rm"
            BY <1>3, RmCleanly
      <2>. QED BY <2>1, Zenon
<1>4. ASSUME NEW p \in Path, Unlink(p) PROVE answer'.op # "cd"
      <2>1. answer'.op = "rm"
            BY <1>4, UnlinkCleanly
      <2>. QED BY <2>1, Zenon
<1>5. ASSUME NEW S, NEW q, NEW keep, NEW force, Mv(S, q, keep, force) PROVE answer'.op # "cd"
      BY <1>5, MvCalled, Zenon
<1>6. CASE /\ ~ \E S \in Lists, r \in BOOLEAN, force \in BOOLEAN, dir \in BOOLEAN : Rm(S, r, force, dir)
           /\ ~ \E p \in Path : Unlink(p)
           /\ ~ \E S \in Lists, q \in Path \cup {Root}, keep \in BOOLEAN, force \in BOOLEAN :
                    Mv(S, q, keep, force)
           /\ ~ Going
      <2>1. answer'.op # "cd"
            BY <1>6, OtherCommands, OthersAre
      <2>. QED BY <1>2, <2>1
<1>. QED BY <1>1, <1>2, <1>3, <1>4, <1>5, <1>6, Zenon

\* cd, pushd and popd that answer 0 have gone to where their directory really is: its
\* path goes through no link, also when a link with an absolute target was followed
\* by hand (vfs/mod.rs:183), unless the host gave up at a link.
THEOREM CdArrives == Spec => [][CdDone]_vars
<1>1. TypeOK /\ [Next]_vars => [CdDone]_vars
      BY CdExact
<1>. QED BY <1>1, TypesHold, PTL DEF Spec
=============================================================================
