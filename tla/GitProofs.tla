----------------------------- MODULE GitProofs -----------------------------
(***************************************************************************)
(* Proofs about Git for any files, branches and repositories to start from, *)
(* and sessions of any length: what becomes of commits, of uncommitted work *)
(* and of the stash.                                                       *)
(***************************************************************************)
EXTENDS Git, SequenceTheorems, TLAPS

Entry == [base : Nat, saved : Tree]

\* The repository is well-formed: branches name commits, histories are closed,
\* and a conflict is marked in the index only.
Typed ==
    /\ objs \in Seq(Commit) /\ WellFormed(objs)
    /\ refs \in [Branch -> 0 .. Len(objs)]
    /\ head \in [on : Branch \cup {None}, at : 0 .. Len(objs)]
    /\ index \in [Path -> File \cup {None, Unmerged}] /\ wt \in Tree
    /\ stash \in Seq(Entry)
    /\ origin \in [Branch -> 0 .. Len(objs)] /\ tracking \in [Branch -> 0 .. Len(objs)]

-----------------------------------------------------------------------------
(* Commits, and what descends from what.                                   *)

LEMMA HeadTyped == ASSUME Typed PROVE HeadCommit \in 0 .. Len(objs)
BY DEF Typed, HeadCommit

LEMMA TreeTyped ==
  ASSUME Typed, NEW c \in 0 .. Len(objs) PROVE TreeAt(c) \in Tree
<1>1. c # 0 => objs[c] \in Commit
  BY ElementOfSeq DEF Typed
<1>2. Empty \in Tree
  BY DEF Empty, Tree
<1> QED
  BY <1>1, <1>2 DEF TreeAt, Commit

\* What a commit descends from is older, and closed.
LEMMA Closed ==
  ASSUME NEW os \in Seq(Commit), WellFormed(os), NEW c \in 0 .. Len(os)
  PROVE  /\ Line(os, c) \subseteq 1 .. Len(os)
         /\ \A d \in Line(os, c) : Line(os, d) \subseteq Line(os, c)
<1>1. CASE c = 0
  BY <1>1 DEF Line
<1>2. CASE c # 0
  <2>1. c \in 1 .. Len(os) /\ Len(os) \in Nat
    BY <1>2
  <2>2. os[c].past \subseteq 1 .. c - 1 /\ \A d \in os[c].past : os[d].past \subseteq os[c].past
    BY <2>1 DEF WellFormed
  <2>3. Line(os, c) = os[c].past \cup {c}
    BY <1>2 DEF Line
  <2>4. \A d \in 1 .. c - 1 : d \in 1 .. Len(os) /\ d # 0
    BY <2>1
  <2>5. Line(os, c) \subseteq 1 .. Len(os)
    BY <2>1, <2>2, <2>3, <2>4
  <2>6. ASSUME NEW d \in Line(os, c) PROVE Line(os, d) \subseteq Line(os, c)
    BY <2>2, <2>3, <2>4, <2>6, <1>2 DEF Line
  <2> QED
    BY <2>5, <2>6
<1> QED
  BY <1>1, <1>2

\* os with one commit more, which leaves the older ones alone.
Grows(os, new, t, P) ==
    /\ new \in Seq(Commit) /\ WellFormed(new) /\ Len(new) = Len(os) + 1
    /\ Len(os) + 1 \in 1 .. Len(new) /\ new[Len(os) + 1] = [tree |-> t, past |-> P]
    /\ \A c \in 1 .. Len(os) : new[c] = os[c]
    /\ \A c \in 0 .. Len(os) : Line(new, c) = Line(os, c)

\* A commit on top of a closed set of commits.
LEMMA Grown ==
  ASSUME NEW os \in Seq(Commit), WellFormed(os), NEW t \in Tree,
         NEW P \in SUBSET (1 .. Len(os)), \A d \in P : os[d].past \subseteq P
  PROVE  Grows(os, Append(os, [tree |-> t, past |-> P]), t, P)
<1> DEFINE new == Append(os, [tree |-> t, past |-> P])
           n == Len(os) + 1
           e == [tree |-> t, past |-> P]
<1>1. Len(os) \in Nat /\ P \subseteq Nat
  OBVIOUS
<1>2. e \in Commit
  BY <1>1 DEF Commit
<1>3. new \in Seq(Commit) /\ Len(new) = n /\ new[n] = e /\ \A c \in 1 .. Len(os) : new[c] = os[c]
  BY <1>2, AppendProperties
<1> HIDE DEF new
<1>4. \A c \in 0 .. Len(os) : Line(new, c) = Line(os, c)
  <2>1. \A c \in 0 .. Len(os) : c = 0 \/ c \in 1 .. Len(os)
    BY <1>1
  <2>2. \A c \in 1 .. Len(os) : new[c].past = os[c].past
    BY <1>3
  <2> QED
    BY <2>1, <2>2 DEF Line
<1>5. ASSUME NEW c \in 1 .. Len(new)
      PROVE  new[c].past \subseteq 1 .. c - 1 /\ \A d \in new[c].past : new[d].past \subseteq new[c].past
  <2>1. CASE c = n
    <3>1. new[c].past = P /\ 1 .. c - 1 = 1 .. Len(os)
      BY <1>1, <1>3, <2>1
    <3>2. \A d \in P : new[d].past = os[d].past
      BY <1>3
    <3> QED
      BY <3>1, <3>2
  <2>2. CASE c # n
    <3>1. c \in 1 .. Len(os)
      BY <1>1, <1>3, <2>2
    <3>2. os[c].past \subseteq 1 .. c - 1 /\ \A d \in os[c].past : os[d].past \subseteq os[c].past
      BY <3>1 DEF WellFormed
    <3>3. \A d \in 1 .. c - 1 : d \in 1 .. Len(os)
      BY <1>1, <3>1
    <3> QED
      BY <1>3, <3>1, <3>2, <3>3
  <2> QED
    BY <2>1, <2>2
<1>6. WellFormed(new)
  BY <1>5 DEF WellFormed
<1>7. n \in 1 .. Len(new)
  BY <1>1, <1>3
<1> QED
  BY <1>3, <1>4, <1>6, <1>7 DEF Grows, new

\* A commit on HEAD: HEAD is at it, and what its parents reach, it reaches.
Committed(t, S) ==
    /\ objs' \in Seq(Commit) /\ WellFormed(objs') /\ Len(objs') = Len(objs) + 1
    /\ refs' \in [Branch -> 0 .. Len(objs')]
    /\ head' \in [on : Branch \cup {None}, at : 0 .. Len(objs')] /\ head'.on = head.on
    /\ \A b \in Branch : refs'[b] = IF b = head.on THEN HeadCommit' ELSE refs[b]
    /\ \A c \in 0 .. Len(objs) : Line(objs', c) = Line(objs, c)
    /\ HeadCommit' = Len(objs) + 1 /\ HeadTree' = t
    /\ \A c \in S : Line(objs, c) \subseteq Line(objs', HeadCommit')

LEMMA CommitStep ==
  ASSUME Typed, NEW t \in Tree, NEW S \in SUBSET (0 .. Len(objs)), CommitOn(t, S)
  PROVE  Committed(t, S)
<1> DEFINE P == UNION {Line(objs, c) : c \in S}
           n == Len(objs) + 1
<1>1. objs \in Seq(Commit) /\ WellFormed(objs) /\ Len(objs) \in Nat
  BY DEF Typed
<1>2. P \in SUBSET (1 .. Len(objs))
  BY <1>1, Closed
<1>3. \A d \in P : objs[d].past \subseteq P
  <2> SUFFICES ASSUME NEW d \in P PROVE objs[d].past \subseteq P
    OBVIOUS
  <2>1. PICK c \in S : d \in Line(objs, c)
    OBVIOUS
  <2>2. Line(objs, d) \subseteq Line(objs, c)
    BY <1>1, <2>1, Closed
  <2>3. d \in Nat \ {0}
    <3>1. d \in 1 .. Len(objs)
      BY <1>2
    <3> QED
      BY <1>1, <3>1
  <2>4. objs[d].past \subseteq Line(objs, d)
    <3> HIDE DEF P
    <3> QED
      BY <2>3 DEF Line
  <2> QED
    BY <2>2, <2>4
<1>4. objs' = Append(objs, [tree |-> t, past |-> P])
  BY DEF CommitOn
<1> HIDE DEF P
<1>5. Grows(objs, objs', t, P)
  BY <1>1, <1>2, <1>3, <1>4, Grown
<1>6. /\ head \in [on : Branch \cup {None}, at : 0 .. Len(objs)]
      /\ refs \in [Branch -> 0 .. Len(objs)] /\ None \notin Branch
  BY GitAssumption DEF Typed, GitAssumption
<1>7. \A c \in 0 .. Len(objs) : c \in 0 .. Len(objs')
  BY <1>1, <1>5 DEF Grows
<1>8. n \in 0 .. Len(objs')
  BY <1>1, <1>5 DEF Grows
<1>9. /\ refs' \in [Branch -> 0 .. Len(objs')]
      /\ head' \in [on : Branch \cup {None}, at : 0 .. Len(objs')] /\ head'.on = head.on
      /\ HeadCommit' = n
      /\ \A b \in Branch : refs'[b] = IF b = head.on THEN n ELSE refs[b]
  <2>1. CASE head.on = None
    <3>1. refs' = refs /\ head' = [head EXCEPT !.at = n]
      BY <2>1 DEF CommitOn
    <3>2. refs' \in [Branch -> 0 .. Len(objs')]
      BY <1>6, <1>7, <3>1
    <3>3. head' \in [on : Branch \cup {None}, at : 0 .. Len(objs')] /\ head'.on = None /\ head'.at = n
      BY <1>6, <1>7, <1>8, <2>1, <3>1
    <3> QED
      BY <1>6, <2>1, <3>1, <3>2, <3>3 DEF HeadCommit
  <2>2. CASE head.on # None
    <3>1. refs' = [refs EXCEPT ![head.on] = n] /\ head' = head /\ head.on \in Branch
      BY <1>6, <2>2 DEF CommitOn
    <3>2. refs' \in [Branch -> 0 .. Len(objs')] /\ refs'[head.on] = n
      BY <1>6, <1>7, <1>8, <3>1
    <3> QED
      BY <1>6, <1>7, <2>2, <3>1, <3>2 DEF HeadCommit
  <2> QED
    BY <2>1, <2>2
<1>10. HeadTree' = t /\ Line(objs', n) = P \cup {n}
  BY <1>1, <1>5, <1>9 DEF Grows, HeadTree, TreeAt, Line
<1>11. \A c \in S : Line(objs, c) \subseteq P
  BY DEF P
<1> QED
  BY <1>5, <1>9, <1>10, <1>11 DEF Grows, Committed

LEMMA Answered ==
  ASSUME NEW op, NEW r, NEW ok, Answer(op, r, ok) \/ Botched(op, r, ok)
  PROVE  answer'.op = op /\ answer'.rev = r /\ answer'.ok = ok
BY DEF Answer, Botched, Reply

LEMMA Faults ==
  ASSUME NEW op, NEW r, NEW ok
  PROVE  /\ Answer(op, r, ok) => answer'.fault = FALSE
         /\ Botched(op, r, ok) => answer'.fault = TRUE
BY DEF Answer, Botched, Reply

\* A merge of two trees is a tree unless it has conflicts.
LEMMA MergedTyped ==
  ASSUME NEW base, NEW ours \in Tree, NEW theirs \in Tree
  PROVE  /\ Merged(base, ours, theirs) \in [Path -> File \cup {None, Unmerged}]
         /\ ~Conflicts(Merged(base, ours, theirs)) => Merged(base, ours, theirs) \in Tree
<1> DEFINE m == Merged(base, ours, theirs)
<1>1. \A p \in Path : ours[p] \in File \cup {None} /\ theirs[p] \in File \cup {None}
  BY DEF Tree
<1>2. \A p \in Path : m[p] \in {ours[p], theirs[p], Unmerged}
  BY DEF Merged
<1>3. m = [p \in Path |-> m[p]]
  BY DEF Merged
<1> HIDE DEF m
<1>4. m \in [Path -> File \cup {None, Unmerged}]
  BY <1>1, <1>2, <1>3
<1>5. ~Conflicts(m) => m \in Tree
  BY <1>1, <1>2, <1>3 DEF Conflicts, Tree
<1> QED
  BY <1>4, <1>5 DEF m

\* What a checkout or a merge writes are files.
LEMMA WorkedTyped ==
  ASSUME Typed, NEW m \in [Path -> File \cup {None, Unmerged}]
  PROVE  Worked(m) \in Tree
BY DEF Worked, Typed, Tree, File

LEMMA WorkedSame ==
  ASSUME NEW m, NEW p \in Path, m[p] = index[p] PROVE Worked(m)[p] = wt[p]
BY DEF Worked

\* The stash with one entry more.
LEMMA Pushed ==
  ASSUME NEW S, NEW s \in Seq(S), NEW e
  PROVE  <<e>> \o s # <<>> /\ Tail(<<e>> \o s) = s /\ (<<e>> \o s)[1] = e
         /\ Len(<<e>> \o s) = Len(s) + 1
OBVIOUS

LEMMA ForcedOverTyped ==
  ASSUME NEW i, NEW w \in Tree, NEW t \in Tree PROVE ForcedOver(i, w, t) \in Tree
BY DEF ForcedOver, Tree

LEMMA ForcedTyped == ASSUME Typed, NEW t \in Tree PROVE Forced(t) \in Tree
BY ForcedOverTyped DEF Forced, Typed

\* What is half written are files, and only those that were to be written.
LEMMA HalfWayTyped ==
  ASSUME NEW w \in Tree, NEW new \in Tree, HalfWay(w, new)
  PROVE  wt' \in Tree /\ \A p \in Path : wt'[p] # w[p] => new[p] # w[p]
<1>1. PICK S \in SUBSET Path, L \in SUBSET Path :
        wt' = [p \in Path |-> IF p \notin S \/ w[p] = new[p] THEN w[p]
                              ELSE IF p \in L THEN None ELSE new[p]]
  BY DEF HalfWay
<1>2. \A p \in Path : wt'[p] \in {w[p], None, new[p]} /\ (wt'[p] # w[p] => new[p] # w[p])
  BY <1>1
<1> QED
  BY <1>1, <1>2 DEF Tree

\* A checkout of HEAD, whole or torn, leaves files and index in order.
LEMMA TornTyped ==
  ASSUME NEW i \in [Path -> File \cup {None, Unmerged}], NEW w \in Tree, NEW t \in Tree,
         CheckoutTorn(i, w, t)
  PROVE  index' \in [Path -> File \cup {None, Unmerged}] /\ wt' \in Tree
BY ForcedOverTyped, HalfWayTyped DEF CheckoutTorn

LEMMA WholeTyped ==
  ASSUME Typed, NEW t \in Tree, CheckoutHead(t)
  PROVE  index' \in [Path -> File \cup {None, Unmerged}] /\ wt' \in Tree
BY ForcedTyped DEF CheckoutHead, Tree

\* A merge that is no fast-forward is committed, or moves no branch; then it has
\* failed, and changed no file that held work of its own, or it is a pull in
\* which a call failed.
LEMMA MergeNormalStep ==
  ASSUME Typed, NEW op, NEW r, NEW c \in 0 .. Len(objs), MergeNormal(op, r, c)
  PROVE  /\ answer'.op = op /\ answer'.rev = r
         /\ index' \in [Path -> File \cup {None, Unmerged}] /\ wt' \in Tree
         /\ \/ /\ UNCHANGED history
               /\ answer'.ok => op = "pull" /\ answer'.fault
               /\ ~answer'.ok => \A p \in Path : wt'[p] # wt[p] => wt[p] = HeadTree[p]
            \/ \E m \in Tree : /\ Committed(m, {HeadCommit, c}) /\ answer'.ok
                               /\ ~answer'.fault => CheckoutHead(m)
<1> DEFINE m == Merged(TreeAt(Base(HeadCommit, c)), HeadTree, TreeAt(c))
<1>t. index \in [Path -> File \cup {None, Unmerged}] /\ wt \in Tree
  BY DEF Typed
<1>1. HeadTree \in Tree /\ TreeAt(c) \in Tree /\ {HeadCommit, c} \in SUBSET (0 .. Len(objs))
  BY HeadTyped, TreeTyped DEF HeadTree
<1>2. /\ m \in [Path -> File \cup {None, Unmerged}] /\ (~Conflicts(m) => m \in Tree)
      /\ Worked(m) \in Tree
  BY <1>1, MergedTyped, WorkedTyped
<1>s. ~MergeRefused(m) => \A p \in Path : Worked(m)[p] # wt[p] => wt[p] = HeadTree[p]
  <2> SUFFICES ASSUME ~MergeRefused(m), NEW p \in Path, Worked(m)[p] # wt[p]
               PROVE  wt[p] = HeadTree[p]
    OBVIOUS
  <2>1. m[p] # index[p]
    BY WorkedSame
  <2>2. index[p] = HeadTree[p] /\ m[p] # HeadTree[p]
    BY <2>1 DEF MergeRefused
  <2> QED
    BY <2>2 DEF MergeRefused
<1>3. CASE MergeRefused(m) /\ Answer(op, r, FALSE) /\ UNCHANGED <<history, files>>
  BY <1>3, <1>t, Answered DEF files
<1>4. CASE /\ ~MergeRefused(m) /\ HalfWay(wt, Worked(m)) /\ Botched(op, r, FALSE)
           /\ UNCHANGED <<history, index>>
  <2>1. wt' \in Tree /\ \A p \in Path : wt'[p] # wt[p] => Worked(m)[p] # wt[p]
    <3> HIDE DEF m
    <3> QED
      BY <1>4, <1>t, <1>2, HalfWayTyped
  <2>2. answer'.op = op /\ answer'.rev = r /\ answer'.ok = FALSE
    BY <1>4, Answered
  <2> QED
    BY <1>4, <1>t, <1>s, <2>1, <2>2
<1>5. CASE /\ ~MergeRefused(m) /\ index' = m /\ wt' = Worked(m) /\ UNCHANGED history
           /\ Answer(op, r, FALSE) \/ Botched(op, r, op = "pull")
  BY <1>5, <1>2, <1>s, Answered, Faults
<1>6. CASE ~Conflicts(m) /\ MergeCommit(op, r, m, c)
  <2>1. CommitOn(m, {HeadCommit, c}) /\ CheckoutHead(m) /\ Answer(op, r, TRUE) /\ m \in Tree
    BY <1>6, <1>2 DEF MergeCommit
  <2> HIDE DEF m
  <2> QED
    BY <2>1, <1>1, CommitStep, WholeTyped, Answered
<1>7. CASE ~MergeRefused(m) /\ MergeUncommitted(op, r, m, c)
  BY <1>7, <1>5 DEF MergeUncommitted
<1>8. CASE PullUncommitted(op, r, m, c)
  <2>1. /\ op = "pull" /\ Botched(op, r, TRUE) /\ UNCHANGED history
        /\ \/ index' = HeadTree /\ wt' = ForcedOver(m, Worked(m), HeadTree)
           \/ CheckoutTorn(m, Worked(m), HeadTree)
    BY <1>8 DEF PullUncommitted
  <2>2. index' \in [Path -> File \cup {None, Unmerged}] /\ wt' \in Tree
    <3>1. HeadTree \in [Path -> File \cup {None, Unmerged}]
      BY <1>1 DEF Tree
    <3> HIDE DEF m
    <3> QED
      BY <1>1, <1>2, <2>1, <3>1, ForcedOverTyped, TornTyped
  <2> QED
    BY <2>1, <2>2, Answered, Faults
<1>9. CASE ~Conflicts(m) /\ CommittedUnclean(op, r, m, c)
  <2>1. /\ CommitOn(m, {HeadCommit, c}) /\ CheckoutTorn(m, Worked(m), m)
        /\ Botched(op, r, TRUE) /\ m \in Tree
    BY <1>9, <1>2 DEF CommittedUnclean
  <2> HIDE DEF m
  <2> QED
    BY <1>1, <1>2, <2>1, CommitStep, TornTyped, Answered, Faults
<1> QED
  BY <1>3, <1>4, <1>5, <1>6, <1>7, <1>8, <1>9 DEF MergeNormal

-----------------------------------------------------------------------------
(* The invariant.                                                          *)

LEMMA Begins == Init => Typed
<1> SUFFICES ASSUME Init PROVE Typed
  OBVIOUS
<1>1. PICK r \in Repos :
        /\ objs = r.objs /\ refs = r.refs /\ origin = r.origin
        /\ head = [on |-> r.on, at |-> 0] /\ index = r.index /\ wt = r.wt /\ stash = r.stash
        /\ tracking = origin
  BY DEF Init
<1>2. /\ r.objs \in Seq(Commit) /\ WellFormed(r.objs) /\ r.on \in Branch
      /\ r.refs \in [Branch -> 0 .. Len(r.objs)] /\ r.origin \in [Branch -> 0 .. Len(r.objs)]
      /\ r.index \in Tree /\ r.wt \in Tree /\ r.stash \in Seq([base : Nat, saved : Tree])
  BY ReposAssumption DEF ReposAssumption
<1>3. 0 \in 0 .. Len(objs)
  BY <1>1, <1>2
<1>4. head \in [on : Branch \cup {None}, at : 0 .. Len(objs)]
  BY <1>1, <1>2, <1>3
<1>5. index \in [Path -> File \cup {None, Unmerged}]
  BY <1>1, <1>2 DEF Tree
<1> QED
  BY <1>1, <1>2, <1>4, <1>5 DEF Typed, Entry

\* A step that makes no commit.
LEMMA NoCommit ==
  ASSUME Typed, UNCHANGED objs,
         refs' \in [Branch -> 0 .. Len(objs)],
         head' \in [on : Branch \cup {None}, at : 0 .. Len(objs)],
         index' \in [Path -> File \cup {None, Unmerged}], wt' \in Tree, stash' \in Seq(Entry),
         origin' \in [Branch -> 0 .. Len(objs)], tracking' \in [Branch -> 0 .. Len(objs)]
  PROVE  Typed'
BY DEF Typed

\* The same after a commit: the branches of the remote are where they were.
LEMMA AfterCommit ==
  ASSUME Typed, NEW t, NEW S, Committed(t, S),
         index' \in [Path -> File \cup {None, Unmerged}], wt' \in Tree, stash' = stash,
         origin' = origin, tracking' \in [Branch -> 0 .. Len(objs)]
  PROVE  Typed'
<1>1. Len(objs) \in Nat /\ Len(objs') = Len(objs) + 1
  BY DEF Typed, Committed
<1>2. \A c \in 0 .. Len(objs) : c \in 0 .. Len(objs')
  BY <1>1
<1>3. origin' \in [Branch -> 0 .. Len(objs')] /\ tracking' \in [Branch -> 0 .. Len(objs')]
  BY <1>2 DEF Typed
<1> QED
  BY <1>3 DEF Typed, Committed

LEMMA MergeTyped ==
  ASSUME Typed, NEW op, NEW r, NEW c \in 0 .. Len(objs), MergeNormal(op, r, c),
         stash' = stash, origin' = origin, tracking' \in [Branch -> 0 .. Len(objs)]
  PROVE  Typed'
<1>1. index' \in [Path -> File \cup {None, Unmerged}] /\ wt' \in Tree
  BY MergeNormalStep
<1>2. CASE UNCHANGED history
  BY <1>1, <1>2, NoCommit DEF history, Typed
<1>3. ASSUME NEW m, Committed(m, {HeadCommit, c}) PROVE Typed'
  BY <1>1, <1>3, AfterCommit
<1> QED
  BY <1>2, <1>3, MergeNormalStep

\* Other people's commit is on top of what origin has.
LEMMA OthersStep ==
  ASSUME Typed, NEW b \in Branch, NEW p \in Path, NEW c \in Content, OthersPush(b, p, c)
  PROVE  \E t \in Tree, P \in SUBSET (1 .. Len(objs)) : Grows(objs, objs', t, P)
<1> DEFINE t == [TreeAt(origin[b]) EXCEPT ![p] = c]
           P == Line(objs, origin[b])
<1>1. /\ origin[b] \in 0 .. Len(objs) /\ TreeAt(origin[b]) \in Tree
      /\ objs \in Seq(Commit) /\ WellFormed(objs)
  BY TreeTyped DEF Typed
<1>2. t \in Tree
  BY <1>1 DEF Tree, File
<1>3. P \subseteq 1 .. Len(objs) /\ \A d \in P : Line(objs, d) \subseteq P
  BY <1>1, Closed
<1>4. \A d \in P : objs[d].past \subseteq P
  BY <1>3 DEF Line
<1>5. objs' = Append(objs, [tree |-> t, past |-> P])
  BY DEF OthersPush
<1> HIDE DEF t, P
<1> QED
  BY <1>1, <1>2, <1>3, <1>4, <1>5, Grown

LEMMA Steps == Typed /\ [Next]_vars => Typed'
<1> SUFFICES ASSUME Typed, [Next]_vars PROVE Typed'
  OBVIOUS
<1> USE DEF history, files, remote
<1>t. /\ refs \in [Branch -> 0 .. Len(objs)] /\ objs \in Seq(Commit) /\ WellFormed(objs)
      /\ head \in [on : Branch \cup {None}, at : 0 .. Len(objs)]
      /\ index \in [Path -> File \cup {None, Unmerged}] /\ wt \in Tree /\ stash \in Seq(Entry)
      /\ origin \in [Branch -> 0 .. Len(objs)] /\ tracking \in [Branch -> 0 .. Len(objs)]
  BY DEF Typed
<1>h. HeadCommit \in 0 .. Len(objs) /\ HeadTree \in Tree /\ 0 \in 0 .. Len(objs)
  BY HeadTyped, TreeTyped DEF HeadTree
<1>r. ASSUME NEW op, NEW r, Refused(op, r) \/ Nothing(op, r) PROVE Typed'
  BY <1>r, <1>t, NoCommit DEF Refused, Nothing
<1>1. ASSUME UNCHANGED <<history, stash, remote>>,
             index' \in [Path -> File \cup {None, Unmerged}], wt' \in Tree
      PROVE  Typed'
  BY <1>1, <1>t, NoCommit
<1>2. ASSUME NEW p \in Path, NEW c \in Content \cup {None}, Edit(p, c) PROVE Typed'
  <2>1. wt' \in Tree
    BY <1>2, <1>t DEF Edit, Tree, File
  <2> QED
    BY <1>2, <2>1, <1>1, <1>t DEF Edit
<1>3. ASSUME NEW b \in Branch, NEW p \in Path, NEW c \in Content, OthersPush(b, p, c) PROVE Typed'
  <2>1. PICK t \in Tree, P \in SUBSET (1 .. Len(objs)) : Grows(objs, objs', t, P)
    BY <1>3, OthersStep
  <2>2. /\ origin' = [origin EXCEPT ![b] = Len(objs) + 1]
        /\ UNCHANGED <<refs, head, files, stash, tracking>>
    BY <1>3 DEF OthersPush
  <2>3. /\ objs' \in Seq(Commit) /\ WellFormed(objs') /\ Len(objs) + 1 \in 0 .. Len(objs')
        /\ \A d \in 0 .. Len(objs) : d \in 0 .. Len(objs')
    BY <1>t, <2>1 DEF Grows
  <2>4. origin' \in [Branch -> 0 .. Len(objs')]
    BY <1>t, <2>2, <2>3
  <2>5. refs \in [Branch -> 0 .. Len(objs')] /\ tracking \in [Branch -> 0 .. Len(objs')]
        /\ head \in [on : Branch \cup {None}, at : 0 .. Len(objs')]
    BY <1>t, <2>3
  <2> QED
    BY <1>t, <2>2, <2>3, <2>4, <2>5 DEF Typed
<1>4. ASSUME NEW S \in Some, GitAdd(S) \/ GitUnstage(S) \/ GitRestore(S) PROVE Typed'
  <2>1. index' \in [Path -> File \cup {None, Unmerged}]
    BY <1>4, <1>t, <1>h DEF GitAdd, GitUnstage, GitRestore, Tree
  <2>2. wt' \in Tree
    BY <1>4, <1>t DEF GitAdd, GitUnstage, GitRestore, Tree, File
  <2> QED
    BY <1>4, <2>1, <2>2, <1>1 DEF GitAdd, GitUnstage, GitRestore
<1>5. ASSUME NEW all \in BOOLEAN, GitCommit(all) PROVE Typed'
  <2> DEFINE staged == IF all THEN UpdatedAll ELSE index
  <2>1. staged \in [Path -> File \cup {None, Unmerged}] /\ (~Conflicts(staged) => staged \in Tree)
    BY <1>t DEF UpdatedAll, Conflicts, Tree
  <2>2. index' = staged /\ UNCHANGED <<wt, stash, remote>>
    BY <1>5 DEF GitCommit
  <2>3. CASE Conflicts(staged)
    BY <1>5, <1>1, <1>t, <2>1, <2>2, <2>3 DEF GitCommit
  <2>4. CASE ~Conflicts(staged)
    <3>1. CommitOn(staged, {HeadCommit}) /\ {HeadCommit} \in SUBSET (0 .. Len(objs))
      BY <1>5, <1>h, <2>4 DEF GitCommit
    <3> HIDE DEF staged
    <3>2. Committed(staged, {HeadCommit})
      BY <2>1, <2>4, <3>1, CommitStep
    <3> QED
      BY <1>t, <2>1, <2>2, <3>2, AfterCommit
  <2> QED
    BY <2>3, <2>4
<1>6. ASSUME NEW S \in Some, NEW cached \in BOOLEAN, GitRm(S, cached) PROVE Typed'
  <2>1. index' \in [Path -> File \cup {None, Unmerged}] /\ wt' \in Tree
    BY <1>6, <1>t DEF GitRm, Tree
  <2> QED
    BY <1>6, <2>1, <1>1 DEF GitRm
<1>7. ASSUME NEW p \in Path, NEW q \in Path, GitMv(p, q) PROVE Typed'
  <2>1. CASE wt[p] # None
    <3>1. wt' \in Tree
      BY <1>7, <2>1, <1>t DEF GitMv, Tree
    <3>2. index' \in [Path -> File \cup {None, Unmerged}]
      BY <1>7, <2>1, <1>t DEF GitMv, Tree
    <3> QED
      BY <1>7, <2>1, <3>1, <3>2, <1>1 DEF GitMv
  <2> QED
    BY <1>7, <2>1, <1>r DEF GitMv
<1>8. CASE GitClean
  <2>1. wt' \in Tree
    BY <1>8, <1>t DEF GitClean, Tree
  <2> QED
    BY <1>8, <2>1, <1>1, <1>t DEF GitClean
<1>9. ASSUME NEW b \in Branch, NEW switch \in BOOLEAN, GitBranch(b, switch) PROVE Typed'
  <2>1. CASE ~(HeadCommit = 0 \/ refs[b] # 0)
    <3>1. refs' = [refs EXCEPT ![b] = HeadCommit] /\ head' \in {head, [on |-> b, at |-> 0]}
          /\ UNCHANGED <<objs, files, stash, remote>>
      BY <1>9, <2>1 DEF GitBranch
    <3>2. refs' \in [Branch -> 0 .. Len(objs)]
          /\ head' \in [on : Branch \cup {None}, at : 0 .. Len(objs)]
      BY <1>t, <1>h, <3>1
    <3> QED
      BY <1>t, <3>1, <3>2, NoCommit
  <2> QED
    BY <1>9, <1>r, <2>1 DEF GitBranch
<1>10. ASSUME NEW b \in Branch, GitBranchDelete(b) PROVE Typed'
  <2>1. CASE ~(refs[b] = 0 \/ head.on = b)
    <3>1. refs' = [refs EXCEPT ![b] = 0] /\ UNCHANGED <<objs, head, files, stash, remote>>
      BY <1>10, <2>1 DEF GitBranchDelete
    <3>2. refs' \in [Branch -> 0 .. Len(objs)]
      BY <1>t, <1>h, <3>1
    <3> QED
      BY <1>t, <3>1, <3>2, NoCommit
  <2> QED
    BY <1>10, <1>r, <2>1 DEF GitBranchDelete
<1>11. ASSUME NEW r \in BranchRev, GitCheckout(r) PROVE Typed'
  <2> DEFINE c == Resolve(r)
  <2>1. c \in 0 .. Len(objs) /\ TreeAt(c) \in Tree
    BY <1>t, <1>h, TreeTyped DEF Resolve, BranchRev
  <2>2. CASE ~(c = 0 \/ ~SafeFrom(HeadTree, TreeAt(c)))
    <3>1. /\ wt' = Switched(HeadTree, TreeAt(c)) /\ index' = Restaged(HeadTree, TreeAt(c))
          /\ head' \in {[on |-> r.name, at |-> 0], [on |-> None, at |-> c]}
          /\ r.name \in Branch /\ UNCHANGED <<objs, refs, stash, remote>>
      BY <1>11, <2>2 DEF GitCheckout, BranchRev
    <3> HIDE DEF c
    <3>2. wt' \in Tree
      BY <1>t, <1>h, <2>1, <3>1 DEF Switched, Tree
    <3>3. index' \in [Path -> File \cup {None, Unmerged}]
      BY <1>t, <1>h, <2>1, <3>1 DEF Restaged, Tree
    <3>4. head' \in [on : Branch \cup {None}, at : 0 .. Len(objs)]
      BY <1>h, <2>1, <3>1
    <3> QED
      BY <1>t, <3>1, <3>2, <3>3, <3>4, NoCommit
  <2> QED
    BY <1>11, <1>r, <2>2 DEF GitCheckout
<1>12. ASSUME NEW mode \in {"soft", "mixed", "hard"}, NEW r \in BranchRev \cup {HEAD}, GitReset(mode, r)
       PROVE  Typed'
  <2> DEFINE c == Resolve(r)
             blocked == mode = "soft" /\ (merging # 0 \/ Conflicts(index))
  <2>1. c \in 0 .. Len(objs) /\ TreeAt(c) \in Tree
    BY <1>t, <1>h, TreeTyped DEF Resolve, BranchRev, HEAD
  <2>2. CASE ~(c = 0 \/ HeadCommit = 0 \/ blocked)
    <3>1. /\ refs' = IF head.on = None THEN refs ELSE [refs EXCEPT ![head.on] = c]
          /\ head' = IF head.on = None THEN [head EXCEPT !.at = c] ELSE head
          /\ index' \in {index, TreeAt(c)} /\ wt' \in {wt, Forced(TreeAt(c))}
          /\ UNCHANGED <<objs, stash, remote>>
      BY <1>12, <2>2 DEF GitReset
    <3> HIDE DEF c
    <3>2. refs' \in [Branch -> 0 .. Len(objs)]
          /\ head' \in [on : Branch \cup {None}, at : 0 .. Len(objs)]
      BY <1>t, <2>1, <3>1
    <3>3. index' \in [Path -> File \cup {None, Unmerged}] /\ wt' \in Tree
      BY <1>t, <2>1, <3>1, ForcedTyped DEF Tree
    <3> QED
      BY <1>t, <3>1, <3>2, <3>3, NoCommit
  <2> QED
    BY <1>12, <1>r, <2>2 DEF GitReset
<1>13. ASSUME NEW u \in BOOLEAN, GitStashPush(u) PROVE Typed'
  <2> DEFINE Taken(p) == Tracked(p) \/ HeadTree[p] # None \/ u
             saved == [p \in Path |-> IF Taken(p) THEN wt[p] ELSE None]
             e == [base |-> HeadCommit, saved |-> saved]
  <2>1. CASE /\ stash' = <<e>> \o stash /\ index' = HeadTree
             /\ wt' = [p \in Path |-> IF Taken(p) THEN HeadTree[p] ELSE wt[p]]
             /\ UNCHANGED <<history, remote>>
    <3>1. saved \in Tree /\ wt' \in Tree /\ index' \in [Path -> File \cup {None, Unmerged}]
      BY <1>t, <1>h, <2>1 DEF Tree
    <3>2. e \in Entry
      BY <1>h, <3>1 DEF Entry
    <3> HIDE DEF e, saved
    <3>3. stash' \in Seq(Entry)
      BY <1>t, <2>1, <3>2
    <3> QED
      BY <1>t, <2>1, <3>1, <3>3, NoCommit
  <2> QED
    BY <1>13, <1>r, <2>1 DEF GitStashPush
<1>14. ASSUME NEW drop \in BOOLEAN, GitStashApply(drop) PROVE Typed'
  <2> DEFINE m == Merged(TreeAt(stash[1].base), index, stash[1].saved)
  <2>1. CASE /\ stash # <<>> /\ index = HeadTree /\ wt' = Worked(m)
             /\ index' = IF Conflicts(m) THEN index
                         ELSE [p \in Path |-> IF index[p] = None THEN m[p] ELSE index[p]]
             /\ stash' \in {stash, Tail(stash)} /\ UNCHANGED <<history, remote>>
    <3>1. stash[1] \in Entry /\ Tail(stash) \in Seq(Entry)
      BY <1>t, <2>1
    <3>2. m \in [Path -> File \cup {None, Unmerged}]
      BY <1>h, <2>1, <3>1, MergedTyped DEF Entry
    <3> HIDE DEF m
    <3>3. wt' \in Tree
      BY <2>1, <3>2, WorkedTyped
    <3>4. index' \in [Path -> File \cup {None, Unmerged}]
      BY <1>t, <2>1, <3>2
    <3> QED
      BY <1>t, <2>1, <3>1, <3>3, <3>4, NoCommit
  <2> QED
    BY <1>14, <1>r, <2>1 DEF GitStashApply
<1>15. CASE GitStashDrop
  <2>1. CASE stash # <<>>
    <3>1. Tail(stash) \in Seq(Entry)
      BY <1>t, <2>1
    <3> QED
      BY <1>15, <1>t, <2>1, <3>1, NoCommit DEF GitStashDrop
  <2> QED
    BY <1>15, <1>r, <2>1 DEF GitStashDrop
<1>16. ASSUME NEW r \in BranchRev, GitMerge(r) PROVE Typed'
  <2> DEFINE c == Resolve(r)
  <2>1. c \in 0 .. Len(objs) /\ TreeAt(c) \in Tree
    BY <1>t, TreeTyped DEF Resolve, BranchRev
  <2>2. CASE Refused("merge", r) \/ Nothing("merge", r)
    BY <1>r, <2>2
  <2>3. CASE /\ refs' = IF head.on = None THEN refs ELSE [refs EXCEPT ![head.on] = c]
             /\ \E t \in {HeadTree, TreeAt(c)} : CheckoutHead(t) \/ CheckoutTorn(index, wt, t)
             /\ UNCHANGED <<objs, head, stash, remote>>
    <3> HIDE DEF c
    <3>1. PICK t \in Tree : CheckoutHead(t) \/ CheckoutTorn(index, wt, t)
      BY <1>h, <2>1, <2>3
    <3>2. refs' \in [Branch -> 0 .. Len(objs)]
      BY <1>t, <2>1, <2>3
    <3>3. index' \in [Path -> File \cup {None, Unmerged}] /\ wt' \in Tree
      BY <1>t, <3>1, WholeTyped, TornTyped
    <3> QED
      BY <1>t, <2>3, <3>2, <3>3, NoCommit
  <2>4. CASE MergeNormal("merge", r, c) /\ UNCHANGED <<stash, remote>>
    <3> HIDE DEF c
    <3> QED
      BY <1>t, <2>1, <2>4, MergeTyped
  <2> QED
    BY <1>16, <2>2, <2>3, <2>4 DEF GitMerge, MergeForward
<1>17. CASE GitMergeAbort
  <2>1. CASE CheckoutHead(HeadTree) /\ UNCHANGED <<history, stash, remote>>
    <3>1. index' \in [Path -> File \cup {None, Unmerged}] /\ wt' \in Tree
      BY <1>h, <2>1, ForcedTyped DEF CheckoutHead, Tree
    <3> QED
      BY <2>1, <3>1, <1>1
  <2> QED
    BY <1>17, <1>r, <2>1 DEF GitMergeAbort
<1>18. CASE GitFetch
  <2>1. tracking' \in [Branch -> 0 .. Len(objs)]
    BY <1>18, <1>t DEF GitFetch
  <2> QED
    BY <1>18, <1>t, <2>1, NoCommit DEF GitFetch
<1>19. ASSUME NEW b \in Branch, GitPull(b) PROVE Typed'
  <2> DEFINE c == origin[b]
             r == [kind |-> "remote", name |-> b]
  <2>1. c \in 0 .. Len(objs) /\ TreeAt(c) \in Tree
    BY <1>t, TreeTyped
  <2>t. \A d \in 0 .. Len(objs) : TreeAt(d) \in Tree
    BY TreeTyped
  <2>2. CASE Refused("pull", r)
    BY <1>r, <2>2
  <2>3. CASE c # 0
    <3>1. tracking' = [tracking EXCEPT ![b] = c] /\ UNCHANGED <<stash, origin>>
      BY <1>19, <2>3 DEF GitPull
    <3>2. tracking' \in [Branch -> 0 .. Len(objs)]
      BY <1>t, <2>1, <3>1
    <3>3. CASE UNCHANGED <<history, files>>
      BY <1>t, <3>1, <3>2, <3>3, NoCommit
    <3>4. CASE PullForward(b, r, c)
      <4>1. /\ refs' = [refs EXCEPT ![b] = c] /\ head' \in {head, [on |-> b, at |-> 0]}
            /\ UNCHANGED objs
        BY <3>4 DEF PullForward
      <4>2. refs' \in [Branch -> 0 .. Len(objs)]
            /\ head' \in [on : Branch \cup {None}, at : 0 .. Len(objs)]
        BY <1>t, <1>h, <2>1, <4>1
      <4>3. HeadCommit' \in 0 .. Len(objs)
        BY <4>2 DEF HeadCommit
      <4>4. HeadTree' \in Tree
        BY <2>t, <4>1, <4>3 DEF HeadTree, TreeAt
      <4>5. index' \in [Path -> File \cup {None, Unmerged}] /\ wt' \in Tree
        BY <1>t, <2>1, <3>4, <4>4, WholeTyped, TornTyped DEF PullForward
      <4> QED
        BY <1>t, <3>1, <3>2, <4>1, <4>2, <4>5, NoCommit
    <3>5. CASE MergeNormal("pull", r, c)
      BY <2>1, <3>1, <3>2, <3>5, MergeTyped
    <3> QED
      BY <1>19, <2>3, <3>3, <3>4, <3>5 DEF GitPull
  <2> QED
    BY <1>19, <2>2, <2>3 DEF GitPull
<1>20. ASSUME NEW b \in Branch, GitPush(b) PROVE Typed'
  <2>1. CASE Refused("push", [kind |-> "local", name |-> b])
    BY <1>r, <2>1
  <2>2. CASE /\ \/ /\ origin' = [origin EXCEPT ![b] = refs[b]]
                   /\ tracking' = [tracking EXCEPT ![b] = refs[b]]
                \/ UNCHANGED remote
             /\ UNCHANGED <<history, files, stash>>
    <3>1. origin' \in [Branch -> 0 .. Len(objs)] /\ tracking' \in [Branch -> 0 .. Len(objs)]
      BY <1>t, <2>2
    <3> QED
      BY <1>t, <2>2, <3>1, NoCommit
  <2> QED
    BY <1>20, <2>1, <2>2 DEF GitPush
<1>21. CASE UNCHANGED vars
  BY <1>21, <1>1, <1>t DEF vars
<1> QED
  BY <1>2, <1>3, <1>4, <1>5, <1>6, <1>7, <1>8, <1>9, <1>10, <1>11, <1>12, <1>13, <1>14, <1>15,
    <1>16, <1>17, <1>18, <1>19, <1>20, <1>21 DEF Next

LEMMA Invariant == Spec => []Typed
BY Begins, Steps, PTL DEF Spec

-----------------------------------------------------------------------------
(* Theorems.                                                               *)

\* A file is written again where the merge differs from the index only.
LEMMA SafeMerge ==
  ASSUME NEW m, NEW p \in Path, Worked(m)[p] # wt[p] PROVE m[p] # index[p]
BY WorkedSame

\* Uncommitted work is not lost: in any session a step that changes a file which
\* is neither committed nor absent was told to, is one of the forced checkouts,
\* or has put it on the stash (checkout_tree safe, stash_save2, Repository::merge).
THEOREM UncommittedWorkKept == Spec => WorkKept
<1> DEFINE K(p) ==
         /\ wt[p] \notin {None, HeadTree[p]}
         /\ wt'[p] # wt[p]
         => \/ answer'.op \in Asked
            \/ answer'.op \in Unasked /\ answer'.ok
            \/ stash' # <<>> /\ Tail(stash') = stash /\ stash'[1].saved[p] = wt[p]
<1>1. ASSUME Typed, [Next]_vars, NEW p \in Path PROVE K(p)
  <2> USE DEF history, files, remote
  <2>s. ASSUME wt' = wt PROVE K(p)
    BY <2>s
  <2>a. ASSUME answer'.op \in Asked \/ (answer'.op \in Unasked /\ answer'.ok) PROVE K(p)
    BY <2>a
  <2>r. ASSUME NEW op, NEW r, Refused(op, r) \/ Nothing(op, r) PROVE K(p)
    BY <2>r, <2>s DEF Refused, Nothing
  <2>m. ASSUME NEW op \in Unasked, NEW r, NEW c \in 0 .. Len(objs), MergeNormal(op, r, c) PROVE K(p)
    <3>1. CASE answer'.ok
      BY <1>1, <2>m, <2>a, <3>1, MergeNormalStep
    <3>2. CASE ~answer'.ok
      <4>1. wt'[p] # wt[p] => wt[p] = HeadTree[p]
        <5>1. ASSUME NEW m \in Tree, Committed(m, {HeadCommit, c}), answer'.ok PROVE FALSE
          BY <3>2, <5>1
        <5> QED
          BY <1>1, <2>m, <3>2, <5>1, MergeNormalStep
      <4> QED
        BY <4>1
    <3> QED
      BY <3>1, <3>2
  <2>1. ASSUME NEW q \in Path, NEW c, Edit(q, c) PROVE K(p)
    BY <2>1, <2>a, Answered DEF Edit, Asked
  <2>2. ASSUME NEW S, GitRestore(S) \/ (\E cached \in BOOLEAN : GitRm(S, cached)) PROVE K(p)
    BY <2>2, <2>a, Answered DEF GitRestore, GitRm, Asked
  <2>3. ASSUME NEW q \in Path, NEW x \in Path, GitMv(q, x) PROVE K(p)
    BY <2>3, <2>a, <2>r, Answered DEF GitMv, Unasked
  <2>4. CASE GitClean
    BY <2>4, <2>a, Answered DEF GitClean, Asked
  <2>5. ASSUME NEW r \in BranchRev, GitCheckout(r) PROVE K(p)
    <3>1. CASE SafeFrom(HeadTree, TreeAt(Resolve(r))) /\ wt' = Switched(HeadTree, TreeAt(Resolve(r)))
      BY <3>1 DEF SafeFrom, Switched
    <3> QED
      BY <2>5, <2>r, <3>1 DEF GitCheckout
  <2>6. ASSUME NEW mode, NEW r, GitReset(mode, r) PROVE K(p)
    BY <2>6, <2>a, <2>s, <2>r, Answered DEF GitReset, Asked
  <2>7. ASSUME NEW u \in BOOLEAN, GitStashPush(u) PROVE K(p)
    <3> DEFINE Taken(x) == Tracked(x) \/ HeadTree[x] # None \/ u
               saved == [x \in Path |-> IF Taken(x) THEN wt[x] ELSE None]
               e == [base |-> HeadCommit, saved |-> saved]
    <3>1. CASE /\ stash' = <<e>> \o stash
               /\ wt' = [x \in Path |-> IF Taken(x) THEN HeadTree[x] ELSE wt[x]]
      <4>1. wt'[p] # wt[p] => e.saved[p] = wt[p]
        BY <3>1
      <4> HIDE DEF e
      <4>2. stash' # <<>> /\ Tail(stash') = stash /\ stash'[1] = e
        BY <1>1, <3>1, Pushed DEF Typed
      <4> QED
        BY <4>1, <4>2
    <3> QED
      BY <2>7, <2>r, <3>1 DEF GitStashPush
  <2>8. ASSUME NEW drop \in BOOLEAN, GitStashApply(drop) PROVE K(p)
    <3> DEFINE m == Merged(TreeAt(stash[1].base), index, stash[1].saved)
    <3>1. CASE /\ ~(\E x \in Path : m[x] # index[x] /\ wt[x] # index[x])
               /\ index = HeadTree /\ wt' = Worked(m)
      <4> HIDE DEF m
      <4> QED
        BY <3>1, SafeMerge
    <3> QED
      BY <2>8, <2>r, <3>1 DEF GitStashApply
  <2>9. ASSUME NEW r \in BranchRev, GitMerge(r) PROVE K(p)
    <3>1. Resolve(r) \in 0 .. Len(objs)
      BY <1>1 DEF Typed, Resolve, BranchRev
    <3>2. CASE MergeNormal("merge", r, Resolve(r))
      BY <3>1, <3>2, <2>m DEF Unasked
    <3> QED
      BY <2>9, <2>r, <2>a, <3>2, Answered DEF GitMerge, MergeForward, Unasked
  <2>10. CASE GitMergeAbort
    BY <2>10, <2>r, <2>a, Answered DEF GitMergeAbort, Asked
  <2>11. ASSUME NEW b \in Branch, GitPull(b) PROVE K(p)
    <3> DEFINE r == [kind |-> "remote", name |-> b]
    <3>1. origin[b] \in 0 .. Len(objs)
      BY <1>1 DEF Typed
    <3>2. CASE MergeNormal("pull", r, origin[b])
      BY <3>1, <3>2, <2>m DEF Unasked
    <3>3. CASE Answer("pull", r, TRUE) \/ PullForward(b, r, origin[b])
      BY <3>3, <2>a, Answered DEF PullForward, Unasked
    <3>4. CASE Refused("pull", r)
      BY <3>4, <2>r
    <3> QED
      BY <2>11, <3>2, <3>3, <3>4 DEF GitPull
  <2>12. ASSUME \/ \E b \in Branch, q \in Path, c \in Content : OthersPush(b, q, c)
                \/ \E S \in Some : GitAdd(S) \/ GitUnstage(S)
                \/ \E all \in BOOLEAN : GitCommit(all)
                \/ \E b \in Branch : GitBranchDelete(b) \/ GitPush(b)
                \/ \E b \in Branch, switch \in BOOLEAN : GitBranch(b, switch)
                \/ GitStashDrop \/ GitFetch \/ UNCHANGED vars
         PROVE  K(p)
    BY <2>12, <2>s, <2>r DEF OthersPush, GitAdd, GitUnstage, GitCommit, GitBranchDelete, GitPush,
       GitBranch, GitStashDrop, GitFetch, vars
  <2> QED
    BY <1>1, <2>1, <2>2, <2>3, <2>4, <2>5, <2>6, <2>7, <2>8, <2>9, <2>10, <2>11, <2>12 DEF Next
<1> HIDE DEF K
<1>2. Typed /\ [Next]_vars => [\A p \in Path : K(p)]_vars
  BY <1>1
<1> QED
  BY <1>2, Invariant, PTL DEF Spec, WorkKept, K

\* Of what local branches reach nothing is lost, whatever is merged, pulled or
\* committed, on a branch or not (Repository::commit, the fast-forwards of
\* git_merge and git_pull).
THEOREM HistoryKept == Spec => CommitsKept
<1> DEFINE K ==
       \/ Reached(objs, refs) \subseteq Reached(objs', refs')
       \/ answer'.op \in {"reset", "reset --hard", "delete"}
       \/ answer'.op = "pull" /\ answer'.rev.name # head.on
<1>1. ASSUME Typed, [Next]_vars PROVE K
  <2> USE DEF history, files, remote
  <2>t. /\ refs \in [Branch -> 0 .. Len(objs)] /\ objs \in Seq(Commit) /\ WellFormed(objs)
        /\ HeadCommit \in 0 .. Len(objs) /\ tracking \in [Branch -> 0 .. Len(objs)]
        /\ origin \in [Branch -> 0 .. Len(objs)]
        /\ \A b \in Branch : b = head.on => refs[b] = HeadCommit
    BY <1>1, HeadTyped, GitAssumption DEF Typed, GitAssumption, HeadCommit
  <2>b. ASSUME \A b \in Branch : Line(objs, refs[b]) \subseteq Line(objs', refs'[b]) PROVE K
    BY <2>b DEF Reached
  <2>s. ASSUME objs' = objs, refs' = refs PROVE K
    BY <2>s, <2>b
  <2>r. ASSUME NEW op, NEW r, Refused(op, r) \/ Nothing(op, r) PROVE K
    BY <2>r, <2>s DEF Refused, Nothing
  <2>c. ASSUME NEW t, NEW S, HeadCommit \in S, Committed(t, S) PROVE K
    <3> SUFFICES ASSUME NEW b \in Branch PROVE Line(objs, refs[b]) \subseteq Line(objs', refs'[b])
      BY <2>b
    <3>1. CASE b = head.on
      BY <2>c, <2>t, <3>1 DEF Committed
    <3>2. CASE b # head.on
      BY <2>c, <2>t, <3>2 DEF Committed
    <3> QED
      BY <3>1, <3>2
  <2>f. ASSUME NEW c \in 1 .. Len(objs), NEW b \in Branch,
               objs' = objs, refs' = [refs EXCEPT ![b] = c], refs[b] = 0 \/ refs[b] \in Line(objs, c)
        PROVE  K
    <3> SUFFICES ASSUME NEW d \in Branch PROVE Line(objs, refs[d]) \subseteq Line(objs', refs'[d])
      BY <2>b
    <3>1. Line(objs, refs[b]) \subseteq Line(objs, c)
      BY <2>f, <2>t, Closed DEF Line
    <3> QED
      BY <2>f, <2>t, <3>1
  <2>m. ASSUME NEW op, NEW r, NEW c \in 0 .. Len(objs), MergeNormal(op, r, c) PROVE K
    <3>1. UNCHANGED history \/ \E m \in Tree : Committed(m, {HeadCommit, c})
      BY <1>1, <2>m, MergeNormalStep
    <3> QED
      BY <2>c, <2>s, <3>1
  <2>1. ASSUME NEW b \in Branch, NEW p \in Path, NEW c \in Content, OthersPush(b, p, c) PROVE K
    <3>1. PICK t \in Tree, P \in SUBSET (1 .. Len(objs)) : Grows(objs, objs', t, P)
      BY <1>1, <2>1, OthersStep
    <3> QED
      BY <2>1, <2>b, <2>t, <3>1 DEF OthersPush, Grows
  <2>2. ASSUME NEW all \in BOOLEAN, GitCommit(all) PROVE K
    <3> DEFINE staged == IF all THEN UpdatedAll ELSE index
    <3>1. staged \in [Path -> File \cup {None, Unmerged}] /\ (~Conflicts(staged) => staged \in Tree)
      BY <1>1 DEF UpdatedAll, Conflicts, Tree, Typed
    <3>2. CASE Conflicts(staged)
      BY <2>2, <2>s, <3>2 DEF GitCommit
    <3>3. CASE ~Conflicts(staged)
      <4>1. CommitOn(staged, {HeadCommit}) /\ {HeadCommit} \in SUBSET (0 .. Len(objs))
        BY <2>2, <2>t, <3>3 DEF GitCommit
      <4> HIDE DEF staged
      <4>2. Committed(staged, {HeadCommit})
        BY <1>1, <3>1, <3>3, <4>1, CommitStep
      <4> QED
        BY <4>2, <2>c
    <3> QED
      BY <3>2, <3>3
  <2>3. ASSUME NEW b \in Branch, NEW switch \in BOOLEAN, GitBranch(b, switch) PROVE K
    <3>1. CASE ~(HeadCommit = 0 \/ refs[b] # 0)
      <4>1. HeadCommit \in 1 .. Len(objs)
        BY <2>t, <3>1
      <4>2. refs' = [refs EXCEPT ![b] = HeadCommit] /\ objs' = objs /\ refs[b] = 0
        BY <2>3, <3>1 DEF GitBranch
      <4> QED
        BY <2>f, <4>1, <4>2
    <3> QED
      BY <2>3, <2>r, <3>1 DEF GitBranch
  <2>4. ASSUME NEW b \in Branch, GitBranchDelete(b) PROVE K
    BY <2>4, <2>r, Answered DEF GitBranchDelete
  <2>5. ASSUME NEW mode, NEW r, GitReset(mode, r) PROVE K
    BY <2>5, <2>r, Answered DEF GitReset
  <2>6. ASSUME NEW r \in BranchRev, GitMerge(r) PROVE K
    <3> DEFINE c == Resolve(r)
    <3>1. c \in 0 .. Len(objs)
      BY <2>t DEF Resolve, BranchRev
    <3>2. CASE /\ c # 0 /\ HeadCommit \in Line(objs, c) /\ UNCHANGED objs
               /\ refs' = IF head.on = None THEN refs ELSE [refs EXCEPT ![head.on] = c]
      <4>1. CASE head.on = None
        BY <2>s, <3>2, <4>1
      <4>2. CASE head.on # None
        <5>1. head.on \in Branch /\ refs[head.on] = HeadCommit /\ c \in 1 .. Len(objs)
          BY <1>1, <2>t, <3>1, <3>2, <4>2 DEF Typed
        <5> HIDE DEF c
        <5> QED
          BY <2>f, <3>2, <4>2, <5>1
      <4> QED
        BY <4>1, <4>2
    <3>3. CASE MergeNormal("merge", r, c)
      BY <2>m, <3>1, <3>3
    <3>4. CASE Refused("merge", r) \/ Nothing("merge", r)
      BY <2>r, <3>4
    <3> QED
      BY <2>6, <3>2, <3>3, <3>4 DEF GitMerge, MergeForward
  <2>7. ASSUME NEW b \in Branch, GitPull(b) PROVE K
    <3> DEFINE c == origin[b]
               r == [kind |-> "remote", name |-> b]
    <3>1. CASE /\ c # 0 /\ (HeadCommit = 0 \/ HeadCommit \in Line(objs, c) \ {c})
               /\ refs' = [refs EXCEPT ![b] = c] /\ objs' = objs
               /\ Answer("pull", r, TRUE) \/ Botched("pull", r, TRUE)
      <4>1. CASE b = head.on
        <5>1. c \in 1 .. Len(objs) /\ refs[b] = HeadCommit
          BY <2>t, <3>1, <4>1
        <5> QED
          BY <2>f, <3>1, <5>1
      <4>2. CASE b # head.on
        <5>1. answer'.op = "pull" /\ answer'.rev = r
          BY <3>1, Answered
        <5>2. answer'.rev.name = b
          BY <5>1
        <5> QED
          BY <4>2, <5>1, <5>2
      <4> QED
        BY <4>1, <4>2
    <3>2. CASE MergeNormal("pull", r, c)
      BY <2>m, <2>t, <3>2
    <3>3. CASE UNCHANGED history
      BY <2>s, <3>3
    <3>4. CASE Refused("pull", r)
      BY <2>r, <3>4
    <3> QED
      BY <2>7, <3>1, <3>2, <3>3, <3>4 DEF GitPull, PullForward
  <2>8. ASSUME \/ \E p \in Path, c \in Content \cup {None} : Edit(p, c)
               \/ \E S \in Some : GitAdd(S) \/ GitUnstage(S) \/ GitRestore(S)
               \/ \E S \in Some, cached \in BOOLEAN : GitRm(S, cached)
               \/ \E p, q \in Path : GitMv(p, q)
               \/ \E r \in BranchRev : GitCheckout(r)
               \/ \E u \in BOOLEAN : GitStashPush(u) \/ GitStashApply(u)
               \/ \E b \in Branch : GitPush(b)
               \/ GitClean \/ GitStashDrop \/ GitMergeAbort \/ GitFetch \/ UNCHANGED vars
        PROVE  K
    BY <2>8, <2>s, <2>r DEF Edit, GitAdd, GitUnstage, GitRestore, GitRm, GitMv, GitCheckout,
       GitStashPush, GitStashApply, GitPush, GitClean, GitStashDrop, GitMergeAbort, GitFetch, vars
  <2> QED
    BY <1>1, <2>1, <2>2, <2>3, <2>4, <2>5, <2>6, <2>7, <2>8 DEF Next
<1> HIDE DEF K
<1>2. Typed /\ [Next]_vars => [K]_vars
  BY <1>1
<1> QED
  BY <1>2, Invariant, PTL DEF Spec, CommitsKept, K

\* A merge that reports success has joined the histories, by a fast-forward or by
\* a commit with both parents, whatever libgit2 calls failed on the way, and so has
\* a pull in which none did (git_merge, git_pull).
THEOREM MergesJoin == Spec => MergeJoins
<1> DEFINE K == answer'.ok /\ \/ answer'.op = "merge" /\ head.on # None /\ HeadCommit # 0
                              \/ answer'.op = "pull" /\ ~answer'.fault
                => Joined
<1>1. ASSUME Typed, Next PROVE K
  <2> USE DEF history, files, remote
  <2>t. /\ refs \in [Branch -> 0 .. Len(objs)] /\ None \notin Branch
        /\ head \in [on : Branch \cup {None}, at : 0 .. Len(objs)]
        /\ HeadCommit \in 0 .. Len(objs) /\ tracking \in [Branch -> 0 .. Len(objs)]
        /\ origin \in [Branch -> 0 .. Len(objs)]
    BY <1>1, HeadTyped, GitAssumption DEF Typed, GitAssumption
  <2>o. ASSUME NEW op, NEW r, NEW ok, Answer(op, r, ok), op \notin {"merge", "pull"} PROVE K
    BY <2>o, Answered
  <2>r. ASSUME NEW op, NEW r, Refused(op, r) PROVE K
    <3>1. answer'.ok = FALSE
      BY <2>r, Answered DEF Refused
    <3> QED
      BY <3>1
  <2>n. ASSUME NEW op, NEW r, Nothing(op, r), op \notin {"merge", "pull"} PROVE K
    BY <2>n, <2>o DEF Nothing
  <2>m. ASSUME NEW op, NEW r, NEW c \in 1 .. Len(objs), MergeNormal(op, r, c)
        PROVE  /\ answer'.op = op /\ answer'.rev = r
               /\ answer'.ok /\ (op = "pull" => ~answer'.fault) => c \in Line(objs', HeadCommit')
    <3>1. ASSUME NEW t \in Tree, Committed(t, {HeadCommit, c}) PROVE c \in Line(objs', HeadCommit')
      BY <3>1 DEF Committed, Line
    <3>2. c \in 0 .. Len(objs)
      BY <2>m
    <3> QED
      BY <1>1, <2>m, <3>1, <3>2, MergeNormalStep
  <2>1. ASSUME NEW r \in BranchRev, GitMerge(r) PROVE K
    <3> DEFINE c == Resolve(r)
    <3>1. c \in 0 .. Len(objs)
      BY <2>t DEF Resolve, BranchRev
    <3>2. CASE Refused("merge", r)
      BY <2>r, <3>2
    <3>3. CASE c # 0
      <4> SUFFICES ASSUME head.on # None, HeadCommit # 0, answer'.ok, answer'.op = "merge",
                          answer'.rev = r
                   PROVE  c \in Line(objs', HeadCommit')
        <5> USE DEF Joined
        <5>1. answer'.op = "merge" /\ answer'.rev = r
          <6>1. CASE MergeNormal("merge", r, c)
            BY <2>m, <3>1, <3>3, <6>1
          <6> QED
            BY <2>1, <3>3, <6>1, Answered DEF GitMerge, MergeForward, Nothing
        <5> QED
          BY <5>1
      <4>1. CASE c \in Line(objs, HeadCommit) /\ UNCHANGED <<objs, refs, head>>
        BY <4>1 DEF HeadCommit
      <4>2. CASE refs' = [refs EXCEPT ![head.on] = c] /\ UNCHANGED <<objs, head>>
        <5>1. head.on \in Branch
          BY <2>t
        <5>2. HeadCommit' = c
          BY <2>t, <4>2, <5>1 DEF HeadCommit
        <5> QED
          BY <3>3, <5>2 DEF Line
      <4>3. CASE MergeNormal("merge", r, c)
        BY <2>m, <3>1, <3>3, <4>3
      <4> QED
        BY <2>1, <3>3, <4>1, <4>2, <4>3 DEF GitMerge, MergeForward, Nothing
    <3> QED
      BY <2>1, <3>2, <3>3 DEF GitMerge
  <2>2. ASSUME NEW b \in Branch, GitPull(b) PROVE K
    <3> DEFINE c == origin[b]
               r == [kind |-> "remote", name |-> b]
    <3>1. c \in 0 .. Len(objs) /\ r.name = b
      BY <2>t
    <3>2. CASE Refused("pull", r)
      BY <2>r, <3>2
    <3>3. CASE c # 0
      <4>1. ASSUME answer'.op = "pull", answer'.rev = r,
                   answer'.ok /\ ~answer'.fault => c \in Line(objs', HeadCommit')
            PROVE  K
        <5>1. answer'.rev.name = b
          BY <3>1, <4>1
        <5> QED
          BY <4>1, <5>1 DEF Joined
      <4>2. CASE c \in Line(objs, HeadCommit) /\ UNCHANGED <<objs, refs, head>>
                 /\ Answer("pull", r, TRUE)
        BY <4>1, <4>2, Answered DEF HeadCommit
      <4>3. CASE PullForward(b, r, c)
        <5>1. answer'.op = "pull" /\ answer'.rev = r
          BY <4>3, Answered DEF PullForward
        <5>2. ASSUME ~answer'.fault PROVE c \in Line(objs', HeadCommit')
          <6>1. /\ refs' = [refs EXCEPT ![b] = c] /\ head' = [on |-> b, at |-> 0]
                /\ UNCHANGED objs
            BY <4>3, <5>2, Faults DEF PullForward
          <6>2. HeadCommit' = c
            BY <2>t, <6>1 DEF HeadCommit
          <6> QED
            BY <3>3, <6>2 DEF Line
        <5> QED
          BY <4>1, <5>1, <5>2
      <4>4. CASE MergeNormal("pull", r, c)
        BY <2>m, <3>1, <3>3, <4>1, <4>4
      <4> QED
        BY <2>2, <3>3, <4>2, <4>3, <4>4 DEF GitPull
    <3> QED
      BY <2>2, <3>2, <3>3 DEF GitPull
  <2>3. ASSUME \/ \E b \in Branch, p \in Path, c \in Content : OthersPush(b, p, c)
               \/ \E p \in Path, c \in Content \cup {None} : Edit(p, c)
               \/ \E S \in Some : GitAdd(S) \/ GitUnstage(S) \/ GitRestore(S)
               \/ \E S \in Some, cached \in BOOLEAN : GitRm(S, cached)
               \/ GitClean \/ GitFetch
        PROVE  K
    BY <2>3, <2>o DEF OthersPush, Edit, GitAdd, GitUnstage, GitRestore, GitRm, GitClean, GitFetch
  <2>4. ASSUME \/ \E p, q \in Path : GitMv(p, q)
               \/ \E b \in Branch : GitBranchDelete(b) \/ GitPush(b)
               \/ \E b \in Branch, switch \in BOOLEAN : GitBranch(b, switch)
               \/ \E r \in BranchRev : GitCheckout(r)
               \/ GitStashDrop \/ GitMergeAbort
        PROVE  K
    BY <2>4, <2>o, <2>r DEF GitMv, GitBranchDelete, GitPush, GitBranch, GitCheckout, GitStashDrop,
       GitMergeAbort
  <2>5. ASSUME NEW all, GitCommit(all) PROVE K
    BY <2>5, <2>o DEF GitCommit
  <2>6. ASSUME NEW mode, NEW r, GitReset(mode, r) PROVE K
    BY <2>6, <2>o, <2>r DEF GitReset
  <2>7. ASSUME NEW u, GitStashPush(u) \/ GitStashApply(u) PROVE K
    BY <2>7, <2>o, <2>r, <2>n DEF GitStashPush, GitStashApply
  <2> QED
    BY <1>1, <2>1, <2>2, <2>3, <2>4, <2>5, <2>6, <2>7 DEF Next
<1> HIDE DEF K
<1>2. Typed /\ [Next]_vars => [K]_vars
  BY <1>1
<1> QED
  BY <1>2, Invariant, PTL DEF Spec, MergeJoins, K

\* In a clean repository a forced checkout yields the tree, no more and no less.
LEMMA ForcedClean ==
  ASSUME Typed, Clean, NEW t \in Tree PROVE Forced(t) = t
<1>1. \A p \in Path : Forced(t)[p] = t[p]
  BY DEF Forced, ForcedOver, Clean
<1>2. Forced(t) = [p \in Path |-> Forced(t)[p]] /\ t = [p \in Path |-> t[p]]
  BY DEF Forced, ForcedOver, Tree
<1> QED
  BY <1>1, <1>2

\* So does a checkout that is safe.
LEMMA SwitchedClean ==
  ASSUME Typed, Clean, NEW t \in Tree
  PROVE  Switched(HeadTree, t) = t /\ Restaged(HeadTree, t) = t
<1>1. \A p \in Path : Switched(HeadTree, t)[p] = t[p] /\ Restaged(HeadTree, t)[p] = t[p]
  BY DEF Switched, Restaged, Clean
<1>2. /\ Switched(HeadTree, t) = [p \in Path |-> Switched(HeadTree, t)[p]]
      /\ Restaged(HeadTree, t) = [p \in Path |-> Restaged(HeadTree, t)[p]]
      /\ t = [p \in Path |-> t[p]]
  BY DEF Switched, Restaged, Tree
<1> QED
  BY <1>1, <1>2

\* A clean tree stays clean under every command that goes from commit to commit
\* or records one, if no call of libgit2 fails: branch, index and files move
\* together.
THEOREM CleanStaysClean == Spec => CleanStays
<1> DEFINE K ==
       /\ Clean /\ answer'.ok /\ ~answer'.fault
       /\ answer'.op \in {"checkout", "merge", "pull", "stash", "abort",
                          "branch", "fetch", "push", "commit", "reset --hard"}
       => Clean'
<1>1. ASSUME Typed, Next PROVE K
  <2> USE DEF history, files, remote
  <2>t. /\ refs \in [Branch -> 0 .. Len(objs)] /\ None \notin Branch
        /\ head \in [on : Branch \cup {None}, at : 0 .. Len(objs)]
        /\ HeadCommit \in 0 .. Len(objs) /\ tracking \in [Branch -> 0 .. Len(objs)]
        /\ origin \in [Branch -> 0 .. Len(objs)] /\ HeadTree \in Tree
    BY <1>1, HeadTyped, TreeTyped, GitAssumption DEF Typed, GitAssumption, HeadTree
  <2>o. ASSUME NEW op, NEW r, NEW ok, Answer(op, r, ok),
               op \notin {"checkout", "merge", "pull", "stash", "abort",
                          "branch", "fetch", "push", "commit", "reset --hard"}
        PROVE  K
    BY <2>o, Answered
  <2>h. ASSUME objs' = objs, HeadCommit' = HeadCommit PROVE HeadTree' = HeadTree
    BY <2>h DEF HeadTree, TreeAt
  <2>s. ASSUME UNCHANGED <<history, files>> PROVE K
    BY <2>s, <2>h DEF HeadCommit, Clean
  <2>r. ASSUME NEW op, NEW r, Refused(op, r) \/ Nothing(op, r) PROVE K
    BY <2>r, <2>s DEF Refused, Nothing
  <2>c. ASSUME objs' = objs, NEW c \in 0 .. Len(objs), HeadCommit' = c, CheckoutHead(TreeAt(c)) PROVE K
    <3>1. TreeAt(c) \in Tree /\ HeadTree' = TreeAt(c)
      BY <1>1, <2>c, TreeTyped DEF HeadTree, TreeAt
    <3> QED
      BY <1>1, <2>c, <3>1, ForcedClean DEF CheckoutHead, Clean
  <2>m. ASSUME NEW op, NEW r, NEW c \in 0 .. Len(objs), MergeNormal(op, r, c) PROVE K
    <3>1. CASE answer'.ok /\ ~answer'.fault
      <4>1. PICK t \in Tree : Committed(t, {HeadCommit, c}) /\ CheckoutHead(t)
        BY <1>1, <2>m, <3>1, MergeNormalStep
      <4>2. HeadTree' = t
        BY <4>1 DEF Committed
      <4> QED
        BY <1>1, <4>1, <4>2, ForcedClean DEF CheckoutHead, Clean
    <3> QED
      BY <3>1
  <2>1. ASSUME NEW r \in BranchRev, GitCheckout(r) PROVE K
    <3> DEFINE c == Resolve(r)
    <3>1. c \in 0 .. Len(objs) /\ r.name \in Branch
      BY <2>t DEF Resolve, BranchRev
    <3>2. CASE Refused("checkout", r)
      BY <2>r, <3>2
    <3>3. CASE /\ wt' = Switched(HeadTree, TreeAt(c)) /\ index' = Restaged(HeadTree, TreeAt(c))
               /\ head' = IF r.kind = "local" THEN [on |-> r.name, at |-> 0]
                                              ELSE [on |-> None, at |-> c]
               /\ UNCHANGED <<objs, refs>>
      <4>1. HeadCommit' = c
        BY <2>t, <3>1, <3>3 DEF HeadCommit, Resolve
      <4> HIDE DEF c
      <4>2. TreeAt(c) \in Tree /\ HeadTree' = TreeAt(c)
        BY <1>1, <3>1, <3>3, <4>1, TreeTyped DEF HeadTree, TreeAt
      <4> QED
        BY <1>1, <3>3, <4>2, SwitchedClean DEF Clean
    <3> QED
      BY <2>1, <3>2, <3>3 DEF GitCheckout
  <2>2. ASSUME NEW mode \in {"soft", "mixed", "hard"}, NEW r \in BranchRev \cup {HEAD}, GitReset(mode, r)
        PROVE  K
    <3> DEFINE c == Resolve(r)
    <3>1. c \in 0 .. Len(objs)
      BY <2>t DEF Resolve, BranchRev, HEAD
    <3>2. CASE Refused("reset", r)
      BY <2>r, <3>2
    <3>3. CASE mode = "hard" /\ ~Refused("reset", r)
      <4>1. /\ refs' = IF head.on = None THEN refs ELSE [refs EXCEPT ![head.on] = c]
            /\ head' = IF head.on = None THEN [head EXCEPT !.at = c] ELSE head
            /\ CheckoutHead(TreeAt(c)) /\ objs' = objs
        BY <2>2, <3>3 DEF GitReset, CheckoutHead
      <4> HIDE DEF c
      <4>2. HeadCommit' = c
        BY <2>t, <3>1, <4>1 DEF HeadCommit
      <4> QED
        BY <2>c, <3>1, <4>1, <4>2
    <3>4. CASE mode # "hard" /\ ~Refused("reset", r)
      BY <2>2, <2>o, <3>4 DEF GitReset
    <3> QED
      BY <3>2, <3>3, <3>4
  <2>3. ASSUME NEW u \in BOOLEAN, GitStashPush(u) PROVE K
    <3> DEFINE Taken(x) == Tracked(x) \/ HeadTree[x] # None \/ u
               saved == [x \in Path |-> IF Taken(x) THEN wt[x] ELSE None]
    <3>1. CASE Clean
      <4>1. \A x \in Path : saved[x] = HeadTree[x]
        BY <3>1 DEF Clean, Tracked
      <4>2. HeadTree = [x \in Path |-> HeadTree[x]]
        BY <2>t DEF Tree
      <4>3. index = HeadTree /\ saved = HeadTree
        BY <3>1, <4>1, <4>2 DEF Clean
      <4> QED
        BY <2>3, <2>r, <4>3 DEF GitStashPush
    <3> QED
      BY <3>1
  <2>4. ASSUME NEW r \in BranchRev, GitMerge(r) PROVE K
    <3> DEFINE c == Resolve(r)
    <3>1. c \in 0 .. Len(objs)
      BY <2>t DEF Resolve, BranchRev
    <3>2. CASE Refused("merge", r) \/ Nothing("merge", r)
      BY <2>r, <3>2
    <3>3. CASE MergeNormal("merge", r, c)
      BY <2>m, <3>1, <3>3
    <3>4. CASE /\ refs' = IF head.on = None THEN refs ELSE [refs EXCEPT ![head.on] = c]
               /\ CheckoutHead(IF head.on = None THEN HeadTree ELSE TreeAt(c))
               /\ UNCHANGED <<objs, head>>
      <4> HIDE DEF c
      <4>1. CASE head.on = None
        <5>1. HeadCommit' = HeadCommit /\ HeadTree = TreeAt(HeadCommit)
          BY <3>4, <4>1 DEF HeadCommit, HeadTree
        <5> QED
          BY <2>t, <2>c, <3>4, <4>1, <5>1
      <4>2. CASE head.on # None
        <5>1. HeadCommit' = c
          BY <2>t, <3>4, <4>2 DEF HeadCommit
        <5> QED
          BY <2>c, <3>1, <3>4, <4>2, <5>1
      <4> QED
        BY <4>1, <4>2
    <3>5. ASSUME MergeForward(r, c), ~answer'.fault PROVE K
      BY <3>4, <3>5, Faults DEF MergeForward
    <3> QED
      BY <2>4, <3>2, <3>3, <3>5 DEF GitMerge
  <2>5. CASE GitMergeAbort
    <3>1. CASE CheckoutHead(HeadTree) /\ UNCHANGED history
      <4>1. HeadCommit' = HeadCommit /\ HeadTree = TreeAt(HeadCommit)
        BY <3>1 DEF HeadCommit, HeadTree
      <4> QED
        BY <2>t, <2>c, <3>1, <4>1
    <3> QED
      BY <2>5, <2>r, <3>1 DEF GitMergeAbort
  <2>6. ASSUME NEW b \in Branch, GitPull(b) PROVE K
    <3> DEFINE c == origin[b]
               r == [kind |-> "remote", name |-> b]
    <3>1. c \in 0 .. Len(objs)
      BY <2>t
    <3>2. CASE Refused("pull", r)
      BY <2>r, <3>2
    <3>3. CASE UNCHANGED <<history, files>>
      BY <2>s, <3>3
    <3>4. CASE refs' = [refs EXCEPT ![b] = c] /\ head' = [on |-> b, at |-> 0] /\ UNCHANGED objs
               /\ CheckoutHead(TreeAt(c))
      <4>1. HeadCommit' = c
        BY <2>t, <3>4 DEF HeadCommit
      <4> QED
        BY <2>c, <3>1, <3>4, <4>1
    <3>5. CASE MergeNormal("pull", r, c)
      BY <2>m, <3>1, <3>5
    <3>6. ASSUME PullForward(b, r, c), ~answer'.fault PROVE K
      BY <3>4, <3>6, Faults DEF PullForward
    <3> QED
      BY <2>6, <3>2, <3>3, <3>5, <3>6 DEF GitPull
  <2>7. ASSUME NEW all \in BOOLEAN, GitCommit(all) PROVE K
    <3> DEFINE staged == IF all THEN UpdatedAll ELSE index
    <3>1. staged \in [Path -> File \cup {None, Unmerged}] /\ (~Conflicts(staged) => staged \in Tree)
      BY <1>1 DEF UpdatedAll, Conflicts, Tree, Typed
    <3>2. Clean => staged = wt
      <4>1. Clean => \A p \in Path : UpdatedAll[p] = wt[p]
        BY DEF Clean, UpdatedAll, Tracked
      <4>2. UpdatedAll = [p \in Path |-> UpdatedAll[p]] /\ wt = [p \in Path |-> wt[p]]
        BY <1>1 DEF UpdatedAll, Typed, Tree
      <4> QED
        BY <4>1, <4>2 DEF Clean
    <3>3. index' = staged /\ wt' = wt
      BY <2>7 DEF GitCommit
    <3>4. CASE Conflicts(staged)
      <4>1. answer'.ok = FALSE
        BY <2>7, <3>4, Answered DEF GitCommit
      <4> QED
        BY <4>1
    <3>5. CASE ~Conflicts(staged)
      <4>1. CommitOn(staged, {HeadCommit}) /\ {HeadCommit} \in SUBSET (0 .. Len(objs))
        BY <2>7, <2>t, <3>5 DEF GitCommit
      <4> HIDE DEF staged
      <4>2. Committed(staged, {HeadCommit})
        BY <1>1, <3>1, <3>5, <4>1, CommitStep
      <4>3. HeadTree' = staged
        BY <4>2 DEF Committed
      <4> QED
        BY <3>2, <3>3, <4>3 DEF Clean
    <3> QED
      BY <3>4, <3>5
  <2>8. ASSUME NEW b \in Branch, NEW switch \in BOOLEAN, GitBranch(b, switch) PROVE K
    <3>1. CASE ~(HeadCommit = 0 \/ refs[b] # 0)
      <4>1. /\ refs' = [refs EXCEPT ![b] = HeadCommit] /\ UNCHANGED <<objs, files>>
            /\ head' = IF switch THEN [on |-> b, at |-> 0] ELSE head
        BY <2>8, <3>1 DEF GitBranch
      <4>2. HeadCommit' = HeadCommit
        BY <2>t, <3>1, <4>1 DEF HeadCommit
      <4> QED
        BY <2>h, <4>1, <4>2 DEF Clean
    <3> QED
      BY <2>8, <2>r, <3>1 DEF GitBranch
  <2>9. ASSUME \/ \E b \in Branch, p \in Path, c \in Content : OthersPush(b, p, c)
               \/ \E p \in Path, c \in Content \cup {None} : Edit(p, c)
               \/ \E S \in Some : GitAdd(S) \/ GitUnstage(S) \/ GitRestore(S)
               \/ \E S \in Some, cached \in BOOLEAN : GitRm(S, cached)
               \/ GitClean
        PROVE  K
    BY <2>9, <2>o DEF OthersPush, Edit, GitAdd, GitUnstage, GitRestore, GitRm, GitClean
  <2>10. ASSUME \/ \E p, q \in Path : GitMv(p, q)
                \/ \E b \in Branch : GitBranchDelete(b)
                \/ \E drop \in BOOLEAN : GitStashApply(drop)
                \/ GitStashDrop
         PROVE  K
    BY <2>10, <2>o, <2>r DEF GitMv, GitBranchDelete, GitStashApply, GitStashDrop
  <2>11. ASSUME NEW b \in Branch, GitPush(b) \/ GitFetch PROVE K
    BY <2>11, <2>s, <2>r DEF GitPush, GitFetch
  <2>12. CASE GitFetch
    BY <2>12, <2>s DEF GitFetch
  <2> QED
    BY <1>1, <2>1, <2>2, <2>3, <2>4, <2>5, <2>6, <2>7, <2>8, <2>9, <2>10, <2>11, <2>12 DEF Next
<1> HIDE DEF K
<1>2. Typed /\ [Next]_vars => [K]_vars
  BY <1>1
<1> QED
  BY <1>2, Invariant, PTL DEF Spec, CleanStays, K

\* A stash entry goes away by drop only, or after the files it holds are back as
\* they were stashed, where nothing else had become of them (stash_pop).
THEOREM StashIsKept == Spec => StashKept
<1> DEFINE K ==
       Len(stash') < Len(stash) /\ answer'.op # "drop" =>
         \A p \in Path :
            LET s == stash[1]
            IN  s.saved[p] # TreeAt(s.base)[p] /\ index[p] = TreeAt(s.base)[p]
                  => wt'[p] = s.saved[p]
<1>1. ASSUME Typed, Next PROVE K
  <2> USE DEF history, files, remote
  <2>t. stash \in Seq(Entry) /\ Len(stash) \in Nat
    BY <1>1 DEF Typed
  <2>s. ASSUME stash' = stash PROVE K
    BY <2>s, <2>t
  <2>r. ASSUME NEW op, NEW r, Refused(op, r) \/ Nothing(op, r) PROVE K
    BY <2>r, <2>s DEF Refused, Nothing
  <2>1. ASSUME NEW drop \in BOOLEAN, GitStashApply(drop) PROVE K
    <3> DEFINE base == TreeAt(stash[1].base)
               saved == stash[1].saved
               m == Merged(base, index, saved)
    <3>1. CASE stash # <<>> /\ wt' = Worked(m)
      <4>1. stash[1] \in Entry
        BY <2>t, <3>1
      <4>2. saved \in Tree
        BY <4>1 DEF Entry
      <4> HIDE DEF base, saved
      <4>3. ASSUME NEW p \in Path, saved[p] # base[p], index[p] = base[p] PROVE wt'[p] = saved[p]
        <5>1. m[p] = saved[p]
          BY <4>3 DEF Merged
        <5>2. saved[p] # Unmerged
          BY <4>2, GitAssumption DEF Tree, File, GitAssumption
        <5>3. m[p] # index[p] /\ m[p] # Unmerged
          BY <4>3, <5>1, <5>2
        <5> HIDE DEF m
        <5>4. Worked(m)[p] = m[p]
          BY <5>3 DEF Worked
        <5> QED
          BY <3>1, <5>1, <5>4
      <4> QED
        BY <4>3 DEF base, saved
    <3> QED
      BY <2>1, <2>r, <3>1 DEF GitStashApply
  <2>2. CASE GitStashDrop
    BY <2>2, <2>r, Answered DEF GitStashDrop
  <2>3. ASSUME NEW u \in BOOLEAN, GitStashPush(u) PROVE K
    <3>1. ASSUME NEW e, stash' = <<e>> \o stash PROVE K
      <4>1. Len(stash') = Len(stash) + 1
        BY <2>t, <3>1, Pushed
      <4> QED
        BY <2>t, <4>1
    <3> QED
      BY <2>3, <2>r, <3>1 DEF GitStashPush
  <2>4. ASSUME \/ \E b \in Branch, p \in Path, c \in Content : OthersPush(b, p, c)
               \/ \E p \in Path, c \in Content \cup {None} : Edit(p, c)
               \/ \E S \in Some : GitAdd(S) \/ GitUnstage(S) \/ GitRestore(S)
               \/ \E S \in Some, cached \in BOOLEAN : GitRm(S, cached)
               \/ \E p, q \in Path : GitMv(p, q)
               \/ \E all \in BOOLEAN : GitCommit(all)
               \/ GitClean \/ GitMergeAbort \/ GitFetch
        PROVE  K
    BY <2>4, <2>s, <2>r DEF OthersPush, Edit, GitAdd, GitUnstage, GitRestore, GitRm, GitMv,
       GitCommit, GitClean, GitMergeAbort, GitFetch
  <2>5. ASSUME \/ \E b \in Branch : GitBranchDelete(b) \/ GitPull(b) \/ GitPush(b)
               \/ \E b \in Branch, switch \in BOOLEAN : GitBranch(b, switch)
               \/ \E r \in BranchRev : GitCheckout(r) \/ GitMerge(r)
               \/ \E mode \in {"soft", "mixed", "hard"}, r \in BranchRev \cup {HEAD} : GitReset(mode, r)
        PROVE  K
    BY <2>5, <2>s, <2>r DEF GitBranchDelete, GitPull, GitPush, GitBranch, GitCheckout, GitMerge,
       GitReset
  <2> QED
    BY <1>1, <2>1, <2>2, <2>3, <2>4, <2>5 DEF Next
<1> HIDE DEF K
<1>2. Typed /\ [Next]_vars => [K]_vars
  BY <1>1
<1> QED
  BY <1>2, Invariant, PTL DEF Spec, StashKept, K
=============================================================================
