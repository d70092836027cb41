-------------------------------- MODULE Git --------------------------------
(***************************************************************************)
(* The git builtin (shell/commands/git.rs): one repository, its index and    *)
(* working tree, and the branch heads of its remote `origin`.  Every        *)
(* subcommand runs under the lock of the repository (repo_lock), so it is    *)
(* one step.  libgit2 is external: what its calls do is modelled from how   *)
(* git.rs uses them, file by file, without renames and file modes.  Its      *)
(* calls may fail wherever a merge or a pull has begun to change things,     *)
(* and git.rs often goes on: those steps are marked in the answer.           *)
(***************************************************************************)
EXTENDS Integers, Sequences

CONSTANTS
    Path,        \* the files of the working tree
    Content,     \* what a file may hold
    Branch,      \* branch names, local and on origin
    Repos,       \* repositories to start from
    MaxCommits,  \* bound on the number of commits and of stash entries
    MaxSteps,    \* bound on the length of a session
    None,        \* no such file, no branch (detached HEAD)
    Marked,      \* the content libgit2 writes for a conflict
    Unmerged     \* the index entry of a conflict

ASSUME GitAssumption ==
    /\ MaxCommits \in Nat /\ MaxSteps \in Nat
    /\ None \notin Content \cup Branch /\ Marked \notin Content
    /\ Unmerged \notin Content /\ None # Marked /\ None # Unmerged /\ Marked # Unmerged

VARIABLES
    objs,      \* the commits in order of creation: [tree, past], past being
               \* the commits it descends from
    refs,      \* refs/heads: 0 if the branch does not exist
    head,      \* HEAD: [on: branch or None, at: the commit if detached]
    index,     \* the index: what a commit would record
    wt,        \* the working tree
    stash,     \* refs/stash, the newest first
    merging,   \* MERGE_HEAD, 0 if none
    origin,    \* the branches of the remote repository
    tracking,  \* refs/remotes/origin
    answer     \* the last command, its number, and whether a call of libgit2
               \* failed in it: [op, rev, ok, fault, n]

history == <<objs, refs, head>>
files   == <<index, wt>>
remote  == <<origin, tracking>>
vars    == <<history, files, stash, merging, remote, answer>>

File  == Content \cup {Marked}
Tree  == [Path -> File \cup {None}]
Empty == [p \in Path |-> None]
Commits == 1 .. Len(objs)

\* Histories: a commit descends from older ones, and from what they descend from.
Commit == [tree : Tree, past : SUBSET Nat]
WellFormed(os) ==
    \A c \in 1 .. Len(os) :
        /\ os[c].past \subseteq 1 .. c - 1
        /\ \A d \in os[c].past : os[d].past \subseteq os[c].past

ASSUME ReposAssumption ==
    \A r \in Repos :
        /\ r.objs \in Seq(Commit) /\ WellFormed(r.objs) /\ r.on \in Branch
        /\ {r.refs, r.origin} \subseteq [Branch -> 0 .. Len(r.objs)]
        /\ {r.index, r.wt} \subseteq Tree
        /\ r.stash \in Seq([base : Nat, saved : Tree])

TreeAt(c)  == IF c = 0 THEN Empty ELSE objs[c].tree
HeadCommit == IF head.on = None THEN head.at ELSE refs[head.on]
HeadTree   == TreeAt(HeadCommit)

\* The commits reachable from commit c, and c.
Line(os, c) == IF c = 0 THEN {} ELSE os[c].past \cup {c}

\* A best common ancestor: the newest one.
Base(a, b) ==
    LET common == Line(objs, a) \cap Line(objs, b)
    IN  IF common = {} THEN 0 ELSE CHOOSE c \in common : \A d \in common : d <= c

\* What a revision may name: a local or a remote branch, or HEAD.
BranchRev == [kind : {"local", "remote"}, name : Branch]
HEAD      == [kind |-> "HEAD", name |-> None]
Resolve(r) == CASE r.kind = "local"  -> refs[r.name]
                [] r.kind = "remote" -> tracking[r.name]
                [] OTHER             -> HeadCommit

Reply(op, r, ok, fault) ==
    /\ answer.n < MaxSteps
    /\ answer' = [op |-> op, rev |-> r, ok |-> ok, fault |-> fault, n |-> answer.n + 1]
Answer(op, r, ok)  == Reply(op, r, ok, FALSE)
Botched(op, r, ok) == Reply(op, r, ok, TRUE)
Refused(op, r) == Answer(op, r, FALSE) /\ UNCHANGED <<history, files, stash,
                                                     merging, remote>>
Nothing(op, r) == Answer(op, r, TRUE) /\ UNCHANGED <<history, files, stash,
                                                    merging, remote>>

-----------------------------------------------------------------------------
(* libgit2.                                                                *)

Tracked(p) == index[p] # None

\* Mutant of SafeFrom: looks at what is staged instead of the file.
SafeIfUnstaged(from, to) ==
    \A p \in Path : from[p] # to[p] => index[p] \in {from[p], to[p]}

\* checkout_tree, safe: refused if a file it must change holds work of its own.
SafeFrom(from, to) == \A p \in Path : from[p] # to[p] => wt[p] \in {from[p], to[p]}
Switched(from, to) ==
    [p \in Path |-> IF from[p] # to[p] THEN to[p] ELSE wt[p]]
Restaged(from, to) ==
    [p \in Path |-> IF from[p] # to[p] THEN to[p] ELSE index[p]]

\* checkout_head, forced, and reset --hard: every file of the tree, and every
\* file of the index i that is not in it, whatever it holds in w.
ForcedOver(i, w, to) ==
    [p \in Path |-> IF to[p] # None \/ i[p] # None THEN to[p] ELSE w[p]]
Forced(to) == ForcedOver(index, wt, to)

\* Files on their way from w to new when a call failed: any of them written,
\* and any of those it had to change deleted and not written again.
HalfWay(w, new) ==
    \E S, L \in SUBSET Path :
        wt' = [p \in Path |-> IF p \notin S \/ w[p] = new[p] THEN w[p]
                              ELSE IF p \in L THEN None ELSE new[p]]

\* The three-way merge of two trees.
Merged(base, ours, theirs) ==
    [p \in Path |-> CASE ours[p] = theirs[p] \/ theirs[p] = base[p] -> ours[p]
                      [] ours[p] = base[p] -> theirs[p]
                      [] OTHER -> Unmerged]
Conflicts(t) == \E p \in Path : t[p] = Unmerged

\* Repository::merge refuses to touch what is staged or edited.
MergeRefused(m) ==
    \E p \in Path : \/ index[p] # HeadTree[p] /\ index[p] # m[p]
                    \/ m[p] # HeadTree[p] /\ wt[p] # index[p]
\* Mutant of Worked: files that are gone are not written again.
WorkedOnExisting(m) ==
    [p \in Path |-> IF m[p] = index[p] \/ wt[p] = None THEN wt[p]
                    ELSE IF m[p] = Unmerged THEN Marked ELSE m[p]]

\* What it leaves in the working tree.
Worked(m) ==
    [p \in Path |-> IF m[p] = index[p] THEN wt[p]
                    ELSE IF m[p] = Unmerged THEN Marked ELSE m[p]]

\* Index::update_all: tracked files as they are on disk.
UpdatedAll == [p \in Path |-> IF Tracked(p) THEN wt[p] ELSE None]

\* Mutant of CommitOn: a commit without parents.
CommitOrphan(t, parents) ==
    /\ objs' = Append(objs, [tree |-> t, past |-> {}])
    /\ refs' = IF head.on = None THEN refs
               ELSE [refs EXCEPT ![head.on] = Len(objs) + 1]
    /\ head' = IF head.on = None THEN [head EXCEPT !.at = Len(objs) + 1] ELSE head

\* Mutant of CommitOn: a merge commit whose only parent is HEAD.
CommitOnOurs(t, parents) ==
    /\ objs' = Append(objs, [tree |-> t, past |-> Line(objs, HeadCommit)])
    /\ refs' = IF head.on = None THEN refs
               ELSE [refs EXCEPT ![head.on] = Len(objs) + 1]
    /\ head' = IF head.on = None THEN [head EXCEPT !.at = Len(objs) + 1] ELSE head

\* Repository::commit on HEAD, which moves the branch HEAD is on.
CommitOn(t, parents) ==
    /\ objs' = Append(objs, [tree |-> t, past |-> UNION {Line(objs, c) : c \in parents}])
    /\ refs' = IF head.on = None THEN refs
               ELSE [refs EXCEPT ![head.on] = Len(objs) + 1]
    /\ head' = IF head.on = None THEN [head EXCEPT !.at = Len(objs) + 1] ELSE head

Room == Len(objs) < MaxCommits

-----------------------------------------------------------------------------
(* Outside git: other commands write files, other people push.              *)

Edit(p, c) ==
    /\ wt[p] # c
    /\ wt' = [wt EXCEPT ![p] = c]
    /\ Answer("edit", None, TRUE)
    /\ UNCHANGED <<history, index, stash, merging, remote>>

\* Someone else's commit arrives at origin.
OthersPush(b, p, c) ==
    LET t == [TreeAt(origin[b]) EXCEPT ![p] = c]
    IN  /\ Room /\ origin[b] # 0 /\ t # TreeAt(origin[b])
        /\ objs' = Append(objs, [tree |-> t, past |-> Line(objs, origin[b])])
        /\ origin' = [origin EXCEPT ![b] = Len(objs) + 1]
        /\ Answer("others", None, TRUE)
        /\ UNCHANGED <<refs, head, files, stash, merging, tracking>>

-----------------------------------------------------------------------------
(* The index.                                                              *)

\* git add: the named files, or all of them, as they are on disk.
GitAdd(S) ==
    /\ index' = [p \in Path |-> IF p \in S THEN wt[p] ELSE index[p]]
    /\ Answer("add", None, TRUE)
    /\ UNCHANGED <<history, wt, stash, merging, remote>>

\* git commit [-a].  The commit has one parent, whatever MERGE_HEAD says, and
\* the state of the merge is not cleaned up.
GitCommit(all) ==
    LET staged == IF all THEN UpdatedAll ELSE index
    IN  /\ index' = staged
        /\ IF Conflicts(staged)
             THEN Answer("commit", None, FALSE) /\ UNCHANGED history
             ELSE Room /\ CommitOn(staged, {HeadCommit}) /\ Answer("commit", None, TRUE)
        /\ UNCHANGED <<wt, stash, merging, remote>>

\* git reset -- FILES and git restore --staged FILES.
GitUnstage(S) ==
    /\ index' = [p \in Path |-> IF p \in S THEN HeadTree[p] ELSE index[p]]
    /\ Answer("unstage", None, TRUE)
    /\ UNCHANGED <<history, wt, stash, merging, remote>>

\* git checkout -- FILES and git restore FILES.
GitRestore(S) ==
    /\ wt' = [p \in Path |->
                IF p \notin S \/ index[p] = None THEN wt[p]
                ELSE IF index[p] = Unmerged THEN Marked ELSE index[p]]
    /\ Answer("restore", None, TRUE)
    /\ UNCHANGED <<history, index, stash, merging, remote>>

\* git rm [--cached] FILES: whether they are tracked is not looked at.
GitRm(S, cached) ==
    /\ index' = [p \in Path |-> IF p \in S THEN None ELSE index[p]]
    /\ wt' = IF cached THEN wt ELSE [p \in Path |-> IF p \in S THEN None ELSE wt[p]]
    /\ Answer("rm", None, TRUE)
    /\ UNCHANGED <<history, stash, merging, remote>>

\* git mv P Q: renames on disk, whether or not Q is there.
GitMv(p, q) ==
    IF wt[p] = None THEN Refused("mv", None)
    ELSE /\ wt' = [wt EXCEPT ![q] = wt[p], ![p] = None]
         /\ index' = [index EXCEPT ![q] = wt[p], ![p] = None]
         /\ Answer("mv", None, TRUE)
         /\ UNCHANGED <<history, stash, merging, remote>>

\* git clean -f: what is on disk and not in the index.
GitClean ==
    /\ wt' = [p \in Path |-> IF Tracked(p) THEN wt[p] ELSE None]
    /\ Answer("clean", None, TRUE)
    /\ UNCHANGED <<history, index, stash, merging, remote>>

-----------------------------------------------------------------------------
(* Branches.                                                               *)

\* git branch B and git checkout -b B.
GitBranch(b, switch) ==
    IF HeadCommit = 0 \/ refs[b] # 0 THEN Refused("branch", None)
    ELSE /\ refs' = [refs EXCEPT ![b] = HeadCommit]
         /\ head' = IF switch THEN [on |-> b, at |-> 0] ELSE head
         /\ Answer("branch", None, TRUE)
         /\ UNCHANGED <<objs, files, stash, merging, remote>>

\* git branch -d B, and -D: merged or not, but not the current one.
GitBranchDelete(b) ==
    IF refs[b] = 0 \/ head.on = b THEN Refused("delete", None)
    ELSE /\ refs' = [refs EXCEPT ![b] = 0]
         /\ Answer("delete", None, TRUE)
         /\ UNCHANGED <<objs, head, files, stash, merging, remote>>

\* git checkout REV.  Only a local branch is checked out as a branch.
GitCheckout(r) ==
    LET c == Resolve(r)
    IN  IF c = 0 \/ ~SafeFrom(HeadTree, TreeAt(c)) THEN Refused("checkout", r)
        ELSE /\ wt' = Switched(HeadTree, TreeAt(c))
             /\ index' = Restaged(HeadTree, TreeAt(c))
             /\ head' = IF r.kind = "local" THEN [on |-> r.name, at |-> 0]
                                            ELSE [on |-> None, at |-> c]
             /\ Answer("checkout", r, TRUE)
             /\ UNCHANGED <<objs, refs, stash, merging, remote>>

\* git reset [--soft | --mixed | --hard] REV.
GitReset(mode, r) ==
    LET c == Resolve(r)
        blocked == mode = "soft" /\ (merging # 0 \/ Conflicts(index))
    IN  IF c = 0 \/ HeadCommit = 0 \/ blocked THEN Refused("reset", r)
        ELSE /\ refs' = IF head.on = None THEN refs ELSE [refs EXCEPT ![head.on] = c]
             /\ head' = IF head.on = None THEN [head EXCEPT !.at = c] ELSE head
             /\ index' = IF mode = "soft" THEN index ELSE TreeAt(c)
             /\ wt' = IF mode = "hard" THEN Forced(TreeAt(c)) ELSE wt
             /\ merging' = IF mode = "soft" THEN merging ELSE 0
             /\ Answer(IF mode = "hard" THEN "reset --hard" ELSE "reset", r, TRUE)
             /\ UNCHANGED <<objs, stash, remote>>

-----------------------------------------------------------------------------
(* The stash.                                                              *)

\* git stash [push] [-u].
GitStashPush(untracked) ==
    LET Taken(p) == Tracked(p) \/ HeadTree[p] # None \/ untracked
        saved == [p \in Path |-> IF Taken(p) THEN wt[p] ELSE None]
    IN  IF HeadCommit = 0 \/ Conflicts(index) THEN Refused("stash", None)
        ELSE IF index = HeadTree /\ saved = HeadTree THEN Nothing("stash", None)
        ELSE /\ Len(stash) < MaxCommits
             /\ stash' = <<[base |-> HeadCommit, saved |-> saved]>> \o stash
             /\ wt' = [p \in Path |-> IF Taken(p) THEN HeadTree[p] ELSE wt[p]]
             /\ index' = HeadTree
             /\ Answer("stash", None, TRUE)
             /\ UNCHANGED <<history, merging, remote>>

\* git stash pop, and apply: stash_apply merges the saved tree into the index
\* and checks it out, safely; pop then drops the entry.
GitStashApply(drop) ==
    IF stash = <<>> \/ index # HeadTree THEN Refused("apply", None)
    ELSE LET m == Merged(TreeAt(stash[1].base), index, stash[1].saved)
         IN  IF \E p \in Path : m[p] # index[p] /\ wt[p] # index[p]
               THEN Refused("apply", None)
               ELSE /\ wt' = Worked(m)
                    /\ index' = IF Conflicts(m) THEN index
                                ELSE [p \in Path |-> IF index[p] = None THEN m[p]
                                                     ELSE index[p]]
                    /\ stash' = IF drop THEN Tail(stash) ELSE stash
                    /\ Answer("apply", None, TRUE)
                    /\ UNCHANGED <<history, merging, remote>>

\* git stash drop.
GitStashDrop ==
    IF stash = <<>> THEN Refused("drop", None)
    ELSE /\ stash' = Tail(stash)
         /\ Answer("drop", None, TRUE)
         /\ UNCHANGED <<history, files, merging, remote>>

-----------------------------------------------------------------------------
(* Merging.                                                                *)

\* Mutant of CheckoutHead: only the index follows HEAD.
CheckoutIndexOnly(t) == wt' = wt /\ index' = t

\* HEAD has moved to a tree: checkout_head, by force.
CheckoutHead(t) == wt' = Forced(t) /\ index' = t

\* A checkout_head that fails leaves the index i it found.
CheckoutTorn(i, w, t) == HalfWay(w, ForcedOver(i, w, t)) /\ index' = i

\* Repository::merge has written the merged tree, which is to be committed with
\* both parents; then HEAD is checked out again.
MergeCommit(op, r, m, c) ==
    /\ Room /\ CommitOn(m, {HeadCommit, c}) /\ CheckoutHead(m)
    /\ merging' = 0 /\ Answer(op, r, TRUE)

\* It stops with the merged tree in index and files: no tree, no HEAD, and for
\* `git merge` no commit.  `git pull` reports success.
MergeUncommitted(op, r, m, c) ==
    /\ index' = m /\ wt' = Worked(m) /\ merging' = c
    /\ Botched(op, r, op = "pull") /\ UNCHANGED history

\* `git pull` goes on without its commit, and checks out the HEAD there was.
PullUncommitted(op, r, m, c) ==
    /\ op = "pull"
    /\ \/ index' = HeadTree /\ wt' = ForcedOver(m, Worked(m), HeadTree)
       \/ CheckoutTorn(m, Worked(m), HeadTree)
    /\ merging' \in {0, c} /\ Botched(op, r, TRUE) /\ UNCHANGED history

\* Both go on if what follows the commit fails.
CommittedUnclean(op, r, m, c) ==
    /\ Room /\ CommitOn(m, {HeadCommit, c}) /\ CheckoutTorn(m, Worked(m), m)
    /\ merging' \in {0, c} /\ Botched(op, r, TRUE)

\* A merge that is neither up to date nor a fast-forward: refused by
\* Repository::merge or stopped in it, left with conflicts (which pull misses
\* if it cannot read the index), or written.
MergeNormal(op, r, c) ==
    LET m == Merged(TreeAt(Base(HeadCommit, c)), HeadTree, TreeAt(c))
    IN  \/ /\ MergeRefused(m)
           /\ merging' \in {0, merging}
           /\ Answer(op, r, FALSE) /\ UNCHANGED <<history, files>>
        \/ /\ ~MergeRefused(m)
           /\ HalfWay(wt, Worked(m)) /\ merging' \in {0, merging}
           /\ Botched(op, r, FALSE) /\ UNCHANGED <<history, index>>
        \/ /\ ~MergeRefused(m) /\ Conflicts(m)
           /\ index' = m /\ wt' = Worked(m) /\ merging' = c /\ UNCHANGED history
           /\ Answer(op, r, FALSE) \/ Botched(op, r, op = "pull")
        \/ /\ ~MergeRefused(m) /\ ~Conflicts(m)
           /\ \/ MergeCommit(op, r, m, c)
              \/ MergeUncommitted(op, r, m, c)
              \/ PullUncommitted(op, r, m, c)
              \/ CommittedUnclean(op, r, m, c)

\* The fast-forward of git merge: with no branch (detached) the reference to move
\* is not found, and the answer is a fast-forward all the same.  Whether
\* checkout_head works is not looked at.
MergeForward(r, c) ==
    /\ refs' = IF head.on = None THEN refs ELSE [refs EXCEPT ![head.on] = c]
    /\ LET t == IF head.on = None THEN HeadTree ELSE TreeAt(c)
       IN  \/ CheckoutHead(t) /\ Answer("merge", r, TRUE)
           \/ CheckoutTorn(index, wt, t) /\ Botched("merge", r, TRUE)
    /\ UNCHANGED <<objs, head, merging>>

\* git merge REV.  Before the first commit there is no branch to move either.
GitMerge(r) ==
    LET c == Resolve(r)
    IN  IF c = 0 THEN Refused("merge", r)
        ELSE IF c \in Line(objs, HeadCommit) \/ HeadCommit = 0
          THEN Nothing("merge", r)
        ELSE /\ IF HeadCommit \in Line(objs, c)
                  THEN MergeForward(r, c)
                  ELSE MergeNormal("merge", r, c)
             /\ UNCHANGED <<stash, remote>>

\* git merge --abort.
GitMergeAbort ==
    IF HeadCommit = 0 THEN Refused("abort", None)
    ELSE /\ CheckoutHead(HeadTree)
         /\ merging' = 0
         /\ Answer("abort", None, TRUE)
         /\ UNCHANGED <<history, stash, remote>>

-----------------------------------------------------------------------------
(* The remote.                                                             *)

\* git fetch.
GitFetch ==
    /\ tracking' = [b \in Branch |-> IF origin[b] # 0 THEN origin[b] ELSE tracking[b]]
    /\ Answer("fetch", None, TRUE)
    /\ UNCHANGED <<history, files, stash, merging, origin>>

\* The fast-forward of git pull moves branch B, wherever it was, and HEAD to it.
\* Whether set_head and checkout_head work is not looked at: what is checked out
\* is the HEAD there is then, nothing if it has no commit.
PullForward(b, r, c) ==
    /\ refs' = [refs EXCEPT ![b] = c] /\ UNCHANGED <<objs, merging>>
    /\ \/ /\ head' = [on |-> b, at |-> 0] /\ CheckoutHead(TreeAt(c))
          /\ Answer("pull", r, TRUE)
       \/ /\ head' \in {head, [on |-> b, at |-> 0]}
          /\ IF HeadCommit' = 0 THEN UNCHANGED files
             ELSE CheckoutHead(HeadTree') \/ CheckoutTorn(index, wt, HeadTree')
          /\ Botched("pull", r, TRUE)

\* git pull origin B.
GitPull(b) ==
    LET c == origin[b]
        r == [kind |-> "remote", name |-> b]
    IN  IF c = 0 THEN Refused("pull", r)
        ELSE /\ tracking' = [tracking EXCEPT ![b] = c]
             /\ UNCHANGED <<stash, origin>>
             /\ CASE c \in Line(objs, HeadCommit) ->
                       Answer("pull", r, TRUE) /\ UNCHANGED <<history, files, merging>>
                  [] HeadCommit = 0 \/ HeadCommit \in Line(objs, c) \ {c} -> PullForward(b, r, c)
                  [] OTHER -> MergeNormal("pull", r, c)

\* git push origin B.  libgit2 refuses what is not a fast-forward of what it
\* saw; the server may still reject it, which only a callback that git.rs does
\* not install would tell.
GitPush(b) ==
    LET r == [kind |-> "local", name |-> b]
    IN  IF refs[b] = 0 \/ (origin[b] # 0 /\ origin[b] \notin Line(objs, refs[b]))
          THEN Refused("push", r)
        ELSE /\ \/ /\ origin' = [origin EXCEPT ![b] = refs[b]]
                   /\ tracking' = [tracking EXCEPT ![b] = refs[b]]
                \/ UNCHANGED remote
             /\ Answer("push", r, TRUE)
             /\ UNCHANGED <<history, files, stash, merging>>

-----------------------------------------------------------------------------

Init ==
    /\ \E r \in Repos :
          /\ objs = r.objs /\ refs = r.refs /\ origin = r.origin
          /\ head = [on |-> r.on, at |-> 0]
          /\ index = r.index /\ wt = r.wt /\ stash = r.stash
    /\ merging = 0 /\ tracking = origin
    /\ answer = [op |-> "init", rev |-> None, ok |-> TRUE, fault |-> FALSE, n |-> 0]

Some == SUBSET Path \ {{}}

Next ==
    \/ \E p \in Path, c \in Content \cup {None} : Edit(p, c)
    \/ \E b \in Branch, p \in Path, c \in Content : OthersPush(b, p, c)
    \/ \E S \in Some : GitAdd(S)
    \/ \E all \in BOOLEAN : GitCommit(all)
    \/ \E S \in Some : GitUnstage(S)
    \/ \E S \in Some : GitRestore(S)
    \/ \E S \in Some, cached \in BOOLEAN : GitRm(S, cached)
    \/ \E p \in Path : \E q \in Path \ {p} : GitMv(p, q)
    \/ GitClean
    \/ \E b \in Branch, switch \in BOOLEAN : GitBranch(b, switch)
    \/ \E b \in Branch : GitBranchDelete(b)
    \/ \E r \in BranchRev : GitCheckout(r)
    \/ \E mode \in {"soft", "mixed", "hard"}, r \in BranchRev \cup {HEAD} : GitReset(mode, r)
    \/ \E u \in BOOLEAN : GitStashPush(u)
    \/ \E drop \in BOOLEAN : GitStashApply(drop)
    \/ GitStashDrop
    \/ \E r \in BranchRev : GitMerge(r)
    \/ GitMergeAbort
    \/ GitFetch
    \/ \E b \in Branch : GitPull(b)
    \/ \E b \in Branch : GitPush(b)

Spec == Init /\ [][Next]_vars

-----------------------------------------------------------------------------
(* Properties.                                                             *)

\* The subcommands that are asked to throw work away, and those that do so
\* unasked: the forced checkout of merge and pull (git.rs:607, 634, 1387, 1426)
\* and the rename of mv onto an existing file (git.rs:1583).
Asked   == {"edit", "restore", "rm", "clean", "reset --hard", "abort"}
Unasked == {"merge", "pull", "mv"}

\* Uncommitted work stays in the working tree or goes to the stash: checkout is
\* safe, stash takes what it removes, a refused command has done nothing
\* (git.rs:957, 1185).
WorkKept ==
    [][\A p \in Path :
         /\ wt[p] \notin {None, HeadTree[p]}
         /\ wt'[p] # wt[p]
         => \/ answer'.op \in Asked
            \/ answer'.op \in Unasked /\ answer'.ok
            \/ stash' # <<>> /\ Tail(stash') = stash /\ stash'[1].saved[p] = wt[p]]_vars

\* What local branches reach, they go on reaching, except by reset and branch
\* -d, which are told to, and by a pull of a branch that HEAD is not on
\* (git.rs:590).
Reached(os, rs) == UNION {Line(os, rs[b]) : b \in Branch}
CommitsKept ==
    [][\/ Reached(objs, refs) \subseteq Reached(objs', refs')
       \/ answer'.op \in {"reset", "reset --hard", "delete"}
       \/ answer'.op = "pull" /\ answer'.rev.name # head.on]_vars

\* The histories are joined: what was merged or pulled is an ancestor of HEAD.
Joined == LET c == IF answer'.op = "pull" THEN origin[answer'.rev.name]
                                          ELSE Resolve(answer'.rev)
          IN  c \in Line(objs', HeadCommit')

\* A merge that reports success has joined the histories, whatever failed on the
\* way (git.rs:1380, 1406-1433), and so has a pull in which nothing failed
\* (git.rs:592, 645).  On a branch that has a commit: without one, merge reports
\* a fast-forward it did not do.
MergeJoins ==
    [][answer'.ok /\ \/ answer'.op = "merge" /\ head.on # None /\ HeadCommit # 0
                     \/ answer'.op = "pull" /\ ~answer'.fault
         => Joined]_vars

\* `git status` prints nothing.
Clean == index = HeadTree /\ wt = HeadTree

\* Commands that go from commit to commit leave a clean tree clean: branch, index
\* and files move together, and a dirty tree is not passed off as clean by
\* recording something else than what is there (git.rs:957, 592, 1386, 1411, 419),
\* unless a call of libgit2 failed.
CleanStays ==
    [][/\ Clean /\ answer'.ok /\ ~answer'.fault
       /\ answer'.op \in {"checkout", "merge", "pull", "stash", "abort",
                          "branch", "fetch", "push", "commit", "reset --hard"}
       => Clean']_vars

\* A stash entry goes away by drop, or after its contents are back: where the
\* file was as at the time of the stash, it is as it was stashed (git.rs:1202).
StashKept ==
    [][Len(stash') < Len(stash) /\ answer'.op # "drop" =>
         \A p \in Path :
            LET s == stash[1]
            IN  s.saved[p] # TreeAt(s.base)[p] /\ index[p] = TreeAt(s.base)[p]
                  => wt'[p] = s.saved[p]]_vars

=============================================================================
