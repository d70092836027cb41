------------------------------- MODULE MCGit -------------------------------
(* Repositories and bounds for the TLC runs of Git.                        *)
EXTENDS Git, TLC

T(a, b) == [p \in Path |-> IF p = "a" THEN a ELSE b]
C(t, ps) == [tree |-> t, past |-> ps]
Repo(os, m, d, on, om, od) ==
    LET refs0 == [b \in Branch |-> IF b = "main" THEN m ELSE d]
        tree0 == IF refs0[on] = 0 THEN Empty ELSE os[refs0[on]].tree
    IN  [objs |-> os, on |-> on, refs |-> refs0,
         origin |-> [b \in Branch |-> IF b = "main" THEN om ELSE od],
         index |-> tree0, wt |-> tree0, stash |-> <<>>]

\* Just initialized, with a remote that has one commit.
Fresh == Repo(<<C(T("1", None), {})>>, 0, 0, "main", 1, 0)

\* Just cloned: main, and origin has a branch dev beside it.
Cloned == Repo(<<C(T("1", "1"), {}), C(T("1", "2"), {1})>>, 1, 0, "main", 1, 2)

\* Local branches that have diverged, on different files; b is edited and a
\* third version of a is in the stash.
Apart ==
    [Repo(<<C(T("1", "1"), {}), C(T("2", "1"), {1}), C(T("1", "2"), {1})>>,
          2, 3, "main", 1, 0)
     EXCEPT !.wt = T("2", None),
            !.stash = <<[base |-> 1, saved |-> T(None, "1")]>>]

\* Branches that clash on a, and origin is behind both.
Clash == Repo(<<C(T("1", None), {}), C(T("2", None), {1}), C(T(None, None), {1})>>,
              2, 3, "dev", 1, 1)

AllRepos == {Fresh, Cloned, Apart, Clash}
=============================================================================
