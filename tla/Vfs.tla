-------------------------------- MODULE Vfs --------------------------------
(***************************************************************************)
(* The virtual file system (vfs/mod.rs) on the host's file system, which is *)
(* external: what its calls do is what POSIX says.                          *)
(*                                                                         *)
(* A link that a script makes with an absolute target means a path of the   *)
(* virtual file system; the host reads it against its own root, where there *)
(* is no such file.  vfs follows it by hand (follow_symlink_chain).         *)
(***************************************************************************)
EXTENDS Integers, FiniteSets, SequencesExt

CONSTANTS
    Path,       \* the paths that may exist, as sequences of names (numbers)
    Chunk,      \* what a command may write
    MaxData,    \* bound on the number of chunks in a file
    MaxLinks,   \* links followed, 40 in vfs/mod.rs:183 and on the host
    NoPath      \* no such path

Root == <<>>
Ino  == 1 .. Cardinality(Path)

ASSUME VfsAssumption ==
    /\ Path \subseteq Seq(Nat) /\ IsFiniteSet(Path)
    /\ \A p \in Path : p # Root /\ (Len(p) > 1 => Front(p) \in Path)
    /\ MaxData \in Nat /\ MaxLinks \in Nat /\ NoPath \notin Seq(Nat)

(* A disk is a record [node, data]: what each path is, what each inode holds. *)
Name   == Seq(Nat) \ {Root}
Target == [abs : BOOLEAN, path : Name]
Here   == [abs |-> FALSE, path |-> Root]
None   == [kind |-> "none", ino |-> 0, to |-> Here]
Dir    == [kind |-> "dir",  ino |-> 0, to |-> Here]
File(i) == [kind |-> "file", ino |-> i, to |-> Here]
Link(t) == [kind |-> "link", ino |-> 0, to |-> t]
Node   == {None, Dir} \cup {File(i) : i \in Ino} \cup [kind : {"link"}, ino : {0}, to : Target]
Disk   == [node : [Path -> Node], data : [Ino -> Seq(Chunk)]]

Pre(p, i) == SubSeq(p, 1, i)
Within(p, q) == IsPrefix(q, p)
At(d, p) == IF p = Root THEN Dir ELSE IF p \in Path THEN d.node[p] ELSE None
Put(d, p, n) == [d EXCEPT !.node[p] = n]

\* Every node has its directory; no file has more than its chunks.
IsTree(d)   == \A p \in Path : d.node[p] # None => At(d, Front(p)) = Dir
InBounds(d) == \A i \in Ino : Len(d.data[i]) <= MaxData

Done(d) == [disk |-> d, ok |-> TRUE]
Fail(d) == [disk |-> d, ok |-> FALSE]

\* An inode without a name is gone.
Swept(d) == [d EXCEPT !.data = [i \in Ino |->
                IF \E p \in Path : d.node[p] = File(i) THEN @[i] ELSE <<>>]]

\* n times f, from a.
Times(f, a, n) ==
    LET R[k \in 0 .. n] == IF k = 0 THEN a ELSE f[R[k - 1]] IN R[n]

\* A loop over paths that returns at the first error.
Then(f, r, p) == IF r.ok THEN f[<<r.disk, p>>] ELSE r
Loop(f, d, S) ==
    LET R[k \in 0 .. Len(S)] == IF k = 0 THEN Done(d) ELSE Then(f, R[k - 1], S[k])
    IN  R[Len(S)]
Each(op(_, _), d, S) == Loop([x \in Disk \X Seq(Nat) |-> op(x[1], x[2])], d, S)

-----------------------------------------------------------------------------
(* The host.                                                               *)

\* The links of path q, the last component's only if it is asked to.
Links(d, q, last) ==
    {i \in 1 .. (IF last THEN Len(q) ELSE Len(q) - 1) : At(d, Pre(q, i)).kind = "link"}

\* The first of them is followed.
Through(q, i, t) ==
    IF t.abs THEN NoPath ELSE Pre(q, i - 1) \o t.path \o SubSeq(q, i + 1, Len(q))
Followed(d, q, last) ==
    IF q = NoPath \/ Links(d, q, last) = {} THEN q
    ELSE LET i == CHOOSE i \in Links(d, q, last) : \A j \in Links(d, q, last) : i <= j
         IN  Through(q, i, At(d, Pre(q, i)).to)

\* The path that the host comes to when it follows the links of path p.  Its
\* last component need not exist.
Settled(d, q, last) ==
    IF /\ q # NoPath /\ Links(d, q, last) = {}
       /\ \A i \in 1 .. Len(q) - 1 : At(d, Pre(q, i)) = Dir
      THEN q ELSE NoPath
Leading(d, p, last) ==
    IF Links(d, p, last) = {} THEN p
    ELSE Times([q \in {NoPath} \cup Seq(Nat) |-> Followed(d, q, last)], p, MaxLinks)
Walk(d, p, last) == Settled(d, Leading(d, p, last), last)

NodeAt(d, w) == IF w = NoPath THEN None ELSE At(d, w)
There(d, w) == IF NodeAt(d, w) # None THEN w ELSE NoPath
Meta(d, p)   == NodeAt(d, Walk(d, p, FALSE))
Real(d, p)   == There(d, Walk(d, p, TRUE))
Exists(d, p) == Real(d, p) # NoPath
IsDir(d, p)  == NodeAt(d, Real(d, p)).kind = "dir"
IsFile(d, p) == NodeAt(d, Real(d, p)).kind = "file"
Held(d, p)   == d.data[At(d, Real(d, p)).ino]

\* open for writing, with or without O_CREAT and O_TRUNC, where the path leads.
OpenAt(d, w, create, trunc) ==
    IF NodeAt(d, w).kind = "file"
      THEN Done(IF trunc THEN [d EXCEPT !.data[At(d, w).ino] = <<>>] ELSE d)
    ELSE IF create /\ w \in Path /\ At(d, w) = None
      THEN Done(Put(d, w, File(CHOOSE i \in Ino : \A q \in Path : d.node[q] # File(i))))
    ELSE Fail(d)
Open(d, p, create, trunc) == OpenAt(d, Walk(d, p, TRUE), create, trunc)

Stored(r, p, text) ==
    IF r.ok THEN Done([r.disk EXCEPT !.data[At(r.disk, Walk(r.disk, p, TRUE)).ino] = text])
            ELSE r
FsWrite(d, p, text) == Stored(Open(d, p, TRUE, TRUE), p, text)

\* std::fs::copy: the destination is truncated before the source is read.
Filled(r, i, t) == Stored(r, t, r.disk.data[i])
FsCopy(d, s, t) ==
    IF IsFile(d, s) THEN Filled(Open(d, t, TRUE, TRUE), At(d, Real(d, s)).ino, t) ELSE Fail(d)

\* A new node, in the place of one of the given kinds.
PutAt(d, w, kinds, n) ==
    IF w \in Path /\ At(d, w).kind \in kinds THEN Done(Put(d, w, n)) ELSE Fail(d)
MkDir(d, p) == PutAt(d, Walk(d, p, FALSE), {"none"}, Dir)
MkDirOr(d, p) == IF IsDir(d, p) THEN Done(d) ELSE MkDir(d, p)
MkDirAll(d, p) == Each(MkDirOr, d, [i \in 1 .. Len(p) |-> Pre(p, i)])

Children(d, p) == {q \in Path : Len(q) = Len(p) + 1 /\ Within(q, p) /\ d.node[q] # None}
FsUnlink(d, p) == PutAt(d, Walk(d, p, FALSE), {"file", "link"}, None)
RmDirAt(d, w) == IF Children(d, w) = {} THEN PutAt(d, w, {"dir"}, None) ELSE Fail(d)
FsRmDir(d, p) == IF Meta(d, p) = Dir THEN RmDirAt(d, Walk(d, p, FALSE)) ELSE Fail(d)
FsRmTree(d, p) ==
    Done([d EXCEPT !.node = [q \in Path |-> IF Within(q, p) THEN None ELSE @[q]]])

RenameAt(d, s, t) ==
    LET a == At(d, s)
        b == At(d, t)
        fits == CASE b = None        -> TRUE
                  [] b = Dir         -> a = Dir /\ Children(d, t) = {}
                  [] OTHER           -> a # Dir
        room == \A x \in Path : Within(x, s) /\ d.node[x] # None
                                 => t \o SubSeq(x, Len(s) + 1, Len(x)) \in Path
    IN  IF s \notin Path \/ t \notin Path THEN Fail(d)
        ELSE IF s = t \/ (a.kind = "file" /\ a = b) THEN Done(d)
        ELSE IF a = None \/ ~fits \/ Within(t, s) \/ ~room THEN Fail(d)
        ELSE Done([d EXCEPT !.node = [x \in Path |->
                IF Within(x, t) THEN At(d, s \o SubSeq(x, Len(t) + 1, Len(x)))
                ELSE IF Within(x, s) THEN None ELSE @[x]]])
FsRename(d, p, q) == RenameAt(d, Walk(d, p, FALSE), Walk(d, q, FALSE))

-----------------------------------------------------------------------------
(* vfs/mod.rs.                                                             *)

\* Vfs::follow_symlink_chain: it ends at the first path that is no link.
HopTo(cur, n) ==
    CASE n = None        -> NoPath
      [] n.kind = "link" -> IF n.to.abs THEN n.to.path ELSE Front(cur) \o n.to.path
      [] OTHER           -> cur
Hop(d, cur) == IF cur = NoPath THEN NoPath ELSE HopTo(cur, Meta(d, cur))
Or(p, q)    == IF p # NoPath THEN p ELSE q
Ending(d, e) == IF e = NoPath THEN NoPath ELSE Or(Real(d, e), e)
Follow(d, p) ==
    IF Meta(d, p).kind = "link"
      THEN Ending(d, Times([q \in {NoPath} \cup Seq(Nat) |-> Hop(d, q)], p, MaxLinks))
      ELSE NoPath

\* Vfs::resolve and Vfs::resolve_no_follow, of a normalized path.
In(r, p) == IF r = NoPath THEN p ELSE Append(r, Last(p))
ResolveNF(d, p) == IF p = Root THEN p ELSE In(Real(d, Front(p)), p)
Resolve(d, p)   == Or(Or(Real(d, p), Follow(d, p)), ResolveNF(d, p))

VExists(d, p) == Exists(d, Resolve(d, p))
VIsDir(d, p)  == IsDir(d, Resolve(d, p))

\* Vfs::write and write_bytes.
Parents(d, t) == IF t = Root THEN Done(d) ELSE MkDirAll(d, Front(t))
WriteAt(r, t, text) == IF r.ok THEN FsWrite(r.disk, t, text) ELSE r
WriteTo(d, t, text) == WriteAt(Parents(d, t), t, text)
Write(d, p, text)   == WriteTo(d, Resolve(d, p), text)

\* Vfs::remove_file, remove_dir, remove_dir_all.  Mutant of RemoveFile: follows.
RemoveTarget(d, p) == FsUnlink(d, Resolve(d, p))
RemoveFile(d, p) == FsUnlink(d, ResolveNF(d, p))
RemoveDir(d, p)  == FsRmDir(d, ResolveNF(d, p))
RemoveDirAll(d, p) ==
    IF VExists(d, p) THEN FsRmTree(d, Resolve(d, p)) ELSE Fail(d)

\* copy_dir_recursive, in the order of names: it stops at the first failure.
Before(p, q) ==
    \E i \in 1 .. Len(q) : /\ Len(p) >= i - 1 /\ Pre(p, i - 1) = Pre(q, i - 1)
                           /\ Len(p) >= i => p[i] < q[i]
Least(S) == {q \in S : \A x \in S \ {q} : Before(q, x)}
InOrder(S) ==
    LET left(s) == S \ Range(s)
        more(s, q) == IF q = {} THEN s ELSE Append(s, CHOOSE x \in q : TRUE)
    IN  Times([s \in Seq(S) |-> more(s, Least(left(s)))], <<>>, Cardinality(S))
CopyTree(d, s, t) ==
    LET below == {q \in Path : Within(q, s) /\ q # s /\ d.node[q] # None}
        to(q) == t \o SubSeq(q, Len(s) + 1, Len(q))
        one(x, q) == IF At(d, q) = Dir THEN MkDirAll(x, to(q)) ELSE FsCopy(x, q, to(q))
        all(r) == IF r.ok THEN Each(one, r.disk, InOrder(below)) ELSE r
    IN  all(MkDirAll(d, t))

\* Vfs::copy and Vfs::rename.  Mutant of Rename: a copy, whose failure to remove
\* what was there is dropped.
CopyIn(r, s, t) == IF r.ok THEN FsCopy(r.disk, s, t) ELSE r
CopyTo(d, s, t) ==
    IF ~Exists(d, s) THEN Fail(d)
    ELSE IF IsDir(d, s) THEN CopyTree(d, s, t) ELSE CopyIn(Parents(d, t), s, t)
Copy(d, p, q) == CopyTo(d, Resolve(d, p), Resolve(d, q))
Unlinked(r, s) == IF r.ok THEN Done(FsUnlink(r.disk, s).disk) ELSE r
RenameByCopy(d, p, q) == Unlinked(Copy(d, p, q), Resolve(d, p))
RenameIn(r, s, t) == IF r.ok THEN FsRename(r.disk, s, t) ELSE r
RenameTo(d, s, t) == IF Exists(d, s) THEN RenameIn(Parents(d, t), s, t) ELSE Fail(d)
Rename(d, p, q) == RenameTo(d, Resolve(d, p), Resolve(d, q))
=============================================================================
