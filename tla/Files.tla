------------------------------- MODULE Files -------------------------------
(***************************************************************************)
(* The commands that change the virtual file system (Vfs): redirects, tee,  *)
(* touch, truncate, install, cp, mv, rm, unlink, ln, link, mkdir, rmdir,    *)
(* and cd, pushd and popd.  A command is one step.  An operand is the path   *)
(* it normalizes to (Vfs::candidate); modes and times are left out.         *)
(***************************************************************************)
EXTENDS Vfs

CONSTANTS
    Lists,      \* lists of operands
    Binary,     \* the chunk that is not UTF-8
    Disks,      \* the disks to start from
    MaxSteps    \* bound on the number of commands

ASSUME FilesAssumption ==
    /\ Binary \in Chunk /\ MaxSteps \in Nat /\ Lists \subseteq Seq(Path)
    /\ \A d \in Disks : d \in Disk /\ IsTree(d) /\ InBounds(d)

VARIABLES
    disk,    \* what the root directory holds
    cwd,     \* Shell.cwd
    prev,    \* Shell.prev_dir, NoPath at first
    stack,   \* Shell.dir_stack
    answer   \* the last command: [op, from, to, text, ok, n]

vars  == <<disk, cwd, prev, stack, answer>>
place == <<cwd, prev, stack>>

\* A command leaves a disk, within the bounds, and an exit code.
Answer(op, from, to, text, r) ==
    /\ answer.n < MaxSteps
    /\ \E q \in {r} :
          /\ disk' = Swept(q.disk)
          /\ answer' = [op |-> op, from |-> from, to |-> to, text |-> text, ok |-> q.ok,
                        n |-> answer.n + 1]
    /\ InBounds(disk')

\* With -f an error is dropped.
Forced(force, r) == [r EXCEPT !.ok = @ \/ force]

-----------------------------------------------------------------------------
(* Writing.                                                                *)

\* What `>>` finds in a file: nothing if it cannot be read, and text that is not
\* UTF-8 cannot.  Mutant of Old: does not follow a link.
Content(d, t, bin) ==
    IF IsFile(d, t) /\ (bin \/ ~Contains(Held(d, t), Binary)) THEN Held(d, t) ELSE <<>>
OldNoFollow(d, p, bin) ==
    IF Meta(d, p).kind = "file" THEN Content(d, ResolveNF(d, p), bin) ELSE <<>>
Old(d, p, bin) == Content(d, Resolve(d, p), bin)

Out(d, p, append, text, bin) ==
    IF p = NoPath THEN Done(d)
    ELSE Write(d, p, (IF append THEN Old(d, p, bin) ELSE <<>>) \o text)

\* COMMAND >[>] P 2>[>] Q, with outputs o and e.  One file for both gets both;
\* binary output returns before standard error is written.
Second(r, q, append, e) == [Out(r.disk, q, append, e, FALSE) EXCEPT !.ok = @ /\ r.ok]
Redirect(p, q, append, o, e) ==
    LET bin == Contains(o, Binary)
        r == IF p = q THEN Out(disk, p, append, o \o e, bin)
             ELSE IF bin THEN Out(disk, p, append, o, bin)
             ELSE Second(Out(disk, p, append, o, bin), q, append, e)
    IN  /\ Answer(IF append THEN ">>" ELSE ">", <<>>, <<p, q>>, <<o, e>>, r)
        /\ UNCHANGED place

\* tee [-a] FILES.
AppendTo(d, t, text) == Stored(Open(d, t, TRUE, FALSE), t, Content(d, t, TRUE) \o text)
Tee(S, append, text) ==
    LET one(d, p) ==
          IF append THEN AppendTo(d, Resolve(d, p), text) ELSE Write(d, p, text)
    IN  Answer("tee", <<>>, S, <<text>>, Each(one, disk, S)) /\ UNCHANGED place

\* touch [-c] FILES.
TouchAt(d, t, nocreate) == IF Exists(d, t) \/ nocreate THEN Done(d) ELSE FsWrite(d, t, <<>>)
Touch(S, nocreate) ==
    LET one(d, p) == TouchAt(d, Resolve(d, p), nocreate)
    IN  Answer("touch", <<>>, S, <<>>, Each(one, disk, S)) /\ UNCHANGED place

\* truncate -s 0 FILES.
Truncate(S) ==
    LET one(d, p) == Open(d, Resolve(d, p), FALSE, TRUE)
    IN  Answer("truncate", <<>>, S, <<>>, Each(one, disk, S)) /\ UNCHANGED place

-----------------------------------------------------------------------------
(* Copying and moving.                                                     *)

\* The operand itself, or the place for it in a directory: by the name of what
\* the source resolves to.
Dest(d, p, q) == IF VIsDir(d, q) THEN Append(q, Last(Resolve(d, p))) ELSE q

\* cp [-r] [-n] [-f] SOURCES Q.
CpOne(d, p, s, t, recursive, keep, force) ==
    IF IsDir(d, s) /\ ~recursive THEN Fail(d)
    ELSE IF keep /\ VExists(d, t) THEN Done(d)
    ELSE IF IsDir(d, s) /\ Within(Resolve(d, t), s) THEN Fail(d)
    ELSE Forced(force, Copy(d, p, t))
Cp(S, q, recursive, keep, force) ==
    LET one(d, p) == CpOne(d, p, Resolve(d, p), Dest(d, p, q), recursive, keep, force)
    IN  Answer(IF force THEN "cp -f" ELSE IF keep THEN "cp -n" ELSE "cp",
               S, <<q>>, <<>>, Each(one, disk, S)) /\ UNCHANGED place

\* mv [-n] [-f] SOURCES Q.
MvOne(d, p, t, keep, force) ==
    IF keep /\ VExists(d, t) THEN Done(d) ELSE Forced(force, Rename(d, p, t))
Mv(S, q, keep, force) ==
    LET one(d, p) == MvOne(d, p, Dest(d, p, q), keep, force)
    IN  Answer(IF force THEN "mv -f" ELSE IF keep THEN "mv -n" ELSE "mv",
               S, <<q>>, <<>>, Each(one, disk, S)) /\ UNCHANGED place

\* install [-d] SOURCES Q: reads all of the source, then writes.
WriteFrom(d, s, t) == IF IsFile(d, s) THEN Write(d, t, Held(d, s)) ELSE Fail(d)
Install(S, q, dir) ==
    LET one(d, p) == WriteFrom(d, Resolve(d, p), IF dir THEN Append(q, Last(p)) ELSE q)
    IN  Answer("install", S, <<q>>, <<>>, Each(one, disk, S)) /\ UNCHANGED place

-----------------------------------------------------------------------------
(* Removing.                                                               *)

\* Mutant of RmOne: a failure is dropped, -f or not.
RmNode(d, p, n, recursive, dir) ==
    CASE n = None -> Fail(d)
      [] n = Dir  -> IF recursive THEN RemoveDirAll(d, p)
                     ELSE IF dir THEN RemoveDir(d, p) ELSE Fail(d)
      [] OTHER    -> RemoveFile(d, p)
RmOneQuiet(d, p, recursive, force, dir) ==
    Forced(TRUE, RmNode(d, p, Meta(d, ResolveNF(d, p)), recursive, dir))

\* rm [-r] [-f] [-d] P.  Links are not followed.
RmOne(d, p, recursive, force, dir) ==
    Forced(force, RmNode(d, p, Meta(d, ResolveNF(d, p)), recursive, dir))
Rm(S, recursive, force, dir) ==
    LET one(d, p) == RmOne(d, p, recursive, force, dir)
    IN  Answer(IF force THEN "rm -f" ELSE "rm", S, <<>>, <<>>, Each(one, disk, S))
        /\ UNCHANGED place

\* unlink P.
Unlink(p) == Answer("rm", <<p>>, <<>>, <<>>, RemoveFile(disk, p)) /\ UNCHANGED place

\* rmdir [-p] P: -p goes on with the parents until one is not empty.
UpFrom(d, s) == Done(Each(FsRmDir, d, [k \in 1 .. Len(s) |-> Pre(s, Len(s) - k + 1)]).disk)
RmDirAll(first, d, s) == IF first.ok THEN UpFrom(d, s) ELSE first
RmDir(p, parents) ==
    /\ Answer("rmdir", <<p>>, <<>>, <<>>,
              IF parents THEN RmDirAll(FsRmDir(disk, Resolve(disk, p)), disk, Resolve(disk, p))
              ELSE FsRmDir(disk, Resolve(disk, p)))
    /\ UNCHANGED place

-----------------------------------------------------------------------------
(* Linking.                                                                *)

\* A hard link, or a copy if the link cannot be made.
LinkAt(d, a, b) ==
    IF a \in Path /\ At(d, a).kind \in {"file", "link"} THEN PutAt(d, b, {"none"}, At(d, a))
    ELSE Fail(d)
FsLink(d, s, t) == LinkAt(d, Walk(d, s, FALSE), Walk(d, t, FALSE))
OrCopy(r, d, s, t) == IF r.ok THEN r ELSE FsCopy(d, s, t)

\* ln [-f] SOURCES Q, and ln -s with targets S that say absolute or relative.
Cleared(d, t, n) ==
    IF n = None THEN d ELSE IF n = Dir THEN FsRmDir(d, t).disk ELSE FsUnlink(d, t).disk
LnAt(d, p, s, t, symbolic, abs) ==
    IF symbolic
      THEN PutAt(d, Walk(d, t, FALSE), {"none"},
                 Link([abs |-> abs, path |-> IF abs THEN p ELSE SubSeq(p, Len(cwd) + 1, Len(p))]))
      ELSE OrCopy(FsLink(d, s, t), d, s, t)
LnOne(d, p, s, t, symbolic, abs, force) ==
    LnAt(IF force THEN Cleared(d, t, Meta(d, t)) ELSE d, p, s, t, symbolic, abs)
Ln(S, q, symbolic, abs, force) ==
    LET to(p) == IF VIsDir(disk, q) THEN Append(Resolve(disk, q), Last(p)) ELSE ResolveNF(disk, q)
        one(d, p) == LnOne(d, p, Resolve(d, p), to(Resolve(d, p)), symbolic, abs, force)
    IN  /\ symbolic /\ ~abs => \A i \in 1 .. Len(S) : Within(S[i], cwd) /\ S[i] # cwd
        /\ Answer(IF symbolic THEN "ln -s" ELSE "ln", S, <<q>>, <<>>, Each(one, disk, S))
        /\ UNCHANGED place

\* link P Q.
OrWrite(r, d, s, q) == IF r.ok THEN r ELSE WriteFrom(d, s, q)
LinkTo(p, q) ==
    /\ Answer("ln", <<p>>, <<q>>, <<>>,
              OrWrite(FsLink(disk, Resolve(disk, p), Resolve(disk, q)), disk, Resolve(disk, p), q))
    /\ UNCHANGED place

-----------------------------------------------------------------------------
(* Directories.                                                            *)

\* mkdir [-p] DIRS.
MkdirOne(d, t, parents) ==
    IF parents THEN MkDirAll(d, t) ELSE IF Exists(d, t) THEN Fail(d) ELSE MkDir(d, t)
Mkdir(S, parents) ==
    LET one(d, p) == MkdirOne(d, Resolve(d, p), parents)
    IN  Answer("mkdir", <<>>, S, <<>>, Each(one, disk, S)) /\ UNCHANGED place

\* What cd does with a directory.
Goes(p) == IsDir(disk, Resolve(disk, p))
Enter(t) ==
    IF IsDir(disk, t) /\ t # cwd THEN cwd' = t /\ prev' = cwd ELSE UNCHANGED <<cwd, prev>>
Moved(p) == Enter(Resolve(disk, p))
Told(op, p) == Answer(op, <<>>, <<p>>, <<>>, IF Goes(p) THEN Done(disk) ELSE Fail(disk))

\* cd P and cd -.
Cd(p)  == Moved(p) /\ Told("cd", p) /\ UNCHANGED stack
CdBack == prev # NoPath /\ Cd(prev)

\* pushd P.
PushDir(p) ==
    Moved(p) /\ Told("cd", p) /\ stack' = IF Goes(p) THEN Append(stack, cwd) ELSE stack

\* pushd: trades places with the top, which is lost if it cannot be entered.
\* Mutant of PushSwap: pushes what cd left as the previous directory.
PushSwapPrev ==
    /\ stack # <<>>
    /\ Moved(Last(stack)) /\ Told("cd", Last(stack))
    /\ stack' = Append(Front(stack), prev)
PushSwap ==
    /\ stack # <<>>
    /\ Moved(Last(stack)) /\ Told("cd", Last(stack))
    /\ stack' = Append(Front(stack), cwd)

\* popd: the top is gone even if it cannot be entered.
PopDir ==
    /\ stack # <<>>
    /\ Moved(Last(stack)) /\ Told("cd", Last(stack))
    /\ stack' = Front(stack)

-----------------------------------------------------------------------------

Init ==
    /\ disk \in Disks
    /\ cwd = Root /\ prev = NoPath /\ stack = <<>>
    /\ answer = [op |-> "init", from |-> <<>>, to |-> <<>>, text |-> <<>>, ok |-> TRUE, n |-> 0]

Texts == {<<c>> : c \in Chunk}

Next ==
    \/ \E p \in Path, q \in Path \cup {NoPath}, append \in BOOLEAN, o \in Texts,
          e \in {<<>>} \cup (Texts \ {<<Binary>>}) : Redirect(p, q, append, o, e)
    \/ \E S \in Lists, append \in BOOLEAN, t \in Texts \ {<<Binary>>} : Tee(S, append, t)
    \/ \E S \in Lists, nocreate \in BOOLEAN : Touch(S, nocreate)
    \/ \E S \in Lists : Truncate(S)
    \/ \E S \in Lists, q \in Path \cup {Root}, r \in BOOLEAN, keep \in BOOLEAN, force \in BOOLEAN :
          Cp(S, q, r, keep, force)
    \/ \E S \in Lists, q \in Path \cup {Root}, keep \in BOOLEAN, force \in BOOLEAN :
          Mv(S, q, keep, force)
    \/ \E S \in Lists, q \in Path, dir \in BOOLEAN : Install(S, q, dir)
    \/ \E S \in Lists, r \in BOOLEAN, force \in BOOLEAN, dir \in BOOLEAN : Rm(S, r, force, dir)
    \/ \E p \in Path : Unlink(p)
    \/ \E p \in Path, parents \in BOOLEAN : RmDir(p, parents)
    \/ \E S \in Lists, q \in Path, symbolic \in BOOLEAN, abs \in BOOLEAN, force \in BOOLEAN :
          Ln(S, q, symbolic, abs, force)
    \/ \E p \in Path, q \in Path : LinkTo(p, q)
    \/ \E S \in Lists, parents \in BOOLEAN : Mkdir(S, parents)
    \/ \E p \in Path \cup {Root} : Cd(p)
    \/ CdBack
    \/ \E p \in Path \cup {Root} : PushDir(p)
    \/ PushSwap
    \/ PopDir

Spec == Init /\ [][Next]_vars

-----------------------------------------------------------------------------
(* Properties.                                                             *)

\* Types; every file has its directory.
TypeOK ==
    /\ disk \in Disk /\ IsTree(disk) /\ InBounds(disk)
    /\ cwd \in Path \cup {Root} /\ stack \in Seq(Path \cup {Root})
    /\ prev \in Path \cup {Root, NoPath}

\* Where a command may leave a trace: at or below its operands, what they
\* resolve to, and the places for them in a directory.
Places(d, p) == {p, ResolveNF(d, p), Resolve(d, p), Walk(d, Resolve(d, p), TRUE)}
Entries(d, S, q) == {Append(q, Last(s)) : s \in {Resolve(d, p) : p \in Range(S)} \cup Range(S)}
Operands(d, a) ==
    LET to == Range(a.to) \ {NoPath}
        from == IF a.op \in {"mv", "mv -n", "mv -f", "rmdir"}
                  THEN Range(a.from) ELSE {}
        in == IF a.from = <<>> THEN {}
              ELSE UNION {Entries(d, a.from, p) \cup Entries(d, a.from, Resolve(d, p)) : p \in to}
    IN  UNION {Places(d, p) : p \in to \cup from \cup in}
Reached(d, a) ==
    LET at == {p \in Path : \E q \in Operands(d, a) : q \notin {Root, NoPath} /\ Within(p, q)}
    IN  (at \cup {Walk(d, p, TRUE) : p \in at}) \ {NoPath}

\* rm takes nodes away, all of them at or below its operands, which it does not
\* follow (vfs/mod.rs:344); what the files that stay hold is as it was.
RmOnly ==
    answer'.op \in {"rm", "rm -f"} =>
        /\ \A q \in Path : disk'.node[q] # disk.node[q] =>
              /\ disk'.node[q] = None
              /\ \E p \in Range(answer'.from) : Within(q, ResolveNF(disk, p))
        /\ \A q \in Path : disk'.node[q].kind = "file" =>
              disk'.data[disk'.node[q].ino] = disk.data[disk'.node[q].ino]

\* A command changes nothing but its operands: beside them it only makes the
\* directories above them (vfs/mod.rs:323), or removes them (rmdir -p); rm does
\* not reach through a link (vfs/mod.rs:344).
OnlyOperands ==
    [][IF answer'.op \in {"rm", "rm -f"} THEN RmOnly ELSE disk' # disk => \E at \in {Reached(disk, answer')} :
          /\ \A p \in Path \ at :
                 \/ disk'.node[p] = disk.node[p]
                 \/ /\ {disk.node[p], disk'.node[p]} = {None, Dir}
                    /\ \E q \in at : Within(q, p)
          /\ \A p \in Path \ at :
                 disk.node[p].kind = "file" /\ disk'.data[disk.node[p].ino] # disk.data[disk.node[p].ino]
                   => /\ answer'.op \notin {"rmdir", "mv", "mv -n", "mv -f"}
                      /\ \E q \in at, d \in {disk, disk'} :
                            IsFile(d, q) /\ At(d, Real(d, q)) = disk.node[p]]_vars

\* What a file holds, read as commands do; NoPath if it cannot be.
Read(d, p) == IF IsFile(d, Resolve(d, p)) THEN Held(d, Resolve(d, p)) ELSE NoPath

\* rm that answers 0 has left none of its operands (rm.rs:72).
Gone(d, p) == Meta(d, ResolveNF(d, p)) = None
RmDone ==
    answer'.op = "rm" /\ answer'.ok => \A p \in Range(answer'.from) : Gone(disk', p)

\* cd that answers 0 is where its directory really is (vfs/mod.rs:183); at a link
\* only when the host has followed too many to come further.
CdDone ==
    answer'.op = "cd" /\ answer'.ok => At(disk', cwd').kind = "link" \/ Real(disk', cwd') = cwd'

\* Exit code 0 means that it is done: the output is in the file, after what the
\* file held before if it is text; the operands of rm are gone, those of mkdir
\* are there, and cd is somewhere that exists (vfs/mod.rs:321, rm.rs:72).
SuccessMeansDone ==
    [][answer'.ok =>
         LET a == answer'
         IN  CASE a.op = ">" /\ a.to[1] # a.to[2] ->
                    \/ Read(disk', a.to[1]) = a.text[1]
                    \/ /\ a.to[2] # NoPath
                       /\ At(disk', Resolve(disk', a.to[1])) = At(disk', Resolve(disk', a.to[2]))
               [] a.op = ">>" /\ a.to[2] = NoPath /\ Read(disk, a.to[1]) # NoPath
                    /\ ~Contains(Read(disk, a.to[1]), Binary) ->
                    Read(disk', a.to[1]) = Read(disk, a.to[1]) \o a.text[1]
               [] a.op = "rm" -> RmDone
               [] a.op = "mkdir" -> \A p \in Range(a.to) : VIsDir(disk', p)
               [] a.op = "cd" -> CdDone
               [] OTHER -> TRUE]_vars

\* What was at s on disk d is at t on disk e, with all that is below it and what
\* the files hold, and no longer at s.
Carried(d, e, s, t) ==
    \A q \in Path : Within(q, s) =>
        /\ At(e, t \o SubSeq(q, Len(s) + 1, Len(q))) = d.node[q]
        /\ d.node[q].kind = "file" => e.data[d.node[q].ino] = d.data[d.node[q].ino]
        /\ ~Within(q, t) => e.node[q] = None

\* A move of one thing moves all of it: where it was, nothing is left, and where
\* its destination leads to there is the same tree with the same files
\* (vfs/mod.rs:429).  It is what the operand leads to, which is a link only when
\* the host has followed too many to come further.
MoveOfOne ==
    answer'.op = "mv" /\ answer'.ok /\ Len(answer'.from) = 1 =>
        LET p == answer'.from[1]
            s == Resolve(disk, p)
            t == Walk(disk', Resolve(disk, Dest(disk, p, answer'.to[1])), FALSE)
        IN  \/ disk.node[s].kind = "link"
            \/ s = t \/ (disk.node[s].kind = "file" /\ disk.node[s] = At(disk, t))
            \/ Carried(disk, disk', s, t)

\* A move that answers 0, of one operand, on every disk (vfs/mod.rs:429).
MovesWhole == [][MoveOfOne]_vars

\* "Rename SOURCE to DEST, or move SOURCE(s) to DIRECTORY" (mv.rs:8), "Copy
\* SOURCE to DEST" (cp.rs:8): what the sources held is on the disk afterwards.
SourcesSurvive ==
    [][answer'.op \in {"cp", "mv", "ln", "install"} /\ answer'.ok =>
         \A p \in Range(answer'.from) :
            Read(disk, p) # NoPath => \E q \in Path : Read(disk', q) = Read(disk, p)]_vars
=============================================================================
