------------------------------ MODULE MCFiles ------------------------------
(* Disks and bounds for the TLC runs of Files.                             *)
EXTENDS Files

Paths == {<<1>>, <<2>>, <<1, 1>>, <<1, 2>>, <<2, 1>>}
Few   == {<<p>> : p \in Path} \cup {<<<<1>>, <<2>>>>, <<<<2>>, <<1, 1>>>>}

Made(f, c) ==
    [node |-> [p \in Path |-> IF p \in DOMAIN f THEN f[p] ELSE None],
     data |-> [i \in Ino |-> IF i \in DOMAIN c THEN c[i] ELSE <<>>]]
To(p) == Link([abs |-> TRUE, path |-> p])
By(p) == Link([abs |-> FALSE, path |-> p])

\* A tree with files.
Tree == Made(<<1>> :> Dir @@ <<2>> :> File(1) @@ <<1, 1>> :> File(3) @@ <<1, 2>> :> File(2),
             1 :> <<"t">> @@ 2 :> <<"t", "t">> @@ 3 :> <<"bin">>)
\* An absolute link to a file, a relative one to that link, a hard link.
Linked == Made(<<1>> :> Dir @@ <<1, 1>> :> File(1) @@ <<1, 2>> :> By(<<1>>)
                 @@ <<2>> :> To(<<1, 1>>),
               1 :> <<"t">>)
\* A link to a directory, a link that hangs, a link to itself.
Odd == Made(<<1>> :> Dir @@ <<1, 1>> :> By(<<2>>) @@ <<2>> :> To(<<1>>)
              @@ <<1, 2>> :> By(<<2>>), <<>>)
\* Two directories, one empty.
Twins == Made(<<1>> :> Dir @@ <<2>> :> Dir @@ <<1, 1>> :> File(1) @@ <<1, 2>> :> File(1)
                @@ <<2, 1>> :> To(<<1>>),
              1 :> <<"t">>)

\* A directory with a link in it of its own name, which hangs.
Hanging == Made(<<1>> :> Dir @@ <<1, 1>> :> To(<<2>>), <<>>)

\* The last command decides nothing but how many may follow.
View == <<disk, place, answer.n>>

AllDisks == {Tree, Linked, Odd, Twins, Hanging}
=============================================================================
