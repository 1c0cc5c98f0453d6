----------------------------- MODULE MCFileTree -----------------------------
(***************************************************************************)
(* FileTree on a remote drive with nested directories, an empty file that  *)
(* gets content, a name that is stored twice, and the files of gocryptfs   *)
(* that are not part of the plaintext.                                     *)
(***************************************************************************)
EXTENDS FileTree, TLC

CONSTANTS w1, w2

\* goroutines are interchangeable
Symmetry == Permutations(Workers)

Layout == INSTANCE ContentEnc WITH plainBS <- 4096, IVLen <- 16, AuthTagLen <- 16

MCPlainSize(cipherSize) == Layout!CipherSizeToPlainSize(cipherSize)

E(name, plain, dir, size) == [name |-> name, plain |-> plain, dir |-> dir, size |-> size]

DirIV == E("gocryptfs.diriv", None, FALSE, 16)

\* /d/e/h, which is empty
Before ==
    (<<>> :> [iv |-> 1, list |-> <<E("gocryptfs.conf", None, FALSE, 400), DirIV,
                                   E("D", "d", TRUE, 4096)>>]) @@
    (<<"D">> :> [iv |-> 2, list |-> <<DirIV, E("E", "e", TRUE, 4096)>>]) @@
    (<<"D", "E">> :> [iv |-> 3, list |-> <<E("H", "h", FALSE, 0), DirIV>>])

\* /d/e/h has two blocks
Written == [Before EXCEPT ![<<"D", "E">>].list = <<E("H", "h", FALSE, 5000), DirIV>>]

\* Another /d/e has taken the place of the first: the names that were read from it are
\* gone, and two names that decode to the same bytes are stored in it.
Replaced ==
    [Written EXCEPT ![<<"D", "E">>] =
        [iv |-> 4, list |-> <<DirIV, E("H2", "h", FALSE, 55), E("H3", "h", FALSE, 0)>>]]

MCDrive == <<Before, Written, Replaced>>

MCPaths == {<<>>, <<"d">>, <<"d", "e">>, <<"d", "e", "h">>}

====
