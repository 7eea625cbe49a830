--------------------------- MODULE MCVaultServer ---------------------------
(* VaultServer for TLC: the image files the operator placed on disk.       *)
EXTENDS VaultServer, TLC

\* A path is a directory and a name, which a configuration cannot write down:
\* one image, the first name's in the first directory.
MCPreexisting == {CHOOSE p \in Paths : TRUE}

Symmetric == Permutations(Tasks \ Deleters)

=============================================================================
