------------------------------ MODULE MCBlobGc ------------------------------
(* BlobGc for TLC.                                                         *)
EXTENDS BlobGc, TLC

\* Nothing tells two blobs, holders, sweepers or clients apart.
Symmetric == Permutations(Blob) \union Permutations(Holder) \union
             Permutations(Sweeper) \union Permutations(Client)

\* For OneSweep: no period passes while a client is busy, so no read is slow.
PromptReads ==
    \A b \in Blob : row[b] \in {"new", "set"} /\ row'[b] = (IF row[b] = "new" THEN "old" ELSE "due")
                        => \A c \in Client : job[c] = Idle
=============================================================================
