----------------------------- MODULE MCSftpKeys -----------------------------
(* Small instances of SftpKeys: all lists of at most three keys. *)
EXTENDS SftpKeys, TLC

ListsUpToThree == UNION {[1..n -> Keys] : n \in 0..3}

Renamings == Permutations(Keys)
=============================================================================
