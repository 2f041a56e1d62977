----------------------------- MODULE MCPakLock -----------------------------
(* PakLock with processes and items that are interchangeable.              *)
EXTENDS PakLock, TLC

Symmetry == Permutations(Proc) \cup Permutations(Inode) \cup Permutations(Item)
=============================================================================
