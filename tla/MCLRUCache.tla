----------------------------- MODULE MCLRUCache -----------------------------
(* LRUCache on small instances. *)
EXTENDS LRUCache

\* Workers and keys are interchangeable.
Interchangeable == Permutations(Workers) \cup Permutations(Keys)
=============================================================================
