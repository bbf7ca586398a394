---- MODULE MCWriterStore ----
EXTENDS WriterStore, TLC
Sym == Permutations(Writers) \cup Permutations(Writes)
====
