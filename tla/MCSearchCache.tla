---------------------------- MODULE MCSearchCache ----------------------------
EXTENDS SearchCache

Symmetric == Permutations(Searcher) \cup Permutations(Writer) \cup Permutations(Key)
=============================================================================
