-------------------------- MODULE MCReentrantLock --------------------------
(* Instances of ReentrantLock: two run loops and the tasks they create.    *)
EXTENDS ReentrantLock, TLC

CONSTANTS loop1, loop2, child1, child2

MCTask == {loop1, loop2, child1, child2}
MCRoot == {loop1, loop2}

Symmetry == Permutations(MCRoot) \cup Permutations({child1, child2})
=============================================================================
