------------------------------- MODULE MCRmrf -------------------------------
EXTENDS Rmrf, TLC

\* Bound: files are created only in trees without a name "*".
NotBoth == (\E n \in Old : name[n] = "star") => born = Old

Symmetry == Permutations(Actor)
=============================================================================
