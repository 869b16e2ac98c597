--------------------------- MODULE MCSessionStore ---------------------------
EXTENDS SessionStore, TLC

CONSTANTS r1, r2, r3, m1

MCRequests == {r1, r2, r3}
MCMatters == {m1}

\* Requests differ only in what they turn out to ask for.
Symmetry == Permutations(MCRequests)
=============================================================================
