----------------------------- MODULE MCRelease -----------------------------
\* Two commits, which nothing tells apart, and two toolchains, of which one is
\* locked.
EXTENDS Release, TLC
CONSTANTS c1, c2, t1, t2
MCCommits == {c1, c2}
MCTools == {t1, t2}
MCSymmetry == Permutations(MCCommits)
=============================================================================
