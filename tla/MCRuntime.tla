----------------------------- MODULE MCRuntime -----------------------------
EXTENDS Runtime, TLC

CONSTANTS t1, t2

\* Two upgrades of the runtime, one of them on one fork only.
MCParent  == <<1, 1, 2, 2>>
MCNumber  == <<0, 1, 2, 2>>
MCVersion == <<1, 2, 3, 2>>

\* The block after the upgrade is the first one decoded with the new version.
MCKnown == <<[number |-> 0, version |-> 1], [number |-> 2, version |-> 2], [number |-> 3, version |-> 3]>>

MCAsks == {AtStartup, [by |-> "number", of |-> 2], ByHead}

Alike == Permutations(Tasks)
=============================================================================
