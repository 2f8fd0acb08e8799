---------------------------- MODULE MCInterface ----------------------------
EXTENDS Interface

CONSTANTS t1, t2, t3

\* One signs without a nonce beside each kind of other call.
OneAuto == {[t \in Tasks |-> IF t = t1 THEN "auto" ELSE second] : second \in Kinds}

AllGiven == {[t \in Tasks |-> "given"]}
=============================================================================
