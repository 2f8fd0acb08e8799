----------------------------- MODULE MCReceipt -----------------------------
EXTENDS Receipt

CONSTANTS r1, r2

\* Extrinsics that succeed, with and without TransactionFeePaid, that fail in each
\* of the three ways, and that succeed after the call they carry was rejected in
\* each of them.
MCHistories ==
  {<<"deposit", "success">>, <<"feepaid", "deposit", "success">>}
    \cup {<<"deposit", kind>> : kind \in Failures}
    \cup {<<kind, "deposit", "success">> : kind \in Failures}
=============================================================================
