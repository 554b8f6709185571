----------------------------- MODULE MCUserSync -----------------------------
EXTENDS UserSync

CONSTANTS p1, p2, c1

MCProducers == {p1, p2}
MCConsumers == {c1}
MCThreads == {p1, p2, c1}
MCWords == {"mutex", "cond"}
MCValues == 0..MaxSeq

\* Both words share a bucket.
MCBucketOf(k) == 0
=============================================================================
