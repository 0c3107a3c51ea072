---- MODULE MCDigestJobs ----
EXTENDS DigestJobs
CONSTANTS s1, d1
LongAgo == [e \in {s1} |-> -1]
====
