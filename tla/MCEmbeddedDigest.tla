---- MODULE MCEmbeddedDigest ----
EXTENDS EmbeddedDigest, TLC
ProcessPerms == Permutations(Processes)
====
