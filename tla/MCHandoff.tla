---- MODULE MCHandoff ----
EXTENDS Handoff, TLC
CONSTANTS c1, c2, c3, h1, h2, h3, h4
AnyCaller == Permutations({c1, c2, c3})
====
