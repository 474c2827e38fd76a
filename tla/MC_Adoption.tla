---- MODULE MC_Adoption ----
EXTENDS Adoption, TLC
CONSTANTS p1, p2, m, c1, r1, r2, none
\* One model to adopt, one category that both parents have.
Owner == [x \in {m} |-> p1]
Copies == [p \in {p1, p2} |-> {c1}]
Interchangeable == Permutations({r1, r2})
====
