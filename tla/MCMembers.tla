------------------------------ MODULE MCMembers ------------------------------
\* An instance of Members that TLC can check.
EXTENDS Members, TLC

\* Clients, overlapping pushes, names and addresses are interchangeable.
Symmetric == Permutations(Clients) \cup Permutations(Pushers)
             \cup Permutations(Names) \cup Permutations(Emails)
=============================================================================
