------------------------------ MODULE MCConnect ------------------------------
\* Two spellings of one name, a server, and a default distribution that has no
\* name to be saved under.
EXTENDS Connect

Spellings == [n \in Names |-> IF n = "Home" THEN "home" ELSE n]
=============================================================================
