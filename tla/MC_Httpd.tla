------------------------------- MODULE MC_Httpd -------------------------------
EXTENDS Httpd, TLC

\* Two clients, of whom one may bypass the cache, or a client and the daily
\* collection.
MCWorkload ==
    {f \in [Child -> {"get", "bypass", "daily"}] :
        \E c \in Child : \A d \in Child \ {c} : f[d] = "get"}

Symmetry == Permutations(Child)
==============================================================================
