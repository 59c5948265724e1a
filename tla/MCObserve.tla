------------------------------- MODULE MCObserve -------------------------------
\* Observe on a blob of three chunks whose last one is half full.
EXTENDS Observe

MCLeaves == {{0}, {1}, {2}, {0, 1}}

===============================================================================
