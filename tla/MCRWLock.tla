------------------------------ MODULE MCRWLock ------------------------------
\* Model checking of RWLock: three threads that lock up to MaxDepth deep; the
\* holder table starts with one slot, so that it has to grow.
EXTENDS RWLock
==============================================================================
