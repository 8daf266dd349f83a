------------------------------- MODULE MCCond -------------------------------
\* Model checking of Cond: three threads, both kinds of object.
EXTENDS Cond
==============================================================================
