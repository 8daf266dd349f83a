------------------------------- MODULE MCTimer -------------------------------
\* Model checking of Timer: one client, two workers, two tasks.
EXTENDS Timer
==============================================================================
