---------------------------- MODULE MCThreadPool ----------------------------
\* Model checking of ThreadPool: two clients, jobs that may submit jobs, pools
\* of one and two threads and a growing pool (one thread per job at most).
EXTENDS ThreadPool
==============================================================================
