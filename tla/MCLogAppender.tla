---------------------------- MODULE MCLogAppender ----------------------------
\* Model checking of LogAppender: two threads that send four messages in all, two
\* periods of the rolling file, a buffer of two messages and one failure to open
\* a file; and, in MCLogAppenderCannotOpen.cfg, one thread, one message, one period
\* and three failures.
EXTENDS LogAppender
==============================================================================
