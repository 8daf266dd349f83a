-------------------------------- MODULE MCPool --------------------------------
\* Model checking of Pool: two clients that compete for one permit at first,
\* and pools that start empty or with more resources than permits.
EXTENDS Pool
==============================================================================
