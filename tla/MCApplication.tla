--------------------------- MODULE MCApplication ---------------------------
EXTENDS Application

\* Below, at and above zero, and a number of seconds that is negative in nanoseconds.
MCNumber == {-1, 0, 3, 600}
=============================================================================
