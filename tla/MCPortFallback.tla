---------------------------- MODULE MCPortFallback ----------------------------
EXTENDS PortFallback, TLC

CONSTANTS s1, s2

\* s1 is started with every kind of window: cut off by its limit or by the last
\* port, or beginning with any free port; s2 is a neighbour that is started
\* again while it runs.
MCInitialPorts == (s1 :> {0, 1, 3}) @@ (s2 :> {2})
MCAttemptLimits == (s1 :> {0, 2}) @@ (s2 :> {1})
=============================================================================
