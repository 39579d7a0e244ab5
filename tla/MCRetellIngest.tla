--------------------------- MODULE MCRetellIngest ---------------------------
EXTENDS RetellIngest, TLC

\* Waits in units of four seconds, rounded: fewer attempts, but together shorter
\* than the breaker stays open, as 2 + 4 + 8 + 16 s are shorter than 60 s.
MCStarts == <<0, 1, 3>>

=============================================================================
