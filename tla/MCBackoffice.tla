---------------------------- MODULE MCBackoffice ----------------------------
EXTENDS Backoffice, FiniteSetsExt

MCEdits == {<<"content", "update">>}

\* No two records of one date, or the second and the third.
MCCalendars ==
  LET order == CHOOSE f \in [Records -> 1 .. Cardinality(Records)] : Lists!IsInjective(f)
  IN  {order, [r \in Records |-> IF order[r] = 3 THEN 2 ELSE order[r]]}

=============================================================================
