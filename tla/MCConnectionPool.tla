--------------------------- MODULE MCConnectionPool ---------------------------
(* Model values for the runs of ConnectionPool. *)
EXTENDS ConnectionPool

CONSTANTS b1, b2, c1, c2

TwoBorrowers == {b1, b2}
OneConn == {1}
TwoConns == {1, 2}
OneOrTwoConns == {OneConn, TwoConns}
OnlyTwoConns == {TwoConns}

\* Two closers of the pool of one connection, one of the pool of two.
TwoOrOneCloser == [S \in OneOrTwoConns |-> IF S = OneConn THEN {c1, c2} ELSE {c1}]
=============================================================================
