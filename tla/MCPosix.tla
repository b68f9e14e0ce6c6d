------------------------------ MODULE MCPosix ------------------------------
(* Small instances of the POSIX runner. *)
EXTENDS TdoPosixProperties

\* The second test has fixtures of both kinds, not in the order they run in.
MixedFixtures == [t \in Tests |-> IF t = 2 THEN <<"after", "before", "before">>
                                  ELSE <<>>]
NoFixtures == [t \in Tests |-> <<>>]
Quiet == [k \in Streams |-> 0]
OneLine == [k \in Streams |-> IF k = "out" THEN 1 ELSE 0]
=============================================================================
