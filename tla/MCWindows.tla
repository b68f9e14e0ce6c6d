----------------------------- MODULE MCWindows -----------------------------
(* Small instances of the Windows runner. *)
EXTENDS TdoWindowsProperties

\* Test 2 hangs before its first line, so its slot stays taken while the other is
\* used again; sound for what is claimed up to reconnected.
OneHangs == ~reconnected /\ proc[2].step = NoStep
NoFixtures == [t \in Tests |-> <<>>]
Quiet == [k \in Streams |-> 0]
OneLine == [k \in Streams |-> IF k = "out" THEN 1 ELSE 0]
=============================================================================
