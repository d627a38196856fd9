---------------------------- MODULE MCSessionAuth ----------------------------
(***************************************************************************)
(* SessionAuth for TLC: the deque keeps two sessions instead of eight, so  *)
(* that two connections can evict one.                                     *)
(***************************************************************************)
EXTENDS SessionAuth, FiniteSets, TLC

RecentSessions == 2

\* Enough nonces that an unused one is left whatever is kept and in use.
Nonces == 1..(RecentSessions + Cardinality(Conn) + 2)
=============================================================================
