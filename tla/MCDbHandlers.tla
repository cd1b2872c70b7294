---------------------------- MODULE MCDbHandlers ----------------------------
(* An instance of DbHandlers for TLC. *)
EXTENDS DbHandlers

CONSTANTS s1, s2

\* Servers have no names of their own, and the key starts alike on both.
MCInit ==
  /\ Init
  /\ conn.cfg # s2
  /\ keys[s1] = keys[s2]

MCSpec == MCInit /\ [][Next]_vars /\ \A r \in Reqs : WF_vars(Proceeds(r))
=============================================================================
