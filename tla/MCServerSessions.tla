----------------------------- MODULE MCServerSessions -----------------------------
(* ServerSessions for TLC: two programs from an empty server on, each of   *)
(* which may say that it leaves; from a full lobby on one program more.    *)
EXTENDS ServerSessions

TwoPrograms == [starts |-> 2, quits |-> 2]
OneMore == [starts |-> 1, quits |-> 0]

=============================================================================
