----------------------------- MODULE MCProcesses ------------------------------
(* A small instance of Connection: readers with names of one and two       *)
(* characters, so that a list can have the size of another one.            *)
EXTENDS Processes

CONSTANTS r1, r2

Names == [r \in {r1, r2} |-> IF r = r1 THEN <<"a">> ELSE <<"b", "c">>]
=============================================================================
