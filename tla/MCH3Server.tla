----------------------------- MODULE MCH3Server -----------------------------
(* A request and a response with a body each, and a second request without *)
(* either on the same connection.                                          *)
EXTENDS H3Server

CONSTANTS r1, r2

WithBody == [r \in Requests |-> IF r = r1 THEN 2 ELSE 1]
=============================================================================
