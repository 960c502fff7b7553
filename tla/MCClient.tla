------------------------------ MODULE MCClient ------------------------------
(* Small instances of App.tla for TLC.                                     *)
EXTENDS App

CONSTANTS u1, u2

TwoDefaults == <<u1, u2>>

\* http://localhost:8080/api and http://192.168.1.10:8080/api.
Digits == [url \in {u1, u2} |-> IF url = u1 THEN 8080 ELSE 192]
=============================================================================
