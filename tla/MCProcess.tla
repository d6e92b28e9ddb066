------------------------------ MODULE MCProcess ------------------------------
(* Process with three queries for one permit, so that some wait for it, and *)
(* two requests for a shutdown.                                             *)
EXTENDS Process, TLC

CONSTANTS q1, q2, q3, r1, r2
=============================================================================
