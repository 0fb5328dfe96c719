------------------------------ MODULE MCOrderMail ------------------------------
(* Small instances of OrderMail for TLC. *)
EXTENDS OrderMail

CONSTANTS r1, r2, h1, h2
================================================================================
