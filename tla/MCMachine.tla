----------------------------- MODULE MCMachine -----------------------------
(* An instance of Machine for TLC: one file and one terminal.                *)
EXTENDS Machine

MCFiles == {"image"}
MCTerminals == {"terminal"}
=============================================================================
