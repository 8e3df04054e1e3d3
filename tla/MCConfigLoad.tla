---------------------------- MODULE MCConfigLoad -----------------------------
(* Every key of the configuration.                                         *)
EXTENDS ConfigLoad

MCkeys == Numbers \cup Bools \cup Texts
=============================================================================
