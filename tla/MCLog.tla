------------------------------- MODULE MCLog ---------------------------------
(* Instances of Log for TLC: a buffer of eight characters, messages shorter *)
(* and longer than it, error texts that fit behind one, just fit, do not.   *)
EXTENDS Log

MCLens    == {3, 9}
MCErrLens == {3, 4, 5}
==============================================================================
