------------------------------- MODULE MCChat -------------------------------
(* Instantiates Chat for TLC.  The .cfg files give the users, listeners,   *)
(* durations and bounds of each run.                                       *)
EXTENDS Chat, TLC

\* The users are interchangeable: every action quantifies over all of them.
MCUserSymmetry == Permutations(Users)
=============================================================================
