---------------------------- MODULE MCReactions ----------------------------
(* Instantiates Reactions for TLC: two users, one room name, one reaction *)
(* type.  A minute is 3 ticks and a second 2 ticks, so with two reactions *)
(* allowed per second the spacing is 1 tick, and the per-minute cap of 2  *)
(* is reached inside one window and rolled over in the next.             *)
EXTENDS Reactions

MCTypes == {"like"}

\* Serial clients: one handler per user, so a user's requests never overlap.
MCSerialUser == [q \in Req |-> IF q = "q1" THEN "u1" ELSE "u2"]

\* Concurrent clients: both handlers send for the same user.
MCRaceUser == [q \in Req |-> "u1"]
=============================================================================
