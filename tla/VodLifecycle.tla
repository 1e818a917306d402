---------------------------- MODULE VodLifecycle ----------------------------
(***************************************************************************)
(* What the recording coordinator promises about a recording, abstractly:  *)
(* the lifecycle table of spec section 4.D.  A recording id is reserved    *)
(* by start, moves forward through recording, processing and ready, may    *)
(* be published only when ready, and once deleted (by delete, by the      *)
(* rollback of a failed encoder start, or by the expiry sweep) it never    *)
(* comes back.                                                             *)
(***************************************************************************)
CONSTANT Ids

VARIABLES status, public

Live == {"recording", "processing", "ready"}

Init ==
    /\ status = [i \in Ids |-> "none"]
    /\ public = [i \in Ids |-> FALSE]

Start(i) ==
    /\ status[i] = "none"
    /\ status' = [status EXCEPT ![i] = "recording"]
    /\ UNCHANGED public

Stop(i) ==
    /\ status[i] = "recording"
    /\ status' = [status EXCEPT ![i] = "processing"]
    /\ UNCHANGED public

PostProcess(i) ==
    /\ status[i] = "processing"
    /\ status' = [status EXCEPT ![i] = "ready"]
    /\ UNCHANGED public

Publish(i) ==
    /\ status[i] = "ready"
    /\ public' = [public EXCEPT ![i] = TRUE]
    /\ UNCHANGED status

\* A delete removes one recording; the expiry sweep several at once.
Remove(S) ==
    /\ S # {}
    /\ \A i \in S : status[i] \in Live
    /\ status' = [i \in Ids |-> IF i \in S THEN "deleted" ELSE status[i]]
    /\ public' = [i \in Ids |-> public[i] /\ i \notin S]

Next ==
    \/ \E i \in Ids : Start(i) \/ Stop(i) \/ PostProcess(i) \/ Publish(i)
    \/ \E S \in SUBSET Ids : Remove(S)

Spec == Init /\ [][Next]_<<status, public>>
=============================================================================
