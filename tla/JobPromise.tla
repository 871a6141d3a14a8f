----------------------------- MODULE JobPromise -----------------------------
(***************************************************************************)
(* What the document mode promises about one document, whatever happens    *)
(* inside the worker: at most one job is being translated; the sections    *)
(* its agents submit accumulate and survive a failure; it is published     *)
(* whole, once, or not at all; a failed job may be continued, a cancelled  *)
(* one starts over as a new job (README.md and docs/document-translation). *)
(***************************************************************************)
CONSTANTS Jobs, Sections

VARIABLES status, submitted

vars == <<status, submitted>>

Init ==
    /\ status = [j \in Jobs |-> "none"]
    /\ submitted = [j \in Jobs |-> {}]

Become(j, from, to) ==
    /\ status[j] = from
    /\ status' = [status EXCEPT ![j] = to]

Start(j) ==
    /\ \A i \in Jobs : status[i] # "running"
    /\ Become(j, "none", "running")
    /\ UNCHANGED submitted

SubmitSections(j) ==
    /\ status[j] = "running"
    /\ \E more \in SUBSET Sections :
          submitted' = [submitted EXCEPT ![j] = @ \cup more]
    /\ UNCHANGED status

Fail(j) == Become(j, "running", "failed") /\ UNCHANGED submitted

Continue(j) ==
    /\ \A i \in Jobs : status[i] # "running"
    /\ Become(j, "failed", "running")
    /\ UNCHANGED submitted

Publish(j) ==
    /\ submitted[j] = Sections
    /\ Become(j, "running", "succeeded")
    /\ UNCHANGED submitted

Cancel(j) ==
    /\ Become(j, "running", "cancelled")
    /\ submitted' = [submitted EXCEPT ![j] = {}]

Next == \E j \in Jobs :
    Start(j) \/ SubmitSections(j) \/ Fail(j) \/ Continue(j) \/ Publish(j) \/ Cancel(j)

Spec == Init /\ [][Next]_vars
=============================================================================
