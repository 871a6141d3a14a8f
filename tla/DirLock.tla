------------------------------- MODULE DirLock ------------------------------
(***************************************************************************)
(* The directory lock that SwarmForge's processes share, around the file   *)
(* of handoff numbers it protects.  A process makes the directory, names   *)
(* itself in it, draws the next number and removes the directory.  One     *)
(* that is killed leaves the directory behind; a process that waits and    *)
(* finds its owner dead renames it aside and tries again.                  *)
(***************************************************************************)
EXTENDS Naturals, FiniteSets

CONSTANTS Procs, Nobody

ASSUME NobodyOK == Nobody \notin Procs

VARIABLES
    lockStep,    \* where every process is
    lockDir,     \* the directory: who made it, whom its owner file names, and
                 \* who has written that file under a temporary name
    number,      \* the file of the last number: 0 when absent or empty
    drawn,       \* the number every process read or drew
    lockHurt     \* "usurped" once a live owner's directory was renamed aside,
                 \* "torn" once a process was killed while writing the number

lockVars == <<lockStep, lockDir, number, drawn, lockHurt>>

NoDir == [by |-> Nobody, owner |-> Nobody, temps |-> {}]
LockInit ==
    /\ lockStep = [p \in Procs |-> "trying"]
    /\ lockDir = NoDir /\ number = 0
    /\ drawn = [p \in Procs |-> 0] /\ lockHurt = {}

LockGoes(p, from, to) == lockStep[p] = from /\ lockStep' = [lockStep EXCEPT ![p] = to]
Dead(p) == lockStep[p] \in {"dead", "failed"}

TryCreate(p) ==
    /\ lockDir = NoDir
    /\ LockGoes(p, "trying", "made")
    /\ lockDir' = [NoDir EXCEPT !.by = p]
    /\ UNCHANGED <<number, drawn, lockHurt>>

(* Mutant: a directory without owner is taken for abandoned. *)
LockStaleEager == lockDir.owner # Nobody => Dead(lockDir.owner)

(* Mutant: it never is. *)
LockStaleOwned == lockDir.owner # Nobody /\ Dead(lockDir.owner)

(* An owner file counts by its process; a directory without one becomes an
   orphan with time, which a live process that is about to name itself in it
   does not let happen. *)
LockStale ==
    IF lockDir.owner # Nobody THEN Dead(lockDir.owner)
    ELSE \A q \in {lockDir.by} \cup lockDir.temps : Dead(q)

FindStale(p) ==
    /\ lockDir # NoDir /\ LockStale
    /\ LockGoes(p, "trying", "reclaiming")
    /\ UNCHANGED <<lockDir, number, drawn, lockHurt>>

(* Whatever is at the path by now is renamed aside. *)
Reclaim(p) ==
    /\ LockGoes(p, "reclaiming", "trying")
    /\ lockDir' = NoDir
    /\ lockHurt' = IF lockDir # NoDir /\ ~LockStale THEN lockHurt \cup {"usurped"} ELSE lockHurt
    /\ UNCHANGED <<number, drawn>>

(* The owner file is written under a temporary name, into a directory that is
   made once more when it has been renamed aside, and moved to its place.  If
   the directory goes away in between, the process ends with an error, and its
   exit hook removes whatever is at the path. *)
WriteOwner(p) ==
    /\ \/ /\ LockGoes(p, "made", "naming")
          /\ lockDir' = [lockDir EXCEPT !.by = IF lockDir = NoDir THEN p ELSE @, !.temps = @ \cup {p}]
       \/ /\ p \in lockDir.temps /\ LockGoes(p, "naming", "holding")
          /\ lockDir' = [lockDir EXCEPT !.owner = p, !.temps = @ \ {p}]
       \/ /\ p \notin lockDir.temps /\ LockGoes(p, "naming", "failed")
          /\ lockDir' = NoDir
    /\ UNCHANGED <<number, drawn, lockHurt>>

ReadNumber(p) ==
    /\ LockGoes(p, "holding", "counting")
    /\ drawn' = [drawn EXCEPT ![p] = number + 1]
    /\ UNCHANGED <<lockDir, number, lockHurt>>

(* The file is truncated, then written. *)
WriteNumber(p) ==
    /\ \/ LockGoes(p, "counting", "writing") /\ number' = 0
       \/ LockGoes(p, "writing", "leaving") /\ number' = drawn[p]
    /\ UNCHANGED <<lockDir, drawn, lockHurt>>

(* Whatever is at the path by now is removed. *)
Release(p) ==
    /\ LockGoes(p, "leaving", "done")
    /\ lockDir' = NoDir
    /\ UNCHANGED <<number, drawn, lockHurt>>

(* A kill leaves no time for the exit hooks; at least one process survives. *)
Die(p) ==
    /\ lockStep[p] \notin {"done", "dead", "failed"} /\ \E q \in Procs \ {p} : ~Dead(q)
    /\ lockStep' = [lockStep EXCEPT ![p] = "dead"]
    /\ lockHurt' = IF lockStep[p] = "writing" THEN lockHurt \cup {"torn"} ELSE lockHurt
    /\ UNCHANGED <<lockDir, number, drawn>>

LockProgress(p) ==
    \/ TryCreate(p) \/ FindStale(p) \/ Reclaim(p) \/ WriteOwner(p)
    \/ ReadNumber(p) \/ WriteNumber(p) \/ Release(p)
LockFair == \E p \in Procs : LockProgress(p)
LockNext == LockFair \/ \E p \in Procs : Die(p)

LockSpec == LockInit /\ [][LockNext]_lockVars

(* No two processes are given one number, across deaths inside the lock and
   the reclaiming of what they leave, unless a waiter renamed a live owner's
   directory aside or a number was left half-written. *)
NumbersUnique ==
    lockHurt = {} =>
        \A p, q \in Procs : p # q /\ {lockStep[p], lockStep[q]} \subseteq {"leaving", "done"} => drawn[p] # drawn[q]

(* A dead owner does not keep the others out: once the lock is taken, every
   process that lives on comes to draw its number, also one whose directory was
   renamed aside.  Only after that can one end with an error instead. *)
LockServes ==
    lockDir # NoDir ~>
        \A p \in Procs : \/ lockStep[p] \in {"done", "dead"}
                         \/ lockStep[p] = "failed" /\ "usurped" \in lockHurt
=============================================================================
