-------------------------- MODULE SharedFiles_proofs ---------------------------
(***************************************************************************)
(* Proofs about the protocols that keep two processes out of one thing:    *)
(* the claim on the worker's storage, SwarmForge's directory lock with the *)
(* numbers it protects, and the audit gate; for any number of processes,   *)
(* drafts and commits.                                                     *)
(***************************************************************************)
EXTENDS StorageOwner, DirLock, AuditGate, FiniteSetTheorems, TLAPS

\* A set without two different elements has at most one.
LEMMA AtMostOne ==
    ASSUME NEW S, \A x, y \in S : x = y
    PROVE  IsFiniteSet(S) /\ Cardinality(S) <= 1
<1>1. CASE S = {}
    BY <1>1, FS_EmptySet
<1>2. CASE S # {}
    <2>1. PICK x \in S : TRUE
        BY <1>2
    <2>2. S = {x}
        BY <2>1
    <2>3. IsFiniteSet(S) /\ Cardinality(S) = 1
        BY <2>2, FS_Singleton, Zenon
    <2> QED BY <2>3
<1> QED BY <1>1, <1>2

-----------------------------------------------------------------------------
(* The claim on the storage. *)

OwnerTypes ==
    /\ claim \in [Workers -> {"new", "removing", "creating", "refused", "filling", "owner", "killed"}]
    /\ ownerFile \in [by : Workers \cup {NoWorker}, filled : BOOLEAN]
    /\ displaced \in BOOLEAN

\* Until a live worker's file has been removed, whoever holds the storage is
\* named by the file.
HolderIsNamed ==
    ~displaced => \A w \in Workers : claim[w] \in {"filling", "owner"} => ownerFile.by = w

OwnerInv == OwnerTypes /\ HolderIsNamed

\* Nobody owns the storage at the start.
LEMMA OwnerInitially == OwnerInit => OwnerInv
<1>1. NoFile \in [by : Workers \cup {NoWorker}, filled : BOOLEAN]
    BY Zenon DEF NoFile
<1> QED BY <1>1 DEF OwnerInit, OwnerInv, OwnerTypes, HolderIsNamed

\* The invariant of the ownership is inductive.
LEMMA OwnerStepKeeps == ASSUME OwnerInv, [OwnerStep]_ownerVars PROVE OwnerInv'
<1> USE NoWorkerOK DEF OwnerInv, OwnerTypes, HolderIsNamed, NoFile, Claims, Alive
<1>1. CASE UNCHANGED ownerVars
    BY <1>1 DEF ownerVars
<1>2. ASSUME NEW w \in Workers, FindOwner(w) PROVE OwnerInv'
    BY <1>2 DEF FindOwner
<1>3. ASSUME NEW w \in Workers, RemoveStale(w) PROVE OwnerInv'
    BY <1>3 DEF RemoveStale
<1>4. ASSUME NEW w \in Workers, CreateOwner(w) PROVE OwnerInv'
    <2>1. CASE ownerFile = NoFile
        <3>1. ownerFile' = [by |-> w, filled |-> FALSE]
            BY <1>4, <2>1 DEF CreateOwner
        <3>2. ownerFile' \in [by : Workers \cup {NoWorker}, filled : BOOLEAN]
            BY <3>1, Zenon
        <3>3. ownerFile'.by = w
            BY <3>1
        <3> QED BY <1>4, <2>1, <3>2, <3>3 DEF CreateOwner
    <2>2. CASE ownerFile # NoFile
        BY <1>4, <2>2 DEF CreateOwner
    <2> QED BY <2>1, <2>2
<1>5. ASSUME NEW w \in Workers, FillOwner(w) PROVE OwnerInv'
    BY <1>5 DEF FillOwner
<1>6. ASSUME NEW w \in Workers, ReleaseOwner(w) PROVE OwnerInv'
    BY <1>6 DEF ReleaseOwner
<1>7. ASSUME NEW w \in Workers, Retries(w) PROVE OwnerInv'
    BY <1>7 DEF Retries
<1>8. ASSUME NEW w \in Workers, KillOwner(w) PROVE OwnerInv'
    BY <1>8 DEF KillOwner
<1> QED BY <1>1, <1>2, <1>3, <1>4, <1>5, <1>6, <1>7, <1>8 DEF OwnerStep

\* However many workers start, stop and are killed in whatever order, two of
\* them own one storage only after one has removed a live one's file
\* (storage.ts:47).
THEOREM StorageHasOneOwner == OwnerSpec => []OneOwner
<1>1. OwnerInv => OneOwner
    <2> SUFFICES ASSUME OwnerInv, ~displaced
                 PROVE  Cardinality({w \in Workers : claim[w] = "owner"}) <= 1
        BY DEF OneOwner
    <2>1. \A v, w \in {u \in Workers : claim[u] = "owner"} : v = w
        BY DEF OwnerInv, HolderIsNamed
    <2> QED BY <2>1, AtMostOne
<1>2. OwnerInv /\ [OwnerStep]_ownerVars => OwnerInv'
    BY OwnerStepKeeps
<1> QED BY OwnerInitially, <1>1, <1>2, PTL DEF OwnerSpec

-----------------------------------------------------------------------------
(* The directory lock. *)

LockTypes ==
    /\ lockStep \in [Procs -> {"trying", "made", "naming", "reclaiming", "holding",
                               "counting", "writing", "leaving", "done", "dead", "failed"}]
    /\ lockDir \in [by : Procs \cup {Nobody}, owner : Procs \cup {Nobody}, temps : SUBSET Procs]
    /\ number \in Nat
    /\ drawn \in [Procs -> Nat]
    /\ lockHurt \subseteq {"usurped", "torn"}

\* Whoever is between taking and leaving the lock made the directory that is
\* there, and named itself in it.
Inside == {"holding", "counting", "writing", "leaving"}
DirIsMine ==
    \A p \in Procs :
        /\ lockStep[p] = "made" => lockDir = [by |-> p, owner |-> Nobody, temps |-> {}]
        /\ lockStep[p] = "naming" => lockDir = [by |-> p, owner |-> Nobody, temps |-> {p}]
        /\ lockStep[p] \in Inside => lockDir = [by |-> p, owner |-> p, temps |-> {}]

\* The numbers given out are at most the number in the file, or, while it is
\* being written, less than the one it will hold.
Drew(p) == lockStep[p] \in {"leaving", "done"}
NumberIsLast ==
    /\ (\A p \in Procs : lockStep[p] # "writing") => \A q \in Procs : Drew(q) => drawn[q] <= number
    /\ \A p \in Procs : lockStep[p] = "counting" => drawn[p] = number + 1
    /\ \A p, q \in Procs : lockStep[p] = "writing" /\ Drew(q) => drawn[q] < drawn[p]

AllDiffer == \A p, q \in Procs : p # q /\ Drew(p) /\ Drew(q) => drawn[p] # drawn[q]

LockInv == LockTypes /\ (lockHurt = {} => DirIsMine /\ NumberIsLast /\ AllDiffer)

\* Nobody holds the lock at the start.
LEMMA LockInitially == LockInit => LockInv
BY DEF LockInit, LockInv, LockTypes, DirIsMine, NumberIsLast, AllDiffer, Drew, Inside, NoDir

\* Nobody else is between taking and leaving the lock, and the lock of who is
\* there is not taken for abandoned.
LEMMA OneInside ==
    ASSUME LockTypes, DirIsMine, NEW p \in Procs, lockStep[p] \in Inside \cup {"made", "naming"}
    PROVE  /\ \A q \in Procs \ {p} : lockStep[q] \notin Inside \cup {"made", "naming"}
           /\ lockDir # NoDir /\ ~LockStale
BY NobodyOK DEF LockTypes, DirIsMine, Inside, NoDir, LockStale, Dead

\* The invariant of the lock is inductive.
LEMMA LockStepKeeps == ASSUME LockInv, [LockNext]_lockVars PROVE LockInv'
<1> USE NobodyOK DEF LockGoes
<1>1. LockTypes'
    <2> USE DEF LockInv, LockTypes, NoDir
    <2>1. CASE UNCHANGED lockVars
        BY <2>1 DEF lockVars
    <2>2. CASE \E p \in Procs : TryCreate(p)
        BY <2>2 DEF TryCreate
    <2>3. CASE \E p \in Procs : FindStale(p)
        BY <2>3 DEF FindStale
    <2>4. CASE \E p \in Procs : Reclaim(p)
        BY <2>4 DEF Reclaim
    <2>5. CASE \E p \in Procs : WriteOwner(p)
        <3>1. PICK p \in Procs : WriteOwner(p)
            BY <2>5
        <3>2. lockStep' \in [Procs -> {"trying", "made", "naming", "reclaiming", "holding",
                               "counting", "writing", "leaving", "done", "dead", "failed"}]
            BY <3>1 DEF WriteOwner
        <3>3. lockDir' \in [by : Procs \cup {Nobody}, owner : Procs \cup {Nobody}, temps : SUBSET Procs]
            <4>1. CASE lockDir' = NoDir
                BY <4>1
            <4>2. CASE lockDir' = [lockDir EXCEPT !.owner = p, !.temps = @ \ {p}]
                BY <4>2
            <4>3. CASE lockDir' = [lockDir EXCEPT !.by = IF lockDir = NoDir THEN p ELSE @,
                                                  !.temps = @ \cup {p}]
                BY <4>3
            <4> QED BY <3>1, <4>1, <4>2, <4>3 DEF WriteOwner
        <3> QED BY <3>1, <3>2, <3>3 DEF WriteOwner
    <2>6. CASE \E p \in Procs : ReadNumber(p)
        BY <2>6 DEF ReadNumber
    <2>7. CASE \E p \in Procs : WriteNumber(p)
        BY <2>7 DEF WriteNumber
    <2>8. CASE \E p \in Procs : Release(p)
        BY <2>8 DEF Release
    <2>9. CASE \E p \in Procs : Die(p)
        BY <2>9 DEF Die
    <2> QED BY <2>1, <2>2, <2>3, <2>4, <2>5, <2>6, <2>7, <2>8, <2>9 DEF LockNext, LockFair, LockProgress
<1>2. ASSUME lockHurt' = {} PROVE DirIsMine' /\ NumberIsLast' /\ AllDiffer'
    <2>1. lockHurt = {}
        BY <1>2 DEF LockNext, LockFair, LockProgress, TryCreate, FindStale, Reclaim, WriteOwner,
                    ReadNumber, WriteNumber, Release, Die, lockVars
    <2>2. LockTypes /\ DirIsMine /\ NumberIsLast /\ AllDiffer
        BY <2>1 DEF LockInv
    <2> USE <2>2
    <2>3. CASE UNCHANGED lockVars
        BY <2>3 DEF lockVars, DirIsMine, NumberIsLast, AllDiffer, Drew
    <2>4. ASSUME NEW p \in Procs, TryCreate(p) PROVE DirIsMine' /\ NumberIsLast' /\ AllDiffer'
        <3>1. \A q \in Procs : lockStep[q] \notin Inside \cup {"made", "naming"}
            BY <2>4, OneInside DEF TryCreate
        <3>2. lockDir' = [by |-> p, owner |-> Nobody, temps |-> {}]
            BY <2>4 DEF TryCreate, NoDir
        <3> QED BY <2>4, <3>1, <3>2 DEF TryCreate, LockTypes, DirIsMine, NumberIsLast, AllDiffer, Drew, Inside
    <2>5. ASSUME NEW p \in Procs, FindStale(p) PROVE DirIsMine' /\ NumberIsLast' /\ AllDiffer'
        BY <2>5 DEF FindStale, LockTypes, DirIsMine, NumberIsLast, AllDiffer, Drew, Inside
    <2>6. ASSUME NEW p \in Procs, Reclaim(p) PROVE DirIsMine' /\ NumberIsLast' /\ AllDiffer'
        <3>1. \A q \in Procs : lockStep[q] \notin Inside \cup {"made", "naming"}
            BY <1>2, <2>6, OneInside DEF Reclaim
        <3> QED BY <2>6, <3>1 DEF Reclaim, LockTypes, DirIsMine, NumberIsLast, AllDiffer, Drew, Inside
    <2>7. ASSUME NEW p \in Procs, WriteOwner(p) PROVE DirIsMine' /\ NumberIsLast' /\ AllDiffer'
        <3>1. /\ lockStep[p] \in {"made", "naming"} /\ lockDir # NoDir
              /\ \A q \in Procs \ {p} : lockStep[q] \notin Inside \cup {"made", "naming"}
            BY <2>7, OneInside DEF WriteOwner
        <3>2. CASE lockStep[p] = "made"
            <4>1. lockDir = [by |-> p, owner |-> Nobody, temps |-> {}]
                BY <3>2 DEF DirIsMine
            <4>2. lockStep' = [lockStep EXCEPT ![p] = "naming"]
                BY <2>7, <3>2 DEF WriteOwner
            <4>3. lockDir' = [by |-> p, owner |-> Nobody, temps |-> {p}]
                BY <2>7, <3>1, <3>2, <4>1 DEF WriteOwner
            <4> QED BY <2>7, <3>1, <3>2, <4>2, <4>3 DEF WriteOwner, LockTypes, DirIsMine, NumberIsLast, AllDiffer, Drew, Inside
        <3>3. CASE lockStep[p] = "naming"
            <4>1. lockDir = [by |-> p, owner |-> Nobody, temps |-> {p}]
                BY <3>3 DEF DirIsMine
            <4>2. lockStep' = [lockStep EXCEPT ![p] = "holding"]
                BY <2>7, <3>3, <4>1 DEF WriteOwner
            <4>3. lockDir' = [by |-> p, owner |-> p, temps |-> {}]
                BY <2>7, <3>3, <4>1 DEF WriteOwner
            <4> QED BY <2>7, <3>1, <3>3, <4>2, <4>3 DEF WriteOwner, LockTypes, DirIsMine, NumberIsLast, AllDiffer, Drew, Inside
        <3> QED BY <3>1, <3>2, <3>3
    <2>8. ASSUME NEW p \in Procs, ReadNumber(p) PROVE DirIsMine' /\ NumberIsLast' /\ AllDiffer'
        <3>1. \A q \in Procs \ {p} : lockStep[q] \notin Inside \cup {"made", "naming"}
            BY <2>8, OneInside DEF ReadNumber, Inside
        <3> QED BY <2>8, <3>1 DEF ReadNumber, LockTypes, DirIsMine, NumberIsLast, AllDiffer, Drew, Inside
    <2>9. ASSUME NEW p \in Procs, WriteNumber(p) PROVE DirIsMine' /\ NumberIsLast' /\ AllDiffer'
        <3>1. \A q \in Procs \ {p} : lockStep[q] \notin Inside \cup {"made", "naming"}
            BY <2>9, OneInside DEF WriteNumber, Inside
        <3>2. CASE lockStep[p] = "counting"
            BY <2>9, <3>1, <3>2 DEF WriteNumber, LockTypes, DirIsMine, NumberIsLast, AllDiffer, Drew, Inside
        <3>3. CASE lockStep[p] = "writing"
            BY <2>9, <3>1, <3>3 DEF WriteNumber, LockTypes, DirIsMine, NumberIsLast, AllDiffer, Drew, Inside
        <3> QED BY <2>9, <3>2, <3>3 DEF WriteNumber
    <2>10. ASSUME NEW p \in Procs, Release(p) PROVE DirIsMine' /\ NumberIsLast' /\ AllDiffer'
        <3>1. \A q \in Procs \ {p} : lockStep[q] \notin Inside \cup {"made", "naming"}
            BY <2>10, OneInside DEF Release, Inside
        <3> QED BY <2>10, <3>1 DEF Release, LockTypes, DirIsMine, NumberIsLast, AllDiffer, Drew, Inside
    <2>11. ASSUME NEW p \in Procs, Die(p) PROVE DirIsMine' /\ NumberIsLast' /\ AllDiffer'
        <3>1. lockStep[p] # "writing"
            BY <1>2, <2>11 DEF Die
        <3> QED BY <2>11, <3>1 DEF Die, LockTypes, DirIsMine, NumberIsLast, AllDiffer, Drew, Inside
    <2> QED BY <2>3, <2>4, <2>5, <2>6, <2>7, <2>8, <2>9, <2>10, <2>11 DEF LockNext, LockFair, LockProgress
<1> QED BY <1>1, <1>2 DEF LockInv

\* No two processes are given one number, unless a live owner's directory was
\* renamed aside or a number left half-written (lock.ts:92).
THEOREM NumbersAreUnique == LockSpec => []NumbersUnique
<1>1. LockInv => NumbersUnique
    BY DEF LockInv, AllDiffer, Drew, NumbersUnique
<1>2. LockInv /\ [LockNext]_lockVars => LockInv'
    BY LockStepKeeps
<1> QED BY LockInitially, <1>1, <1>2, PTL DEF LockSpec

-----------------------------------------------------------------------------
(* The audit gate. *)

\* What is recorded as audited is the candidate of the run before, and of the
\* run under way once it has presented its own.
GateInv ==
    /\ command = NoRun \/ \E c : command \in {[at |-> "check", of |-> c], [at |-> "sent", of |-> c]}
    /\ audits \subseteq {before}
    /\ command # NoRun => audits \subseteq {command.of}

\* No agent has asked at the start.
LEMMA GateInitially == GateInit => GateInv
BY DEF GateInit, GateInv

\* The invariant of the gate is inductive.
LEMMA GateStepKeeps == ASSUME GateInv, [GateStep]_gateVars PROVE GateInv'
<1> USE DEF GateInv, NoRun
<1>1. CASE UNCHANGED gateVars
    BY <1>1 DEF gateVars
<1>2. ASSUME NEW d \in Drafts, Present(d) PROVE GateInv'
    BY <1>2 DEF Present
<1>3. CASE Refuse
    BY <1>3 DEF Refuse, CommandEnds
<1>4. CASE Submits
    <2>1. PICK c : command = [at |-> "check", of |-> c]
        BY <1>4 DEF Submits
    <2>2. command' = [at |-> "sent", of |-> c]
        BY <1>4, <2>1 DEF Submits
    <2> QED BY <1>4, <2>1, <2>2 DEF Submits
<1>5. CASE Forgets \/ KillCommand \/ Demands
    BY <1>5 DEF Forgets, KillCommand, Demands, CommandEnds
<1>6. CASE \/ \E c \in Commits : Recommits(c)
           \/ \E c \in queued : Delivers(c)
           \/ \E c \in active : TakesBack(c)
    BY <1>6 DEF Recommits, Delivers, TakesBack
<1> QED BY <1>1, <1>2, <1>3, <1>4, <1>5, <1>6 DEF GateStep

\* A git handoff is queued only by a run whose predecessor presented the same
\* draft at the same commit, for any drafts and commits, whatever is refused,
\* killed, delivered or taken back in between.
THEOREM AuditComesFirst == GateSpec => AuditedFirst
<1>1. GateInv /\ [GateStep]_gateVars => [queued' \subseteq queued \/ before = command.of]_gateVars
    BY DEF GateInv, GateStep, Present, Refuse, Submits, Forgets, Demands, KillCommand,
           Recommits, Delivers, TakesBack, gateVars
<1>2. GateInv /\ [GateStep]_gateVars => GateInv'
    BY GateStepKeeps
<1> QED BY GateInitially, <1>1, <1>2, PTL DEF GateSpec, AuditedFirst
=============================================================================
