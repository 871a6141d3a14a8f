----------------------------- MODULE StorageOwner ---------------------------
(***************************************************************************)
(* The worker's claim on its durable storage: a file beside the database   *)
(* that names the owner.  A worker removes the file of an owner it takes   *)
(* for dead and creates its own; closing the storage removes the file.     *)
(***************************************************************************)
EXTENDS Naturals, FiniteSets

CONSTANTS Workers, NoWorker

ASSUME NoWorkerOK == NoWorker \notin Workers

VARIABLES
    claim,        \* what every worker is doing
    ownerFile,    \* the file: who created it and whether its content is there
    displaced     \* a live worker's file was removed by another one

ownerVars == <<claim, ownerFile, displaced>>

NoFile == [by |-> NoWorker, filled |-> FALSE]
OwnerInit == claim = [w \in Workers |-> "new"] /\ ownerFile = NoFile /\ displaced = FALSE

Claims(w, from, to) == claim[w] = from /\ claim' = [claim EXCEPT ![w] = to]
Alive(w) == claim[w] \notin {"killed"}

(* Content that cannot be parsed counts as stale, as does a dead owner. *)
FindOwner(w) ==
    /\ \/ ownerFile = NoFile /\ Claims(w, "new", "creating")
       \/ /\ ownerFile # NoFile
          /\ IF ownerFile.filled /\ Alive(ownerFile.by) THEN Claims(w, "new", "refused")
                                                         ELSE Claims(w, "new", "removing")
    /\ UNCHANGED <<ownerFile, displaced>>

RemoveStale(w) ==
    /\ Claims(w, "removing", "creating")
    /\ displaced' = (displaced \/ (ownerFile # NoFile /\ Alive(ownerFile.by)))
    /\ ownerFile' = NoFile

(* Mutant: not exclusively. *)
CreateOwnerOver(w) ==
    /\ Claims(w, "creating", "filling")
    /\ ownerFile' = [by |-> w, filled |-> FALSE]
    /\ UNCHANGED displaced

(* The file is created exclusively, then written. *)
CreateOwner(w) ==
    /\ IF ownerFile = NoFile
       THEN Claims(w, "creating", "filling") /\ ownerFile' = [by |-> w, filled |-> FALSE]
       ELSE Claims(w, "creating", "refused") /\ UNCHANGED ownerFile
    /\ UNCHANGED displaced

FillOwner(w) ==
    /\ Claims(w, "filling", "owner")
    /\ ownerFile' = IF ownerFile.by = w THEN [ownerFile EXCEPT !.filled = TRUE] ELSE ownerFile
    /\ UNCHANGED displaced

(* Closing the storage, or failing to open it, removes whatever file is there. *)
ReleaseOwner(w) ==
    /\ Claims(w, "owner", "new")
    /\ ownerFile' = NoFile
    /\ displaced' = (displaced \/ (ownerFile # NoFile /\ ownerFile.by # w /\ Alive(ownerFile.by)))

Retries(w) == Claims(w, "refused", "new") /\ UNCHANGED <<ownerFile, displaced>>
KillOwner(w) ==
    /\ \E v \in Workers \ {w} : Alive(v)
    /\ Alive(w) /\ claim' = [claim EXCEPT ![w] = "killed"]
    /\ UNCHANGED <<ownerFile, displaced>>

OwnerStep ==
    \E w \in Workers : FindOwner(w) \/ RemoveStale(w) \/ CreateOwner(w) \/ FillOwner(w)
                       \/ ReleaseOwner(w) \/ Retries(w) \/ KillOwner(w)

OwnerSpec == OwnerInit /\ [][OwnerStep]_ownerVars

(* Two live workers own one storage only after one has removed the other's
   file: kills at any point, refusals and releases alone never lead there. *)
OneOwner == displaced \/ Cardinality({w \in Workers : claim[w] = "owner"}) <= 1
=============================================================================
