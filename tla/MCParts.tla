------------------------------- MODULE MCParts -------------------------------
(***************************************************************************)
(* The parts of the repository that share no state with one another, in    *)
(* one run: a behaviour belongs to one part, and the others stay in their  *)
(* initial states.                                                         *)
(***************************************************************************)
EXTENDS TeamProgress, Dispatch, MCHandoffs, AuditGate, DirLock, StorageOwner,
        SubtitleCache, Ingestion, CaptionBridge, Segmentation, CueRelay

VARIABLE part

vars == <<part, evidence, dispatch, handoffVars, gateVars, lockVars, ownerVars,
          cacheVars, ingestVars, bridgeVars, segmentVars, relayVars>>

(* The inputs that are chosen at the start are chosen for their own part. *)
Init ==
    /\ part \in {"progress", "dispatch", "handoffs", "audits", "lock", "owner",
                 "cache", "ingestion", "captions", "segments", "relay"}
    /\ NoEvidence /\ NoDocument /\ HandoffInit /\ GateInit /\ LockInit
    /\ OwnerInit /\ CacheInit /\ IngestInit /\ BridgeInit
    /\ SegmentInit /\ RelayInit
    /\ part = "dispatch" \/ stream
    /\ part = "ingestion" \/ track
    /\ part = "captions" \/ captioned = {}
    /\ part = "relay" \/ strategy = "cues"

Progress ==
    /\ part = "progress" /\ EvidenceStep
    /\ UNCHANGED <<part, dispatch, handoffVars, gateVars, lockVars,
                  ownerVars, cacheVars, ingestVars, bridgeVars,
                  segmentVars, relayVars>>
Dispatching ==
    /\ part = "dispatch" /\ DispatchStep
    /\ UNCHANGED <<part, evidence, handoffVars, gateVars, lockVars,
                  ownerVars, cacheVars, ingestVars, bridgeVars,
                  segmentVars, relayVars>>
Swarm ==
    /\ part = "handoffs" /\ HandoffStep
    /\ UNCHANGED <<part, evidence, dispatch, gateVars, lockVars, ownerVars,
                  cacheVars, ingestVars, bridgeVars, segmentVars, relayVars>>
Gate ==
    /\ part = "audits" /\ GateStep
    /\ UNCHANGED <<part, evidence, dispatch, handoffVars, lockVars,
                  ownerVars, cacheVars, ingestVars, bridgeVars,
                  segmentVars, relayVars>>
Lock ==
    /\ part = "lock" /\ LockNext
    /\ UNCHANGED <<part, evidence, dispatch, handoffVars, gateVars,
                  ownerVars, cacheVars, ingestVars, bridgeVars,
                  segmentVars, relayVars>>
Owner ==
    /\ part = "owner" /\ OwnerStep
    /\ UNCHANGED <<part, evidence, dispatch, handoffVars, gateVars,
                  lockVars, cacheVars, ingestVars, bridgeVars, segmentVars, relayVars>>
Cache ==
    /\ part = "cache" /\ CacheStep
    /\ UNCHANGED <<part, evidence, dispatch, handoffVars, gateVars,
                  lockVars, ownerVars, ingestVars, bridgeVars, segmentVars, relayVars>>
Ingest ==
    /\ part = "ingestion" /\ IngestStep
    /\ UNCHANGED <<part, evidence, dispatch, handoffVars, gateVars,
                  lockVars, ownerVars, cacheVars, bridgeVars, segmentVars, relayVars>>
Bridge ==
    /\ part = "captions" /\ BridgeStep
    /\ UNCHANGED <<part, evidence, dispatch, handoffVars, gateVars,
                  lockVars, ownerVars, cacheVars, ingestVars, segmentVars, relayVars>>
Segments ==
    /\ part = "segments" /\ SegmentStep
    /\ UNCHANGED <<part, evidence, dispatch, handoffVars, gateVars,
                  lockVars, ownerVars, cacheVars, ingestVars, bridgeVars, relayVars>>
Relaying ==
    /\ part = "relay" /\ RelayStep
    /\ UNCHANGED <<part, evidence, dispatch, handoffVars, gateVars, lockVars,
                  ownerVars, cacheVars, ingestVars, bridgeVars, segmentVars>>

Next ==
    \/ Progress \/ Dispatching \/ Swarm \/ Gate \/ Lock
    \/ Owner \/ Cache \/ Ingest \/ Bridge \/ Segments \/ Relaying

(* The daemon polls as long as it lives, or is started again; a process that
   waits for the lock tries again until it has drawn a number. *)
Spec ==
    /\ Init /\ [][Next]_vars
    /\ WF_handoffVars(part = "handoffs" /\ Daemon)
    /\ WF_lockVars(part = "lock" /\ LockFair)
=============================================================================
