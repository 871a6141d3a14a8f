------------------------------ MODULE Ingestion ------------------------------
(***************************************************************************)
(* processSubtitleFlow: how requests for one video come by its cues.  They *)
(* share the cache, and, when the video has no subtitle track, a single    *)
(* transcription of its audio: the first request starts it, the others     *)
(* wait for its promise.  yt-dlp, ffmpeg and the speech model may fail.    *)
(***************************************************************************)
EXTENDS Naturals, FiniteSets

CONSTANTS
    Requests,
    Chunks,       \* the pieces the audio is split into
    Attempts      \* WhisperClient.retries, for each way of asking

VARIABLES
    track,        \* whether the video has a track that fits, as yt-dlp says
    kept,         \* which artefacts the cache keeps
    asker,        \* where every request is
    download,     \* what a request downloaded: its json3, or nothing
    whisperJobs,  \* the transcriptions that run, each named after its starter
    registered,   \* whisperActiveJobs: the job later requests join
    settled       \* jobs that are over, and how

ingestVars == <<track, kept, asker, download, whisperJobs, registered, settled>>

Nothing == "nothing"
Places == {"new", "fetch", "choose", "cues", "json3", "download", "parse", "segment",
           "transcript", "join", "answered", "failed"}
ASSUME RequestsOK == Requests \cap (Places \cup {Nothing}) = {}

JobIdle == [at |-> "none"]
IngestInit ==
    /\ track \in BOOLEAN /\ kept = {}
    /\ asker = [r \in Requests |-> "new"] /\ download = [r \in Requests |-> Nothing]
    /\ whisperJobs = [r \in Requests |-> JobIdle]
    /\ registered = Nothing /\ settled = [r \in Requests |-> Nothing]

Asks(r, from, to) == asker[r] = from /\ asker' = [asker EXCEPT ![r] = to]
JobsSame == UNCHANGED <<whisperJobs, registered, settled>>

---------------------------------------------------------------------------
\* Metadata, from the cache or from yt-dlp.
ReadMetadata(r) ==
    /\ Asks(r, "new", IF "metadata" \in kept THEN "choose" ELSE "fetch")
    /\ UNCHANGED <<track, kept, download>> /\ JobsSame
FetchMetadata(r) ==
    /\ \/ Asks(r, "fetch", "choose") /\ kept' = kept \cup {"metadata"}
       \/ Asks(r, "fetch", "failed") /\ UNCHANGED kept
    /\ UNCHANGED <<track, download>> /\ JobsSame

(* Without a track only a request with Whisper enabled goes on. *)
ChooseTrack(r) ==
    /\ IF track THEN Asks(r, "choose", "cues")
       ELSE Asks(r, "choose", "transcript") \/ Asks(r, "choose", "failed")
    /\ UNCHANGED <<track, kept, download>> /\ JobsSame

(* A track: processed cues, the raw subtitle, or a download.  What is
   downloaded is kept once it has been parsed and holds usable text. *)
ReadCues(r) ==
    /\ Asks(r, "cues", IF "cues" \in kept THEN "answered" ELSE "json3")
    /\ UNCHANGED <<track, kept, download>> /\ JobsSame
ReadJson3(r) ==
    /\ Asks(r, "json3", IF "json3" \in kept THEN "segment" ELSE "download")
    /\ UNCHANGED <<track, kept, download>> /\ JobsSame
DownloadJson3(r) ==
    /\ \/ Asks(r, "download", "parse") /\ \E got \in {"good", "malformed", "empty"} : download' = [download EXCEPT ![r] = got]
       \/ Asks(r, "download", "failed") /\ UNCHANGED download
    /\ UNCHANGED <<track, kept>> /\ JobsSame
Usable(got) == got = "good"
ParseJson3(r) ==
    /\ IF Usable(download[r]) THEN Asks(r, "parse", "segment") /\ kept' = kept \cup {"json3"}
                              ELSE Asks(r, "parse", "failed") /\ UNCHANGED kept
    /\ UNCHANGED <<track, download>> /\ JobsSame
SegmentCues(r) ==
    /\ Asks(r, "segment", "answered")
    /\ kept' = kept \cup {"cues"}
    /\ UNCHANGED <<track, download>> /\ JobsSame

---------------------------------------------------------------------------
\* Whisper.  The cache is read, and then, with no await in between, the
\* registered job looked up or a new one started and registered.
ReadTranscript(r) ==
    /\ Asks(r, "transcript", IF "transcript" \in kept THEN "answered" ELSE "join")
    /\ UNCHANGED <<track, kept, download>> /\ JobsSame
JoinJob(r) ==
    /\ registered # Nothing
    /\ asker[r] = "join" /\ asker' = [asker EXCEPT ![r] = registered]
    /\ UNCHANGED <<track, kept, download>> /\ JobsSame

(* Mutant: the job is not registered. *)
StartJobUnregistered(r) ==
    /\ registered = Nothing
    /\ asker[r] = "join" /\ asker' = [asker EXCEPT ![r] = r]
    /\ whisperJobs' = [whisperJobs EXCEPT ![r] = [at |-> "tmpdir"]]
    /\ UNCHANGED <<track, kept, download, registered, settled>>

StartJob(r) ==
    /\ registered = Nothing
    /\ asker[r] = "join" /\ asker' = [asker EXCEPT ![r] = r]
    /\ whisperJobs' = [whisperJobs EXCEPT ![r] = [at |-> "tmpdir"]]
    /\ registered' = r
    /\ UNCHANGED <<track, kept, download, settled>>

JobGoes(r, from, to) == whisperJobs[r].at = from /\ whisperJobs' = [whisperJobs EXCEPT ![r] = to]
JobOnly == UNCHANGED <<track, asker, download>>

(* The directory is made before the try block: when that fails, the rejected
   promise stays registered. *)
MakeTmpDir(r) ==
    /\ \/ JobGoes(r, "tmpdir", [at |-> "audio"]) /\ UNCHANGED settled
       \/ JobGoes(r, "tmpdir", JobIdle) /\ settled' = [settled EXCEPT ![r] = "failed"]
    /\ UNCHANGED <<kept, registered>> /\ JobOnly

Unregister(r, how) ==
    /\ registered' = Nothing
    /\ settled' = [settled EXCEPT ![r] = how]
JobFails(r) ==
    /\ whisperJobs[r].at \in {"audio", "chunk", "put"}
    /\ whisperJobs' = [whisperJobs EXCEPT ![r] = JobIdle]
    /\ Unregister(r, "failed") /\ UNCHANGED kept /\ JobOnly

(* The audio is downloaded and split; each chunk is transcribed with its
   times, and, after as many attempts as allowed, without them. *)
SplitAudio(r) ==
    /\ JobGoes(r, "audio", [at |-> "chunk", chunk |-> 1, timed |-> TRUE, attempt |-> 1])
    /\ UNCHANGED <<kept, registered, settled>> /\ JobOnly
TranscribeChunk(r) ==
    /\ LET job == whisperJobs[r] IN
       \/ JobGoes(r, "chunk", IF job.chunk = Chunks THEN [at |-> "put"]
                              ELSE [at |-> "chunk", chunk |-> job.chunk + 1, timed |-> TRUE, attempt |-> 1])
       \/ job.at = "chunk" /\ job.attempt < Attempts /\ JobGoes(r, "chunk", [job EXCEPT !.attempt = @ + 1])
       \/ /\ job.at = "chunk" /\ job.attempt = Attempts /\ job.timed
          /\ JobGoes(r, "chunk", [job EXCEPT !.timed = FALSE, !.attempt = 1])
    /\ UNCHANGED <<kept, registered, settled>> /\ JobOnly
KeepTranscript(r) ==
    /\ JobGoes(r, "put", [at |-> "finally"]) /\ kept' = kept \cup {"transcript"}
    /\ UNCHANGED <<registered, settled>> /\ JobOnly
FinishJob(r) ==
    /\ JobGoes(r, "finally", JobIdle)
    /\ Unregister(r, "done") /\ UNCHANGED kept /\ JobOnly

TakeTranscript(r) ==
    /\ asker[r] \in Requests /\ settled[asker[r]] # Nothing
    /\ asker' = [asker EXCEPT ![r] = IF settled[asker[r]] = "done" THEN "answered" ELSE "failed"]
    /\ UNCHANGED <<track, kept, download>> /\ JobsSame

(* The cache is cleared, or evicts. *)
ForgetArtefact == kept' \in SUBSET kept /\ kept' # kept /\ UNCHANGED <<track, asker, download>> /\ JobsSame

IngestStep ==
    \/ \E r \in Requests :
        \/ ReadMetadata(r) \/ FetchMetadata(r) \/ ChooseTrack(r) \/ ReadCues(r) \/ ReadJson3(r)
        \/ DownloadJson3(r) \/ ParseJson3(r) \/ SegmentCues(r)
        \/ ReadTranscript(r) \/ JoinJob(r) \/ StartJob(r) \/ MakeTmpDir(r) \/ JobFails(r)
        \/ SplitAudio(r) \/ TranscribeChunk(r) \/ KeepTranscript(r) \/ FinishJob(r) \/ TakeTranscript(r)
    \/ ForgetArtefact

IngestSpec == IngestInit /\ [][IngestStep]_ingestVars

---------------------------------------------------------------------------
\* "De-duplicate concurrent Whisper jobs for the same video & profile"
\* (app.ts:650): no two transcriptions run at a time, whoever starts, joins,
\* fails or clears the cache in between, and a request only ever waits for a
\* transcription that runs or is over.
OneIngestion ==
    /\ Cardinality({r \in Requests : whisperJobs[r] # JobIdle}) <= 1
    /\ \A r \in Requests :
          asker[r] \in Requests => whisperJobs[asker[r]] # JobIdle \/ settled[asker[r]] # Nothing
=============================================================================
