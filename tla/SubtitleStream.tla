--------------------------- MODULE SubtitleStream ---------------------------
(***************************************************************************)
(* POST /api/subtitle/stream: what the server sends to a viewer            *)
(* (server/src/app.ts, server/src/streaming.ts, worker/document-stream.ts).*)
(* In document mode it submits the durable job and watches its document;   *)
(* in legacy mode it translates chunk by chunk into the cache, one stream  *)
(* of a translation at a time.                                             *)
(*                                                                         *)
(* A connection belongs to a load of the viewer and is numbered like it.   *)
(* Texts are versions of a cue's translation, 0 for none.  The durable job *)
(* is module DocumentJob; here its document changes as it promises there.  *)
(***************************************************************************)
EXTENDS Integers, SequencesExt

CONSTANTS
    Videos,
    Length,         \* cues of a video
    Versions,       \* bound: versions of a cue's translation
    Previews,       \* bound: those of them that are shown before publication
    ChunkSize,      \* cues translated at once in legacy mode (10 in the code)
    MaxLoads        \* bound: loads of the viewer

ASSUME StreamOK ==
    /\ Videos # {}
    /\ Length \in Nat \ {0} /\ Versions \in Nat \ {0} /\ Previews \in 0 .. Versions
    /\ ChunkSize \in Nat \ {0} /\ MaxLoads \in Nat

Cues == 0 .. Length - 1
Loads == 1 .. MaxLoads

VARIABLES
    mode,           \* the engine the viewer has chosen
    document,       \* the durable document of a video's job
    cache,          \* cues of a video with a cached translation
    activeLegacyStreams,    \* the stream translating a video, 0 for none
    connection

server == <<mode, document, cache, activeLegacyStreams, connection>>

-----------------------------------------------------------------------------
(* Events, and the connections they are sent on. *)

Event(type, index, text) == [type |-> type, index |-> index, text |-> text]
Meta == Event("meta", 0, 0)
Done(failed) == Event("done", failed, 0)
Failure == Event("error", 0, 0)
Unavailable == Event("unavailable", 0, 0)   \* yt-dlp could not download

Events ==
    [type: {"meta", "done", "error", "unavailable", "source_cue", "cue", "preview"},
     index: 0 .. Length, text: 0 .. Versions]

\* The events of the cues in a set, in source order: the k-th of them has k - 1
\* before it.
InOrder(cues) ==
    [k \in 1 .. Cardinality(cues) |-> CHOOSE i \in cues : Cardinality({j \in cues : j < i}) = k - 1]
PerCue(type, cues, texts) ==
    [k \in 1 .. Cardinality(cues) |-> Event(type, InOrder(cues)[k], texts[InOrder(cues)[k]])]

NoText == [i \in Cues |-> 0]
Header == <<Meta>> \o PerCue("source_cue", Cues, NoText)

\* `gone`: the client has left; `downloads`: the source comes from yt-dlp;
\* `sent`: previews sent so far; `todo`, `failed`: the legacy translation.
Connection ==
    [phase: {"none", "ingest", "submitted", "observing", "reading", "translating", "ended"},
     video: Videos, downloads: BOOLEAN, gone: BOOLEAN, wire: Seq(Events),
     sent: [Cues -> 0 .. Versions], todo: SUBSET Cues, failed: 0 .. Length]

NewConnection(video, downloads) ==
    [phase |-> "ingest", video |-> video, downloads |-> downloads, gone |-> FALSE,
     wire |-> << >>, sent |-> NoText, todo |-> {}, failed |-> 0]

\* What the server writes once the client is gone reaches nobody.
Sent(c, events) == IF c.gone THEN c ELSE [c EXCEPT !.wire = @ \o events]
Ended(c) ==
    [c EXCEPT !.phase = "ended", !.downloads = FALSE, !.sent = NoText, !.todo = {}, !.failed = 0]
Closed(c, events) == Ended(Sent(c, events))

\* The client leaves.  Watching a document for nobody changes nothing: that
\* connection is over; a legacy stream goes on until it notices.
Left(c) == IF c.phase \in {"submitted", "observing"} THEN Ended(c) ELSE [c EXCEPT !.sent = NoText]

To(g, c) == connection' = [connection EXCEPT ![g] = c]

-----------------------------------------------------------------------------
(* The durable document. *)

NewDocument == [status |-> "none", preview |-> NoText, final |-> NoText]
Document ==
    [status: {"none", "running", "failed", "cancelled", "succeeded"},
     preview: [Cues -> 0 .. Versions], final: [Cues -> 0 .. Versions]]

\* submitOrAttachJob: attach, continue with the saved draft, or start anew.
Submitted(doc) ==
    CASE doc.status \in {"running", "succeeded"} -> doc
      [] doc.status = "failed" -> [doc EXCEPT !.status = "running"]
      [] OTHER -> [NewDocument EXCEPT !.status = "running"]

Worker(v, doc) ==
    /\ document[v].status = "running"
    /\ document' = [document EXCEPT ![v] = doc]
    /\ UNCHANGED <<mode, cache, activeLegacyStreams, connection>>

\* A section is submitted, or corrected in review.
Previewed(v, i) ==
    /\ document[v].preview[i] < Previews
    /\ Worker(v, [document[v] EXCEPT !.preview[i] = @ + 1])

\* The main agent may have corrected any cue since its preview.
Published(v, final) ==
    /\ \A i \in Cues : final[i] >= document[v].preview[i] /\ final[i] > 0
    /\ Worker(v, [status |-> "succeeded", preview |-> NoText, final |-> final])

JobFailed(v) == Worker(v, [document[v] EXCEPT !.status = "failed"])

\* Anybody may cancel the job.
JobCancelled(v) == Worker(v, [document[v] EXCEPT !.status = "cancelled", !.preview = NoText])

-----------------------------------------------------------------------------
(* Ingestion. *)

\* The subtitles could not be had.
IngestFails(g) ==
    /\ connection[g].phase = "ingest"
    /\ \E reason \in {Failure} \cup (IF connection[g].downloads THEN {Unavailable} ELSE {}) :
          To(g, Closed(connection[g], <<reason>>))
    /\ UNCHANGED <<mode, document, cache, activeLegacyStreams>>

-----------------------------------------------------------------------------
(* Document mode. *)

\* Submission does not look whether the viewer is still there.
SubmitDocument(g) ==
    LET c == connection[g]
        submitted == [c EXCEPT !.phase = "submitted", !.downloads = FALSE]
    IN
    /\ mode = "document" /\ c.phase = "ingest"
    /\ document' = [document EXCEPT ![c.video] = Submitted(@)]
    /\ To(g, IF c.gone THEN Left(submitted) ELSE submitted)
    /\ UNCHANGED <<mode, cache, activeLegacyStreams>>

SubmitFails(g) ==
    /\ mode = "document" /\ connection[g].phase = "ingest"
    /\ To(g, Closed(connection[g], <<Failure>>))
    /\ UNCHANGED <<mode, document, cache, activeLegacyStreams>>

\* Mutant: a previewed cue is not sent again when it is published.
LookedUnsent(c, doc) ==
    LET news == {i \in Cues : doc.preview[i] # 0 /\ doc.preview[i] # c.sent[i]} IN
    CASE doc.status = "succeeded" ->
            Closed(c, PerCue("cue", {i \in Cues : c.sent[i] = 0}, doc.final) \o <<Done(0)>>)
      [] doc.status = "cancelled" -> Closed(c, <<Failure>>)
      [] doc.status = "failed" -> Closed(c, PerCue("preview", news, doc.preview) \o <<Failure>>)
      [] OTHER -> [Sent(c, PerCue("preview", news, doc.preview)) EXCEPT
                      !.sent = [i \in Cues |-> IF i \in news THEN doc.preview[i] ELSE c.sent[i]]]

\* Mutant: a cancelled job is watched for ever.
LookedPatiently(c, doc) ==
    LET news == {i \in Cues : doc.preview[i] # 0 /\ doc.preview[i] # c.sent[i]} IN
    CASE doc.status = "succeeded" -> Closed(c, PerCue("cue", Cues, doc.final) \o <<Done(0)>>)
      [] doc.status = "failed" -> Closed(c, PerCue("preview", news, doc.preview) \o <<Failure>>)
      [] OTHER -> [Sent(c, PerCue("preview", news, doc.preview)) EXCEPT
                      !.sent = [i \in Cues |-> IF i \in news THEN doc.preview[i] ELSE c.sent[i]]]

\* One round of observeDocumentJob: the whole publication, or the previews
\* that changed since the last round.
Looked(c, doc) ==
    LET news == {i \in Cues : doc.preview[i] # 0 /\ doc.preview[i] # c.sent[i]} IN
    CASE doc.status = "succeeded" -> Closed(c, PerCue("cue", Cues, doc.final) \o <<Done(0)>>)
      [] doc.status = "cancelled" -> Closed(c, <<Failure>>)
      [] doc.status = "failed" -> Closed(c, PerCue("preview", news, doc.preview) \o <<Failure>>)
      [] OTHER -> [Sent(c, PerCue("preview", news, doc.preview)) EXCEPT
                      !.sent = [i \in Cues |-> IF i \in news THEN doc.preview[i] ELSE c.sent[i]]]

ObserveFirst(g) ==
    LET c == connection[g] IN
    /\ c.phase = "submitted"
    /\ To(g, Looked([Sent(c, Header) EXCEPT !.phase = "observing"], document[c.video]))
    /\ UNCHANGED <<mode, document, cache, activeLegacyStreams>>

Observe(g) ==
    LET c == connection[g]
        looked == Looked(c, document[c.video])
    IN
    /\ c.phase = "observing" /\ looked # c
    /\ To(g, looked)
    /\ UNCHANGED <<mode, document, cache, activeLegacyStreams>>

-----------------------------------------------------------------------------
(* Legacy mode. *)

Release(g) == activeLegacyStreams' =
    [v \in Videos |-> IF activeLegacyStreams[v] = g THEN 0 ELSE activeLegacyStreams[v]]

LegacyStart(g) ==
    LET v == connection[g].video IN
    /\ mode = "legacy" /\ connection[g].phase = "ingest"
    /\ \/ /\ activeLegacyStreams[v] # 0
          /\ To(g, Closed(connection[g], <<Failure>>))
          /\ UNCHANGED activeLegacyStreams
       \/ /\ activeLegacyStreams[v] = 0
          /\ activeLegacyStreams' = [activeLegacyStreams EXCEPT ![v] = g]
          /\ To(g, [connection[g] EXCEPT !.phase = "reading", !.downloads = FALSE])
    /\ UNCHANGED <<mode, document, cache>>

\* Mutant: the retry translates everything again.
LegacyReadNothing(g) ==
    LET c == connection[g] IN
    /\ c.phase = "reading"
    /\ To(g, [Sent(c, Header) EXCEPT !.phase = "translating", !.todo = Cues])
    /\ UNCHANGED <<mode, document, cache, activeLegacyStreams>>

\* What is cached is sent and not translated again.
LegacyRead(g) ==
    LET c == connection[g]
        known == cache[c.video]
    IN
    /\ c.phase = "reading"
    /\ To(g, [Sent(c, Header \o PerCue("cue", known, [i \in known |-> 1])) EXCEPT
                 !.phase = "translating", !.todo = Cues \ known])
    /\ UNCHANGED <<mode, document, cache, activeLegacyStreams>>

NextChunk(todo) == {i \in todo : Cardinality({j \in todo : j < i}) < ChunkSize}

\* A chunk comes back translated but for some cues, and is cached, unless
\* the cache cannot be written.
TranslateChunk(g, translated, stored) ==
    LET c == connection[g]
        chunk == NextChunk(c.todo)
        sent == PerCue("cue", translated, [i \in translated |-> 1])
    IN
    /\ c.phase = "translating" /\ c.todo # {}
    /\ translated \subseteq chunk
    /\ \/ /\ stored
          /\ cache' = [cache EXCEPT ![c.video] = @ \cup translated]
          /\ To(g, [Sent(c, sent) EXCEPT
                       !.todo = @ \ chunk, !.failed = @ + Cardinality(chunk \ translated)])
          /\ UNCHANGED activeLegacyStreams
       \/ /\ ~stored
          /\ To(g, Closed(c, sent \o <<Failure>>))
          /\ Release(g)
          /\ UNCHANGED cache
    /\ UNCHANGED <<mode, document>>

TranslationFails(g) ==
    /\ connection[g].phase \in {"reading", "translating"}
    /\ To(g, Closed(connection[g], <<Failure>>))
    /\ Release(g)
    /\ UNCHANGED <<mode, document, cache>>

LegacyDone(g) ==
    LET c == connection[g] IN
    /\ c.phase = "translating" /\ c.todo = {}
    /\ To(g, Closed(c, <<Done(c.failed)>>))
    /\ Release(g)
    /\ UNCHANGED <<mode, document, cache>>

-----------------------------------------------------------------------------
\* Mutant: an abort leaves the stream registered.
LegacyAbortKept(g) ==
    /\ connection[g].gone
    /\ connection[g].phase \notin {"none", "ingest", "ended"}
    /\ To(g, Ended(connection[g]))
    /\ UNCHANGED <<mode, document, cache, activeLegacyStreams>>

\* A write to a client that has left throws, a pending model call is aborted.
NoticeGone(g) ==
    /\ connection[g].gone
    /\ connection[g].phase \notin {"none", "ingest", "ended"}
    /\ To(g, Ended(connection[g]))
    /\ Release(g)
    /\ UNCHANGED <<mode, document, cache>>

ServerInit ==
    /\ mode \in {"document", "legacy"}
    /\ document = [v \in Videos |-> NewDocument]
    /\ cache = [v \in Videos |-> {}]
    /\ activeLegacyStreams = [v \in Videos |-> 0]
    /\ connection = [g \in Loads |->
          [NewConnection(CHOOSE v \in Videos : TRUE, TRUE) EXCEPT !.phase = "none"]]

WorkerStep ==
    \E v \in Videos :
        \/ \E i \in Cues : Previewed(v, i)
        \/ \E final \in [Cues -> 1 .. Versions] : Published(v, final)
        \/ JobFailed(v)
        \/ JobCancelled(v)

\* What the server does for a connection.
Serve(g) ==
    \/ IngestFails(g)
    \/ SubmitDocument(g) \/ SubmitFails(g) \/ ObserveFirst(g) \/ Observe(g)
    \/ LegacyStart(g) \/ LegacyRead(g) \/ TranslationFails(g) \/ LegacyDone(g)
    \/ \E translated \in SUBSET Cues, stored \in BOOLEAN : TranslateChunk(g, translated, stored)
    \/ NoticeGone(g)
=============================================================================
