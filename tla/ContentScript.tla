--------------------------- MODULE ContentScript ---------------------------
(***************************************************************************)
(* The content script of the extension (extension/src/content.ts): the     *)
(* page with its toggle and its navigations, a load from the list of       *)
(* tracks to the last retry of its stream, and the events of that stream.  *)
(*                                                                         *)
(* A load is numbered by its generation; what it does after the next one   *)
(* began, or after it was cancelled, finds another generation.  Every wait *)
(* of a load ends when it is aborted; at most one event that was already   *)
(* read is still handed to it.                                             *)
(***************************************************************************)
EXTENDS SubtitleStream, PlaybackFallback

CONSTANTS
    None,
    Retries         \* AUTO_RETRY_DELAYS.length (2 in the code)

ASSUME ScriptOK == None \notin Videos /\ Retries \in Nat

VARIABLES
    page,           \* what the page shows, and what the viewer asked for
    load            \* the last load

client == <<page, load, subtitles, position, fallback>>
vars == <<server, client>>

\* `optedIn`: history, the video the toggle was last switched on for.
Page == [video: Videos \cup {None}, enabled: BOOLEAN, optedIn: Videos \cup {None}]

\* `track`: yt-dlp found a track; `captions`: the source is the player's.
Load ==
    [number: 0 .. MaxLoads, video: Videos,
     phase: {"idle", "tracks", "captions", "stream", "switch", "delay",
             "done", "exhausted", "failed"},
     attempt: 0 .. Retries, track: BOOLEAN, captions: BOOLEAN,
     receivedMeta: BOOLEAN, streamDone: BOOLEAN, failedCues: 0 .. Length]

NewLoad(number, video) ==
    [number |-> number, video |-> video, phase |-> "tracks", attempt |-> 0,
     track |-> FALSE, captions |-> FALSE, receivedMeta |-> FALSE,
     streamDone |-> FALSE, failedCues |-> 0]

\* A load whose function has returned.
Over(phase) == [NewLoad(load.number, load.video) EXCEPT !.phase = phase]

Current(g) == g = load.number /\ load.phase # "idle"

Working == load.phase \in {"tracks", "captions", "stream", "switch", "delay"}

\* What was read before an abort is handled before the next answer arrives.
NothingRead == \A g \in Loads : g # load.number => connection[g].wire = << >>

ClientInit ==
    /\ page \in [video: Videos, enabled: {FALSE}, optedIn: {None}]
    /\ load = [NewLoad(0, page.video) EXCEPT !.phase = "idle"]
    /\ FallbackInit

-----------------------------------------------------------------------------
(* Beginning and cancelling a load. *)

\* The request is aborted; one event may have been read already.
Aborted ==
    IF load.phase = "stream"
    THEN \E read \in {0, 1} \cap 0 .. Len(connection[load.number].wire) :
            To(load.number, [Left(connection[load.number]) EXCEPT
                                !.gone = TRUE, !.wire = SubSeq(@, 1, read)])
    ELSE UNCHANGED connection

Begin(video) ==
    /\ load.number < MaxLoads
    /\ Aborted
    /\ load' = NewLoad(load.number + 1, video)
    /\ subtitles' = << >>
    /\ fallback' = Stopped
    /\ UNCHANGED <<position, mode, document, cache, activeLegacyStreams>>

\* hideTranslation
Cancel ==
    /\ Aborted
    /\ load' = Over("idle")
    /\ subtitles' = << >>
    /\ fallback' = Stopped
    /\ UNCHANGED <<position, mode, document, cache, activeLegacyStreams>>

\* The toggle is in the player.
ToggleOn ==
    /\ ~page.enabled /\ page.video # None
    /\ page' = [page EXCEPT !.enabled = TRUE, !.optedIn = page.video]
    /\ Begin(page.video)

ToggleOff ==
    /\ page.enabled
    /\ page' = [page EXCEPT !.enabled = FALSE]
    /\ Cancel

\* The address of the page changes; the navigation is not over.
Navigate(video) ==
    /\ video # page.video
    /\ page' = [page EXCEPT !.video = video]
    /\ UNCHANGED <<server, load, subtitles, position, fallback>>

\* The page has changed, and shows another video or another video element,
\* or a setting has: its video is loaded.
FindVideo ==
    /\ page.enabled /\ page.video # None
    /\ Begin(page.video)
    /\ UNCHANGED page

\* When the toggle is off already this changes nothing.
NavigateFinish ==
    /\ page.enabled
    /\ page' = [page EXCEPT !.enabled = FALSE]
    /\ Cancel

-----------------------------------------------------------------------------
(* A load. *)

\* A load that is over keeps its subtitles, and its fallback.
Ends(phase) ==
    /\ load' = Over(phase)
    /\ UNCHANGED <<server, page, subtitles, position, fallback>>

OpenStream(l) ==
    /\ load' = [l EXCEPT !.phase = "stream", !.streamDone = FALSE, !.failedCues = 0]
    /\ To(l.number, NewConnection(l.video, ~l.captions))
    /\ fallback' = IF mode = "document" /\ ~fallback.live THEN Started ELSE fallback
    /\ UNCHANGED <<page, subtitles, position, mode, document, cache, activeLegacyStreams>>

TracksFound ==
    /\ load.phase = "tracks"
    /\ OpenStream([load EXCEPT !.track = TRUE])

\* yt-dlp is blocked or has no track: the player's captions may do.
NoTracks ==
    /\ load.phase = "tracks"
    /\ load' = [load EXCEPT !.phase = "captions"]
    /\ UNCHANGED <<server, page, subtitles, position, fallback>>

BackendUnreachable ==
    /\ load.phase = "tracks"
    /\ Ends("failed")

\* The player's captions of this video are there, or eight seconds are over.
\* A load waits for them once, and what was captured before it is discarded.
CaptionsWaited ==
    /\ load.phase = "captions"
    /\ \/ OpenStream([load EXCEPT !.captions = TRUE])
       \/ OpenStream(load)          \* Whisper transcribes
       \/ Ends("failed")

\* The source is switched once, before any translation.
SwitchWaited ==
    /\ load.phase = "switch"
    /\ OpenStream([load EXCEPT !.captions = TRUE]) \/ Ends("failed")

StreamOver ==
    /\ load.phase = "stream"
    /\ connection[load.number].phase = "ended" /\ connection[load.number].wire = << >>

Succeeds ==
    /\ load' = Over("done")
    /\ fallback' = Stopped
    /\ UNCHANGED <<server, page, subtitles, position>>

Delays ==
    /\ load' = [load EXCEPT !.phase = "delay"]
    /\ UNCHANGED <<server, page, subtitles, position, fallback>>

StreamEnds ==
    /\ StreamOver
    /\ \/ ~load.streamDone /\ Ends("failed")
       \/ load.streamDone /\ load.failedCues = 0 /\ Succeeds
       \/ /\ load.streamDone /\ load.failedCues # 0
          /\ IF load.attempt = Retries THEN Ends("exhausted") ELSE Delays

\* The delay is over.  It is so long that the stream it follows has ended.
Retry ==
    /\ load.phase = "delay"
    /\ OpenStream([load EXCEPT !.attempt = @ + 1])

\* The connection breaks.
ConnectionLost ==
    /\ load.phase = "stream" /\ connection[load.number].phase # "ended"
    /\ load' = Over("failed")
    /\ To(load.number, [Left(connection[load.number]) EXCEPT !.gone = TRUE, !.wire = << >>])
    /\ UNCHANGED <<page, subtitles, position, fallback, mode, document, cache, activeLegacyStreams>>

-----------------------------------------------------------------------------
(* Events of a stream. *)

Source(type) ==
    CASE mode = "legacy" -> "legacy"
      [] mode = "document" /\ type = "preview" -> "document-preview"
      [] OTHER -> "document"

TakeCue(e) ==
    /\ e.type \in {"source_cue", "cue", "preview"}
    /\ subtitles' = Shown(subtitles, e.index, e.text, Source(e.type))
    /\ fallback' = Updated(fallback, subtitles', position)
    /\ UNCHANGED load

TakeMeta(e) ==
    /\ e.type = "meta"
    /\ load' = [load EXCEPT !.receivedMeta = TRUE]
    /\ UNCHANGED <<subtitles, fallback>>

TakeDone(e) ==
    /\ e.type = "done"
    /\ load' = [load EXCEPT !.streamDone = TRUE, !.failedCues = e.index]
    /\ UNCHANGED <<subtitles, fallback>>

\* Only a failed download, before anything was received, switches the source.
Switches(e) == e.type = "unavailable" /\ ~load.receivedMeta /\ load.track /\ ~load.captions

TakeError(e) ==
    /\ e.type \in {"error", "unavailable"}
    /\ load' = IF Switches(e) THEN [load EXCEPT !.phase = "switch"] ELSE Over("failed")
    /\ UNCHANGED <<subtitles, fallback>>

OnEvent(g) ==
    LET e == Head(connection[g].wire) IN
    /\ connection[g].wire # << >>
    /\ To(g, [connection[g] EXCEPT !.wire = Tail(@)])
    /\ \/ Current(g) /\ (TakeMeta(e) \/ TakeCue(e) \/ TakeDone(e) \/ TakeError(e))
       \/ ~Current(g) /\ UNCHANGED <<load, subtitles, fallback>>
    /\ UNCHANGED <<page, position, mode, document, cache, activeLegacyStreams>>

Fall ==
    /\ \/ Run \/ WindowFailed
       \/ \E rows \in SUBSET Cues : WindowAnswered(rows)
       \/ \E i \in Cues : RetryAfter(i)
       \/ \E at \in Spoken : Tick(at)
    /\ UNCHANGED <<server, page, load>>
=============================================================================
