------------------------------- MODULE Viewer -------------------------------
(***************************************************************************)
(* A viewer of translated subtitles: the content script and its fallback   *)
(* in the browser, the stream of the server, and the durable document.     *)
(***************************************************************************)
EXTENDS ContentScript

Init == ServerInit /\ ClientInit

Visit ==
    \/ ToggleOn \/ ToggleOff \/ FindVideo
    \/ NavigateFinish
    \/ \E v \in Videos \cup {None} : Navigate(v)

LoadStep ==
    /\ NothingRead
    /\ \/ TracksFound \/ NoTracks \/ BackendUnreachable
       \/ CaptionsWaited \/ SwitchWaited
       \/ StreamEnds \/ Retry

Next ==
    \/ WorkerStep /\ UNCHANGED client
    \/ \E g \in Loads : Serve(g) /\ UNCHANGED client
    \/ Visit
    \/ LoadStep
    \/ ConnectionLost
    \/ \E g \in Loads : OnEvent(g)
    \/ Fall

Spec == Init /\ [][Next]_vars

\* The extension, the server and the job go on as long as one of them has
\* something to do (a job with a budget ends: DocumentJob!JobSettles).  Viewers, the
\* player, lost connections and temporary translations are free.
JobEnds(v) == JobFailed(v) \/ \E final \in [Cues -> 1 .. Versions] : Published(v, final)

Work ==
    \/ LoadStep
    \/ \E g \in Loads : OnEvent(g)
    \/ \E g \in Loads \cap {load.number} : Serve(g) /\ UNCHANGED client
    \/ JobEnds(load.video) /\ UNCHANGED client

FairSpec == Spec /\ WF_vars(Work)

-----------------------------------------------------------------------------
(* Properties. *)

TypeOK ==
    /\ mode \in {"document", "legacy"}
    /\ document \in [Videos -> Document]
    /\ cache \in [Videos -> SUBSET Cues]
    /\ activeLegacyStreams \in [Videos -> 0 .. MaxLoads]
    /\ connection \in [Loads -> Connection]
    /\ page \in Page
    /\ load \in Load
    /\ DOMAIN subtitles \subseteq Cues
    /\ \A i \in DOMAIN subtitles : subtitles[i] \in Subtitle(0 .. Versions)
    /\ position \in Spoken
    /\ fallback \in Fallback(Cues)

\* When the extension reports a document as translated, the viewer has the
\* publication: every cue, with its published text, and no temporary or
\* provisional one (document-stream.ts:20 "Always resend final cues").
FinalIsPublication ==
    (mode = "document" /\ load.phase = "done") =>
        /\ DOMAIN subtitles = Cues
        /\ \A i \in Cues :
              subtitles[i] = [text |-> document[load.video].final[i], source |-> "document"]

\* The subtitles are those of the current load's source, without holes, so
\* that they can be searched (content.ts:409, subtitles.ts subtitleIndexAt).
WholeSource ==
    /\ \E n \in 0 .. Length : DOMAIN subtitles = 0 .. n - 1
    /\ Working /\ subtitles # << >> => load.receivedMeta

\* What the viewer sees is well formed, whole, and final when it is said to be
\* final, whatever streams of earlier loads still answer.
ShownIsWhole == TypeOK /\ WholeSource /\ FinalIsPublication

\* While a load lasts, a better translation is never replaced by a worse one:
\* document, preview, temporary, none (subtitles.ts:11 "document results
\* always outrank it", docs/document-translation.md:32).
NoDowngrade ==
    [][load'.number = load.number /\ load'.phase # "idle" =>
        \A i \in DOMAIN subtitles :
            /\ i \in DOMAIN subtitles'
            /\ Rank(subtitles'[i].source) >= Rank(subtitles[i].source)]_vars

\* One stream at a time translates a video, the registered one, and a stream
\* that is over, however it ended, is not registered (app.ts:1195, :1294).
OneLegacyStream ==
    \A v \in Videos :
        {g \in Loads : connection[g].video = v /\ connection[g].phase \in {"reading", "translating"}}
            = {activeLegacyStreams[v]} \ {0}

\* A retry submits only what is still untranslated: "cached successes are
\* kept and only the remaining cues are submitted again" (content.ts:40).
RetrySubmitsOnlyRemaining ==
    (mode = "legacy" /\ load.phase = "stream") =>
        LET c == connection[load.number] IN
        c.phase = "translating" =>
            \A i \in c.todo \cap DOMAIN subtitles : subtitles[i].source = "none"

\* Temporary translations are requested for an enabled document load only,
\* until it is published; they go on when the document failed
\* (docs/document-translation.md:34).
FallbackWhileUseful ==
    /\ fallback.live =>
          /\ page.enabled /\ mode = "document"
          /\ load.phase \in {"stream", "switch", "failed"}
    /\ fallback.timer \/ fallback.active # {} => fallback.live

\* What the viewer's page has translated is still wanted.
RequestsUseful == FallbackWhileUseful /\ RetrySubmitsOnlyRemaining

\* Every video is translated at the viewer's request: "Every fresh page load
\* starts off, preventing an automatic API request before the user opts in"
\* (content.ts:633), "every newly opened video starts off" (content.ts:655).
OnlyAfterOptIn == load.phase # "idle" => load.video = page.optedIn

\* A load ends: published, given up after its retries, with an error, or
\* because the viewer cancelled it.  MaxLoads keeps viewers from starting
\* loads for ever.
LoadSettles == Working ~> ~Working
=============================================================================
