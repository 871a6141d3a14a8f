---------------------------- MODULE CaptionBridge ----------------------------
(***************************************************************************)
(* bridge.ts, the part of the extension that runs in YouTube's page: it    *)
(* intercepts the caption files the player loads and, when the extension   *)
(* asks for the captions of the video on the page, polls the player for    *)
(* its caption track and fetches it.  A viewer moves on while a fetch is   *)
(* under way.                                                              *)
(***************************************************************************)
EXTENDS Naturals, SequencesExt

CONSTANTS
    Clips, NoClip,      \* videos
    PollAttempts, MaxCaptured,
    MaxPolls            \* bound on the pollings started

ASSUME BridgeOK == NoClip \notin Clips /\ PollAttempts \in Nat /\ MaxCaptured \in Nat \ {0}

VARIABLES
    onPage, inPlayer,   \* the video of the URL, and the one the player describes
    captioned,          \* the videos that have a track the player offers
    captured,           \* the captures, oldest first: video, rank, direct
    poll,               \* the polling under way, or NoPoll
    polls,              \* the number of pollings started
    fetches,            \* fetches under way: the polling they belong to, the video
    accepted,           \* the video whose captions content.ts keeps
    wanted,             \* history: the video asked for while it has been on the page
    excused             \* history: why its polling ended before its captions came

bridgeVars == <<onPage, inPlayer, captioned, captured, poll, polls, fetches, accepted, wanted, excused>>

NoPoll == [clip |-> NoClip]
BridgeInit ==
    /\ onPage = NoClip /\ inPlayer = NoClip /\ captioned \in SUBSET Clips
    /\ captured = << >> /\ poll = NoPoll /\ polls = 0 /\ fetches = {}
    /\ accepted = NoClip /\ wanted = NoClip /\ excused = FALSE

CapturesOf(clip) == {k \in DOMAIN captured : captured[k].clip = clip}
Direct(clip) == \E k \in CapturesOf(clip) : captured[k].direct

(* The best-ranked capture of a video is kept, and announced when the video
   is on the page; the oldest captures make room.  `captured` is a Map: a video
   has one capture, and a new one is the latest. *)
Better(clip, rank) == \A k \in CapturesOf(clip) : captured[k].rank > rank
Others(clip) ==
    IF CapturesOf(clip) = {} THEN captured
    ELSE RemoveAt(captured, CHOOSE k \in CapturesOf(clip) : TRUE)
Room(kept) == SubSeq(kept, IF Len(kept) > MaxCaptured THEN 2 ELSE 1, Len(kept))
StoredCaptures(clip, rank, direct) ==
    IF Better(clip, rank)
    THEN Room(Append(Others(clip), [clip |-> clip, rank |-> rank,
                                    direct |-> direct \/ Direct(clip)]))
    ELSE [k \in DOMAIN captured |->
             [captured[k] EXCEPT !.direct = @ \/ (direct /\ captured[k].clip = clip)]]
Store(clip, rank, direct) ==
    /\ captured' = StoredCaptures(clip, rank, direct)
    /\ accepted' = IF Better(clip, rank) /\ clip = onPage THEN clip ELSE accepted

(* A capture of the wanted video made room for another one. *)
Displaced == CapturesOf(wanted) # {} /\ \A k \in DOMAIN captured' : captured'[k].clip # wanted

(* The player loads a caption file of its own, for the video on the page or
   for one it prefetches. *)
Intercept(clip, rank) ==
    /\ Store(clip, rank, FALSE)
    /\ excused' = (excused \/ Displaced)
    /\ UNCHANGED <<onPage, inPlayer, captioned, poll, polls, fetches, wanted>>

---------------------------------------------------------------------------
\* startPolling, on a request for the video on the page: what is captured is
\* announced, and a polling started unless the track was fetched already or
\* is being polled.
NewPoll(clip) ==
    /\ poll' = [clip |-> clip, number |-> polls + 1, attempts |-> 0]
    /\ polls' = polls + 1

(* Mutant: whatever is captured will do. *)
RequestOnce(clip) ==
    /\ clip = onPage /\ clip # NoClip /\ polls < MaxPolls
    /\ accepted' = IF CapturesOf(clip) # {} THEN clip ELSE accepted
    /\ IF CapturesOf(clip) # {} \/ poll.clip = clip THEN UNCHANGED <<poll, polls>> ELSE NewPoll(clip)
    /\ wanted' = clip /\ excused' = FALSE
    /\ UNCHANGED <<onPage, inPlayer, captioned, captured, fetches>>

Request(clip) ==
    /\ clip = onPage /\ clip # NoClip /\ polls < MaxPolls
    /\ accepted' = IF CapturesOf(clip) # {} THEN clip ELSE accepted
    /\ IF Direct(clip) \/ poll.clip = clip THEN UNCHANGED <<poll, polls>> ELSE NewPoll(clip)
    /\ wanted' = clip /\ excused' = FALSE
    /\ UNCHANGED <<onPage, inPlayer, captioned, captured, fetches>>

(* The timer.  A fetch is started when none of this polling is under way and
   the player describes the video; without a track there is nothing to wait for. *)
PollEnds(why) == poll' = NoPoll /\ excused' = (excused \/ why)
PollAgain ==
    /\ poll # NoPoll
    /\ IF onPage # poll.clip \/ poll.attempts = PollAttempts
       THEN PollEnds(poll.attempts = PollAttempts) /\ UNCHANGED fetches
       ELSE LET free == \A f \in fetches : f.number # poll.number
                again == [poll EXCEPT !.attempts = @ + 1]
            IN IF free /\ inPlayer = poll.clip
               THEN IF poll.clip \in captioned
                    THEN poll' = again /\ fetches' = fetches \cup {[number |-> poll.number, clip |-> poll.clip]} /\ UNCHANGED excused
                    ELSE PollEnds(TRUE) /\ UNCHANGED fetches
               ELSE poll' = again /\ UNCHANGED <<fetches, excused>>
    /\ UNCHANGED <<onPage, inPlayer, captioned, captured, polls, accepted, wanted>>

(* A fetch that succeeds stores the captions for the video it was started
   for, and ends the polling, whichever is under way by now. *)
FetchFails(f) ==
    /\ fetches' = fetches \ {f}
    /\ UNCHANGED <<onPage, inPlayer, captioned, captured, poll, polls, accepted, wanted, excused>>
FetchSucceeds(f, rank) ==
    /\ fetches' = fetches \ {f}
    /\ Store(f.clip, rank, TRUE)
    /\ excused' = (excused \/ Displaced \/ (poll # NoPoll /\ poll.number # f.number))
    /\ poll' = NoPoll
    /\ UNCHANGED <<onPage, inPlayer, captioned, polls, wanted>>

(* The viewer leaves: the page announces it, then the URL and, later, the
   player change. *)
NavigateStart ==
    /\ poll' = NoPoll /\ wanted' = NoClip /\ excused' = FALSE
    /\ UNCHANGED <<onPage, inPlayer, captioned, captured, polls, fetches, accepted>>
Navigate(clip) ==
    /\ clip # onPage /\ onPage' = clip /\ wanted' = NoClip /\ excused' = FALSE
    /\ UNCHANGED <<inPlayer, captioned, captured, poll, polls, fetches, accepted>>
PlayerLoads ==
    /\ inPlayer' = onPage
    /\ UNCHANGED <<onPage, captioned, captured, poll, polls, fetches, accepted, wanted, excused>>

BridgeStep ==
    \/ \E clip \in Clips : Request(clip) \/ Navigate(clip) \/ \E rank \in {0, 1} : Intercept(clip, rank)
    \/ PollAgain \/ NavigateStart \/ PlayerLoads
    \/ \E f \in fetches : FetchFails(f) \/ \E rank \in {0, 1} : FetchSucceeds(f, rank)

BridgeSpec == BridgeInit /\ [][BridgeStep]_bridgeVars

---------------------------------------------------------------------------
\* While a video that the extension asked for stays on the page, its track is
\* polled until it is fetched, unless the attempts ran out, the player has no
\* track for it, newer captures displaced it, or the late fetch of another
\* polling stopped this one (bridge.ts:191); and the extension has been told
\* of whatever was captured of it, before or after it asked.
CaptionsArrive ==
    wanted # NoClip =>
        /\ excused \/ Direct(wanted) \/ poll.clip = wanted
        /\ CapturesOf(wanted) # {} => accepted = wanted
=============================================================================
