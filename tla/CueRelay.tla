------------------------------- MODULE CueRelay -------------------------------
(***************************************************************************)
(* /ws/subtitle/process with the legacy engine: connections that have the  *)
(* cues of one video translated, cue by cue as a stream of chunks, or in   *)
(* whole chunks of cues (translateWhole), and share the cache of their     *)
(* strategy; connections of the other strategy have a profile, and a cache *)
(* key, of their own.  Viewers disconnect, providers fail, answer with     *)
(* nothing or close a stream early.  Every cue has some text.              *)
(***************************************************************************)
EXTENDS Naturals, FiniteSets

CONSTANTS
    Relays,       \* connections
    CueCount,
    WholeChunk    \* cues of one whole request

ASSUME RelaysOK == CueCount \in Nat /\ WholeChunk \in Nat

Texts == 1 .. CueCount
Strategies == {"cues", "whole"}

VARIABLES
    strategy,     \* of the connections
    relay,        \* every connection
    memory,       \* the cached translations
    curtailed     \* a provider closed a stream before its end

relayVars == <<strategy, relay, memory, curtailed>>

Blank == [i \in Texts |-> ""]
RelayInit ==
    /\ strategy \in Strategies
    /\ relay = [r \in Relays |-> [at |-> "new"]]
    /\ memory = Blank /\ curtailed = FALSE

Becomes(r, to) == relay' = [relay EXCEPT ![r] = to]
Over(r) == Becomes(r, [at |-> "new"])
Good(text) == text \notin {"", "failed"}
AnyFailed(texts) == \E i \in Texts : ~Good(texts[i])

(* What is cached is looked up once; when it is complete, it is the answer.
   A viewer whose connection is over may open another one. *)
OpenRelay(r) ==
    /\ relay[r].at = "new" /\ AnyFailed(memory)
    /\ Becomes(r, [at |-> strategy, known |-> memory, working |-> Blank, next |-> 1, failed |-> FALSE])
    /\ UNCHANGED <<strategy, memory, curtailed>>

---------------------------------------------------------------------------
\* Cue by cue.
Line(r) == relay[r].next
Streaming(r) == relay[r].at = "streaming"
Said(r) == relay[r].working[Line(r)]
Now(r, text) == [relay[r].working EXCEPT ![Line(r)] = text]

BeginLine(r) ==
    /\ relay[r].at = "cues"
    /\ LET known == relay[r].known[Line(r)] IN
       IF Line(r) > CueCount THEN Over(r)
       ELSE IF Good(known) THEN Becomes(r, [relay[r] EXCEPT !.working = Now(r, known), !.next = @ + 1])
       ELSE Becomes(r, [relay[r] EXCEPT !.at = "streaming", !.working = Now(r, "")])
    /\ UNCHANGED <<strategy, memory, curtailed>>
Chunk(r) ==
    /\ Streaming(r) /\ Said(r) # "whole"
    /\ \E text \in {"part", "whole"} : Becomes(r, [relay[r] EXCEPT !.working = Now(r, text)])
    /\ UNCHANGED <<strategy, memory, curtailed>>

(* A stream that ends without its end mark ends like any other; without any
   text the cue has failed. *)
EndLine(r) ==
    /\ Streaming(r)
    /\ Becomes(r, [relay[r] EXCEPT !.at = "keep", !.failed = @ \/ Said(r) = ""])
    /\ curtailed' = (curtailed \/ Said(r) = "part")
    /\ UNCHANGED <<strategy, memory>>

(* Mutant: in any case. *)
KeptAlways(r) == relay[r].working

(* As long as nothing has failed, what is translated so far is cached, the
   untranslated cues included. *)
Kept(r) == IF relay[r].failed THEN memory ELSE relay[r].working

KeepLine(r) ==
    /\ relay[r].at = "keep"
    /\ memory' = Kept(r)
    /\ Becomes(r, [relay[r] EXCEPT !.at = "cues", !.next = @ + 1])
    /\ UNCHANGED <<strategy, curtailed>>

---------------------------------------------------------------------------
\* Whole chunks.  One request asks for all cues of a chunk; when less than
\* half of them come back, they are asked for one by one, in a pool; else
\* only those that are missing.
ChunkOf(r) == {i \in Texts : Line(r) <= i /\ i < Line(r) + WholeChunk}

(* A cue asked for by itself: a failure is marked, an empty answer of the
   pool is left empty. *)
Single == {"whole", "failed"}
Batch == {"whole", "failed", ""}
WholeAnswers(r) ==
    LET chunk == ChunkOf(r)
        Filled(got) == {[i \in chunk |-> IF i \in got THEN "whole" ELSE rest[i]] : rest \in [chunk -> Single]}
    IN UNION {IF 2 * Cardinality(got) < Cardinality(chunk) THEN [chunk -> Batch] ELSE Filled(got)
              : got \in SUBSET chunk}
TranslateChunk(r) ==
    /\ relay[r].at = "whole" /\ Line(r) <= CueCount
    /\ \E texts \in WholeAnswers(r) :
          Becomes(r, [relay[r] EXCEPT !.next = @ + WholeChunk,
                         !.working = [i \in Texts |-> IF i \in ChunkOf(r) THEN texts[i] ELSE @[i]]])
    /\ UNCHANGED <<strategy, memory, curtailed>>

(* A complete translation is cached when none of its cues has failed. *)
SendWhole(r) ==
    /\ relay[r].at = "whole" /\ Line(r) > CueCount
    /\ Becomes(r, [relay[r] EXCEPT !.at = "keepwhole", !.failed = AnyFailed(relay[r].working)])
    /\ UNCHANGED <<strategy, memory, curtailed>>
KeepWhole(r) ==
    /\ relay[r].at = "keepwhole"
    /\ memory' = Kept(r)
    /\ Over(r)
    /\ UNCHANGED <<strategy, curtailed>>

(* The provider, a malformed answer or the viewer ends it; nothing is cached. *)
RelayFails(r) ==
    /\ relay[r].at # "new"
    /\ Over(r)
    /\ UNCHANGED <<strategy, memory, curtailed>>

RelayStep ==
    \E r \in Relays :
        \/ OpenRelay(r) \/ BeginLine(r) \/ Chunk(r) \/ EndLine(r) \/ KeepLine(r)
        \/ TranslateChunk(r) \/ SendWhole(r) \/ KeepWhole(r)
        \/ RelayFails(r)

RelaySpec == RelayInit /\ [][RelayStep]_relayVars

---------------------------------------------------------------------------
\* The cache holds whole translations of the first cues and nothing of the
\* others, or, from whole requests, of all cues or none: no failure, gap or
\* half-streamed text of one connection is served to another one, unless a
\* provider closed its stream early (websocket.ts:144).
CachedIsWhole ==
    /\ ~curtailed => \A i \in Texts : memory[i] \in {"", "whole"}
    /\ IF strategy = "whole" THEN \A i, j \in Texts : Good(memory[i]) => Good(memory[j])
       ELSE \A i, j \in Texts : i < j /\ Good(memory[j]) => Good(memory[i])
=============================================================================
