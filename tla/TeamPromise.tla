----------------------------- MODULE TeamPromise -----------------------------
(***************************************************************************)
(* What a translation team promises about its durable work: sections are   *)
(* submitted once and put together, the whole is reviewed only when it is  *)
(* complete, and what is published is exactly a complete text the main     *)
(* agent approved.                                                         *)
(***************************************************************************)
EXTENDS Integers

CONSTANTS Source, Words     \* cues, and texts of a cue

VARIABLES
    phase,      \* planning, translating, review, published
    submitted,  \* cues whose section was submitted
    text,       \* translations put together so far
    approved    \* the text the main agent approved last, as a set of pairs

pvars == <<phase, submitted, text, approved>>

Drafts == UNION {[known -> Words] : known \in SUBSET Source}
Pairs(t) == {<<i, t[i]>> : i \in DOMAIN t}

Init ==
    /\ phase = "planning"
    /\ submitted = {}
    /\ DOMAIN text = {}
    /\ approved = {}

Plan ==
    /\ phase = "planning" /\ phase' = "translating"
    /\ UNCHANGED <<submitted, text, approved>>

\* A section nobody submitted before; what others submitted stays as it is.
Submit ==
    /\ phase = "translating"
    /\ submitted # submitted' /\ submitted \subseteq submitted'
    /\ submitted' \subseteq Source
    /\ text' \in [submitted' -> Words]
    /\ \A i \in submitted : text'[i] = text[i]
    /\ phase' = IF submitted' = Source THEN "review" ELSE "translating"
    /\ UNCHANGED approved

\* The main agent corrects, approves, or both.
Review ==
    /\ phase = "review" /\ phase' = "review"
    /\ text' \in Drafts
    /\ UNCHANGED submitted

Publish ==
    /\ phase = "review" /\ phase' = "published"
    /\ text' \in [Source -> Words]
    /\ approved' = Pairs(text')
    /\ UNCHANGED submitted

Next == Plan \/ Submit \/ Review \/ Publish

Spec == Init /\ [][Next]_pvars
=============================================================================
