------------------------------ MODULE Coverage ------------------------------
(***************************************************************************)
(* When sections of a source cover it: in source order, every cue exactly  *)
(* once.  A section is a pair of positions.  The code walks a cursor over  *)
(* the sections; module Dispatch has that walk and checks that it accepts  *)
(* exactly what is stated here.                                            *)
(***************************************************************************)
EXTENDS Integers, Sequences

\* Mutant: a section may start with the last cue of an earlier one.
CoversLoosely(sections, total) ==
    /\ \A k \in DOMAIN sections : sections[k][1] <= sections[k][2]
    /\ \A k \in DOMAIN sections : \A j \in 1 .. k - 1 : sections[j][2] <= sections[k][1]
    /\ \A i \in 0 .. total - 1 : \E k \in DOMAIN sections : i \in sections[k][1] .. sections[k][2]

Covers(sections, total) ==
    /\ \A k \in DOMAIN sections : sections[k][1] <= sections[k][2]
    /\ \A k \in DOMAIN sections : \A j \in 1 .. k - 1 : sections[j][2] < sections[k][1]
    /\ \A i \in 0 .. total - 1 : \E k \in DOMAIN sections : i \in sections[k][1] .. sections[k][2]
=============================================================================
