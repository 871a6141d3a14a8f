----------------------------- MODULE MCHandoffs -----------------------------
(***************************************************************************)
(* A pack to check the handoffs with: of that of swarmforge.conf a master  *)
(* that sends no copies, a role that sends a copy to the one before it,    *)
(* and a last one that takes batches.  (Its copies, to all the others, are *)
(* more than an instance can afford.)                                      *)
(***************************************************************************)
EXTENDS Handoffs

PackOfThree == <<"specifier", "refactorer", "architect">>
CopiesOfThree ==
    [r \in {"specifier", "refactorer", "architect"} |->
        IF r = "refactorer" THEN "back-one" ELSE "forward-only"]
=============================================================================
