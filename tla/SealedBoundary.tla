--------------------------- MODULE SealedBoundary ---------------------------
(***************************************************************************)
(* What a stage boundary promises to whoever reads it (common/stage.py):   *)
(* records are only added, each statement made says strictly more than     *)
(* every earlier one that is still there, and a reader that walks the      *)
(* disk accepts only while some statement is of exactly what it finds.     *)
(* Statements may be lost; once a record is lost nothing more is promised. *)
(***************************************************************************)
EXTENDS Naturals

VARIABLES
    records,    \* the records on disk
    stated,     \* the statements on disk: <<attempt, inventory>>
    accepted,   \* a reader that walked the disk has accepted the boundary
    damaged     \* a record was lost

vars == <<records, stated, accepted, damaged>>

Init ==
    /\ records = {}
    /\ stated = {}
    /\ accepted = FALSE
    /\ damaged = FALSE

Publish ==
    /\ records \subseteq records'
    /\ UNCHANGED <<stated, accepted, damaged>>

(* A statement may be behind the disk when it is published: another pass   *)
(* has gone on since its inventory was read.                               *)
State ==
    /\ \E new \in stated' :
          /\ new[2] \subseteq records
          /\ \A s \in stated : s[1] < new[1] /\ s[2] \subseteq new[2] /\ s[2] # new[2]
          /\ stated' = stated \cup {new}
    /\ UNCHANGED <<records, accepted, damaged>>

LoseStatements ==
    /\ stated' \in SUBSET stated
    /\ UNCHANGED <<records, accepted, damaged>>

Accept ==
    /\ ~accepted
    /\ \E s \in stated : s[2] = records
    /\ accepted' = TRUE
    /\ UNCHANGED <<records, stated, damaged>>

(* A reader that accepted looks again, or is done.                         *)
Forget ==
    /\ accepted' = FALSE
    /\ UNCHANGED <<records, stated, damaged>>

(* A record is, or was, lost.                                              *)
Damaged == damaged' = TRUE

Next == Publish \/ State \/ LoseStatements \/ Accept \/ Forget \/ Damaged

Spec == Init /\ [][Next]_vars
=============================================================================
