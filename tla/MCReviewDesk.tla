---------------------------- MODULE MCReviewDesk ----------------------------
(* ReviewDesk on one page, for TLC: readings that differ in what holds.    *)
EXTENDS ReviewDesk

Entry(class, kind, holds, own) ==
    [class |-> class, kind |-> kind, holds |-> holds, own |-> own]

Reading(units, page_holds, page_own, confirmed) ==
    [units |-> units, page_holds |-> page_holds, page_own |-> page_own,
     confirmed |-> confirmed]

(* An act held as doubtful and a note beside it; measured again, the page  *)
(* has unread ink too.                                                     *)
Doubtful == Reading(<<Entry("reading", "act", {"doubt-share-high"}, {}),
                      Entry("reading", "other", {}, {})>>, {}, {}, FALSE)
DoubtfulInk == [Doubtful EXCEPT !.page_own = {"residual-ink"}]

(* An act with no readable text, in a re-read that lost an act, on a page  *)
(* its accounting holds.                                                   *)
Empty == Reading(<<Entry("reading", "act",
                        {"entry-no-readable-text", "superseded-act-not-read"},
                        {"continuation-off-page-edge"})>>,
                 {"rule-f"}, {}, FALSE)

(* No act on the page, and nobody confirmed it.                            *)
NoAct == Reading(<<Entry("reading", "other", {}, {}), Entry("reading-unplaced", "other",
                   {"unplaced"}, {})>>, {}, {}, FALSE)

Unread == Reading(<<Entry("page-unread", "none", {}, {})>>, {}, {}, FALSE)

Readings == {Doubtful, DoubtfulInk, Empty, NoAct, Unread}

Interchangeable == Permutations(Person)

(* Two people are at the desk at once only over a page as it was first     *)
(* reviewed and decided by nobody; one of them may then be overtaken.      *)
OvertakenOnce ==
    (\A o \in Person : desk[o] # NoDecision) =>
        /\ stored = << >>
        /\ \A p \in Page : reading[p].n = 1 /\ measure[p] = 1
=============================================================================
