----------------------------- MODULE ReviewDesk -----------------------------
(***************************************************************************)
(* People deciding about a run while the Perlector reads its pages again   *)
(* and the Recensor publishes the reviews they read.                       *)
(*                                                                         *)
(* The Perlector's current reading of a page counts the page's units. The  *)
(* Recensor measures each one and publishes its review, one unit at a      *)
(* time, so a page's reviews may be half published when a person looks. A  *)
(* person prepares a decision from the published reviews, confirms it, and *)
(* it is checked again and written (operations/operator/decide.py). A page *)
(* re-ask has the Perlector read the page again: the new reading's units   *)
(* replace the old ones. A pass may also measure a unit differently than   *)
(* the last one did, when the evidence it measures from has grown.         *)
(*                                                                         *)
(* What a pass run now would decide is a function of what it measures and  *)
(* of the decisions stored (ReviewDecisions).                              *)
(***************************************************************************)
EXTENDS ReviewDecisions, Sequences, SequencesExt

CONSTANTS
    Page,
    Person,          \* people with a terminal open on the run
    Reviews,         \* what one reading of a page may turn out to be
    UnitChoices,     \* the unit and page decisions people make here
    PageChoices,
    Text,            \* the texts an edit may give
    NoDecision,
    MaxDecisions,    \* decisions stored in a behaviour
    MaxReads,        \* readings of one page
    MaxMeasures      \* measurements of one reading

ASSUME ChoicesAssumption ==
    UnitChoices \subseteq UnitDecisions /\ PageChoices \subseteq PageDecisions

(* The row of a page that was not read has no reading to be held, and only *)
(* the counted row of a page says that it names no act.                    *)
ASSUME ReviewsAssumption ==
    \A r \in Reviews :
      /\ "no-act-on-page" \notin r.page_holds \cup r.page_own
      /\ \A n \in DOMAIN r.units :
           /\ r.units[n].class \in ReadingClasses \cup PageRowClasses
           /\ "no-act-on-page" \notin r.units[n].holds \cup r.units[n].own
           /\ r.units[n].class \in PageRowClasses => r.units[n].holds = {}

VARIABLES
    reading,     \* page -> [n, review]: the Perlector's current reading
    measure,     \* page -> which measurement of it is on disk
    published,   \* unit -> the machine's review the Recensor published
    desk,        \* person -> the decision prepared and being confirmed
    stored,      \* the decisions in the order they were written
    seen         \* history: what the page showed when each was prepared

vars == <<reading, measure, published, desk, stored, seen>>

Decisions == ToSet(stored)

-----------------------------------------------------------------------------
(* What the Recensor measures of the current reading of a page.            *)

UnitsOf(page) ==
    {<<page, reading[page].n, n>> : n \in DOMAIN reading[page].review.units}

(* page_review: a row's own holds unless the page is confirmed, with the   *)
(* Recensor's own findings.                                                *)
Measured(page, n) ==
    LET review == reading[page].review
        entry == review.units[n]
        entries == {review.units[m] : m \in DOMAIN review.units}
        row == review.page_holds \cup
                 IF entry.class = "page-unread" THEN {"page-unread"}
                 ELSE IF entry.class = "page-blank" THEN {"page-blank"}
                 ELSE entry.holds \cup (IF \A e \in entries : e.kind # "act"
                                        THEN {"no-act-on-page"} ELSE {})
        own == entry.own \cup review.page_own
        released == /\ review.confirmed /\ own = {}
                    /\ row # {} /\ row \subseteq {"page-blank", "no-act-on-page"}
    IN  [page |-> page, class |-> entry.class, kind |-> entry.kind,
         codes |-> own \cup (IF released THEN {} ELSE row),
         holds |-> entry.holds,
         page_holds |-> IF entry.class \in PageRowClasses THEN {} ELSE review.page_holds,
         measure |-> measure[page]]

(* derived_review.                                                         *)
Derived ==
    [a \in UNION {UnitsOf(p) : p \in Page} |-> Measured(a[1], a[3])]

(* published_units: the latest review of every unit of a current reading.  *)
Published ==
    [a \in {b \in DOMAIN published : b[2] = reading[b[1]].n} |-> published[a]]

PublishedExcluded == ExcludedUnits(Published, Decisions)

-----------------------------------------------------------------------------
Init ==
    /\ reading \in [Page -> {[n |-> 1, review |-> r] : r \in Reviews}]
    /\ measure = [p \in Page |-> 1]
    /\ published = << >>
    /\ desk = [o \in Person |-> NoDecision]
    /\ stored = << >>
    /\ seen = << >>

(* review_pages publishes the reviews in the plan's order; a repeat that   *)
(* finds a unit's review unchanged reuses it.                              *)
OutOfDate == {a \in DOMAIN Derived : a \notin DOMAIN published \/ published[a] # Derived[a]}

PublishReview(a) ==
    /\ a \in OutOfDate
    /\ \A b \in OutOfDate : b[1] = a[1] => a[3] <= b[3]
    /\ published' = [b \in DOMAIN published \cup {a} |->
                       IF b = a THEN Derived[a] ELSE published[b]]
    /\ UNCHANGED <<reading, measure, desk, stored, seen>>

(* A later pass measures the reading from more evidence than the last.     *)
Remeasure(page) ==
    /\ measure[page] < MaxMeasures
    /\ \E r \in Reviews :
         /\ DOMAIN r.units = DOMAIN reading[page].review.units
         /\ \A n \in DOMAIN r.units : /\ r.units[n].class = reading[page].review.units[n].class
                                      /\ r.units[n].kind = reading[page].review.units[n].kind
                                      /\ r.units[n].holds = reading[page].review.units[n].holds
         /\ r.page_holds = reading[page].review.page_holds
         /\ reading' = [reading EXCEPT ![page].review = r]
    /\ measure' = [measure EXCEPT ![page] = @ + 1]
    /\ UNCHANGED <<published, desk, stored, seen>>

(* requested_rereads: the current decisions about the page all ask for it. *)
Requested(page) ==
    /\ OnPage(Published, page) # {}
    /\ PageKind(Current(Published, Decisions), page) = "re-ask"

(* read_the_pages: an operator re-read supersedes every earlier reading.   *)
Reread(page) ==
    /\ Requested(page)
    /\ reading[page].n < MaxReads
    /\ \E r \in Reviews :
         reading' = [reading EXCEPT ![page] = [n |-> @.n + 1, review |-> r]]
    /\ measure' = [measure EXCEPT ![page] = 1]
    /\ UNCHANGED <<published, desk, stored, seen>>

(* _require_allowed of a decision about a subject of the published basis.  *)
Allowed(derived, d) ==
    IF d.scope = "unit" THEN UnitAllowed(derived[d.subject], d.decision)
    ELSE PageAllowed(derived, d.subject, d.decision)

(* prepare_decision: bind a decision to the subject's published basis.     *)
Prepare(o) ==
    /\ desk[o] = NoDecision
    /\ Len(stored) < MaxDecisions
    /\ \/ \E a \in DOMAIN Published, decision \in UnitChoices,
             text \in Text \cup {NoText} :
            /\ decision = "edit" <=> text # NoText
            /\ Exportable(Published[a], decision)
            /\ desk' = [desk EXCEPT ![o] =
                 [made |-> [scope |-> "unit", subject |-> a, page |-> a[1],
                            decision |-> decision, text |-> text,
                            basis |-> UnitBasis(Published, a)],
                  saw |-> [units |-> Facts(Published, {a}), excluded |-> {}]]]
       \/ \E page \in Page, decision \in PageChoices :
            /\ OnPage(Published, page) # {}
            /\ desk' = [desk EXCEPT ![o] =
                 [made |-> [scope |-> "page", subject |-> page, page |-> page,
                            decision |-> decision, text |-> NoText,
                            basis |-> PageBasis(Published, page, PublishedExcluded)],
                  saw |-> [units |-> Facts(Published, OnPage(Published, page)),
                           excluded |-> PublishedExcluded \cap ActUnits(Published, page)]]]
    /\ UNCHANGED <<reading, measure, published, stored, seen>>

(* Mutant: what was current when prepared is written without a second look.*)
RecordableBlindly(d) == d.subject \in DOMAIN Published \/ d.scope = "page"

(* record_decision's check: the decision is still current, and allowed.    *)
Recordable(d) ==
    /\ UnitCurrent(Published, d) \/ PageCurrent(Published, PublishedExcluded, d)
    /\ Allowed(Published, d)

(* record_decision. A decision written again is the same record.           *)
Record(o) ==
    /\ desk[o] # NoDecision
    /\ Len(stored) < MaxDecisions
    /\ Recordable(desk[o].made)
    /\ stored' = Append(stored, desk[o].made)
    /\ seen' = Append(seen, desk[o].saw)
    /\ desk' = [desk EXCEPT ![o] = NoDecision]
    /\ UNCHANGED <<reading, measure, published>>

(* record_decision refuses it, or the person does not confirm.             *)
Discard(o) ==
    /\ desk[o] # NoDecision
    /\ desk' = [desk EXCEPT ![o] = NoDecision]
    /\ UNCHANGED <<reading, measure, published, stored, seen>>

Next ==
    \/ \E a \in DOMAIN Derived : PublishReview(a)
    \/ \E page \in Page : Remeasure(page) \/ Reread(page)
    \/ \E o \in Person : Prepare(o) \/ Record(o) \/ Discard(o)

Spec == Init /\ [][Next]_vars

-----------------------------------------------------------------------------
Outcome(a) == Decided(Derived, Decisions, a)

PageNow(page) == PageResult(Derived, Decisions, Current(Derived, Decisions), page)

(* A unit a person put on hold stays held, however its review is measured  *)
(* again, until a person decides about it again.                           *)
UnitHoldStands ==
    \A i \in DOMAIN stored :
        /\ stored[i].scope = "unit" /\ stored[i].decision = "hold"
        /\ stored[i].subject \in DOMAIN Derived
        /\ \A j \in DOMAIN stored :
             stored[j].scope = "unit" /\ stored[j].subject = stored[i].subject => j <= i
        => Outcome(stored[i].subject) = "held-for-review"

(* A page is cleared only by a person who was shown it as it is now: the   *)
(* same reviews of the same units, with the same acts excluded.            *)
ClearedAsSeen ==
    \A page \in Page :
        PageNow(page).kind = "no-missed-act" =>
          \E i \in DOMAIN stored :
            /\ stored[i].scope = "page" /\ stored[i].subject = page
            /\ stored[i].decision = "no-missed-act"
            /\ seen[i] = [units |-> Facts(Derived, OnPage(Derived, page)),
                          excluded |-> ExcludedUnits(Derived, Decisions)
                                         \cap ActUnits(Derived, page)]

(* Once every act of a page is excluded nothing else on it is accepted     *)
(* until a person, shown the page with all of them excluded, says that no  *)
(* act was missed.                                                         *)
NoActPageWaits ==
    \A page \in Page :
        LET acts == ActUnits(Derived, page)
            rest == OnPage(Derived, page) \ ExcludedUnits(Derived, Decisions)
        IN  /\ acts # {} /\ acts \subseteq ExcludedUnits(Derived, Decisions)
            /\ \E a \in rest : Outcome(a) = "accepted"
            => \E i \in DOMAIN stored :
                 /\ stored[i].scope = "page" /\ stored[i].subject = page
                 /\ stored[i].decision = "no-missed-act" /\ seen[i].excluded = acts

(* Two people who decide differently about a unit as it is now leave it    *)
(* held: neither of them is picked.                                        *)
DisagreementHolds ==
    \A a \in DOMAIN Derived :
        (\E i, j \in DOMAIN stored :
            /\ UnitCurrent(Derived, stored[i]) /\ UnitCurrent(Derived, stored[j])
            /\ stored[i].subject = a /\ stored[j].subject = a
            /\ <<stored[i].decision, stored[i].text>> # <<stored[j].decision, stored[j].text>>)
        => Outcome(a) = "held-for-review"

(* No decision that was stored makes a later pass refuse the run: whenever *)
(* one is current again, its subject allows it.                            *)
StoredIsApplicable ==
    \A d \in Current(Derived, Decisions) : Allowed(Derived, d)

(* A reading whose text the export cannot carry is never accepted but with *)
(* a person's own text for it.                                             *)
UnreadableNeedsText ==
    \A a \in DOMAIN Derived :
        Outcome(a) = "accepted" /\ SealedHolds(Derived[a]) \cap NotOverridable # {} =>
          /\ SealedHolds(Derived[a]) \cap NotOverridable \subseteq EditCarries
          /\ \E i \in DOMAIN stored : /\ stored[i].subject = a /\ stored[i].decision = "edit"
                                      /\ seen[i].units[a] = Derived[a]

=============================================================================
