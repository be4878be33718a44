-------------------------- MODULE ReviewDecisions --------------------------
(***************************************************************************)
(* What a person's review decisions do to the machine's review             *)
(* (common/review_decisions.py, with override_refusal, operator_correction *)
(* and operator_override of common/page_review.py and decide_reviews of    *)
(* the Recensor).                                                          *)
(*                                                                         *)
(* A derived review is a function from the counted units of a run to what  *)
(* the machine found of each:                                              *)
(*   page       the page it is on                                          *)
(*   class      "reading", "reading-unplaced", "page-unread", "page-blank" *)
(*   kind       "act" or "other"                                           *)
(*   codes      the hold codes of the machine's review                     *)
(*   holds      the hold codes of its own reading (Perlectio)              *)
(*   page_holds the page accounting's                                      *)
(*   measure    the rest of the review payload: the evidence measured,     *)
(*              which the basis digest also binds                          *)
(* A decision is [scope, subject, page, decision, text, basis]; decisions  *)
(* are a set, since order and repeats do not matter.                       *)
(***************************************************************************)
EXTENDS Naturals, FiniteSets

CONSTANTS
    RecensorUnitCodes,   \* the Recensor's own codes measured per entry
    RecensorPageCodes,   \* ... and per page
    RowPageCodes,        \* page-unread, page-blank, no-act-on-page
    PageWideEntryCodes,  \* put on every entry for a fact about its page
    NotOverridable,      \* reading holds no decision may send to export
    EditCarries,         \* ... of which a person's text lifts these
    NoText               \* the text of a decision that is not an edit

(* What a person may confirm of a page never bars its export.              *)
ASSUME OverridableAssumption == NotOverridable \cap {"page-blank", "no-act-on-page"} = {}

ReadingClasses == {"reading", "reading-unplaced"}
PageRowClasses == {"page-unread", "page-blank"}

UnitDecisions == {"release", "exclude", "hold", "re-ask", "edit"}
PageDecisions == {"no-missed-act", "missed-act", "re-ask", "re-shoot", "hold"}

(* ADDED_CODES, CARRIED_CODES and CLEARING, by scope.                      *)
AddedCodes(scope, kind) ==
    CASE scope = "unit" /\ kind = "hold"       -> {"review-hold"}
      [] scope = "unit" /\ kind = "re-ask"     -> {"review-reask"}
      [] scope = "unit" /\ kind = "conflict"   -> {"review-conflict"}
      [] scope = "page" /\ kind = "missed-act" -> {"review-missed-act"}
      [] scope = "page" /\ kind = "re-ask"     -> {"review-page-reask"}
      [] scope = "page" /\ kind = "re-shoot"   -> {"review-reshoot"}
      [] scope = "page" /\ kind = "hold"       -> {"review-page-hold"}
      [] scope = "page" /\ kind = "conflict"   -> {"review-page-conflict"}
      [] OTHER                                 -> {}

CarriedCodes(scope, decision) ==
    CASE scope = "unit" /\ decision = "hold"       -> {"review-hold-carried"}
      [] scope = "page" /\ decision = "missed-act" -> {"review-missed-act-carried"}
      [] scope = "page" /\ decision = "hold"       -> {"review-page-hold-carried"}
      [] OTHER                                     -> {}

ClearsUnit == {"release", "exclude", "edit"}

-----------------------------------------------------------------------------
(* The basis.                                                              *)

(* classify_holds.                                                         *)
UnitCodes(unit) ==
    IF unit.class \in PageRowClasses THEN {}
    ELSE unit.codes \cap ((unit.holds \cup RecensorUnitCodes) \ PageWideEntryCodes)

PageCodes(unit) ==
    IF unit.class \in PageRowClasses THEN unit.codes
    ELSE unit.codes \cap (unit.page_holds \cup RecensorPageCodes \cup RowPageCodes
                            \cup PageWideEntryCodes)

(* _derived_outcome.                                                       *)
DerivedOutcome(codes, class) ==
    IF codes # {} THEN "held-for-review"
    ELSE IF class = "page-blank" THEN "confirmed-blank" ELSE "accepted"

MachineOutcome(unit) == DerivedOutcome(unit.codes, unit.class)

OnPage(derived, page) == {a \in DOMAIN derived : derived[a].page = page}

ActUnits(derived, page) ==
    {a \in OnPage(derived, page) : derived[a].kind = "act" /\ derived[a].class \in ReadingClasses}

Facts(derived, units) == [a \in units |-> derived[a]]

(* basis_digest and page_basis_digest, injective: what they digest.        *)
UnitBasis(derived, a) == [units |-> Facts(derived, {a}), excluded |-> {}]

(* Mutant: an exclusion does not change what a page decision binds to.     *)
PageBasisUnitsOnly(derived, page, excluded) ==
    [units |-> Facts(derived, OnPage(derived, page)), excluded |-> {}]

PageBasis(derived, page, excluded) ==
    [units |-> Facts(derived, OnPage(derived, page)),
     excluded |-> excluded \cap ActUnits(derived, page)]

-----------------------------------------------------------------------------
(* review_decision: whether a decision is about what is there now.         *)

UnitCurrent(derived, d) ==
    /\ d.scope = "unit"
    /\ d.subject \in DOMAIN derived
    /\ d.basis = UnitBasis(derived, d.subject)

(* Mutant: of several current decisions any one is taken, none conflicts.  *)
AnyKind(said) == IF said = {} THEN "none" ELSE (CHOOSE k \in said : TRUE)[1]

(* _current_kind_by_subject: the one decision made, or "conflict".         *)
OneKind(said) ==
    IF said = {} THEN "none"
    ELSE IF \E k \in said : said = {k} THEN (CHOOSE k \in said : TRUE)[1]
    ELSE "conflict"

UnitKind(derived, decisions, a) ==
    OneKind({<<d.decision, d.text>> :
                d \in {e \in decisions : e.subject = a /\ UnitCurrent(derived, e)}})

(* _excluded_units.                                                        *)
ExcludedUnits(derived, decisions) ==
    {a \in DOMAIN derived : UnitKind(derived, decisions, a) = "exclude"}

PageCurrent(derived, excluded, d) ==
    /\ d.scope = "page"
    /\ OnPage(derived, d.subject) # {}
    /\ d.basis = PageBasis(derived, d.subject, excluded)

(* The decisions about the subjects of a review as it is now.              *)
CurrentGiven(derived, decisions, excluded) ==
    {d \in decisions : UnitCurrent(derived, d) \/ PageCurrent(derived, excluded, d)}

Current(derived, decisions) ==
    CurrentGiven(derived, decisions, ExcludedUnits(derived, decisions))

PageKind(current, page) ==
    OneKind({<<d.decision, d.text>> :
                d \in {e \in current : e.scope = "page" /\ e.subject = page}})

(* The hold codes of a counted row: its reading's own and its page's, and  *)
(* of an entry of a page that names no act, that.                          *)
SealedHolds(unit) == unit.holds \cup unit.page_holds

RowCodes(derived, a) ==
    SealedHolds(derived[a])
      \cup (IF /\ derived[a].class \in ReadingClasses
               /\ \A b \in OnPage(derived, derived[a].page) : derived[b].kind # "act"
            THEN {"no-act-on-page"} ELSE {})

(* Mutant: any placed reading can be exported.                             *)
OverridableIfPlaced(class, holds, edit) == class = "reading"

(* override_refusal, of a row of a class with these holds.                 *)
Overridable(class, holds, edit) ==
    /\ class = "reading"
    /\ holds \cap (NotOverridable \ (IF edit THEN EditCarries ELSE {})) = {}

(* _require_allowed.                                                       *)
UnitAllowed(unit, decision) ==
    /\ unit.class \in ReadingClasses
    /\ decision = "release" => UnitCodes(unit) # {}
    /\ decision = "edit" => MachineOutcome(unit) = "held-for-review"

(* What prepare_decision refuses before: it could never reach the export.  *)
Exportable(unit, decision) ==
    /\ decision = "release" /\ SealedHolds(unit) # {} =>
         Overridable(unit.class, SealedHolds(unit), FALSE)
    /\ decision = "edit" => Overridable(unit.class, SealedHolds(unit), TRUE)

PageCodesOf(derived, page) == UNION {PageCodes(derived[a]) : a \in OnPage(derived, page)}

PageAllowed(derived, page, decision) ==
    decision = "no-missed-act" => "page-unread" \notin PageCodesOf(derived, page)

-----------------------------------------------------------------------------
(* apply_decisions: pages first, then the units on them.                   *)

(* Mutant: a stale decision leaves nothing behind.                         *)
CarriedNever(scope, subject, kind, stale) == {}

(* _carried: the codes stale holding decisions leave on a subject no       *)
(* current decision is about.                                              *)
Carried(scope, subject, kind, stale) ==
    IF kind # "none" THEN {}
    ELSE UNION {CarriedCodes(scope, d.decision) :
                  d \in {e \in stale : e.scope = scope /\ e.subject = subject}}

(* Mutant: excluding the last act of a page holds nothing.                 *)
NoActLeftUnheld(acts, excluded) == {}

(* A page whose every act is excluded is held as one with no act.          *)
NoActLeft(acts, excluded) ==
    IF acts # {} /\ acts \subseteq excluded THEN {"no-act-on-page"} ELSE {}

(* _page_result, of a page a decision of this kind is about, with the      *)
(* machine's codes of it and those its exclusions leave it with.           *)
PageLeft(page, kind, machine, codes, stale) ==
    LET cleared == IF kind = "no-missed-act" THEN codes ELSE {}
        added == AddedCodes("page", kind)
        carried == Carried("page", page, kind, stale)
        holds == (codes \ cleared) \cup added \cup carried
    IN  [kind |-> kind, hold_codes |-> holds, cleared |-> cleared, added |-> added,
         carried |-> carried, raised |-> holds \ machine]

PageResult(derived, decisions, current, page) ==
    PageLeft(page, PageKind(current, page), PageCodesOf(derived, page),
             PageCodesOf(derived, page)
               \cup NoActLeft(ActUnits(derived, page), ExcludedUnits(derived, decisions)),
             decisions \ current)

(* _unit_result: the codes left on a unit a decision of this kind is about *)
(* and its outcome, on a page with this result.                            *)
UnitLeft(a, unit, kind, page, stale) ==
    LET cleared == IF kind \in ClearsUnit THEN UnitCodes(unit) ELSE {}
        page_held == ((PageCodes(unit) \ page.cleared) \cup page.raised)
                       \ (IF kind = "exclude" THEN {"no-act-on-page"} ELSE {})
        holds == (UnitCodes(unit) \ cleared) \cup page_held
                   \cup AddedCodes("unit", kind) \cup page.added
                   \cup Carried("unit", a, kind, stale) \cup page.carried
    IN  [outcome |-> IF kind = "exclude" THEN "excluded" ELSE DerivedOutcome(holds, unit.class),
         hold_codes |-> holds, kind |-> kind,
         cleared_unit |-> cleared, cleared_page |-> PageCodes(unit) \cap page.cleared]

UnitResult(derived, decisions, current, a) ==
    UnitLeft(a, derived[a], UnitKind(derived, decisions, a),
             PageResult(derived, decisions, current, derived[a].page), decisions \ current)

-----------------------------------------------------------------------------
(* operator_override: the decisions an accepted review of a held reading   *)
(* rests on, looked for again by every stage that establishes it.          *)
Override(a, unit, row, result, current) ==
    LET edit == result.kind = "edit"
        named(scope, subject, decision) ==
            \E d \in current :
                d.scope = scope /\ d.subject = subject /\ d.decision = decision
    IN  /\ row # {}
        /\ row \subseteq result.cleared_unit \cup result.cleared_page
        /\ Overridable(unit.class, row, edit)
        /\ row \cap result.cleared_unit # {} =>
             named("unit", a, IF edit THEN "edit" ELSE "release")
        /\ row \cap result.cleared_page # {} => named("page", unit.page, "no-missed-act")

(* require_establishable: the row was read unheld, or is overridden. (The  *)
(* machine's own release of a confirmed page leaves it no code, so such a  *)
(* unit is accepted with no decision and does not come here.)              *)
Establishable(a, unit, row, result, current) ==
    row = {} \/ Override(a, unit, row, result, current)

(* decide_reviews: a release the export cannot carry stays held            *)
(* (_not_establishable, _reading_held).                                    *)
DecidedOutcome(a, unit, row, result, current) ==
    LET edit == result.kind = "edit"
        refused == \/ /\ row # {} \/ edit
                      /\ ~Overridable(unit.class, row, edit)
                   \/ ~Establishable(a, unit, row, result, current)
    IN  IF /\ result.outcome = "accepted"
           /\ MachineOutcome(unit) # "accepted"
           /\ unit.class \in ReadingClasses
           /\ refused
        THEN "held-for-review" ELSE result.outcome

DecidedGiven(derived, decisions, current, a) ==
    DecidedOutcome(a, derived[a], RowCodes(derived, a),
                   UnitResult(derived, decisions, current, a), current)

Decided(derived, decisions, a) ==
    DecidedGiven(derived, decisions, Current(derived, decisions), a)
=============================================================================
