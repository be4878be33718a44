-------------------------- MODULE ReviewDeskProofs --------------------------
(***************************************************************************)
(* What holds of review decisions for any pages, people, readings, hold    *)
(* codes and numbers of decisions, re-reads and measurements.              *)
(*                                                                         *)
(* A decision binds to a review as it was shown, and the outcome of a unit *)
(* is computed from the review as it is now.  The invariant relates the    *)
(* two through what was published: what a decision that was stored binds   *)
(* to is never newer than what is published of its unit, what is published *)
(* never newer than what is measured, and of two decisions about a unit    *)
(* the later one never binds to an older measurement.                      *)
(***************************************************************************)
EXTENDS ReviewDesk, SequenceTheorems, TLAPS

-----------------------------------------------------------------------------
(* The decisions' rules.                                                   *)

\* One decision made is that decision, and none or several are not one.
LEMMA OneKindIs ==
  ASSUME NEW said, NEW kind, kind \notin {"none", "conflict"}, OneKind(said) = kind
  PROVE  \E k \in said : k[1] = kind
BY DEF OneKind

LEMMA OneKindOf ==
  ASSUME NEW said, NEW k \in said
  PROVE  OneKind(said) \in {k[1], "conflict"}
BY DEF OneKind

\* A unit that is left a hold code, and is not excluded, is held, and no release
\* of the export takes that back.
LEMMA LeftHeld ==
  ASSUME NEW derived, NEW decisions, NEW a, UnitKind(derived, decisions, a) # "exclude",
         UnitResult(derived, decisions, Current(derived, decisions), a).hold_codes # {}
  PROVE  Decided(derived, decisions, a) = "held-for-review"
BY DEF Decided, DecidedGiven, DecidedOutcome, UnitResult, UnitLeft, DerivedOutcome

LEMMA AddedHolds ==
  ASSUME NEW derived, NEW decisions, NEW a, UnitKind(derived, decisions, a) \in {"hold", "conflict"}
  PROVE  Decided(derived, decisions, a) = "held-for-review"
<1>1. AddedCodes("unit", UnitKind(derived, decisions, a)) # {}
  BY DEF AddedCodes
<1>2. UnitResult(derived, decisions, Current(derived, decisions), a).hold_codes # {}
  BY <1>1 DEF UnitResult, UnitLeft
<1> QED
  BY <1>2, LeftHeld

\* A decision about a unit as it is now is one of those its kind is made of.
LEMMA CurrentIsSaid ==
  ASSUME NEW derived, NEW decisions, NEW d \in decisions, UnitCurrent(derived, d)
  PROVE  UnitKind(derived, decisions, d.subject) \in {d.decision, "conflict"}
<1> DEFINE said == {<<e.decision, e.text>> :
              e \in {x \in decisions : x.subject = d.subject /\ UnitCurrent(derived, x)}}
<1>1. <<d.decision, d.text>> \in said
  OBVIOUS
<1>2. <<d.decision, d.text>>[1] = d.decision
  OBVIOUS
<1> HIDE DEF said
<1>3. OneKind(said) \in {d.decision, "conflict"}
  BY <1>1, <1>2, OneKindOf
<1> QED
  BY <1>3 DEF UnitKind, said

\* Two people who decide differently about a unit as it is now leave it held
\* (review_decisions.py, _current_kind_by_subject): by the rules alone, in every state.
LEMMA Disagreement == DisagreementHolds
<1> SUFFICES ASSUME NEW a \in DOMAIN Derived, NEW i \in DOMAIN stored, NEW j \in DOMAIN stored,
                    UnitCurrent(Derived, stored[i]), UnitCurrent(Derived, stored[j]),
                    stored[i].subject = a, stored[j].subject = a,
                    <<stored[i].decision, stored[i].text>> # <<stored[j].decision, stored[j].text>>
             PROVE  Outcome(a) = "held-for-review"
  BY DEF DisagreementHolds
<1> DEFINE said == {<<e.decision, e.text>> :
              e \in {x \in Decisions : x.subject = a /\ UnitCurrent(Derived, x)}}
<1>1. stored[i] \in Decisions /\ stored[j] \in Decisions
  BY DEF Decisions, ToSet
<1>2. <<stored[i].decision, stored[i].text>> \in said /\ <<stored[j].decision, stored[j].text>> \in said
  BY <1>1
<1>3. OneKind(said) = "conflict"
  <2> HIDE DEF said
  <2> QED
    BY <1>2 DEF OneKind
<1>4. UnitKind(Derived, Decisions, a) = "conflict"
  BY <1>3 DEF UnitKind
<1> QED
  BY <1>4, AddedHolds DEF Outcome

-----------------------------------------------------------------------------
(* The inductive invariant.                                                *)

Typed ==
  /\ reading \in [Page -> [n : Nat, review : Reviews]]
  /\ measure \in [Page -> Nat]
  /\ DOMAIN desk = Person
  /\ stored \in Seq(ToSet(stored))
  /\ seen \in Seq(ToSet(seen))
  /\ Len(seen) = Len(stored)

\* What is published of a unit is never newer than what is measured of it, and
\* published from the same measurement it is that measurement.
PublishedLags ==
  \A a \in DOMAIN published :
    /\ a[1] \in Page /\ a[2] \in Nat /\ a[2] <= reading[a[1]].n
    /\ published[a].measure \in Nat
    /\ a[2] = reading[a[1]].n =>
         /\ published[a].measure <= measure[a[1]]
         /\ published[a].measure = measure[a[1]] => published[a] = Measured(a[1], a[3])

\* A decision being confirmed binds to what its person was shown.
DeskBinds ==
  \A o \in Person : desk[o] # NoDecision => desk[o].saw = desk[o].made.basis

(* A decision about the unit and its basis, one that allowed it and is     *)
(* never newer than what is published.                                     *)
UnitBinds(d) ==
  /\ d.subject \in DOMAIN published
  /\ d.basis = UnitBasis(d.basis.units, d.subject)
  /\ UnitAllowed(d.basis.units[d.subject], d.decision)
  /\ d.basis.units[d.subject].measure \in Nat
  /\ d.basis.units[d.subject].measure <= published[d.subject].measure
  /\ d.basis.units[d.subject].measure = published[d.subject].measure =>
       d.basis.units[d.subject] = published[d.subject]

StoredBinds ==
  \A i \in DOMAIN stored :
    /\ seen[i] = stored[i].basis
    /\ stored[i].scope = "unit" => UnitBinds(stored[i])
    /\ stored[i].scope = "page" =>
         PageAllowed(stored[i].basis.units, stored[i].subject, stored[i].decision)

\* Of two decisions about a unit the later one never binds to an older measurement.
StoredInOrder ==
  \A i, j \in DOMAIN stored :
    /\ stored[i].scope = "unit" /\ stored[j].scope = "unit"
    /\ stored[i].subject = stored[j].subject
    /\ i < j
    => stored[i].basis.units[stored[i].subject].measure
         <= stored[j].basis.units[stored[i].subject].measure

Bound == Typed /\ PublishedLags /\ DeskBinds /\ StoredBinds /\ StoredInOrder

\* A counted unit is one of the current reading of its page, measured.
LEMMA DerivedUnit ==
  ASSUME NEW a \in DOMAIN Derived
  PROVE  /\ a[1] \in Page /\ a[2] = reading[a[1]].n
         /\ a[3] \in DOMAIN reading[a[1]].review.units
         /\ Derived[a] = Measured(a[1], a[3])
         /\ Derived[a].measure = measure[a[1]] /\ Derived[a].page = a[1]
<1>1. PICK p \in Page : a \in UnitsOf(p)
  BY DEF Derived
<1>2. PICK n \in DOMAIN reading[p].review.units : a = <<p, reading[p].n, n>>
  BY <1>1 DEF UnitsOf
<1>3. Derived[a] = Measured(a[1], a[3])
  BY DEF Derived
<1>4. Measured(a[1], a[3]).measure = measure[a[1]] /\ Measured(a[1], a[3]).page = a[1]
  BY DEF Measured
<1> QED
  BY <1>2, <1>3, <1>4

\* A published unit that is not of an earlier reading.
LEMMA PublishedUnit ==
  ASSUME NEW a \in DOMAIN Published
  PROVE  a \in DOMAIN published /\ a[2] = reading[a[1]].n /\ Published[a] = published[a]
BY DEF Published

\* What is measured of a page depends on its reading and its measurement alone.
LEMMA MeasuredStays ==
  ASSUME NEW p, NEW n, reading'[p] = reading[p], measure'[p] = measure[p]
  PROVE  Measured(p, n)' = Measured(p, n)
BY DEF Measured

\* The codes of a page are those of its own units.
LEMMA PageCodesOfFacts ==
  ASSUME NEW derived, NEW p
  PROVE  PageCodesOf(Facts(derived, OnPage(derived, p)), p) = PageCodesOf(derived, p)
<1> DEFINE there == OnPage(derived, p)
<1>1. OnPage(Facts(derived, there), p) = there
  BY DEF OnPage, Facts
<1>2. \A a \in there : Facts(derived, there)[a] = derived[a]
  BY DEF Facts
<1>3. PageCodesOf(Facts(derived, there), p)
        = UNION {PageCodes(Facts(derived, there)[a]) : a \in there}
  BY <1>1 DEF PageCodesOf
<1>4. {PageCodes(Facts(derived, there)[a]) : a \in there} = {PageCodes(derived[a]) : a \in there}
  BY <1>2
<1> QED
  BY <1>3, <1>4 DEF PageCodesOf

\* The sequence with one more element.
LEMMA Appended ==
  ASSUME NEW s, s \in Seq(ToSet(s)), NEW x
  PROVE  /\ Append(s, x) \in Seq(ToSet(Append(s, x)))
         /\ Len(Append(s, x)) = Len(s) + 1 /\ DOMAIN s = 1..Len(s)
         /\ DOMAIN Append(s, x) = 1..(Len(s) + 1)
         /\ \A i \in 1..Len(s) : Append(s, x)[i] = s[i]
         /\ Append(s, x)[Len(s) + 1] = x
<1> DEFINE t == Append(s, x)
<1>1. s \in Seq(ToSet(s) \cup {x})
  OBVIOUS
<1>2. /\ t \in Seq(ToSet(s) \cup {x})
      /\ Len(t) = Len(s) + 1 /\ DOMAIN s = 1..Len(s) /\ DOMAIN t = 1..(Len(s) + 1)
      /\ \A i \in 1..Len(s) : t[i] = s[i]
      /\ t[Len(s) + 1] = x
  BY <1>1, AppendProperties, LenProperties
<1>3. t \in Seq(ToSet(t))
  <2>1. \A i \in 1..Len(t) : t[i] \in ToSet(t)
    BY <1>2 DEF ToSet
  <2> QED
    BY <1>2, <2>1
<1> QED
  BY <1>2, <1>3

-----------------------------------------------------------------------------
(* It holds at first and every step keeps it.                              *)

LEMMA InitBound == Init => Bound
<1> SUFFICES ASSUME Init PROVE Bound
  OBVIOUS
<1>1. Typed
  BY DEF Init, Typed, ToSet
<1>2. stored = << >> /\ published = << >> /\ DOMAIN stored = {} /\ DOMAIN published = {}
  BY DEF Init
<1>3. DeskBinds
  BY DEF Init, DeskBinds
<1> QED
  BY <1>1, <1>2, <1>3 DEF Bound, PublishedLags, StoredBinds, StoredInOrder

\* Only Record changes what is stored; what was stored stays bound as long as what
\* is published of its unit is not replaced by an older or an unequal measurement.
LEMMA StoredStays ==
  ASSUME Bound, stored' = stored, seen' = seen,
         \A a \in DOMAIN published :
           /\ a \in DOMAIN published'
           /\ published[a].measure <= published'[a].measure
           /\ published'[a].measure \in Nat
           /\ published[a].measure = published'[a].measure => published'[a] = published[a]
  PROVE  StoredBinds' /\ StoredInOrder'
<1>1. ASSUME NEW i \in DOMAIN stored, stored[i].scope = "unit"
      PROVE  UnitBinds(stored[i])'
  <2> DEFINE d == stored[i]
  <2>1. UnitBinds(d) /\ d' = d
    BY <1>1 DEF Bound, StoredBinds
  <2>2. published[d.subject].measure \in Nat
    BY <2>1 DEF UnitBinds, Bound, PublishedLags
  <2> QED
    BY <2>1, <2>2 DEF UnitBinds
<1>2. StoredBinds'
  BY <1>1 DEF Bound, StoredBinds
<1> QED
  BY <1>2 DEF Bound, StoredInOrder

LEMMA PublishReviewBound == ASSUME Bound, NEW a \in DOMAIN Derived, PublishReview(a) PROVE Bound'
<1>1. /\ UNCHANGED <<reading, measure, desk, stored, seen>>
      /\ DOMAIN published' = DOMAIN published \cup {a}
      /\ published'[a] = Derived[a]
      /\ \A b \in DOMAIN published : b # a => published'[b] = published[b]
  BY DEF PublishReview
<1>2. /\ a[1] \in Page /\ a[2] = reading[a[1]].n /\ Derived[a] = Measured(a[1], a[3])
      /\ Derived[a].measure = measure[a[1]]
  BY DerivedUnit
<1>3. reading[a[1]].n \in Nat /\ measure[a[1]] \in Nat
  BY <1>2 DEF Bound, Typed
<1>4. \A b : Measured(b[1], b[3])' = Measured(b[1], b[3])
  BY <1>1, MeasuredStays
<1>5. PublishedLags'
  <2> SUFFICES ASSUME NEW b \in DOMAIN published'
               PROVE  /\ b[1] \in Page /\ b[2] \in Nat /\ b[2] <= reading[b[1]].n
                      /\ published'[b].measure \in Nat
                      /\ b[2] = reading[b[1]].n =>
                           /\ published'[b].measure <= measure[b[1]]
                           /\ published'[b].measure = measure[b[1]]
                                => published'[b] = Measured(b[1], b[3])
    BY <1>1, <1>4 DEF PublishedLags
  <2>1. CASE b = a
    BY <2>1, <1>1, <1>2, <1>3
  <2>2. CASE b # a
    BY <2>2, <1>1 DEF Bound, PublishedLags
  <2> QED
    BY <2>1, <2>2
<1>6. StoredBinds' /\ StoredInOrder'
  <2>1. ASSUME a \in DOMAIN published
        PROVE  /\ published[a].measure <= measure[a[1]]
               /\ published[a].measure = measure[a[1]] => published[a] = Derived[a]
    BY <2>1, <1>2 DEF Bound, PublishedLags
  <2>2. \A b \in DOMAIN published : published[b].measure \in Nat
    BY DEF Bound, PublishedLags
  <2>3. \A b \in DOMAIN published :
           /\ b \in DOMAIN published'
           /\ published[b].measure <= published'[b].measure
           /\ published'[b].measure \in Nat
           /\ published[b].measure = published'[b].measure => published'[b] = published[b]
    <3> TAKE b \in DOMAIN published
    <3>1. CASE b = a
      BY <3>1, <2>1, <1>1, <1>2, <1>3
    <3>2. CASE b # a
      BY <3>2, <2>2, <1>1
    <3> QED
      BY <3>1, <3>2
  <2> QED
    BY <2>3, <1>1, StoredStays
<1>7. Typed' /\ DeskBinds'
  BY <1>1 DEF Bound, Typed, DeskBinds
<1> QED
  BY <1>5, <1>6, <1>7 DEF Bound

LEMMA RemeasureBound == ASSUME Bound, NEW page \in Page, Remeasure(page) PROVE Bound'
<1>1. PICK r \in Reviews : reading' = [reading EXCEPT ![page].review = r]
  BY DEF Remeasure
<1>2. /\ measure' = [measure EXCEPT ![page] = @ + 1]
      /\ UNCHANGED <<published, desk, stored, seen>>
  BY DEF Remeasure
<1>3. reading \in [Page -> [n : Nat, review : Reviews]] /\ measure \in [Page -> Nat]
  BY DEF Bound, Typed
<1>4. /\ reading' \in [Page -> [n : Nat, review : Reviews]] /\ measure' \in [Page -> Nat]
      /\ \A p \in Page : reading'[p].n = reading[p].n
      /\ \A p \in Page : p # page => reading'[p] = reading[p] /\ measure'[p] = measure[p]
      /\ measure'[page] = measure[page] + 1
  BY <1>1, <1>2, <1>3
<1>5. PublishedLags'
  <2> SUFFICES ASSUME NEW b \in DOMAIN published
               PROVE  /\ b[1] \in Page /\ b[2] \in Nat /\ b[2] <= reading'[b[1]].n
                      /\ published[b].measure \in Nat
                      /\ b[2] = reading'[b[1]].n =>
                           /\ published[b].measure <= measure'[b[1]]
                           /\ published[b].measure = measure'[b[1]]
                                => published[b] = Measured(b[1], b[3])'
    BY <1>2 DEF PublishedLags
  <2>1. /\ b[1] \in Page /\ b[2] \in Nat /\ b[2] <= reading[b[1]].n
        /\ published[b].measure \in Nat
        /\ b[2] = reading[b[1]].n =>
             /\ published[b].measure <= measure[b[1]]
             /\ published[b].measure = measure[b[1]] => published[b] = Measured(b[1], b[3])
    BY DEF Bound, PublishedLags
  <2>2. CASE b[1] = page
    <3>1. measure[page] \in Nat
      BY <1>3
    <3> QED
      BY <2>1, <2>2, <1>4, <3>1
  <2>3. CASE b[1] # page
    <3>1. Measured(b[1], b[3])' = Measured(b[1], b[3])
      BY <2>1, <2>3, <1>4, MeasuredStays
    <3> QED
      BY <2>1, <2>3, <1>4, <3>1
  <2> QED
    BY <2>2, <2>3
<1>6. StoredBinds' /\ StoredInOrder'
  BY <1>2, StoredStays DEF Bound, PublishedLags
<1>7. Typed' /\ DeskBinds'
  BY <1>2, <1>4 DEF Bound, Typed, DeskBinds
<1> QED
  BY <1>5, <1>6, <1>7 DEF Bound

LEMMA RereadBound == ASSUME Bound, NEW page \in Page, Reread(page) PROVE Bound'
<1>1. PICK r \in Reviews :
        reading' = [reading EXCEPT ![page] = [n |-> @.n + 1, review |-> r]]
  BY DEF Reread
<1>2. /\ measure' = [measure EXCEPT ![page] = 1]
      /\ UNCHANGED <<published, desk, stored, seen>>
  BY DEF Reread
<1>3. reading \in [Page -> [n : Nat, review : Reviews]] /\ measure \in [Page -> Nat]
  BY DEF Bound, Typed
<1>4. /\ reading' \in [Page -> [n : Nat, review : Reviews]] /\ measure' \in [Page -> Nat]
      /\ \A p \in Page : p # page => reading'[p] = reading[p] /\ measure'[p] = measure[p]
      /\ reading'[page].n = reading[page].n + 1 /\ reading[page].n \in Nat
  BY <1>1, <1>2, <1>3
<1>5. PublishedLags'
  <2> SUFFICES ASSUME NEW b \in DOMAIN published
               PROVE  /\ b[1] \in Page /\ b[2] \in Nat /\ b[2] <= reading'[b[1]].n
                      /\ published[b].measure \in Nat
                      /\ b[2] = reading'[b[1]].n =>
                           /\ published[b].measure <= measure'[b[1]]
                           /\ published[b].measure = measure'[b[1]]
                                => published[b] = Measured(b[1], b[3])'
    BY <1>2 DEF PublishedLags
  <2>1. /\ b[1] \in Page /\ b[2] \in Nat /\ b[2] <= reading[b[1]].n
        /\ published[b].measure \in Nat
        /\ b[2] = reading[b[1]].n =>
             /\ published[b].measure <= measure[b[1]]
             /\ published[b].measure = measure[b[1]] => published[b] = Measured(b[1], b[3])
    BY DEF Bound, PublishedLags
  <2>2. CASE b[1] = page
    BY <2>1, <2>2, <1>4
  <2>3. CASE b[1] # page
    <3>1. Measured(b[1], b[3])' = Measured(b[1], b[3])
      BY <2>1, <2>3, <1>4, MeasuredStays
    <3> QED
      BY <2>1, <2>3, <1>4, <3>1
  <2> QED
    BY <2>2, <2>3
<1>6. StoredBinds' /\ StoredInOrder'
  BY <1>2, StoredStays DEF Bound, PublishedLags
<1>7. Typed' /\ DeskBinds'
  BY <1>2, <1>4 DEF Bound, Typed, DeskBinds
<1> QED
  BY <1>5, <1>6, <1>7 DEF Bound

\* Preparing and discarding touch the desk alone.
LEMMA DeskOnly ==
  ASSUME Bound, UNCHANGED <<reading, measure, published, stored, seen>>,
         DOMAIN desk' = Person, DeskBinds'
  PROVE  Bound'
<1>1. \A b : Measured(b[1], b[3])' = Measured(b[1], b[3])
  BY MeasuredStays
<1>2. PublishedLags'
  BY <1>1 DEF Bound, PublishedLags
<1>3. StoredBinds' /\ StoredInOrder'
  BY StoredStays DEF Bound, PublishedLags
<1> QED
  BY <1>2, <1>3 DEF Bound, Typed

LEMMA PrepareBound == ASSUME Bound, NEW o \in Person, Prepare(o) PROVE Bound'
<1>1. UNCHANGED <<reading, measure, published, stored, seen>>
  BY DEF Prepare
<1>2. PICK made, saw : saw = made.basis /\ desk' = [desk EXCEPT ![o] = [made |-> made, saw |-> saw]]
  <2>1. ASSUME NEW a \in DOMAIN Published, NEW decision, NEW text,
               desk' = [desk EXCEPT ![o] =
                 [made |-> [scope |-> "unit", subject |-> a, page |-> a[1],
                            decision |-> decision, text |-> text,
                            basis |-> UnitBasis(Published, a)],
                  saw |-> [units |-> Facts(Published, {a}), excluded |-> {}]]]
        PROVE  \E made, saw : /\ saw = made.basis
                              /\ desk' = [desk EXCEPT ![o] = [made |-> made, saw |-> saw]]
    BY <2>1 DEF UnitBasis
  <2>2. ASSUME NEW page \in Page, NEW decision,
               desk' = [desk EXCEPT ![o] =
                 [made |-> [scope |-> "page", subject |-> page, page |-> page,
                            decision |-> decision, text |-> NoText,
                            basis |-> PageBasis(Published, page, PublishedExcluded)],
                  saw |-> [units |-> Facts(Published, OnPage(Published, page)),
                           excluded |-> PublishedExcluded \cap ActUnits(Published, page)]]]
        PROVE  \E made, saw : /\ saw = made.basis
                              /\ desk' = [desk EXCEPT ![o] = [made |-> made, saw |-> saw]]
    BY <2>2 DEF PageBasis
  <2> QED
    BY <2>1, <2>2, Zenon DEF Prepare
<1>3. DOMAIN desk' = Person /\ DeskBinds'
  BY <1>2 DEF Bound, Typed, DeskBinds
<1> QED
  BY <1>1, <1>3, DeskOnly

LEMMA DiscardBound == ASSUME Bound, NEW o \in Person, Discard(o) PROVE Bound'
<1>1. DOMAIN desk' = Person /\ DeskBinds'
  BY DEF Bound, Typed, DeskBinds, Discard
<1> QED
  BY <1>1, DeskOnly DEF Discard

\* What is written binds to what is published as it is written.
LEMMA RecordBound == ASSUME Bound, NEW o \in Person, Record(o) PROVE Bound'
<1> DEFINE d == desk[o].made
           k == Len(stored) + 1
<1>1. /\ stored' = Append(stored, d) /\ seen' = Append(seen, desk[o].saw)
      /\ desk[o] # NoDecision /\ desk' = [desk EXCEPT ![o] = NoDecision]
      /\ UNCHANGED <<reading, measure, published>>
  BY DEF Record
<1>2. desk[o].saw = d.basis
  BY <1>1 DEF Bound, DeskBinds
<1> HIDE DEF d
<1>3. Len(stored) \in Nat /\ Len(seen) = Len(stored)
  BY LenProperties DEF Bound, Typed
<1>4. /\ stored' \in Seq(ToSet(stored')) /\ seen' \in Seq(ToSet(seen'))
      /\ Len(seen') = Len(stored') /\ DOMAIN stored = 1..Len(stored) /\ DOMAIN stored' = 1..k
      /\ \A i \in 1..Len(stored) : stored'[i] = stored[i] /\ seen'[i] = seen[i]
      /\ stored'[k] = d /\ seen'[k] = d.basis
  BY <1>1, <1>2, <1>3, Appended DEF Bound, Typed
<1>5. Typed' /\ DeskBinds'
  BY <1>1, <1>4 DEF Bound, Typed, DeskBinds
<1>6. PublishedLags'
  <2>1. \A b : Measured(b[1], b[3])' = Measured(b[1], b[3])
    BY <1>1, MeasuredStays
  <2> QED
    BY <1>1, <2>1 DEF Bound, PublishedLags
<1>7. /\ d.scope = "unit" \/ d.scope = "page"
      /\ d.scope = "unit" =>
           /\ d.subject \in DOMAIN Published /\ d.basis = UnitBasis(Published, d.subject)
           /\ UnitAllowed(Published[d.subject], d.decision)
      /\ d.scope = "page" =>
           /\ d.basis = PageBasis(Published, d.subject, PublishedExcluded)
           /\ PageAllowed(Published, d.subject, d.decision)
  BY DEF Record, Recordable, Allowed, UnitCurrent, PageCurrent, d
<1>8. ASSUME d.scope = "unit"
      PROVE  UnitBinds(d) /\ d.basis.units[d.subject] = published[d.subject]
  <2>1. /\ d.subject \in DOMAIN published /\ Published[d.subject] = published[d.subject]
        /\ published[d.subject].measure \in Nat
    BY <1>7, <1>8, PublishedUnit DEF Bound, PublishedLags
  <2>2. d.basis.units[d.subject] = published[d.subject]
    BY <1>7, <1>8, <2>1 DEF UnitBasis, Facts
  <2>3. d.basis = UnitBasis(d.basis.units, d.subject)
    BY <1>7, <1>8 DEF UnitBasis, Facts
  <2> QED
    BY <1>7, <1>8, <2>1, <2>2, <2>3 DEF UnitBinds
<1>9. ASSUME d.scope = "page"
      PROVE  PageAllowed(d.basis.units, d.subject, d.decision)
  BY <1>7, <1>9, PageCodesOfFacts DEF PageBasis, PageAllowed
<1>10. StoredBinds'
  <2> SUFFICES ASSUME NEW i \in 1..k
               PROVE  /\ seen'[i] = stored'[i].basis
                      /\ stored'[i].scope = "unit" => UnitBinds(stored'[i])
                      /\ stored'[i].scope = "page" =>
                           PageAllowed(stored'[i].basis.units, stored'[i].subject,
                                       stored'[i].decision)
    BY <1>1, <1>4 DEF StoredBinds, UnitBinds
  <2>1. CASE i = k
    BY <2>1, <1>4, <1>8, <1>9
  <2>2. CASE i # k
    <3>1. i \in 1..Len(stored)
      BY <2>2, <1>3
    <3> QED
      BY <3>1, <1>4 DEF Bound, StoredBinds
  <2> QED
    BY <2>1, <2>2
<1>11. StoredInOrder'
  <2> SUFFICES ASSUME NEW i \in 1..k, NEW j \in 1..k, i < j,
                      stored'[i].scope = "unit", stored'[j].scope = "unit",
                      stored'[i].subject = stored'[j].subject
               PROVE  stored'[i].basis.units[stored'[i].subject].measure
                        <= stored'[j].basis.units[stored'[i].subject].measure
    BY <1>4 DEF StoredInOrder
  <2>1. i \in 1..Len(stored) /\ stored'[i] = stored[i]
    BY <1>3, <1>4
  <2>2. CASE j = k
    <3>1. UnitBinds(stored[i])
      BY <2>1, <1>4 DEF Bound, StoredBinds
    <3>2. d.basis.units[d.subject] = published[d.subject] /\ stored'[j] = d
      BY <2>2, <1>4, <1>8
    <3> QED
      BY <3>1, <3>2, <2>1 DEF UnitBinds
  <2>3. CASE j # k
    <3>1. j \in 1..Len(stored) /\ stored'[j] = stored[j]
      BY <2>3, <1>3, <1>4
    <3> QED
      BY <2>1, <3>1, <1>4 DEF Bound, StoredInOrder
  <2> QED
    BY <2>2, <2>3
<1> QED
  BY <1>5, <1>6, <1>10, <1>11 DEF Bound

LEMMA StutterBound == ASSUME Bound, UNCHANGED vars PROVE Bound'
<1>1. DOMAIN desk' = Person /\ DeskBinds'
  BY DEF Bound, Typed, DeskBinds, vars
<1> QED
  BY <1>1, DeskOnly DEF vars

LEMMA NextBound == ASSUME Bound, [Next]_vars PROVE Bound'
<1>1. CASE \E a \in DOMAIN Derived : PublishReview(a)
  BY <1>1, PublishReviewBound
<1>2. CASE \E page \in Page : Remeasure(page) \/ Reread(page)
  BY <1>2, RemeasureBound, RereadBound
<1>3. CASE \E o \in Person : Prepare(o) \/ Record(o) \/ Discard(o)
  BY <1>3, PrepareBound, RecordBound, DiscardBound
<1>4. CASE UNCHANGED vars
  BY <1>4, StutterBound
<1> QED
  BY <1>1, <1>2, <1>3, <1>4 DEF Next

\* A decision binds to a review as its person was shown it, never to one newer than
\* what is published nor, of two about a unit, out of the order they were written in
\* (decide.py prepare_decision and record_decision, review_decisions.py).
THEOREM DecisionsBind == Spec => []Bound
<1>1. Init => Bound
  BY InitBound
<1>2. Bound /\ [Next]_vars => Bound'
  BY NextBound
<1> QED
  BY <1>1, <1>2, PTL DEF Spec

-----------------------------------------------------------------------------
(* What the invariant shows.                                               *)

\* Two current decisions that differ about a unit leave it held, whoever made them and
\* in whatever order (review_decisions.py _current_kind_by_subject, _unit_result).
THEOREM DisagreementAlwaysHolds == Spec => []DisagreementHolds
BY Disagreement, PTL

\* What is current again was allowed of the same review when it was written.
LEMMA BoundApplicable == ASSUME Bound PROVE StoredIsApplicable
<1> SUFFICES ASSUME NEW d \in Current(Derived, Decisions) PROVE Allowed(Derived, d)
  BY DEF StoredIsApplicable
<1>1. PICK i \in DOMAIN stored : stored[i] = d
  BY DEF Current, CurrentGiven, Decisions, ToSet
<1>2. CASE UnitCurrent(Derived, d)
  <2>1. d.scope = "unit" /\ UnitAllowed(d.basis.units[d.subject], d.decision)
    BY <1>1, <1>2 DEF UnitCurrent, Bound, StoredBinds, UnitBinds
  <2>2. d.basis.units[d.subject] = Derived[d.subject]
    BY <1>2 DEF UnitCurrent, UnitBasis, Facts
  <2> QED
    BY <2>1, <2>2 DEF Allowed
<1>3. CASE PageCurrent(Derived, ExcludedUnits(Derived, Decisions), d)
  <2>1. d.scope = "page" /\ PageAllowed(d.basis.units, d.subject, d.decision)
    BY <1>1, <1>3 DEF PageCurrent, Bound, StoredBinds
  <2>2. d.basis.units = Facts(Derived, OnPage(Derived, d.subject))
    BY <1>3 DEF PageCurrent, PageBasis
  <2> QED
    BY <2>1, <2>2, PageCodesOfFacts DEF Allowed, PageAllowed
<1> QED
  BY <1>2, <1>3 DEF Current, CurrentGiven

\* No decision that was stored makes a later pass refuse the run
\* (review_decisions.py _require_allowed).
THEOREM StoredAlwaysApplicable == Spec => []StoredIsApplicable
BY DecisionsBind, BoundApplicable, PTL

\* A hold that is no longer about the review as it is leaves the code it carries, and
\* no older decision can be current in its place.
LEMMA BoundHoldStands == ASSUME Bound PROVE UnitHoldStands
<1> SUFFICES ASSUME NEW i \in DOMAIN stored,
                    stored[i].scope = "unit", stored[i].decision = "hold",
                    stored[i].subject \in DOMAIN Derived,
                    \A j \in DOMAIN stored :
                      stored[j].scope = "unit" /\ stored[j].subject = stored[i].subject => j <= i
             PROVE  Outcome(stored[i].subject) = "held-for-review"
  BY DEF UnitHoldStands
<1> DEFINE a == stored[i].subject
           said == {e \in Decisions : e.subject = a /\ UnitCurrent(Derived, e)}
<1>1. UnitBinds(stored[i]) /\ stored[i] \in Decisions
  BY DEF Bound, StoredBinds, Decisions, ToSet
<1>2. CASE said # {}
  <2>1. PICK j \in DOMAIN stored : stored[j].subject = a /\ UnitCurrent(Derived, stored[j])
    BY <1>2 DEF Decisions, ToSet
  <2>2. /\ stored[j].scope = "unit" /\ stored[j].basis = UnitBasis(Derived, a)
        /\ stored[j].basis.units[a] = Derived[a]
    BY <2>1 DEF UnitCurrent, UnitBasis, Facts
  <2>3. i \in Nat /\ j \in Nat /\ j <= i
    BY <2>1, <2>2, LenProperties DEF Bound, Typed
  <2>4. /\ Derived[a] = Measured(a[1], a[3]) /\ Derived[a].measure = measure[a[1]]
        /\ a[1] \in Page /\ a[2] = reading[a[1]].n
    BY DerivedUnit
  <2>5. /\ measure[a[1]] \in Nat /\ published[a].measure \in Nat
        /\ published[a].measure <= measure[a[1]]
        /\ published[a].measure = measure[a[1]] => published[a] = Derived[a]
    BY <1>1, <2>4 DEF Bound, Typed, PublishedLags, UnitBinds
  <2>6. measure[a[1]] <= stored[i].basis.units[a].measure
    <3>1. CASE j = i
      BY <3>1, <2>2, <2>4, <2>5
    <3>2. CASE j < i
      BY <3>2, <2>1, <2>2, <2>4 DEF Bound, StoredInOrder
    <3> QED
      BY <3>1, <3>2, <2>3
  <2>7. stored[i].basis.units[a] = Derived[a]
    BY <1>1, <2>5, <2>6 DEF UnitBinds
  <2>8. stored[i].basis = UnitBasis(Derived, a)
    BY <1>1, <2>7 DEF UnitBinds, UnitBasis, Facts
  <2>9. UnitKind(Derived, Decisions, a) \in {"hold", "conflict"}
    BY <1>1, <2>8, CurrentIsSaid DEF UnitCurrent
  <2> QED
    BY <2>9, AddedHolds DEF Outcome
<1>3. CASE said = {}
  <2>1. UnitKind(Derived, Decisions, a) = "none"
    BY <1>3 DEF UnitKind, OneKind
  <2> DEFINE stale == Decisions \ Current(Derived, Decisions)
  <2>2. stored[i] \in stale
    BY <1>1, <1>3 DEF Current, CurrentGiven, PageCurrent
  <2>3. CarriedCodes("unit", "hold") = {"review-hold-carried"}
    BY DEF CarriedCodes
  <2>4. "review-hold-carried" \in Carried("unit", a, "none", stale)
    BY <2>2, <2>3 DEF Carried
  <2>5. UnitResult(Derived, Decisions, Current(Derived, Decisions), a).hold_codes # {}
    BY <2>1, <2>4 DEF UnitResult, UnitLeft
  <2> QED
    BY <2>1, <2>5, LeftHeld DEF Outcome
<1> QED
  BY <1>2, <1>3

\* A unit on hold stays held, however its review is measured again, until a person
\* decides about it again (review_decisions.py _carried, _unit_result).
THEOREM HoldAlwaysStands == Spec => []UnitHoldStands
BY DecisionsBind, BoundHoldStands, PTL

\* A page of a kind other than none and conflict has a stored decision of that kind,
\* whose person was shown the page as it is now.
LEMMA PageKindSeen ==
  ASSUME Bound, NEW page, NEW kind, kind \notin {"none", "conflict"},
         PageKind(Current(Derived, Decisions), page) = kind
  PROVE  \E i \in DOMAIN stored :
           /\ stored[i].scope = "page" /\ stored[i].subject = page
           /\ stored[i].decision = kind
           /\ seen[i] = PageBasis(Derived, page, ExcludedUnits(Derived, Decisions))
<1> DEFINE current == Current(Derived, Decisions)
           made == {e \in current : e.scope = "page" /\ e.subject = page}
           said == {<<d.decision, d.text>> : d \in made}
<1>1. PICK k \in said : k[1] = kind
  <2>1. OneKind(said) = kind
    BY DEF PageKind
  <2> HIDE DEF said
  <2> QED
    BY <2>1, OneKindIs
<1>2. PICK d \in made : k = <<d.decision, d.text>>
  BY <1>1
<1>3. d.decision = kind /\ d.scope = "page" /\ d.subject = page /\ d \in current
  BY <1>1, <1>2
<1>4. d.basis = PageBasis(Derived, page, ExcludedUnits(Derived, Decisions)) /\ d \in Decisions
  BY <1>3 DEF Current, CurrentGiven, UnitCurrent, PageCurrent
<1>5. PICK i \in DOMAIN stored : stored[i] = d
  BY <1>4 DEF Decisions, ToSet
<1>6. seen[i] = d.basis
  BY <1>5 DEF Bound, StoredBinds
<1> QED
  BY <1>3, <1>4, <1>5, <1>6

LEMMA BoundClearedAsSeen == ASSUME Bound PROVE ClearedAsSeen
<1> SUFFICES ASSUME NEW page \in Page, PageNow(page).kind = "no-missed-act"
             PROVE  \E i \in DOMAIN stored :
                      /\ stored[i].scope = "page" /\ stored[i].subject = page
                      /\ stored[i].decision = "no-missed-act"
                      /\ seen[i] = PageBasis(Derived, page, ExcludedUnits(Derived, Decisions))
  BY DEF ClearedAsSeen, PageBasis
<1>1. PageKind(Current(Derived, Decisions), page) = "no-missed-act"
  BY DEF PageNow, PageResult, PageLeft
<1> QED
  BY <1>1, PageKindSeen

\* A page is cleared only by a person who was shown it as it is now
\* (review_decisions.py page_basis_digest).
THEOREM AlwaysClearedAsSeen == Spec => []ClearedAsSeen
BY DecisionsBind, BoundClearedAsSeen, PTL

\* What is measured of a unit, field by field: its entry, and a hold of its own or its
\* page's stays a code unless a confirmed page releases it.
LEMMA MeasuredIs ==
  ASSUME NEW p, NEW n, NEW review, review = reading[p].review
  PROVE  /\ Measured(p, n).kind = review.units[n].kind
         /\ Measured(p, n).class = review.units[n].class
         /\ Measured(p, n).holds = review.units[n].holds
         /\ Measured(p, n).page_holds
              = IF review.units[n].class \in PageRowClasses THEN {} ELSE review.page_holds
         /\ review.units[n].class \in ReadingClasses =>
              \A c \in review.units[n].holds \cup review.page_holds :
                c \notin {"page-blank", "no-act-on-page"} => Measured(p, n).codes # {}
         /\ /\ "no-act-on-page" \notin review.page_holds \cup review.page_own
            /\ "no-act-on-page" \notin review.units[n].holds \cup review.units[n].own
            /\ \E m \in DOMAIN review.units : review.units[m].kind = "act"
            => "no-act-on-page" \notin Measured(p, n).codes
<1> DEFINE entry == review.units[n]
           entries == {review.units[m] : m \in DOMAIN review.units}
           row == review.page_holds \cup
                    IF entry.class = "page-unread" THEN {"page-unread"}
                    ELSE IF entry.class = "page-blank" THEN {"page-blank"}
                    ELSE entry.holds \cup (IF \A e \in entries : e.kind # "act"
                                           THEN {"no-act-on-page"} ELSE {})
           own == entry.own \cup review.page_own
           released == /\ review.confirmed /\ own = {}
                       /\ row # {} /\ row \subseteq {"page-blank", "no-act-on-page"}
<1>1. Measured(p, n)
        = [page |-> p, class |-> entry.class, kind |-> entry.kind,
           codes |-> own \cup (IF released THEN {} ELSE row),
           holds |-> entry.holds,
           page_holds |-> IF entry.class \in PageRowClasses THEN {} ELSE review.page_holds,
           measure |-> measure[p]]
  BY DEF Measured
<1>2. Measured(p, n).codes = own \cup (IF released THEN {} ELSE row)
  BY <1>1
<1>3. ASSUME entry.class \in ReadingClasses, NEW c \in entry.holds \cup review.page_holds,
             c \notin {"page-blank", "no-act-on-page"}
      PROVE  Measured(p, n).codes # {}
  <2>1. c \in row
    BY <1>3 DEF ReadingClasses
  <2> QED
    BY <1>2, <1>3, <2>1
<1>4. ASSUME "no-act-on-page" \notin review.page_holds \cup review.page_own,
             "no-act-on-page" \notin entry.holds \cup entry.own,
             NEW m \in DOMAIN review.units, review.units[m].kind = "act"
      PROVE  "no-act-on-page" \notin Measured(p, n).codes
  <2>1. ~ \A e \in entries : e.kind # "act"
    BY <1>4
  <2>2. "no-act-on-page" \notin row /\ "no-act-on-page" \notin own
    BY <1>4, <2>1
  <2> QED
    BY <1>2, <2>2
<1>5. /\ Measured(p, n).kind = entry.kind /\ Measured(p, n).class = entry.class
      /\ Measured(p, n).holds = entry.holds
      /\ Measured(p, n).page_holds
           = IF entry.class \in PageRowClasses THEN {} ELSE review.page_holds
  BY <1>1
<1> QED
  BY <1>3, <1>4, <1>5

\* A page with an act has no measured code for having none.
LEMMA ActHasNoCode ==
  ASSUME Bound, NEW page, ActUnits(Derived, page) # {}
  PROVE  "no-act-on-page" \notin PageCodesOf(Derived, page)
<1> SUFFICES ASSUME NEW a \in OnPage(Derived, page)
             PROVE  "no-act-on-page" \notin Derived[a].codes
  BY DEF PageCodesOf, PageCodes
<1>1. PICK b \in DOMAIN Derived : Derived[b].page = page /\ Derived[b].kind = "act"
  BY DEF ActUnits, OnPage
<1>2. /\ a \in DOMAIN Derived /\ a[1] = page /\ b[1] = page /\ page \in Page
      /\ a[3] \in DOMAIN reading[page].review.units
      /\ b[3] \in DOMAIN reading[page].review.units
      /\ Derived[a] = Measured(page, a[3]) /\ Derived[b] = Measured(page, b[3])
  BY <1>1, DerivedUnit DEF OnPage
<1> DEFINE review == reading[page].review
<1>3. review \in Reviews
  BY <1>2 DEF Bound, Typed
<1>4. review.units[b[3]].kind = "act"
  BY <1>1, <1>2, MeasuredIs
<1>5. /\ "no-act-on-page" \notin review.page_holds \cup review.page_own
      /\ "no-act-on-page" \notin review.units[a[3]].holds \cup review.units[a[3]].own
  BY <1>2, <1>3, ReviewsAssumption
<1> QED
  BY <1>2, <1>4, <1>5, MeasuredIs

LEMMA BoundNoActWaits == ASSUME Bound PROVE NoActPageWaits
<1> SUFFICES ASSUME NEW page \in Page,
                    ActUnits(Derived, page) # {},
                    ActUnits(Derived, page) \subseteq ExcludedUnits(Derived, Decisions),
                    NEW a \in OnPage(Derived, page) \ ExcludedUnits(Derived, Decisions),
                    Outcome(a) = "accepted"
             PROVE  \E i \in DOMAIN stored :
                      /\ stored[i].scope = "page" /\ stored[i].subject = page
                      /\ stored[i].decision = "no-missed-act"
                      /\ seen[i].excluded = ActUnits(Derived, page)
  BY DEF NoActPageWaits
<1> DEFINE current == Current(Derived, Decisions)
           left == PageResult(Derived, Decisions, current, page)
<1>1. CASE PageKind(current, page) = "no-missed-act"
  <2>1. PICK i \in DOMAIN stored :
          /\ stored[i].scope = "page" /\ stored[i].subject = page
          /\ stored[i].decision = "no-missed-act"
          /\ seen[i] = PageBasis(Derived, page, ExcludedUnits(Derived, Decisions))
    BY <1>1, PageKindSeen
  <2>2. seen[i].excluded = ActUnits(Derived, page)
    BY <2>1 DEF PageBasis
  <2> QED
    BY <2>1, <2>2
<1>2. CASE PageKind(current, page) # "no-missed-act"
  <2>1. "no-act-on-page" \in left.raised
    <3>1. "no-act-on-page" \notin PageCodesOf(Derived, page)
      BY ActHasNoCode
    <3>2. "no-act-on-page"
            \in NoActLeft(ActUnits(Derived, page), ExcludedUnits(Derived, Decisions))
      BY DEF NoActLeft
    <3> QED
      BY <1>2, <3>1, <3>2 DEF PageResult, PageLeft
  <2>2. UnitKind(Derived, Decisions, a) # "exclude" /\ Derived[a].page = page
    BY DEF ExcludedUnits, OnPage
  <2>3. UnitResult(Derived, Decisions, current, a).hold_codes # {}
    BY <2>1, <2>2 DEF UnitResult, UnitLeft
  <2>4. Outcome(a) = "held-for-review"
    BY <2>2, <2>3, LeftHeld DEF Outcome
  <2> QED
    BY <2>4
<1> QED
  BY <1>1, <1>2

\* Once every act of a page is excluded the rest of it waits for a person who was shown
\* it so (review_decisions.py apply_decisions, _page_result).
THEOREM NoActPageAlwaysWaits == Spec => []NoActPageWaits
BY DecisionsBind, BoundNoActWaits, PTL

\* A unit the machine accepts has no hold the export cannot carry: it had none, or what
\* it had a confirmed page releases.
LEMMA AcceptedHolds ==
  ASSUME Bound, NEW a \in DOMAIN Derived, SealedHolds(Derived[a]) \cap NotOverridable # {}
  PROVE  Derived[a].class \in ReadingClasses /\ MachineOutcome(Derived[a]) # "accepted"
<1> DEFINE review == reading[a[1]].review
           entry == review.units[a[3]]
<1>1. /\ a[1] \in Page /\ a[3] \in DOMAIN review.units /\ Derived[a] = Measured(a[1], a[3])
      /\ review \in Reviews
  BY DerivedUnit DEF Bound, Typed
<1>2. /\ entry.class \in ReadingClasses \cup PageRowClasses
      /\ entry.class \in PageRowClasses => entry.holds = {}
  BY <1>1, ReviewsAssumption
<1>3. /\ Derived[a].class = entry.class /\ Derived[a].holds = entry.holds
      /\ Derived[a].page_holds = IF entry.class \in PageRowClasses THEN {} ELSE review.page_holds
  BY <1>1, MeasuredIs
<1>4. entry.class \in ReadingClasses /\ entry.class \notin PageRowClasses
  BY <1>2, <1>3 DEF SealedHolds, ReadingClasses, PageRowClasses
<1>5. SealedHolds(Derived[a]) = entry.holds \cup review.page_holds
  BY <1>3, <1>4 DEF SealedHolds
<1>6. PICK c : c \in entry.holds \cup review.page_holds /\ c \in NotOverridable
  BY <1>5
<1>7. c \notin {"page-blank", "no-act-on-page"}
  BY <1>6, OverridableAssumption
<1>8. Derived[a].codes # {}
  BY <1>1, <1>4, <1>6, <1>7, MeasuredIs
<1> QED
  BY <1>3, <1>4, <1>8 DEF MachineOutcome, DerivedOutcome

LEMMA BoundUnreadable == ASSUME Bound PROVE UnreadableNeedsText
<1> SUFFICES ASSUME NEW a \in DOMAIN Derived, Outcome(a) = "accepted",
                    SealedHolds(Derived[a]) \cap NotOverridable # {}
             PROVE  /\ SealedHolds(Derived[a]) \cap NotOverridable \subseteq EditCarries
                    /\ \E i \in DOMAIN stored :
                         /\ stored[i].subject = a /\ stored[i].decision = "edit"
                         /\ seen[i].units[a] = Derived[a]
  BY DEF UnreadableNeedsText
<1> DEFINE unit == Derived[a]
           row == RowCodes(Derived, a)
           current == Current(Derived, Decisions)
           result == UnitResult(Derived, Decisions, current, a)
           kind == UnitKind(Derived, Decisions, a)
<1>1. unit.class \in ReadingClasses /\ MachineOutcome(unit) # "accepted"
  BY AcceptedHolds
<1>2. SealedHolds(unit) \subseteq row
  BY DEF RowCodes
<1>3. DecidedOutcome(a, unit, row, result, current) = "accepted" /\ result.kind = kind
  BY DEF Outcome, Decided, DecidedGiven, UnitResult, UnitLeft
<1>4. Overridable(unit.class, row, kind = "edit")
  <2> HIDE DEF row, result, unit, current, kind
  <2> QED
    BY <1>1, <1>2, <1>3 DEF DecidedOutcome, unit
<1>5. kind = "edit" /\ SealedHolds(unit) \cap NotOverridable \subseteq EditCarries
  BY <1>2, <1>4 DEF Overridable
<1> DEFINE made == {e \in Decisions : e.subject = a /\ UnitCurrent(Derived, e)}
           said == {<<d.decision, d.text>> : d \in made}
<1>6. PICK k \in said : k[1] = "edit"
  <2>1. OneKind(said) = "edit"
    BY <1>5 DEF UnitKind
  <2> HIDE DEF said
  <2> QED
    BY <2>1, OneKindIs
<1>7. PICK d \in made : k = <<d.decision, d.text>>
  BY <1>6
<1>8. /\ d.decision = "edit" /\ d.subject = a /\ d \in Decisions
      /\ d.basis.units[a] = Derived[a]
  BY <1>6, <1>7 DEF UnitCurrent, UnitBasis, Facts
<1>9. PICK i \in DOMAIN stored : stored[i] = d
  BY <1>8 DEF Decisions, ToSet
<1>10. seen[i] = d.basis
  BY <1>9 DEF Bound, StoredBinds
<1> QED
  BY <1>5, <1>8, <1>9, <1>10

\* A reading whose text the export cannot carry is never accepted but with a person's
\* own text for it (page_review.py override_refusal, operator_correction).
THEOREM UnreadableAlwaysNeedsText == Spec => []UnreadableNeedsText
BY DecisionsBind, BoundUnreadable, PTL
=============================================================================
