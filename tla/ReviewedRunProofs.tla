------------------------- MODULE ReviewedRunProofs -------------------------
(***************************************************************************)
(* What holds of a run that is killed, resumed, decided about and advanced *)
(* at any moment, for any pages, readings, decisions and kills.            *)
(*                                                                         *)
(* Once a reading is established no decision is stored any more, so a pass *)
(* of the Recensor plans what the sealed reviews say, and publishes        *)
(* nothing, unless a page was read again or a decision came too late; and  *)
(* then the decisions record would change, and the pass is refused.  A     *)
(* seal, once outgrown, is never again of exactly what there is, so what   *)
(* stood when its digest was printed is no less than what is held under it.*)
(***************************************************************************)
EXTENDS ReviewedRun, SequenceTheorems, TLAPS

Places == {"idle", "perlector", "recensor", "reviews", "record", "link", "receipt",
           "gate", "archetypus", "establish", "armarium"}

Reviewing == [outcome : {"held", "accepted"}, touching : SUBSET Decision]
Reviews == UNION {[D -> Seq(Reviewing)] : D \in SUBSET CountedUnit}
Record == [seen : SUBSET Decision, applied : SUBSET Decision, page_holds : SUBSET Page]
BreakLink == [sides : CountedUnit \X CountedUnit, held : BOOLEAN]

Typed ==
    /\ reading \in [Page -> [n : 1 .. MaxReads, held : BOOLEAN, flag : BOOLEAN]]
    /\ reviews \in Reviews /\ \A u \in DOMAIN reviews : reviews[u] # << >>
    /\ records \in Seq(Record) /\ links \in Seq(BreakLink)
    /\ seals \in Seq(Reviews \X Seq(Record) \X Seq(BreakLink))
    /\ DOMAIN established \subseteq DOMAIN reviews
    /\ stored \in SUBSET Decision
    /\ \A a \in advances : a.seal \in DOMAIN seals
    /\ prompt # None =>
         /\ prompt = [seal |-> prompt.seal, stood |-> prompt.stood, verified |-> prompt.verified]
         /\ prompt.seal \in DOMAIN seals
    /\ driver.at \in Places /\ driver = [at |-> driver.at, pass |-> driver.pass]

AtPass == driver.at \in {"reviews", "record", "link", "receipt"}

Current(d) == \E p \in Page : d.unit = Unit(p)

-----------------------------------------------------------------------------
(* The records.                                                            *)

\* Nothing is about a reading that was not made.
Bounded ==
    /\ \A u \in DOMAIN reviews : u[2] <= reading[u[1]].n
    /\ \A d \in stored : d.unit[2] <= reading[d.unit[1]].n

\* A decisions record saw only what is stored, and applied what it saw of what is there.
RecordsTrue ==
    \A i \in DOMAIN records :
        /\ records[i].seen \subseteq stored /\ records[i].applied \subseteq records[i].seen
        /\ \A d \in records[i].seen : Current(d) => d \in records[i].applied

\* The last seal is of no more than there is, and the reviews it is of are those its own
\* decisions make.
SealTrue(s) ==
    /\ DOMAIN s[1] \subseteq DOMAIN reviews
    /\ \A u \in DOMAIN s[1] : Len(s[1][u]) <= Len(reviews[u])
    /\ Len(s[2]) <= Len(records) /\ Len(s[3]) <= Len(links)
    /\ \A p \in Page : Unit(p) \in DOMAIN s[1] => Last(s[1][Unit(p)]) = Review(Seen(s[2]), p)
    /\ {Unit(Left), Unit(Right)} \subseteq DOMAIN s[1] /\ Link # None =>
         s[3] # << >> /\ Last(s[3]) = Link

-----------------------------------------------------------------------------
(* The pass, and what is established.                                      *)

PassTrue ==
    AtPass =>
        /\ \E D \in SUBSET stored : driver.pass = Plan(D)
        /\ DOMAIN established # {} => driver.pass = Plan(stored) /\ ~TooLate
        /\ At("receipt") /\ Link # None => links # << >> /\ Last(links) = Link

\* Decisions the last record did not see, or that were about a reading since replaced.
Stuck ==
    \/ stored # Seen(records)
    \/ records # << >> /\ \E d \in Last(records).applied : ~Current(d)

Standing ==
    /\ DOMAIN established # {} => SealVerified /\ (Reviewed = Page \/ Stuck)
    /\ At("establish") => SealVerified /\ Reviewed = Page /\ driver.pass.accepted = Accepted

-----------------------------------------------------------------------------
(* What stood when a digest was printed.                                   *)

StoodTrue(x) == x.seal = Len(seals) /\ SealVerified => Held \subseteq x.stood

Stood == (\A a \in advances : StoodTrue(a)) /\ (prompt # None => StoodTrue(prompt))

Exported ==
    /\ export # None /\ DOMAIN export.acts # {} => DOMAIN established # {}
    /\ NoLateHoldDelivered

Inv ==
    /\ Typed /\ Bounded /\ RecordsTrue /\ (seals # << >> => SealTrue(Last(seals)))
    /\ PassTrue /\ Standing /\ EstablishedStands /\ Stood /\ Exported

-----------------------------------------------------------------------------
(* Readings, reviews and plans.                                            *)

LEMMA Units ==
    ASSUME Typed
    PROVE  \A p \in Page : /\ Unit(p) \in CountedUnit /\ Unit(p)[1] = p /\ Unit(p)[2] = reading[p].n
                           /\ reading[p].n \in Nat /\ \A q \in Page : Unit(p) = Unit(q) => p = q
BY RunAssumption DEF Typed, Unit, CountedUnit

LEMMA ReviewsAre ==
    ASSUME Typed
    PROVE  /\ DOMAIN reviews \subseteq CountedUnit
           /\ \A u \in DOMAIN reviews : /\ reviews[u] \in Seq(Reviewing) /\ reviews[u] # << >>
                                        /\ Len(reviews[u]) \in Nat
BY DEF Typed, Reviews

LEMMA Planning ==
    ASSUME Typed, NEW D \in SUBSET Decision
    PROVE  /\ \A p \in Page : Review(D, p) \in Reviewing /\ Plan(D).review[p] = Review(D, p)
           /\ Plan(D).record = IF D = {} THEN None ELSE DecisionsRecord(D)
           /\ DecisionsRecord(D) \in Record /\ DecisionsRecord(D) # None
           /\ Plan(D).link = Link
           /\ Link # None => Link \in BreakLink
<1>1. \A p \in Page : Review(D, p) \in Reviewing
  BY DEF Review, Reviewing, Outcome
<1>2. DecisionsRecord(D) \in Record
  BY DEF DecisionsRecord, Record
<1>3. Link # None => Link \in BreakLink
  BY Units, RunAssumption DEF Link, BreakLink, Typed
<1> QED
  BY <1>1, <1>2, <1>3, NoneAssumption DEF Plan, Record

\* What the last of the records saw, was stored.
LEMMA SeenStored ==
    ASSUME Typed, RecordsTrue
    PROVE  /\ Seen(records) \subseteq stored
           /\ records # << >> =>
                /\ Len(records) \in DOMAIN records /\ Last(records) = records[Len(records)]
                /\ Last(records) \in Record /\ Last(records).seen = Seen(records)
                /\ Last(records).applied \subseteq Seen(records)
                /\ \A d \in Seen(records) : Current(d) => d \in Last(records).applied
<1>1. CASE records = << >>
  BY <1>1 DEF Seen
<1>2. CASE records # << >>
  <2>1. Len(records) \in DOMAIN records /\ Last(records) = records[Len(records)]
        /\ records[Len(records)] \in Record
    BY <1>2 DEF Typed, Last
  <2> QED
    BY <1>2, <2>1 DEF Seen, RecordsTrue
<1> QED
  BY <1>1, <1>2

\* Where a pass is stuck, the record it would publish differs from the last.
LEMMA StuckIsLate ==
    ASSUME Typed, RecordsTrue, Stuck, DOMAIN established # {}
    PROVE  TooLate
<1>1. stored # {}
  BY SeenStored DEF Stuck, Seen
<1>2. CASE stored # Seen(records)
  BY <1>1, <1>2 DEF TooLate, Seen, DecisionsRecord
<1>3. CASE records # << >> /\ \E d \in Last(records).applied : ~Current(d)
  <2>1. PICK d \in Last(records).applied : ~Current(d)
    BY <1>3
  <2>2. d \notin DecisionsRecord(stored).applied
    BY <2>1 DEF DecisionsRecord, Current
  <2> QED
    BY <1>1, <2>1, <2>2 DEF TooLate
<1> QED
  BY <1>2, <1>3 DEF Stuck

\* Once a reading is established a pass publishes nothing: it plans what was sealed.
LEMMA Frozen ==
    ASSUME Inv, [Next]_vars, DOMAIN established # {}
    PROVE  /\ reviews' = reviews /\ records' = records /\ links' = links
           /\ seals' = seals /\ stored' = stored
<1>1. SealVerified /\ seals # << >> /\ Last(seals) = <<reviews, records, links>>
  BY DEF Inv, Standing, SealVerified, Inventory
<1>2. ASSUME AtPass
      PROVE  /\ driver.pass = Plan(stored)
             /\ \A p \in Page : Unit(p) \in DOMAIN reviews /\ Last(reviews[Unit(p)]) = Review(stored, p)
             /\ stored = Seen(records) /\ ~TooLate
             /\ Link # None => links # << >> /\ Last(links) = Link
  <2>1. driver.pass = Plan(stored) /\ ~TooLate
    BY <1>2 DEF Inv, PassTrue
  <2>2. ~Stuck
    BY <2>1, StuckIsLate DEF Inv
  <2>3. Reviewed = Page /\ stored = Seen(records)
    BY <2>2 DEF Inv, Standing, Stuck
  <2>4. \A p \in Page : Unit(p) \in DOMAIN reviews
    BY <2>3 DEF Reviewed
  <2>5. SealTrue(<<reviews, records, links>>)
    BY <1>1 DEF Inv
  <2>6. \A p \in Page : Last(reviews[Unit(p)]) = Review(stored, p)
    BY <2>3, <2>4, <2>5 DEF SealTrue
  <2>7. Link # None => links # << >> /\ Last(links) = Link
    BY <2>4, <2>5, RunAssumption DEF SealTrue
  <2> QED
    BY <2>1, <2>3, <2>4, <2>6, <2>7
<1>3. stored \in SUBSET Decision
  BY DEF Inv, Typed
<1>4. CASE PublishReview
  <2>1. AtPass
    BY <1>4 DEF PublishReview, AtPass, At
  <2>2. \A p \in Page : p \in Reviewed /\ Last(reviews[Unit(p)]) = driver.pass.review[p]
    BY <1>2, <1>3, <2>1, Planning DEF Inv, Reviewed
  <2> QED
    BY <1>4, <2>2 DEF PublishReview, people
<1>5. CASE PublishRecord
  <2>1. AtPass
    BY <1>5 DEF PublishRecord, AtPass, At
  <2>2. driver.pass.record = (IF stored = {} THEN None ELSE DecisionsRecord(stored))
    BY <1>2, <1>3, <2>1, Planning DEF Inv
  <2>3. driver.pass.record # None => records # << >> /\ Last(records) = driver.pass.record
    BY <1>2, <2>1, <2>2 DEF TooLate
  <2> QED
    BY <1>5, <2>3 DEF PublishRecord, people
<1>6. CASE PublishLink
  <2>1. AtPass
    BY <1>6 DEF PublishLink, AtPass, At
  <2>2. driver.pass.link = Link
    BY <1>2, <1>3, <2>1, Planning DEF Inv
  <2> QED
    BY <1>2, <1>6, <2>1, <2>2 DEF PublishLink, people
<1>7. CASE ReceiptAndSeal
  BY <1>1, <1>7 DEF ReceiptAndSeal, people
<1>8. CASE StageStep /\ ~(PublishReview \/ PublishRecord \/ PublishLink \/ ReceiptAndSeal)
  BY <1>8 DEF StageStep, Perlector, RecensorPlan, GateArchetypus, Archetypus, Establish,
              ArchetypusSeal, Armarium, tree, people
<1>9. CASE Crash \/ Prompt \/ VerifySeal \/ RecordAdvance
           \/ (\E stage \in {"perlector", "recensor", "gate", "armarium"} : Start(stage))
  BY <1>9 DEF Crash, Prompt, VerifySeal, RecordAdvance, Start, tree, people
<1>10. CASE \E p \in Page, decision \in {"release", "hold", "re-ask"} : Decide(p, decision)
  BY <1>10 DEF Decide
<1>11. CASE UNCHANGED vars
  BY <1>11 DEF vars, tree, people
<1> QED
  BY <1>4, <1>5, <1>6, <1>7, <1>8, <1>9, <1>10, <1>11 DEF Next, StageStep

-----------------------------------------------------------------------------
(* Types.                                                                  *)

LEMMA Going ==
    ASSUME Typed, NEW stage, Goto(stage)
    PROVE  /\ driver' = [at |-> stage, pass |-> driver.pass]
           /\ driver'.at = stage /\ driver'.pass = driver.pass
BY DEF Typed, Goto

LEMMA Stopping ==
    ASSUME Stop
    PROVE  driver' = [at |-> "idle", pass |-> None] /\ driver'.at = "idle"
BY DEF Stop, Idle

LEMMA DriverTyped ==
    ASSUME Typed, [Next]_vars
    PROVE  driver'.at \in Places /\ driver' = [at |-> driver'.at, pass |-> driver'.pass]
<1>1. CASE \E stage \in Places : Goto(stage)
  BY <1>1, Going DEF Places
<1>2. CASE Stop
  BY <1>2, Stopping DEF Places
<1>3. CASE driver' = driver
  BY <1>3 DEF Typed
<1>4. CASE RecensorPlan \/ Archetypus
  BY <1>2, <1>4 DEF RecensorPlan, Archetypus, Places
<1>5. CASE Perlector \/ PublishReview \/ PublishRecord \/ PublishLink \/ ReceiptAndSeal
           \/ GateArchetypus \/ ArchetypusSeal
           \/ (\E stage \in {"perlector", "recensor", "gate", "armarium"} : Start(stage))
  BY <1>1, <1>2, <1>3, <1>5 DEF Perlector, PublishReview, PublishRecord, PublishLink,
     ReceiptAndSeal, GateArchetypus, ArchetypusSeal, Start, Places
<1>6. CASE Crash \/ Armarium
  BY <1>2, <1>6 DEF Crash, Armarium
<1>7. CASE Establish \/ Prompt \/ VerifySeal \/ RecordAdvance \/ UNCHANGED vars
           \/ (\E p \in Page, decision \in {"release", "hold", "re-ask"} : Decide(p, decision))
  BY <1>3, <1>7 DEF Establish, Prompt, VerifySeal, RecordAdvance, Decide, vars
<1> QED
  BY <1>4, <1>5, <1>6, <1>7 DEF Next, StageStep

\* What publishing a review makes of the reviews.
LEMMA Published ==
    ASSUME Inv, PublishReview, reviews' # reviews
    PROVE  \E p \in Page :
             /\ reviews' \in Reviews /\ DOMAIN reviews' = DOMAIN reviews \cup {Unit(p)}
             /\ \A u \in DOMAIN reviews : u # Unit(p) => reviews'[u] = reviews[u]
             /\ reviews'[Unit(p)] # << >>
             /\ Unit(p) \in DOMAIN reviews => Len(reviews'[Unit(p)]) = Len(reviews[Unit(p)]) + 1
<1>1. PICK p \in Page :
        reviews' = [u \in DOMAIN reviews \cup {Unit(p)} |->
                      IF u # Unit(p) THEN reviews[u]
                      ELSE Append(IF u \in DOMAIN reviews THEN reviews[u] ELSE << >>,
                                  driver.pass.review[p])]
  BY DEF PublishReview
<1>2. driver.pass.review[p] \in Reviewing
  <2>1. PICK D \in SUBSET stored : driver.pass = Plan(D)
    BY DEF PublishReview, Inv, PassTrue, AtPass, At
  <2>2. D \in SUBSET Decision
    BY DEF Inv, Typed
  <2> QED
    BY <2>1, <2>2, Planning DEF Inv
<1> DEFINE old == IF Unit(p) \in DOMAIN reviews THEN reviews[Unit(p)] ELSE << >>
<1>3. old \in Seq(Reviewing) /\ (Unit(p) \in DOMAIN reviews => old = reviews[Unit(p)])
  BY ReviewsAre DEF Inv
<1>4. reviews'[Unit(p)] = Append(old, driver.pass.review[p])
  BY <1>1
<1> HIDE DEF old
<1>5. /\ reviews'[Unit(p)] \in Seq(Reviewing) /\ reviews'[Unit(p)] # << >>
      /\ Len(reviews'[Unit(p)]) = Len(old) + 1
  BY <1>2, <1>3, <1>4
<1>6. DOMAIN reviews' = DOMAIN reviews \cup {Unit(p)} /\ DOMAIN reviews' \in SUBSET CountedUnit
  BY <1>1, ReviewsAre, Units DEF Inv
<1>7. \A u \in DOMAIN reviews : u # Unit(p) => reviews'[u] = reviews[u]
  BY <1>1
<1>8. reviews' \in [DOMAIN reviews' -> Seq(Reviewing)]
  <2>1. \A u \in DOMAIN reviews' : reviews'[u] \in Seq(Reviewing)
    BY <1>5, <1>6, <1>7, ReviewsAre DEF Inv
  <2>2. reviews' = [u \in DOMAIN reviews' |-> reviews'[u]]
    BY <1>1, <1>6
  <2> QED
    BY <2>1, <2>2
<1> QED
  BY <1>3, <1>5, <1>6, <1>7, <1>8 DEF Reviews

LEMMA TypedStays ==
    ASSUME Inv, [Next]_vars
    PROVE  Typed'
<1> USE DEF Inv
<1>1. driver'.at \in Places /\ driver' = [at |-> driver'.at, pass |-> driver'.pass]
  BY DriverTyped
<1>2. reading' \in [Page -> [n : 1 .. MaxReads, held : BOOLEAN, flag : BOOLEAN]]
  <2>1. CASE Perlector
    BY <2>1 DEF Perlector
  <2>2. CASE reading' = reading
    BY <2>2 DEF Typed
  <2> QED
    BY <2>1, <2>2 DEF Next, StageStep, RecensorPlan, PublishReview, PublishRecord, PublishLink,
       ReceiptAndSeal, GateArchetypus, Archetypus, Establish, ArchetypusSeal, Armarium, Start,
       Crash, Decide, Prompt, VerifySeal, RecordAdvance, vars
<1>3. reviews' \in Reviews /\ (\A u \in DOMAIN reviews' : reviews'[u] # << >>)
      /\ DOMAIN reviews \subseteq DOMAIN reviews'
  <2>1. CASE PublishReview /\ reviews' # reviews
    BY <2>1, Published DEF Typed
  <2>2. CASE reviews' = reviews
    BY <2>2 DEF Typed
  <2> QED
    BY <2>1, <2>2 DEF Next, StageStep, RecensorPlan, Perlector, PublishRecord, PublishLink, tree,
       ReceiptAndSeal, GateArchetypus, Archetypus, Establish, ArchetypusSeal, Armarium, Start,
       Crash, Decide, Prompt, VerifySeal, RecordAdvance, vars
<1>4. records' \in Seq(Record)
  <2>1. CASE PublishRecord
    <3>1. PICK D \in SUBSET stored : driver.pass = Plan(D)
      BY <2>1 DEF PublishRecord, PassTrue, AtPass, At
    <3>2. D \in SUBSET Decision
      BY DEF Typed
    <3>3. driver.pass.record # None => driver.pass.record \in Record
      BY <3>1, <3>2, Planning
    <3> QED
      BY <2>1, <3>3 DEF PublishRecord, Typed
  <2>2. CASE records' = records
    BY <2>2 DEF Typed
  <2> QED
    BY <2>1, <2>2 DEF Next, StageStep, RecensorPlan, Perlector, PublishReview, PublishLink, tree,
       ReceiptAndSeal, GateArchetypus, Archetypus, Establish, ArchetypusSeal, Armarium, Start,
       Crash, Decide, Prompt, VerifySeal, RecordAdvance, vars
<1>5. links' \in Seq(BreakLink)
  <2>1. CASE PublishLink
    <3>1. PICK D \in SUBSET stored : driver.pass = Plan(D)
      BY <2>1 DEF PublishLink, PassTrue, AtPass, At
    <3>2. D \in SUBSET Decision
      BY DEF Typed
    <3>3. driver.pass.link # None => driver.pass.link \in BreakLink
      BY <3>1, <3>2, Planning
    <3> QED
      BY <2>1, <3>3 DEF PublishLink, Typed
  <2>2. CASE links' = links
    BY <2>2 DEF Typed
  <2> QED
    BY <2>1, <2>2 DEF Next, StageStep, RecensorPlan, Perlector, PublishReview, PublishRecord, tree,
       ReceiptAndSeal, GateArchetypus, Archetypus, Establish, ArchetypusSeal, Armarium, Start,
       Crash, Decide, Prompt, VerifySeal, RecordAdvance, vars
<1>6. /\ seals' \in Seq(Reviews \X Seq(Record) \X Seq(BreakLink))
      /\ DOMAIN seals \subseteq DOMAIN seals'
  <2>1. CASE ReceiptAndSeal
    <3>1. Inventory \in Reviews \X Seq(Record) \X Seq(BreakLink)
      BY DEF Typed, Inventory
    <3>2. CASE seals' = Append(seals, Inventory)
      BY <3>1, <3>2 DEF Typed
    <3>3. CASE seals' = seals
      BY <3>3 DEF Typed
    <3> QED
      BY <2>1, <3>2, <3>3 DEF ReceiptAndSeal
  <2>2. CASE seals' = seals
    BY <2>2 DEF Typed
  <2> QED
    BY <2>1, <2>2 DEF Next, StageStep, RecensorPlan, Perlector, PublishReview, PublishRecord, tree,
       PublishLink, GateArchetypus, Archetypus, Establish, ArchetypusSeal, Armarium, Start,
       Crash, Decide, Prompt, VerifySeal, RecordAdvance, vars
<1>7. DOMAIN established' \subseteq DOMAIN reviews'
  <2>1. CASE Establish
    <3>1. driver.pass.accepted \subseteq DOMAIN reviews
      BY <2>1 DEF Establish, Standing, Accepted, Reviewed
    <3> QED
      BY <2>1, <3>1 DEF Establish, Typed
  <2>2. CASE established' = established
    BY <1>3, <2>2 DEF Typed
  <2> QED
    BY <2>1, <2>2 DEF Next, StageStep, RecensorPlan, Perlector, PublishReview, PublishRecord, tree,
       PublishLink, ReceiptAndSeal, GateArchetypus, Archetypus, ArchetypusSeal, Armarium, Start,
       Crash, Decide, Prompt, VerifySeal, RecordAdvance, vars
<1>8. stored' \in SUBSET Decision
  <2>1. ASSUME NEW p \in Page, NEW decision \in {"release", "hold", "re-ask"}, Decide(p, decision)
        PROVE  stored' \in SUBSET Decision
    BY <2>1, Units DEF Decide, Decision, Typed
  <2>2. CASE stored' = stored
    BY <2>2 DEF Typed
  <2> QED
    BY <2>1, <2>2 DEF Next, StageStep, RecensorPlan, Perlector, PublishReview, PublishRecord, people,
       PublishLink, ReceiptAndSeal, GateArchetypus, Archetypus, ArchetypusSeal, Armarium, Start,
       Crash, Establish, Prompt, VerifySeal, RecordAdvance, vars
<1>9. /\ \A a \in advances' : a.seal \in DOMAIN seals'
      /\ prompt' # None =>
           /\ prompt' = [seal |-> prompt'.seal, stood |-> prompt'.stood,
                         verified |-> prompt'.verified]
           /\ prompt'.seal \in DOMAIN seals'
  <2>1. seals # << >> => Len(seals) \in DOMAIN seals
    BY DEF Typed
  <2>2. CASE Prompt
    BY <1>6, <2>1, <2>2 DEF Prompt, Typed
  <2>3. CASE VerifySeal
    <3>1. prompt = [seal |-> prompt.seal, stood |-> prompt.stood, verified |-> prompt.verified]
          /\ prompt.seal \in DOMAIN seals'
      BY <1>6, <2>3 DEF Typed, VerifySeal
    <3>2. prompt' = [prompt EXCEPT !.verified = TRUE] \/ prompt' = None
      BY <2>3 DEF VerifySeal
    <3> QED
      BY <1>6, <2>3, <3>1, <3>2 DEF Typed, VerifySeal
  <2>4. CASE RecordAdvance
    BY <1>6, <2>4 DEF Typed, RecordAdvance, DigestConfirmed
  <2>5. CASE advances' = advances /\ prompt' = prompt
    BY <1>6, <2>5 DEF Typed
  <2> QED
    BY <2>2, <2>3, <2>4, <2>5 DEF Next, StageStep, RecensorPlan, Perlector, PublishReview, PublishRecord,
       people, PublishLink, ReceiptAndSeal, GateArchetypus, Archetypus, ArchetypusSeal, Armarium,
       Start, Crash, Establish, Decide, vars
<1> QED
  BY <1>1, <1>2, <1>3, <1>4, <1>5, <1>6, <1>7, <1>8, <1>9 DEF Typed

-----------------------------------------------------------------------------
(* The records.                                                            *)

\* Each part of the tree has one step that writes it.
LEMMA Writers ==
    ASSUME [Next]_vars
    PROVE  /\ reading' # reading => Perlector
           /\ reviews' # reviews => PublishReview
           /\ records' # records => PublishRecord
           /\ links' # links => PublishLink
           /\ seals' # seals => ReceiptAndSeal
           /\ established' # established => Establish
           /\ export' # export => Armarium
           /\ stored' # stored =>
                \E p \in Page, decision \in {"release", "hold", "re-ask"} : Decide(p, decision)
           /\ advances' # advances => RecordAdvance
           /\ prompt' # prompt => Prompt \/ VerifySeal \/ RecordAdvance
<1> USE DEF tree, people
<1>1. CASE StageStep
  BY <1>1 DEF StageStep, Perlector, RecensorPlan, PublishReview, PublishRecord, PublishLink,
     ReceiptAndSeal, GateArchetypus, Archetypus, Establish, ArchetypusSeal, Armarium
<1>2. CASE Crash \/ Prompt \/ VerifySeal \/ RecordAdvance
           \/ (\E stage \in {"perlector", "recensor", "gate", "armarium"} : Start(stage))
  BY <1>2 DEF Crash, Prompt, VerifySeal, RecordAdvance, Start
<1>3. CASE \E p \in Page, decision \in {"release", "hold", "re-ask"} : Decide(p, decision)
  BY <1>3 DEF Decide
<1>4. CASE UNCHANGED vars
  BY <1>4 DEF vars
<1> QED
  BY <1>1, <1>2, <1>3, <1>4 DEF Next

LEMMA Readings ==
    ASSUME Typed, [Next]_vars, NEW p \in Page
    PROVE  /\ reading'[p] = reading[p] \/ (Requested(p) /\ reading'[p].n = reading[p].n + 1)
           /\ reading'[p] = reading[p] => Unit(p)' = Unit(p)
           /\ reading'[p] # reading[p] => Unit(p)'[2] = reading[p].n + 1
           /\ Unit(p)'[1] = p /\ Unit(p)'[2] >= reading[p].n
           /\ reading[p].n \in Nat /\ reading'[p].n >= reading[p].n
<1>1. reading'[p] = reading[p] \/ (Requested(p) /\ reading'[p].n = reading[p].n + 1)
  BY Writers DEF Perlector
<1>2. reading[p].n \in Nat
  BY Units
<1> QED
  BY <1>1, <1>2 DEF Unit

\* What is about a reading that is there was so before, if it was stored or reviewed.
LEMMA CurrentBefore ==
    ASSUME Inv, [Next]_vars, NEW p \in Page,
           Unit(p)' \in DOMAIN reviews \/ \E d \in stored : d.unit = Unit(p)'
    PROVE  reading'[p] = reading[p]
<1>1. Unit(p)'[2] <= reading[p].n
  <2>1. Unit(p)'[1] = p
    BY Readings DEF Inv
  <2> QED
    BY <2>1 DEF Inv, Bounded
<1> QED
  BY <1>1, Readings DEF Inv

LEMMA NeverCurrentAgain ==
    ASSUME Inv, [Next]_vars
    PROVE  \A d \in stored : Current(d)' => Current(d)
<1> SUFFICES ASSUME NEW d \in stored, NEW p \in Page, d.unit = Unit(p)' PROVE Current(d)
  BY DEF Current
<1>1. reading'[p] = reading[p]
  BY CurrentBefore
<1> QED
  BY <1>1, Readings DEF Inv, Current

LEMMA StoredGrows ==
    ASSUME [Next]_vars
    PROVE  /\ stored \subseteq stored'
           /\ \A d \in stored' \ stored : \E p \in Page : d.unit = Unit(p)
           /\ stored' # stored => reading' = reading /\ reviews' = reviews /\ records' = records
                                  /\ driver' = driver /\ links' = links
                                  /\ established' = established /\ DOMAIN established = {}
<1>1. CASE stored' # stored
  BY <1>1, Writers DEF Decide, tree
<1> QED
  BY <1>1

LEMMA BoundedStays ==
    ASSUME Inv, [Next]_vars
    PROVE  Bounded'
<1>1. \A p \in Page : reading[p].n \in Nat /\ reading'[p].n \in Nat /\ reading'[p].n >= reading[p].n
  <2> SUFFICES ASSUME NEW p \in Page
               PROVE  /\ reading[p].n \in Nat /\ reading'[p].n \in Nat
                      /\ reading'[p].n >= reading[p].n
    OBVIOUS
  <2>1. reading[p].n \in Nat /\ reading'[p].n >= reading[p].n
    BY Readings DEF Inv
  <2>2. reading'[p].n \in Nat
    BY TypedStays, RunAssumption DEF Typed
  <2> QED
    BY <2>1, <2>2
<1>2. ASSUME NEW u \in DOMAIN reviews' PROVE u[2] <= reading'[u[1]].n
  <2>1. CASE u \in DOMAIN reviews
    <3>1. u[1] \in Page /\ u[2] \in Nat /\ u[2] <= reading[u[1]].n
      BY <2>1, ReviewsAre DEF Inv, Bounded, CountedUnit
    <3> QED
      BY <1>1, <3>1
  <2>2. CASE u \notin DOMAIN reviews
    <3>1. PublishReview /\ reading' = reading
      BY <1>2, <2>2, Writers DEF PublishReview
    <3>2. \E p \in Page : u = Unit(p)
      BY <1>2, <2>2, <3>1, Published
    <3> QED
      BY <1>1, <3>1, <3>2 DEF Unit
  <2> QED
    BY <2>1, <2>2
<1>3. ASSUME NEW d \in stored' PROVE d.unit[2] <= reading'[d.unit[1]].n
  <2>1. CASE d \in stored
    <3>1. d.unit[1] \in Page /\ d.unit[2] \in Nat /\ d.unit[2] <= reading[d.unit[1]].n
      BY <2>1 DEF Inv, Typed, Bounded, CountedUnit, Decision
    <3> QED
      BY <1>1, <3>1
  <2>2. CASE d \notin stored
    <3>1. reading' = reading /\ \E p \in Page : d.unit = Unit(p)
      BY <1>3, <2>2, StoredGrows
    <3> QED
      BY <1>1, <3>1 DEF Unit
  <2> QED
    BY <2>1, <2>2
<1> QED
  BY <1>2, <1>3 DEF Bounded

LEMMA RecordsTrueStays ==
    ASSUME Inv, [Next]_vars
    PROVE  RecordsTrue'
<1>1. \A d \in stored : Current(d)' => Current(d)
  BY NeverCurrentAgain
<1>2. stored \subseteq stored'
  BY StoredGrows
<1>3. ASSUME NEW i \in DOMAIN records
      PROVE  /\ records[i].seen \subseteq stored' /\ records[i].applied \subseteq records[i].seen
             /\ \A d \in records[i].seen : Current(d)' => d \in records[i].applied
  BY <1>1, <1>2 DEF Inv, RecordsTrue
<1>4. CASE records' = records
  BY <1>3, <1>4 DEF RecordsTrue
<1>5. CASE records' # records
  <2>1. PublishRecord /\ records' = Append(records, driver.pass.record) /\ driver.pass.record # None
        /\ reading' = reading /\ stored' = stored
    BY <1>5, Writers DEF PublishRecord, people
  <2>2. PICK D \in SUBSET stored : driver.pass = Plan(D)
    BY <2>1 DEF PublishRecord, Inv, PassTrue, AtPass, At
  <2>3. D \in SUBSET Decision
    BY DEF Inv, Typed
  <2>4. driver.pass.record = DecisionsRecord(D) /\ driver.pass.record \in Record
    BY <2>1, <2>2, <2>3, Planning DEF Inv
  <2>5. ASSUME NEW i \in DOMAIN records'
        PROVE  /\ records'[i].seen \subseteq stored' /\ records'[i].applied \subseteq records'[i].seen
               /\ \A d \in records'[i].seen : Current(d)' => d \in records'[i].applied
    <3>1. records \in Seq(Record)
      BY DEF Inv, Typed
    <3>2. CASE i \in DOMAIN records
      <4>1. records'[i] = records[i]
        BY <2>1, <2>4, <3>1, <3>2
      <4> QED
        BY <1>3, <3>2, <4>1
    <3>3. CASE i \notin DOMAIN records
      <4>1. records'[i] = DecisionsRecord(D)
        BY <2>1, <2>4, <2>5, <3>1, <3>3
      <4>2. \A d : Current(d)' => Current(d)
        BY <2>1 DEF Current, Unit
      <4> QED
        BY <2>1, <4>1, <4>2 DEF DecisionsRecord, Current
    <3> QED
      BY <3>2, <3>3
  <2> QED
    BY <2>5 DEF RecordsTrue
<1> QED
  BY <1>4, <1>5

\* Reviews, records and links are only added to.
LEMMA TreeGrows ==
    ASSUME Inv, [Next]_vars
    PROVE  /\ DOMAIN reviews \subseteq DOMAIN reviews'
           /\ \A u \in DOMAIN reviews :
                /\ Len(reviews[u]) \in Nat /\ Len(reviews'[u]) \in Nat
                /\ Len(reviews'[u]) >= Len(reviews[u])
           /\ Len(records) \in Nat /\ Len(records') \in Nat /\ Len(records') >= Len(records)
           /\ Len(links) \in Nat /\ Len(links') \in Nat /\ Len(links') >= Len(links)
           /\ records' # records => Len(records') > Len(records)
           /\ links' # links => Len(links') > Len(links)
<1>1. Typed /\ Typed'
  BY TypedStays DEF Inv
<1>2. DOMAIN reviews \subseteq DOMAIN reviews'
      /\ \A u \in DOMAIN reviews : Len(reviews'[u]) = Len(reviews[u]) \/ Len(reviews'[u]) = Len(reviews[u]) + 1
  <2>1. CASE reviews' = reviews
    BY <2>1
  <2>2. CASE reviews' # reviews
    BY <2>2, Writers, Published
  <2> QED
    BY <2>1, <2>2
<1>3. records' # records => Len(records') = Len(records) + 1
  BY <1>1, Writers DEF PublishRecord, Typed
<1>4. links' # links => Len(links') = Len(links) + 1
  BY <1>1, Writers DEF PublishLink, Typed
<1>5. Len(records) \in Nat /\ Len(links) \in Nat /\ \A u \in DOMAIN reviews : Len(reviews[u]) \in Nat
  BY <1>1, ReviewsAre DEF Typed
<1> QED
  BY <1>2, <1>3, <1>4, <1>5

-----------------------------------------------------------------------------
(* The seals.                                                              *)

\* What a plan says of a page whose reading is the same.
LEMMA SameReview ==
    ASSUME NEW p \in Page, reading'[p] = reading[p]
    PROVE  Unit(p)' = Unit(p) /\ \A D : Review(D, p)' = Review(D, p)
BY DEF Review, Outcome, About, Unit

LEMMA SealStays ==
    ASSUME Inv, [Next]_vars, seals # << >>, seals' = seals
    PROVE  SealTrue(Last(seals))'
<1>1. Last(seals)' = Last(seals) /\ SealTrue(Last(seals))
  BY DEF Inv
<1> PICK s : s = Last(seals)
  OBVIOUS
<1>2. DOMAIN s[1] \subseteq DOMAIN reviews'
      /\ \A u \in DOMAIN s[1] : Len(s[1][u]) <= Len(reviews'[u])
  <2>1. s \in Reviews \X Seq(Record) \X Seq(BreakLink)
    BY <1>1 DEF Inv, Typed, Last
  <2>2. \A u \in DOMAIN s[1] : Len(s[1][u]) \in Nat
    BY <2>1 DEF Reviews
  <2> QED
    BY <1>1, <2>2, TreeGrows DEF SealTrue
<1>3. Len(s[2]) <= Len(records') /\ Len(s[3]) <= Len(links')
  <2>1. s \in Reviews \X Seq(Record) \X Seq(BreakLink)
    BY <1>1 DEF Inv, Typed, Last
  <2>2. Len(s[2]) \in Nat /\ Len(s[3]) \in Nat
    BY <2>1
  <2> QED
    BY <1>1, <2>2, TreeGrows DEF SealTrue
<1>4. ASSUME NEW p \in Page, Unit(p)' \in DOMAIN s[1]
      PROVE  reading'[p] = reading[p] /\ Unit(p)' = Unit(p)
  <2>1. reading'[p] = reading[p]
    BY <1>1, <1>4, CurrentBefore DEF SealTrue
  <2> QED
    BY <2>1, SameReview
<1>5. ASSUME NEW p \in Page, Unit(p)' \in DOMAIN s[1]
      PROVE  Last(s[1][Unit(p)']) = Review(Seen(s[2]), p)'
  <2>1. Last(s[1][Unit(p)']) = Review(Seen(s[2]), p)
    BY <1>1, <1>4, <1>5 DEF SealTrue
  <2> QED
    BY <1>4, <1>5, <2>1, SameReview DEF Seen
<1>6. {Unit(Left), Unit(Right)}' \subseteq DOMAIN s[1] /\ Link' # None =>
        s[3] # << >> /\ Last(s[3]) = Link'
  <2>1. CASE {Unit(Left), Unit(Right)}' \subseteq DOMAIN s[1]
    <3>1. /\ reading'[Left] = reading[Left] /\ reading'[Right] = reading[Right]
          /\ Unit(Left)' = Unit(Left) /\ Unit(Right)' = Unit(Right)
      BY <1>4, <2>1, RunAssumption
    <3>2. Link' = Link
      BY <3>1 DEF Link
    <3> QED
      BY <1>1, <2>1, <3>1, <3>2 DEF SealTrue
  <2> QED
    BY <2>1
<1> QED
  BY <1>1, <1>2, <1>3, <1>5, <1>6 DEF SealTrue

\* A pass seals what its decisions make of the readings.
LEMMA Sealed ==
    ASSUME Inv, ReceiptAndSeal, seals' # seals
    PROVE  /\ seals' = Append(seals, Inventory) /\ ~SealVerified
           /\ SealTrue(<<reviews, records, links>>)
           /\ UNCHANGED <<reading, reviews, records, links>>
<1>1. /\ seals' = Append(seals, Inventory) /\ ~SealVerified
      /\ UNCHANGED <<reading, reviews, records, links>>
      /\ Plan(stored).record = IF records = << >> THEN None ELSE Last(records)
      /\ \A p \in Page : p \in Reviewed /\ Last(reviews[Unit(p)]) = Review(stored, p)
  BY DEF ReceiptAndSeal
<1>2. stored \in SUBSET Decision /\ Typed /\ records \in Seq(Record)
  BY DEF Inv, Typed
<1>3. stored = Seen(records)
  <2>1. Plan(stored).record = IF stored = {} THEN None ELSE DecisionsRecord(stored)
    BY <1>2, Planning
  <2>2. records # << >> => Last(records) # None
    BY SeenStored, NoneAssumption DEF Inv, Record
  <2>3. DecisionsRecord(stored) # None
    BY <1>2, Planning
  <2> QED
    BY <1>1, <2>1, <2>2, <2>3 DEF Seen, DecisionsRecord
<1>4. Link # None => links # << >> /\ Last(links) = Link
  BY DEF Inv, PassTrue, ReceiptAndSeal, AtPass, At
<1>5. \A u \in DOMAIN reviews : Len(reviews[u]) \in Nat
  BY <1>2, ReviewsAre
<1>6. Len(records) \in Nat /\ Len(links) \in Nat
  BY DEF Inv, Typed
<1> QED
  BY <1>1, <1>3, <1>4, <1>5, <1>6 DEF SealTrue

LEMMA SealsTrueStay ==
    ASSUME Inv, [Next]_vars
    PROVE  seals' # << >> => SealTrue(Last(seals))'
<1>1. CASE seals' = seals
  BY <1>1, SealStays
<1>2. CASE seals' # seals
  <2>1. /\ seals' = Append(seals, Inventory) /\ SealTrue(<<reviews, records, links>>)
        /\ reading' = reading /\ reviews' = reviews /\ records' = records /\ links' = links
    BY <1>2, Writers, Sealed
  <2>2. Last(seals') = <<reviews, records, links>>
    <3>1. seals \in Seq(Reviews \X Seq(Record) \X Seq(BreakLink))
      BY DEF Inv, Typed
    <3>2. Inventory \in Reviews \X Seq(Record) \X Seq(BreakLink)
      BY DEF Inv, Typed, Inventory
    <3> QED
      BY <2>1, <3>1, <3>2 DEF Last, Inventory
  <2>3. SealTrue(<<reviews, records, links>>)'
    <3>1. \A p \in Page : Unit(p)' = Unit(p) /\ \A D : Review(D, p)' = Review(D, p)
      BY <2>1, SameReview
    <3>2. Link' = Link
      BY <2>1 DEF Link, Unit
    <3>3. Unit(Left)' = Unit(Left) /\ Unit(Right)' = Unit(Right)
      BY <3>1, RunAssumption
    <3>4. \A p \in Page : Unit(p)' \in DOMAIN reviews' =>
            Last(reviews'[Unit(p)']) = Review(Seen(records), p)'
      <4>1. Seen(records)' = Seen(records)
        BY <2>1 DEF Seen
      <4>2. \A p \in Page : Unit(p) \in DOMAIN reviews =>
              Last(reviews[Unit(p)]) = Review(Seen(records), p)
        BY <2>1 DEF SealTrue
      <4> QED
        BY <2>1, <3>1, <4>1, <4>2
    <3> QED
      BY <2>1, <3>2, <3>3, <3>4 DEF SealTrue
  <2> QED
    BY <2>1, <2>2, <2>3
<1> QED
  BY <1>1, <1>2

\* A seal that was outgrown, and is not replaced, stays outgrown.
LEMMA Outgrown ==
    ASSUME Inv, [Next]_vars, seals' = seals, SealVerified'
    PROVE  SealVerified /\ reviews' = reviews /\ records' = records /\ links' = links
<1>1. seals # << >> /\ Last(seals) = <<reviews', records', links'>> /\ SealTrue(Last(seals))
  BY DEF SealVerified, Inventory, Inv
<1>2. reviews' = reviews
  <2> SUFFICES ASSUME reviews' # reviews PROVE FALSE
    OBVIOUS
  <2>1. PICK p \in Page :
           /\ DOMAIN reviews' = DOMAIN reviews \cup {Unit(p)}
           /\ Unit(p) \in DOMAIN reviews => Len(reviews'[Unit(p)]) = Len(reviews[Unit(p)]) + 1
    BY Writers, Published
  <2>2. DOMAIN reviews' \subseteq DOMAIN reviews
    BY <1>1 DEF SealTrue
  <2>3. Unit(p) \in DOMAIN reviews /\ Len(reviews'[Unit(p)]) <= Len(reviews[Unit(p)])
    BY <1>1, <2>1, <2>2 DEF SealTrue
  <2>4. Len(reviews[Unit(p)]) \in Nat
    BY <2>3, ReviewsAre DEF Inv
  <2> QED
    BY <2>1, <2>3, <2>4
<1>3. records' = records /\ links' = links
  <2>1. Len(records') <= Len(records) /\ Len(links') <= Len(links)
    BY <1>1 DEF SealTrue
  <2> QED
    BY <2>1, TreeGrows
<1> QED
  BY <1>1, <1>2, <1>3 DEF SealVerified, Inventory

-----------------------------------------------------------------------------
(* The pass.                                                               *)

\* How a step leads into, or goes on in, a pass of the Recensor.
LEMMA PassGoes ==
    ASSUME Inv, [Next]_vars, AtPass'
    PROVE  /\ reading' = reading /\ established' = established
           /\ \/ /\ AtPass /\ driver'.pass = driver.pass
                 /\ At("receipt")' => PublishLink \/ (At("receipt") /\ links' = links)
              \/ /\ RecensorPlan /\ ~TooLate
                 /\ driver' = [at |-> "reviews", pass |-> Plan(stored)]
<1> USE DEF AtPass, At
<1>1. Typed
  BY DEF Inv
<1>2. CASE RecensorPlan
  BY <1>2, Stopping DEF RecensorPlan, tree
<1>3. CASE PublishReview
  <2>1. driver' = driver \/ Goto("record")
    BY <1>3 DEF PublishReview
  <2> QED
    BY <1>1, <1>3, <2>1, Going DEF PublishReview
<1>4. CASE PublishRecord
  BY <1>1, <1>4, Going DEF PublishRecord
<1>5. CASE PublishLink
  BY <1>1, <1>5, Going DEF PublishLink
<1>6. CASE driver' = driver /\ reading' = reading /\ established' = established /\ links' = links
  BY <1>6
<1>7. CASE driver'.at \in {"idle", "perlector", "recensor", "gate", "archetypus", "armarium"}
  BY <1>7
<1>8. CASE Establish \/ Prompt \/ VerifySeal \/ RecordAdvance \/ UNCHANGED vars
           \/ (\E p \in Page, decision \in {"release", "hold", "re-ask"} : Decide(p, decision))
  BY <1>6, <1>8 DEF Establish, Prompt, VerifySeal, RecordAdvance, Decide, vars, tree
<1>9. CASE Perlector \/ ReceiptAndSeal \/ GateArchetypus \/ ArchetypusSeal \/ Armarium \/ Crash
           \/ (\E stage \in {"perlector", "recensor", "gate", "armarium"} : Start(stage))
  <2>1. Stop \/ \E stage \in {"perlector", "recensor", "gate", "archetypus", "armarium"} : Goto(stage)
    BY <1>9 DEF Perlector, ReceiptAndSeal, GateArchetypus, ArchetypusSeal, Armarium, Crash, Start
  <2> QED
    BY <1>1, <1>7, <2>1, Going, Stopping
<1>10. CASE Archetypus
  <2>1. driver'.at \in {"idle", "establish"}
    BY <1>10, Stopping DEF Archetypus
  <2> QED
    BY <2>1
<1> QED
  BY <1>2, <1>3, <1>4, <1>5, <1>8, <1>9, <1>10 DEF Next, StageStep

LEMMA PassTrueStays ==
    ASSUME Inv, [Next]_vars
    PROVE  PassTrue'
<1> SUFFICES ASSUME AtPass'
             PROVE  /\ \E D \in SUBSET stored' : driver'.pass = Plan(D)'
                    /\ DOMAIN established' # {} => driver'.pass = Plan(stored)' /\ ~TooLate'
                    /\ At("receipt")' /\ Link' # None => links' # << >> /\ Last(links') = Link'
  BY DEF PassTrue
<1>1. reading' = reading /\ established' = established /\ stored \subseteq stored'
  BY PassGoes, StoredGrows
<1>2. Link' = Link /\ \A D : Plan(D)' = Plan(D)
  BY <1>1 DEF Plan, Link, Review, Outcome, About, DecisionsRecord, Unit
<1>3. DOMAIN established # {} => stored' = stored /\ (TooLate' <=> TooLate)
  <2> SUFFICES ASSUME DOMAIN established # {} PROVE stored' = stored /\ (TooLate' <=> TooLate)
    OBVIOUS
  <2>1. stored' = stored /\ records' = records
    BY Frozen
  <2> QED
    BY <1>1, <2>1 DEF TooLate, DecisionsRecord, About, Unit
<1>4. CASE RecensorPlan /\ ~TooLate /\ driver' = [at |-> "reviews", pass |-> Plan(stored)]
  <2>1. stored' = stored /\ ~At("receipt")'
    BY <1>4 DEF RecensorPlan, people, At
  <2>2. Plan(stored)' = Plan(stored)
    BY <1>1, <2>1 DEF Plan, Link, Review, Outcome, About, DecisionsRecord, Unit
  <2>3. PICK D : D = stored
    OBVIOUS
  <2>4. driver'.pass = Plan(D)' /\ D \in SUBSET stored'
    BY <1>1, <1>2, <1>4, <2>3
  <2>5. DOMAIN established' # {} => ~TooLate'
    BY <1>1, <1>3, <1>4
  <2>6. driver'.pass = Plan(stored)'
    BY <1>4, <2>2
  <2> QED
    BY <2>1, <2>4, <2>5, <2>6
<1>5. CASE /\ AtPass /\ driver'.pass = driver.pass
           /\ At("receipt")' => PublishLink \/ (At("receipt") /\ links' = links)
  <2>1. PICK D \in SUBSET stored : driver.pass = Plan(D)
    BY <1>5 DEF Inv, PassTrue
  <2>2. D \in SUBSET Decision
    BY DEF Inv, Typed
  <2>3. driver'.pass = Plan(D)' /\ D \in SUBSET stored'
    BY <1>1, <1>2, <1>5, <2>1
  <2>4. ASSUME DOMAIN established' # {}
        PROVE  driver'.pass = Plan(stored)' /\ ~TooLate'
    <3>1. driver.pass = Plan(stored) /\ ~TooLate /\ stored' = stored
      BY <1>1, <1>3, <1>5, <2>4 DEF Inv, PassTrue
    <3>2. Plan(stored)' = Plan(stored)
      BY <1>1, <3>1 DEF Plan, Link, Review, Outcome, About, DecisionsRecord, Unit
    <3> QED
      BY <1>1, <1>3, <1>5, <2>4, <3>1, <3>2
  <2>5. ASSUME At("receipt")', Link' # None
        PROVE  links' # << >> /\ Last(links') = Link'
    <3>1. CASE PublishLink
      <4>1. driver.pass.link = Link /\ Link \in BreakLink
        BY <1>2, <2>1, <2>2, <2>5, Planning DEF Inv
      <4>2. links \in Seq(BreakLink)
        BY DEF Inv, Typed
      <4> QED
        BY <1>2, <2>5, <3>1, <4>1, <4>2 DEF PublishLink, Last
    <3>2. CASE At("receipt") /\ links' = links
      BY <1>2, <1>5, <2>5, <3>2 DEF Inv, PassTrue
    <3> QED
      BY <1>5, <2>5, <3>1, <3>2
  <2> QED
    BY <2>3, <2>4, <2>5
<1> QED
  BY <1>4, <1>5, PassGoes

-----------------------------------------------------------------------------
(* What is established.                                                    *)

LEMMA EstablishGoes ==
    ASSUME Inv, [Next]_vars, At("establish")'
    PROVE  /\ UNCHANGED <<reading, reviews, records, links, seals>>
           /\ \/ At("establish") /\ driver' = driver
              \/ Archetypus /\ ArchetypusEnters /\ Reviewed = Page
                   /\ driver' = [at |-> "establish", pass |-> [accepted |-> Accepted]]
<1> USE DEF At, tree, people
<1>1. Typed
  BY DEF Inv
<1>2. CASE Archetypus
  BY <1>2, Stopping DEF Archetypus
<1>3. CASE Establish \/ Prompt \/ VerifySeal \/ RecordAdvance \/ UNCHANGED vars
           \/ (\E p \in Page, decision \in {"release", "hold", "re-ask"} : Decide(p, decision))
  BY <1>3 DEF Establish, Prompt, VerifySeal, RecordAdvance, Decide, vars
<1>4. CASE PublishReview \/ RecensorPlan
  <2>1. driver' = driver \/ Goto("record") \/ Stop \/ driver'.at = "reviews"
    BY <1>4 DEF PublishReview, RecensorPlan
  <2>2. ~At("establish")
    BY <1>4 DEF PublishReview, RecensorPlan
  <2> QED
    BY <1>1, <2>1, <2>2, Going, Stopping
<1>5. CASE Perlector \/ PublishRecord \/ PublishLink \/ ReceiptAndSeal \/ GateArchetypus
           \/ ArchetypusSeal \/ Armarium \/ Crash
           \/ (\E stage \in {"perlector", "recensor", "gate", "armarium"} : Start(stage))
  <2>1. Stop \/ \E stage \in Places \ {"establish"} : Goto(stage)
    BY <1>5 DEF Perlector, PublishRecord, PublishLink, ReceiptAndSeal, GateArchetypus, Places,
                ArchetypusSeal, Armarium, Crash, Start
  <2> QED
    BY <1>1, <2>1, Going, Stopping
<1> QED
  BY <1>2, <1>3, <1>4, <1>5 DEF Next, StageStep

LEMMA SealVerifiedStays ==
    ASSUME UNCHANGED <<reviews, records, links, seals>>
    PROVE  SealVerified' <=> SealVerified
BY DEF SealVerified, Inventory

LEMMA StandingStays ==
    ASSUME Inv, [Next]_vars
    PROVE  Standing'
<1>1. At("establish")' =>
        SealVerified' /\ Reviewed' = Page /\ driver'.pass.accepted = Accepted'
  <2> SUFFICES ASSUME At("establish")'
               PROVE  SealVerified' /\ Reviewed' = Page /\ driver'.pass.accepted = Accepted'
    OBVIOUS
  <2>1. UNCHANGED <<reading, reviews, records, links, seals>>
    BY EstablishGoes
  <2>2. (SealVerified' <=> SealVerified) /\ Reviewed' = Reviewed /\ Accepted' = Accepted
    BY <2>1 DEF SealVerified, Inventory, Reviewed, Accepted, Unit
  <2>3. SealVerified /\ Reviewed = Page /\ driver'.pass.accepted = Accepted
    BY EstablishGoes DEF Inv, Standing, ArchetypusEnters
  <2> QED
    BY <2>2, <2>3
<1>2. ASSUME DOMAIN established # {}
      PROVE  SealVerified' /\ (Reviewed' = Page \/ Stuck')
  <2>1. /\ reviews' = reviews /\ records' = records /\ links' = links
        /\ seals' = seals /\ stored' = stored
    BY <1>2, Frozen
  <2>2. SealVerified'
    BY <1>2, <2>1, SealVerifiedStays DEF Inv, Standing
  <2>3. CASE Stuck
    <3>1. CASE stored # Seen(records)
      BY <2>1, <2>2, <3>1 DEF Stuck, Seen
    <3>2. CASE records # << >> /\ \E d \in Last(records).applied : ~Current(d)
      <4>1. PICK d \in Last(records).applied : ~Current(d)
        BY <3>2
      <4>2. d \in stored
        BY <3>2, <4>1, SeenStored DEF Inv
      <4>3. ~Current(d)'
        BY <4>1, <4>2, NeverCurrentAgain
      <4> QED
        BY <2>1, <2>2, <3>2, <4>1, <4>3 DEF Stuck
    <3> QED
      BY <2>3, <3>1, <3>2 DEF Stuck
  <2>4. CASE ~Stuck
    <3>1. Reviewed = Page /\ stored = Seen(records)
      BY <1>2, <2>4 DEF Inv, Standing, Stuck
    <3>2. CASE \A p \in Page : reading'[p] = reading[p]
      <4>1. \A p \in Page : Unit(p)' = Unit(p)
        BY <3>2, SameReview
      <4> QED
        BY <2>1, <2>2, <3>1, <4>1 DEF Reviewed
    <3>3. ASSUME NEW p \in Page, reading'[p] # reading[p]
          PROVE  Stuck'
      <4>1. Requested(p)
        BY <3>3, Readings DEF Inv
      <4>2. PICK d \in stored : d.unit = Unit(p)
        BY <4>1 DEF Requested, About
      <4>3. records # << >> /\ d \in Last(records).applied
        BY <3>1, <4>2, SeenStored DEF Inv, Seen, Current
      <4>4. \A q \in Page : d.unit # Unit(q)'
        <5> SUFFICES ASSUME NEW q \in Page, d.unit = Unit(q)' PROVE FALSE
          OBVIOUS
        <5>1. reading'[q] = reading[q]
          BY <4>2, CurrentBefore
        <5>2. Unit(q)[1] = q /\ Unit(q)' = Unit(q) /\ Unit(p)[1] = p
          BY <5>1, Units, Readings DEF Inv
        <5> QED
          BY <3>3, <4>2, <5>1, <5>2
      <4>5. ~Current(d)'
        BY <4>4 DEF Current
      <4> QED
        BY <2>1, <4>3, <4>5 DEF Stuck
    <3> QED
      BY <2>2, <3>2, <3>3
  <2> QED
    BY <2>2, <2>3, <2>4
<1>3. ASSUME DOMAIN established = {}, DOMAIN established' # {}
      PROVE  SealVerified' /\ Reviewed' = Page
  <2>1. Establish
    BY <1>3, Writers
  <2>2. SealVerified /\ Reviewed = Page /\ UNCHANGED <<reading, reviews, records, links, seals>>
    BY <2>1 DEF Establish, Inv, Standing
  <2> QED
    BY <2>2, SealVerifiedStays DEF Reviewed, Unit
<1> QED
  BY <1>1, <1>2, <1>3 DEF Standing

LEMMA EstablishedStays ==
    ASSUME Inv, [Next]_vars
    PROVE  /\ EstablishedStands' /\ DOMAIN established \subseteq DOMAIN established'
<1> SUFFICES ASSUME NEW u \in DOMAIN established'
             PROVE  /\ established'[u] = Len(reviews'[u]) /\ Last(reviews'[u]).outcome = "accepted"
                    /\ DOMAIN established \subseteq DOMAIN established'
  BY Writers DEF EstablishedStands, Establish
<1>1. CASE Establish
  <2>1. PICK v \in driver.pass.accepted :
          established' = [w \in DOMAIN established \cup {v} |->
                            IF w = v THEN Len(reviews[v]) ELSE established[w]]
    BY <1>1 DEF Establish
  <2>2. v \in Accepted /\ reviews' = reviews
    BY <1>1, <2>1 DEF Establish, Inv, Standing
  <2>3. Last(reviews[v]).outcome = "accepted"
    BY <2>2 DEF Accepted
  <2> QED
    BY <2>1, <2>2, <2>3 DEF Inv, EstablishedStands
<1>2. CASE established' = established
  <2>1. reviews' = reviews
    BY <1>2, Frozen
  <2> QED
    BY <1>2, <2>1 DEF Inv, EstablishedStands
<1> QED
  BY <1>1, <1>2, Writers

-----------------------------------------------------------------------------
(* What stood when a digest was printed.                                   *)

\* What is held of the same records does not grow when a page is read again.
LEMMA HeldShrinks ==
    ASSUME Inv, [Next]_vars, reviews' = reviews, records' = records, links' = links
    PROVE  Held' \subseteq Held
<1>1. ASSUME NEW p \in Page, p \in Reviewed', Last(reviews'[Unit(p)']).outcome = "held"
      PROVE  <<"unit", Unit(p)'>> \in Held
  <2>1. Unit(p)' \in DOMAIN reviews
    BY <1>1 DEF Reviewed
  <2>2. Unit(p)' = Unit(p)
    BY <2>1, CurrentBefore, SameReview
  <2> QED
    BY <1>1, <2>1, <2>2 DEF Held, Reviewed
<1>2. HeldLinks' = HeldLinks
  BY DEF HeldLinks
<1>3. (IF records = << >> THEN {} ELSE Last(records).page_holds)'
        = IF records = << >> THEN {} ELSE Last(records).page_holds
  OBVIOUS
<1>4. ASSUME NEW h \in Held' PROVE h \in Held
  <2>1. CASE \E p \in Page : /\ p \in Reviewed' /\ Last(reviews'[Unit(p)']).outcome = "held"
                            /\ h = <<"unit", Unit(p)'>>
    BY <1>1, <2>1
  <2>2. CASE \E i \in HeldLinks' : h = <<"link", i>>
    BY <1>2, <2>2 DEF Held
  <2>3. CASE \E p \in (IF records = << >> THEN {} ELSE Last(records).page_holds)' : h = <<"page", p>>
    BY <1>3, <2>3 DEF Held
  <2> QED
    BY <1>4, <2>1, <2>2, <2>3 DEF Held, Reviewed
<1> QED
  BY <1>4

LEMMA StoodStays ==
    ASSUME Inv, [Next]_vars, NEW x, x.seal \in DOMAIN seals, StoodTrue(x)
    PROVE  x.seal = Len(seals') /\ SealVerified' => Held' \subseteq x.stood
<1> SUFFICES ASSUME x.seal = Len(seals'), SealVerified' PROVE Held' \subseteq x.stood
  OBVIOUS
<1>1. CASE seals' = seals
  BY <1>1, Outgrown, HeldShrinks DEF StoodTrue
<1>2. CASE seals' # seals
  <2>1. seals' = Append(seals, Inventory)
    BY <1>2, Writers, Sealed
  <2>2. seals \in Seq(Reviews \X Seq(Record) \X Seq(BreakLink))
        /\ Inventory \in Reviews \X Seq(Record) \X Seq(BreakLink)
    BY DEF Inv, Typed, Inventory
  <2>3. x.seal \in 1 .. Len(seals) /\ Len(seals) \in Nat /\ Len(seals') = Len(seals) + 1
    BY <2>1, <2>2
  <2> QED
    BY <2>3
<1> QED
  BY <1>1, <1>2

LEMMA StoodKept ==
    ASSUME Inv, [Next]_vars
    PROVE  Stood'
<1>1. ASSUME NEW a \in advances' PROVE StoodTrue(a)'
  <2>1. CASE a \in advances
    <3>1. a.seal \in DOMAIN seals /\ StoodTrue(a)
      BY <2>1 DEF Inv, Typed, Stood
    <3> QED
      BY <3>1, StoodStays DEF StoodTrue
  <2>2. CASE a \notin advances
    <3>1. RecordAdvance /\ DigestConfirmed /\ prompt # None
          /\ a = [seal |-> Len(seals), stood |-> prompt.stood]
      BY <1>1, <2>2, Writers DEF RecordAdvance
    <3>2. prompt.seal = Len(seals) /\ prompt.seal \in DOMAIN seals /\ StoodTrue(prompt)
      BY <3>1 DEF DigestConfirmed, Inv, Typed, Stood
    <3>3. StoodTrue(a) /\ a.seal \in DOMAIN seals
      BY <3>1, <3>2 DEF StoodTrue
    <3> QED
      BY <3>3, StoodStays DEF StoodTrue
  <2> QED
    BY <2>1, <2>2
<1>2. ASSUME prompt' # None PROVE StoodTrue(prompt)'
  <2>1. CASE Prompt
    <3>1. prompt'.stood = Held /\ UNCHANGED <<reading, reviews, records, links, seals>>
      BY <2>1 DEF Prompt, tree
    <3>2. Held' = Held
      BY <3>1 DEF Held, HeldLinks, Reviewed, Unit
    <3> QED
      BY <3>1, <3>2 DEF StoodTrue
  <2>2. CASE prompt # None /\ prompt'.seal = prompt.seal /\ prompt'.stood = prompt.stood
    <3>1. prompt.seal \in DOMAIN seals /\ StoodTrue(prompt)
      BY <2>2 DEF Inv, Typed, Stood
    <3> QED
      BY <2>2, <3>1, StoodStays DEF StoodTrue
  <2>3. CASE VerifySeal
    <3>1. prompt = [seal |-> prompt.seal, stood |-> prompt.stood, verified |-> prompt.verified]
          /\ prompt # None /\ prompt' = [prompt EXCEPT !.verified = TRUE]
      BY <1>2, <2>3 DEF VerifySeal, Inv, Typed
    <3>2. prompt'.seal = prompt.seal /\ prompt'.stood = prompt.stood
      BY <3>1
    <3> QED
      BY <2>2, <3>1, <3>2
  <2>4. CASE RecordAdvance
    BY <1>2, <2>4 DEF RecordAdvance
  <2>5. CASE prompt' = prompt
    BY <1>2, <2>2, <2>5
  <2> QED
    BY <2>1, <2>3, <2>4, <2>5, Writers
<1> QED
  BY <1>1, <1>2 DEF Stood

\* An export that delivers a reading is made of a sealed review that was advanced.
LEMMA Delivers ==
    ASSUME Inv, Armarium, export' # export, DOMAIN export'.acts # {}
    PROVE  /\ SealVerified /\ DOMAIN established # {}
           /\ export'.holds # {} =>
                \E a \in advances : a.seal = Len(seals) /\ export'.holds \subseteq a.stood
<1>1. export'.acts = established /\ export'.holds = Held /\ Passed
  BY DEF Armarium
<1>2. DOMAIN established # {} /\ SealVerified
  BY <1>1 DEF Inv, Standing
<1>3. ASSUME Held # {} PROVE \E a \in advances : a.seal = Len(seals) /\ Held \subseteq a.stood
  <2>1. PICK a \in advances : a.seal = Len(seals)
    BY <1>1, <1>3 DEF Passed, Advanced
  <2> QED
    BY <1>2, <2>1 DEF Inv, Stood, StoodTrue
<1> QED
  BY <1>1, <1>2, <1>3

LEMMA ExportedStays ==
    ASSUME Inv, [Next]_vars
    PROVE  Exported'
<1> SUFFICES ASSUME export' # None, DOMAIN export'.acts # {}
             PROVE  DOMAIN established' # {} /\ (export'.holds # {} => AdvancedHolds')
  BY DEF Exported, NoLateHoldDelivered
<1>1. CASE export' = export
  <2>1. DOMAIN established # {} /\ (export.holds # {} => AdvancedHolds)
    BY <1>1 DEF Inv, Exported, NoLateHoldDelivered
  <2>2. seals' = seals /\ advances \subseteq advances' /\ DOMAIN established \subseteq DOMAIN established'
    BY <2>1, Frozen, Writers, EstablishedStays DEF RecordAdvance
  <2> QED
    BY <1>1, <2>1, <2>2 DEF AdvancedHolds
<1>2. CASE export' # export
  <2>1. Armarium
    BY <1>2, Writers
  <2>2. established' = established /\ seals' = seals /\ advances' = advances
    BY <2>1 DEF Armarium, people
  <2> QED
    BY <1>2, <2>1, <2>2, Delivers DEF AdvancedHolds
<1> QED
  BY <1>1, <1>2

-----------------------------------------------------------------------------
(* The theorems.                                                           *)

LEMMA InvInit == Init => Inv
<1> SUFFICES ASSUME Init PROVE Inv
  OBVIOUS
<1>1. DOMAIN << >> = {} /\ << >> \in Seq(Record) /\ << >> \in Seq(BreakLink)
  OBVIOUS
<1>2. reviews \in Reviews
  <2>1. << >> \in [{} -> Seq(Reviewing)]
    OBVIOUS
  <2> QED
    BY <2>1 DEF Init, Reviews
<1>3. Typed
  <2>1. reading \in [Page -> [n : 1 .. MaxReads, held : BOOLEAN, flag : BOOLEAN]]
    BY RunAssumption DEF Init
  <2> QED
    BY <1>1, <1>2, <2>1 DEF Init, Typed, Idle, Places
<1>4. Bounded /\ RecordsTrue /\ (seals # << >> => SealTrue(Last(seals)))
  BY <1>1 DEF Init, Bounded, RecordsTrue
<1>5. PassTrue /\ Standing /\ EstablishedStands /\ Stood /\ Exported
  BY <1>1 DEF Init, Idle, PassTrue, AtPass, At, Standing, EstablishedStands, Stood, Exported,
              NoLateHoldDelivered
<1> QED
  BY <1>3, <1>4, <1>5 DEF Inv

LEMMA InvStays == Inv /\ [Next]_vars => Inv'
<1> SUFFICES ASSUME Inv, [Next]_vars PROVE Inv'
  OBVIOUS
<1>1. Typed' /\ Bounded' /\ RecordsTrue' /\ (seals' # << >> => SealTrue(Last(seals))')
  BY TypedStays, BoundedStays, RecordsTrueStays, SealsTrueStay
<1>2. PassTrue' /\ Standing' /\ EstablishedStands' /\ Stood' /\ Exported'
  BY PassTrueStays, StandingStays, EstablishedStays, StoodKept, ExportedStays
<1> QED
  BY <1>1, <1>2 DEF Inv

(* Whoever was killed, resumed, decided or advanced when: the Recensor's    *)
(* last seal is of no more than there is, of reviews its own decisions make *)
(* of the readings, and once a reading is established it is of exactly what *)
(* there is (page_review.py write_reading_receipt, seal_boundary).          *)
THEOREM RunHolds == Spec => []Inv
<1>1. Spec => []Inv
  BY InvInit, InvStays, PTL DEF Spec
<1> QED
  BY <1>1

THEOREM TypeCorrect == Spec => []TypeOK
<1>1. Inv => TypeOK
  BY ReviewsAre DEF Inv, Typed, TypeOK, RecordsTrue, Places
<1> QED
  BY <1>1, RunHolds, PTL

(* The review an established reading rests on accepted it and stays its     *)
(* last (6_archetypus establish_from_accepted_page_reading, and the refusal *)
(* of _review_decisions_ordinal).                                           *)
THEOREM EstablishedAlwaysStands == Spec => []EstablishedStands
<1>1. Inv => EstablishedStands
  BY DEF Inv
<1> QED
  BY <1>1, RunHolds, PTL

(* A hold in an export that delivers a reading stood already when the       *)
(* digest of the advanced seal was put before the person who typed it       *)
(* (cli.py advance_command, advance.py trigger_advance and record_advance,  *)
(* stage.py boundary_advanced).                                             *)
THEOREM NoLateHoldIsDelivered == Spec => []NoLateHoldDelivered
<1>1. Inv => NoLateHoldDelivered
  BY DEF Inv, Exported
<1> QED
  BY <1>1, RunHolds, PTL

(* An export that delivers a reading is made while the Recensor's last seal *)
(* is of exactly its records, although the Armarium does not look at it     *)
(* (7_armarium main).                                                       *)
THEOREM ExportsSealedReviews == Spec => ExportOfSealedReview
<1>1. Inv /\ [Next]_vars => [export' # export /\ DOMAIN export'.acts # {} => SealVerified]_vars
  <2> SUFFICES ASSUME Inv, [Next]_vars, export' # export, DOMAIN export'.acts # {}
               PROVE  SealVerified
    OBVIOUS
  <2>1. Armarium
    BY Writers
  <2> QED
    BY <2>1, Delivers
<1> QED
  BY <1>1, RunHolds, PTL DEF Spec, ExportOfSealedReview

-----------------------------------------------------------------------------
(* The boundary between the Recensor and the Archetypus.                   *)

\* Each seal is of no more than there is, and of more than every seal before it.
Nested ==
    \A i \in DOMAIN seals :
        /\ Contents(seals[i]) \subseteq Contents(Inventory)
        /\ \A j \in DOMAIN seals : i < j =>
              Contents(seals[i]) \subseteq Contents(seals[j]) /\ Contents(seals[i]) # Contents(seals[j])

\* A thing is listed as a review of its unit, as a record or as a link.
LEMMA Listed ==
    ASSUME NEW rv, NEW rc, NEW lk, NEW e
    PROVE  e \in Contents(<<rv, rc, lk>>) <=>
             \/ \E u \in DOMAIN rv : e \in Attempts(<<"review", u>>, rv[u])
             \/ e \in Attempts(<<"record">>, rc)
             \/ e \in Attempts(<<"link">>, lk)
<1>1. e \in Reviewings(rv) <=> \E u \in DOMAIN rv : e \in Attempts(<<"review", u>>, rv[u])
  BY DEF Reviewings
<1>2. Contents(<<rv, rc, lk>>) =
        Reviewings(rv) \cup Attempts(<<"record">>, rc) \cup Attempts(<<"link">>, lk)
  BY DEF Contents
<1> QED
  BY <1>1, <1>2

\* Contents that are among others name reviews, records and links that are there.
LEMMA Lists ==
    ASSUME NEW rv, NEW rc, NEW lk, NEW rv2, NEW rc2, NEW lk2,
           Contents(<<rv, rc, lk>>) \subseteq Contents(<<rv2, rc2, lk2>>)
    PROVE  /\ \A u \in DOMAIN rv : \A i \in DOMAIN rv[u] :
                u \in DOMAIN rv2 /\ i \in DOMAIN rv2[u] /\ rv2[u][i] = rv[u][i]
           /\ \A i \in DOMAIN rc : i \in DOMAIN rc2 /\ rc2[i] = rc[i]
           /\ \A i \in DOMAIN lk : i \in DOMAIN lk2 /\ lk2[i] = lk[i]
<1>1. \A u, v : <<"review", u>> = <<"review", v>> => u = v
  OBVIOUS
<1>2. /\ \A u : <<"review", u>> # <<"record">> /\ <<"review", u>> # <<"link">>
      /\ <<"record">> # <<"link">>
  OBVIOUS
<1>3. ASSUME NEW name, NEW i, NEW x, NEW what, NEW made
      PROVE  <<name, i, x>> \in Attempts(what, made) <=> name = what /\ i \in DOMAIN made /\ x = made[i]
  BY DEF Attempts
<1>4. ASSUME NEW u \in DOMAIN rv, NEW i \in DOMAIN rv[u]
      PROVE  u \in DOMAIN rv2 /\ i \in DOMAIN rv2[u] /\ rv2[u][i] = rv[u][i]
  <2> DEFINE e == <<<<"review", u>>, i, rv[u][i]>>
  <2>4. e \in Attempts(<<"review", u>>, rv[u])
    BY <1>3
  <2>1. e \in Contents(<<rv2, rc2, lk2>>)
    <3> HIDE DEF e
    <3> QED
      BY <2>4, Listed
  <2>2. e \notin Attempts(<<"record">>, rc2) /\ e \notin Attempts(<<"link">>, lk2)
    BY <1>2, <1>3
  <2>3. PICK v \in DOMAIN rv2 : e \in Attempts(<<"review", v>>, rv2[v])
    <3> HIDE DEF e
    <3> QED
      BY <2>1, <2>2, Listed
  <2> QED
    BY <1>1, <1>3, <2>3
<1>5. ASSUME NEW i \in DOMAIN rc
      PROVE  i \in DOMAIN rc2 /\ rc2[i] = rc[i]
  <2> DEFINE e == <<<<"record">>, i, rc[i]>>
  <2>1. e \in Attempts(<<"record">>, rc)
    BY <1>3
  <2>2. /\ e \notin Attempts(<<"link">>, lk2)
        /\ \A v \in DOMAIN rv2 : e \notin Attempts(<<"review", v>>, rv2[v])
    BY <1>2, <1>3
  <2>3. e \in Attempts(<<"record">>, rc2)
    <3> HIDE DEF e
    <3> QED
      BY <2>1, <2>2, Listed
  <2> QED
    BY <1>3, <2>3
<1>6. ASSUME NEW i \in DOMAIN lk
      PROVE  i \in DOMAIN lk2 /\ lk2[i] = lk[i]
  <2> DEFINE e == <<<<"link">>, i, lk[i]>>
  <2>1. e \in Attempts(<<"link">>, lk)
    BY <1>3
  <2>2. /\ e \notin Attempts(<<"record">>, rc2)
        /\ \A v \in DOMAIN rv2 : e \notin Attempts(<<"review", v>>, rv2[v])
    BY <1>2, <1>3
  <2>3. e \in Attempts(<<"link">>, lk2)
    <3> HIDE DEF e
    <3> QED
      BY <2>1, <2>2, Listed
  <2> QED
    BY <1>3, <2>3
<1> QED
  BY <1>4, <1>5, <1>6

\* Contents that are listed in one inventory are listed in a longer one.
LEMMA Extends ==
    ASSUME NEW rv, NEW rc, NEW lk, NEW rv2, NEW rc2, NEW lk2,
           \A u \in DOMAIN rv : /\ u \in DOMAIN rv2
                                /\ \A i \in DOMAIN rv[u] : i \in DOMAIN rv2[u] /\ rv2[u][i] = rv[u][i],
           \A i \in DOMAIN rc : i \in DOMAIN rc2 /\ rc2[i] = rc[i],
           \A i \in DOMAIN lk : i \in DOMAIN lk2 /\ lk2[i] = lk[i]
    PROVE  Contents(<<rv, rc, lk>>) \subseteq Contents(<<rv2, rc2, lk2>>)
<1>1. \A u \in DOMAIN rv : Attempts(<<"review", u>>, rv[u]) \subseteq Attempts(<<"review", u>>, rv2[u])
  BY DEF Attempts
<1>2. Attempts(<<"record">>, rc) \subseteq Attempts(<<"record">>, rc2)
  BY DEF Attempts
<1>3. Attempts(<<"link">>, lk) \subseteq Attempts(<<"link">>, lk2)
  BY DEF Attempts
<1> SUFFICES ASSUME NEW e \in Contents(<<rv, rc, lk>>) PROVE e \in Contents(<<rv2, rc2, lk2>>)
  OBVIOUS
<1>4. \/ \E u \in DOMAIN rv : e \in Attempts(<<"review", u>>, rv[u])
      \/ e \in Attempts(<<"record">>, rc)
      \/ e \in Attempts(<<"link">>, lk)
  BY Listed
<1>5. CASE \E u \in DOMAIN rv : e \in Attempts(<<"review", u>>, rv[u])
  <2>1. PICK u \in DOMAIN rv : e \in Attempts(<<"review", u>>, rv[u])
    BY <1>5
  <2>2. u \in DOMAIN rv2 /\ e \in Attempts(<<"review", u>>, rv2[u])
    BY <1>1, <2>1
  <2> QED
    BY <2>2, Listed
<1> QED
  BY <1>2, <1>3, <1>4, <1>5, Listed

\* Nothing that was published is replaced: the contents only grow.
LEMMA ContentsGrow ==
    ASSUME Inv, [Next]_vars
    PROVE  Contents(Inventory) \subseteq Contents(Inventory)'
<1>1. Typed
  BY DEF Inv
<1>2. ASSUME NEW S, NEW s \in Seq(S), NEW t, s = t \/ \E e \in S : t = Append(s, e)
      PROVE  \A i \in DOMAIN s : i \in DOMAIN t /\ t[i] = s[i]
  BY <1>2
<1>3. \A i \in DOMAIN records : i \in DOMAIN records' /\ records'[i] = records[i]
  <2>1. records' = records \/ \E e \in Record : records' = Append(records, e)
    <3>1. CASE records' # records
      <4>1. PublishRecord /\ records' = Append(records, driver.pass.record) /\ driver.pass.record # None
        BY <3>1, Writers DEF PublishRecord
      <4>2. PICK D \in SUBSET stored : driver.pass = Plan(D)
        BY <4>1 DEF PublishRecord, Inv, PassTrue, AtPass, At
      <4>3. D \in SUBSET Decision
        BY <1>1 DEF Typed
      <4>4. driver.pass.record \in Record
        BY <1>1, <4>1, <4>2, <4>3, Planning
      <4> QED
        BY <4>1, <4>4
    <3> QED
      BY <3>1
  <2>2. records \in Seq(Record)
    BY <1>1 DEF Typed
  <2> QED
    BY <1>2, <2>1, <2>2
<1>4. \A i \in DOMAIN links : i \in DOMAIN links' /\ links'[i] = links[i]
  <2>1. links' = links \/ \E e \in BreakLink : links' = Append(links, e)
    <3>1. CASE links' # links
      <4>1. PublishLink /\ links' = Append(links, driver.pass.link) /\ driver.pass.link # None
        BY <3>1, Writers DEF PublishLink
      <4>2. PICK D \in SUBSET stored : driver.pass = Plan(D)
        BY <4>1 DEF PublishLink, Inv, PassTrue, AtPass, At
      <4>3. D \in SUBSET Decision
        BY <1>1 DEF Typed
      <4>4. driver.pass.link \in BreakLink
        BY <1>1, <4>1, <4>2, <4>3, Planning
      <4> QED
        BY <4>1, <4>4
    <3> QED
      BY <3>1
  <2>2. links \in Seq(BreakLink)
    BY <1>1 DEF Typed
  <2> QED
    BY <1>2, <2>1, <2>2
<1>5. \A u \in DOMAIN reviews :
        /\ u \in DOMAIN reviews'
        /\ \A i \in DOMAIN reviews[u] : i \in DOMAIN reviews'[u] /\ reviews'[u][i] = reviews[u][i]
  <2>1. CASE reviews' = reviews
    BY <2>1
  <2>2. CASE reviews' # reviews
    <3>1. PublishReview
      BY <2>2, Writers
    <3>2. PICK p \in Page :
            reviews' = [u \in DOMAIN reviews \cup {Unit(p)} |->
                          IF u # Unit(p) THEN reviews[u]
                          ELSE Append(IF u \in DOMAIN reviews THEN reviews[u] ELSE << >>,
                                      driver.pass.review[p])]
      BY <2>2, <3>1 DEF PublishReview
    <3>3. driver.pass.review[p] \in Reviewing
      <4>1. PICK D \in SUBSET stored : driver.pass = Plan(D)
        BY <3>1 DEF PublishReview, Inv, PassTrue, AtPass, At
      <4>2. D \in SUBSET Decision
        BY <1>1 DEF Typed
      <4> QED
        BY <1>1, <4>1, <4>2, Planning
    <3>4. ASSUME NEW u \in DOMAIN reviews
          PROVE  /\ u \in DOMAIN reviews'
                 /\ \A i \in DOMAIN reviews[u] : i \in DOMAIN reviews'[u] /\ reviews'[u][i] = reviews[u][i]
      <4>1. u \in DOMAIN reviews' /\ reviews[u] \in Seq(Reviewing)
        BY <1>1, <3>2, ReviewsAre
      <4>2. reviews'[u] = reviews[u] \/ reviews'[u] = Append(reviews[u], driver.pass.review[p])
        BY <3>2
      <4> QED
        BY <1>2, <3>3, <4>1, <4>2
    <3> QED
      BY <3>4
  <2> QED
    BY <2>1, <2>2
<1> QED
  BY <1>3, <1>4, <1>5, Extends DEF Inventory

\* A seal that lists all there is, is of exactly what there is.
LEMMA ContentsTell ==
    ASSUME Inv, seals # << >>, Contents(Last(seals)) = Contents(Inventory)
    PROVE  SealVerified
<1> PICK s : s = Last(seals)
  OBVIOUS
<1>1. s \in Reviews \X Seq(Record) \X Seq(BreakLink) /\ SealTrue(s)
  <2>1. seals \in Seq(Reviews \X Seq(Record) \X Seq(BreakLink))
    BY DEF Inv, Typed
  <2> QED
    BY <2>1 DEF Inv, Last
<1>2. s = <<s[1], s[2], s[3]>> /\ s[2] \in Seq(Record) /\ s[3] \in Seq(BreakLink) /\ s[1] \in Reviews
  BY <1>1
<1> DEFINE s1 == s[1]
           s2 == s[2]
           s3 == s[3]
<1>3. Contents(<<s1, s2, s3>>) = Contents(<<reviews, records, links>>)
  BY <1>2 DEF Inventory
<1>8. /\ \A u \in DOMAIN s1 : \A i \in DOMAIN s1[u] : i \in DOMAIN reviews[u] /\ reviews[u][i] = s1[u][i]
      /\ \A i \in DOMAIN s2 : i \in DOMAIN records /\ records[i] = s2[i]
      /\ \A i \in DOMAIN s3 : i \in DOMAIN links /\ links[i] = s3[i]
  <2> HIDE DEF s1, s2, s3
  <2>1. Contents(<<s1, s2, s3>>) \subseteq Contents(<<reviews, records, links>>)
    BY <1>3
  <2> QED
    BY <2>1, Lists
<1>9. /\ \A u \in DOMAIN reviews : \A i \in DOMAIN reviews[u] : u \in DOMAIN s1 /\ i \in DOMAIN s1[u]
      /\ \A i \in DOMAIN records : i \in DOMAIN s2
      /\ \A i \in DOMAIN links : i \in DOMAIN s3
  <2> HIDE DEF s1, s2, s3
  <2>1. Contents(<<reviews, records, links>>) \subseteq Contents(<<s1, s2, s3>>)
    BY <1>3
  <2> QED
    BY <2>1, Lists
<1>4. ASSUME NEW S, NEW a \in Seq(S), NEW b \in Seq(S),
             \A i \in DOMAIN a : i \in DOMAIN b /\ b[i] = a[i],
             \A i \in DOMAIN b : i \in DOMAIN a
      PROVE  a = b
  <2>1. DOMAIN a = DOMAIN b
    BY <1>4
  <2>2. Len(a) = Len(b)
    BY <2>1, LenProperties
  <2> QED
    BY <1>4, <2>2, SeqEqual
<1>5. s[2] = records /\ s[3] = links
  <2>1. records \in Seq(Record) /\ links \in Seq(BreakLink)
    BY DEF Inv, Typed
  <2> QED
    BY <1>2, <1>4, <1>8, <1>9, <2>1
<1>7. s[1] = reviews
  <2>1. DOMAIN s[1] = DOMAIN reviews
    <3>1. DOMAIN s[1] \subseteq DOMAIN reviews
      BY <1>1 DEF SealTrue
    <3>2. ASSUME NEW u \in DOMAIN reviews
          PROVE  u \in DOMAIN s[1]
      <4>1. 1 \in DOMAIN reviews[u]
        BY ReviewsAre DEF Inv
      <4> QED
        BY <1>9, <4>1
    <3> QED
      BY <3>1, <3>2
  <2>2. ASSUME NEW u \in DOMAIN reviews
        PROVE  s[1][u] = reviews[u]
    <3>1. \A i \in DOMAIN s[1][u] : i \in DOMAIN reviews[u] /\ reviews[u][i] = s[1][u][i]
      BY <1>8, <2>1
    <3>2. \A i \in DOMAIN reviews[u] : i \in DOMAIN s[1][u]
      BY <1>9
    <3>3. reviews[u] \in Seq(Reviewing) /\ s[1][u] \in Seq(Reviewing)
      BY <1>2, <2>1, ReviewsAre DEF Inv, Reviews
    <3> QED
      BY <1>4, <3>1, <3>2, <3>3
  <2>3. reviews \in Reviews
    BY DEF Inv, Typed
  <2> QED
    BY <1>2, <2>1, <2>2, <2>3 DEF Reviews
<1> QED
  BY <1>2, <1>5, <1>7 DEF SealVerified, Inventory

\* A new seal is of more than every seal there is.
LEMMA SealOutgrows ==
    ASSUME Inv, Nested, seals # << >>, ~SealVerified, NEW i \in DOMAIN seals
    PROVE  Contents(seals[i]) \subseteq Contents(Inventory) /\ Contents(seals[i]) # Contents(Inventory)
<1>1. /\ Len(seals) \in DOMAIN seals /\ Last(seals) = seals[Len(seals)]
      /\ i = Len(seals) \/ i < Len(seals)
  BY DEF Inv, Typed, Last
<1>2. Contents(Last(seals)) # Contents(Inventory)
  BY ContentsTell
<1> QED
  BY <1>1, <1>2 DEF Nested

LEMMA NestedStays ==
    ASSUME Inv, Nested, [Next]_vars
    PROVE  Nested'
<1>1. Contents(Inventory) \subseteq Contents(Inventory')
  BY ContentsGrow
<1>2. CASE seals' = seals
  BY <1>1, <1>2 DEF Nested
<1>3. CASE seals' # seals
  <2>1. /\ seals' = Append(seals, Inventory) /\ ~SealVerified
        /\ UNCHANGED <<reading, reviews, records, links>>
    BY <1>3, Writers, Sealed
  <2>2. Inventory' = Inventory
    BY <2>1 DEF Inventory
  <2>3. /\ Len(seals) \in Nat /\ DOMAIN seals = 1 .. Len(seals)
        /\ DOMAIN seals' = 1 .. Len(seals) + 1
        /\ seals'[Len(seals) + 1] = Inventory
        /\ \A i \in DOMAIN seals : seals'[i] = seals[i]
    <3>1. seals \in Seq(Reviews \X Seq(Record) \X Seq(BreakLink))
      BY DEF Inv, Typed
    <3>2. Inventory \in Reviews \X Seq(Record) \X Seq(BreakLink)
      BY DEF Inv, Typed, Inventory
    <3> QED
      BY <2>1, <3>1, <3>2
  <2>4. \A i \in DOMAIN seals :
          Contents(seals[i]) \subseteq Contents(Inventory) /\ Contents(seals[i]) # Contents(Inventory)
    BY <2>1, <2>3, SealOutgrows
  <2> SUFFICES ASSUME NEW i \in DOMAIN seals'
               PROVE  /\ Contents(seals'[i]) \subseteq Contents(Inventory')
                      /\ \A j \in DOMAIN seals' : i < j =>
                            /\ Contents(seals'[i]) \subseteq Contents(seals'[j])
                            /\ Contents(seals'[i]) # Contents(seals'[j])
    BY DEF Nested
  <2>5. i = Len(seals) + 1 \/ i \in DOMAIN seals
    BY <2>3
  <2>6. ASSUME NEW j \in DOMAIN seals', i < j
        PROVE  /\ Contents(seals'[i]) \subseteq Contents(seals'[j])
               /\ Contents(seals'[i]) # Contents(seals'[j])
    <3>1. i \in DOMAIN seals /\ (j \in DOMAIN seals \/ j = Len(seals) + 1)
      BY <2>3, <2>6
    <3> QED
      BY <2>3, <2>4, <2>6, <3>1 DEF Nested
  <2> QED
    BY <2>2, <2>3, <2>4, <2>5, <2>6
<1> QED
  BY <1>2, <1>3

\* Every step of the run is a step of the boundary, or none.
LEMMA RunStepsTheBoundary ==
    ASSUME Inv, Nested, [Next]_vars
    PROVE  Boundary!Next \/ UNCHANGED Boundary!vars
<1> DEFINE stated == {<<i, Contents(seals[i])>> : i \in DOMAIN seals}
           accepted == At("establish")
<1> USE DEF Boundary!Next
<1>1. CASE seals' # seals
  <2>1. ReceiptAndSeal /\ seals' = Append(seals, Inventory) /\ ~SealVerified
        /\ UNCHANGED <<reading, reviews, records, links>>
    BY <1>1, Writers, Sealed
  <2>2. Contents(Inventory)' = Contents(Inventory)
    BY <2>1 DEF Inventory
  <2>3. ~At("establish") /\ ~At("establish")'
    <3>1. Goto("gate")
      BY <1>1, <2>1 DEF ReceiptAndSeal
    <3>2. driver'.at = "gate"
      BY <3>1, Going DEF Inv
    <3> QED
      BY <2>1, <3>2 DEF ReceiptAndSeal, At
  <2> DEFINE new == <<Len(seals) + 1, Contents(Inventory)>>
  <2>4. stated' = stated \cup {new}
    <3>1. /\ Len(seals) \in Nat /\ DOMAIN seals = 1 .. Len(seals)
          /\ DOMAIN seals' = 1 .. Len(seals) + 1
          /\ seals'[Len(seals) + 1] = Inventory
          /\ \A i \in DOMAIN seals : seals'[i] = seals[i]
      <4>1. seals \in Seq(Reviews \X Seq(Record) \X Seq(BreakLink))
        BY DEF Inv, Typed
      <4>2. Inventory \in Reviews \X Seq(Record) \X Seq(BreakLink)
        BY DEF Inv, Typed, Inventory
      <4> QED
        BY <2>1, <4>1, <4>2
    <3>2. DOMAIN seals' = DOMAIN seals \cup {Len(seals) + 1} /\ Len(seals) + 1 \notin DOMAIN seals
      BY <3>1
    <3> QED
      BY <3>1, <3>2
  <2>5. \A s \in stated :
          s[1] < Len(seals) + 1 /\ s[2] \subseteq Contents(Inventory) /\ s[2] # Contents(Inventory)
    <3> SUFFICES ASSUME NEW i \in DOMAIN seals
                 PROVE  /\ i < Len(seals) + 1
                        /\ Contents(seals[i]) \subseteq Contents(Inventory)
                        /\ Contents(seals[i]) # Contents(Inventory)
      OBVIOUS
    <3>1. i < Len(seals) + 1
      BY DEF Inv, Typed
    <3> QED
      BY <2>1, <3>1, SealOutgrows
  <2>6. UNCHANGED accepted
    BY <2>3 DEF At
  <2>7. new \in stated' /\ new[1] = Len(seals) + 1 /\ new[2] = Contents(Inventory)
    BY <2>4
  <2> HIDE DEF accepted, stated, new
  <2>8. Boundary!State
    BY <2>2, <2>4, <2>5, <2>6, <2>7 DEF Boundary!State, accepted, stated
  <2> QED
    BY <2>8
<1>2. CASE seals' = seals
  <2>1. UNCHANGED stated
    BY <1>2
  <2>2. CASE UNCHANGED accepted
    <3>1. Contents(Inventory) \subseteq Contents(Inventory)'
      BY ContentsGrow
    <3> QED
      BY <2>1, <2>2, <3>1 DEF Boundary!Publish
  <2>3. CASE accepted /\ ~accepted'
    <3>1. UNCHANGED <<reviews, records, links>>
      <4>1. ~PublishReview /\ ~PublishRecord /\ ~PublishLink
        BY <2>3 DEF PublishReview, PublishRecord, PublishLink, At
      <4> QED
        BY <4>1, Writers
    <3>2. UNCHANGED Contents(Inventory)
      BY <3>1 DEF Inventory
    <3>3. accepted' = FALSE
      BY <2>3 DEF At
    <3> QED
      BY <2>1, <3>2, <3>3 DEF Boundary!Forget
  <2>4. CASE ~accepted /\ accepted'
    <3>1. UNCHANGED <<reviews, records, links>> /\ SealVerified
      BY <2>4, EstablishGoes DEF ArchetypusEnters
    <3>2. UNCHANGED Contents(Inventory)
      BY <3>1 DEF Inventory
    <3>3. \E s \in stated : s[2] = Contents(Inventory)
      <4>1. Len(seals) \in DOMAIN seals /\ seals[Len(seals)] = Inventory
        BY <3>1 DEF SealVerified, Last, Inv, Typed
      <4>2. <<Len(seals), Contents(Inventory)>> \in stated
        BY <4>1
      <4> QED
        BY <4>2
    <3>4. accepted' = TRUE
      BY <2>4 DEF At
    <3> QED
      BY <2>1, <2>4, <3>2, <3>3, <3>4 DEF Boundary!Accept
  <2>5. (accepted \in BOOLEAN) /\ (accepted' \in BOOLEAN)
    BY DEF At
  <2> QED
    BY <2>2, <2>3, <2>4, <2>5
<1> QED
  BY <1>1, <1>2

(* The Recensor's boundary is the SealedBoundary a stage's seals implement: *)
(* whatever people decide meanwhile and wherever the driver is killed, its  *)
(* seals only come to say more, and the Archetypus goes on only when one    *)
(* says all there is (stage.py seal_boundary, verify_stage_seal).           *)
THEOREM RunKeepsTheBoundary == Spec => RecensorBoundaryKept
<1>1. Init => Nested
  BY DEF Init, Nested
<1>2. Inv /\ Nested /\ [Next]_vars => Nested'
  BY NestedStays
<1>3. Spec => []Nested
  BY <1>1, <1>2, RunHolds, PTL DEF Spec
<1>4. Init => Boundary!Init
  <2> SUFFICES ASSUME Init PROVE Boundary!Init
    OBVIOUS
  <2>1. DOMAIN << >> = {}
    OBVIOUS
  <2>2. Contents(Inventory) = {}
    BY <2>1 DEF Init, Inventory, Contents, Reviewings, Attempts
  <2>3. {<<i, Contents(seals[i])>> : i \in DOMAIN seals} = {}
    BY <2>1 DEF Init
  <2>4. At("establish") = FALSE
    BY DEF Init, Idle, At
  <2> QED
    BY <2>2, <2>3, <2>4 DEF Boundary!Init
<1>5. Inv /\ Nested /\ [Next]_vars => [Boundary!Next]_(Boundary!vars)
  BY RunStepsTheBoundary
<1> QED
  BY <1>3, <1>4, <1>5, RunHolds, PTL DEF Spec, RecensorBoundaryKept, Boundary!Spec

=============================================================================
