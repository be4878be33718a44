---------------------------- MODULE ReviewedRun ----------------------------
(***************************************************************************)
(* A run from the Perlector to its export, with people deciding about it   *)
(* and advancing it at the same time.                                      *)
(*                                                                         *)
(* The driver (pipeline/orchestrator/run.py) runs the Perlector, the       *)
(* Recensor, the Archetypus and the Armarium in order, each reading the    *)
(* run tree afresh. It may stop or be killed anywhere and be started again *)
(* from any of them. People record decisions and advance the Recensor's    *)
(* seal through another program, at any moment. Only the run tree is       *)
(* shared, and nothing locks it.                                           *)
(*                                                                         *)
(* Each page has one unit; `break' is the page break between two pages.    *)
(* How decisions make a unit's outcome is ReviewDecisions; here a unit     *)
(* is released, put on hold, or its page asked to be read again. How a     *)
(* seal witnesses a stage's records is StageSeal; here a seal is the       *)
(* records it was sealed over.                                             *)
(***************************************************************************)
EXTENDS Naturals, FiniteSets, Sequences, SequencesExt

CONSTANTS
    Page, Left, Right,    \* the pages, and the two sides of the page break
    None,
    MaxReads,             \* readings of one page
    MaxDecisions,         \* decisions stored
    MaxCrash,             \* times the driver is killed
    Hasty                 \* people decide also while the driver is running

ASSUME RunAssumption == Left \in Page /\ Right \in Page /\ MaxReads \in Nat \ {0}

(* The counted units: a page and the number of its reading.                *)
CountedUnit == Page \X (1 .. MaxReads)

Decision == [unit : CountedUnit, decision : {"release", "hold", "re-ask"}]

ASSUME NoneAssumption ==
    /\ None \notin [seen : SUBSET Decision, applied : SUBSET Decision, page_holds : SUBSET Page]
    /\ None \notin [sides : CountedUnit \X CountedUnit, held : BOOLEAN]

VARIABLES
    reading,      \* page -> [n, held, flag]: the Perlector's current reading
    reviews,      \* unit -> its reviews [outcome, touching], by attempt
    records,      \* the review-decisions records, by attempt
    links,        \* the continuation-links of the break, by attempt
    seals,        \* the Recensor's seals: the records each was sealed over
    established,  \* unit -> the attempt of the review it rests on
    archetypus,   \* what the Archetypus sealed, or None
    export,       \* what the Armarium exported, or None
    stored,       \* decisions: [unit, decision]
    advances,     \* the advance records: [seal, stood], stood a history: what was
                  \* held when the digest was printed
    prompt,       \* the advance command under way: the same and whether the seal
                  \* was verified since, or None
    driver,       \* [at, pass]: where the driver is, and what it planned
    crashes

tree == <<reviews, records, links, seals, established, archetypus, export>>
people == <<stored, advances, prompt>>
vars == <<reading, tree, people, driver, crashes>>

Unit(p) == <<p, reading[p].n>>

Idle == [at |-> "idle", pass |-> None]

At(stage) == driver.at = stage

Goto(stage) == driver' = [driver EXCEPT !.at = stage]

(* A stage refused, or the driver stopped.                                 *)
Stop == driver' = Idle

-----------------------------------------------------------------------------
(* What is read from the run tree.                                         *)

(* _current_reviews: of the units of current readings.                     *)
Reviewed == {p \in Page : Unit(p) \in DOMAIN reviews}

Inventory == <<reviews, records, links>>

(* Every link the Recensor's manifest lists as held.                       *)
HeldLinks == {i \in DOMAIN links : links[i].held}

(* held_by_recensor.                                                       *)
Held ==
    {<<"unit", Unit(p)>> : p \in {q \in Reviewed : Last(reviews[Unit(q)]).outcome = "held"}}
      \cup {<<"link", i>> : i \in HeldLinks}
      \cup {<<"page", p>> : p \in IF records = << >> THEN {} ELSE Last(records).page_holds}

(* boundary_advanced: an advance binds the current seal.                   *)
Advanced == \E a \in advances : a.seal = Len(seals) /\ seals # << >>

(* require_recensor_passed.                                                *)
Passed == Held = {} \/ Advanced

(* The decisions the last of these records saw.                            *)
Seen(recorded) == IF recorded = << >> THEN {} ELSE Last(recorded).seen

(* require_current_review_decisions.                                       *)
DecisionsCurrent == stored = Seen(records)

(* verify_stage_seal, of the Recensor's.                                   *)
SealVerified == seals # << >> /\ Last(seals) = Inventory

(* accepted_act_ids, once every counted unit has a review.                 *)
Accepted == {Unit(p) : p \in {q \in Reviewed : Last(reviews[Unit(q)]).outcome = "accepted"}}

-----------------------------------------------------------------------------
(* decide_reviews: what decisions make of the reviews.                     *)

About(decisions, p, decision) == [unit |-> Unit(p), decision |-> decision] \in decisions

Outcome(decisions, p) ==
    LET said == {d \in {"release", "hold"} : About(decisions, p, d)}
    IN  IF \/ About(decisions, p, "re-ask") \/ "hold" \in said
           \/ reading[p].held /\ said # {"release"}
        THEN "held" ELSE "accepted"

(* The review-decisions record: the decisions seen, those of them that are *)
(* about a unit that is there, and the pages they hold.                    *)
DecisionsRecord(decisions) ==
    [seen |-> decisions,
     applied |-> {d \in decisions : \E p \in Page : d.unit = Unit(p)},
     page_holds |-> {p \in Page : About(decisions, p, "re-ask")}]

(* run_page_breaks: a break some answer flags, held when only one does.    *)
Link ==
    IF reading[Left].flag \/ reading[Right].flag
    THEN [sides |-> <<Unit(Left), Unit(Right)>>,
          held |-> reading[Left].flag # reading[Right].flag]
    ELSE None

Review(decisions, p) ==
    [outcome |-> Outcome(decisions, p), touching |-> {d \in decisions : d.unit = Unit(p)}]

Plan(decisions) ==
    [review |-> [p \in Page |-> Review(decisions, p)],
     record |-> IF decisions = {} THEN None ELSE DecisionsRecord(decisions),
     link |-> Link]

-----------------------------------------------------------------------------
(* The driver, and the stages it runs.                                     *)

Start(stage) ==
    /\ At("idle")
    /\ Goto(stage)
    /\ UNCHANGED <<reading, tree, people, crashes>>

(* requested_rereads.                                                      *)
Requested(p) == p \in Reviewed /\ About(stored, p, "re-ask") /\ reading[p].n < MaxReads

(* read_the_pages, then the Perlector's seal.                              *)
Perlector ==
    /\ At("perlector")
    /\ reading' \in [Page -> [n : 1 .. MaxReads, held : BOOLEAN, flag : BOOLEAN]]
    /\ \A p \in Page : IF Requested(p) THEN reading'[p].n = reading[p].n + 1
                       ELSE reading'[p] = reading[p]
    /\ Goto("recensor")
    /\ UNCHANGED <<tree, people, crashes>>

(* Mutant: decisions that change after a reading is established are        *)
(* applied to the reviews.                                                 *)
NeverTooLate == FALSE

(* _review_decisions_ordinal: the record would change after a reading was  *)
(* established.                                                            *)
TooLate ==
    /\ stored # {}
    /\ records = << >> \/ Last(records) # DecisionsRecord(stored)
    /\ DOMAIN established # {}

(* review_pages plans everything before it publishes anything.             *)
RecensorPlan ==
    /\ At("recensor")
    /\ IF TooLate THEN Stop
       ELSE driver' = [at |-> "reviews", pass |-> Plan(stored)]
    /\ UNCHANGED <<reading, tree, people, crashes>>

(* publish_review, one unit at a time: an unchanged review is reused.      *)
PublishReview ==
    /\ At("reviews")
    /\ LET done(p) == /\ p \in Reviewed
                      /\ Last(reviews[Unit(p)]) = driver.pass.review[p]
           todo == {p \in Page : ~done(p)}
       IN  IF todo = {} THEN Goto("record") /\ UNCHANGED reviews
           ELSE /\ \E p \in todo :
                     reviews' = [u \in DOMAIN reviews \cup {Unit(p)} |->
                        IF u # Unit(p) THEN reviews[u]
                        ELSE Append(IF u \in DOMAIN reviews THEN reviews[u] ELSE << >>,
                                    driver.pass.review[p])]
                /\ UNCHANGED driver
    /\ UNCHANGED <<reading, records, links, seals, established, archetypus, export,
                   people, crashes>>

(* publish_review_decisions.                                               *)
PublishRecord ==
    /\ At("record")
    /\ records' = IF \/ driver.pass.record = None
                     \/ records # << >> /\ Last(records) = driver.pass.record
                  THEN records ELSE Append(records, driver.pass.record)
    /\ Goto("link")
    /\ UNCHANGED <<reading, reviews, links, seals, established, archetypus, export,
                   people, crashes>>

PublishLink ==
    /\ At("link")
    /\ links' = IF \/ driver.pass.link = None
                   \/ links # << >> /\ Last(links) = driver.pass.link
                THEN links ELSE Append(links, driver.pass.link)
    /\ Goto("receipt")
    /\ UNCHANGED <<reading, reviews, records, seals, established, archetypus, export,
                   people, crashes>>

(* write_reading_receipt plans the reviews again from disk and refuses     *)
(* what differs; then seal_boundary, which reuses a seal of the same       *)
(* records, and the driver's gate before the Archetypus.                   *)
ReceiptAndSeal ==
    /\ At("receipt")
    /\ IF /\ Plan(stored).record = (IF records = << >> THEN None ELSE Last(records))
          /\ \A p \in Page : p \in Reviewed /\ Last(reviews[Unit(p)]) = Review(stored, p)
       THEN /\ seals' = IF SealVerified THEN seals ELSE Append(seals, Inventory)
            /\ Goto("gate")
       ELSE Stop /\ UNCHANGED seals
    /\ UNCHANGED <<reading, reviews, records, links, established, archetypus, export,
                   people, crashes>>

(* recensor_holds, before the Archetypus.                                  *)
GateArchetypus ==
    /\ At("gate")
    /\ IF seals # << >> /\ ~Passed THEN Stop ELSE Goto("archetypus")
    /\ UNCHANGED <<reading, tree, people, crashes>>

(* Mutant: the Archetypus trusts the seal it finds.                        *)
EntersUnverified == seals # << >> /\ DecisionsCurrent /\ Passed

(* The Archetypus's entry: the Recensor's seal, the decisions, the holds.  *)
ArchetypusEnters ==
    /\ SealVerified
    /\ DecisionsCurrent
    /\ Passed

(* main: then a review of every counted unit, and every record is built    *)
(* before one is published.                                                *)
Archetypus ==
    /\ At("archetypus")
    /\ IF ArchetypusEnters /\ Reviewed = Page
       THEN driver' = [at |-> "establish", pass |-> [accepted |-> Accepted]]
       ELSE Stop
    /\ UNCHANGED <<reading, tree, people, crashes>>

Establish ==
    /\ At("establish")
    /\ \E u \in driver.pass.accepted :
         /\ u \notin DOMAIN established
         /\ established' = [v \in DOMAIN established \cup {u} |->
                              IF v = u THEN Len(reviews[u]) ELSE established[v]]
    /\ UNCHANGED <<reading, reviews, records, links, seals, archetypus, export,
                   people, driver, crashes>>

(* A record established before must be the same (the store's reuse), and   *)
(* the index must list exactly the accepted units (validate_index).        *)
ArchetypusSeal ==
    /\ At("establish")
    /\ driver.pass.accepted \subseteq DOMAIN established
    /\ IF /\ \A u \in driver.pass.accepted : established[u] = Len(reviews[u])
          /\ DOMAIN established = Accepted
       THEN archetypus' = established /\ Goto("armarium")
       ELSE Stop /\ UNCHANGED archetypus
    /\ UNCHANGED <<reading, reviews, records, links, seals, established, export,
                   people, crashes>>

(* The driver's gate before the Armarium, then its entry: the Archetypus's *)
(* seal, the holds and the decisions; each accepted unit has its one       *)
(* established reading (_page_category). It publishes its export and seals.*)
Armarium ==
    /\ At("armarium")
    /\ IF /\ archetypus = established
          /\ Passed /\ DecisionsCurrent
          /\ Reviewed = Page /\ DOMAIN established = Accepted
       THEN export' = [acts |-> archetypus, holds |-> Held, decisions |-> stored]
       ELSE UNCHANGED export
    /\ Stop
    /\ UNCHANGED <<reading, reviews, records, links, seals, established, archetypus,
                   people, crashes>>

Crash ==
    /\ ~At("idle") /\ crashes < MaxCrash
    /\ crashes' = crashes + 1
    /\ Stop
    /\ UNCHANGED <<reading, tree, people>>

-----------------------------------------------------------------------------
(* People.                                                                 *)

(* record_decision: refused once a reading is established or exported.     *)
Decide(p, decision) ==
    /\ At("idle") \/ Hasty
    /\ Cardinality(stored) < MaxDecisions
    /\ DOMAIN established = {} /\ export = None
    /\ p \in Reviewed
    /\ decision = "release" => reading[p].held
    /\ ~About(stored, p, decision)
    /\ stored' = stored \cup {[unit |-> Unit(p), decision |-> decision]}
    /\ UNCHANGED <<reading, tree, advances, prompt, driver, crashes>>

(* The advance command reads the current seal and prints its digest, the   *)
(* inventories' and a census, which is all the person is asked to confirm: *)
(* the holds are listed by `review', a command of its own. (A bound: one   *)
(* command runs at a time, and a seal that is advanced is not advanced     *)
(* again.)                                                                 *)
Prompt ==
    /\ prompt = None
    /\ seals # << >> /\ ~Advanced
    /\ prompt' = [seal |-> Len(seals), stood |-> Held, verified |-> FALSE]
    /\ UNCHANGED <<reading, tree, stored, advances, driver, crashes>>

(* trigger_advance, once the digest was typed: the seal must verify.       *)
VerifySeal ==
    /\ prompt # None /\ ~prompt.verified
    /\ prompt' = IF SealVerified THEN [prompt EXCEPT !.verified = TRUE] ELSE None
    /\ UNCHANGED <<reading, tree, stored, advances, driver, crashes>>

(* Mutant: the digest confirmed is compared with the wrong seal's.         *)
PreviousDigest == prompt.seal = Len(seals) - 1

(* Mutant: the advance is bound to whatever seal is current.               *)
AnyDigest == TRUE

(* The digest confirmed is the stored seal's still.                        *)
DigestConfirmed == prompt.seal = Len(seals)

(* record_advance: a record of the seal, which nothing verifies again, or  *)
(* a refusal. verify_advance only says afterwards that a record is stale.  *)
RecordAdvance ==
    /\ prompt # None /\ prompt.verified
    /\ advances' = IF DigestConfirmed
                   THEN advances \cup {[seal |-> Len(seals), stood |-> prompt.stood]}
                   ELSE advances
    /\ prompt' = None
    /\ UNCHANGED <<reading, tree, stored, driver, crashes>>

-----------------------------------------------------------------------------
Init ==
    /\ reading \in [Page -> [n : {1}, held : BOOLEAN, flag : BOOLEAN]]
    /\ reviews = << >> /\ records = << >> /\ links = << >> /\ seals = << >>
    /\ established = << >> /\ archetypus = None /\ export = None
    /\ stored = {} /\ advances = {} /\ prompt = None
    /\ driver = Idle /\ crashes = 0

StageStep ==
    \/ Perlector \/ RecensorPlan \/ PublishReview \/ PublishRecord \/ PublishLink
    \/ ReceiptAndSeal \/ GateArchetypus \/ Archetypus \/ Establish \/ ArchetypusSeal
    \/ Armarium

Next ==
    \/ \E stage \in {"perlector", "recensor", "gate", "armarium"} : Start(stage)
    \/ StageStep
    \/ Crash
    \/ \E p \in Page, decision \in {"release", "hold", "re-ask"} : Decide(p, decision)
    \/ Prompt \/ VerifySeal \/ RecordAdvance

Spec == Init /\ [][Next]_vars

(* The driver goes on while it runs; whoever stopped or lost it resumes    *)
(* from the Recensor again and again; a person starts the advance command  *)
(* and types the digest it prints.                                         *)
FairSpec ==
    /\ Spec
    /\ WF_vars(StageStep)
    /\ SF_vars(Start("recensor"))
    /\ WF_vars(Prompt)
    /\ WF_vars(VerifySeal)
    /\ WF_vars(RecordAdvance)

-----------------------------------------------------------------------------
(* The shape of the state: of readings, reviews, records, links, seals and *)
(* decisions; a decisions record applied only decisions it saw, and only   *)
(* what was reviewed is established.                                       *)
TypeOK ==
    /\ reading \in [Page -> [n : 1 .. MaxReads, held : BOOLEAN, flag : BOOLEAN]]
    /\ DOMAIN reviews \subseteq CountedUnit
    /\ \A u \in DOMAIN reviews : reviews[u] # << >>
    /\ \A i \in DOMAIN records : records[i].applied \subseteq records[i].seen
    /\ DOMAIN established \subseteq DOMAIN reviews
    /\ stored \in SUBSET Decision
    /\ \A a \in advances : a.seal \in DOMAIN seals
    /\ driver.at \in {"idle", "perlector", "recensor", "reviews", "record", "link", "receipt",
                      "gate", "archetypus", "establish", "armarium"}

(* The review an established reading rests on accepted it and is its last: *)
(* no decision, re-read or later pass takes it away once the Archetypus    *)
(* published the reading, however the driver was stopped and resumed.      *)
EstablishedStands ==
    \A u \in DOMAIN established :
        established[u] = Len(reviews[u]) /\ Last(reviews[u]).outcome = "accepted"

(* An export that delivers a reading is made while the Recensor's last     *)
(* seal is of exactly the records it has, although the Armarium itself     *)
(* verifies only the Archetypus's seal and a pass that was killed leaves   *)
(* records unsealed.                                                       *)
ExportOfSealedReview ==
    [][export' # export /\ DOMAIN export'.acts # {} => SealVerified]_vars

(* A hold in an export that delivers a reading stood already when the      *)
(* digest of the advanced seal was put before the person who typed it:     *)
(* whatever passes, decisions and kills come between the prompt, the       *)
(* advance and the export, an advance lets no later hold pass. (The person *)
(* need not have read the holds: the digest is what they confirmed.)       *)
AdvancedHolds == \E a \in advances : a.seal = Len(seals) /\ export.holds \subseteq a.stood

NoLateHoldDelivered ==
    export # None /\ DOMAIN export.acts # {} /\ export.holds # {} => AdvancedHolds

(* What an inventory lists, each thing by its attempt.                     *)
Attempts(what, made) == {<<what, i, made[i]>> : i \in DOMAIN made}

Reviewings(reviewed) == UNION {Attempts(<<"review", u>>, reviewed[u]) : u \in DOMAIN reviewed}

Contents(inventory) ==
    Reviewings(inventory[1]) \cup Attempts(<<"record">>, inventory[2])
                             \cup Attempts(<<"link">>, inventory[3])

(* The Recensor's boundary, and the Archetypus as its reader.              *)
Boundary == INSTANCE SealedBoundary WITH
    records <- Contents(Inventory),
    stated <- {<<i, Contents(seals[i])>> : i \in DOMAIN seals},
    accepted <- At("establish"),
    damaged <- FALSE

(* The Recensor keeps the promise each stage's boundary makes (StageSeal), *)
(* with people deciding beside it: a review, record or link is added and   *)
(* never replaced, each seal states more than all before it, and the       *)
(* Archetypus goes on only when a seal states all there is.                *)
RecensorBoundaryKept == Boundary!Spec

(* A run with holds reaches its export once a person advances it: a        *)
(* repeated pass does not take back the advance, a kill does not lose it,  *)
(* and no decision bars the way but one that came after a reading was      *)
(* established.                                                            *)
ReachesExport == <>(export # None \/ TooLate)

=============================================================================
