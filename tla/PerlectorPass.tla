--------------------------- MODULE PerlectorPass ---------------------------
(***************************************************************************)
(* The Perlector's passes over a run's pages, and what a resumed one does  *)
(* with what an interrupted one left (pipeline/4_perlector/page_run.py and *)
(* live_calls.py, common/retained_replies.py).                             *)
(*                                                                         *)
(* A page is read once (request <<p, 1>>), asked again at most once when   *)
(* its accounting plans it (<<p, 2>>), and read again when a person asks   *)
(* (<<p, 3>>). Each call is recorded as sent before it leaves; the client  *)
(* retains the reply's bytes, then a call record that names them; the main *)
(* thread finishes the calls in order and publishes the reading that names *)
(* both, the page's accounting and its act records. A pass may be killed   *)
(* or interrupted between any two of these.                                *)
(*                                                                         *)
(* The calls run in the window of InOrderWindow; here it is wide enough to *)
(* hold every reply that waits.                                            *)
(***************************************************************************)
EXTENDS Naturals, FiniteSets, Sequences

CONSTANTS
    Pages,       \* how many pages the Exemplar sealed
    Unasked,     \* pages whose first reading is not sent: over capacity
    Width,       \* calls in flight at once
    MaxPasses,   \* passes started
    MaxStops,    \* passes killed, interrupted or past their deadline
    None

Page == 1 .. Pages
Request == Page \X (1 .. 3)
First(p) == <<p, 1>>
Reask(p) == <<p, 2>>
Reread(p) == <<p, 3>>

ASSUME BoundsAssumption == Pages \in Nat /\ MaxPasses \in Nat
ASSUME UnaskedAssumption == Unasked \subseteq Page

(* What a reading says of the pages it read: they are read, are to be      *)
(* asked again, or are held.                                               *)
What == {"read", "reask", "held"}

ASSUME NoneAssumption ==
    /\ None \notin Request \X (1 .. MaxPasses)
    /\ None \notin [what : What, reply : (Request \X (1 .. MaxPasses)) \cup {None}]
    /\ None \notin [req : Request, step : {"reading", "accounting", "acts"}]

VARIABLES
    sent,       \* request -> the sessions it was sent in: reader-sent records
    replies,    \* <<request, session>>: raw bytes retained
    named,      \* ... those a retained call record names
    reading,    \* request -> its page-reading [what, reply], or None
    accounted,  \* the requests' page-accountings
    acts,       \* act records: [page, of, names], the reading and accounting
    asked,      \* pages a person asked to have read again
    at,         \* the pass: its phase, or how the last one ended
    mode,       \* "run", "drain" after an error, "sweep" after an interrupt
    session,    \* passes started: each starts its own chair
    source,     \* the first window's: [next, seen, ended], the page to draw next,
                \* the pages looked at for a re-ask, and whether it is used up
    queue,      \* the requests a later phase has still to draw
    window,     \* requests drawn and not finished, in order
    out,        \* calls in flight
    joined,     \* pages whose re-ask joined the first readings
    firsts,     \* pages whose first reading is finished
    doing,      \* [req, step]: what the main thread is publishing, or None
    stops

disk == <<sent, replies, named, reading, accounted, acts>>
thread == <<source, queue, window, out, joined, firsts, doing>>
vars == <<disk, asked, at, mode, session, thread, stops>>

-----------------------------------------------------------------------------
(* What the run tree says.                                                 *)

Read(r) == reading[r] # None /\ reading[r].what # "held"

(* reask_plan, fixed by the first reading.                                 *)
Planned(p) == reading[First(p)] # None /\ reading[First(p)].what = "reask"

(* _sends: asked, and not already read.                                    *)
Sends(r) == reading[r] = None /\ ~(r[1] \in Unasked /\ r[2] # 2)

(* unrecorded_replies: what no record binds, and whether it can be told    *)
(* whose it is.                                                            *)
Unbound == {x \in replies : \A r \in Request : reading[r] # None => reading[r].reply # x}

(* Mutant: bytes without a call record are nobody's.                       *)
NamedAnswer(r) ==
    \E x \in Unbound : x \in named /\ x[1][1] = r[1] /\ x[2] \in sent[r]

(* answers_a_send, by session and images: those of the page. Bytes that    *)
(* cannot be attributed may be anybody's.                                  *)
MayBeAnswered(r) ==
    \/ Unbound \ named # {}
    \/ \E x \in Unbound : x[1][1] = r[1] /\ x[2] \in sent[r]

(* _left_to_send refuses the phase.                                        *)
Blocked(rs) == \E r \in rs : Sends(r) /\ sent[r] # {} /\ MayBeAnswered(r)

(* _refuse_stray_attempts.                                                 *)
Stray(p) ==
    IF Planned(p)
    THEN /\ reading[Reask(p)] = None
         /\ Reask(p) \in accounted \/ \E a \in acts : a.page = p
    ELSE \/ reading[Reask(p)] # None \/ Reask(p) \in accounted
         \/ \E a \in acts : a.page = p /\ a.of = 2

-----------------------------------------------------------------------------
Fresh == [next |-> 1, seen |-> 0, ended |-> FALSE]

Init ==
    /\ sent = [r \in Request |-> {}] /\ replies = {} /\ named = {}
    /\ reading = [r \in Request |-> None] /\ accounted = {} /\ acts = {}
    /\ asked = {} /\ at = "idle" /\ mode = "run" /\ session = 0
    /\ source = Fresh /\ queue = {} /\ window = << >>
    /\ out = {} /\ joined = {} /\ firsts = {} /\ doing = None /\ stops = 0

InWindow == at \in {"first", "reask", "reread"}

(* read_the_pages up to its first window.                                  *)
StartPass ==
    /\ at \in {"idle", "sealed"} /\ session < MaxPasses
    /\ session' = session + 1
    /\ at' = IF Blocked({First(p) : p \in Page}) THEN "refused" ELSE "first"
    /\ mode' = "run"
    /\ source' = Fresh /\ queue' = {} /\ window' = << >>
    /\ out' = {} /\ joined' = {} /\ firsts' = {} /\ doing' = None
    /\ UNCHANGED <<disk, asked, stops>>

(* _job: a call is recorded as sent, then leaves.                          *)
Submit(r) ==
    /\ window' = Append(window, r)
    /\ IF Sends(r) THEN /\ sent' = [sent EXCEPT ![r] = @ \cup {session}]
                        /\ out' = out \cup {r}
       ELSE UNCHANGED <<sent, out>>

(* The window's source may be asked for a job.                             *)
Drawing ==
    /\ InWindow /\ mode = "run" /\ doing = None
    /\ Cardinality(out) < Width
    /\ window # << >> => Head(window) \in out

(* Pages whose re-ask the source looks at next: planned_since.             *)
Looking == ~source.ended /\ source.seen + 1 \in firsts

(* _joins_early.                                                           *)
Joins(p) == Planned(p) /\ sent[Reask(p)] = {}

(* planned_since, one page: its re-ask joins, or is left for later, as it  *)
(* also is when the deadline does not hold it.                             *)
LookAt ==
    /\ at = "first" /\ Drawing /\ Looking
    /\ LET p == source.seen + 1
       IN  /\ source' = [source EXCEPT !.seen = p]
           /\ \/ /\ Joins(p)
                 /\ joined' = joined \cup {p}
                 /\ Submit(Reask(p))
              \/ /\ ~Joins(p) \/ Sends(Reask(p))
                 /\ UNCHANGED <<joined, window, sent, out>>
    /\ UNCHANGED <<replies, named, reading, accounted, acts, asked, at, mode, session,
                   queue, firsts, doing, stops>>

DrawFirst ==
    /\ at = "first" /\ Drawing /\ ~Looking /\ source.next <= Pages
    /\ Submit(First(source.next))
    /\ source' = [source EXCEPT !.next = @ + 1]
    /\ UNCHANGED <<replies, named, reading, accounted, acts, asked, at, mode, session,
                   queue, joined, firsts, doing, stops>>

(* The source is used up: a re-ask planned from here on is left for later. *)
SourceEnds ==
    /\ at = "first" /\ Drawing /\ ~Looking /\ source.next > Pages /\ ~source.ended
    /\ source' = [source EXCEPT !.ended = TRUE]
    /\ UNCHANGED <<disk, asked, at, mode, session, queue, window, out, joined, firsts,
                   doing, stops>>

(* A later phase takes its pages in order.                                 *)
Foremost == {r \in queue : \A q \in queue : r[1] <= q[1]}

DrawQueued ==
    /\ at \in {"reask", "reread"} /\ Drawing
    /\ \E r \in Foremost : Submit(r) /\ queue' = queue \ {r}
    /\ UNCHANGED <<replies, named, reading, accounted, acts, asked, at, mode, session,
                   source, joined, firsts, doing, stops>>

(* The request the source would give.                                      *)
DrawsNext(r) ==
    IF at # "first" THEN r \in Foremost
    ELSE IF Looking THEN r = Reask(source.seen + 1) /\ Joins(r[1])
    ELSE source.next <= Pages /\ r = First(source.next)

(* refuse_past_deadline, as a call is drawn: no further job, the drawn     *)
(* ones are finished.                                                      *)
DeadlinePasses ==
    /\ Drawing
    /\ \E r \in Request : DrawsNext(r) /\ Sends(r)
    /\ stops < MaxStops
    /\ stops' = stops + 1
    /\ mode' = "drain"
    /\ UNCHANGED <<disk, asked, at, session, thread>>

-----------------------------------------------------------------------------
(* A call, on its own thread: the reply's bytes are retained ...           *)
Retain(r) ==
    /\ r \in out /\ <<r, session>> \notin replies
    /\ replies' = replies \cup {<<r, session>>}
    /\ UNCHANGED <<sent, named, reading, accounted, acts, asked, at, mode, session,
                   thread, stops>>

(* ... then the call record that names them, and the call returns.         *)
NameReply(r) ==
    /\ r \in out /\ <<r, session>> \in replies
    /\ named' = named \cup {<<r, session>>}
    /\ out' = out \ {r}
    /\ UNCHANGED <<sent, replies, reading, accounted, acts, asked, at, mode, session,
                   source, queue, window, joined, firsts, doing, stops>>

(* The endpoint fails: there is no reply.                                  *)
CallFails(r) ==
    /\ r \in out /\ <<r, session>> \notin replies
    /\ out' = out \ {r}
    /\ UNCHANGED <<disk, asked, at, mode, session, source, queue, window, joined,
                   firsts, doing, stops>>

-----------------------------------------------------------------------------
(* Mutant: a call that failed is not finished.                             *)
TakeReplied ==
    /\ InWindow /\ doing = None /\ window # << >>
    /\ Head(window) \notin out /\ <<Head(window), session>> \in replies
    /\ doing' = [req |-> Head(window), step |-> "reading"]
    /\ window' = Tail(window)
    /\ UNCHANGED <<disk, asked, at, mode, session, source, queue, out, joined, firsts,
                   stops>>

(* The main thread finishes the leftmost job once its call is in; after an *)
(* interrupt, those whose call is in, and the others are left.             *)
Take ==
    /\ InWindow /\ doing = None /\ window # << >>
    /\ Head(window) \notin out
    /\ doing' = [req |-> Head(window), step |-> "reading"]
    /\ window' = Tail(window)
    /\ UNCHANGED <<disk, asked, at, mode, session, source, queue, out, joined, firsts,
                   stops>>

LeaveOut ==
    /\ mode = "sweep" /\ doing = None /\ window # << >> /\ Head(window) \in out
    /\ window' = Tail(window)
    /\ UNCHANGED <<disk, asked, at, mode, session, source, queue, out, joined, firsts,
                   doing, stops>>

(* _reading: a sealed one is adopted, else the answer's is published. One  *)
(* without a reply is held; a first reading that is read may be planned to *)
(* be asked again.                                                         *)
PublishReading ==
    /\ doing # None /\ doing.step = "reading"
    /\ LET r == doing.req
           reply == <<r, session>>
       IN  IF reading[r] # None THEN UNCHANGED reading
           ELSE IF reply \in replies
           THEN \E what \in {"read", "held"} \cup (IF r[2] = 1 THEN {"reask"} ELSE {}) :
                  reading' = [reading EXCEPT ![r] = [what |-> what, reply |-> reply]]
           ELSE reading' = [reading EXCEPT ![r] = [what |-> "held", reply |-> None]]
    /\ doing' = [doing EXCEPT !.step = "accounting"]
    /\ UNCHANGED <<sent, replies, named, accounted, acts, asked, at, mode, session, source,
                   queue, window, out, joined, firsts, stops>>

(* publish_page_accounting, of the reading or, for a re-ask, of both.      *)
PublishAccounting ==
    /\ doing # None /\ doing.step = "accounting"
    /\ accounted' = accounted \cup {doing.req}
    /\ doing' = [doing EXCEPT !.step = "acts"]
    /\ UNCHANGED <<sent, replies, named, reading, acts, asked, at, mode, session, source,
                   queue, window, out, joined, firsts, stops>>

Act(p, of, names) == [page |-> p, of |-> of, names |-> names]

(* Mutant: every reading's act records name its own accounting, at once.   *)
ActsAtOnce(r) == IF Read(r) THEN {Act(r[1], r[2], r[2])} ELSE {}

(* The act records a finished request publishes, all of which name the     *)
(* page's last accounting: a page that is asked again waits for that.      *)
ActsOf(r) ==
    CASE r[2] = 1 -> IF Read(r) /\ ~Planned(r[1]) THEN {Act(r[1], 1, 1)} ELSE {}
      [] r[2] = 2 -> {Act(r[1], 1, 2)} \cup (IF Read(r) THEN {Act(r[1], 2, 2)} ELSE {})
      [] r[2] = 3 -> IF Read(r) THEN {Act(r[1], 3, 3)} ELSE {}

(* publish_act_records, one record at a time, the first reading's first.   *)
PublishAct ==
    /\ doing # None /\ doing.step = "acts"
    /\ ~(doing.req[2] = 1 /\ Stray(doing.req[1]))
    /\ \E a \in ActsOf(doing.req) \ acts :
         /\ \A b \in ActsOf(doing.req) \ acts : a.of <= b.of
         /\ acts' = acts \cup {a}
    /\ UNCHANGED <<sent, replies, named, reading, accounted, asked, at, mode, session,
                   thread, stops>>

(* The job is finished, or refused for a record its plan does not have.    *)
JobDone ==
    /\ doing # None /\ doing.step = "acts"
    /\ LET r == doing.req
           stray == r[2] = 1 /\ Stray(r[1])
       IN  /\ stray \/ ActsOf(r) \subseteq acts
           /\ mode' = IF stray /\ mode = "run" THEN "drain" ELSE mode
           /\ firsts' = IF r[2] = 1 /\ ~stray THEN firsts \cup {r[1]} ELSE firsts
    /\ doing' = None
    /\ UNCHANGED <<disk, asked, at, session, source, queue, window, out, joined, stops>>

-----------------------------------------------------------------------------
(* requested_rereads, and the re-reads already sealed.                     *)
Rereads == {Reread(p) : p \in {q \in Page : reading[Reread(q)] # None \/ q \in asked}}

(* Mutant: a re-ask an earlier pass sent is not sent again.                *)
UnsentReasks == {Reask(p) : p \in {q \in Page : Planned(q) /\ sent[Reask(q)] = {}}}

(* The re-asks that did not join the first readings.                       *)
LaterReasks == {Reask(p) : p \in {q \in Page : Planned(q) /\ q \notin joined}}

(* A window is over: the next phase, unless what it would send may have    *)
(* been answered.                                                          *)
Enter(phase, rs) ==
    IF Blocked(rs) THEN at' = "refused" /\ UNCHANGED queue
    ELSE at' = phase /\ queue' = rs

EndPhase ==
    /\ InWindow /\ mode = "run" /\ doing = None /\ window = << >> /\ queue = {}
    /\ \/ /\ at = "first" /\ source.ended
          /\ Enter("reask", LaterReasks)
       \/ at = "reask" /\ Enter("reread", Rereads)
       \/ at = "reread" /\ at' = "sealed" /\ UNCHANGED queue
    /\ UNCHANGED <<disk, asked, mode, session, source, window, out, joined, firsts,
                   doing, stops>>

(* The pass ends unsealed; its process outlives the calls it left out.     *)
PassEnds ==
    /\ InWindow /\ mode # "run" /\ doing = None /\ window = << >> /\ out = {}
    /\ at' = "idle"
    /\ UNCHANGED <<disk, asked, mode, session, thread, stops>>

(* An interrupt: what was being finished is left as it is.                 *)
Interrupt ==
    /\ InWindow /\ mode # "sweep" /\ stops < MaxStops
    /\ stops' = stops + 1
    /\ mode' = "sweep"
    /\ doing' = None
    /\ UNCHANGED <<disk, asked, at, session, source, queue, window, out, joined, firsts>>

Kill ==
    /\ InWindow /\ stops < MaxStops
    /\ stops' = stops + 1
    /\ at' = "idle"
    /\ window' = << >> /\ out' = {} /\ doing' = None
    /\ UNCHANGED <<disk, asked, mode, session, source, queue, joined, firsts>>

(* A person reads the review of the sealed readings and asks for a page.   *)
AskAgain(p) ==
    /\ at = "sealed" /\ p \notin asked
    /\ asked' = asked \cup {p}
    /\ UNCHANGED <<disk, at, mode, session, thread, stops>>

(* The run is read, or must be read in a new one.                          *)
Rest ==
    /\ at = "refused" \/ (session = MaxPasses /\ at \in {"idle", "sealed"})
    /\ UNCHANGED vars

PassStep ==
    \/ LookAt \/ DrawFirst \/ SourceEnds \/ DrawQueued \/ Take \/ LeaveOut
    \/ PublishReading \/ PublishAccounting \/ PublishAct \/ JobDone \/ EndPhase \/ PassEnds

CallStep == \E r \in Request : Retain(r) \/ NameReply(r) \/ CallFails(r)

Next ==
    \/ StartPass \/ PassStep \/ CallStep
    \/ DeadlinePasses \/ Interrupt \/ Kill
    \/ \E p \in Page : AskAgain(p)
    \/ Rest

Spec == Init /\ [][Next]_vars

(* A pass that was stopped is started again, the main thread runs on, and  *)
(* each call ends (its chair gives it a timeout).                          *)
FairSpec == Spec /\ WF_vars(StartPass) /\ WF_vars(PassStep) /\ WF_vars(CallStep)

-----------------------------------------------------------------------------
(* No request is sent again while a reply to it is retained, whenever the  *)
(* earlier pass was killed and whichever window the request is sent in.    *)
NeverAskedTwice ==
    [][\A r \in Request : sent'[r] # sent[r] => \A x \in replies : x[1] # r]_vars

(* Once the stage seals, every page and every planned re-ask is read or    *)
(* held and accounted, what is accounted has all its act records, and      *)
(* every reply the run retained is named by a reading.                     *)
SealedIsComplete ==
    at = "sealed" =>
        /\ \A p \in Page : First(p) \in accounted /\ (Planned(p) => Reask(p) \in accounted)
        /\ \A r \in accounted : ActsOf(r) \subseteq acts
        /\ Unbound = {}

(* What passes that die between the records leave agrees: a reading names  *)
(* a reply that is retained and named, what is accounted was read or held, *)
(* an act record names its page's last accounting (never the first         *)
(* reading's when the page is asked again; a person's re-reads apart), and *)
(* a pass never takes a record an earlier one left for a stray one.        *)
RecordsAgree ==
    /\ named \subseteq replies /\ \A x \in replies : x[2] \in sent[x[1]]
    /\ \A r \in Request : reading[r] # None /\ reading[r].reply # None =>
         reading[r].reply \in named
    /\ \A r \in accounted : reading[r] # None
    /\ \A a \in acts : a.of # 3 => a.names = IF Planned(a.page) THEN 2 ELSE 1
    /\ doing # None /\ doing.step = "acts" /\ doing.req[2] = 1 => ~Stray(doing.req[1])

(* However it is stopped, a run that is started again is read to the end,  *)
(* or given up.                                                            *)
ReadsToTheEnd == <>(at \in {"sealed", "refused"})
=============================================================================
