------------------------ MODULE PerlectorPassProofs ------------------------
(***************************************************************************)
(* What the Perlector's passes leave on disk, for any number of pages,     *)
(* calls in flight, passes and stops.                                      *)
(*                                                                         *)
(* A reading is never replaced, and with it what is planned for its page   *)
(* is fixed: so a record that agreed with the readings when it was written *)
(* agrees for ever. A request waits, in the window or on the main thread,  *)
(* with no reply but one of this pass; so the reading that is published    *)
(* names whatever reply the request ever had, and a reply no reading names *)
(* belongs to a request that has none, which is what the entry of a phase  *)
(* looks for.                                                              *)
(***************************************************************************)
EXTENDS PerlectorPass, SequenceTheorems, TLAPS

Phases == {"idle", "first", "reask", "reread", "sealed", "refused"}
Replies == Request \X (1 .. MaxPasses)
Readings == [what : What, reply : Replies \cup {None}]
Doings == [req : Request, step : {"reading", "accounting", "acts"}]

Typed ==
    /\ sent \in [Request -> SUBSET (1 .. MaxPasses)]
    /\ replies \in SUBSET Replies /\ named \in SUBSET replies
    /\ reading \in [Request -> Readings \cup {None}]
    /\ accounted \in SUBSET Request
    /\ acts \in SUBSET [page : Page, of : 1 .. 3, names : 1 .. 3]
    /\ asked \in SUBSET Page
    /\ at \in Phases /\ mode \in {"run", "drain", "sweep"}
    /\ session \in 0 .. MaxPasses /\ (InWindow => session # 0)
    /\ source \in [next : 1 .. Pages + 1, seen : 0 .. Pages, ended : BOOLEAN]
    /\ queue \in SUBSET Request
    /\ window \in Seq(Request)
    /\ out \in SUBSET Request
    /\ joined \in SUBSET Page /\ firsts \in SUBSET Page
    /\ doing \in Doings \cup {None}

-----------------------------------------------------------------------------
(* The records.                                                            *)

NoReply(r) == \A x \in replies : x[1] # r
HasReading(r) == reading[r] # None

\* All that a page's plan asks for before a person may ask for more is read or held.
Settled(p) == HasReading(First(p)) /\ (Planned(p) => HasReading(Reask(p)))

Sent ==
    /\ \A r \in Request : \A s \in sent[r] : s <= session
    /\ \A x \in replies : x[2] \in sent[x[1]]
    /\ \A p \in Page : sent[Reask(p)] # {} \/ HasReading(Reask(p)) => Planned(p)
    /\ \A p \in Page : sent[Reread(p)] # {} \/ HasReading(Reread(p)) => p \in asked
    /\ \A r \in Request : r[1] \in Unasked /\ r[2] # 2 => sent[r] = {}

\* A reading names the one reply its request has, if it has one.
Named ==
    \A r \in Request : HasReading(r) =>
        /\ reading[r].reply # None => reading[r].reply \in named /\ reading[r].reply[1] = r
        /\ \A x \in replies : x[1] = r => reading[r].reply = x

Acts ==
    /\ \A r \in accounted : HasReading(r)
    /\ \A p \in asked : Settled(p)
    /\ \A a \in acts :
         /\ HasReading(First(a.page))
         /\ a.of # 3 => a.names = IF Planned(a.page) THEN 2 ELSE 1
         /\ a.of # 3 /\ Planned(a.page) => HasReading(Reask(a.page))
         /\ a.of = 2 => Planned(a.page)
         /\ a.of = 3 => a.page \in asked

Records == Sent /\ Named /\ Acts

-----------------------------------------------------------------------------
(* The pass.                                                               *)

InTheWindow == {window[i] : i \in DOMAIN window}
Waiting == InTheWindow \cup (IF doing = None THEN {} ELSE {doing.req})

\* What the pass has drawn is of its phase, and is not drawn again.
Drawn(r) ==
    /\ r[2] = 1 => at = "first" /\ r[1] < source.next
    /\ r[2] = 2 => /\ Planned(r[1])
                   /\ \/ at = "first" /\ r[1] \in joined
                      \/ at = "reask" /\ r \notin queue
    /\ r[2] = 3 => at = "reread" /\ r[1] \in asked /\ r \notin queue

\* The phase's requests still to be drawn: none that would be sent has a reply.
ToDraw ==
    /\ at = "first" => \A p \in Page : p >= source.next /\ Sends(First(p)) => NoReply(First(p))
    /\ at = "reask" => \A r \in queue : r[2] = 2 /\ Planned(r[1])
    /\ at = "reread" => \A r \in queue : r[2] = 3 /\ r[1] \in asked
    /\ at \in {"reask", "reread"} => \A r \in queue : Sends(r) => NoReply(r)
    /\ at = "first" => queue = {}

InFlight ==
    /\ \A r \in Waiting \cup out : Drawn(r)
    /\ \A r \in out : session \in sent[r] /\ ~HasReading(r)
    /\ mode # "sweep" => out \subseteq InTheWindow
    /\ doing # None => doing.req \notin out
    /\ \A r \in Waiting : ~HasReading(r) => \A x \in replies : x[1] = r => x[2] = session
    /\ \A r \in Request : InWindow /\ r \notin out /\ <<r, session>> \in replies =>
         <<r, session>> \in named
    /\ ~InWindow => window = << >> /\ out = {} /\ doing = None

Doing ==
    doing # None =>
        /\ doing.step # "reading" => HasReading(doing.req)
        /\ doing.step = "acts" => doing.req \in accounted

Finished(r) == r \in accounted /\ ActsOf(r) \subseteq acts

\* How far the pass is.
Progress ==
    /\ \A p \in joined : Planned(p)
    /\ source.ended => source.next > Pages
    /\ at = "first" /\ mode = "run" =>
         /\ \A p \in Page : p < source.next => Finished(First(p)) \/ First(p) \in Waiting
         /\ \A p \in joined : Finished(Reask(p)) \/ Reask(p) \in Waiting
    /\ at \in {"reask", "reread"} /\ mode = "run" => \A p \in Page : Finished(First(p))
    /\ at = "reask" /\ mode = "run" => \A p \in Page : Planned(p) =>
         Finished(Reask(p)) \/ Reask(p) \in Waiting \cup queue
    /\ at = "reread" /\ mode = "run" =>
         /\ \A p \in Page : Planned(p) => Finished(Reask(p))
         /\ \A p \in asked : Finished(Reread(p)) \/ Reread(p) \in Waiting \cup queue

Inv ==
    /\ Typed /\ Records /\ ToDraw /\ InFlight /\ Doing /\ Progress /\ SealedIsComplete

-----------------------------------------------------------------------------
(* Requests, the window, and what may not change.                          *)

LEMMA Requests ==
    /\ \A p \in Page : /\ First(p) \in Request /\ First(p)[1] = p /\ First(p)[2] = 1
                       /\ Reask(p) \in Request /\ Reask(p)[1] = p /\ Reask(p)[2] = 2
                       /\ Reread(p) \in Request /\ Reread(p)[1] = p /\ Reread(p)[2] = 3
    /\ \A r \in Request : /\ r[1] \in Page /\ r[2] \in 1 .. 3
                          /\ r[2] = 1 <=> r = First(r[1])
                          /\ r[2] = 2 <=> r = Reask(r[1])
                          /\ r[2] = 3 <=> r = Reread(r[1])
BY DEF Request, First, Reask, Reread

LEMMA Pairs ==
    /\ \A r \in Request : \A s \in 1 .. MaxPasses :
         <<r, s>> \in Replies /\ <<r, s>>[1] = r /\ <<r, s>>[2] = s
    /\ \A x \in Replies : x[1] \in Request /\ x[2] \in 1 .. MaxPasses /\ x = <<x[1], x[2]>>
    /\ \A x \in Replies : x # None
BY NoneAssumption DEF Replies

\* What a request appended to the window, or taken from its head, changes.
LEMMA Windows ==
    ASSUME window \in Seq(Request)
    PROVE  /\ window = << >> => InTheWindow = {}
           /\ window # << >> => /\ Head(window) \in InTheWindow /\ Head(window) \in Request
                                /\ Tail(window) \in Seq(Request)
           /\ InTheWindow \subseteq Request
           /\ window' = window => InTheWindow' = InTheWindow
           /\ window # << >> /\ window' = Tail(window) =>
                InTheWindow = InTheWindow' \cup {Head(window)}
           /\ \A r \in Request : /\ Append(window, r) \in Seq(Request)
                                 /\ window' = Append(window, r) =>
                                      InTheWindow' = InTheWindow \cup {r}
<1>1. window = << >> => InTheWindow = {}
  BY DEF InTheWindow
<1>2. /\ DOMAIN window = 1 .. Len(window) /\ Len(window) \in Nat
      /\ \A i \in 1 .. Len(window) : window[i] \in Request
  OBVIOUS
<1>3. ASSUME window # << >>
      PROVE  /\ Len(window) >= 1 /\ Head(window) = window[1]
             /\ Tail(window) \in Seq(Request) /\ Len(Tail(window)) = Len(window) - 1
             /\ \A i \in 1 .. Len(window) - 1 : Tail(window)[i] = window[i + 1]
  BY <1>3
<1>4. InTheWindow \subseteq Request
  BY <1>2 DEF InTheWindow
<1>5. window # << >> => Head(window) \in InTheWindow
  BY <1>2, <1>3 DEF InTheWindow
<1>6. ASSUME window # << >>, window' = Tail(window)
      PROVE  InTheWindow = InTheWindow' \cup {Head(window)}
  <2>1. DOMAIN window' = 1 .. Len(window) - 1
    BY <1>2, <1>3, <1>6
  <2>2. ASSUME NEW i \in 1 .. Len(window)
        PROVE  window[i] \in InTheWindow' \cup {Head(window)}
    <3>1. CASE i = 1
      BY <1>3, <1>6, <3>1
    <3>2. CASE i # 1
      <4>1. i - 1 \in 1 .. Len(window) - 1 /\ window[i] = window'[i - 1]
        BY <1>2, <1>3, <1>6, <2>2, <3>2
      <4> QED
        BY <2>1, <4>1 DEF InTheWindow
    <3> QED
      BY <3>1, <3>2
  <2>3. ASSUME NEW i \in 1 .. Len(window) - 1 PROVE window'[i] \in InTheWindow
    <3>1. i + 1 \in 1 .. Len(window) /\ window'[i] = window[i + 1]
      BY <1>2, <1>3, <1>6, <2>3
    <3> QED
      BY <1>2, <3>1 DEF InTheWindow
  <2> QED
    BY <1>2, <1>5, <1>6, <2>1, <2>2, <2>3 DEF InTheWindow
<1>7. ASSUME NEW r \in Request, window' = Append(window, r)
      PROVE  InTheWindow' = InTheWindow \cup {r}
  <2>1. /\ DOMAIN window' = 1 .. Len(window) + 1
        /\ \A i \in 1 .. Len(window) : window'[i] = window[i]
        /\ window'[Len(window) + 1] = r
    BY <1>2, <1>7
  <2>2. DOMAIN window' = DOMAIN window \cup {Len(window) + 1}
    BY <1>2, <2>1
  <2> QED
    BY <1>2, <2>1, <2>2 DEF InTheWindow
<1>8. \A r \in Request : Append(window, r) \in Seq(Request)
  OBVIOUS
<1>9. window' = window => InTheWindow' = InTheWindow
  BY DEF InTheWindow
<1>10. window # << >> => Head(window) \in Request /\ Tail(window) \in Seq(Request)
  BY <1>3, <1>4, <1>5
<1> QED
  BY <1>1, <1>4, <1>5, <1>6, <1>7, <1>8, <1>9, <1>10

\* Records are only added, and a reading is never replaced.
LEMMA Grown ==
    ASSUME Typed, [Next]_vars
    PROVE  /\ \A r \in Request : HasReading(r) => reading'[r] = reading[r]
           /\ accounted \subseteq accounted' /\ acts \subseteq acts'
           /\ replies \subseteq replies' /\ named \subseteq named'
<1>1. CASE PublishReading
  <2>1. doing.req \in Request /\ reading \in [Request -> Readings \cup {None}]
    BY <1>1 DEF PublishReading, Typed, Doings
  <2> QED
    BY <1>1, <2>1 DEF PublishReading, HasReading
<1>2. CASE PublishAccounting \/ PublishAct
  BY <1>2 DEF PublishAccounting, PublishAct
<1>3. CASE CallStep
  BY <1>3 DEF CallStep, Retain, NameReply, CallFails, disk
<1>4. CASE LookAt \/ DrawFirst \/ DrawQueued
  BY <1>4 DEF LookAt, DrawFirst, DrawQueued
<1>5. CASE UNCHANGED disk
  BY <1>5 DEF disk
<1>6. CASE StartPass \/ SourceEnds \/ Take \/ LeaveOut \/ JobDone \/ EndPhase \/ PassEnds
           \/ DeadlinePasses \/ Interrupt \/ Kill \/ (\E p \in Page : AskAgain(p))
           \/ Rest \/ UNCHANGED vars
  BY <1>5, <1>6 DEF StartPass, SourceEnds, Take, LeaveOut, JobDone, EndPhase, PassEnds,
                    DeadlinePasses, Interrupt, Kill, AskAgain, Rest, vars
<1> QED
  BY <1>1, <1>2, <1>3, <1>4, <1>6 DEF Next, PassStep
\* A finished request stays finished: what its act records say is fixed by its reading.
LEMMA Kept ==
    ASSUME Typed, Records, [Next]_vars
    PROVE  /\ \A r \in Request : HasReading(r) => HasReading(r)'
           /\ \A p \in Page : HasReading(First(p)) => Planned(p)' = Planned(p)
           /\ \A p \in Page : Planned(p) => Planned(p)'
           /\ \A r \in Request : Finished(r) => Finished(r)' /\ HasReading(r)
           /\ \A p \in Page : Settled(p) => Settled(p)'
<1>1. \A r \in Request : HasReading(r) => reading'[r] = reading[r] /\ HasReading(r)'
  BY Grown DEF HasReading
<1>2. \A p \in Page : HasReading(First(p)) => Planned(p)' = Planned(p)
  BY <1>1, Requests DEF Planned
<1>3. \A p \in Page : Planned(p) => HasReading(First(p)) /\ Planned(p)'
  BY <1>2 DEF Planned, HasReading
<1>4. ASSUME NEW r \in Request, Finished(r) PROVE Finished(r)' /\ HasReading(r)
  <2>1. HasReading(r)
    BY <1>4 DEF Finished, Records, Acts
  <2>2. Read(r)' = Read(r)
    BY <1>1, <2>1 DEF Read
  <2>3. r[2] = 1 => Planned(r[1])' = Planned(r[1])
    BY <1>2, <2>1, Requests
  <2>4. ActsOf(r)' = ActsOf(r)
    BY <2>2, <2>3, Requests DEF ActsOf
  <2> QED
    BY <1>4, <2>1, <2>4, Grown DEF Finished
<1>5. \A p \in Page : Settled(p) => Settled(p)'
  BY <1>1, <1>2, Requests DEF Settled
<1> QED
  BY <1>1, <1>2, <1>3, <1>4, <1>5

-----------------------------------------------------------------------------
(* Types.                                                                  *)

LEMMA SubmitTyped ==
    ASSUME Typed, session # 0, NEW r \in Request, Submit(r)
    PROVE  /\ window' \in Seq(Request) /\ InTheWindow' = InTheWindow \cup {r}
           /\ sent' \in [Request -> SUBSET (1 .. MaxPasses)] /\ out' \in SUBSET Request
           /\ Sends(r) => /\ sent' = [sent EXCEPT ![r] = @ \cup {session}]
                          /\ out' = out \cup {r}
           /\ ~Sends(r) => sent' = sent /\ out' = out
<1>1. session \in 1 .. MaxPasses
  BY BoundsAssumption DEF Typed
<1>2. window \in Seq(Request) /\ window' = Append(window, r)
  BY DEF Typed, Submit
<1>3. window' \in Seq(Request) /\ InTheWindow' = InTheWindow \cup {r}
  BY <1>2, Windows
<1>4. CASE Sends(r)
  <2>1. sent' = [sent EXCEPT ![r] = @ \cup {session}] /\ out' = out \cup {r}
    BY <1>4 DEF Submit
  <2> QED
    BY <1>1, <1>3, <1>4, <2>1 DEF Typed
<1>5. CASE ~Sends(r)
  BY <1>3, <1>5 DEF Submit, Typed
<1> QED
  BY <1>4, <1>5

LEMMA TypedStays ==
    ASSUME Typed, InFlight, [Next]_vars
    PROVE  Typed'
<1>1. CASE StartPass
  <2>1. session' \in 0 .. MaxPasses /\ session' # 0
    BY <1>1, BoundsAssumption DEF StartPass, Typed
  <2>2. source' \in [next : 1 .. Pages + 1, seen : 0 .. Pages, ended : BOOLEAN]
    BY <1>1, BoundsAssumption DEF StartPass, Fresh
  <2>3. << >> \in Seq(Request)
    OBVIOUS
  <2> QED
    BY <1>1, <2>1, <2>2, <2>3 DEF StartPass, Typed, disk, Phases
<1>2. CASE LookAt
  <2>1. source.seen + 1 \in Page /\ session # 0
    BY <1>2 DEF LookAt, Looking, Typed, InWindow
  <2>2. Reask(source.seen + 1) \in Request
    BY <2>1, Requests
  <2>3. source' \in [next : 1 .. Pages + 1, seen : 0 .. Pages, ended : BOOLEAN]
    BY <1>2, <2>1, BoundsAssumption DEF LookAt, Typed, Page
  <2>4. /\ joined' \in SUBSET Page
        /\ window' \in Seq(Request) /\ out' \in SUBSET Request
        /\ sent' \in [Request -> SUBSET (1 .. MaxPasses)]
    BY <1>2, <2>1, <2>2, SubmitTyped DEF LookAt, Typed
  <2> QED
    BY <1>2, <2>3, <2>4 DEF LookAt, Typed, InWindow
<1>3. CASE DrawFirst
  <2>1. source.next \in Page /\ session # 0
    BY <1>3, BoundsAssumption DEF DrawFirst, Typed, InWindow, Page
  <2>2. First(source.next) \in Request
    BY <2>1, Requests
  <2>3. source' \in [next : 1 .. Pages + 1, seen : 0 .. Pages, ended : BOOLEAN]
    BY <1>3, <2>1, BoundsAssumption DEF DrawFirst, Typed, Page
  <2>4. /\ window' \in Seq(Request) /\ out' \in SUBSET Request
        /\ sent' \in [Request -> SUBSET (1 .. MaxPasses)]
    BY <1>3, <2>1, <2>2, SubmitTyped DEF DrawFirst
  <2> QED
    BY <1>3, <2>3, <2>4 DEF DrawFirst, Typed, InWindow
<1>4. CASE DrawQueued
  <2>1. session # 0 /\ Foremost \subseteq Request
    BY <1>4 DEF DrawQueued, Typed, InWindow, Foremost
  <2>2. /\ window' \in Seq(Request) /\ out' \in SUBSET Request /\ queue' \in SUBSET Request
        /\ sent' \in [Request -> SUBSET (1 .. MaxPasses)]
    BY <1>4, <2>1, SubmitTyped DEF DrawQueued, Typed
  <2> QED
    BY <1>4, <2>2 DEF DrawQueued, Typed, InWindow
<1>5. CASE SourceEnds
  BY <1>5 DEF SourceEnds, Typed, disk, InWindow
<1>6. CASE CallStep
  <2>1. PICK r \in Request : Retain(r) \/ NameReply(r) \/ CallFails(r)
    BY <1>6 DEF CallStep
  <2>2. session \in 1 .. MaxPasses /\ <<r, session>> \in Replies
    BY <2>1, Pairs, BoundsAssumption DEF Retain, NameReply, CallFails, Typed, InFlight
  <2>3. /\ UNCHANGED <<sent, reading, accounted, acts, asked, at, mode, session, source, queue,
                       window, joined, firsts, doing>>
        /\ out' \in SUBSET out
        /\ \/ replies' = replies \cup {<<r, session>>} /\ named' = named
           \/ /\ replies' = replies /\ named' \in SUBSET (named \cup {<<r, session>>})
              /\ named' # named => <<r, session>> \in replies
    BY <2>1 DEF Retain, NameReply, CallFails, disk, thread
  <2> QED
    BY <2>2, <2>3 DEF Typed, InWindow
<1>7. CASE Take \/ LeaveOut
  <2>1. Tail(window) \in Seq(Request) /\ Head(window) \in Request
    BY <1>7, Windows DEF Take, LeaveOut, Typed
  <2>2. doing' \in Doings \cup {None}
    BY <1>7, <2>1 DEF Take, LeaveOut, Typed, Doings
  <2> QED
    BY <1>7, <2>1, <2>2 DEF Take, LeaveOut, Typed, disk, InWindow
<1>8. CASE PublishReading
  <2>1. doing \in Doings /\ doing.req \in Request
    BY <1>8 DEF PublishReading, Typed, Doings
  <2>2. doing' \in Doings
    BY <1>8, <2>1 DEF PublishReading, Doings
  <2>3. reading' \in [Request -> Readings \cup {None}]
    <3>1. \/ reading' = reading
          \/ \E v \in Readings : reading' = [reading EXCEPT ![doing.req] = v]
      <4>1. replies \subseteq Replies
        BY DEF Typed
      <4>2. \A what \in What : \A x \in Replies \cup {None} : [what |-> what, reply |-> x] \in Readings
        BY DEF Readings
      <4> HIDE DEF Readings
      <4> QED
        BY <1>8, <4>1, <4>2 DEF PublishReading, What
    <3>2. reading \in [Request -> Readings \cup {None}]
      BY DEF Typed
    <3> QED
      BY <2>1, <3>1, <3>2
  <2> QED
    BY <1>8, <2>2, <2>3 DEF PublishReading, Typed, InWindow
<1>9. CASE PublishAccounting
  <2>1. doing \in Doings /\ doing.req \in Request /\ doing' \in Doings
    BY <1>9 DEF PublishAccounting, Typed, Doings
  <2> QED
    BY <1>9, <2>1 DEF PublishAccounting, Typed, InWindow
<1>10. CASE PublishAct
  <2>1. doing.req[1] \in Page /\ doing.req[2] \in 1 .. 3
    BY <1>10, Requests DEF PublishAct, Typed, Doings
  <2>2. ActsOf(doing.req) \subseteq [page : Page, of : 1 .. 3, names : 1 .. 3]
    BY <2>1 DEF ActsOf, Act
  <2> QED
    BY <1>10, <2>2 DEF PublishAct, Typed, thread, InWindow
<1>11. CASE JobDone
  <2>1. doing.req[1] \in Page
    BY <1>11, Requests DEF JobDone, Typed, Doings
  <2> QED
    BY <1>11, <2>1 DEF JobDone, Typed, disk, InWindow
<1>12. CASE EndPhase
  <2>1. LaterReasks \subseteq Request /\ Rereads \subseteq Request
    BY Requests DEF LaterReasks, Rereads
  <2>2. queue' \in SUBSET Request /\ at' \in Phases /\ InWindow
    BY <1>12, <2>1 DEF EndPhase, Enter, Phases, Typed
  <2> QED
    BY <1>12, <2>2 DEF EndPhase, Typed, disk, InWindow
<1>13. CASE PassEnds \/ DeadlinePasses \/ Interrupt \/ Kill
            \/ (\E p \in Page : AskAgain(p)) \/ Rest \/ UNCHANGED vars
  <2>1. << >> \in Seq(Request)
    OBVIOUS
  <2> QED
    BY <1>13, <2>1 DEF PassEnds, DeadlinePasses, Drawing, Interrupt, Kill, AskAgain, Rest, vars, Typed,
                disk, thread, InWindow, Phases
<1> QED
  BY <1>1, <1>2, <1>3, <1>4, <1>5, <1>6, <1>7, <1>8, <1>9, <1>10, <1>11, <1>12, <1>13
     DEF Next, PassStep
-----------------------------------------------------------------------------
(* What is drawn.                                                          *)

\* A request that is drawn was read already, or has no reply at all.
Submits(r) ==
    /\ Submit(r) /\ (HasReading(r) \/ NoReply(r))
    /\ r[2] = 2 => Planned(r[1])
    /\ r[2] = 3 => r[1] \in asked

\* A reply that no reading names is of a request without a reading.
LEMMA Unblocked ==
    ASSUME Inv, NEW rs \in SUBSET Request, ~Blocked(rs)
    PROVE  \A r \in rs : Sends(r) => NoReply(r)
<1>1. SUFFICES ASSUME NEW r \in rs, Sends(r), NEW x \in replies, x[1] = r PROVE FALSE
  BY DEF NoReply
<1>2. x \in Replies /\ reading[r] = None
  BY <1>1 DEF Inv, Typed, Sends
<1>3. x[2] \in sent[r]
  BY <1>1 DEF Inv, Records, Sent
<1>4. ASSUME NEW q \in Request, reading[q] # None PROVE reading[q].reply # x
  <2>1. reading[q].reply = None \/ reading[q].reply[1] = q
    BY <1>4 DEF Inv, Records, Named, HasReading
  <2> QED
    BY <1>1, <1>2, <1>4, <2>1, Pairs
<1>5. x \in Unbound
  BY <1>1, <1>4 DEF Unbound
<1>6. MayBeAnswered(r)
  BY <1>1, <1>3, <1>5 DEF MayBeAnswered
<1> QED
  BY <1>1, <1>3, <1>6 DEF Blocked

\* What would not be sent is read, or was never sent.
LEMMA Unsent ==
    ASSUME Inv, NEW r \in Request, Sends(r) => NoReply(r)
    PROVE  HasReading(r) \/ NoReply(r)
<1>1. CASE Sends(r) \/ HasReading(r)
  BY <1>1
<1>2. CASE ~Sends(r) /\ ~HasReading(r)
  <2>1. r[1] \in Unasked /\ r[2] # 2
    BY <1>2 DEF Sends, HasReading
  <2> QED
    BY <2>1 DEF Inv, Records, Sent, NoReply
<1> QED
  BY <1>1, <1>2

LEMMA Draws ==
    ASSUME Inv, LookAt \/ DrawFirst \/ DrawQueued
    PROVE  /\ UNCHANGED <<replies, named, reading, accounted, acts, asked, at, mode, session,
                          firsts, doing, stops>>
           /\ InWindow /\ mode = "run" /\ doing = None /\ session # 0
           /\ \/ UNCHANGED <<window, sent, out, joined>> /\ source'.next = source.next
                 /\ source'.ended = source.ended /\ queue' = queue
              \/ \E r \in Request : Submits(r) /\ Drawn(r)' /\ queue' \in {queue, queue \ {r}}
<1>1. CASE LookAt
  <2>1. PICK p \in Page : p = source.seen + 1
    BY <1>1 DEF LookAt, Looking, Inv, Typed
  <2>2. /\ source'.next = source.next /\ source'.ended = source.ended /\ queue' = queue
        /\ UNCHANGED <<replies, named, reading, accounted, acts, asked, at, mode, session,
                       firsts, doing, stops>>
        /\ at = "first" /\ InWindow /\ mode = "run" /\ doing = None /\ session # 0
    BY <1>1 DEF LookAt, Drawing, Inv, Typed
  <2>3. CASE Joins(p) /\ joined' = joined \cup {p} /\ Submit(Reask(p))
    <3>1. Planned(p) /\ NoReply(Reask(p))
      BY <2>1, <2>3, Requests DEF Joins, NoReply, Inv, Records, Sent
    <3>2. Submits(Reask(p))
      BY <2>1, <2>3, <3>1, Requests DEF Submits
    <3>3. Planned(p)' = Planned(p)
      BY <2>2 DEF Planned
    <3>4. ASSUME NEW r \in Request, r = Reask(p) PROVE Drawn(r)'
      <4>1. r[1] = p /\ r[2] = 2
        BY <3>4, Requests
      <4> QED
        BY <2>2, <2>3, <3>1, <3>3, <4>1 DEF Drawn
    <3> QED
      BY <2>2, <3>2, <3>4, Requests
  <2>4. CASE UNCHANGED <<joined, window, sent, out>>
    BY <2>2, <2>4
  <2> QED
    BY <1>1, <2>1, <2>3, <2>4 DEF LookAt
<1>2. CASE DrawFirst
  <2>1. PICK p \in Page : p = source.next /\ source'.next = p + 1
    BY <1>2, BoundsAssumption DEF DrawFirst, Inv, Typed, Page
  <2>2. /\ queue' = queue
        /\ UNCHANGED <<replies, named, reading, accounted, acts, asked, at, mode, session,
                       firsts, doing, stops>>
        /\ at = "first" /\ InWindow /\ mode = "run" /\ doing = None /\ session # 0
    BY <1>2 DEF DrawFirst, Drawing, Inv, Typed
  <2>3. Submits(First(p))
    BY <1>2, <2>1, Unsent, Requests DEF DrawFirst, Submits, Inv, ToDraw, Page
  <2>4. ASSUME NEW r \in Request, r = First(p) PROVE Drawn(r)'
    <3>1. r[1] = p /\ r[2] = 1 /\ p < p + 1
      BY <2>4, Requests DEF Page
    <3> QED
      BY <2>1, <2>2, <3>1 DEF Drawn
  <2> QED
    BY <2>2, <2>3, <2>4, Requests
<1>3. CASE DrawQueued
  <2>1. PICK r \in queue : Submit(r) /\ queue' = queue \ {r}
    BY <1>3 DEF DrawQueued, Foremost
  <2>2. r \in Request /\ at \in {"reask", "reread"} /\ at' = at
    BY <1>3, <2>1 DEF DrawQueued, Inv, Typed
  <2>3. /\ at = "reask" => r[2] = 2 /\ Planned(r[1])
        /\ at = "reread" => r[2] = 3 /\ r[1] \in asked
        /\ Sends(r) => NoReply(r)
    BY <2>1, <2>2 DEF Inv, ToDraw
  <2>4. Submits(r)
    BY <2>1, <2>2, <2>3, Unsent DEF Submits
  <2>5. Planned(r[1])' = Planned(r[1])
    BY <1>3 DEF DrawQueued, Planned
  <2>6. Drawn(r)'
    BY <1>3, <2>1, <2>2, <2>3, <2>5 DEF Drawn, DrawQueued
  <2> QED
    BY <1>3, <2>1, <2>2, <2>4, <2>6 DEF DrawQueued, Drawing, Inv, Typed
<1> QED
  BY <1>1, <1>2, <1>3

-----------------------------------------------------------------------------
(* The records.                                                            *)

\* The steps that change no record but those of what is asked.
Quiet ==
    \/ SourceEnds \/ Take \/ LeaveOut \/ JobDone \/ EndPhase \/ PassEnds
    \/ DeadlinePasses \/ Interrupt \/ Kill \/ Rest \/ UNCHANGED vars

LEMMA QuietIs ==
    ASSUME Quiet PROVE UNCHANGED <<disk, asked, session>>
BY DEF Quiet, SourceEnds, Take, LeaveOut, JobDone, EndPhase, PassEnds, DeadlinePasses, Interrupt,
       Kill, Rest, vars

LEMMA SentStays ==
    ASSUME Inv, [Next]_vars
    PROVE  Sent'
<1>1. Sent /\ Typed /\ InFlight /\ \A p \in Page : Planned(p) => Planned(p)'
  BY Kept DEF Inv, Records
<1>2. CASE Quiet \/ (\E p \in Page : AskAgain(p)) \/ PublishAccounting \/ PublishAct
  <2>1. UNCHANGED <<sent, replies, reading, session>> /\ asked \subseteq asked'
    BY <1>2, QuietIs DEF disk, AskAgain, PublishAccounting, PublishAct
  <2> QED
    BY <1>1, <2>1 DEF Sent, HasReading, Planned
<1>3. CASE StartPass
  <2>1. UNCHANGED <<sent, replies, reading, asked>> /\ session' = session + 1
    BY <1>3 DEF StartPass, disk
  <2>2. \A r \in Request : \A s \in sent[r] : s <= session + 1
    BY <1>1, BoundsAssumption DEF Sent, Typed
  <2> QED
    BY <1>1, <2>1, <2>2 DEF Sent, HasReading, Planned
<1>4. CASE LookAt \/ DrawFirst \/ DrawQueued
  <2>1. UNCHANGED <<replies, reading, asked, session>> /\ session # 0
    BY <1>4, Draws
  <2>2. CASE sent' = sent
    BY <1>1, <2>1, <2>2 DEF Sent, HasReading, Planned
  <2>3. CASE sent' # sent
    <3>1. PICK r \in Request : Submits(r)
      BY <1>4, <2>3, Draws
    <3>2. Sends(r) /\ sent' = [sent EXCEPT ![r] = @ \cup {session}]
      BY <1>1, <2>1, <2>3, <3>1, SubmitTyped DEF Submits
    <3>3. \A q \in Request : sent'[q] = IF q = r THEN sent[r] \cup {session} ELSE sent[q]
      BY <1>1, <3>1, <3>2 DEF Typed
    <3>4. \A q \in Request : \A s \in sent'[q] : s <= session
      BY <1>1, <3>3, BoundsAssumption DEF Sent, Typed
    <3>5. \A x \in replies : x[2] \in sent'[x[1]]
      BY <1>1, <3>1, <3>3, Pairs DEF Sent, Typed
    <3>6. \A p \in Page : sent'[Reask(p)] # {} => Planned(p)
      BY <1>1, <3>1, <3>3, Requests DEF Sent, Submits
    <3>7. \A p \in Page : sent'[Reread(p)] # {} => p \in asked
      BY <1>1, <3>1, <3>3, Requests DEF Sent, Submits
    <3>8. \A q \in Request : q[1] \in Unasked /\ q[2] # 2 => sent'[q] = {}
      BY <1>1, <3>1, <3>2, <3>3 DEF Sent, Sends
    <3> QED
      BY <1>1, <2>1, <3>4, <3>5, <3>6, <3>7, <3>8 DEF Sent, HasReading, Planned
  <2> QED
    BY <2>2, <2>3
<1>5. CASE CallStep
  <2>1. PICK r \in Request : Retain(r) \/ NameReply(r) \/ CallFails(r)
    BY <1>5 DEF CallStep
  <2>2. /\ UNCHANGED <<sent, reading, asked, session>> /\ r \in out
        /\ replies' \subseteq replies \cup {<<r, session>>}
    BY <2>1 DEF Retain, NameReply, CallFails, disk
  <2>3. session \in sent[r]
    BY <1>1, <2>2 DEF InFlight
  <2>4. \A x \in replies' : x[2] \in sent'[x[1]]
    BY <1>1, <2>2, <2>3 DEF Sent
  <2> QED
    BY <1>1, <2>2, <2>4 DEF Sent, HasReading, Planned
<1>6. CASE PublishReading
  <2>1. UNCHANGED <<sent, replies, asked, session>> /\ doing.req \in Request /\ doing # None
    BY <1>1, <1>6 DEF PublishReading, Typed, Doings
  <2>2. \A q \in Request : q # doing.req => reading'[q] = reading[q]
    BY <1>1, <1>6, <2>1 DEF PublishReading, Typed
  <2>3. Drawn(doing.req)
    BY <1>1, <2>1 DEF InFlight, Waiting
  <2>4. \A p \in Page : HasReading(Reask(p))' => Planned(p)
    BY <1>1, <2>2, <2>3, Requests DEF Sent, HasReading, Drawn
  <2>5. \A p \in Page : HasReading(Reread(p))' => p \in asked
    BY <1>1, <2>2, <2>3, Requests DEF Sent, HasReading, Drawn
  <2> QED
    BY <1>1, <2>1, <2>4, <2>5 DEF Sent
<1> QED
  BY <1>2, <1>3, <1>4, <1>5, <1>6 DEF Next, PassStep, Quiet
\* What the main thread is finishing was drawn, and its call is over.
LEMMA AtHand ==
    ASSUME Inv, doing # None
    PROVE  /\ doing \in Doings /\ doing.req \in Request /\ doing.req \in Waiting
           /\ Drawn(doing.req) /\ doing.req \notin out /\ InWindow /\ session \in 1 .. MaxPasses
BY BoundsAssumption DEF Inv, Typed, InFlight, Doings, Waiting

\* What a published reading says of the request's replies.
LEMMA Publishes ==
    ASSUME Inv, PublishReading
    PROVE  /\ UNCHANGED <<sent, replies, named, accounted, acts, asked, at, mode, session, source,
                          queue, window, out, joined, firsts, stops>>
           /\ doing # None /\ doing' = [doing EXCEPT !.step = "accounting"]
           /\ doing'.req = doing.req /\ doing'.step = "accounting" /\ doing' # None
           /\ \A q \in Request : q # doing.req => reading'[q] = reading[q]
           /\ HasReading(doing.req) => reading' = reading
           /\ ~HasReading(doing.req) =>
                reading'[doing.req].reply = IF <<doing.req, session>> \in replies
                                            THEN <<doing.req, session>> ELSE None
           /\ HasReading(doing.req)'
<1>1. /\ doing \in Doings /\ doing.req \in Request /\ doing # None
      /\ session \in 1 .. MaxPasses
  BY AtHand DEF PublishReading
<1>2. /\ UNCHANGED <<sent, replies, named, accounted, acts, asked, at, mode, session, source,
                     queue, window, out, joined, firsts, stops>>
      /\ doing' = [doing EXCEPT !.step = "accounting"]
  BY DEF PublishReading
<1>3. doing'.req = doing.req /\ doing'.step = "accounting" /\ doing' \in Doings
  BY <1>1, <1>2 DEF Doings
<1>4. doing' # None
  BY <1>3, NoneAssumption DEF Doings
<1>5. CASE HasReading(doing.req)
  <2>1. reading' = reading
    BY <1>5 DEF PublishReading, HasReading
  <2> QED
    BY <1>1, <1>2, <1>3, <1>4, <1>5, <2>1 DEF HasReading
<1>6. CASE ~HasReading(doing.req)
  <2> DEFINE x == IF <<doing.req, session>> \in replies THEN <<doing.req, session>> ELSE None
  <2>1. x \in Replies \cup {None}
    BY <1>1, Pairs
  <2>2. \E what \in What : reading' = [reading EXCEPT ![doing.req] = [what |-> what, reply |-> x]]
    BY <1>6 DEF PublishReading, HasReading, What
  <2>3. \A what \in What : [what |-> what, reply |-> x] # None
    BY <2>1, NoneAssumption DEF Replies
  <2> HIDE DEF x
  <2>4. /\ reading'[doing.req].reply = x /\ reading'[doing.req] # None
        /\ \A q \in Request : q # doing.req => reading'[q] = reading[q]
    BY <1>1, <2>2, <2>3 DEF Inv, Typed
  <2> QED
    BY <1>1, <1>2, <1>3, <1>4, <1>6, <2>4 DEF HasReading, x
<1> QED
  BY <1>5, <1>6

LEMMA NamedStays ==
    ASSUME Inv, [Next]_vars
    PROVE  Named'
<1>1. Named /\ Typed /\ InFlight
  BY DEF Inv, Records
<1>2. CASE UNCHANGED <<reading, replies, named>>
  BY <1>1, <1>2 DEF Named, HasReading
<1>3. CASE CallStep
  <2>1. PICK r \in Request : Retain(r) \/ NameReply(r) \/ CallFails(r)
    BY <1>3 DEF CallStep
  <2>2. /\ reading' = reading /\ named \subseteq named' /\ ~HasReading(r)
        /\ replies' \subseteq replies \cup {<<r, session>>}
    BY <1>1, <2>1 DEF Retain, NameReply, CallFails, disk, InFlight
  <2>3. <<r, session>>[1] = r
    OBVIOUS
  <2> QED
    BY <1>1, <2>2, <2>3 DEF Named, HasReading
<1>4. CASE PublishReading
  <2> DEFINE r == doing.req
  <2>1. /\ doing # None /\ r \in Request /\ r \in Waiting /\ r \notin out /\ InWindow
        /\ session \in 1 .. MaxPasses
    BY <1>4, Publishes, AtHand
  <2>2. /\ UNCHANGED <<replies, named, session>>
        /\ \A q \in Request : q # r => reading'[q] = reading[q]
        /\ HasReading(r) => reading' = reading
    BY <1>4, Publishes
  <2>3. ASSUME ~HasReading(r)
        PROVE  /\ reading'[r].reply # None => reading'[r].reply \in named
                                              /\ reading'[r].reply[1] = r
               /\ \A x \in replies : x[1] = r => reading'[r].reply = x
    <3>1. reading'[r].reply = IF <<r, session>> \in replies THEN <<r, session>> ELSE None
      BY <1>4, <2>3, Publishes
    <3>2. <<r, session>> \in replies => <<r, session>> \in named
      BY <1>1, <2>1 DEF InFlight
    <3>3. \A x \in replies : x[1] = r => x[2] = session
      BY <1>1, <2>1, <2>3 DEF InFlight
    <3>4. \A x \in replies : x[1] = r => x = <<r, session>>
      BY <1>1, <3>3, Pairs DEF Typed
    <3>5. <<r, session>>[1] = r
      OBVIOUS
    <3> QED
      BY <3>1, <3>2, <3>4, <3>5
  <2> HIDE DEF r
  <2> QED
    BY <1>1, <2>1, <2>2, <2>3 DEF Named, HasReading
<1>5. CASE Quiet \/ StartPass \/ (\E p \in Page : AskAgain(p)) \/ PublishAccounting \/ PublishAct
           \/ LookAt \/ DrawFirst \/ DrawQueued
  BY <1>2, <1>5, QuietIs, Draws DEF StartPass, AskAgain, PublishAccounting, PublishAct, disk
<1> QED
  BY <1>3, <1>4, <1>5 DEF Next, PassStep, Quiet

LEMMA ActsStay ==
    ASSUME Inv, [Next]_vars
    PROVE  Acts'
<1>1. /\ Acts /\ Typed /\ Sent /\ Doing
      /\ \A r \in Request : HasReading(r) => HasReading(r)'
      /\ \A p \in Page : HasReading(First(p)) => Planned(p)' = Planned(p)
      /\ \A p \in Page : Settled(p) => Settled(p)'
  BY Kept DEF Inv, Records
<1>2. ASSUME NEW a \in acts, asked \subseteq asked'
      PROVE  /\ HasReading(First(a.page))'
             /\ a.of # 3 => a.names = IF Planned(a.page)' THEN 2 ELSE 1
             /\ a.of # 3 /\ Planned(a.page)' => HasReading(Reask(a.page))'
             /\ a.of = 2 => Planned(a.page)'
             /\ a.of = 3 => a.page \in asked'
  <2>1. a.page \in Page
    BY <1>1 DEF Typed
  <2> QED
    BY <1>1, <1>2, <2>1, Requests DEF Acts
<1>3. CASE UNCHANGED <<accounted, acts, asked>>
  BY <1>1, <1>2, <1>3 DEF Acts, Typed
<1>4. CASE PublishAccounting
  <2>1. UNCHANGED <<acts, asked, reading>> /\ accounted' = accounted \cup {doing.req}
    BY <1>4 DEF PublishAccounting
  <2>2. HasReading(doing.req)
    BY <1>1, <1>4 DEF PublishAccounting, Doing
  <2>3. \A q \in accounted' : HasReading(q)'
    BY <1>1, <2>1, <2>2 DEF Acts, HasReading
  <2> QED
    BY <1>1, <1>2, <2>1, <2>3 DEF Acts, Typed
<1>5. CASE PublishAct
  <2> DEFINE r == doing.req
  <2>1. PICK a \in ActsOf(r) : acts' = acts \cup {a}
    BY <1>5 DEF PublishAct
  <2>2. /\ UNCHANGED <<accounted, asked, reading>> /\ doing # None /\ doing.step = "acts"
        /\ r \in Request /\ Drawn(r) /\ HasReading(r) /\ r[1] \in Page /\ r[2] \in 1 .. 3
    BY <1>1, <1>5, AtHand, Requests DEF PublishAct, Doing
  <2>3. \A q : HasReading(q)' = HasReading(q)
    BY <2>2 DEF HasReading
  <2>4. \A q : Planned(q)' = Planned(q)
    BY <2>2 DEF Planned
  <2>5. a.page = r[1]
    BY <2>1, <2>2 DEF ActsOf, Act
  <2>6. Planned(r[1]) => HasReading(First(r[1]))
    BY DEF Planned, HasReading
  <2>7. CASE r[2] = 1
    <3>1. a = Act(r[1], 1, 1) /\ ~Planned(r[1])
      BY <2>1, <2>7 DEF ActsOf
    <3>2. a.of = 1 /\ a.names = 1 /\ a.page = r[1] /\ r = First(r[1])
      BY <2>2, <2>7, <3>1, Requests DEF Act
    <3> HIDE DEF r
    <3> QED
      BY <1>1, <1>2, <2>1, <2>2, <2>3, <2>4, <3>1, <3>2 DEF Acts, Typed
  <2>8. CASE r[2] = 2
    <3>1. /\ a \in {Act(r[1], 1, 2), Act(r[1], 2, 2)} /\ Planned(r[1]) /\ r = Reask(r[1])
      BY <2>1, <2>2, <2>8, Requests DEF ActsOf, Drawn
    <3>2. a.of \in {1, 2} /\ a.names = 2 /\ a.page = r[1]
      BY <3>1 DEF Act
    <3> HIDE DEF r
    <3> QED
      BY <1>1, <1>2, <2>1, <2>2, <2>3, <2>4, <2>6, <3>1, <3>2 DEF Acts, Typed
  <2>9. CASE r[2] = 3
    <3>1. a = Act(r[1], 3, 3) /\ r[1] \in asked
      BY <2>1, <2>2, <2>9 DEF ActsOf, Drawn
    <3>2. a.of = 3 /\ a.page = r[1] /\ HasReading(First(r[1]))
      BY <1>1, <3>1 DEF Act, Acts, Settled
    <3> HIDE DEF r
    <3> QED
      BY <1>1, <1>2, <2>1, <2>2, <2>3, <2>4, <3>1, <3>2 DEF Acts, Typed
  <2> QED
    BY <2>2, <2>7, <2>8, <2>9
<1>6. ASSUME NEW p \in Page, AskAgain(p) PROVE Acts'
  <2>1. UNCHANGED <<accounted, acts, reading>> /\ asked' = asked \cup {p} /\ at = "sealed"
    BY <1>6 DEF AskAgain, disk
  <2>2. First(p) \in accounted /\ (Planned(p) => Reask(p) \in accounted)
    BY <2>1 DEF Inv, SealedIsComplete
  <2>3. Settled(p)
    BY <1>1, <2>2 DEF Settled, Acts
  <2> QED
    BY <1>1, <1>2, <2>1, <2>3 DEF Acts, Typed
<1>7. CASE Quiet \/ StartPass \/ CallStep \/ PublishReading \/ LookAt \/ DrawFirst \/ DrawQueued
  BY <1>3, <1>7, QuietIs, Draws
     DEF StartPass, CallStep, Retain, NameReply, CallFails, PublishReading, disk
<1> QED
  BY <1>4, <1>5, <1>6, <1>7 DEF Next, PassStep, Quiet
-----------------------------------------------------------------------------
(* The pass.                                                               *)

\* What may follow a step that draws nothing and ends no phase.
LEMMA ToDrawKept ==
    ASSUME Inv, [Next]_vars, UNCHANGED <<replies, asked, at, queue>>,
           source'.next >= source.next
    PROVE  ToDraw'
<1>1. ToDraw /\ Typed /\ \A p \in Page : Planned(p) => Planned(p)'
  BY Kept DEF Inv
<1>2. ASSUME NEW r \in Request, Sends(r)' PROVE Sends(r)
  <2>1. HasReading(r) => HasReading(r)'
    BY Kept DEF Inv
  <2> QED
    BY <1>2, <2>1 DEF Sends, HasReading
<1>3. \A r \in Request : NoReply(r) => NoReply(r)'
  BY DEF NoReply
<1>4. ASSUME NEW p \in Page, p >= source'.next PROVE p >= source.next
  <2>1. p \in Nat /\ source.next \in Nat /\ source'.next \in Nat
    <3>1. Typed'
      BY TypedStays DEF Inv
    <3> QED
      BY <1>1, <3>1, BoundsAssumption DEF Typed, Page
  <2> QED
    BY <1>4, <2>1
<1>5. \A p \in Page : First(p) \in Request
  BY Requests
<1>6. \A r \in queue : r \in Request /\ r[1] \in Page
  BY <1>1, Requests DEF Typed
<1> QED
  BY <1>1, <1>2, <1>3, <1>4, <1>5, <1>6 DEF ToDraw

LEMMA ToDrawStays ==
    ASSUME Inv, [Next]_vars
    PROVE  ToDraw'
<1>1. /\ Typed /\ ToDraw /\ InFlight /\ \A p \in Page : Planned(p) => Planned(p)'
      /\ source.next \in Nat
  BY Kept, BoundsAssumption DEF Inv, Typed
<1>2. CASE StartPass
  <2>1. /\ at' \in {"refused", "first"} /\ queue' = {} /\ UNCHANGED <<reading, replies>>
        /\ at' = "first" => ~Blocked({First(p) : p \in Page})
    BY <1>2 DEF StartPass, disk
  <2>2. ASSUME at' = "first", NEW p \in Page, Sends(First(p)) PROVE NoReply(First(p))
    <3>1. {First(q) : q \in Page} \in SUBSET Request
      BY Requests
    <3> QED
      BY <2>1, <2>2, <3>1, Unblocked
  <2> QED
    BY <2>1, <2>2 DEF ToDraw, Sends, NoReply
<1>3. CASE LookAt \/ SourceEnds
  <2>1. source'.next = source.next /\ UNCHANGED <<replies, asked, at, queue>>
    BY <1>1, <1>3 DEF LookAt, SourceEnds, Typed, disk
  <2> QED
    BY <1>1, <2>1, ToDrawKept
<1>4. CASE DrawFirst
  <2>1. source'.next = source.next + 1 /\ UNCHANGED <<replies, asked, at, queue>>
    BY <1>1, <1>4 DEF DrawFirst, Typed
  <2> QED
    BY <1>1, <2>1, ToDrawKept
<1>5. CASE DrawQueued
  <2>1. /\ queue' \subseteq queue /\ UNCHANGED <<replies, reading, asked, at>>
        /\ at \in {"reask", "reread"}
    BY <1>5 DEF DrawQueued
  <2> QED
    BY <1>1, <2>1 DEF ToDraw, Sends, NoReply, Planned
<1>6. CASE CallStep
  <2>1. PICK r \in Request : Retain(r) \/ NameReply(r) \/ CallFails(r)
    BY <1>6 DEF CallStep
  <2>2. /\ UNCHANGED <<reading, asked, at, queue, source>> /\ r \in out
        /\ replies' \subseteq replies \cup {<<r, session>>}
    BY <2>1 DEF Retain, NameReply, CallFails, disk, thread
  <2>3. <<r, session>>[1] = r
    OBVIOUS
  <2>4. \A q : q # r /\ NoReply(q) => NoReply(q)'
    BY <2>2, <2>3 DEF NoReply
  <2>5. Drawn(r) /\ r[2] \in 1 .. 3
    BY <1>1, <2>2, Requests DEF InFlight
  <2>6. ASSUME at = "first", NEW p \in Page, p >= source.next PROVE First(p) # r
    <3>1. First(p)[1] = p /\ First(p)[2] = 1 /\ p \in Nat
      BY Requests DEF Page
    <3> QED
      BY <1>1, <2>5, <2>6, <3>1 DEF Drawn
  <2>7. ASSUME at \in {"reask", "reread"} PROVE r \notin queue
    BY <2>5, <2>7 DEF Drawn
  <2> QED
    BY <1>1, <2>2, <2>4, <2>6, <2>7 DEF ToDraw, Sends, Planned
<1>7. CASE EndPhase
  <2>1. at \in {"first", "reask", "reread"} /\ UNCHANGED <<reading, replies, asked>>
    BY <1>7 DEF EndPhase, InWindow, disk
  <2>2. \/ at' \in {"refused", "sealed"}
        \/ at' = "reask" /\ queue' = LaterReasks /\ ~Blocked(LaterReasks)
        \/ at' = "reread" /\ queue' = Rereads /\ ~Blocked(Rereads)
    BY <1>7 DEF EndPhase, Enter
  <2>3. LaterReasks \in SUBSET Request /\ Rereads \in SUBSET Request
    BY Requests DEF LaterReasks, Rereads
  <2>4. ASSUME at' \in {"reask", "reread"}
        PROVE  \A r \in queue' : Sends(r)' => NoReply(r)'
    <3>1. \A r \in queue' : Sends(r) => NoReply(r)
      BY <2>2, <2>3, <2>4, Unblocked
    <3> QED
      BY <2>1, <3>1 DEF Sends, NoReply
  <2>5. \A r \in LaterReasks : r[2] = 2 /\ Planned(r[1])
    BY Requests DEF LaterReasks
  <2>6. \A r \in Rereads : r[2] = 3 /\ r[1] \in asked
    BY Requests DEF Rereads, Inv, Records, Sent, HasReading
  <2> QED
    BY <2>1, <2>2, <2>4, <2>5, <2>6 DEF ToDraw, Planned
<1>8. CASE PassEnds \/ Kill \/ \E p \in Page : AskAgain(p)
  <2>1. at' \in {"idle", "sealed"}
    BY <1>8 DEF PassEnds, Kill, AskAgain
  <2> QED
    BY <2>1 DEF ToDraw
<1>9. CASE Take \/ LeaveOut \/ PublishReading \/ PublishAccounting \/ PublishAct \/ JobDone
           \/ DeadlinePasses \/ Interrupt \/ Rest \/ UNCHANGED vars
  <2>1. UNCHANGED <<replies, asked, at, queue, source>>
    BY <1>9 DEF Take, LeaveOut, PublishReading, PublishAccounting, PublishAct, JobDone,
                DeadlinePasses, Interrupt, Rest, vars, disk, thread
  <2> QED
    BY <1>1, <2>1, ToDrawKept
<1> QED
  BY <1>2, <1>3, <1>4, <1>5, <1>6, <1>7, <1>8, <1>9 DEF Next, PassStep

LEMMA DoingStays ==
    ASSUME Inv, [Next]_vars
    PROVE  Doing'
<1>1. /\ Doing /\ Typed /\ accounted \subseteq accounted'
      /\ \A r \in Request : HasReading(r) => HasReading(r)'
  BY Kept, Grown DEF Inv
<1>2. doing # None => doing.req \in Request
  BY AtHand
<1>3. CASE doing' \in {doing, None}
  BY <1>1, <1>2, <1>3 DEF Doing, HasReading
<1>4. CASE Take
  BY <1>4 DEF Take, Doing
<1>5. CASE PublishReading
  BY <1>5, Publishes DEF Doing
<1>6. CASE PublishAccounting
  <2>1. doing \in Doings /\ HasReading(doing.req) /\ reading' = reading
    BY <1>1, <1>6, AtHand DEF PublishAccounting, Doing
  <2>2. doing'.req = doing.req /\ doing'.req \in accounted'
    BY <1>6, <2>1 DEF PublishAccounting, Doings
  <2> QED
    BY <2>1, <2>2 DEF Doing, HasReading
<1>7. CASE LookAt \/ DrawFirst \/ DrawQueued \/ (Quiet /\ ~Take) \/ StartPass \/ CallStep
           \/ PublishAct \/ \E p \in Page : AskAgain(p)
  <2>1. doing' \in {doing, None}
    BY <1>7 DEF LookAt, DrawFirst, DrawQueued, StartPass, CallStep, Retain, NameReply, CallFails,
                PublishAct, AskAgain, thread, Quiet, SourceEnds, LeaveOut, JobDone, EndPhase,
                PassEnds, DeadlinePasses, Interrupt, Kill, Rest, vars
  <2> QED
    BY <1>3, <2>1
<1> QED
  BY <1>4, <1>5, <1>6, <1>7 DEF Next, PassStep, Quiet
\* What was drawn stays so while the phase lasts.
LEMMA DrawnKept ==
    ASSUME Inv, [Next]_vars, at' = at, source'.next >= source.next, joined \subseteq joined',
           queue' \subseteq queue, asked \subseteq asked', NEW r \in Request, Drawn(r)
    PROVE  Drawn(r)'
<1>1. r[1] \in Page /\ (Planned(r[1]) => Planned(r[1])')
  BY Kept, Requests DEF Inv
<1>2. r[1] \in Nat /\ source.next \in Nat /\ source'.next \in Nat
  <2>1. Typed /\ Typed'
    BY TypedStays DEF Inv
  <2> QED
    BY <1>1, <2>1, BoundsAssumption DEF Typed, Page
<1> QED
  BY <1>1, <1>2 DEF Drawn

LEMMA DrawsKeep ==
    ASSUME Inv, LookAt \/ DrawFirst \/ DrawQueued
    PROVE  source'.next >= source.next /\ joined \subseteq joined' /\ queue' \subseteq queue
<1>1. source.next \in Nat
  BY BoundsAssumption DEF Inv, Typed
<1> QED
  BY <1>1 DEF LookAt, DrawFirst, DrawQueued, Inv, Typed

LEMMA DrawsInFlight ==
    ASSUME Inv, [Next]_vars, LookAt \/ DrawFirst \/ DrawQueued
    PROVE  InFlight'
<1>1. /\ Typed /\ InFlight /\ Waiting = InTheWindow /\ Waiting' = InTheWindow'
      /\ UNCHANGED <<replies, named, reading, asked, at, mode, session, doing>>
      /\ InWindow /\ InWindow' /\ doing = None /\ session # 0
  BY Draws DEF Inv, Waiting, InWindow
<1>2. \A r \in Request : Drawn(r) => Drawn(r)'
  BY <1>1, DrawnKept, DrawsKeep
<1>3. Waiting \subseteq Request /\ out \subseteq Request
  BY <1>1, Windows DEF Typed
<1>4. CASE UNCHANGED <<window, sent, out>>
  <2>1. InTheWindow' = InTheWindow
    BY <1>4 DEF InTheWindow
  <2> QED
    BY <1>1, <1>2, <1>3, <1>4, <2>1 DEF InFlight, HasReading
<1>5. CASE \E r \in Request : Submits(r) /\ Drawn(r)'
  <2>1. PICK r \in Request : Submits(r) /\ Drawn(r)'
    BY <1>5
  <2>2. InTheWindow' = InTheWindow \cup {r} /\ out \subseteq out' /\ out' \subseteq out \cup {r}
    BY <1>1, <2>1, SubmitTyped DEF Submits
  <2>3. \A q \in Waiting' \cup out' : Drawn(q)'
    BY <1>1, <1>2, <1>3, <2>1, <2>2 DEF InFlight
  <2>4. \A q \in out' : session \in sent'[q] /\ ~HasReading(q)
    <3>1. CASE Sends(r)
      <4>1. sent' = [sent EXCEPT ![r] = @ \cup {session}] /\ ~HasReading(r)
        BY <1>1, <2>1, <3>1, SubmitTyped DEF Submits, Sends, HasReading
      <4> QED
        BY <1>1, <1>3, <2>1, <2>2, <4>1 DEF InFlight, Typed
    <3>2. CASE ~Sends(r)
      BY <1>1, <2>1, <3>2, SubmitTyped DEF Submits, InFlight
    <3> QED
      BY <3>1, <3>2
  <2>5. mode # "sweep" => out' \subseteq InTheWindow'
    BY <1>1, <2>2 DEF InFlight
  <2>6. \A q \in Waiting' : ~HasReading(q) => \A x \in replies : x[1] = q => x[2] = session
    BY <1>1, <2>1, <2>2 DEF InFlight, Submits, NoReply
  <2>7. \A q \in Request : q \notin out' /\ <<q, session>> \in replies => <<q, session>> \in named
    BY <1>1, <2>2 DEF InFlight
  <2> QED
    BY <1>1, <2>3, <2>4, <2>5, <2>6, <2>7 DEF InFlight, HasReading
<1> QED
  BY <1>4, <1>5, Draws

LEMMA InFlightStays ==
    ASSUME Inv, [Next]_vars
    PROVE  InFlight'
<1>1. /\ Typed /\ InFlight /\ Sent /\ InTheWindow \subseteq Request /\ out \subseteq Request
      /\ source.next \in Nat
  BY Windows, BoundsAssumption DEF Inv, Records, Typed
<1>2. \A r \in Request : HasReading(r) => HasReading(r)'
  BY Kept DEF Inv
<1>3. Waiting \subseteq Request
  BY <1>1, AtHand DEF Waiting
<1>4. ASSUME UNCHANGED <<at, source, joined, queue>>, asked \subseteq asked'
      PROVE  \A r \in Request : Drawn(r) => Drawn(r)'
  BY <1>1, <1>4, DrawnKept
<1>5. CASE StartPass
  <2>1. /\ window' = << >> /\ out' = {} /\ doing' = None /\ session' = session + 1
        /\ replies' = replies
    BY <1>5 DEF StartPass, disk
  <2>2. InTheWindow' = {} /\ Waiting' = {}
    BY <2>1 DEF InTheWindow, Waiting
  <2>3. ASSUME NEW r \in Request PROVE <<r, session'>> \notin replies
    <3>1. ASSUME <<r, session'>> \in replies PROVE FALSE
      <4>1. session' \in sent[r]
        BY <1>1, <3>1 DEF Sent
      <4>2. session' <= session /\ session \in Nat
        BY <1>1, <4>1, BoundsAssumption DEF Sent, Typed
      <4> QED
        BY <2>1, <4>2
    <3> QED
      BY <3>1
  <2> QED
    BY <2>1, <2>2, <2>3 DEF InFlight
<1>6. CASE LookAt \/ DrawFirst \/ DrawQueued
  BY <1>6, DrawsInFlight
<1>7. CASE CallStep
  <2>1. PICK r \in Request : Retain(r) \/ NameReply(r) \/ CallFails(r)
    BY <1>7 DEF CallStep
  <2>2. /\ UNCHANGED <<sent, reading, asked, at, mode, session, source, queue, window, joined, doing>>
        /\ r \in out /\ out' \subseteq out /\ out \subseteq out' \cup {r}
        /\ replies' \subseteq replies \cup {<<r, session>>} /\ named \subseteq named'
    BY <2>1 DEF Retain, NameReply, CallFails, disk, thread
  <2>3. InTheWindow' = InTheWindow /\ Waiting' = Waiting /\ InWindow' = InWindow
    BY <2>2 DEF InTheWindow, Waiting, InWindow
  <2>4. \A q \in Waiting' \cup out' : Drawn(q)'
    BY <1>1, <1>3, <1>4, <2>2, <2>3 DEF InFlight
  <2>5. \A q \in Waiting : ~HasReading(q) => \A x \in replies' : x[1] = q => x[2] = session
    BY <1>1, <2>2 DEF InFlight
  <2>6. ASSUME NEW q \in Request, InWindow, q \notin out', <<q, session>> \in replies'
        PROVE  <<q, session>> \in named'
    <3>1. CASE q = r
      BY <2>1, <2>6, <3>1 DEF Retain, NameReply, CallFails, disk, thread
    <3>2. CASE q # r
      <4>1. <<q, session>> \in replies /\ q \notin out
        BY <2>2, <2>6, <3>2
      <4> QED
        BY <1>1, <2>2, <2>6, <4>1 DEF InFlight
    <3> QED
      BY <3>1, <3>2
  <2>7. out' \subseteq out /\ UNCHANGED <<sent, reading, mode, session, window, doing>>
    BY <2>2
  <2> QED
    BY <1>1, <2>3, <2>4, <2>5, <2>6, <2>7 DEF InFlight, HasReading
<1>8. CASE Take
  <2>1. /\ UNCHANGED <<sent, replies, named, reading, asked, at, mode, session, source, queue, out, joined>>
        /\ doing = None /\ window # << >> /\ Head(window) \notin out /\ InWindow
        /\ window' = Tail(window) /\ doing' = [req |-> Head(window), step |-> "reading"]
    BY <1>8 DEF Take, disk
  <2>2. /\ InTheWindow = InTheWindow' \cup {Head(window)} /\ Head(window) \in Request
        /\ doing'.req = Head(window) /\ InWindow'
    BY <1>1, <2>1, Windows DEF Typed, InWindow
  <2>3. doing' # None
    <3>1. doing' \in Doings
      BY <2>1, <2>2 DEF Doings
    <3> QED
      BY <3>1, NoneAssumption DEF Doings
  <2>4. Waiting' = Waiting
    BY <2>1, <2>2, <2>3 DEF Waiting
  <2>5. \A q \in Waiting' \cup out' : Drawn(q)'
    BY <1>1, <1>3, <1>4, <2>1, <2>4 DEF InFlight
  <2>6. mode # "sweep" => out \subseteq InTheWindow'
    BY <1>1, <2>1, <2>2 DEF InFlight
  <2> QED
    BY <1>1, <2>1, <2>2, <2>4, <2>5, <2>6 DEF InFlight, HasReading
<1>9. CASE LeaveOut
  <2>1. /\ UNCHANGED <<sent, replies, named, reading, asked, at, mode, session, source, queue, out,
                       joined, doing>>
        /\ mode = "sweep" /\ window # << >> /\ window' = Tail(window)
    BY <1>9 DEF LeaveOut, disk
  <2>2. InTheWindow' \subseteq InTheWindow
    BY <1>1, <2>1, Windows DEF Typed
  <2>3. Waiting' \subseteq Waiting /\ InWindow
    BY <1>1, <2>1, <2>2 DEF Waiting, InFlight
  <2>4. \A q \in Waiting' \cup out' : Drawn(q)'
    BY <1>1, <1>3, <1>4, <2>1, <2>3 DEF InFlight
  <2> QED
    BY <1>1, <2>1, <2>3, <2>4 DEF InFlight, HasReading, InWindow
<1>10. CASE PublishReading
  <2>1. /\ UNCHANGED <<sent, replies, named, asked, at, mode, session, source, queue, window, out,
                       joined>>
        /\ doing # None /\ doing' # None /\ doing'.req = doing.req /\ doing.req \notin out
        /\ \A q \in Request : q # doing.req => reading'[q] = reading[q]
    BY <1>10, Publishes, AtHand
  <2>2. InTheWindow' = InTheWindow /\ Waiting' = Waiting /\ InWindow' = InWindow
    BY <2>1 DEF InTheWindow, Waiting, InWindow
  <2>3. \A q \in Waiting' \cup out' : Drawn(q)'
    BY <1>1, <1>3, <1>4, <2>1, <2>2 DEF InFlight
  <2>4. \A q \in out : ~HasReading(q)'
    BY <1>1, <2>1 DEF InFlight, HasReading
  <2>5. \A q \in Waiting : ~HasReading(q)' => ~HasReading(q)
    BY <1>2, <1>3
  <2> QED
    BY <1>1, <2>1, <2>2, <2>3, <2>4, <2>5 DEF InFlight
<1>11. CASE PublishAccounting \/ PublishAct
  <2>1. /\ UNCHANGED <<sent, replies, named, reading, asked, at, mode, session, source, queue, window,
                       out, joined>>
        /\ doing # None /\ doing \in Doings
    BY <1>11, AtHand DEF PublishAccounting, PublishAct, thread
  <2>2. doing' \in Doings /\ doing'.req = doing.req
    BY <1>11, <2>1 DEF PublishAccounting, PublishAct, thread, Doings
  <2>3. doing' # None
    BY <2>2, NoneAssumption DEF Doings
  <2>4. InTheWindow' = InTheWindow /\ Waiting' = Waiting /\ InWindow' = InWindow
    BY <2>1, <2>2, <2>3 DEF InTheWindow, Waiting, InWindow
  <2>5. \A q \in Waiting' \cup out' : Drawn(q)'
    BY <1>1, <1>3, <1>4, <2>1, <2>4 DEF InFlight
  <2> QED
    BY <1>1, <2>1, <2>2, <2>3, <2>4, <2>5 DEF InFlight, HasReading
<1>12. CASE JobDone \/ Interrupt \/ DeadlinePasses
  <2>1. /\ UNCHANGED <<sent, replies, named, reading, asked, at, session, source, queue, window, out, joined>>
        /\ mode' # "sweep" => mode # "sweep"
        /\ doing' = None /\ InWindow
    <3>1. CASE JobDone
      BY <3>1, AtHand DEF JobDone, disk
    <3>2. CASE Interrupt \/ DeadlinePasses
      BY <3>2 DEF Interrupt, DeadlinePasses, Drawing, disk, thread
    <3> QED
      BY <1>12, <3>1, <3>2
  <2>2. InTheWindow' = InTheWindow /\ Waiting' \subseteq Waiting /\ InWindow' = InWindow
    BY <2>1 DEF InTheWindow, Waiting, InWindow
  <2>3. \A q \in Waiting' \cup out' : Drawn(q)'
    BY <1>1, <1>3, <1>4, <2>1, <2>2 DEF InFlight
  <2> QED
    BY <1>1, <2>1, <2>2, <2>3 DEF InFlight, HasReading
<1>13. CASE EndPhase \/ PassEnds \/ Kill \/ \E p \in Page : AskAgain(p)
  <2>1. /\ UNCHANGED <<replies, named, session>>
        /\ window' = << >> /\ out' = {} /\ doing' = None
        /\ InWindow' => InWindow /\ out = {}
    <3>1. CASE EndPhase
      <4>1. InTheWindow = {} /\ window = << >> /\ mode = "run"
        BY <3>1 DEF EndPhase, InTheWindow
      <4>2. out = {}
        BY <1>1, <4>1 DEF InFlight
      <4> QED
        BY <3>1, <4>2 DEF EndPhase, disk
    <3>2. CASE PassEnds
      BY <3>2 DEF PassEnds, disk, thread
    <3>3. CASE Kill
      BY <3>3 DEF Kill, disk, InWindow
    <3>4. CASE \E p \in Page : AskAgain(p)
      BY <1>1, <3>4 DEF AskAgain, disk, thread, InWindow, InFlight
    <3> QED
      BY <1>13, <3>1, <3>2, <3>3, <3>4
  <2>2. InTheWindow' = {} /\ Waiting' = {}
    BY <2>1 DEF InTheWindow, Waiting
  <2> QED
    BY <1>1, <2>1, <2>2 DEF InFlight
<1>14. CASE SourceEnds \/ Rest \/ UNCHANGED vars
  <2>1. /\ UNCHANGED <<sent, replies, named, reading, asked, at, mode, session, queue, window, out, joined, doing>>
        /\ source'.next = source.next
    BY <1>1, <1>14 DEF SourceEnds, Rest, vars, disk, thread, Typed
  <2>2. InTheWindow' = InTheWindow /\ Waiting' = Waiting /\ InWindow' = InWindow
    BY <2>1 DEF InTheWindow, Waiting, InWindow
  <2>3. \A q \in Waiting' \cup out' : Drawn(q)'
    BY <1>1, <1>3, <2>1, <2>2, DrawnKept DEF InFlight
  <2> QED
    BY <1>1, <2>1, <2>2, <2>3 DEF InFlight, HasReading
<1> QED
  BY <1>5, <1>6, <1>7, <1>8, <1>9, <1>10, <1>11, <1>12, <1>13, <1>14 DEF Next, PassStep
\* A step that draws nothing, ends no phase and takes no request from those that wait.
LEMMA ProgressKept ==
    ASSUME Inv, [Next]_vars, UNCHANGED <<at, joined, asked, queue>>, source'.next = source.next,
           source'.ended => source.next > Pages, mode' = "run" => mode = "run",
           \A r \in Waiting : r \in Waiting' \/ Finished(r)'
    PROVE  Progress'
<1>1. /\ Typed /\ Progress
      /\ \A r \in Request : Finished(r) => Finished(r)' /\ HasReading(r)
      /\ \A p \in Page : HasReading(First(p)) => Planned(p)' = Planned(p)
      /\ \A p \in Page : Planned(p) => Planned(p)'
  BY Kept DEF Inv
<1>2. \A p \in joined : p \in Page /\ Planned(p)'
  BY <1>1 DEF Progress, Typed
<1>3. \A p \in asked : p \in Page
  BY <1>1 DEF Typed
<1>4. ASSUME at = "first", mode' = "run"
      PROVE  /\ \A p \in Page : p < source.next => Finished(First(p))' \/ First(p) \in Waiting'
             /\ \A p \in joined : Finished(Reask(p))' \/ Reask(p) \in Waiting'
  <2>1. /\ \A p \in Page : p < source.next => Finished(First(p)) \/ First(p) \in Waiting
        /\ \A p \in joined : Finished(Reask(p)) \/ Reask(p) \in Waiting
    BY <1>1, <1>4 DEF Progress
  <2> QED
    BY <1>1, <1>2, <2>1, Requests
<1>5. ASSUME at \in {"reask", "reread"}, mode' = "run"
      PROVE  \A p \in Page : Finished(First(p))' /\ Planned(p)' = Planned(p)
  <2>1. \A p \in Page : Finished(First(p))
    BY <1>1, <1>5 DEF Progress
  <2> QED
    BY <1>1, <2>1, Requests
<1>6. ASSUME at = "reask", mode' = "run"
      PROVE  \A p \in Page : Planned(p)' => Finished(Reask(p))' \/ Reask(p) \in Waiting' \cup queue
  <2>1. \A p \in Page : Planned(p) => Finished(Reask(p)) \/ Reask(p) \in Waiting \cup queue
    BY <1>1, <1>6 DEF Progress
  <2> QED
    BY <1>1, <1>5, <1>6, <2>1, Requests
<1>7. ASSUME at = "reread", mode' = "run"
      PROVE  /\ \A p \in Page : Planned(p)' => Finished(Reask(p))'
             /\ \A p \in asked : Finished(Reread(p))' \/ Reread(p) \in Waiting' \cup queue
  <2>1. /\ \A p \in Page : Planned(p) => Finished(Reask(p))
        /\ \A p \in asked : Finished(Reread(p)) \/ Reread(p) \in Waiting \cup queue
    BY <1>1, <1>7 DEF Progress
  <2> QED
    BY <1>1, <1>3, <1>5, <1>7, <2>1, Requests
<1> QED
  BY <1>2, <1>4, <1>5, <1>6, <1>7 DEF Progress

\* Nothing waits when a phase ends, so what the phase had to finish is finished.
LEMMA PhaseEnded ==
    ASSUME Inv, EndPhase
    PROVE  /\ UNCHANGED <<disk, asked, mode, session, source, joined>> /\ mode = "run"
           /\ Waiting = {} /\ Waiting' = {} /\ queue = {}
           /\ \A p \in Page : Finished(First(p))
           /\ at = "first" => \A p \in joined : Finished(Reask(p))
           /\ at # "first" => \A p \in Page : Planned(p) => Finished(Reask(p))
           /\ at = "reread" => \A p \in asked : Finished(Reread(p))
<1>1. /\ UNCHANGED <<disk, asked, mode, session, source, joined, window, doing>> /\ mode = "run"
      /\ window = << >> /\ doing = None /\ queue = {} /\ at \in {"first", "reask", "reread"}
      /\ at = "first" => source.ended
  BY DEF EndPhase, InWindow
<1>2. Waiting = {} /\ Waiting' = {}
  BY <1>1 DEF Waiting, InTheWindow
<1>3. Progress /\ Typed
  BY DEF Inv
<1>4. ASSUME at = "first" PROVE \A p \in Page : p < source.next
  <2>1. source.next > Pages /\ source.next \in Nat
    BY <1>1, <1>3, <1>4, BoundsAssumption DEF Progress, Typed
  <2> QED
    BY <2>1, BoundsAssumption DEF Page
<1>5. \A p \in Page : Finished(First(p))
  BY <1>1, <1>2, <1>3, <1>4 DEF Progress
<1>6. at = "first" => \A p \in joined : Finished(Reask(p))
  BY <1>1, <1>2, <1>3 DEF Progress
<1>7. at # "first" => \A p \in Page : Planned(p) => Finished(Reask(p))
  BY <1>1, <1>2, <1>3 DEF Progress
<1>8. at = "reread" => \A p \in asked : Finished(Reread(p))
  BY <1>1, <1>2, <1>3 DEF Progress
<1> QED
  BY <1>1, <1>2, <1>5, <1>6, <1>7, <1>8

LEMMA ProgressStays ==
    ASSUME Inv, [Next]_vars
    PROVE  Progress'
<1>1. Typed /\ Progress /\ InTheWindow \subseteq Request /\ \A p \in joined : Planned(p)'
  BY Windows, Kept DEF Inv, Progress, Typed
<1>2. CASE StartPass
  <2>1. /\ joined' = {} /\ source' = Fresh /\ at' \in {"first", "refused"}
    BY <1>2 DEF StartPass
  <2>2. \A p \in Page : ~(p < 1)
    BY BoundsAssumption DEF Page
  <2> QED
    BY <2>1, <2>2 DEF Progress, Fresh
<1>3. CASE LookAt
  <2>1. PICK p \in Page : p = source.seen + 1
    BY <1>1, <1>3 DEF LookAt, Looking, Typed
  <2>2. /\ at = "first" /\ at' = at /\ UNCHANGED <<asked, queue, mode, doing, reading, accounted, acts>>
        /\ source'.next = source.next /\ source'.ended = source.ended
    BY <1>1, <1>3 DEF LookAt, Typed
  <2>3. CASE joined' = joined
    <3>1. InTheWindow \subseteq InTheWindow'
      <4>1. CASE UNCHANGED window
        BY <4>1 DEF InTheWindow
      <4>2. CASE window' # window
        BY <1>3, <1>1, <4>2, Draws, SubmitTyped DEF Submits
      <4> QED
        BY <4>1, <4>2
    <3>2. Waiting \subseteq Waiting'
      BY <2>2, <3>1 DEF Waiting
    <3> QED
      BY <1>1, <2>2, <2>3, <3>2, ProgressKept DEF Progress
  <2>4. CASE joined' # joined
    <3>1. Joins(p) /\ joined' = joined \cup {p} /\ Submit(Reask(p))
      BY <1>3, <2>1, <2>4 DEF LookAt
    <3>2. InTheWindow' = InTheWindow \cup {Reask(p)}
      BY <1>1, <1>3, <2>1, <3>1, Draws, SubmitTyped, Requests
    <3>3. Waiting' = Waiting \cup {Reask(p)}
      BY <2>2, <3>2 DEF Waiting
    <3>4. Planned(p)' /\ \A q : Planned(q)' = Planned(q)
      BY <2>2, <3>1 DEF Planned, Joins
    <3>5. \A r : Finished(r)' = Finished(r)
      BY <2>2, <3>4 DEF Finished, ActsOf, Read
    <3> QED
      BY <1>1, <2>2, <3>1, <3>3, <3>4, <3>5 DEF Progress
  <2> QED
    BY <2>3, <2>4
<1>4. CASE DrawFirst
  <2>1. PICK p \in Page : p = source.next /\ source'.next = p + 1 /\ source'.ended = source.ended
    BY <1>1, <1>4, BoundsAssumption DEF DrawFirst, Typed, Page
  <2>2. /\ at = "first" /\ at' = at /\ Submit(First(p))
        /\ UNCHANGED <<asked, queue, mode, doing, reading, accounted, acts, joined>>
    BY <1>4, <2>1 DEF DrawFirst
  <2>3. InTheWindow' = InTheWindow \cup {First(p)}
    BY <1>1, <1>4, <2>1, <2>2, Draws, SubmitTyped, Requests
  <2>4. Waiting' = Waiting \cup {First(p)}
    BY <2>2, <2>3 DEF Waiting
  <2>5. \A q : Planned(q)' = Planned(q)
    BY <2>2 DEF Planned
  <2>6. \A r : Finished(r)' = Finished(r)
    BY <2>2, <2>5 DEF Finished, ActsOf, Read
  <2>7. \A q \in Page : q < p + 1 => q < p \/ q = p
    BY DEF Page
  <2>8. p \in Nat /\ Pages \in Nat /\ (source.ended => p + 1 > Pages)
    BY <1>1, <2>1, BoundsAssumption DEF Page, Progress
  <2> QED
    BY <1>1, <2>1, <2>2, <2>4, <2>5, <2>6, <2>7, <2>8 DEF Progress
<1>5. CASE DrawQueued
  <2>1. PICK r \in queue : Submit(r) /\ queue' = queue \ {r}
    BY <1>5 DEF DrawQueued, Foremost
  <2>2. /\ at \in {"reask", "reread"} /\ at' = at
        /\ UNCHANGED <<asked, source, mode, doing, reading, accounted, acts, joined>>
    BY <1>5 DEF DrawQueued
  <2>3. InTheWindow' = InTheWindow \cup {r}
    BY <1>1, <1>5, <2>1, <2>2, Draws, SubmitTyped DEF Typed
  <2>4. Waiting' \cup queue' = Waiting \cup queue
    BY <2>1, <2>2, <2>3 DEF Waiting
  <2>5. \A q : Planned(q)' = Planned(q)
    BY <2>2 DEF Planned
  <2>6. \A q : Finished(q)' = Finished(q)
    BY <2>2, <2>5 DEF Finished, ActsOf, Read
  <2> QED
    BY <1>1, <2>2, <2>4, <2>5, <2>6 DEF Progress
<1>6. CASE EndPhase
  <2>1. /\ UNCHANGED <<disk, asked, mode, session, source, joined>>
        /\ \A p \in Page : Finished(First(p))
        /\ at = "first" => \A p \in joined : Finished(Reask(p))
        /\ at # "first" => \A p \in Page : Planned(p) => Finished(Reask(p))
    BY <1>6, PhaseEnded
  <2>2. \A q : Planned(q)' = Planned(q)
    BY <2>1 DEF Planned, disk
  <2>3. \A q : Finished(q)' = Finished(q)
    BY <2>1, <2>2 DEF Finished, ActsOf, Read, disk
  <2>4. \/ at' \in {"refused", "sealed"}
        \/ at' = "reask" /\ at = "first" /\ queue' = LaterReasks
        \/ at' = "reread" /\ at = "reask" /\ queue' = Rereads
    BY <1>6 DEF EndPhase, Enter
  <2>5. ASSUME at' = "reask"
        PROVE  \A p \in Page : Planned(p) => Finished(Reask(p)) \/ Reask(p) \in queue'
    BY <2>1, <2>4, <2>5 DEF LaterReasks
  <2>6. ASSUME at' = "reread"
        PROVE  \A p \in asked : Reread(p) \in queue'
    BY <1>1, <2>4, <2>6 DEF Rereads, Typed
  <2> QED
    BY <1>1, <2>1, <2>2, <2>3, <2>4, <2>5, <2>6 DEF Progress
<1>7. CASE PassEnds \/ Kill \/ \E p \in Page : AskAgain(p)
  <2>1. at' \in {"idle", "sealed"} /\ UNCHANGED <<reading, source, joined>>
    BY <1>7 DEF PassEnds, Kill, AskAgain, disk, thread
  <2> QED
    BY <1>1, <2>1 DEF Progress
<1>8. CASE JobDone
  <2> DEFINE r == doing.req
  <2>1. /\ UNCHANGED <<disk, asked, at, source, queue, window, joined>> /\ doing # None
        /\ doing.step = "acts" /\ doing' = None /\ r \in Request
        /\ mode' = "run" => mode = "run" /\ ActsOf(r) \subseteq acts
    BY <1>8, AtHand DEF JobDone
  <2>2. mode' = "run" => Finished(r)
    BY <2>1 DEF Finished, Inv, Doing
  <2>3. Waiting \subseteq Waiting' \cup {r}
    BY <2>1 DEF Waiting, InTheWindow
  <2>4. mode' = "run" => Progress'
    BY <1>1, <2>1, <2>2, <2>3, ProgressKept, Kept DEF Inv, Progress
  <2>5. mode' # "run" => Progress'
    BY <1>1, <2>1 DEF Progress, disk
  <2> QED
    BY <2>4, <2>5
<1>9. CASE Interrupt \/ DeadlinePasses \/ LeaveOut
  <2>1. mode' # "run" /\ UNCHANGED <<reading, source, joined>>
    BY <1>9 DEF Interrupt, DeadlinePasses, LeaveOut, disk, thread
  <2> QED
    BY <1>1, <2>1 DEF Progress
<1>10. CASE Take
  <2>1. /\ UNCHANGED <<at, joined, asked, queue, source, mode>> /\ doing = None /\ window # << >>
        /\ window' = Tail(window) /\ doing' = [req |-> Head(window), step |-> "reading"]
    BY <1>10 DEF Take
  <2>2. /\ InTheWindow = InTheWindow' \cup {Head(window)} /\ doing'.req = Head(window)
        /\ doing' \in Doings
    BY <1>1, <2>1, Windows DEF Typed, Doings
  <2>3. doing' # None
    BY <2>2, NoneAssumption DEF Doings
  <2>4. Waiting \subseteq Waiting'
    BY <2>1, <2>2, <2>3 DEF Waiting
  <2> QED
    BY <1>1, <2>1, <2>4, ProgressKept DEF Progress
<1>11. CASE PublishReading \/ PublishAccounting \/ PublishAct
  <2>1. /\ UNCHANGED <<at, joined, asked, queue, source, mode, window>> /\ doing # None
        /\ doing \in Doings
    BY <1>11, AtHand DEF PublishReading, PublishAccounting, PublishAct, thread
  <2>2. doing' \in Doings /\ doing'.req = doing.req
    BY <1>11, <2>1 DEF PublishReading, PublishAccounting, PublishAct, thread, Doings
  <2>3. doing' # None
    BY <2>2, NoneAssumption DEF Doings
  <2>4. Waiting' = Waiting
    BY <2>1, <2>2, <2>3 DEF Waiting, InTheWindow
  <2> QED
    BY <1>1, <2>1, <2>4, ProgressKept DEF Progress
<1>12. CASE CallStep \/ SourceEnds \/ Rest \/ UNCHANGED vars
  <2>1. /\ UNCHANGED <<at, joined, asked, queue, mode, window, doing>>
        /\ source'.next = source.next
        /\ source'.ended => source.ended \/ source.next > Pages
    BY <1>1, <1>12 DEF CallStep, Retain, NameReply, CallFails, SourceEnds, Rest, vars, thread, Typed
  <2>2. Waiting' = Waiting
    BY <2>1 DEF Waiting, InTheWindow
  <2> QED
    BY <1>1, <2>1, <2>2, ProgressKept DEF Progress
<1> QED
  BY <1>2, <1>3, <1>4, <1>5, <1>6, <1>7, <1>8, <1>9, <1>10, <1>11, <1>12 DEF Next, PassStep

-----------------------------------------------------------------------------
(* The seal.                                                               *)

LEMMA SealedStays ==
    ASSUME Inv, [Next]_vars
    PROVE  SealedIsComplete'
<1>1. Typed /\ Records /\ InFlight /\ SealedIsComplete
  BY DEF Inv
<1>2. CASE at = "sealed" /\ at' = "sealed" /\ UNCHANGED disk
  <2>1. UNCHANGED <<replies, reading, accounted, acts>>
    BY <1>2 DEF disk
  <2> QED
    BY <1>1, <1>2, <2>1 DEF SealedIsComplete, Planned, ActsOf, Read, Unbound
<1>3. CASE EndPhase /\ at' = "sealed"
  <2>1. at = "reread" /\ UNCHANGED disk
    BY <1>3 DEF EndPhase, Enter
  <2>2. /\ \A p \in Page : Finished(First(p)) /\ (Planned(p) => Finished(Reask(p)))
        /\ \A p \in asked : Finished(Reread(p))
    BY <1>3, <2>1, PhaseEnded
  <2>3. ASSUME NEW r \in Request, sent[r] # {} \/ HasReading(r) PROVE Finished(r)
    BY <1>1, <2>2, <2>3, Requests DEF Records, Sent
  <2>4. \A r \in accounted : ActsOf(r) \subseteq acts
    BY <1>1, <2>3 DEF Typed, Records, Acts, Finished
  <2>5. ASSUME NEW x \in replies PROVE x \notin Unbound
    <3>1. x[1] \in Request /\ sent[x[1]] # {}
      BY <1>1, Pairs DEF Typed, Records, Sent
    <3>2. HasReading(x[1])
      BY <1>1, <2>3, <3>1 DEF Finished, Records, Acts
    <3>3. reading[x[1]].reply = x
      BY <1>1, <3>1, <3>2 DEF Records, Named
    <3> QED
      BY <3>1, <3>2, <3>3 DEF Unbound, HasReading
  <2>6. Unbound = {}
    BY <2>5 DEF Unbound
  <2>7. \A p \in Page : First(p) \in accounted /\ (Planned(p) => Reask(p) \in accounted)
    BY <2>2 DEF Finished
  <2>8. UNCHANGED <<replies, reading, accounted, acts>>
    BY <2>1 DEF disk
  <2> QED
    BY <2>4, <2>6, <2>7, <2>8 DEF SealedIsComplete, Planned, ActsOf, Read, Unbound
<1>4. CASE at' # "sealed"
  BY <1>4 DEF SealedIsComplete
<1>5. CASE LookAt \/ DrawFirst \/ DrawQueued
  BY <1>4, <1>5, Draws DEF InWindow
<1>6. CASE PublishReading \/ PublishAccounting \/ PublishAct \/ JobDone
  BY <1>4, <1>6, AtHand DEF PublishReading, PublishAccounting, PublishAct, JobDone, InWindow
<1>7. CASE CallStep
  <2>1. out # {} /\ at' = at
    BY <1>7 DEF CallStep, Retain, NameReply, CallFails
  <2> QED
    BY <1>1, <1>4, <2>1 DEF InFlight, InWindow
<1>8. CASE Quiet \/ StartPass \/ \E p \in Page : AskAgain(p)
  <2>1. UNCHANGED disk
    BY <1>8, QuietIs DEF StartPass, AskAgain
  <2>2. at' = "sealed" => at = "sealed" \/ EndPhase
    BY <1>8 DEF Quiet, SourceEnds, Take, LeaveOut, JobDone, PassEnds, DeadlinePasses, Interrupt,
                Kill, Rest, vars, StartPass, AskAgain
  <2> QED
    BY <1>2, <1>3, <1>4, <2>1, <2>2
<1> QED
  BY <1>5, <1>6, <1>7, <1>8 DEF Next, PassStep, Quiet

-----------------------------------------------------------------------------
(* The theorems.                                                           *)

LEMMA InitInv == Init => Inv
<1> SUFFICES ASSUME Init PROVE Inv
  OBVIOUS
<1>1. /\ \A r \in Request : sent[r] = {} /\ reading[r] = None
      /\ replies = {} /\ named = {} /\ accounted = {} /\ acts = {} /\ asked = {}
      /\ at = "idle" /\ window = << >> /\ out = {} /\ doing = None /\ joined = {} /\ firsts = {}
      /\ queue = {} /\ session = 0 /\ mode = "run" /\ source = Fresh
  BY DEF Init
<1>2. Typed
  <2>1. source \in [next : 1 .. Pages + 1, seen : 0 .. Pages, ended : BOOLEAN]
    BY <1>1, BoundsAssumption DEF Fresh
  <2>2. window \in Seq(Request) /\ session \in 0 .. MaxPasses
    BY <1>1, BoundsAssumption
  <2>3. sent \in [Request -> SUBSET (1 .. MaxPasses)] /\ reading \in [Request -> Readings \cup {None}]
    BY DEF Init
  <2> QED
    BY <1>1, <2>1, <2>2, <2>3 DEF Typed, Phases, InWindow
<1>3. Records
  BY <1>1, Requests DEF Records, Sent, Named, Acts, HasReading
<1>4. Waiting = {}
  BY <1>1 DEF Waiting, InTheWindow
<1>5. ToDraw /\ InFlight /\ Doing /\ Progress /\ SealedIsComplete
  BY <1>1, <1>4 DEF ToDraw, InFlight, Doing, Progress, SealedIsComplete, InWindow, Fresh
<1> QED
  BY <1>2, <1>3, <1>5 DEF Inv

LEMMA NextInv == Inv /\ [Next]_vars => Inv'
BY TypedStays, SentStays, NamedStays, ActsStay, ToDrawStays, InFlightStays, DoingStays,
   ProgressStays, SealedStays DEF Inv, Records

(* Whatever pass died or was stopped where, each reading on disk names the  *)
(* one reply its request ever had, and what waits in the window was not     *)
(* answered by an earlier pass: the invariant of page_run.py's phases.      *)
THEOREM RecordsBind == Spec => []Inv
<1>1. Inv /\ [Next]_vars => Inv'
  BY NextInv
<1> QED
  BY InitInv, <1>1, PTL DEF Spec

(* When the Perlector seals, every page and every planned re-ask is         *)
(* accounted with all its act records, and no retained reply is without a   *)
(* reading that names it: what unrecorded_replies looks for is empty.       *)
THEOREM SealedAlwaysComplete == Spec => []SealedIsComplete
<1>1. Inv => SealedIsComplete
  BY DEF Inv
<1> QED
  BY RecordsBind, <1>1, PTL

LEMMA Agree == Inv => RecordsAgree
<1> SUFFICES ASSUME Inv PROVE RecordsAgree
  OBVIOUS
<1>1. Typed /\ Sent /\ Named /\ Acts /\ Doing
  BY DEF Inv, Records
<1>2. ASSUME doing # None, doing.step = "acts", doing.req[2] = 1
      PROVE  ~Stray(doing.req[1])
  <2>1. PICK p \in Page : p = doing.req[1]
    BY <1>2, AtHand, Requests
  <2>2. CASE Planned(p)
    <3>1. ASSUME ~HasReading(Reask(p)) PROVE /\ Reask(p) \notin accounted
                                            /\ \A a \in acts : a.page # p
      BY <1>1, <2>2, <3>1 DEF Acts, Settled
    <3> QED
      BY <2>1, <2>2, <3>1 DEF Stray, HasReading
  <2>3. CASE ~Planned(p)
    <3>1. ~HasReading(Reask(p))
      BY <1>1, <2>3 DEF Sent
    <3>2. Reask(p) \notin accounted /\ \A a \in acts : ~(a.page = p /\ a.of = 2)
      BY <1>1, <2>3, <3>1 DEF Acts
    <3> QED
      BY <2>1, <2>3, <3>1, <3>2 DEF Stray, HasReading
  <2> QED
    BY <2>2, <2>3
<1> QED
  BY <1>1, <1>2 DEF RecordsAgree, Typed, Sent, Named, Acts, HasReading

(* What passes killed between two records leave agrees: no act record names *)
(* an accounting its page did not end with, no reading names a reply that   *)
(* is not retained and named, and _refuse_stray_attempts never refuses a    *)
(* record that an earlier pass of the same page left.                       *)
THEOREM RecordsAlwaysAgree == Spec => []RecordsAgree
<1>1. Inv => RecordsAgree
  BY Agree
<1> QED
  BY RecordsBind, <1>1, PTL

LEMMA SendsOnlyUnanswered ==
    ASSUME Inv, [Next]_vars, NEW r \in Request, sent'[r] # sent[r]
    PROVE  NoReply(r)
<1>1. Typed
  BY DEF Inv
<1>2. CASE LookAt \/ DrawFirst \/ DrawQueued
  <2>1. PICK q \in Request : Submits(q)
    BY <1>2, Draws
  <2>2. Sends(q) /\ sent' = [sent EXCEPT ![q] = @ \cup {session}]
    BY <1>1, <1>2, <2>1, Draws, SubmitTyped DEF Submits
  <2>3. r = q /\ ~HasReading(q)
    BY <1>1, <2>2 DEF Typed, Sends, HasReading
  <2> QED
    BY <2>1, <2>3 DEF Submits
<1>3. CASE Quiet \/ StartPass \/ CallStep \/ PublishReading \/ PublishAccounting \/ PublishAct
           \/ \E p \in Page : AskAgain(p)
  <2>1. sent' = sent
    BY <1>3, QuietIs DEF StartPass, CallStep, Retain, NameReply, CallFails, PublishReading,
                         PublishAccounting, PublishAct, AskAgain, disk
  <2> QED
    BY <2>1
<1> QED
  BY <1>2, <1>3 DEF Next, PassStep, Quiet

(* A paid request is never sent again while a reply to it is retained,      *)
(* whether or not a call record names the reply: _left_to_send refuses the  *)
(* phase, and a joined re-ask was never sent.                               *)
THEOREM NeverPaidTwice == Spec => NeverAskedTwice
<1>1. Inv /\ [Next]_vars =>
        [\A r \in Request : sent'[r] # sent[r] => \A x \in replies : x[1] # r]_vars
  BY SendsOnlyUnanswered DEF NoReply
<1> QED
  BY RecordsBind, <1>1, PTL DEF Spec, NeverAskedTwice
=============================================================================
