--------------------------- MODULE InOrderWindow ---------------------------
(***************************************************************************)
(* A bounded window of calls in flight, whose jobs are finished in the     *)
(* order they were drawn (common/in_order_window.py). The Attestatores,    *)
(* the Perlector and the Coniector make every live call through it.        *)
(*                                                                         *)
(* The main thread draws jobs and finishes them; each call runs on a       *)
(* thread of its own. A drawn job joins the window's right end and leaves  *)
(* at its left end, so the window is the jobs head .. drawn: `popleft' is  *)
(* head + 1. (Width 1 has no window: it calls and finishes inline.)        *)
(***************************************************************************)
EXTENDS Naturals, FiniteSets

CONSTANTS
    N,            \* jobs the source gives, in order 1 .. N
    Silent,       \* those without a call: they only publish
    Width,        \* calls in flight at once
    HeldPerSlot,  \* HELD_PER_SLOT
    Slow,         \* calls whose answer may never come
    Failures      \* whether a draw, a call or a finish may raise

Job == 1 .. N

ASSUME SizesAssumption == N \in Nat /\ Width \in Nat \ {0} /\ HeldPerSlot \in Nat \ {0}
ASSUME SilentAssumption == Silent \subseteq Job
ASSUME FailuresAssumption == Failures \in BOOLEAN

VARIABLES
    at,        \* where the main thread is
    drawing,   \* the source is not exhausted
    head,      \* the leftmost job of the window
    drawn,     \* jobs drawn so far: the rightmost
    taken,     \* the job popped and being finished, 0 when none is
    answered,  \* jobs whose call returned or raised
    raised,    \* jobs whose call or finish raised
    pending,   \* the calls found in flight before the loop's second half
    finished,  \* jobs whose finish returned
    arrived    \* history: replies in the window when the interrupt came

vars == <<at, drawing, head, drawn, taken, answered, raised, pending, finished, arrived>>

(* "finish" and "draw" are the two halves of the loop; "drain" follows the *)
(* first error, "sweep" an interrupt. The last three are how it ends.      *)
Place == {"finish", "draw", "drain", "sweep", "returned", "raised", "interrupted"}

Ended == at \in {"returned", "raised", "interrupted"}

(* The shape of the state: jobs are drawn in order and popped in order.    *)
TypeOK ==
    /\ at \in Place
    /\ drawing \in BOOLEAN
    /\ drawn \in 0 .. N
    /\ head \in 1 .. drawn + 1
    /\ taken \in 0 .. drawn
    /\ answered \subseteq 1 .. drawn
    /\ raised \subseteq 1 .. drawn
    /\ pending \subseteq 1 .. drawn
    /\ finished \subseteq 1 .. drawn
    /\ arrived \subseteq 1 .. drawn

-----------------------------------------------------------------------------
Held == HeldPerSlot * Width

Window == head .. drawn

(* Mutant: a job without a call is waited for.                             *)
DoneIfAnswered(j) == j \in answered

(* Jobs that need no waiting: answered, or without a call.                 *)
Done(j) == j \in Silent \cup answered

(* out(): the calls of the window still in flight.                         *)
Out == {j \in Window : ~Done(j)}

(* Mutant: the bound counts the calls in flight too.                       *)
RoomOfAll == Cardinality(pending) < Width /\ Cardinality(Window) < Held

(* Mutant: a full window is noticed one call late.                         *)
RoomLate == /\ Cardinality(pending) <= Width
            /\ Cardinality(Window) < Held + Cardinality(pending)

(* Another job may be drawn, as far as the last look tells.                *)
Room == /\ Cardinality(pending) < Width
        /\ Cardinality(Window) < Held + Cardinality(pending)

Init ==
    /\ at = "finish" /\ drawing = TRUE
    /\ head = 1 /\ drawn = 0 /\ taken = 0
    /\ answered = {} /\ raised = {} /\ pending = {} /\ finished = {} /\ arrived = {}

-----------------------------------------------------------------------------
(* A call returns, or raises.                                              *)
Answer(j) ==
    /\ j \in (1 .. drawn) \ (Silent \cup answered)
    /\ answered' = answered \cup {j}
    /\ raised' \in {raised} \cup (IF Failures THEN {raised \cup {j}} ELSE {})
    /\ UNCHANGED <<at, drawing, head, drawn, taken, pending, finished, arrived>>

(* Mutant: whichever reply arrived is finished first.                      *)
TakeAny ==
    /\ at = "finish" /\ taken = 0
    /\ \E j \in Window : Done(j) /\ taken' = j
    /\ head' = head + 1
    /\ UNCHANGED <<at, drawing, drawn, answered, raised, pending, finished, arrived>>

(* The loop's first half: while the leftmost job is done, it is popped.    *)
Take ==
    /\ at = "finish" /\ taken = 0
    /\ head <= drawn /\ Done(head)
    /\ taken' = head
    /\ head' = head + 1
    /\ UNCHANGED <<at, drawing, drawn, answered, raised, pending, finished, arrived>>

(* The popped job's finish returns.                                        *)
Finish ==
    /\ taken # 0 /\ Done(taken) /\ taken \notin raised
    /\ finished' = finished \cup {taken}
    /\ taken' = 0
    /\ UNCHANGED <<at, drawing, head, drawn, answered, raised, pending, arrived>>

(* Mutant: an error ends the window at once.                               *)
ErrorEnds == at' = "raised"

(* The first error leads to the drain; a later one is only noted.          *)
Error == at' = "drain"

(* Its call raised, or its finish does.                                    *)
FinishRaises ==
    /\ taken # 0 /\ Done(taken)
    /\ taken \in raised \/ Failures
    /\ raised' = raised \cup {taken}
    /\ taken' = 0
    /\ Error
    /\ UNCHANGED <<drawing, head, drawn, answered, pending, finished, arrived>>

(* Nothing is left to finish now: the calls in flight are looked up for    *)
(* the loop's second half, or the loop ends.                               *)
NoneDone ==
    /\ at = "finish" /\ taken = 0
    /\ ~(head <= drawn /\ Done(head))
    /\ at' = IF drawing \/ head <= drawn THEN "draw" ELSE "returned"
    /\ pending' = Out
    /\ UNCHANGED <<drawing, head, drawn, taken, answered, raised, finished, arrived>>

(* next(source): a job, the end of the source, or an error.                *)
Draw ==
    /\ at = "draw" /\ drawing /\ Room
    /\ \/ /\ drawn < N
          /\ drawn' = drawn + 1
          /\ at' = "finish"
          /\ UNCHANGED drawing
       \/ /\ drawn = N
          /\ drawing' = FALSE
          /\ at' = "finish"
          /\ UNCHANGED drawn
       \/ /\ Failures
          /\ Error
          /\ UNCHANGED <<drawing, drawn>>
    /\ UNCHANGED <<head, taken, answered, raised, pending, finished, arrived>>

(* wait(pending, FIRST_COMPLETED), unless nothing is in flight.            *)
Wait ==
    /\ at = "draw" /\ ~(drawing /\ Room)
    /\ pending # {} => pending \cap answered # {}
    /\ at' = "finish"
    /\ UNCHANGED <<drawing, head, drawn, taken, answered, raised, pending, finished, arrived>>

(* After an error every job drawn is still finished, each waited for.      *)
DrainNext ==
    /\ at = "drain" /\ taken = 0
    /\ IF head <= drawn THEN taken' = head /\ head' = head + 1 /\ UNCHANGED at
       ELSE at' = "raised" /\ UNCHANGED <<taken, head>>
    /\ UNCHANGED <<drawing, drawn, answered, raised, pending, finished, arrived>>

(* An interrupt, anywhere on the main thread. What was popped is not in    *)
(* the window any more.                                                    *)
Interrupt ==
    /\ ~Ended /\ at # "sweep"
    /\ at' = "sweep"
    /\ arrived' = {j \in Window : Done(j)}
    /\ taken' = 0
    /\ UNCHANGED <<drawing, head, drawn, answered, raised, pending, finished>>

(* It finishes the jobs of the window whose reply has arrived; a finish    *)
(* that raises is noted and the sweep goes on.                             *)
Sweep ==
    /\ at = "sweep"
    /\ IF head > drawn THEN at' = "interrupted" /\ UNCHANGED <<head, raised, finished>>
       ELSE /\ head' = head + 1
            /\ IF ~Done(head) \/ head \in raised THEN UNCHANGED <<raised, finished>>
               ELSE \/ finished' = finished \cup {head} /\ UNCHANGED raised
                    \/ Failures /\ raised' = raised \cup {head} /\ UNCHANGED finished
            /\ UNCHANGED at
    /\ UNCHANGED <<drawing, drawn, taken, answered, pending, arrived>>

MainStep ==
    \/ Take \/ Finish \/ FinishRaises \/ NoneDone \/ Draw \/ Wait \/ DrainNext \/ Sweep

Over == Ended /\ UNCHANGED vars

Next == MainStep \/ Interrupt \/ (\E j \in Job : Answer(j)) \/ Over

Spec == Init /\ [][Next]_vars

(* The main thread runs on, and every call that is not slow returns (the   *)
(* serving client gives each a timeout).                                   *)
FairSpec ==
    /\ Spec
    /\ WF_vars(MainStep)
    /\ \A j \in Job \ Slow : WF_vars(Answer(j))

-----------------------------------------------------------------------------
(* Never more calls in flight than the window is wide, and never more      *)
(* replies in memory than it holds: the jobs of the window are fewer than  *)
(* Held + Width.                                                           *)
Bounded ==
    /\ Cardinality(Out) <= Width
    /\ Cardinality(Window) < Held + Width

(* Without an interrupt, jobs are finished strictly in the order drawn:    *)
(* when one is finished, every job before it was finished or raised.       *)
FinishedInOrder ==
    [][\A j \in finished' \ finished :
          at # "sweep" => \A i \in 1 .. j - 1 : i \in finished \cup raised]_vars

(* Every job drawn is finished, or raised, before the window returns or    *)
(* raises, and every reply an interrupt finds in the window before that    *)
(* leaves: no reply is left without its record.                            *)
NoneLeft ==
    /\ at \in {"returned", "raised"} => finished \cup raised = 1 .. drawn
    /\ at = "interrupted" => arrived \subseteq finished \cup raised

(* A slow call never stops later calls being sent, as long as there is     *)
(* room to hold their replies.                                             *)
SlowCallHoldsNobody == <>(drawn >= N \/ drawn > Held \/ at \in {"sweep", "drain"} \/ Ended)

(* The window ends, unless a slow call is out for ever.                    *)
Ends == []<>(Slow \cap (1 .. drawn) \subseteq answered) => <>Ended

-----------------------------------------------------------------------------
(* The inductive strengthening of the safety properties.                   *)

(* The popped job is the last one left of the window, and every job left   *)
(* of it was finished or raised. An interrupt forgets the popped job.      *)
Settled ==
    /\ taken \in {0, head - 1}
    /\ at \in {"sweep", "interrupted"} => taken = 0
    /\ at \notin {"sweep", "interrupted"} =>
         \A i \in 1 .. head - 1 : i = taken \/ i \in finished \cup raised

(* Nothing joins the window and no call starts between the look at the     *)
(* calls in flight and the draw.                                           *)
LookedUp == at = "draw" => Out \subseteq pending /\ pending \subseteq Window

Emptied == at \in {"returned", "raised"} => head = drawn + 1 /\ taken = 0

WindowInv == TypeOK /\ Settled /\ LookedUp /\ Emptied /\ Bounded

(* The sweep has left behind it none of the replies it found.              *)
Swept ==
    at \in {"sweep", "interrupted"} =>
        /\ \A j \in arrived : Done(j) /\ (j < head => j \in finished \cup raised)
        /\ at = "interrupted" => head > drawn
=============================================================================
