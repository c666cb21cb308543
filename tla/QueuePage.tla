------------------------------ MODULE QueuePage ------------------------------
(***************************************************************************)
(* The queue page of the manager (manager.js): a timer, the browser's      *)
(* events and the user's buttons all ask for a refresh, of which one runs  *)
(* at a time; an answer that comes after the user went on is not shown.    *)
(* What is shown is the page's own state of section, offset and next       *)
(* offset, and a snapshot made by the server between question and answer.  *)
(***************************************************************************)
EXTENDS Integers

CONSTANTS
  Sections,
  Size,      \* jobs of a page
  MaxJobs,   \* bound on the jobs of a section
  MaxMoves   \* bound on the user's moves

\* Size is positive, and the bounds MaxJobs and MaxMoves are in Nat.

VARIABLES
  jobs,        \* how many jobs each section has
  section, offset,
  nextOffset,  \* {} or the offset behind the page
  generation,
  asking,      \* the refresh that runs, {} or one record
  shown,       \* what is on display, {} or one record
  failed,      \* the last refresh failed, and the page says so
  hidden       \* the tab is in the background

page == <<section, offset, nextOffset, generation>>
vars == <<jobs, page, asking, shown, failed, hidden>>

Offsets == {n * Size : n \in 0 .. MaxJobs}
Answer == [section: Sections, offset: Offsets, label: Offsets, generation: 0 .. MaxMoves,
           next: {{}} \cup {{o} : o \in Offsets}, answered: BOOLEAN]

TypeOK ==
  /\ jobs \in [Sections -> 0 .. MaxJobs]
  /\ section \in Sections /\ offset \in Offsets
  /\ nextOffset \in {{}} \cup {{o} : o \in Offsets}
  /\ generation \in 0 .. MaxMoves
  /\ asking \in {{}} \cup {{a} : a \in Answer} /\ shown \in {{}} \cup {{a} : a \in Answer}
  /\ failed \in BOOLEAN /\ hidden \in BOOLEAN

Init ==
  /\ jobs \in [Sections -> 0 .. MaxJobs]
  /\ section \in Sections /\ offset = 0 /\ nextOffset = {} /\ generation = 0
  /\ asking = {} /\ shown = {} /\ failed = FALSE /\ hidden = FALSE

---------------------------------------------------------------------------
(* polling and refresh *)

\* run: nothing while the tab is hidden or a refresh runs.
Run(s, o, g) ==
  asking' = IF hidden \/ asking # {} THEN asking
            ELSE {[section |-> s, offset |-> o, label |-> o, generation |-> g,
                   next |-> {}, answered |-> FALSE]}

\* setInterval, visibilitychange to visible, and online.
Timer ==
  /\ ~hidden /\ asking = {}
  /\ Run(section, offset, generation)
  /\ UNCHANGED <<jobs, page, shown, failed, hidden>>

\* queue_snapshot
Serve ==
  \E a \in asking :
    /\ ~a.answered
    /\ asking' = {[a EXCEPT !.answered = TRUE,
                     !.next = IF a.offset + Size < jobs[a.section] THEN {a.offset + Size} ELSE {}]}
    /\ UNCHANGED <<jobs, page, shown, failed, hidden>>

\* Mutant of Current: whatever comes is shown.
CurrentAlways(a) == TRUE

\* Mutant of Current: nothing but a first answer is shown.
CurrentFirst(a) == a.generation = 0

Current(a) == a.generation = generation

\* The answer arrives.  The page number is made from the offset of now.
Receive ==
  \E a \in asking :
    /\ a.answered /\ asking' = {}
    /\ IF Current(a)
       THEN nextOffset' = a.next /\ shown' = {[a EXCEPT !.label = offset]}
       ELSE UNCHANGED <<nextOffset, shown>>
    /\ failed' = FALSE
    /\ UNCHANGED <<jobs, section, offset, generation, hidden>>

\* An error, or no answer in 15 s: what was received stays on display.
Fail ==
  /\ asking # {} /\ asking' = {} /\ failed' = TRUE
  /\ UNCHANGED <<jobs, page, shown, hidden>>

---------------------------------------------------------------------------
(* The user *)

Move(s, o) ==
  /\ generation < MaxMoves
  /\ section' = s /\ offset' = o /\ generation' = generation + 1
  /\ Run(s, o, generation + 1)
  /\ UNCHANGED <<jobs, nextOffset, shown, failed, hidden>>

\* Mutant of Previous: the offset may have been reset since the button was drawn.
PreviousUnclamped ==
  /\ \E a \in shown : a.label # 0
  /\ Move(section, offset - Size)

\* The buttons are enabled by what is on display.
Previous ==
  /\ \E a \in shown : a.label # 0
  /\ Move(section, IF offset > Size THEN offset - Size ELSE 0)

\* Mutant of Forward: a page on from where the offset is by now.
ForwardAgain ==
  /\ \E a \in shown : a.next # {}
  /\ offset + Size \in Offsets /\ Move(section, offset + Size)

Forward ==
  /\ \E a \in shown : a.next # {}
  /\ \E o \in nextOffset : Move(section, o)

Choose(s) == Move(s, 0)

Hide ==
  /\ hidden' = ~hidden
  /\ UNCHANGED <<jobs, page, asking, shown, failed>>

\* Workers and other users change the queue.
Work(s) ==
  /\ \E n \in 0 .. MaxJobs : jobs' = [jobs EXCEPT ![s] = n]
  /\ jobs' # jobs
  /\ UNCHANGED <<page, asking, shown, failed, hidden>>

User == Previous \/ Forward \/ (\E s \in Sections : Choose(s))

Next ==
  \/ Timer \/ Serve \/ Receive \/ Fail
  \/ User \/ Hide \/ \E s \in Sections : Work(s)

Spec == Init /\ [][Next]_vars

\* The timer ticks while the tab is visible, which it is again and again, and
\* every request ends; the server answers some of those that are asked again.
Fairness ==
  /\ SF_vars(Timer) /\ WF_vars(Hide /\ hidden)
  /\ SF_vars(Serve) /\ SF_vars(Receive)

FairSpec == Spec /\ Fairness

---------------------------------------------------------------------------
(* Properties *)

\* The page number, the section and the jobs on display belong together, however
\* late an answer is and whatever the user did since it was asked for.
ShownIsOnePage == \A a \in shown : a.label = a.offset

\* "Next" skips no job of the section on display: pressed again before the answer
\* is there, it leads to the same page.
NextIsNext ==
  [][Forward => \A a \in shown : a.section = section => offset' = a.offset + Size]_vars

\* The chosen section and page are shown at last, although refreshes that a click
\* asks for are dropped while one runs.
ShownCatchesUp ==
  \A g \in 0 .. MaxMoves :
    generation = g ~> generation # g \/ \E a \in shown : a.generation = g /\ a.section = section
=============================================================================
