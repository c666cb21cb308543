------------------------------ MODULE Transport ------------------------------
(***************************************************************************)
(* The Git commands that one repository's fetches and checks send to its   *)
(* remote, which may answer over SSH, over HTTPS, over both or over        *)
(* neither (remote_transport.py, git_mirror.py, git_observation.py).       *)
(*                                                                         *)
(* A first request (a clone, the discovery of the remote's HEAD, a check)  *)
(* is tried over SSH and then over HTTPS; only a Git command that failed   *)
(* moves on to the next transport.  The transport that answered serves the *)
(* fetch and its verification.  A fetch ends with an optional probe of the *)
(* remote, and a check is that probe.  An operation may be stopped at any  *)
(* point (deadline, lost claim, interruption, disk error), and transports  *)
(* come and go between any two requests.                                   *)
(*                                                                         *)
(* Refs and HEAD are abstracted to the transport that they came over:      *)
(* modules Archive and Heads say what they hold.  Messages are lengths.    *)
(***************************************************************************)
EXTENDS Naturals, SequencesExt

CONSTANTS
  Diagnostics,   \* lengths of what a failing Git command may say
  Summary,       \* length of the summary of a failure
  Limit,         \* the longest error that is stored
  None,          \* no transport
  MaxChanges,    \* bound: times that a transport begins or ceases to answer
  MaxStops       \* bound: operations that are stopped

Transports == {"ssh", "https"}
Urls == {"ssh", "https", "credentials"}   \* the last: HTTPS with credentials in it

\* Diagnostics \subseteq Nat, Summary \in Nat \ {0}, Limit, MaxChanges, MaxStops \in Nat, and None is
\* no transport.

VARIABLES
  url,       \* the kind of URL that the repository is bound to
  up,        \* the transports that answer
  mirror,    \* the mirror, and the transports its refs and HEAD came over
  op,        \* the running operation
  outcome,   \* how the last operation ended, and its error
  changes, stops

vars == <<url, up, mirror, op, outcome, changes, stops>>

Origins == Transports \cup {None}
NoMirror == [state |-> "none", refs |-> None, head |-> None, marker |-> FALSE]
Idle == [kind |-> "none", step |-> "idle", failures |-> <<>>, via |-> None]

\* Steps that try one transport after the other.
Trying == {"clone", "cloning", "discover", "probe"}
\* Steps that ask the transport that answered.
Following == {"fetching", "head", "verify"}

----------------------------------------------------------------------------
(* Candidates and messages *)

\* transport_urls: credentials never leave the URL they came in.
Candidates(u) == IF u = "credentials" THEN <<"https">> ELSE <<"ssh", "https">>

\* The transport that the operation asks, or is about to ask.
Asked(o) ==
  CASE o.step \in Trying -> Candidates(url)[Len(o.failures) + 1]
    [] o.step \in Following -> o.via
    [] OTHER -> None

\* failure_message: the summary and the end of what Git said, within a limit.
Lesser(m, n) == IF m <= n THEN m ELSE n
FailureMessage(summary, said, limit) ==
  LET s == Lesser(summary, limit)
      room == limit - s - 1
  IN  IF said = 0 \/ limit <= s + 1 THEN [length |-> s, says |-> 0]
      ELSE [length |-> s + 1 + Lesser(said, room), says |-> Lesser(said, room)]

\* Mutant of Combined: the newline between two messages is forgotten.
CombinedWithoutNewlines(failures) ==
  LET limit == Limit \div Len(failures)
      prefix(c) == IF c = "ssh" THEN 5 ELSE 7
      part(i) == FailureMessage(prefix(failures[i].over) + Summary, failures[i].said, limit)
  IN  IF Len(failures) = 1 THEN <<FailureMessage(Summary, failures[1].said, Limit)>>
      ELSE [i \in 1 .. Len(failures) |-> part(i)]

\* The messages of the failures, each after the name of its transport and on lines of its own.
Combined(failures) ==
  LET limit == (Limit \div Len(failures)) - 1
      prefix(c) == IF c = "ssh" THEN 5 ELSE 7   \* "SSH: ", "HTTPS: "
      part(i) == FailureMessage(prefix(failures[i].over) + Summary, failures[i].said, limit)
  IN  IF Len(failures) = 1 THEN <<FailureMessage(Summary, failures[1].said, Limit)>>
      ELSE [i \in 1 .. Len(failures) |-> part(i)]

Total(messages) ==
  FoldLeft(LAMBDA n, m : n + m.length, 0, messages) + Len(messages) - 1

----------------------------------------------------------------------------
(* Ends of an operation *)

Ends(how, failures) ==
  /\ op' = Idle
  /\ outcome' = [kind |-> op.kind, how |-> how, failures |-> failures,
                 error |-> IF how = "transport" THEN Combined(failures) ELSE <<>>]

\* Mutant of Raise: the last failure is the one that is raised.
RaiseLast(failures) == Ends("transport", <<Last(failures)>>)

\* TransportError, which only the probe of a fetch swallows.
Raise(failures) ==
  IF op.step = "probe" /\ op.kind = "fetch" THEN Ends("done", <<>>)
  ELSE Ends("transport", failures)

Goto(step) == op' = [op EXCEPT !.step = step]

----------------------------------------------------------------------------
(* The operations *)

Init ==
  /\ url \in Urls
  /\ up \in SUBSET Transports
  /\ mirror \in {NoMirror} \cup {[state |-> "whole", refs |-> t, head |-> t, marker |-> TRUE]
                                 : t \in Range(Candidates(url))}
  /\ op = Idle
  /\ outcome = [kind |-> "none", how |-> "none", failures |-> <<>>, error |-> <<>>]
  /\ changes = 0 /\ stops = 0

\* What an interrupted clone left is refused until it is cleaned.
BeginFetch ==
  /\ op.step = "idle"
  /\ IF mirror.state # "none" /\ ~mirror.marker
     THEN /\ outcome' = [kind |-> "fetch", how |-> "structural", failures |-> <<>>, error |-> <<>>]
          /\ UNCHANGED op
     ELSE /\ op' = [Idle EXCEPT !.kind = "fetch",
                                !.step = IF mirror.marker THEN "discover" ELSE "clone"]
          /\ UNCHANGED outcome
  /\ UNCHANGED <<url, up, mirror, changes, stops>>

BeginCheck ==
  /\ op.step = "idle" /\ mirror.marker
  /\ op' = [Idle EXCEPT !.kind = "check", !.step = "probe"]
  /\ UNCHANGED <<url, up, mirror, outcome, changes, stops>>

\* git clone writes into the directory at once.
CloneStarts ==
  /\ op.step = "clone"
  /\ mirror' = [mirror EXCEPT !.state = "partial"]
  /\ Goto("cloning")
  /\ UNCHANGED <<url, up, outcome, changes, stops>>

\* Mutant of Answered: the answer is kept, the URL it came from is not.
AnsweredByWhom(step) == op' = [op EXCEPT !.step = step]

\* A request is answered, over the transport that serves the rest.
Answered(step) == op' = [op EXCEPT !.step = step, !.via = Asked(op)]

Cloned ==
  /\ op.step = "cloning" /\ Asked(op) \in up
  /\ mirror' = [mirror EXCEPT !.state = "whole", !.refs = Asked(op)]
  /\ Answered("head")
  /\ UNCHANGED <<url, up, outcome, changes, stops>>

Discovered ==
  /\ op.step = "discover" /\ Asked(op) \in up
  /\ Answered("fetching")
  /\ UNCHANGED <<url, up, mirror, outcome, changes, stops>>

Probed ==
  /\ op.step = "probe" /\ Asked(op) \in up
  /\ Ends("done", <<>>)
  /\ UNCHANGED <<url, up, mirror, changes, stops>>

\* Mutant of Cleared: another transport may do better with what is there.
NotCleared == UNCHANGED mirror

\* Mutant of Cleared: the marker is not looked at.
AlwaysCleared == mirror' = NoMirror

\* _clear_incomplete_mirror
Cleared == mirror' = IF mirror.marker THEN mirror ELSE NoMirror

\* Mutant of AttemptFails: the first transport is the only one.
AttemptGivesUp(said) ==
  /\ op.step \in {"cloning", "discover", "probe"} /\ Asked(op) \notin up
  /\ IF op.step = "cloning" THEN Cleared ELSE UNCHANGED mirror
  /\ Raise(<<[over |-> Asked(op), said |-> said]>>)
  /\ UNCHANGED <<url, up, changes, stops>>

\* with_transport_fallback: Git fails, and the next transport is tried, if there is one.
AttemptFails(said) ==
  /\ op.step \in {"cloning", "discover", "probe"} /\ Asked(op) \notin up
  /\ IF op.step = "cloning" THEN Cleared ELSE UNCHANGED mirror
  /\ LET failures == Append(op.failures, [over |-> Asked(op), said |-> said])
     IN  IF Len(failures) < Len(Candidates(url))
         THEN /\ op' = [op EXCEPT !.failures = failures,
                                  !.step = IF @ = "cloning" THEN "clone" ELSE @]
              /\ UNCHANGED outcome
         ELSE Raise(failures)
  /\ UNCHANGED <<url, up, changes, stops>>

Fetched ==
  /\ op.step = "fetching" /\ op.via \in up
  /\ mirror' = [mirror EXCEPT !.refs = op.via]
  /\ Goto("verify")
  /\ UNCHANGED <<url, up, outcome, changes, stops>>

\* A clone reads the advertised HEAD and publishes it before it looks again.
HeadRead ==
  /\ op.step = "head" /\ op.via \in up
  /\ mirror' = [mirror EXCEPT !.head = op.via]
  /\ Goto("verify")
  /\ UNCHANGED <<url, up, outcome, changes, stops>>

\* Mutant of Verified: the HEAD comes from the URL that the caller gave.
VerifiedElsewhere ==
  /\ op.step = "verify" /\ op.via \in up
  /\ mirror' = [mirror EXCEPT !.head = Candidates(url)[1], !.marker = TRUE]
  /\ op' = [op EXCEPT !.step = "probe", !.failures = <<>>]
  /\ UNCHANGED <<url, up, outcome, changes, stops>>

\* The HEAD is still the same: a fetch publishes it, a clone is complete.
Verified ==
  /\ op.step = "verify" /\ op.via \in up
  /\ mirror' = [mirror EXCEPT !.head = op.via, !.marker = TRUE]
  /\ op' = [op EXCEPT !.step = "probe", !.failures = <<>>]
  /\ UNCHANGED <<url, up, outcome, changes, stops>>

\* The transport that answered first falls silent: no other one is tried, and an
\* incomplete clone is cleared.
FollowUpFails(said) ==
  /\ op.step \in Following /\ op.via \notin up
  /\ Cleared
  /\ Raise(<<[over |-> op.via, said |-> said]>>)
  /\ UNCHANGED <<url, up, changes, stops>>

\* Mutant of Stop: a deadline counts as a failure of the transport.
StopMovesOn ==
  /\ op.step # "idle" /\ stops < MaxStops
  /\ stops' = stops + 1
  /\ IF op.step \in Trying /\ Len(op.failures) + 1 < Len(Candidates(url))
     THEN /\ op' = [op EXCEPT !.failures = Append(@, [over |-> Asked(op), said |-> 0])]
          /\ UNCHANGED <<mirror, outcome>>
     ELSE /\ UNCHANGED mirror
          /\ Ends("stopped", <<>>)
  /\ UNCHANGED <<url, up, changes>>

\* Deadline, lost claim, interruption or disk error: nothing else is asked.  A clone that is
\* stopped while Git runs stays as it is, one that Git had finished is cleared.  The deadline
\* of a fetch is a transport error, which the probe at its end swallows.
Stop ==
  /\ op.step # "idle" /\ stops < MaxStops
  /\ stops' = stops + 1
  /\ IF op.step \in {"head", "verify"} THEN Cleared ELSE UNCHANGED mirror
  /\ \/ Ends("stopped", <<>>)
     \/ op.kind = "fetch" /\ op.step = "probe" /\ Ends("done", <<>>)
  /\ UNCHANGED <<url, up, changes>>

\* cache22 clean discards what an interrupted clone left.
Clean ==
  /\ op.step = "idle" /\ mirror.state # "none" /\ ~mirror.marker
  /\ mirror' = NoMirror
  /\ UNCHANGED <<url, up, op, outcome, changes, stops>>

\* A transport begins or ceases to answer.
Change ==
  /\ changes < MaxChanges
  /\ \E t \in Transports : up' = (up \ {t}) \cup ({t} \ up)
  /\ changes' = changes + 1
  /\ UNCHANGED <<url, mirror, op, outcome, stops>>

Step ==
  \/ CloneStarts \/ Cloned \/ Discovered \/ Probed \/ Fetched \/ HeadRead \/ Verified
  \/ \E said \in Diagnostics : AttemptFails(said) \/ FollowUpFails(said)

Next == BeginFetch \/ BeginCheck \/ Step \/ Stop \/ Clean \/ Change

\* A request is answered or fails in the end (an operation has a deadline), and a repository
\* that is due for a fetch is fetched, however many checks are made in between.
Fairness == WF_vars(Step) /\ SF_vars(BeginFetch)

Spec == Init /\ [][Next]_vars /\ Fairness

----------------------------------------------------------------------------
(* Properties *)

Torn == mirror.state # "none" /\ ~mirror.marker

\* The variables have their types; a transport is remembered exactly after it has answered.
TypeOK ==
  /\ url \in Urls /\ up \subseteq Transports
  /\ mirror \in [state: {"none", "partial", "whole"}, refs: Origins, head: Origins,
                 marker: BOOLEAN]
  /\ op.kind \in {"none", "fetch", "check"} /\ op.step \in {"idle"} \cup Trying \cup Following
  /\ op.via \in Origins
  /\ op.step \in Following => op.via \in Range(Candidates(url))
  /\ op.step \in Trying => Len(op.failures) < Len(Candidates(url))
  /\ outcome.how \in {"none", "done", "transport", "stopped", "structural"}

\* A mirror never passes as fetched with refs that one transport served and a HEAD that another
\* one advertised, whichever of them fell silent or came back in between (git_mirror.py:95).
OneSource ==
  /\ outcome.kind = "fetch" /\ outcome.how = "done" /\ op.step \notin Following
  => mirror.marker /\ mirror.refs = mirror.head /\ mirror.refs \in Range(Candidates(url))

\* git clone refuses a directory with something in it, so every attempt starts without the
\* remains of the one before, and a complete mirror is never the target of one.
StartsEmpty == [][op.step = "clone" /\ op'.step = "cloning" => mirror = NoMirror]_vars

\* A transport error tells the failure of every transport that was tried, the end of each
\* diagnostic included, in an error that is stored without being cut off.
ErrorTellsAll ==
  outcome.how = "transport" =>
    /\ Total(outcome.error) <= Limit
    /\ Len(outcome.error) = Len(outcome.failures)
    /\ \A i \in DOMAIN outcome.failures :
         outcome.failures[i].said > 0 => outcome.error[i].says > 0

\* An operation fails for want of a transport only after it asked every one it may use, or when
\* the one that answered fell silent; nothing else is taken for a failed transport, and an
\* operation that is stopped asks no other transport.
FailsForCause ==
  [][/\ outcome' # outcome /\ outcome'.how = "transport" =>
          \/ [i \in DOMAIN outcome'.failures |-> outcome'.failures[i].over] = Candidates(url)
          \/ op.step \in Following /\ op.via \notin up
     /\ stops' # stops => op' = Idle]_vars

\* A complete mirror is kept by every operation, whatever fails, cleanup after a failed clone
\* included.
MirrorKept == [][mirror.marker => mirror'.marker /\ mirror'.state = "whole"]_vars

\* One transport that answers is enough: a repository is fetched again and again, unless an
\* interrupted clone is in the way, which only the user may remove.
EitherSuffices ==
  \A t \in Transports :
    (t \in Range(Candidates(url)) /\ <>[](t \in up)) =>
       []<>((outcome.kind = "fetch" /\ outcome.how = "done") \/ Torn)

\* docs/use.md:29 says that a fetch uses the transport that answered its first remote request for
\* the rest of that operation.
KeepsToOneTransport == op.kind = "fetch" /\ op.via # None => Asked(op) = op.via
==============================================================================
