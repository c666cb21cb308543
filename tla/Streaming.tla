------------------------------ MODULE Streaming ------------------------------
(***************************************************************************)
(* How the output of a running Git command becomes lines: a Git child      *)
(* that writes into a pipe of bounded size, and the reader that takes what *)
(* is there, frames lines, redacts them and keeps a tail of them for the   *)
(* error message (operation._run_streaming, diagnostics.GitOutputDecoder). *)
(*                                                                         *)
(* A line ends at CR or LF.  Reads cut the stream anywhere; a line that is *)
(* too long is left out as a whole.  A secret ("s") is written only inside *)
(* a URL, right after its beginning ("u"), and is recognised only there:   *)
(* that stands for the pattern that redacts credentials, which a cut       *)
(* between the two would defeat.  Git may be stuck until the deadline.     *)
(* Not modelled: standard output, which has a pipe of its own and is kept  *)
(* as it is, and the counters that are read out of a line.                 *)
(***************************************************************************)
EXTENDS Naturals, FiniteSets, SequencesExt

CONSTANTS
  LineLimit,   \* longest line that is kept
  TailLimit,   \* longest tail that is kept
  Chunk,       \* bytes of one read
  PipeSize,    \* bytes that Git may be ahead of the reader
  MaxBytes     \* bound: bytes that Git writes

\* All of them are in Nat \ {0}.

VARIABLES
  written,   \* everything Git has written
  git,       \* Git: running, stuck, exited, killed
  late,      \* has the deadline passed?
  taken,     \* bytes that were read
  decoder,   \* the decoder: the line so far, and whether it is too long
  lines,     \* lines it has delivered
  tail,      \* the text that is kept for an error message
  reader     \* reading, done, raised

vars == <<written, git, late, taken, decoder, lines, tail, reader>>

Bytes == {"a", "u", "s", "eol"}   \* a letter, a URL up to its secret, the secret, CR or LF
Omitted == <<"omitted">>          \* [Git output line omitted: exceeds 65536 bytes]

----------------------------------------------------------------------------
(* Lines *)

\* sanitize: a secret is replaced where its URL is seen.
Sanitize(line) ==
  [i \in DOMAIN line |-> IF line[i] = "s" /\ i > 1 /\ line[i-1] = "u" THEN "redacted" ELSE line[i]]

\* re.split: what is between line ends, before the first and after the last one included.
Parts(text) ==
  LET starts == {1} \cup {i + 1 : i \in {j \in DOMAIN text : text[j] = "eol"}}
      start[k \in Nat \ {0}] ==
        IF k = 1 THEN 1
        ELSE CHOOSE i \in starts : /\ i > start[k-1]
                                   /\ \A j \in starts : j > start[k-1] => i <= j
      n == Cardinality(starts)
  IN  [k \in 1 .. n |-> SubSeq(text, start[k], IF k = n THEN Len(text) ELSE start[k+1] - 2)]

NoLine == [pending |-> <<>>, oversized |-> FALSE]

\* GitOutputDecoder.finish: the line that ends here, unless it is empty.
Finish(d) ==
  LET line == IF d.oversized THEN Omitted ELSE Sanitize(d.pending)
  IN  IF line = <<>> THEN <<>> ELSE <<line>>

\* Mutant of Take: what follows the part that was too much is kept.
TakeSuffix(d, part) ==
  IF Len(d.pending) + Len(part) > LineLimit THEN [pending |-> <<>>, oversized |-> FALSE]
  ELSE [d EXCEPT !.pending = @ \o part]

\* A part is added to the line, which is given up as soon as it is too long.
Take(d, part) ==
  IF d.oversized THEN d
  ELSE IF Len(d.pending) + Len(part) > LineLimit THEN [pending |-> <<>>, oversized |-> TRUE]
  ELSE [d EXCEPT !.pending = @ \o part]

\* Mutant of Feed: a line that was too long spoils the rest.
FeedNeverReset(d, chunk) ==
  LET parts == Parts(chunk)
      step(a, k) ==
        LET taken_ == Take(a.decoder, parts[k])
        IN  IF k = Len(parts) THEN [a EXCEPT !.decoder = taken_]
            ELSE [decoder |-> [taken_ EXCEPT !.pending = <<>>], lines |-> a.lines \o Finish(taken_)]
  IN  FoldLeft(step, [decoder |-> d, lines |-> <<>>], [k \in DOMAIN parts |-> k])

\* GitOutputDecoder.feed: every part but the last one of a chunk ends a line.
Feed(d, chunk) ==
  LET parts == Parts(chunk)
      step(a, k) ==
        LET taken_ == Take(a.decoder, parts[k])
        IN  IF k = Len(parts) THEN [a EXCEPT !.decoder = taken_]
            ELSE [decoder |-> NoLine, lines |-> a.lines \o Finish(taken_)]
  IN  FoldLeft(step, [decoder |-> d, lines |-> <<>>], [k \in DOMAIN parts |-> k])

\* Mutant of Kept: the beginning of the output is what is kept.
KeptHead(text, ls) ==
  LET all == FoldLeft(LAMBDA t, l : t \o l \o <<"eol">>, text, ls)
  IN  SubSeq(all, 1, IF Len(all) <= TailLimit THEN Len(all) ELSE TailLimit)

\* Mutant of Kept: the tail is cut before the lines are added.
KeptAndMore(text, ls) ==
  FoldLeft(LAMBDA t, l : t \o l \o <<"eol">>,
           SubSeq(text, IF Len(text) <= TailLimit THEN 1 ELSE Len(text) - TailLimit + 1, Len(text)),
           ls)

\* observe: lines go to the end of the tail, which loses its beginning.
Kept(text, ls) ==
  LET all == FoldLeft(LAMBDA t, l : t \o l \o <<"eol">>, text, ls)
  IN  SubSeq(all, IF Len(all) <= TailLimit THEN 1 ELSE Len(all) - TailLimit + 1, Len(all))

----------------------------------------------------------------------------
(* Git and its reader *)

Init ==
  /\ written = <<>> /\ git \in {"running", "stuck"} /\ late = FALSE
  /\ taken = 0 /\ decoder = NoLine /\ lines = <<>> /\ tail = <<>> /\ reader = "reading"

Running == git \in {"running", "stuck"}
Unread == SubSeq(written, taken + 1, Len(written))

\* Git waits while the pipe is full.  It writes secrets only in a URL.
Write ==
  /\ Running /\ Len(written) < MaxBytes /\ Len(Unread) < PipeSize
  /\ \E b \in Bytes :
       /\ b = "s" => written # <<>> /\ Last(written) = "u"
       /\ written' = Append(written, b)
  /\ UNCHANGED <<git, late, taken, decoder, lines, tail, reader>>

\* A Git that is stuck never exits by itself.
Exit ==
  /\ git = "running"
  /\ git' = "exited"
  /\ UNCHANGED <<written, late, taken, decoder, lines, tail, reader>>

\* The deadline passes, or the claim is lost, which the next guard tells.
Deadline ==
  /\ ~late
  /\ late' = TRUE
  /\ UNCHANGED <<written, git, taken, decoder, lines, tail, reader>>

Delivers(new) ==
  /\ lines' = lines \o new
  /\ tail' = Kept(tail, new)

\* Mutant of Read: the reader waits for a whole line.
ReadLine ==
  /\ reader = "reading" /\ Contains(Unread, "eol")
  /\ \E n \in 1 .. (IF Len(Unread) < Chunk THEN Len(Unread) ELSE Chunk) :
       LET fed == Feed(decoder, SubSeq(Unread, 1, n))
       IN  /\ taken' = taken + n
           /\ decoder' = fed.decoder
           /\ Delivers(fed.lines)
  /\ UNCHANGED <<written, git, late, reader>>

\* os.read returns what is there, up to a chunk; the guard comes before it.
Read ==
  /\ reader = "reading" /\ Unread # <<>>
  /\ \E n \in 1 .. (IF Len(Unread) < Chunk THEN Len(Unread) ELSE Chunk) :
       LET fed == Feed(decoder, SubSeq(Unread, 1, n))
       IN  /\ taken' = taken + n
           /\ decoder' = fed.decoder
           /\ Delivers(fed.lines)
  /\ UNCHANGED <<written, git, late, reader>>

\* Mutant of Return: the loop ends with the process, not with its pipe.
ReturnOnExit ==
  /\ reader = "reading" /\ ~Running /\ ~late
  /\ Delivers(Finish(decoder))
  /\ decoder' = NoLine
  /\ reader' = "done"
  /\ UNCHANGED <<written, git, late, taken>>

\* The pipe is at its end and Git has exited: the last line needs no end.  A guard follows.
Return ==
  /\ reader = "reading" /\ ~Running /\ Unread = <<>> /\ ~late
  /\ Delivers(Finish(decoder))
  /\ decoder' = NoLine
  /\ reader' = "done"
  /\ UNCHANGED <<written, git, late, taken>>

\* Mutant of Raise: Git is left behind.
RaiseOnly ==
  /\ reader = "reading" /\ late
  /\ reader' = "raised"
  /\ UNCHANGED <<written, git, late, taken, decoder, lines, tail>>

\* A guard raises: the process group is killed and waited for.
Raise ==
  /\ reader = "reading" /\ late
  /\ git' = IF Running THEN "killed" ELSE git
  /\ reader' = "raised"
  /\ UNCHANGED <<written, late, taken, decoder, lines, tail>>

Next == Write \/ Exit \/ Deadline \/ Read \/ Return \/ Raise

\* The reader goes on.  Git works on and exits unless it is stuck, and only for a Git that is
\* stuck the deadline has to come.
Fairness ==
  /\ WF_vars(Read) /\ WF_vars(Return) /\ WF_vars(Raise)
  /\ WF_vars(git = "running" /\ Write) /\ SF_vars(Exit /\ Len(written) = MaxBytes)
  /\ WF_vars(git = "stuck" /\ Deadline)

Spec == Init /\ [][Next]_vars /\ Fairness

----------------------------------------------------------------------------
(* Properties *)

\* The variables have their types; the decoder never holds more than one line that may be kept,
\* and the tail no more than it may (memory stays bounded, whatever Git writes).
TypeOK ==
  /\ written \in Seq(Bytes) /\ git \in {"running", "stuck", "exited", "killed"}
  /\ taken \in 0 .. Len(written) /\ reader \in {"reading", "done", "raised"}
  /\ Len(decoder.pending) <= LineLimit /\ (decoder.oversized => decoder.pending = <<>>)
  /\ Len(tail) <= TailLimit

\* What a stream of bytes means, said without any chunks: its lines, without the empty ones, and
\* a mark for every one that is too long.
Meaning(text) ==
  LET parts == Parts(text)
      line(p) == IF Len(p) > LineLimit THEN Omitted ELSE Sanitize(p)
  IN  SelectSeq([k \in DOMAIN parts |-> line(parts[k])], LAMBDA l : l # <<>>)

\* However the reads cut the stream, the lines that were delivered are those of the text up to
\* the last line end, and after the end all of them, also when Git exits before it was read.
LinesAreThoseWritten ==
  LET read == SubSeq(written, 1, taken)
      ends == {i \in DOMAIN read : read[i] = "eol"}
      whole == IF ends = {} THEN <<>> ELSE SubSeq(read, 1, CHOOSE i \in ends : \A j \in ends : j <= i)
  IN  lines = Meaning(IF reader = "done" THEN written ELSE whole)

\* No secret is in a line that is published or in the text that is kept, wherever reads, limits
\* and the cut of the tail fall.
NothingSecret ==
  /\ \A k \in DOMAIN lines : ~Contains(lines[k], "s")
  /\ ~Contains(tail, "s")

\* The last thing Git said is at the end of the text that is kept, after whatever chatter.
FinalErrorSurvives ==
  lines # <<>> /\ Len(Last(lines)) < TailLimit => IsSuffix(Last(lines) \o <<"eol">>, tail)

\* When the call is over, so is Git: nothing still writes under the locks that are released next.
NothingRunsOn == reader # "reading" => ~Running

\* The call returns what Git wrote, or raises because the deadline has passed; reader and Git never
\* wait for each other, and a Git that is stuck is not waited for.
CallEnds == <>(reader = "done" \/ (reader = "raised" /\ late))
==============================================================================
