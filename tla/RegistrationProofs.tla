------------------------- MODULE RegistrationProofs -------------------------
(***************************************************************************)
(* Theorems about module Registration, for all commands, roots and keys.   *)
(*                                                                         *)
(* A command decides in one transaction and acts in a later one.  What it  *)
(* may rely on is that the root of a row never changes (Kept), that nobody *)
(* binds a directory that somebody else has locked (Left), and that the    *)
(* transaction validates again; the invariant says what each step of each  *)
(* command relies on.                                                      *)
(***************************************************************************)
EXTENDS Registration, FiniteSetTheorems, SequenceTheorems, TLAPS

---------------------------------------------------------------------------
(* The inductive invariant *)

\* What a worker makes of a row.
Claimed == [key: Keys, source: Sources \cup {None}, name: {None}]
Orders == [kind: Kinds, urls: Seq(Urls \cup Places \cup Claimed), root: Roots \cup {None},
           fetch: BOOLEAN, adopt: BOOLEAN]

\* What the inputs of a command are.
Proper(c) ==
  \A i \in 1 .. Len(c.urls) :
    /\ c.kind = "audit" => c.urls[i] \in Places
    /\ c.kind = "worker" => c.urls[i] \in Claimed
    /\ c.kind \notin {"audit", "worker"} => c.urls[i] \in Urls

Rooted(row) == row = NoRow \/ row.root \in Roots

Typed ==
  /\ rows \in [Keys -> Row] /\ \A k \in Keys : Rooted(rows[k])
  /\ store \in [Roots -> [Keys -> Directory]]
  /\ default \in Roots \cup {None}
  /\ queued \subseteq {k \in Keys : rows[k].root \in Roots}
  /\ claim \in [Keys -> Procs \cup {None}]
  /\ lock \in [Roots -> [Keys -> Procs \cup {None}]]
  /\ cmd \in [Procs -> Orders]
  /\ pc \in [Procs -> Steps] /\ line \in [Procs -> Nat \ {0}]
  /\ known \in [Procs -> [Keys -> Row]]
  /\ target \in [Procs -> Roots \cup {None}] /\ wanted \in [Procs -> Sources \cup {None}]
  /\ adopt \in [Procs -> BOOLEAN] /\ quiet \in [Procs -> BOOLEAN]
  /\ results \in [Procs -> Seq(Result)] /\ promised \in [Procs -> Seq(Result)]
  /\ faults \in 0 .. Faults

Outside == {"start", "line", "done", "aborted"}
Locked == {"bind", "publish", "transfer"}
Batch(p) == cmd[p].kind \in {"add", "review"}

\* What a command has read of row k still tells the root.
Remembers(R, row, k) == row = NoRow \/ (row.root \in Roots /\ R[k].root = row.root)

\* What p relies on where it stands.
At(p) ==
  /\ Proper(cmd[p])
  /\ pc[p] \notin Outside => line[p] <= Len(cmd[p].urls) /\ Key(p) \in Keys
  /\ pc[p] = "start" => line[p] = 1 /\ results[p] = <<>> /\ promised[p] = <<>>
  /\ pc[p] = "look" => Batch(p) /\ target[p] \in Roots
  /\ pc[p] = "register" => (Batch(p) \/ cmd[p].kind = "fetch") /\ target[p] \in Roots
  /\ pc[p] \in {"target", "claim", "prompt"} => cmd[p].kind = "fetch"
  /\ pc[p] \in {"open"} \cup Locked => cmd[p].kind \in {"fetch", "worker"}
  /\ pc[p] \in {"claim", "open"} \cup Locked => target[p] \in Roots /\ rows[Key(p)].root = target[p]
  /\ pc[p] = "add" => /\ cmd[p].kind = "audit" /\ target[p] = Root(p) /\ Root(p) \in Roots
                      /\ known[p][Key(p)].root \in {None, Root(p)}
  /\ pc[p] \in {"add"} \cup Locked => Holds(p)
  /\ pc[p] = "publish" => Place(p).source = wanted[p]
  /\ Batch(p) => pc[p] \in {"start", "line", "look", "register", "done"}
  /\ Batch(p) /\ pc[p] = "done" => line[p] = Len(cmd[p].urls) + 1
  /\ \A k \in Keys : Remembers(rows, known[p][k], k)

Good == {"registered", "existing", "duplicate", "accepted", "fetched"}

Told(p) == {"registered", "existing", "duplicate", "error"} \cup {s \in {"new"} : Previewing(p)}

\* A report that the rows bear out.
True(R, a) == a.key \in Keys /\ a.root \in Roots /\ R[a.key].root = a.root

\* What p has reported.
Reported(p) ==
  /\ ~Previewing(p) => \A i \in 1 .. Len(results[p]) : results[p][i].status \in Good => True(rows, results[p][i])
  /\ Batch(p) => /\ Len(results[p]) = line[p] - 1 /\ line[p] <= Len(cmd[p].urls) + 1
                 /\ \A i \in 1 .. Len(results[p]) : results[p][i].status \in Told(p)
  /\ cmd[p].kind = "queue" =>
       \A i, j \in 1 .. Len(results[p]) :
         i # j /\ results[p][i].key # None => results[p][i].key # results[p][j].key

IInv == Typed /\ \A p \in Procs : At(p) /\ Reported(p)

---------------------------------------------------------------------------
(* What a step of one process leaves to the others *)

\* A row keeps its root.
Kept == \A k \in Keys : rows[k].root \in Roots => rows'[k].root = rows[k].root

\* Whoever holds a directory keeps it, and nobody else binds it.
Left(p) ==
  \A q \in Procs \ {p}, r \in Roots, k \in Keys :
    lock[r][k] = q => lock'[r][k] = q /\ store'[r][k].source = store[r][k].source

\* The rest of what the others rely on is their own.
Own(p) ==
  \A q \in Procs \ {p} :
    /\ cmd'[q] = cmd[q] /\ pc'[q] = pc[q] /\ line'[q] = line[q] /\ known'[q] = known[q]
    /\ target'[q] = target[q] /\ wanted'[q] = wanted[q] /\ results'[q] = results[q]
    /\ promised'[q] = promised[q]

\* What there is to prove of a step of p.
Change(p) == Typed' /\ Kept /\ Left(p) /\ Own(p) /\ At(p)' /\ Reported(p)'

LEMMA AppendResult ==
  ASSUME NEW s \in Seq(Result), NEW e \in Result
  PROVE  /\ Append(s, e) \in Seq(Result) /\ Len(Append(s, e)) = Len(s) + 1 /\ Len(s) \in Nat
         /\ \A i \in 1 .. Len(s) : Append(s, e)[i] = s[i] /\ s[i] \in Result
         /\ Append(s, e)[Len(s) + 1] = e
         /\ \A i \in 1 .. Len(s) + 1 : i \in 1 .. Len(s) \/ i = Len(s) + 1
<1>1. Len(s) \in Nat
  BY LenProperties
<1>2. /\ Append(s, e) \in Seq(Result) /\ Len(Append(s, e)) = Len(s) + 1
      /\ \A i \in 1 .. Len(s) : Append(s, e)[i] = s[i]
      /\ Append(s, e)[Len(s) + 1] = e
  BY AppendProperties
<1>3. \A i \in 1 .. Len(s) : s[i] \in Result
  BY ElementOfSeq
<1>4. \A i \in 1 .. Len(s) + 1 : i \in 1 .. Len(s) \/ i = Len(s) + 1
  BY <1>1
<1> QED BY <1>1, <1>2, <1>3, <1>4

\* A row that keeps its root bears out the same reports.
LEMMA StillTrue ==
  ASSUME IInv, Kept
  PROVE  /\ \A a : True(rows, a) => True(rows', a)
         /\ \A row, k : k \in Keys /\ Remembers(rows, row, k) => Remembers(rows', row, k)
  BY DEF True, Remembers, Kept

\* Reports stay true for whoever reports nothing.
LEMMA SameReports ==
  ASSUME IInv, Kept, NEW q \in Procs, cmd'[q].kind = cmd[q].kind, line'[q] = line[q],
         Batch(q) => cmd'[q].urls = cmd[q].urls,
         results'[q] = results[q], promised'[q] = promised[q]
  PROVE  Reported(q)'
<1>1. Reported(q)
  BY DEF IInv
<1>2. (Previewing(q)' <=> Previewing(q)) /\ (Batch(q)' <=> Batch(q))
  BY DEF Previewing, Batch
<1>3. \A a : True(rows, a) => True(rows', a)
  BY StillTrue
<1>4. Told(q)' = Told(q)
  BY <1>2 DEF Told
<1> QED BY <1>1, <1>2, <1>3, <1>4 DEF Reported

LEMMA ChangeKeeps ==
  ASSUME IInv, NEW p \in Procs, Change(p)
  PROVE  IInv'
<1> SUFFICES ASSUME NEW q \in Procs \ {p} PROVE At(q)' /\ Reported(q)'
  BY DEF IInv, Change
<1>1. Reported(q)'
  BY SameReports DEF Change, Own
<1>2. /\ cmd'[q] = cmd[q] /\ pc'[q] = pc[q] /\ line'[q] = line[q] /\ known'[q] = known[q]
      /\ target'[q] = target[q] /\ wanted'[q] = wanted[q] /\ results'[q] = results[q]
      /\ promised'[q] = promised[q]
  BY DEF Change, Own
<1>3. Key(q)' = Key(q) /\ Root(q)' = Root(q) /\ (Batch(q)' <=> Batch(q))
  BY <1>2 DEF Key, Root, Input, Batch
<1>4. At(q)
  BY DEF IInv
<1>5. \A k \in Keys : Remembers(rows', known'[q][k], k)
  BY <1>2, <1>4, StillTrue DEF At, Change
<1>6. pc[q] \in {"claim", "open"} \cup Locked => rows'[Key(q)].root = target[q]
  <2> SUFFICES ASSUME pc[q] \in {"claim", "open"} \cup Locked PROVE rows'[Key(q)].root = target[q]
    OBVIOUS
  <2>1. target[q] \in Roots /\ rows[Key(q)].root = target[q] /\ Key(q) \in Keys
    BY <1>4 DEF At, Outside, Locked
  <2> QED BY <2>1 DEF Change, Kept
<1>7. pc[q] \in {"add"} \cup Locked =>
        /\ lock'[target[q]][Key(q)] = q
        /\ store'[target[q]][Key(q)].source = store[target[q]][Key(q)].source
  <2> SUFFICES ASSUME pc[q] \in {"add"} \cup Locked
               PROVE  /\ lock'[target[q]][Key(q)] = q
                      /\ store'[target[q]][Key(q)].source = store[target[q]][Key(q)].source
    OBVIOUS
  <2>1. target[q] \in Roots /\ Key(q) \in Keys /\ lock[target[q]][Key(q)] = q
    BY <1>4 DEF At, Outside, Locked, Holds
  <2> QED BY <2>1 DEF Change, Left
<1>8. Proper(cmd[q])'
  BY <1>2, <1>4 DEF At, Proper
<1> QED BY <1>1, <1>2, <1>3, <1>4, <1>5, <1>6, <1>7, <1>8 DEF At, Holds, Place, Locked

---------------------------------------------------------------------------
(* Reports and steps without one *)

\* Going on without a report.
LEMMA GotoKeeps ==
  ASSUME IInv, NEW p \in Procs, NEW to \in Steps, Goto(p, to), UNCHANGED <<cmd, promised>>, Kept
  PROVE  /\ pc' \in [Procs -> Steps] /\ pc'[p] = to /\ UNCHANGED <<line, results>>
         /\ \A q \in Procs \ {p} : pc'[q] = pc[q]
         /\ Reported(p)'
<1>1. /\ pc' \in [Procs -> Steps] /\ pc'[p] = to /\ UNCHANGED <<line, results>>
      /\ \A q \in Procs \ {p} : pc'[q] = pc[q]
  BY DEF IInv, Typed, Goto
<1> QED BY <1>1, SameReports

\* Going on to the next input without a report.
LEMMA SkipKeeps ==
  ASSUME IInv, NEW p \in Procs, Skip(p), cmd[p].kind \in {"queue", "fetch", "audit"},
         UNCHANGED <<index, store, default, lock, local, quiet, faults>>
  PROVE  Change(p)
<1>1. /\ pc' \in [Procs -> Steps] /\ pc'[p] = "line" /\ results' = results
      /\ line' \in [Procs -> Nat \ {0}]
      /\ \A q \in Procs \ {p} : pc'[q] = pc[q] /\ line'[q] = line[q]
  BY DEF IInv, Typed, Skip, Steps
<1>2. Typed'
  BY <1>1 DEF IInv, Typed, index, local
<1>3. Kept /\ Left(p) /\ Own(p)
  BY <1>1 DEF Kept, Left, Own, index, local
<1>4. \A k \in Keys : Remembers(rows', known'[p][k], k)
  BY <1>3, StillTrue DEF IInv, At, local
<1>5. At(p)'
  BY <1>1, <1>4 DEF IInv, At, Proper, Outside, Locked, Batch, local
<1>6. Reported(p)'
  <2>1. \A a : True(rows, a) => True(rows', a)
    BY <1>3, StillTrue
  <2> QED BY <1>1, <2>1 DEF IInv, Reported, Batch, Previewing, local
<1> QED BY <1>2, <1>3, <1>5, <1>6 DEF Change

\* A report, with what makes it right.
LEMMA AnswerKeeps ==
  ASSUME IInv, NEW p \in Procs, NEW a \in Result, Answer(p, a.status, a.key, a.root),
         UNCHANGED <<cmd, promised>>, Kept, line[p] <= Len(cmd[p].urls),
         \A k \in Keys : Remembers(rows', known'[p][k], k),
         a.status \in Good /\ ~Previewing(p) => True(rows', a),
         Batch(p) => a.status \in Told(p),
         cmd[p].kind = "queue" /\ a.key # None =>
           \A i \in 1 .. Len(results[p]) : results[p][i].key # a.key
  PROVE  /\ pc' \in [Procs -> Steps] /\ line' \in [Procs -> Nat \ {0}]
         /\ results' \in [Procs -> Seq(Result)]
         /\ \A q \in Procs \ {p} : pc'[q] = pc[q] /\ line'[q] = line[q] /\ results'[q] = results[q]
         /\ At(p)' /\ Reported(p)'
<1>1. results \in [Procs -> Seq(Result)] /\ results[p] \in Seq(Result)
  BY DEF IInv, Typed
<1>2. /\ pc' \in [Procs -> Steps] /\ line' \in [Procs -> Nat \ {0}]
      /\ pc'[p] = "line" /\ line'[p] = line[p] + 1 /\ line[p] \in Nat \ {0}
      /\ \A q \in Procs \ {p} : pc'[q] = pc[q] /\ line'[q] = line[q]
  BY DEF IInv, Typed, Answer, Steps
<1>3. a = [status |-> a.status, key |-> a.key, root |-> a.root]
  BY DEF Result
<1>4. results' = [results EXCEPT ![p] = Append(@, a)]
  BY <1>3 DEF Answer
<1>5. results'[p] = Append(results[p], a) /\ \A q \in Procs \ {p} : results'[q] = results[q]
  BY <1>1, <1>4
<1> DEFINE n == Len(results[p])
<1>6. /\ results'[p] \in Seq(Result) /\ Len(results'[p]) = n + 1 /\ n \in Nat
      /\ \A i \in 1 .. n : results'[p][i] = results[p][i]
      /\ results'[p][n + 1] = a
      /\ \A i \in 1 .. n + 1 : i \in 1 .. n \/ i = n + 1
  BY <1>1, <1>5, AppendResult
<1>7. results' \in [Procs -> Seq(Result)]
  BY <1>1, <1>4, <1>5, <1>6
<1> HIDE DEF n
<1>8. At(p)'
  BY <1>2 DEF IInv, At, Proper, Outside, Locked, Batch
<1>9. Reported(p)'
  <2>1. Reported(p)
    BY DEF IInv
  <2>2. /\ Previewing(p)' <=> Previewing(p)
        /\ Batch(p)' <=> Batch(p)
        /\ Told(p)' = Told(p)
    BY DEF Previewing, Batch, Told
  <2>3. \A b : True(rows, b) => True(rows', b)
    BY StillTrue
  <2>4. ~Previewing(p)' => \A i \in 1 .. n + 1 : results'[p][i].status \in Good => True(rows', results'[p][i])
    <3> SUFFICES ASSUME ~Previewing(p)', NEW i \in 1 .. n + 1, results'[p][i].status \in Good
                 PROVE  True(rows', results'[p][i])
      OBVIOUS
    <3>1. CASE i \in 1 .. n
      <4>1. True(rows, results[p][i])
        BY <1>6, <2>1, <2>2, <3>1 DEF Reported, n
      <4>2. results'[p][i] = results[p][i]
        BY <1>6, <3>1
      <4> QED BY <2>3, <4>1, <4>2
    <3>2. CASE i = n + 1
      <4>1. results'[p][i] = a /\ True(rows', a)
        BY <1>6, <2>2, <3>2
      <4> QED BY <4>1
    <3> QED BY <1>6, <3>1, <3>2
  <2>5. Batch(p) => /\ n + 1 = line'[p] - 1 /\ line'[p] <= Len(cmd[p].urls) + 1
                    /\ \A i \in 1 .. n + 1 : results'[p][i].status \in Told(p)
    <3> SUFFICES ASSUME Batch(p)
                 PROVE  /\ n + 1 = line'[p] - 1 /\ line'[p] <= Len(cmd[p].urls) + 1
                        /\ \A i \in 1 .. n + 1 : results'[p][i].status \in Told(p)
      OBVIOUS
    <3>1. n = line[p] - 1 /\ \A i \in 1 .. n : results[p][i].status \in Told(p)
      BY <2>1 DEF Reported, n
    <3>2. Len(cmd[p].urls) \in Nat
      BY LenProperties DEF IInv, Typed, Orders
    <3>3. \A i \in 1 .. n + 1 : results'[p][i].status \in Told(p)
      BY <1>6, <3>1
    <3>4. n + 1 = line'[p] - 1 /\ line'[p] <= Len(cmd[p].urls) + 1
      BY <1>2, <3>1, <3>2
    <3> QED BY <3>3, <3>4
  <2>6. cmd[p].kind = "queue" =>
          \A i, j \in 1 .. n + 1 :
            i # j /\ results'[p][i].key # None => results'[p][i].key # results'[p][j].key
    BY <1>6, <2>1 DEF Reported, n
  <2> QED BY <1>6, <2>2, <2>4, <2>5, <2>6 DEF Reported
<1> QED BY <1>2, <1>5, <1>7, <1>8, <1>9

\* Everything but a report and a fault stays as it is.
LEMMA PlainAnswer ==
  ASSUME IInv, NEW p \in Procs, NEW a \in Result, Answer(p, a.status, a.key, a.root),
         UNCHANGED <<index, store, default, lock, local, quiet>>, faults' \in 0 .. Faults,
         line[p] <= Len(cmd[p].urls),
         a.status \in Good /\ ~Previewing(p) => True(rows, a),
         Batch(p) => a.status \in Told(p),
         cmd[p].kind = "queue" => a.key = None
  PROVE  Change(p)
<1>1. UNCHANGED <<cmd, promised, rows, queued, claim, known, target, wanted, adopt>>
  BY DEF index, local
<1>2. Kept /\ Left(p)
  BY <1>1 DEF Kept, Left
<1>3. \A k \in Keys : Remembers(rows', known'[p][k], k)
  BY <1>1, <1>2, StillTrue DEF IInv, At
<1>4. True(rows, a) => True(rows', a)
  BY <1>2, StillTrue
<1>5. /\ pc' \in [Procs -> Steps] /\ line' \in [Procs -> Nat \ {0}]
      /\ results' \in [Procs -> Seq(Result)]
      /\ \A q \in Procs \ {p} : pc'[q] = pc[q] /\ line'[q] = line[q] /\ results'[q] = results[q]
      /\ At(p)' /\ Reported(p)'
  BY <1>1, <1>2, <1>3, <1>4, AnswerKeeps
<1>6. Typed'
  BY <1>1, <1>5 DEF IInv, Typed
<1>7. Own(p)
  BY <1>1, <1>5 DEF Own
<1> QED BY <1>2, <1>5, <1>6, <1>7 DEF Change

LEMMA AnswerError ==
  ASSUME IInv, NEW p \in Procs, NEW s \in {"error", "issue"}, Answer(p, s, None, None),
         UNCHANGED <<index, store, default, lock, local, quiet>>, faults' \in 0 .. Faults,
         line[p] <= Len(cmd[p].urls), s = "issue" => ~Batch(p)
  PROVE  Change(p)
<1> DEFINE a == [status |-> s, key |-> None, root |-> None]
<1>1. a \in Result /\ a.status = s /\ a.key = None /\ a.root = None
  BY DEF Result
<1>2. a.status \notin Good /\ (Batch(p) => a.status \in Told(p))
  BY DEF Good, Told
<1> HIDE DEF a
<1> QED BY <1>1, <1>2, PlainAnswer

---------------------------------------------------------------------------
(* Batches *)

LEMMA InputIs ==
  ASSUME IInv, NEW p \in Procs, line[p] <= Len(cmd[p].urls)
  PROVE  /\ cmd[p].kind = "audit" => Key(p) \in Keys /\ Root(p) \in Roots
         /\ cmd[p].kind = "worker" => Key(p) \in Keys /\ Input(p).source \in Sources \cup {None}
         /\ cmd[p].kind \notin {"audit", "worker"} =>
              Key(p) \in Keys \cup {None} /\ Input(p).source \in Sources
<1>1. Proper(cmd[p]) /\ line[p] \in Nat \ {0} /\ Len(cmd[p].urls) \in Nat
  BY LenProperties DEF IInv, At, Typed, Orders
<1>2. line[p] \in 1 .. Len(cmd[p].urls)
  BY <1>1
<1> QED BY <1>1, <1>2, RegistrationAssumption DEF Proper, Key, Root, Input, Places, Claimed

LEMMA BeginKeeps ==
  ASSUME IInv, NEW p \in Procs, Begin(p) \/ Audit(p)
  PROVE  Change(p)
<1>1. /\ pc[p] = "start" /\ Goto(p, "line") /\ "line" \in Steps
      /\ UNCHANGED <<index, store, default, lock, cmd, target, wanted, promised, faults>>
      /\ known' = known \/ known' = [known EXCEPT ![p] = rows]
  BY DEF Begin, Audit, Steps
<1>2. Kept /\ Left(p)
  BY <1>1 DEF Kept, Left, index
<1>3. /\ pc' \in [Procs -> Steps] /\ pc'[p] = "line" /\ UNCHANGED <<line, results>>
      /\ \A q \in Procs \ {p} : pc'[q] = pc[q]
      /\ Reported(p)'
  BY <1>1, <1>2, GotoKeeps
<1>4. /\ known' \in [Procs -> [Keys -> Row]] /\ \A q \in Procs \ {p} : known'[q] = known[q]
      /\ \A k \in Keys : Remembers(rows', known'[p][k], k)
  <2>1. \A k \in Keys : Remembers(rows, rows[k], k) /\ Remembers(rows, known[p][k], k)
    BY DEF IInv, At, Typed, Rooted, Remembers
  <2> QED BY <1>1, <2>1 DEF IInv, Typed, index
<1>5. adopt' \in [Procs -> BOOLEAN] /\ quiet' \in [Procs -> BOOLEAN]
  <2>1. cmd[p].adopt \in BOOLEAN
    BY DEF IInv, Typed, Orders
  <2> QED BY <2>1 DEF IInv, Typed, Begin, Audit
<1>6. Typed'
  BY <1>1, <1>3, <1>4, <1>5 DEF IInv, Typed, index
<1>7. Own(p)
  BY <1>1, <1>3, <1>4 DEF Own
<1>8. At(p)'
  BY <1>1, <1>3, <1>4 DEF IInv, At, Proper, Outside, Locked, Batch
<1> QED BY <1>2, <1>3, <1>6, <1>7, <1>8 DEF Change

LEMMA DuplicateKeeps ==
  ASSUME IInv, NEW p \in Procs, Duplicate(p)
  PROVE  Change(p)
<1>1. /\ Batch(p) /\ line[p] <= Len(cmd[p].urls) /\ line[p] \in Nat \ {0}
      /\ Len(results[p]) = line[p] - 1 /\ results[p] \in Seq(Result)
  BY DEF Duplicate, HasInput, Batch, Is, IInv, Typed, Reported
<1>2. PICK i \in Original(p) : Answer(p, "duplicate", results[p][i].key, results[p][i].root)
  BY DEF Duplicate
<1>3. /\ i \in 1 .. Len(results[p]) /\ results[p][i] \in Result
      /\ results[p][i].status \notin {"error", "duplicate"}
  BY <1>1, ElementOfSeq DEF Original
<1> DEFINE a == [status |-> "duplicate", key |-> results[p][i].key, root |-> results[p][i].root]
<1>4. /\ a \in Result /\ a.status = "duplicate" /\ a.key = results[p][i].key
      /\ a.root = results[p][i].root
  BY <1>3 DEF Result
<1>5. ~Previewing(p) => True(rows, a)
  <2>1. ~Previewing(p) => results[p][i].status \in Good
    BY <1>1, <1>3 DEF IInv, Reported, Told, Good
  <2>2. ~Previewing(p) => True(rows, results[p][i])
    BY <1>3, <2>1 DEF IInv, Reported
  <2> QED BY <1>4, <2>2 DEF True
<1>6. Batch(p) => a.status \in Told(p)
  BY <1>4 DEF Told
<1>7. cmd[p].kind # "queue"
  BY <1>1 DEF Batch
<1>8. faults' \in 0 .. Faults /\ UNCHANGED <<index, store, default, lock, local, quiet>>
  BY DEF Duplicate, IInv, Typed
<1> HIDE DEF a
<1> QED BY <1>1, <1>2, <1>4, <1>5, <1>6, <1>7, <1>8, PlainAnswer

LEMMA ErrorKeeps ==
  ASSUME IInv, NEW p \in Procs,
         \/ Malformed(p) \/ NoRoot(p) \/ Conflict(p) \/ RegisterConflict(p) \/ QueueUnknown(p)
         \/ RegisterFetchConflict(p) \/ Busy(p) \/ Decline(p) \/ Caught(p) \/ AuditIssue(p)
  PROVE  Change(p)
<1>1. /\ line[p] <= Len(cmd[p].urls)
      /\ UNCHANGED <<index, store, default, lock, local, quiet>>
  BY DEF Malformed, NoRoot, Conflict, RegisterConflict, QueueUnknown, RegisterFetchConflict, Busy,
         Decline, Caught, AuditIssue, Fails, Issue, HasInput, IInv, At, Outside
<1>2. faults' \in 0 .. Faults
  <2>1. faults \in 0 .. Faults /\ Faults \in Nat
    BY RegistrationAssumption DEF IInv, Typed
  <2>2. faults' = faults \/ (faults > 0 /\ faults' = faults - 1)
    BY DEF Malformed, NoRoot, Conflict, RegisterConflict, QueueUnknown, RegisterFetchConflict, Busy,
           Decline, Caught, AuditIssue, Fails, Issue
  <2> QED BY <2>1, <2>2
<1>3. \/ Answer(p, "error", None, None)
      \/ Answer(p, "issue", None, None) /\ ~Batch(p)
  BY DEF Malformed, NoRoot, Conflict, RegisterConflict, QueueUnknown, RegisterFetchConflict, Busy,
         Decline, Caught, AuditIssue, Fails, Issue, Is, Batch
<1> QED BY <1>1, <1>2, <1>3, AnswerError

LEMMA SkipsKeep ==
  ASSUME IInv, NEW p \in Procs, QueueAgain(p) \/ FetchAgain(p) \/ AuditNothing(p)
  PROVE  Change(p)
  BY SkipKeeps DEF QueueAgain, FetchAgain, AuditNothing, Is

\* What changes besides the place and, perhaps, what a process remembers, decides and may do.
LEMMA PlainGoto ==
  ASSUME IInv, NEW p \in Procs, NEW to \in Steps, Goto(p, to),
         UNCHANGED <<index, store, default, lock, cmd, promised, quiet, faults>>,
         known' \in [Procs -> [Keys -> Row]],
         target' \in [Procs -> Roots \cup {None}], wanted' \in [Procs -> Sources \cup {None}],
         adopt' \in [Procs -> BOOLEAN],
         \A q \in Procs \ {p} :
           known'[q] = known[q] /\ target'[q] = target[q] /\ wanted'[q] = wanted[q],
         At(p)'
  PROVE  Change(p)
<1>1. Kept /\ Left(p)
  BY DEF Kept, Left, index
<1>2. /\ pc' \in [Procs -> Steps] /\ pc'[p] = to /\ UNCHANGED <<line, results>>
      /\ \A q \in Procs \ {p} : pc'[q] = pc[q]
      /\ Reported(p)'
  BY <1>1, GotoKeeps
<1>3. Typed'
  BY <1>2 DEF IInv, Typed, index
<1>4. Own(p)
  BY <1>2 DEF Own
<1> QED BY <1>1, <1>2, <1>3, <1>4 DEF Change

LEMMA FindTargetKeeps ==
  ASSUME IInv, NEW p \in Procs, FindTarget(p)
  PROVE  Change(p)
<1>1. /\ Batch(p) /\ line[p] <= Len(cmd[p].urls) /\ Key(p) \in Keys /\ "look" \in Steps
      /\ cmd[p].root \in Roots \cup {None}
  BY InputIs DEF FindTarget, HasInput, Batch, Is, Steps, IInv, Typed, Orders
<1>2. Target(p, cmd[p].root, Key(p)) \in Roots
  BY <1>1 DEF FindTarget, Target, IInv, Typed, Rooted
<1>3. /\ target' = [target EXCEPT ![p] = Target(p, cmd[p].root, Key(p))]
      /\ pc' = [pc EXCEPT ![p] = "look"] /\ Goto(p, "look")
      /\ UNCHANGED <<index, store, default, lock, cmd, known, wanted, adopt, promised, quiet, faults,
                     line, results>>
  BY DEF FindTarget, Goto
<1>4. /\ target' \in [Procs -> Roots \cup {None}] /\ target'[p] \in Roots /\ pc'[p] = "look"
      /\ \A q \in Procs \ {p} : target'[q] = target[q]
  BY <1>2, <1>3 DEF IInv, Typed
<1>5. At(p)'
  BY <1>1, <1>3, <1>4 DEF IInv, At, Proper, Outside, Locked, Batch, Key, Input, index
<1> QED BY <1>1, <1>3, <1>4, <1>5, PlainGoto DEF IInv, Typed

LEMMA LookKeeps ==
  ASSUME IInv, NEW p \in Procs, Look(p)
  PROVE  Change(p)
<1>1. /\ pc[p] = "look" /\ Goto(p, "register") /\ "register" \in Steps
      /\ known' = [known EXCEPT ![p][Key(p)] = rows[Key(p)]]
      /\ UNCHANGED <<index, store, default, lock, cmd, target, wanted, adopt, promised, quiet, faults,
                     line, results>>
  BY DEF Look, Goto, Steps
<1>2. Key(p) \in Keys /\ Batch(p) /\ target[p] \in Roots /\ line[p] <= Len(cmd[p].urls)
  BY <1>1 DEF IInv, At, Outside
<1>3. /\ known' \in [Procs -> [Keys -> Row]] /\ \A q \in Procs \ {p} : known'[q] = known[q]
      /\ \A k \in Keys : Remembers(rows', known'[p][k], k)
  <2>1. \A k \in Keys : Remembers(rows, rows[k], k) /\ Remembers(rows, known[p][k], k)
    BY DEF IInv, At, Typed, Rooted, Remembers
  <2>2. \A k \in Keys : known'[p][k] = known[p][k] \/ known'[p][k] = rows[k]
    BY <1>1, <1>2 DEF IInv, Typed
  <2>3. /\ known' \in [Procs -> [Keys -> Row]] /\ \A q \in Procs \ {p} : known'[q] = known[q]
    BY <1>1, <1>2 DEF IInv, Typed
  <2> QED BY <1>1, <2>1, <2>2, <2>3 DEF index
<1>4. pc'[p] = "register"
  BY <1>1 DEF Goto, IInv, Typed
<1>5. At(p)'
  BY <1>1, <1>2, <1>3, <1>4 DEF IInv, At, Proper, Outside, Locked, Batch, Key, Input, index
<1> QED BY <1>1, <1>3, <1>5, PlainGoto DEF IInv, Typed

LEMMA DoneKeeps ==
  ASSUME IInv, NEW p \in Procs, Done(p)
  PROVE  Change(p)
<1>1. /\ pc[p] = "line" /\ Goto(p, "done") /\ "done" \in Steps /\ line[p] > Len(cmd[p].urls)
      /\ UNCHANGED <<index, store, default, lock, local, quiet, faults, line, results>>
  BY DEF Done, Goto, Steps
<1>2. pc'[p] = "done"
  BY <1>1 DEF Goto, IInv, Typed
<1>3. Batch(p) => line[p] = Len(cmd[p].urls) + 1
  <2>1. Batch(p) => line[p] <= Len(cmd[p].urls) + 1
    BY DEF IInv, Reported
  <2>2. line[p] \in Nat /\ Len(cmd[p].urls) \in Nat
    BY LenProperties DEF IInv, Typed, Orders
  <2> QED BY <1>1, <2>1, <2>2
<1>4. At(p)'
  BY <1>1, <1>2, <1>3 DEF IInv, At, Proper, Outside, Locked, Batch, index, local
<1> QED BY <1>1, <1>4, PlainGoto DEF IInv, Typed, local

LEMMA SubmitKeeps ==
  ASSUME IInv, NEW p \in Procs, Submit(p)
  PROVE  Change(p)
<1>1. /\ pc[p] = "line" /\ cmd[p].kind = "review"
      /\ UNCHANGED <<index, store, default, lock, cmd, known, target, wanted, adopt, pc, quiet, faults>>
      /\ promised' = [promised EXCEPT ![p] = results[p]]
      /\ results' = [results EXCEPT ![p] = <<>>] /\ line' = [line EXCEPT ![p] = 1]
  BY DEF Submit, Previewing
<1>2. <<>> \in Seq(Result) /\ Len(<<>>) = 0
  OBVIOUS
<1>3. Typed'
  BY <1>1, <1>2 DEF IInv, Typed, index
<1>4. Kept /\ Left(p) /\ Own(p)
  BY <1>1 DEF IInv, Typed, Kept, Left, Own, index
<1>5. At(p)'
  BY <1>1 DEF IInv, At, Proper, Outside, Locked, Batch, index
<1>6. Reported(p)'
  <2>1. results'[p] = <<>> /\ line'[p] = 1 /\ Len(cmd[p].urls) \in Nat
    BY <1>1, LenProperties DEF IInv, Typed, Orders
  <2> QED BY <1>1, <1>2, <2>1 DEF Reported, Batch
<1> QED BY <1>3, <1>4, <1>5, <1>6 DEF Change

LEMMA PreviewKeeps ==
  ASSUME IInv, NEW p \in Procs, Preview(p)
  PROVE  Change(p)
<1>1. /\ pc[p] = "look" /\ Previewing(p) /\ cmd[p].kind # "queue"
      /\ UNCHANGED <<index, store, default, lock, local, quiet, faults>>
  BY DEF Preview, Previewing
<1>2. target[p] \in Roots /\ Key(p) \in Keys /\ line[p] <= Len(cmd[p].urls)
  BY <1>1 DEF IInv, At, Outside
<1> DEFINE a == [status |-> IF Binding(p) = NoRow THEN "new" ELSE "existing",
                 key |-> Key(p), root |-> target[p]]
<1>3. a \in Result /\ Answer(p, a.status, a.key, a.root) /\ a.status \in Told(p)
  BY <1>1, <1>2 DEF Result, Preview, Told
<1>4. faults' \in 0 .. Faults
  BY <1>1 DEF IInv, Typed
<1> HIDE DEF a
<1> QED BY <1>1, <1>2, <1>3, <1>4, PlainAnswer

\* What adding a row, or finding it there, amounts to.
LEMMA AddedRow ==
  ASSUME IInv, NEW k \in Keys, NEW s \in Sources \cup {None}, NEW r \in Roots,
         NEW importing \in BOOLEAN, Added(k, s, r, importing)
  PROVE  /\ rows' \in [Keys -> Row] /\ \A j \in Keys : Rooted(rows'[j]) /\ (j # k => rows'[j] = rows[j])
         /\ rows'[k].root = r
         /\ rows'[k] = rows[k] \/ (rows[k] = NoRow /\ rows'[k] = [root |-> r, source |-> s])
         /\ Kept
         /\ queued \subseteq {j \in Keys : rows'[j].root \in Roots}
<1>1. rows \in [Keys -> Row] /\ \A j \in Keys : Rooted(rows[j])
  BY DEF IInv, Typed
<1>2. Bindable(rows[k], IF importing /\ rows[k] # NoRow THEN rows[k].source ELSE s, r)
  BY DEF Added
<1>3. rows[k] # NoRow => rows[k].root = r
  BY <1>2 DEF Bindable
<1>4. rows' = [rows EXCEPT ![k] = IF rows[k] = NoRow THEN [root |-> r, source |-> s] ELSE rows[k]]
  BY DEF Added
<1>5. [root |-> r, source |-> s] \in Row
  BY DEF Row
<1>6. rows' \in [Keys -> Row] /\ \A j \in Keys : j # k => rows'[j] = rows[j]
  BY <1>1, <1>4, <1>5
<1>7. rows'[k] = IF rows[k] = NoRow THEN [root |-> r, source |-> s] ELSE rows[k]
  BY <1>1, <1>4
<1>8. rows'[k].root = r
  BY <1>3, <1>7
<1>9. NoRow.root \notin Roots
  BY RegistrationAssumption DEF NoRow
<1>10. Kept
  BY <1>6, <1>7, <1>9 DEF Kept
<1>11. \A j \in Keys : Rooted(rows'[j])
  BY <1>1, <1>6, <1>8 DEF Rooted
<1>12. queued \subseteq {j \in Keys : rows'[j].root \in Roots}
  BY <1>10 DEF IInv, Typed, Kept
<1> QED BY <1>6, <1>7, <1>8, <1>10, <1>11, <1>12

LEMMA RegisterKeeps ==
  ASSUME IInv, NEW p \in Procs, Register(p)
  PROVE  Change(p)
<1>1. /\ pc[p] = "register" /\ Batch(p) /\ Added(Key(p), Input(p).source, target[p], FALSE)
      /\ UNCHANGED <<store, default, claim, lock, local, faults>>
  BY DEF Register, Is, Batch
<1>2. /\ target[p] \in Roots /\ Key(p) \in Keys /\ line[p] <= Len(cmd[p].urls)
      /\ Input(p).source \in Sources \cup {None}
  BY <1>1, InputIs DEF IInv, At, Outside, Batch
<1>3. /\ rows' \in [Keys -> Row] /\ \A j \in Keys : Rooted(rows'[j])
      /\ rows'[Key(p)].root = target[p] /\ Kept
      /\ queued \subseteq {j \in Keys : rows'[j].root \in Roots}
  BY <1>1, <1>2, AddedRow
<1> DEFINE a == [status |-> IF known[p][Key(p)] = NoRow THEN "registered" ELSE "existing",
                 key |-> Key(p), root |-> target[p]]
<1>4. a \in Result /\ Answer(p, a.status, a.key, a.root) /\ a.status \in Told(p) /\ True(rows', a)
  BY <1>2, <1>3 DEF Result, Register, Told, True
<1>5. \A k \in Keys : Remembers(rows', known'[p][k], k)
  BY <1>1, <1>3, StillTrue DEF IInv, At, local
<1>6. UNCHANGED <<cmd, known, target, wanted, adopt, promised>> /\ cmd[p].kind # "queue"
  BY <1>1 DEF local, Batch
<1> HIDE DEF a
<1>7. /\ pc' \in [Procs -> Steps] /\ line' \in [Procs -> Nat \ {0}]
      /\ results' \in [Procs -> Seq(Result)]
      /\ \A q \in Procs \ {p} : pc'[q] = pc[q] /\ line'[q] = line[q] /\ results'[q] = results[q]
      /\ At(p)' /\ Reported(p)'
  BY <1>2, <1>3, <1>4, <1>5, <1>6, AnswerKeeps
<1>8. queued' \subseteq {j \in Keys : rows'[j].root \in Roots}
  BY <1>2, <1>3 DEF Register
<1>9. quiet' \in [Procs -> BOOLEAN]
  BY DEF Register, Changed, IInv, Typed
<1>10. Typed'
  BY <1>1, <1>3, <1>6, <1>7, <1>8, <1>9 DEF IInv, Typed
<1>11. Left(p) /\ Own(p)
  BY <1>1, <1>6, <1>7 DEF Left, Own
<1> QED BY <1>3, <1>7, <1>10, <1>11 DEF Change

LEMMA QueueFetchKeeps ==
  ASSUME IInv, NEW p \in Procs, QueueFetch(p)
  PROVE  Change(p)
<1>1. /\ cmd[p].kind = "queue" /\ line[p] <= Len(cmd[p].urls) /\ Key(p) # None
      /\ rows[Key(p)] # NoRow /\ ~Seen(p)
      /\ UNCHANGED <<rows, claim, store, default, lock, local, faults>>
  BY DEF QueueFetch, Is, HasInput
<1>2. Key(p) \in Keys /\ rows[Key(p)].root \in Roots
  BY <1>1, InputIs DEF IInv, Typed, Rooted
<1> DEFINE a == [status |-> "accepted", key |-> Key(p), root |-> rows[Key(p)].root]
<1>3. a \in Result /\ Answer(p, a.status, a.key, a.root) /\ True(rows', a) /\ a.key = Key(p)
  BY <1>1, <1>2 DEF Result, QueueFetch, True
<1>4. Kept /\ UNCHANGED <<cmd, known, target, wanted, adopt, promised>> /\ ~Batch(p)
  BY <1>1 DEF Kept, local, Batch
<1>5. \A k \in Keys : Remembers(rows', known'[p][k], k)
  BY <1>4, StillTrue DEF IInv, At
<1>6. \A i \in 1 .. Len(results[p]) : results[p][i].key # Key(p)
  <2>1. DOMAIN results[p] = 1 .. Len(results[p])
    BY LenProperties DEF IInv, Typed
  <2> QED BY <1>1, <2>1 DEF Seen
<1> HIDE DEF a
<1>7. /\ pc' \in [Procs -> Steps] /\ line' \in [Procs -> Nat \ {0}]
      /\ results' \in [Procs -> Seq(Result)]
      /\ \A q \in Procs \ {p} : pc'[q] = pc[q] /\ line'[q] = line[q] /\ results'[q] = results[q]
      /\ At(p)' /\ Reported(p)'
  BY <1>1, <1>3, <1>4, <1>5, <1>6, AnswerKeeps
<1>8. queued' \subseteq {j \in Keys : rows'[j].root \in Roots}
  BY <1>1, <1>2 DEF QueueFetch, IInv, Typed
<1>9. quiet' \in [Procs -> BOOLEAN]
  BY DEF QueueFetch, Changed, IInv, Typed
<1>10. Typed'
  BY <1>1, <1>4, <1>7, <1>8, <1>9 DEF IInv, Typed
<1>11. Left(p) /\ Own(p)
  BY <1>1, <1>4, <1>7 DEF Left, Own
<1> QED BY <1>4, <1>7, <1>10, <1>11 DEF Change

---------------------------------------------------------------------------
(* Fetches *)

LEMMA FindKeeps ==
  ASSUME IInv, NEW p \in Procs, Find(p)
  PROVE  Change(p)
<1>1. /\ cmd[p].kind = "fetch" /\ Goto(p, "target") /\ "target" \in Steps
      /\ line[p] <= Len(cmd[p].urls) /\ Key(p) # None
      /\ known' = [known EXCEPT ![p][Key(p)] = rows[Key(p)]]
      /\ target' = [target EXCEPT ![p] = rows[Key(p)].root]
      /\ UNCHANGED <<index, store, default, lock, cmd, promised, quiet, faults, line, results>>
  BY DEF Find, Goto, Steps, Is, HasInput
<1>2. Key(p) \in Keys /\ Input(p).source \in Sources /\ cmd[p].adopt \in BOOLEAN
  BY <1>1, InputIs DEF IInv, Typed, Orders
<1>3. /\ known' \in [Procs -> [Keys -> Row]] /\ \A q \in Procs \ {p} : known'[q] = known[q]
      /\ \A k \in Keys : Remembers(rows', known'[p][k], k)
  <2>1. \A k \in Keys : Remembers(rows, rows[k], k) /\ Remembers(rows, known[p][k], k)
    BY DEF IInv, At, Typed, Rooted, Remembers
  <2>2. \A k \in Keys : known'[p][k] = known[p][k] \/ known'[p][k] = rows[k]
    BY <1>1, <1>2 DEF IInv, Typed
  <2>3. /\ known' \in [Procs -> [Keys -> Row]] /\ \A q \in Procs \ {p} : known'[q] = known[q]
    BY <1>1, <1>2 DEF IInv, Typed
  <2> QED BY <1>1, <2>1, <2>2, <2>3 DEF index
<1>4. rows[Key(p)].root \in Roots \cup {None} /\ rows[Key(p)].source \in Sources \cup {None}
  BY <1>2 DEF IInv, Typed, Row
<1>5. /\ target' \in [Procs -> Roots \cup {None}] /\ wanted' \in [Procs -> Sources \cup {None}]
      /\ adopt' \in [Procs -> BOOLEAN]
      /\ \A q \in Procs \ {p} : target'[q] = target[q] /\ wanted'[q] = wanted[q]
  BY <1>2, <1>4 DEF Find, IInv, Typed
<1>6. pc'[p] = "target"
  BY <1>1 DEF Goto, IInv, Typed
<1>7. At(p)'
  BY <1>1, <1>2, <1>3, <1>6 DEF IInv, At, Proper, Outside, Locked, Batch, Key, Input, index
<1> QED BY <1>1, <1>3, <1>5, <1>7, PlainGoto

LEMMA FetchTargetKeeps ==
  ASSUME IInv, NEW p \in Procs, FetchTarget(p)
  PROVE  Change(p)
<1>1. /\ pc[p] = "target" /\ Goto(p, "register") /\ "register" \in Steps
      /\ UNCHANGED <<index, store, default, lock, cmd, known, wanted, adopt, promised, quiet, faults,
                     line, results>>
  BY DEF FetchTarget, Goto, Steps
<1>2. Key(p) \in Keys /\ cmd[p].kind = "fetch" /\ line[p] <= Len(cmd[p].urls)
  BY <1>1 DEF IInv, At, Outside
<1>3. Target(p, target[p], Key(p)) \in Roots
  BY <1>2 DEF FetchTarget, Target, IInv, Typed, Rooted
<1>4. /\ target' \in [Procs -> Roots \cup {None}] /\ target'[p] \in Roots
      /\ \A q \in Procs \ {p} : target'[q] = target[q]
  BY <1>3 DEF FetchTarget, IInv, Typed
<1>5. pc'[p] = "register"
  BY <1>1 DEF Goto, IInv, Typed
<1>6. At(p)'
  BY <1>1, <1>2, <1>4, <1>5 DEF IInv, At, Proper, Outside, Locked, Batch, Key, Input, index
<1> QED BY <1>1, <1>4, <1>6, PlainGoto DEF IInv, Typed

LEMMA ConfirmKeeps ==
  ASSUME IInv, NEW p \in Procs, Confirm(p)
  PROVE  Change(p)
<1>1. /\ pc[p] = "prompt" /\ Goto(p, "target") /\ "target" \in Steps
      /\ UNCHANGED <<index, store, default, lock, cmd, known, target, wanted, promised, quiet, faults,
                     line, results>>
      /\ adopt' \in [Procs -> BOOLEAN]
  BY DEF Confirm, Goto, Steps, IInv, Typed
<1>2. Key(p) \in Keys /\ cmd[p].kind = "fetch" /\ line[p] <= Len(cmd[p].urls)
  BY <1>1 DEF IInv, At, Outside
<1>3. pc'[p] = "target"
  BY <1>1 DEF Goto, IInv, Typed
<1>4. At(p)'
  BY <1>1, <1>2, <1>3 DEF IInv, At, Proper, Outside, Locked, Batch, Key, Input, index
<1> QED BY <1>1, <1>4, PlainGoto DEF IInv, Typed

LEMMA UncaughtKeeps ==
  ASSUME IInv, NEW p \in Procs, Uncaught(p)
  PROVE  Change(p)
<1>1. /\ Goto(p, "aborted") /\ "aborted" \in Steps /\ cmd[p].kind = "fetch"
      /\ UNCHANGED <<index, store, default, lock, local, quiet, line, results>>
  BY DEF Uncaught, Goto, Steps, Is
<1>2. faults' \in 0 .. Faults
  BY RegistrationAssumption DEF Uncaught, IInv, Typed
<1>3. UNCHANGED <<cmd, known, target, wanted, adopt, promised, rows, queued, claim>>
  BY <1>1 DEF local, index
<1>4. Kept /\ Left(p)
  BY <1>1, <1>3 DEF Kept, Left
<1>5. /\ pc' \in [Procs -> Steps] /\ pc'[p] = "aborted"
      /\ \A q \in Procs \ {p} : pc'[q] = pc[q]
      /\ Reported(p)'
  BY <1>1, <1>3, <1>4, GotoKeeps
<1>6. Typed'
  BY <1>1, <1>2, <1>3, <1>5 DEF IInv, Typed
<1>7. Own(p)
  BY <1>1, <1>3, <1>5 DEF Own
<1>8. At(p)'
  BY <1>1, <1>3, <1>5 DEF IInv, At, Proper, Outside, Locked, Batch
<1> QED BY <1>4, <1>5, <1>6, <1>7, <1>8 DEF Change

LEMMA RegisterFetchKeeps ==
  ASSUME IInv, NEW p \in Procs, RegisterFetch(p)
  PROVE  Change(p)
<1>1. /\ pc[p] = "register" /\ cmd[p].kind = "fetch" /\ Goto(p, "claim") /\ "claim" \in Steps
      /\ Added(Key(p), wanted[p], target[p], TRUE)
      /\ UNCHANGED <<queued, claim, store, default, lock, local, faults, line, results>>
      /\ quiet' \in [Procs -> BOOLEAN]
  BY DEF RegisterFetch, Is, Goto, Steps, Changed, IInv, Typed
<1>2. /\ target[p] \in Roots /\ Key(p) \in Keys /\ line[p] <= Len(cmd[p].urls)
      /\ wanted[p] \in Sources \cup {None}
  BY <1>1 DEF IInv, At, Outside, Typed
<1>3. /\ rows' \in [Keys -> Row] /\ \A j \in Keys : Rooted(rows'[j])
      /\ rows'[Key(p)].root = target[p] /\ Kept
      /\ queued \subseteq {j \in Keys : rows'[j].root \in Roots}
  BY <1>1, <1>2, AddedRow
<1>4. UNCHANGED <<cmd, known, target, wanted, adopt, promised>>
  BY <1>1 DEF local
<1>5. /\ pc' \in [Procs -> Steps] /\ pc'[p] = "claim"
      /\ \A q \in Procs \ {p} : pc'[q] = pc[q]
      /\ Reported(p)'
  BY <1>1, <1>3, <1>4, GotoKeeps
<1>6. Typed'
  BY <1>1, <1>3, <1>4, <1>5 DEF IInv, Typed
<1>7. Left(p) /\ Own(p)
  BY <1>1, <1>4, <1>5 DEF Left, Own
<1>8. \A k \in Keys : Remembers(rows', known'[p][k], k)
  BY <1>3, <1>4, StillTrue DEF IInv, At
<1>9. At(p)'
  BY <1>1, <1>2, <1>3, <1>4, <1>5, <1>8 DEF IInv, At, Proper, Outside, Locked, Batch, Key, Input
<1> QED BY <1>3, <1>5, <1>6, <1>7, <1>9 DEF Change

\* Steps of a fetch that touch neither rows nor directories.
LEMMA ClaimStepKeeps ==
  ASSUME IInv, NEW p \in Procs, Immediate(p) \/ Ask(p)
  PROVE  Change(p)
<1> DEFINE to == IF pc[p] = "claim" THEN "open" ELSE "prompt"
<1>1. /\ pc[p] \in {"claim", "open"} /\ Goto(p, to) /\ to \in Steps
      /\ pc[p] = "open" => cmd[p].kind = "fetch"
      /\ UNCHANGED <<rows, store, default, lock, local, faults, line, results>>
      /\ quiet' \in [Procs -> BOOLEAN] /\ queued' \subseteq queued
  BY DEF Immediate, Ask, Is, Goto, Steps, Changed, IInv, Typed
<1>2. /\ Key(p) \in Keys /\ cmd[p].kind = "fetch" /\ line[p] <= Len(cmd[p].urls)
      /\ target[p] \in Roots /\ rows[Key(p)].root = target[p]
  BY <1>1 DEF IInv, At, Outside
<1>3. claim' \in [Keys -> Procs \cup {None}]
  BY <1>2 DEF Immediate, Ask, IInv, Typed
<1>4. UNCHANGED <<cmd, known, target, wanted, adopt, promised>>
  BY <1>1 DEF local
<1>5. Kept /\ Left(p)
  BY <1>1 DEF Kept, Left
<1>6. /\ pc' \in [Procs -> Steps] /\ pc'[p] = to
      /\ \A q \in Procs \ {p} : pc'[q] = pc[q]
      /\ Reported(p)'
  BY <1>1, <1>4, <1>5, GotoKeeps
<1>7. Typed'
  BY <1>1, <1>3, <1>4, <1>6 DEF IInv, Typed
<1>8. Own(p)
  BY <1>1, <1>4, <1>6 DEF Own
<1>9. At(p)'
  BY <1>1, <1>2, <1>4, <1>6 DEF IInv, At, Proper, Outside, Locked, Batch, Key, Input
<1> QED BY <1>5, <1>6, <1>7, <1>8, <1>9 DEF Change

LEMMA WorkerClaimKeeps ==
  ASSUME IInv, NEW p \in Procs, NEW k \in Keys, WorkerClaim(p, k)
  PROVE  Change(p)
<1> DEFINE u == [key |-> k, source |-> rows[k].source, name |-> None]
<1>1. /\ pc[p] = "line" /\ cmd[p].kind = "worker" /\ k \in queued
      /\ UNCHANGED <<rows, store, default, lock, known, adopt, promised, results, faults>>
      /\ quiet' \in [Procs -> BOOLEAN] /\ queued' \subseteq queued
  BY DEF WorkerClaim, Is, Changed, IInv, Typed
<1>2. rows[k].root \in Roots /\ rows[k].source \in Sources \cup {None} /\ u \in Claimed
  BY <1>1 DEF IInv, Typed, Row, Claimed
<1>3. /\ <<u>> \in Seq(Urls \cup Places \cup Claimed) /\ Len(<<u>>) = 1 /\ <<u>>[1] = u
  BY <1>2
<1>4. claim' \in [Keys -> Procs \cup {None}]
  BY DEF WorkerClaim, IInv, Typed
<1>5. /\ cmd' = [cmd EXCEPT ![p] = [cmd[p] EXCEPT !.urls = <<u>>]]
      /\ line' = [line EXCEPT ![p] = 1] /\ target' = [target EXCEPT ![p] = rows[k].root]
      /\ wanted' = [wanted EXCEPT ![p] = rows[k].source] /\ pc' = [pc EXCEPT ![p] = "open"]
  BY DEF WorkerClaim
<1> HIDE DEF u
<1>6. /\ cmd' \in [Procs -> Orders] /\ \A q \in Procs \ {p} : cmd'[q] = cmd[q]
      /\ cmd'[p].kind = "worker" /\ cmd'[p].urls = <<u>>
  <2>1. cmd \in [Procs -> Orders] /\ cmd[p] \in Orders
    BY DEF IInv, Typed
  <2>2. [cmd[p] EXCEPT !.urls = <<u>>] \in Orders
    BY <1>3, <2>1 DEF Orders
  <2>3. cmd'[p] = [cmd[p] EXCEPT !.urls = <<u>>] /\ \A q \in Procs \ {p} : cmd'[q] = cmd[q]
    BY <1>5, <2>1
  <2>4. cmd'[p].kind = "worker" /\ cmd'[p].urls = <<u>>
    BY <1>1, <2>1, <2>3 DEF Orders
  <2> QED BY <1>5, <2>1, <2>2, <2>3, <2>4
<1>7. /\ line' \in [Procs -> Nat \ {0}] /\ target' \in [Procs -> Roots \cup {None}]
      /\ wanted' \in [Procs -> Sources \cup {None}] /\ pc' \in [Procs -> Steps]
      /\ pc'[p] = "open" /\ target'[p] = rows[k].root /\ line'[p] = 1
      /\ \A q \in Procs \ {p} : /\ line'[q] = line[q] /\ target'[q] = target[q]
                                /\ wanted'[q] = wanted[q] /\ pc'[q] = pc[q]
  BY <1>2, <1>5 DEF IInv, Typed, Steps
<1>8. Typed'
  BY <1>1, <1>4, <1>6, <1>7 DEF IInv, Typed
<1>9. Kept /\ Left(p) /\ Own(p)
  BY <1>1, <1>6, <1>7 DEF Kept, Left, Own
<1>10. Proper(cmd'[p])
  BY <1>2, <1>3, <1>6 DEF Proper
<1>11. Key(p)' = k
  BY <1>3, <1>6, <1>7 DEF Key, Input, u
<1>12. At(p)'
  BY <1>1, <1>2, <1>3, <1>6, <1>7, <1>10, <1>11 DEF IInv, At, Outside, Locked, Batch
<1>13. Reported(p)'
  <2>1. \A a : True(rows, a) => True(rows', a)
    BY <1>9, StillTrue
  <2> QED BY <1>1, <1>6, <2>1 DEF IInv, Reported, Batch, Previewing
<1> QED BY <1>8, <1>9, <1>12, <1>13 DEF Change

\* A directory is released by whoever had it.
LEMMA Unlocks ==
  ASSUME IInv, NEW p \in Procs, NEW r \in Roots, NEW k \in Keys,
         lock' = [lock EXCEPT ![r][k] = IF @ = p THEN None ELSE @]
  PROVE  /\ lock' \in [Roots -> [Keys -> Procs \cup {None}]]
         /\ \A q \in Procs \ {p}, x \in Roots, j \in Keys : lock[x][j] = q => lock'[x][j] = q
<1>1. lock \in [Roots -> [Keys -> Procs \cup {None}]]
  BY DEF IInv, Typed
<1>2. \A x \in Roots, j \in Keys :
        lock'[x][j] = IF x = r /\ j = k /\ lock[x][j] = p THEN None ELSE lock[x][j]
  BY <1>1
<1> QED BY <1>1, <1>2

\* The end of a job, which leaves the rows alone.
LEMMA EndsKeeps ==
  ASSUME IInv, NEW p \in Procs, pc[p] \in {"open"} \cup Locked, NEW s \in {"error", "fetched"},
         Ends(p, s), UNCHANGED faults, store' \in [Roots -> [Keys -> Directory]],
         \A q \in Procs \ {p}, r \in Roots, k \in Keys :
           lock[r][k] = q => store'[r][k].source = store[r][k].source
  PROVE  Change(p)
<1>1. /\ Key(p) \in Keys /\ cmd[p].kind \in {"fetch", "worker"} /\ line[p] <= Len(cmd[p].urls)
      /\ target[p] \in Roots /\ rows[Key(p)].root = target[p]
  BY DEF IInv, At, Outside, Locked
<1>2. /\ UNCHANGED <<rows, queued, default, known, target, wanted, adopt, promised>>
      /\ quiet' \in [Procs -> BOOLEAN] /\ claim' \in [Keys -> Procs \cup {None}]
  BY <1>1 DEF Ends, Changed, IInv, Typed
<1>3. /\ lock' \in [Roots -> [Keys -> Procs \cup {None}]]
      /\ \A q \in Procs \ {p}, x \in Roots, j \in Keys : lock[x][j] = q => lock'[x][j] = q
  BY <1>1, Unlocks DEF Ends
<1>4. Kept /\ Left(p)
  BY <1>2, <1>3 DEF Kept, Left
<1>5. \A k \in Keys : Remembers(rows', known'[p][k], k)
  BY <1>2, <1>4, StillTrue DEF IInv, At
<1>6. CASE cmd[p].kind = "worker"
  <2>1. cmd' = [cmd EXCEPT ![p] = [cmd[p] EXCEPT !.urls = <<>>]] /\ Goto(p, "line")
    BY <1>6 DEF Ends, Is
  <2>2. <<>> \in Seq(Urls \cup Places \cup Claimed) /\ Len(<<>>) = 0
    OBVIOUS
  <2>3. cmd \in [Procs -> Orders] /\ cmd[p] \in Orders
    BY DEF IInv, Typed
  <2>4. [cmd[p] EXCEPT !.urls = <<>>] \in Orders
    BY <2>2, <2>3 DEF Orders
  <2>5. /\ cmd' \in [Procs -> Orders] /\ \A q \in Procs \ {p} : cmd'[q] = cmd[q]
        /\ cmd'[p] = [cmd[p] EXCEPT !.urls = <<>>]
    BY <2>1, <2>3, <2>4
  <2>6. cmd'[p].kind = "worker" /\ cmd'[p].urls = <<>>
    BY <1>6, <2>3, <2>5 DEF Orders
  <2>7. /\ pc' \in [Procs -> Steps] /\ pc'[p] = "line" /\ UNCHANGED <<line, results>>
        /\ \A q \in Procs \ {p} : pc'[q] = pc[q]
    BY <2>1 DEF Goto, IInv, Typed, Steps
  <2>8. Typed'
    BY <1>2, <1>3, <2>5, <2>7 DEF IInv, Typed
  <2>9. Own(p)
    BY <1>2, <2>5, <2>7 DEF Own
  <2>10. Proper(cmd'[p])
    BY <2>2, <2>6 DEF Proper
  <2>11. At(p)'
    BY <1>5, <2>6, <2>7, <2>10 DEF At, Outside, Locked, Batch
  <2>12. Reported(p)'
    BY <1>2, <1>4, <1>6, <2>6, <2>7, SameReports DEF Batch
  <2> QED BY <1>4, <2>8, <2>9, <2>11, <2>12 DEF Change
<1>7. CASE cmd[p].kind = "fetch"
  <2> DEFINE a == [status |-> s, key |-> Key(p), root |-> target[p]]
  <2>1. a \in Result /\ Answer(p, a.status, a.key, a.root) /\ True(rows', a) /\ UNCHANGED cmd
    BY <1>1, <1>2, <1>7 DEF Result, Ends, Is, True
  <2>2. ~Batch(p) /\ cmd[p].kind # "queue"
    BY <1>7 DEF Batch
  <2> HIDE DEF a
  <2>3. /\ pc' \in [Procs -> Steps] /\ line' \in [Procs -> Nat \ {0}]
        /\ results' \in [Procs -> Seq(Result)]
        /\ \A q \in Procs \ {p} : pc'[q] = pc[q] /\ line'[q] = line[q] /\ results'[q] = results[q]
        /\ At(p)' /\ Reported(p)'
    BY <1>1, <1>2, <1>4, <1>5, <2>1, <2>2, AnswerKeeps
  <2>4. Typed'
    BY <1>2, <1>3, <2>1, <2>3 DEF IInv, Typed
  <2>5. Own(p)
    BY <1>2, <2>1, <2>3 DEF Own
  <2> QED BY <1>4, <2>3, <2>4, <2>5 DEF Change
<1> QED BY <1>1, <1>6, <1>7

\* One field of one directory changes.
LEMMA StoreState ==
  ASSUME IInv, NEW r \in Roots, NEW k \in Keys, NEW s \in {"absent", "supplied", "ready"},
         store' = [store EXCEPT ![r][k].state = s]
  PROVE  /\ store' \in [Roots -> [Keys -> Directory]]
         /\ \A x \in Roots, j \in Keys : store'[x][j].source = store[x][j].source
         /\ \A x \in Roots, j \in Keys : x # r \/ j # k => store'[x][j] = store[x][j]
         /\ store'[r][k].state = s
<1>1. store \in [Roots -> [Keys -> Directory]]
  BY DEF IInv, Typed
<1>2. [store[r][k] EXCEPT !.state = s] \in Directory
  <2>1. store[r][k] \in Directory
    BY <1>1
  <2> QED BY <2>1 DEF Directory
<1>3. store' = [store EXCEPT ![r] = [store[r] EXCEPT ![k] = [store[r][k] EXCEPT !.state = s]]]
  OBVIOUS
<1>4. \A x \in Roots, j \in Keys :
        store'[x][j] = IF x = r /\ j = k THEN [store[r][k] EXCEPT !.state = s] ELSE store[x][j]
  BY <1>1, <1>3
<1>5. store' \in [Roots -> [Keys -> Directory]]
  <2>1. [store[r] EXCEPT ![k] = [store[r][k] EXCEPT !.state = s]] \in [Keys -> Directory]
    BY <1>1, <1>2
  <2> QED BY <1>1, <1>3, <2>1
<1>6. /\ [store[r][k] EXCEPT !.state = s].source = store[r][k].source
      /\ [store[r][k] EXCEPT !.state = s].state = s
  BY <1>1 DEF Directory
<1> QED BY <1>4, <1>5, <1>6

LEMMA StoreSource ==
  ASSUME IInv, NEW r \in Roots, NEW k \in Keys, NEW s \in Sources \cup {None},
         store' = [store EXCEPT ![r][k].source = s]
  PROVE  /\ store' \in [Roots -> [Keys -> Directory]]
         /\ \A x \in Roots, j \in Keys : store'[x][j].state = store[x][j].state
         /\ \A x \in Roots, j \in Keys : x # r \/ j # k => store'[x][j] = store[x][j]
         /\ store'[r][k].source = s
<1>1. store \in [Roots -> [Keys -> Directory]]
  BY DEF IInv, Typed
<1>2. [store[r][k] EXCEPT !.source = s] \in Directory
  <2>1. store[r][k] \in Directory
    BY <1>1
  <2> QED BY <2>1 DEF Directory
<1>3. store' = [store EXCEPT ![r] = [store[r] EXCEPT ![k] = [store[r][k] EXCEPT !.source = s]]]
  OBVIOUS
<1>4. \A x \in Roots, j \in Keys :
        store'[x][j] = IF x = r /\ j = k THEN [store[r][k] EXCEPT !.source = s] ELSE store[x][j]
  BY <1>1, <1>3
<1>5. store' \in [Roots -> [Keys -> Directory]]
  <2>1. [store[r] EXCEPT ![k] = [store[r][k] EXCEPT !.source = s]] \in [Keys -> Directory]
    BY <1>1, <1>2
  <2> QED BY <1>1, <1>3, <2>1
<1>6. /\ [store[r][k] EXCEPT !.source = s].state = store[r][k].state
      /\ [store[r][k] EXCEPT !.source = s].source = s
  BY <1>1 DEF Directory
<1> QED BY <1>4, <1>5, <1>6

LEMMA ReleasedStore ==
  ASSUME IInv, NEW p \in Procs, pc[p] = "transfer", Released(p)
  PROVE  /\ store' \in [Roots -> [Keys -> Directory]]
         /\ \A q \in Procs \ {p}, r \in Roots, k \in Keys :
              lock[r][k] = q => store'[r][k].source = store[r][k].source
         /\ \A r \in Roots, k \in Keys :
              store'[r][k].state = store[r][k].state /\
              (store[r][k].state # "absent" => store'[r][k] = store[r][k])
<1>1. target[p] \in Roots /\ Key(p) \in Keys /\ lock[target[p]][Key(p)] = p
  BY DEF IInv, At, Outside, Locked, Holds
<1> DEFINE s == IF Place(p).state = "absent" THEN None ELSE store[target[p]][Key(p)].source
<1>2. store[target[p]][Key(p)] \in Directory
  BY <1>1 DEF IInv, Typed
<1>3. s \in Sources \cup {None}
  BY <1>2 DEF Directory
<1>4. store' = [store EXCEPT ![target[p]][Key(p)].source = s]
  BY DEF Released
<1>5. Place(p).state # "absent" => s = store[target[p]][Key(p)].source
  OBVIOUS
<1> HIDE DEF s
<1>6. /\ store' \in [Roots -> [Keys -> Directory]]
      /\ \A x \in Roots, j \in Keys : store'[x][j].state = store[x][j].state
      /\ \A x \in Roots, j \in Keys : x # target[p] \/ j # Key(p) => store'[x][j] = store[x][j]
      /\ store'[target[p]][Key(p)].source = s
  <2> DEFINE r == target[p]
  <2> DEFINE k == Key(p)
  <2>1. r \in Roots /\ k \in Keys /\ store' = [store EXCEPT ![r][k].source = s]
    BY <1>1, <1>4
  <2> HIDE DEF r, k
  <2>2. /\ store' \in [Roots -> [Keys -> Directory]]
        /\ \A x \in Roots, j \in Keys : store'[x][j].state = store[x][j].state
        /\ \A x \in Roots, j \in Keys : x # r \/ j # k => store'[x][j] = store[x][j]
        /\ store'[r][k].source = s
    BY <1>3, <2>1, StoreSource
  <2> QED BY <2>2 DEF r, k
<1>7. ASSUME NEW x \in Roots, NEW j \in Keys, store[x][j].state # "absent"
      PROVE  store'[x][j] = store[x][j]
  <2>1. CASE x # target[p] \/ j # Key(p)
    BY <1>6, <2>1
  <2>2. CASE x = target[p] /\ j = Key(p)
    <3>1. store'[x][j].source = store[x][j].source /\ store'[x][j].state = store[x][j].state
      BY <1>5, <1>6, <1>7, <2>2 DEF Place
    <3>2. store[x][j] \in Directory /\ store'[x][j] \in Directory
      BY <1>6 DEF IInv, Typed
    <3> QED BY <3>1, <3>2 DEF Directory
  <2> QED BY <2>1, <2>2
<1>8. ASSUME NEW q \in Procs \ {p}, NEW r \in Roots, NEW k \in Keys, lock[r][k] = q
      PROVE  store'[r][k].source = store[r][k].source
  BY <1>1, <1>6, <1>8
<1> QED BY <1>6, <1>7, <1>8

LEMMA EndingsKeep ==
  ASSUME IInv, NEW p \in Procs,
         OpenFails(p) \/ AdoptionRefused(p) \/ BindFails(p) \/ Fetched(p) \/ FetchFails(p)
  PROVE  Change(p)
<1>1. store \in [Roots -> [Keys -> Directory]]
  BY DEF IInv, Typed
<1>2. CASE OpenFails(p) \/ AdoptionRefused(p) \/ BindFails(p)
  <2>1. pc[p] \in {"open"} \cup Locked /\ Ends(p, "error") /\ UNCHANGED <<store, faults>>
    BY <1>2 DEF OpenFails, AdoptionRefused, BindFails, Locked
  <2> QED BY <1>1, <2>1, EndsKeeps
<1>3. CASE Fetched(p)
  <2>1. pc[p] \in {"open"} \cup Locked /\ Ends(p, "fetched") /\ UNCHANGED faults
    BY <1>3 DEF Fetched, Locked
  <2>2. target[p] \in Roots /\ Key(p) \in Keys
    BY <1>3 DEF Fetched, IInv, At, Outside, Locked
  <2>3. store' = [store EXCEPT ![target[p]][Key(p)].state = "ready"]
    BY <1>3 DEF Fetched
  <2>4. /\ store' \in [Roots -> [Keys -> Directory]]
        /\ \A x \in Roots, j \in Keys : store'[x][j].source = store[x][j].source
    BY <2>2, <2>3, StoreState
  <2> QED BY <2>1, <2>4, EndsKeeps
<1>4. CASE FetchFails(p)
  <2>1. /\ pc[p] \in {"open"} \cup Locked /\ pc[p] = "transfer" /\ Ends(p, "error")
        /\ UNCHANGED faults /\ Released(p)
    BY <1>4 DEF FetchFails, Locked
  <2> QED BY <2>1, ReleasedStore, EndsKeeps
<1> QED BY <1>2, <1>3, <1>4

\* Steps of a fetch that go on, with the directory locked.
LEMMA LockedGoto ==
  ASSUME IInv, NEW p \in Procs, NEW to \in Locked, Goto(p, to), pc[p] \in {"open"} \cup Locked,
         UNCHANGED <<queued, claim, default, local, faults>>, quiet' \in [Procs -> BOOLEAN],
         lock' \in [Roots -> [Keys -> Procs \cup {None}]], lock'[target[p]][Key(p)] = p,
         store' \in [Roots -> [Keys -> Directory]],
         rows' \in [Keys -> Row], Kept, \A k \in Keys : Rooted(rows'[k]), Left(p),
         to = "publish" => store'[target[p]][Key(p)].source = wanted[p]
  PROVE  Change(p)
<1>1. /\ Key(p) \in Keys /\ cmd[p].kind \in {"fetch", "worker"} /\ line[p] <= Len(cmd[p].urls)
      /\ target[p] \in Roots /\ rows[Key(p)].root = target[p] /\ to \in Steps
  BY DEF IInv, At, Outside, Locked, Steps
<1>2. UNCHANGED <<cmd, known, target, wanted, adopt, promised>>
  BY DEF local
<1>3. /\ pc' \in [Procs -> Steps] /\ pc'[p] = to /\ UNCHANGED <<line, results>>
      /\ \A q \in Procs \ {p} : pc'[q] = pc[q]
      /\ Reported(p)'
  BY <1>1, <1>2, GotoKeeps
<1>4. queued \subseteq {j \in Keys : rows'[j].root \in Roots}
  BY DEF IInv, Typed, Kept
<1>5. Typed'
  BY <1>2, <1>3, <1>4 DEF IInv, Typed
<1>6. Own(p)
  BY <1>2, <1>3 DEF Own
<1>7. rows'[Key(p)].root = target[p]
  BY <1>1 DEF Kept
<1>8. \A k \in Keys : Remembers(rows', known'[p][k], k)
  BY <1>2, StillTrue DEF IInv, At
<1>9. Key(p)' = Key(p) /\ (Batch(p)' <=> Batch(p)) /\ ~Batch(p)
  BY <1>1, <1>2, <1>3 DEF Key, Input, Batch
<1>10. Proper(cmd[p])'
  BY <1>2 DEF IInv, At, Proper
<1>11. At(p)'
  BY <1>1, <1>2, <1>3, <1>7, <1>8, <1>9, <1>10 DEF At, Outside, Locked, Holds, Place
<1> QED BY <1>3, <1>5, <1>6, <1>11 DEF Change

\* A free directory gets a holder.
LEMMA Locks ==
  ASSUME IInv, NEW p \in Procs, NEW r \in Roots, NEW k \in Keys, lock[r][k] = None,
         lock' = [lock EXCEPT ![r][k] = p]
  PROVE  /\ lock' \in [Roots -> [Keys -> Procs \cup {None}]] /\ lock'[r][k] = p
         /\ \A q \in Procs \ {p}, x \in Roots, j \in Keys : lock[x][j] = q => lock'[x][j] = q
<1>1. lock \in [Roots -> [Keys -> Procs \cup {None}]]
  BY DEF IInv, Typed
<1>2. \A x \in Roots, j \in Keys : lock'[x][j] = IF x = r /\ j = k THEN p ELSE lock[x][j]
  BY <1>1
<1>3. lock' \in [Roots -> [Keys -> Procs \cup {None}]]
  BY <1>1
<1> QED BY <1>2, <1>3, RegistrationAssumption

LEMMA OpenKeeps ==
  ASSUME IInv, NEW p \in Procs, Open(p)
  PROVE  Change(p)
<1>1. /\ pc[p] = "open" /\ Goto(p, "bind") /\ UNCHANGED <<index, default, local, faults>>
      /\ quiet' \in [Procs -> BOOLEAN] /\ lock[target[p]][Key(p)] = None
      /\ lock' = [lock EXCEPT ![target[p]][Key(p)] = p]
  BY DEF Open, Changed, IInv, Typed
<1>2. target[p] \in Roots /\ Key(p) \in Keys
  BY <1>1 DEF IInv, At, Outside
<1>3. /\ lock' \in [Roots -> [Keys -> Procs \cup {None}]] /\ lock'[target[p]][Key(p)] = p
      /\ \A q \in Procs \ {p}, x \in Roots, j \in Keys : lock[x][j] = q => lock'[x][j] = q
  BY <1>1, <1>2, Locks
<1> DEFINE s == IF store[target[p]][Key(p)].state = "supplied" THEN "ready"
                ELSE store[target[p]][Key(p)].state
<1>4. store[target[p]][Key(p)] \in Directory
  BY <1>2 DEF IInv, Typed
<1>5. s \in {"absent", "supplied", "ready"} /\ store' = [store EXCEPT ![target[p]][Key(p)].state = s]
  BY <1>4 DEF Directory, Open
<1> HIDE DEF s
<1>6. /\ store' \in [Roots -> [Keys -> Directory]]
      /\ \A x \in Roots, j \in Keys : store'[x][j].source = store[x][j].source
  BY <1>2, <1>5, StoreState
<1>7. Left(p) /\ Kept
  BY <1>1, <1>3, <1>6 DEF Left, Kept, index
<1> QED BY <1>1, <1>3, <1>6, <1>7, LockedGoto DEF Locked, index, IInv, Typed

LEMMA BindKeeps ==
  ASSUME IInv, NEW p \in Procs, Bind(p)
  PROVE  Change(p)
<1>1. /\ pc[p] = "bind" /\ Goto(p, "publish") /\ UNCHANGED <<index, default, lock, local, faults>>
      /\ quiet' \in [Procs -> BOOLEAN]
      /\ store' = [store EXCEPT ![target[p]][Key(p)].source = wanted[p]]
  BY DEF Bind, Changed, IInv, Typed
<1>2. /\ target[p] \in Roots /\ Key(p) \in Keys /\ lock[target[p]][Key(p)] = p
      /\ wanted[p] \in Sources \cup {None}
  BY <1>1 DEF IInv, At, Outside, Locked, Holds, Typed
<1>3. /\ store' \in [Roots -> [Keys -> Directory]]
      /\ \A x \in Roots, j \in Keys : x # target[p] \/ j # Key(p) => store'[x][j] = store[x][j]
      /\ store'[target[p]][Key(p)].source = wanted[p]
  <2> DEFINE r == target[p]
  <2> DEFINE k == Key(p)
  <2> DEFINE s == wanted[p]
  <2>1. /\ r \in Roots /\ k \in Keys /\ s \in Sources \cup {None}
        /\ store' = [store EXCEPT ![r][k].source = s]
    BY <1>1, <1>2
  <2> HIDE DEF r, k, s
  <2>2. /\ store' \in [Roots -> [Keys -> Directory]]
        /\ \A x \in Roots, j \in Keys : x # r \/ j # k => store'[x][j] = store[x][j]
        /\ store'[r][k].source = s
    BY <2>1, StoreSource
  <2> QED BY <2>2 DEF r, k, s
<1>4. Left(p) /\ Kept
  BY <1>1, <1>2, <1>3 DEF Left, Kept, index
<1> QED BY <1>1, <1>2, <1>3, <1>4, LockedGoto DEF Locked, index, IInv, Typed

LEMMA PublishKeeps ==
  ASSUME IInv, NEW p \in Procs, Publish(p)
  PROVE  Change(p)
<1>1. /\ pc[p] = "publish" /\ Goto(p, "transfer")
      /\ UNCHANGED <<queued, claim, store, default, lock, local, faults>>
      /\ quiet' \in [Procs -> BOOLEAN]
      /\ rows' = [rows EXCEPT ![Key(p)] = [rows[Key(p)] EXCEPT !.source = wanted[p]]]
  BY DEF Publish, Changed, IInv, Typed
<1>2. /\ target[p] \in Roots /\ Key(p) \in Keys /\ lock[target[p]][Key(p)] = p
      /\ wanted[p] \in Sources \cup {None} /\ rows[Key(p)].root = target[p]
  BY <1>1 DEF IInv, At, Outside, Locked, Holds, Typed
<1>3. rows \in [Keys -> Row] /\ rows[Key(p)] \in Row
  BY <1>2 DEF IInv, Typed
<1>4. /\ [rows[Key(p)] EXCEPT !.source = wanted[p]] \in Row
      /\ [rows[Key(p)] EXCEPT !.source = wanted[p]].root = target[p]
  BY <1>2, <1>3 DEF Row
<1> DEFINE row == [rows[Key(p)] EXCEPT !.source = wanted[p]]
<1>5. rows' \in [Keys -> Row] /\ \A k \in Keys : rows'[k].root = rows[k].root
  <2>1. rows' = [rows EXCEPT ![Key(p)] = row] /\ row \in Row /\ row.root = rows[Key(p)].root
    BY <1>1, <1>2, <1>4
  <2> HIDE DEF row
  <2>2. \A k \in Keys : rows'[k] = IF k = Key(p) THEN row ELSE rows[k]
    BY <1>3, <2>1
  <2> QED BY <1>3, <2>1, <2>2
<1>6. \A k \in Keys : k # Key(p) => rows'[k] = rows[k]
  BY <1>1, <1>3
<1>7. \A k \in Keys : Rooted(rows'[k])
  BY <1>2, <1>5, <1>6 DEF IInv, Typed, Rooted
<1>8. Left(p) /\ Kept
  BY <1>1, <1>5 DEF Left, Kept
<1> QED BY <1>1, <1>2, <1>5, <1>7, <1>8, LockedGoto DEF Locked, IInv, Typed

LEMMA LapseKeeps ==
  ASSUME IInv, NEW p \in Procs, NEW handled \in BOOLEAN, Lapse(p, handled)
  PROVE  Change(p)
<1> DEFINE to == IF handled /\ Is(p, {"worker"}) THEN "line" ELSE "aborted"
<1>1. /\ pc[p] \in {"open"} \cup Locked /\ Goto(p, to) /\ to \in Steps /\ to \in {"line", "aborted"}
      /\ UNCHANGED <<rows, queued, default, cmd, known, target, wanted, adopt, promised>>
      /\ quiet' \in [Procs -> BOOLEAN]
  BY DEF Lapse, Locked, Steps, Changed, IInv, Typed
<1>2. /\ Key(p) \in Keys /\ target[p] \in Roots /\ cmd[p].kind \in {"fetch", "worker"}
  BY <1>1 DEF IInv, At, Outside, Locked
<1>3. faults' \in 0 .. Faults /\ claim' \in [Keys -> Procs \cup {None}]
  <2>1. faults \in 0 .. Faults /\ Faults \in Nat /\ faults > 0 /\ faults' = faults - 1
    BY RegistrationAssumption DEF Lapse, IInv, Typed
  <2>2. claim' = [claim EXCEPT ![Key(p)] = None] /\ claim \in [Keys -> Procs \cup {None}]
    BY DEF Lapse, IInv, Typed
  <2>3. claim' \in [Keys -> Procs \cup {None}]
    BY <1>2, <2>2
  <2> QED BY <2>1, <2>3
<1>4. /\ lock' \in [Roots -> [Keys -> Procs \cup {None}]]
      /\ \A q \in Procs \ {p}, x \in Roots, j \in Keys : lock[x][j] = q => lock'[x][j] = q
  BY <1>2, Unlocks DEF Lapse
<1>5. /\ store' \in [Roots -> [Keys -> Directory]]
      /\ \A q \in Procs \ {p}, r \in Roots, k \in Keys :
           lock[r][k] = q => store'[r][k].source = store[r][k].source
  <2>1. CASE UNCHANGED store
    BY <2>1 DEF IInv, Typed
  <2>2. CASE pc[p] = "transfer" /\ Released(p)
    BY <2>2, ReleasedStore
  <2> QED BY <2>1, <2>2 DEF Lapse
<1>6. Kept /\ Left(p)
  BY <1>1, <1>4, <1>5 DEF Kept, Left
<1> HIDE DEF to
<1>7. /\ pc' \in [Procs -> Steps] /\ pc'[p] = to /\ UNCHANGED <<line, results>>
      /\ \A q \in Procs \ {p} : pc'[q] = pc[q]
      /\ Reported(p)'
  BY <1>1, <1>6, GotoKeeps
<1>8. Typed'
  BY <1>1, <1>3, <1>4, <1>5, <1>7 DEF IInv, Typed
<1>9. Own(p)
  BY <1>1, <1>7 DEF Own
<1>10. At(p)'
  BY <1>1, <1>2, <1>7 DEF IInv, At, Proper, Outside, Locked, Batch
<1> QED BY <1>6, <1>7, <1>8, <1>9, <1>10 DEF Change

---------------------------------------------------------------------------
(* Audits *)

LEMMA AuditOpenKeeps ==
  ASSUME IInv, NEW p \in Procs, AuditOpen(p)
  PROVE  Change(p)
<1> DEFINE r == Root(p)
<1> DEFINE k == Key(p)
<1>1. /\ cmd[p].kind = "audit" /\ line[p] <= Len(cmd[p].urls) /\ Goto(p, "add") /\ "add" \in Steps
      /\ UNCHANGED <<index, default, cmd, known, wanted, adopt, promised, faults>>
      /\ quiet' \in [Procs -> BOOLEAN]
      /\ lock[r][k] = None /\ lock' = [lock EXCEPT ![r][k] = p]
      /\ store' = [store EXCEPT ![r][k].state = "ready"]
      /\ target' = [target EXCEPT ![p] = r] /\ known[p][k].root \in {None, r}
  BY DEF AuditOpen, Is, HasInput, Steps, Changed, IInv, Typed
<1>2. r \in Roots /\ k \in Keys
  BY <1>1, InputIs
<1> HIDE DEF r, k
<1>3. /\ lock' \in [Roots -> [Keys -> Procs \cup {None}]] /\ lock'[r][k] = p
      /\ \A q \in Procs \ {p}, x \in Roots, j \in Keys : lock[x][j] = q => lock'[x][j] = q
  BY <1>1, <1>2, Locks
<1>4. /\ store' \in [Roots -> [Keys -> Directory]]
      /\ \A x \in Roots, j \in Keys : store'[x][j].source = store[x][j].source
  BY <1>1, <1>2, StoreState
<1>5. Left(p) /\ Kept
  BY <1>1, <1>3, <1>4 DEF Left, Kept, index
<1>6. /\ pc' \in [Procs -> Steps] /\ pc'[p] = "add" /\ UNCHANGED <<line, results>>
      /\ \A q \in Procs \ {p} : pc'[q] = pc[q]
      /\ Reported(p)'
  BY <1>1, <1>5, GotoKeeps
<1>7. /\ target' \in [Procs -> Roots \cup {None}] /\ target'[p] = r
      /\ \A q \in Procs \ {p} : target'[q] = target[q]
  BY <1>1, <1>2 DEF IInv, Typed
<1>8. Typed'
  BY <1>1, <1>3, <1>4, <1>6, <1>7 DEF IInv, Typed, index
<1>9. Own(p)
  BY <1>1, <1>6, <1>7 DEF Own
<1>10. Root(p)' = r /\ Key(p)' = k /\ ~Batch(p)
  BY <1>1, <1>6 DEF Root, Key, Input, Batch, r, k
<1>11. \A j \in Keys : Remembers(rows', known'[p][j], j)
  BY <1>1, <1>5, StillTrue DEF IInv, At
<1>12. At(p)'
  BY <1>1, <1>2, <1>3, <1>6, <1>7, <1>10, <1>11 DEF IInv, At, Proper, Outside, Locked, Batch, Holds
<1> QED BY <1>5, <1>6, <1>8, <1>9, <1>12 DEF Change

\* The end of a visit, which releases the directory.
LEMMA VisitEnds ==
  ASSUME IInv, NEW p \in Procs, pc[p] = "add", AuditUnlock(p), NEW a \in Result,
         Answer(p, a.status, a.key, a.root), a.status \in Good => True(rows', a),
         UNCHANGED <<queued, claim, store, default, cmd, target, wanted, adopt, promised, faults>>,
         quiet' \in [Procs -> BOOLEAN], Kept, rows' \in [Keys -> Row],
         \A k \in Keys : Rooted(rows'[k]),
         known' \in [Procs -> [Keys -> Row]], \A q \in Procs \ {p} : known'[q] = known[q],
         \A k \in Keys : Remembers(rows', known'[p][k], k)
  PROVE  Change(p)
<1>1. /\ cmd[p].kind = "audit" /\ line[p] <= Len(cmd[p].urls) /\ Root(p) \in Roots /\ Key(p) \in Keys
      /\ lock[Root(p)][Key(p)] = p
  BY DEF IInv, At, Outside, Locked, Holds
<1>3. /\ lock' \in [Roots -> [Keys -> Procs \cup {None}]]
      /\ \A q \in Procs \ {p}, x \in Roots, j \in Keys : lock[x][j] = q => lock'[x][j] = q
  <2> DEFINE r == Root(p)
  <2> DEFINE k == Key(p)
  <2>1. lock \in [Roots -> [Keys -> Procs \cup {None}]]
    BY DEF IInv, Typed
  <2>2. r \in Roots /\ k \in Keys /\ lock[r][k] = p /\ lock' = [lock EXCEPT ![r][k] = None]
    BY <1>1 DEF AuditUnlock
  <2> HIDE DEF r, k
  <2>3. \A x \in Roots, j \in Keys : lock'[x][j] = IF x = r /\ j = k THEN None ELSE lock[x][j]
    BY <2>1, <2>2
  <2>4. lock' \in [Roots -> [Keys -> Procs \cup {None}]]
    BY <2>1, <2>2
  <2> QED BY <2>2, <2>3, <2>4
<1>4. Left(p)
  BY <1>3 DEF Left
<1>5. ~Batch(p) /\ cmd[p].kind # "queue" /\ ~Previewing(p)
  BY <1>1 DEF Batch, Previewing
<1>6. /\ pc' \in [Procs -> Steps] /\ line' \in [Procs -> Nat \ {0}]
      /\ results' \in [Procs -> Seq(Result)]
      /\ \A q \in Procs \ {p} : pc'[q] = pc[q] /\ line'[q] = line[q] /\ results'[q] = results[q]
      /\ At(p)' /\ Reported(p)'
  BY <1>1, <1>5, AnswerKeeps
<1>7. queued \subseteq {k \in Keys : rows'[k].root \in Roots}
  BY DEF IInv, Typed, Kept
<1>8. Typed'
  BY <1>3, <1>6, <1>7 DEF IInv, Typed
<1>9. Own(p)
  BY <1>6 DEF Own
<1> QED BY <1>4, <1>6, <1>8, <1>9 DEF Change

LEMMA VisitsKeep ==
  ASSUME IInv, NEW p \in Procs, AuditAdd(p) \/ AuditConflict(p) \/ AuditKnown(p)
  PROVE  Change(p)
<1>1. /\ pc[p] = "add" /\ AuditUnlock(p) /\ Root(p) \in Roots /\ Key(p) \in Keys
      /\ known[p][Key(p)].root \in {None, Root(p)}
      /\ UNCHANGED <<queued, claim, store, default, cmd, target, wanted, adopt, promised, faults>>
      /\ quiet' \in [Procs -> BOOLEAN]
  BY DEF AuditAdd, AuditConflict, AuditKnown, Changed, IInv, Typed, At, Outside, index, local
<1>2. rows \in [Keys -> Row] /\ \A k \in Keys : Rooted(rows[k])
  BY DEF IInv, Typed
<1>3. known \in [Procs -> [Keys -> Row]]
  BY DEF IInv, Typed
<1>4. CASE AuditAdd(p)
  <2> DEFINE a == [status |-> "registered", key |-> Key(p), root |-> Root(p)]
  <2>1. store[Root(p)][Key(p)].source \in Sources \cup {None}
    <3>1. store[Root(p)][Key(p)] \in Directory
      BY <1>1 DEF IInv, Typed
    <3> QED BY <3>1 DEF Directory
  <2>2. Added(Key(p), store[Root(p)][Key(p)].source, Root(p), FALSE)
    BY <1>4 DEF AuditAdd, Found
  <2>3. /\ rows' \in [Keys -> Row] /\ \A j \in Keys : Rooted(rows'[j])
        /\ rows'[Key(p)].root = Root(p) /\ Kept
    BY <1>1, <2>1, <2>2, AddedRow
  <2>4. a \in Result /\ Answer(p, a.status, a.key, a.root) /\ True(rows', a)
    BY <1>1, <1>4, <2>3 DEF Result, AuditAdd, True
  <2>5. known' = [known EXCEPT ![p][Key(p)] = rows'[Key(p)]]
    BY <1>4 DEF AuditAdd
  <2>6. /\ known' \in [Procs -> [Keys -> Row]] /\ \A q \in Procs \ {p} : known'[q] = known[q]
        /\ \A k \in Keys : known'[p][k] = known[p][k] \/ known'[p][k] = rows'[k]
    <3>1. rows'[Key(p)] \in Row
      BY <1>1, <2>3
    <3> QED BY <1>1, <1>3, <2>5, <3>1
  <2>7. \A k \in Keys : Remembers(rows', known'[p][k], k)
    <3>1. \A k \in Keys : Remembers(rows', rows'[k], k)
      BY <2>3 DEF Rooted, Remembers
    <3>2. \A k \in Keys : Remembers(rows', known[p][k], k)
      BY <2>3, StillTrue DEF IInv, At
    <3> QED BY <2>6, <3>1, <3>2
  <2> HIDE DEF a
  <2> QED BY <1>1, <2>3, <2>4, <2>6, <2>7, VisitEnds
<1>5. ASSUME UNCHANGED <<rows, known>>
      PROVE  /\ Kept /\ rows' \in [Keys -> Row] /\ \A k \in Keys : Rooted(rows'[k])
             /\ known' \in [Procs -> [Keys -> Row]] /\ \A q \in Procs \ {p} : known'[q] = known[q]
             /\ \A k \in Keys : Remembers(rows', known'[p][k], k)
  BY <1>2, <1>3, <1>5 DEF Kept, IInv, At
<1>6. CASE AuditConflict(p)
  <2> DEFINE a == [status |-> "issue", key |-> None, root |-> None]
  <2>1. /\ a \in Result /\ Answer(p, a.status, a.key, a.root) /\ a.status \notin Good
        /\ UNCHANGED <<rows, known>>
    BY <1>6 DEF Result, AuditConflict, Good, index, local
  <2> HIDE DEF a
  <2> QED BY <1>1, <1>5, <2>1, VisitEnds
<1>7. CASE AuditKnown(p)
  <2> DEFINE a == [status |-> "existing", key |-> Key(p), root |-> Root(p)]
  <2>1. rows[Key(p)].root = Root(p)
    <3>1. known[p][Key(p)] # NoRow /\ Remembers(rows, known[p][Key(p)], Key(p))
      BY <1>1, <1>7 DEF AuditKnown, IInv, At
    <3> QED BY <1>1, <3>1, RegistrationAssumption DEF Remembers
  <2>2. /\ a \in Result /\ Answer(p, a.status, a.key, a.root) /\ UNCHANGED <<rows, known>>
        /\ True(rows', a)
    BY <1>1, <1>7, <2>1 DEF Result, AuditKnown, True, index, local
  <2> HIDE DEF a
  <2> QED BY <1>1, <1>5, <2>2, VisitEnds
<1> QED BY <1>4, <1>6, <1>7

---------------------------------------------------------------------------
(* The invariant holds *)

LEMMA InitIInv == Init => IInv
<1> SUFFICES ASSUME Init PROVE IInv
  OBVIOUS
<1>1. NoRow \in Row /\ Rooted(NoRow)
  BY DEF NoRow, Row, Rooted
<1>2. cmd \in [Procs -> Orders] /\ \A p \in Procs : Proper(cmd[p])
  <2>1. cmd \in [Procs -> UNION {Commands[p] : p \in Procs}] /\ \A p \in Procs : cmd[p] \in Commands[p]
    BY DEF Init
  <2>2. ASSUME NEW p \in Procs PROVE cmd[p] \in Orders /\ Proper(cmd[p])
    <3> DEFINE c == cmd[p]
    <3>1. c \in Commands[p]
      BY <2>1
    <3> HIDE DEF c
    <3>2. /\ c \in [kind: Kinds, urls: Seq(Urls) \cup Seq(Places), root: Roots \cup {None},
                    fetch: BOOLEAN, adopt: BOOLEAN]
          /\ c.kind = "audit" => c.urls \in Seq(Places)
          /\ c.kind = "worker" => c.urls = <<>>
          /\ c.kind \notin {"audit", "worker"} => c.urls \in Seq(Urls)
      BY <3>1, RegistrationAssumption
    <3>3. c.urls \in Seq(Urls \cup Places \cup Claimed)
      <4>1. c.urls \in Seq(Urls) \/ c.urls \in Seq(Places)
        BY <3>2
      <4>2. Urls \subseteq Urls \cup Places \cup Claimed /\ Places \subseteq Urls \cup Places \cup Claimed
        OBVIOUS
      <4> QED BY <4>1, <4>2, SeqMonotonic
    <3>4. c \in Orders
      BY <3>2, <3>3 DEF Orders
    <3>5. Proper(c)
      <4>1. Len(<<>>) = 0
        OBVIOUS
      <4> QED BY <3>2, <4>1, ElementOfSeq DEF Proper
    <3> QED BY <3>4, <3>5 DEF c
  <2>3. \A p \in Procs : cmd[p] \in Orders
    BY <2>2
  <2>4. cmd \in [Procs -> Orders]
    BY <2>1, <2>3
  <2> QED BY <2>2, <2>4
<1>3. store \in [Roots -> [Keys -> Directory]]
  BY RegistrationAssumption DEF Init
<1>4. <<>> \in Seq(Result) /\ Len(<<>>) = 0
  OBVIOUS
<1>5. faults \in 0 .. Faults
  BY RegistrationAssumption DEF Init
<1>6. Typed
  BY <1>1, <1>2, <1>3, <1>4, <1>5 DEF Init, Typed, Steps
<1>7. \A p \in Procs : At(p)
  BY <1>2 DEF Init, At, Outside, Locked, Batch, Remembers
<1>8. \A p \in Procs : Reported(p)
  <2>1. \A p \in Procs : Len(cmd[p].urls) \in Nat
    BY <1>6, LenProperties DEF Typed, Orders
  <2> SUFFICES ASSUME NEW p \in Procs PROVE Reported(p)
    OBVIOUS
  <2>2. results[p] = <<>> /\ line[p] = 1
    BY DEF Init
  <2>3. Len(results[p]) = 0 /\ 1 .. Len(results[p]) = {}
    BY <1>4, <2>2
  <2>4. Len(results[p]) = line[p] - 1 /\ line[p] <= Len(cmd[p].urls) + 1
    BY <2>1, <2>2, <2>3
  <2> QED BY <2>3, <2>4 DEF Reported
<1> QED BY <1>6, <1>7, <1>8 DEF IInv

LEMMA ProcessKeeps ==
  ASSUME IInv, NEW p \in Procs,
         Registers(p) \/ Queues(p) \/ Fetches(p) \/ Audits(p) \/ Faulty(p)
  PROVE  Change(p)
<1>1. CASE Registers(p)
  BY <1>1, BeginKeeps, DuplicateKeeps, ErrorKeeps, FindTargetKeeps, PreviewKeeps, LookKeeps,
     RegisterKeeps, SubmitKeeps, DoneKeeps DEF Registers
<1>2. CASE Queues(p)
  BY <1>2, SkipsKeep, QueueFetchKeeps, ErrorKeeps DEF Queues
<1>3. CASE Fetches(p)
  BY <1>3, SkipsKeep, FindKeeps, FetchTargetKeeps, RegisterFetchKeeps, ErrorKeeps, ClaimStepKeeps,
     EndingsKeep, ConfirmKeeps, OpenKeeps, BindKeeps, PublishKeeps, WorkerClaimKeeps DEF Fetches
<1>4. CASE Audits(p)
  BY <1>4, BeginKeeps, SkipsKeep, ErrorKeeps, AuditOpenKeeps, VisitsKeep DEF Audits
<1>5. CASE Faulty(p)
  BY <1>5, ErrorKeeps, UncaughtKeeps, LapseKeeps DEF Faulty
<1> QED BY <1>1, <1>2, <1>3, <1>4, <1>5

LEMMA NextKeeps == IInv /\ [Next]_vars => IInv'
<1> SUFFICES ASSUME IInv, [Next]_vars PROVE IInv'
  OBVIOUS
<1>1. ASSUME NEW p \in Procs, Registers(p) \/ Queues(p) \/ Fetches(p) \/ Audits(p) \/ Faulty(p)
      PROVE  IInv'
  BY <1>1, ProcessKeeps, ChangeKeeps
<1>2. CASE Configure \/ UNCHANGED vars
  <2>1. /\ UNCHANGED <<rows, queued, claim, store, lock, cmd, known, target, wanted, adopt, promised,
                       pc, line, results, faults>>
        /\ default' \in Roots \cup {None} /\ quiet' \in [Procs -> BOOLEAN]
    BY <1>2 DEF Configure, vars, index, local, IInv, Typed
  <2>2. Typed'
    BY <2>1 DEF IInv, Typed
  <2>3. ASSUME NEW p \in Procs PROVE At(p)' /\ Reported(p)'
    <3>1. At(p)'
      BY <2>1 DEF IInv, At, Proper, Batch, Key, Root, Input, Holds, Place, Remembers
    <3>2. Kept
      BY <2>1 DEF Kept
    <3> QED BY <2>1, <3>1, <3>2, SameReports
  <2> QED BY <2>2, <2>3 DEF IInv
<1> QED BY <1>1, <1>2 DEF Next

LEMMA Invariant == Spec => []IInv
  BY InitIInv, NextKeeps, PTL DEF Spec

\* Every value is one of its kind, in every reachable state.
THEOREM TypeCorrect == Spec => []TypeOK
<1>1. IInv => TypeOK
  BY DEF IInv, Typed, TypeOK
<1> QED BY <1>1, Invariant, PTL

\* What a command has reported stays true, whoever registers, fetches or adopts
\* at the same time and whatever becomes of the settings.
THEOREM ReportsStayTrue == Spec => []ReportsAreTrue
<1>1. IInv => ReportsAreTrue
  <2> SUFFICES ASSUME IInv, NEW p \in Procs, NEW i \in DOMAIN results[p],
                      results[p][i].status \in Good, ~Previewing(p)
               PROVE  rows[results[p][i].key].root = results[p][i].root
    BY DEF ReportsAreTrue, Good
  <2>1. i \in 1 .. Len(results[p])
    BY LenProperties DEF IInv, Typed
  <2> QED BY <2>1 DEF IInv, Reported, True
<1> QED BY <1>1, Invariant, PTL

\* register_batch answers every line, whatever fails on the way.
THEOREM BatchIsAnswered == Spec => []EveryLineAnswered
<1>1. IInv => EveryLineAnswered
  <2> SUFFICES ASSUME IInv, NEW p \in Procs, Batch(p), pc[p] \in {"done", "aborted"}
               PROVE  pc[p] = "done" /\ Len(results[p]) = Len(cmd[p].urls)
    BY DEF EveryLineAnswered, Batch
  <2>1. pc[p] = "done" /\ line[p] = Len(cmd[p].urls) + 1 /\ Len(results[p]) = line[p] - 1
    BY DEF IInv, At, Reported
  <2>2. Len(cmd[p].urls) \in Nat
    BY LenProperties DEF IInv, Typed, Orders
  <2> QED BY <2>1, <2>2
<1> QED BY <1>1, Invariant, PTL

\* queue acts once on a repository, however its selectors are spelled.
THEOREM QueueActsOnce == Spec => []QueuedOnce
<1>1. IInv => QueuedOnce
  <2> SUFFICES ASSUME IInv, NEW p \in Procs, cmd[p].kind = "queue",
                      NEW i \in DOMAIN results[p], NEW j \in DOMAIN results[p],
                      i # j, results[p][i].key # None
               PROVE  results[p][i].key # results[p][j].key
    BY DEF QueuedOnce
  <2>1. i \in 1 .. Len(results[p]) /\ j \in 1 .. Len(results[p])
    BY LenProperties DEF IInv, Typed
  <2> QED BY <2>1 DEF IInv, Reported
<1> QED BY <1>1, Invariant, PTL

---------------------------------------------------------------------------
(* The row of a repository and its archive *)

\* A step that keeps the rows that agree, and what ready directories are bound to.
Faithful ==
  /\ \A k \in Keys : Agree(k) => rows'[k] = rows[k]
  /\ \A r \in Roots, k \in Keys :
       store[r][k].state = "ready" =>
         store'[r][k].state = "ready" /\ store'[r][k].source = store[r][k].source

LEMMA FaithfulAgrees ==
  ASSUME IInv, Faithful, NEW k \in Keys, Agree(k)
  PROVE  Agree(k)'
<1>1. rows[k].root \in Roots
  BY DEF Agree, IInv, Typed, Rooted
<1> QED BY <1>1 DEF Faithful, Agree

LEMMA NothingChanges ==
  ASSUME IInv, UNCHANGED <<rows, store>>
  PROVE  Faithful
  BY DEF Faithful

\* The steps that add a row; one that is there stays as it is.
LEMMA AddFaithful ==
  ASSUME IInv, NEW p \in Procs, Register(p) \/ RegisterFetch(p) \/ AuditAdd(p)
  PROVE  Faithful
<1>1. Key(p) \in Keys /\ line[p] <= Len(cmd[p].urls) /\ UNCHANGED store
  BY DEF Register, RegisterFetch, AuditAdd, IInv, At, Outside
<1>2. \A j \in Keys : rows[j] # NoRow => rows'[j] = rows[j]
  <2>1. CASE Register(p)
    <3>1. target[p] \in Roots /\ Input(p).source \in Sources \cup {None}
      BY <1>1, <2>1, InputIs DEF Register, Is, IInv, At
    <3> QED BY <1>1, <2>1, <3>1, AddedRow DEF Register
  <2>2. CASE RegisterFetch(p)
    <3>1. target[p] \in Roots /\ wanted[p] \in Sources \cup {None}
      BY <2>2 DEF RegisterFetch, IInv, At, Typed
    <3> QED BY <1>1, <2>2, <3>1, AddedRow DEF RegisterFetch
  <2>3. CASE AuditAdd(p)
    <3>1. Root(p) \in Roots
      BY <2>3 DEF AuditAdd, IInv, At
    <3>2. store[Root(p)][Key(p)] \in Directory
      BY <1>1, <3>1 DEF IInv, Typed
    <3>3. Found(p).source \in Sources \cup {None}
      BY <3>2 DEF Found, Directory
    <3> QED BY <1>1, <2>3, <3>1, <3>3, AddedRow DEF AuditAdd
  <2> QED BY <2>1, <2>2, <2>3
<1> QED BY <1>1, <1>2 DEF Faithful, Agree

\* The steps that make a directory ready.
LEMMA ReadyFaithful ==
  ASSUME IInv, NEW p \in Procs, Open(p) \/ Fetched(p) \/ AuditOpen(p)
  PROVE  Faithful
<1>1. CASE Open(p)
  <2> DEFINE r == target[p]
  <2> DEFINE k == Key(p)
  <2> DEFINE s == IF store[r][k].state = "supplied" THEN "ready" ELSE store[r][k].state
  <2>1. r \in Roots /\ k \in Keys
    BY <1>1 DEF Open, IInv, At, Outside
  <2>2. store' = [store EXCEPT ![r][k].state = s] /\ UNCHANGED rows
    BY <1>1 DEF Open, index
  <2>3. s \in {"absent", "supplied", "ready"}
    <3>1. store[r][k] \in Directory
      BY <2>1 DEF IInv, Typed
    <3> QED BY <3>1 DEF Directory
  <2>4. store[r][k].state = "ready" => s = "ready"
    OBVIOUS
  <2> HIDE DEF r, k, s
  <2> QED BY <2>1, <2>2, <2>3, <2>4, StoreState DEF Faithful
<1>2. CASE Fetched(p)
  <2> DEFINE r == target[p]
  <2> DEFINE k == Key(p)
  <2>1. r \in Roots /\ k \in Keys
    BY <1>2 DEF Fetched, IInv, At, Outside, Locked
  <2>2. store' = [store EXCEPT ![r][k].state = "ready"] /\ UNCHANGED rows
    BY <1>2 DEF Fetched, Ends
  <2> HIDE DEF r, k
  <2> QED BY <2>1, <2>2, StoreState DEF Faithful
<1>3. CASE AuditOpen(p)
  <2> DEFINE r == Root(p)
  <2> DEFINE k == Key(p)
  <2>1. r \in Roots /\ k \in Keys
    BY <1>3, InputIs DEF AuditOpen, Is, HasInput
  <2>2. store' = [store EXCEPT ![r][k].state = "ready"] /\ UNCHANGED rows
    BY <1>3 DEF AuditOpen, index
  <2> HIDE DEF r, k
  <2> QED BY <2>1, <2>2, StoreState DEF Faithful
<1> QED BY <1>1, <1>2, <1>3

\* The steps that bind the directory and the row.
LEMMA BindFaithful ==
  ASSUME IInv, NEW p \in Procs, Bind(p) \/ Publish(p)
  PROVE  Faithful
<1> DEFINE r == target[p]
<1> DEFINE k == Key(p)
<1>1. /\ r \in Roots /\ k \in Keys /\ rows[k].root = r /\ wanted[p] \in Sources \cup {None}
      /\ pc[p] = "publish" => store[r][k].source = wanted[p]
  BY DEF Bind, Publish, IInv, At, Typed, Outside, Locked, Place
<1>2. CASE Bind(p)
  <2>1. /\ store' = [store EXCEPT ![r][k].source = wanted[p]] /\ UNCHANGED rows
        /\ store[r][k].state = "ready" => store[r][k].source = wanted[p]
    BY <1>2 DEF Bind, SourceConflict, Place, index
  <2> HIDE DEF r, k
  <2> QED BY <1>1, <2>1, StoreSource DEF Faithful
<1>3. CASE Publish(p)
  <2>1. rows' = [rows EXCEPT ![k].source = wanted[p]] /\ pc[p] = "publish" /\ UNCHANGED store
    BY <1>3 DEF Publish
  <2> HIDE DEF r, k
  <2>2. rows \in [Keys -> Row]
    BY DEF IInv, Typed
  <2>3. \A j \in Keys : j # k => rows'[j] = rows[j]
    BY <2>1, <2>2
  <2>4. Agree(k) => rows'[k] = rows[k]
    <3> SUFFICES ASSUME Agree(k) PROVE rows'[k] = rows[k]
      OBVIOUS
    <3>1. rows[k].source = wanted[p]
      BY <1>1, <2>1 DEF Agree
    <3>2. rows'[k] = [rows[k] EXCEPT !.source = wanted[p]]
      BY <1>1, <2>1, <2>2
    <3> QED BY <1>1, <2>2, <3>1, <3>2 DEF Row
  <2> QED BY <2>1, <2>3, <2>4 DEF Faithful
<1> QED BY <1>2, <1>3

\* A first clone that fails releases only a directory that is absent.
LEMMA ReleaseFaithful ==
  ASSUME IInv, NEW p \in Procs, Released(p), pc[p] = "transfer", UNCHANGED rows
  PROVE  Faithful
  BY ReleasedStore DEF Faithful

LEMMA StepFaithful ==
  ASSUME IInv, [Next]_vars
  PROVE  Faithful
<1>1. ASSUME NEW p \in Procs, Registers(p) PROVE Faithful
  <2>1. CASE Register(p)
    BY <2>1, AddFaithful
  <2>2. CASE ~Register(p)
    <3>1. UNCHANGED <<rows, store>>
      BY <1>1, <2>2 DEF Registers, Begin, Duplicate, Malformed, NoRoot, FindTarget, Conflict, Preview,
                        Look, RegisterConflict, Submit, Done, Fails, index
    <3> QED BY <3>1, NothingChanges
  <2> QED BY <2>1, <2>2
<1>2. ASSUME NEW p \in Procs, Queues(p) PROVE Faithful
  <2>1. UNCHANGED <<rows, store>>
    BY <1>2 DEF Queues, QueueAgain, QueueFetch, QueueUnknown, Fails, index
  <2> QED BY <2>1, NothingChanges
<1>3. ASSUME NEW p \in Procs, Fetches(p) PROVE Faithful
  <2>1. CASE RegisterFetch(p)
    BY <2>1, AddFaithful
  <2>2. CASE Open(p) \/ Fetched(p)
    BY <2>2, ReadyFaithful
  <2>3. CASE Bind(p) \/ Publish(p)
    BY <2>3, BindFaithful
  <2>4. CASE FetchFails(p)
    BY <2>4, ReleaseFaithful DEF FetchFails, Ends
  <2>5. CASE FetchAgain(p) \/ Find(p) \/ FetchTarget(p) \/ RegisterFetchConflict(p) \/ Immediate(p)
             \/ Busy(p) \/ OpenFails(p) \/ Ask(p) \/ AdoptionRefused(p) \/ Decline(p) \/ Confirm(p)
             \/ BindFails(p) \/ \E k \in Keys : WorkerClaim(p, k)
    <3>1. UNCHANGED <<rows, store>>
      BY <2>5 DEF FetchAgain, Find, FetchTarget, RegisterFetchConflict, Immediate, Busy, OpenFails, Ask,
                  AdoptionRefused, Decline, Confirm, BindFails, WorkerClaim, Ends, Fails, index
    <3> QED BY <3>1, NothingChanges
  <2> QED BY <1>3, <2>1, <2>2, <2>3, <2>4, <2>5 DEF Fetches
<1>4. ASSUME NEW p \in Procs, Audits(p) PROVE Faithful
  <2>1. CASE AuditAdd(p)
    BY <2>1, AddFaithful
  <2>2. CASE AuditOpen(p)
    BY <2>2, ReadyFaithful
  <2>3. CASE Audit(p) \/ AuditNothing(p) \/ AuditIssue(p) \/ AuditConflict(p) \/ AuditKnown(p)
    <3>1. UNCHANGED <<rows, store>>
      BY <2>3 DEF Audit, AuditNothing, AuditIssue, AuditConflict, AuditKnown, Issue, index
    <3> QED BY <3>1, NothingChanges
  <2> QED BY <1>4, <2>1, <2>2, <2>3 DEF Audits
<1>5. ASSUME NEW p \in Procs, Faulty(p) PROVE Faithful
  <2>1. CASE Caught(p) \/ Uncaught(p)
    <3>1. UNCHANGED <<rows, store>>
      BY <2>1 DEF Caught, Uncaught, index
    <3> QED BY <3>1, NothingChanges
  <2>2. ASSUME NEW handled \in BOOLEAN, Lapse(p, handled) PROVE Faithful
    <3>1. UNCHANGED rows /\ (UNCHANGED store \/ (Released(p) /\ pc[p] = "transfer"))
      BY <2>2 DEF Lapse
    <3> QED BY <3>1, NothingChanges, ReleaseFaithful
  <2> QED BY <1>5, <2>1, <2>2 DEF Faulty
<1>6. CASE Configure \/ UNCHANGED vars
  <2>1. UNCHANGED <<rows, store>>
    BY <1>6 DEF Configure, vars, index
  <2> QED BY <2>1, NothingChanges
<1> QED BY <1>1, <1>2, <1>3, <1>4, <1>5, <1>6 DEF Next

\* Once the row of a repository and its archive name the same source they never
\* part, whichever commands race.
THEOREM ArchiveLeads == Spec => SourceFollowsArchive
<1>1. IInv /\ [Next]_vars => [\A k \in Keys : Agree(k) => Agree(k)']_vars
  BY StepFaithful, FaithfulAgrees
<1> QED BY <1>1, Invariant, PTL DEF Spec, SourceFollowsArchive

---------------------------------------------------------------------------
(* A preview and the registration that follows it *)

\* The root a registration of k is meant for, when the index holds the rows B and
\* d is the first configured root.
Meant(c, d, B, k) ==
  IF c.root # None THEN c.root ELSE IF B[k] # NoRow THEN B[k].root ELSE d

\* The inputs before the i-th that answer it, when A are the answers.
First(c, A, i) ==
  {j \in 1 .. i - 1 : c.urls[j] = c.urls[i] /\ A[j].status \notin {"error", "duplicate"}}

\* The first n inputs that register k.
Fits(A, n, k) == {j \in 1 .. n : A[j].key = k /\ A[j].status \in {"new", "existing"}}

\* The row of k after the first n inputs is b: the row of B, or the one that each
\* of the inputs that register k agrees upon.
Bound(c, d, B, A, n, k, b) ==
  /\ B[k] # NoRow => b = B[k]
  /\ B[k] = NoRow /\ Fits(A, n, k) = {} => b = NoRow
  /\ B[k] = NoRow =>
       \A j \in Fits(A, n, k) : b = [root |-> Meant(c, d, B, k), source |-> c.urls[j].source]

Refusal == [status |-> "error", key |-> None, root |-> None]
Outcome(u, b, r) ==
  IF Bindable(b, u.source, r)
  THEN [status |-> IF b = NoRow THEN "new" ELSE "existing", key |-> u.key, root |-> r]
  ELSE Refusal

\* a is what a preview answers the i-th input after the answers A.
Right(c, d, B, A, i, a) ==
  LET u == c.urls[i]
      r == Meant(c, d, B, u.key)
  IN  \/ /\ First(c, A, i) # {} /\ u.key # None
         /\ a = [status |-> "duplicate", key |-> u.key, root |-> r]
      \/ First(c, A, i) = {} /\ (u.key = None \/ r = None) /\ a = Refusal
      \/ /\ First(c, A, i) = {} /\ u.key # None /\ r # None
         /\ \E b \in Row : Bound(c, d, B, A, i - 1, u.key, b) /\ a = Outcome(u, b, r)
Answered(c, d, B, A, i) == Right(c, d, B, A, i, A[i])

\* A preview that is under way.
Previews(p) ==
  /\ pc[p] \in {"line", "look"}
  /\ \A i \in 1 .. line[p] - 1 : Answered(cmd[p], default, rows, results[p], i)
  /\ \A k \in Keys : \E b \in Row : Bound(cmd[p], default, rows, results[p], line[p] - 1, k, b)
  /\ pc[p] = "look" => /\ target[p] = Meant(cmd[p], default, rows, Key(p))
                       /\ First(cmd[p], results[p], line[p]) = {}

\* The registration: its rows are those of the preview, which began with B.
Fulfils(p, B) ==
  /\ Len(promised[p]) = Len(cmd[p].urls)
  /\ \A i \in 1 .. Len(cmd[p].urls) : Answered(cmd[p], default, B, promised[p], i)
  /\ \A k \in Keys : Bound(cmd[p], default, B, promised[p], line[p] - 1, k, rows[k])
  /\ \A i \in 1 .. line[p] - 1 : results[p][i] = Promised(promised[p][i])
  /\ pc[p] \in {"look", "register"} => /\ target[p] = Meant(cmd[p], default, B, Key(p))
                                       /\ First(cmd[p], promised[p], line[p]) = {}
  /\ pc[p] = "register" => /\ known[p][Key(p)] = rows[Key(p)]
                           /\ Bindable(rows[Key(p)], Input(p).source, target[p])

Undisturbed(p) == cmd[p].kind = "review" /\ pc[p] # "start" /\ quiet[p] /\ faults = Faults
Honest(p) ==
  Undisturbed(p) => IF Previewing(p) THEN Previews(p) ELSE \E B \in [Keys -> Row] : Fulfils(p, B)

\* The CHOOSE of Projected: some input of a preview is the last one.
LEMMA LastInput ==
  ASSUME NEW n \in Nat, NEW S \in SUBSET (1 .. n), S # {}
  PROVE  \E j \in S : \A m \in S : m <= j
<1> DEFINE T == {j .. n : j \in S}
<1> DEFINE R == StrictSubsetOrdering(Nat)
<1>1. IsWellFoundedOn(R, FiniteSubsetsOf(Nat))
  BY FS_StrictSubsetOrderingWellFounded
<1>2. T \subseteq FiniteSubsetsOf(Nat) /\ T # {}
  <2>1. ASSUME NEW t \in T PROVE t \in FiniteSubsetsOf(Nat)
    <3>1. PICK j \in S : t = j .. n
      OBVIOUS
    <3>2. t \subseteq Nat /\ IsFiniteSet(t)
      BY <3>1, FS_Interval
    <3> QED BY <3>2 DEF FiniteSubsetsOf
  <2> QED BY <2>1
<1>3. PICK x \in T : \A y \in T : <<y, x>> \notin R
  <2> HIDE DEF T, R
  <2> QED BY <1>1, <1>2, WFMin
<1>4. PICK j \in S : x = j .. n
  OBVIOUS
<1>5. ASSUME NEW m \in S, j < m PROVE FALSE
  <2>1. m .. n \subseteq j .. n /\ m .. n # j .. n
    <3>1. j \in j .. n /\ j \notin m .. n
      BY <1>5
    <3> QED BY <1>5, <3>1
  <2>2. <<m .. n, j .. n>> \in R
    BY <2>1 DEF StrictSubsetOrdering
  <2> QED BY <1>3, <1>4, <2>2
<1> QED BY <1>5

\* An answer depends on the earlier ones only.
LEMMA SameAnswers ==
  ASSUME NEW c, NEW d, NEW B, NEW A, NEW C, NEW n \in Nat, \A j \in 1 .. n : C[j] = A[j]
  PROVE  /\ \A k, m : m \in 0 .. n => Fits(C, m, k) = Fits(A, m, k)
         /\ \A i \in 1 .. n + 1 : First(c, C, i) = First(c, A, i)
         /\ \A k, m, b : m \in 0 .. n => (Bound(c, d, B, C, m, k, b) <=> Bound(c, d, B, A, m, k, b))
         /\ \A i \in 1 .. n + 1 : \A a : Right(c, d, B, A, i, a) => Right(c, d, B, C, i, a)
         /\ \A i \in 1 .. n : Answered(c, d, B, A, i) => Answered(c, d, B, C, i)
<1>1. \A k, m : m \in 0 .. n => Fits(C, m, k) = Fits(A, m, k)
  BY DEF Fits
<1>2. \A i \in 1 .. n + 1 : First(c, C, i) = First(c, A, i)
  BY DEF First
<1>3. \A k, m, b : m \in 0 .. n => (Bound(c, d, B, C, m, k, b) <=> Bound(c, d, B, A, m, k, b))
  BY <1>1 DEF Bound
<1>4. ASSUME NEW i \in 1 .. n + 1, NEW a, Right(c, d, B, A, i, a) PROVE Right(c, d, B, C, i, a)
  <2>1. i - 1 \in 0 .. n
    OBVIOUS
  <2>2. First(c, C, i) = First(c, A, i)
    BY <1>2
  <2>3. \A k, b : Bound(c, d, B, C, i - 1, k, b) <=> Bound(c, d, B, A, i - 1, k, b)
    BY <1>3, <2>1
  <2> QED BY <1>4, <2>2, <2>3 DEF Right
<1>5. ASSUME NEW i \in 1 .. n, Answered(c, d, B, A, i) PROVE Answered(c, d, B, C, i)
  <2>1. i \in 1 .. n + 1 /\ C[i] = A[i]
    OBVIOUS
  <2> QED BY <1>4, <1>5, <2>1 DEF Answered
<1> QED BY <1>1, <1>2, <1>3, <1>4, <1>5

\* There is one row an input can find.
LEMMA BoundOnce ==
  ASSUME NEW c, NEW d, NEW B, NEW A, NEW n, NEW k, NEW b, NEW e,
         Bound(c, d, B, A, n, k, b), Bound(c, d, B, A, n, k, e)
  PROVE  b = e
  BY DEF Bound

\* The answer a of an input that registers: its key, the root that it is meant
\* for, and whether the row that it finds, which agrees with it, is new.
Registering(c, d, B, A, i, a) ==
  LET u == c.urls[i]
  IN  /\ First(c, A, i) = {} /\ a.status \in {"new", "existing"}
      /\ u.key # None /\ a.key = u.key
      /\ a.root = Meant(c, d, B, u.key) /\ a.root # None
      /\ \E b \in Row : /\ Bound(c, d, B, A, i - 1, u.key, b)
                       /\ Bindable(b, u.source, a.root)
                       /\ a.status = IF b = NoRow THEN "new" ELSE "existing"

LEMMA RightAnswer ==
  ASSUME NEW c, NEW d, NEW B, NEW A, NEW i, NEW a,
         Right(c, d, B, A, i, a), a.status \notin {"error", "duplicate"}
  PROVE  Registering(c, d, B, A, i, a)
<1> DEFINE u == c.urls[i]
<1> DEFINE r == Meant(c, d, B, u.key)
<1>1. a # Refusal /\ a # [status |-> "duplicate", key |-> u.key, root |-> r]
  <2>1. Refusal.status = "error" /\ [status |-> "duplicate", key |-> u.key, root |-> r].status = "duplicate"
    BY DEF Refusal
  <2> QED BY <2>1
<1>2. /\ u.key # None /\ r # None /\ First(c, A, i) = {}
      /\ \E b \in Row : Bound(c, d, B, A, i - 1, u.key, b) /\ a = Outcome(u, b, r)
  BY <1>1 DEF Right
<1> HIDE DEF u, r
<1>3. PICK b \in Row : Bound(c, d, B, A, i - 1, u.key, b) /\ a = Outcome(u, b, r)
  BY <1>2
<1>4. /\ Bindable(b, u.source, r)
      /\ a = [status |-> IF b = NoRow THEN "new" ELSE "existing", key |-> u.key, root |-> r]
  BY <1>1, <1>3 DEF Outcome
<1>5. /\ a.key = u.key /\ a.root = r /\ a.status \in {"new", "existing"}
      /\ a.status = IF b = NoRow THEN "new" ELSE "existing"
  BY <1>4
<1> QED BY <1>2, <1>3, <1>4, <1>5 DEF u, r, Registering

\* An input that registers nothing leaves the rows alone.
LEMMA BoundStays ==
  ASSUME NEW c, NEW d, NEW B, NEW A, NEW n \in Nat, NEW k, NEW b,
         A[n + 1].key # k \/ A[n + 1].status \notin {"new", "existing"}
  PROVE  Bound(c, d, B, A, n + 1, k, b) <=> Bound(c, d, B, A, n, k, b)
<1>1. Fits(A, n + 1, k) = Fits(A, n, k)
  BY DEF Fits
<1> QED BY <1>1 DEF Bound

\* The row of k after an input that registers it.
LEMMA BoundNext ==
  ASSUME NEW c, NEW d, NEW B, NEW A, NEW n \in Nat, NEW k, NEW b \in Row,
         Bound(c, d, B, A, n, k, b), Meant(c, d, B, k) \in Roots,
         Bindable(b, c.urls[n + 1].source, Meant(c, d, B, k)), A[n + 1].key = k,
         A[n + 1].status \in {"new", "existing"}
  PROVE  Bound(c, d, B, A, n + 1, k,
               IF b = NoRow THEN [root |-> Meant(c, d, B, k), source |-> c.urls[n + 1].source] ELSE b)
<1> DEFINE r == Meant(c, d, B, k)
<1> DEFINE e == [root |-> r, source |-> c.urls[n + 1].source]
<1>1. Fits(A, n + 1, k) = Fits(A, n, k) \cup {n + 1}
  BY DEF Fits
<1>2. b # NoRow => b = e
  BY DEF Bindable, Row
<1>3. e # NoRow
  BY RegistrationAssumption DEF NoRow
<1>4. CASE B[k] # NoRow
  BY <1>4 DEF Bound
<1>5. CASE B[k] = NoRow
  <2>1. \A j \in Fits(A, n, k) : b = [root |-> r, source |-> c.urls[j].source]
    BY <1>5 DEF Bound
  <2>2. \A j \in Fits(A, n, k) : b # NoRow
    BY <2>1, RegistrationAssumption DEF NoRow
  <2>3. \A j \in Fits(A, n + 1, k) : e = [root |-> r, source |-> c.urls[j].source]
    BY <1>1, <1>2, <2>1, <2>2
  <2> QED BY <1>1, <1>2, <1>5, <2>3 DEF Bound
<1> QED BY <1>4, <1>5

---------------------------------------------------------------------------
(* The preview *)

LEMMA Answering ==
  ASSUME IInv, NEW p \in Procs, NEW a \in Result, Answer(p, a.status, a.key, a.root),
         cmd[p].kind = "review"
  PROVE  /\ pc'[p] = "line" /\ line'[p] - 1 = line[p] /\ line[p] - 1 \in Nat /\ line[p] - 1 + 1 = line[p]
         /\ \A j \in 1 .. line[p] - 1 : results'[p][j] = results[p][j]
         /\ results'[p][line[p]] = a
         /\ \A i \in 1 .. line[p] : i \in 1 .. line[p] - 1 \/ i = line[p]
         /\ \A i \in 1 .. line[p] - 1 : i \in 1 .. line[p]
<1>1. /\ pc'[p] = "line" /\ line'[p] = line[p] + 1 /\ line[p] \in Nat \ {0}
      /\ results[p] \in Seq(Result)
  BY DEF IInv, Typed, Answer, Steps
<1>2. Len(results[p]) = line[p] - 1
  BY DEF IInv, Reported, Batch
<1>3. a = [status |-> a.status, key |-> a.key, root |-> a.root]
  BY DEF Result
<1>4. results'[p] = Append(results[p], a)
  BY <1>3 DEF Answer, IInv, Typed
<1>5. /\ \A j \in 1 .. Len(results[p]) : results'[p][j] = results[p][j]
      /\ results'[p][Len(results[p]) + 1] = a
  BY <1>1, <1>4, AppendResult
<1>6. \A i \in 1 .. line[p] : i \in 1 .. line[p] - 1 \/ i = line[p]
  BY <1>1
<1> QED BY <1>1, <1>2, <1>5, <1>6

\* An answer that is right keeps the preview right.
LEMMA PreviewGoesOn ==
  ASSUME IInv, NEW p \in Procs, Previewing(p), Previews(p), line[p] <= Len(cmd[p].urls),
         NEW a \in Result, Answer(p, a.status, a.key, a.root),
         UNCHANGED <<rows, default, cmd, promised>>,
         Right(cmd[p], default, rows, results[p], line[p], a)
  PROVE  Previewing(p)' /\ Previews(p)'
<1> DEFINE n == line[p] - 1
<1> DEFINE A == results[p]
<1> DEFINE C == results'[p]
<1> DEFINE c == cmd[p]
<1> DEFINE u == c.urls[n + 1]
<1>1. cmd[p].kind = "review" /\ Previewing(p)'
  BY DEF Previewing
<1>2. /\ pc'[p] = "line" /\ line'[p] - 1 = n + 1 /\ n \in Nat /\ n + 1 = line[p]
      /\ \A j \in 1 .. n : C[j] = A[j]
      /\ C[n + 1] = a
      /\ \A i \in 1 .. n + 1 : i \in 1 .. n \/ i = n + 1
  BY <1>1, Answering
<1>3. Right(c, default, rows, A, n + 1, a)
  BY <1>2
<1>4. /\ \A i \in 1 .. n : Answered(c, default, rows, A, i)
      /\ \A k \in Keys : \E b \in Row : Bound(c, default, rows, A, n, k, b)
  BY DEF Previews
<1>5. u.source \in Sources
  BY <1>1, <1>2, InputIs DEF Input
<1> HIDE DEF n, A, C, c, u
<1>6. \A i \in 1 .. n + 1 : Answered(c, default, rows, C, i)
  <2>1. \A i \in 1 .. n : Answered(c, default, rows, C, i)
    BY <1>2, <1>4, SameAnswers
  <2>2. n + 1 \in 1 .. n + 1
    BY <1>2
  <2>3. Right(c, default, rows, C, n + 1, a)
    BY <1>2, <1>3, <2>2, SameAnswers
  <2>4. Answered(c, default, rows, C, n + 1)
    BY <1>2, <2>3 DEF Answered
  <2> QED BY <1>2, <2>1, <2>4
<1>7. ASSUME NEW k \in Keys PROVE \E b \in Row : Bound(c, default, rows, C, n + 1, k, b)
  <2>1. PICK b \in Row : Bound(c, default, rows, A, n, k, b)
    BY <1>4
  <2>2. Bound(c, default, rows, C, n, k, b)
    <3>1. n \in 0 .. n
      BY <1>2
    <3> QED BY <1>2, <2>1, <3>1, SameAnswers
  <2>3. CASE a.key = k /\ a.status \in {"new", "existing"}
    <3>1. /\ a.key = u.key /\ a.root = Meant(c, default, rows, u.key) /\ a.root # None
          /\ \E e \in Row : Bound(c, default, rows, A, n, a.key, e) /\ Bindable(e, u.source, a.root)
      <4>1. a.status \notin {"error", "duplicate"}
        BY <2>3
      <4> DEFINE i == n + 1
      <4>2. Registering(c, default, rows, A, i, a) /\ i - 1 = n
        BY <1>2, <1>3, <4>1, RightAnswer
      <4>3. u = c.urls[i]
        BY DEF u
      <4> HIDE DEF i
      <4>4. /\ a.key = u.key /\ a.root = Meant(c, default, rows, u.key) /\ a.root # None
            /\ \E e \in Row : Bound(c, default, rows, A, n, a.key, e) /\ Bindable(e, u.source, a.root)
        BY <4>2, <4>3 DEF Registering
      <4> QED BY <4>4
    <3>2. a.root \in Roots
      BY <3>1 DEF Result
    <3>4. Bindable(b, u.source, Meant(c, default, rows, k))
      BY <2>1, <2>3, <3>1, BoundOnce
    <3>5. Bound(c, default, rows, C, n + 1, k,
                IF b = NoRow THEN [root |-> Meant(c, default, rows, k), source |-> u.source] ELSE b)
      BY <1>2, <2>2, <2>3, <3>1, <3>2, <3>4, BoundNext DEF u
    <3>6. [root |-> Meant(c, default, rows, k), source |-> u.source] \in Row
      BY <1>5, <2>3, <3>1, <3>2 DEF Row
    <3> QED BY <3>5, <3>6
  <2>4. CASE ~(a.key = k /\ a.status \in {"new", "existing"})
    BY <1>2, <2>2, <2>4, BoundStays
  <2> QED BY <2>3, <2>4
<1> QED BY <1>1, <1>2, <1>6, <1>7 DEF Previews, C, c

\* What Projected chooses is the row that the earlier inputs agree upon.
LEMMA BindingIs ==
  ASSUME IInv, NEW p \in Procs, Previewing(p), Previews(p), Key(p) \in Keys
  PROVE  Binding(p) \in Row /\ Bound(cmd[p], default, rows, results[p], line[p] - 1, Key(p), Binding(p))
<1> DEFINE n == line[p] - 1
<1> DEFINE A == results[p]
<1> DEFINE c == cmd[p]
<1> DEFINE k == Key(p)
<1>1. PICK b \in Row : Bound(c, default, rows, A, n, k, b)
  BY DEF Previews
<1>2. n \in Nat
  BY DEF IInv, Typed
<1> SUFFICES Binding(p) = b
  BY <1>1
<1>3. CASE rows[k] # NoRow
  BY <1>1, <1>3 DEF Binding, Bound
<1>4. CASE rows[k] = NoRow
  <2>1. Binding(p) = Projected(p)
    BY <1>4 DEF Binding
  <2> DEFINE S == Fits(A, n, k)
  <2>2. S = {i \in 1 .. line[p] - 1 : results[p][i].key = Key(p) /\ results[p][i].status \in {"new", "existing"}}
    BY DEF Fits
  <2>3. CASE S = {}
    BY <1>1, <1>4, <2>1, <2>2, <2>3 DEF Bound, Projected
  <2>4. CASE S # {}
    <3> DEFINE i == CHOOSE j \in S : \A m \in S : m <= j
    <3>1. Projected(p) = [root |-> A[i].root, source |-> c.urls[i].source]
      BY <2>2, <2>4 DEF Projected
    <3>2. i \in S
      <4>1. S \in SUBSET (1 .. n)
        BY <2>2
      <4> HIDE DEF S
      <4>2. \E j \in S : \A m \in S : m <= j
        BY <1>2, <2>4, <4>1, LastInput
      <4> QED BY <4>2
    <3> HIDE DEF i
    <3>3. i \in 1 .. n /\ A[i].key = k /\ A[i].status \in {"new", "existing"}
      BY <3>2 DEF Fits
    <3>4. Right(c, default, rows, A, i, A[i])
      BY <3>3 DEF Previews, Answered
    <3>5. A[i].root = Meant(c, default, rows, k)
      <4>1. A[i].status \notin {"error", "duplicate"}
        BY <3>3
      <4>2. Registering(c, default, rows, A, i, A[i])
        BY <3>4, <4>1, RightAnswer
      <4> QED BY <3>3, <4>2 DEF Registering
    <3>6. b = [root |-> Meant(c, default, rows, k), source |-> c.urls[i].source]
      BY <1>1, <1>4, <3>2 DEF Bound
    <3> QED BY <2>1, <3>1, <3>5, <3>6
  <2> QED BY <2>3, <2>4
<1> QED BY <1>3, <1>4

\* The input a process is at, as one of its command's.
LEMMA AtInput ==
  ASSUME NEW p \in Procs
  PROVE  /\ Input(p) = cmd[p].urls[line[p]] /\ Key(p) = Input(p).key
         /\ First(cmd[p], results[p], line[p]) = Original(p)
         /\ Target(p, cmd[p].root, Key(p)) = Meant(cmd[p], default, rows, Key(p))
  BY DEF Input, Key, First, Original, Target, Meant

\* The earlier answers that answer an input.
Originals(c, d, B, A, n) ==
  LET u == c.urls[n]
  IN  \A j \in First(c, A, n) :
        /\ j \in 1 .. n - 1 /\ u.key # None
        /\ A[j].key = u.key /\ A[j].root = Meant(c, d, B, u.key)
        /\ A[j].status \in {"new", "existing"}

LEMMA OriginalIs ==
  ASSUME NEW c, NEW d, NEW B, NEW A, NEW n,
         \A i \in 1 .. n - 1 : Answered(c, d, B, A, i)
  PROVE  Originals(c, d, B, A, n)
<1> DEFINE u == c.urls[n]
<1> SUFFICES ASSUME NEW j \in First(c, A, n)
             PROVE  /\ j \in 1 .. n - 1 /\ u.key # None
                    /\ A[j].key = u.key /\ A[j].root = Meant(c, d, B, u.key)
                    /\ A[j].status \in {"new", "existing"}
  BY DEF Originals
<1>1. j \in 1 .. n - 1 /\ c.urls[j] = u /\ A[j].status \notin {"error", "duplicate"}
  BY DEF First
<1>2. Right(c, d, B, A, j, A[j])
  BY <1>1 DEF Answered
<1>3. Registering(c, d, B, A, j, A[j])
  BY <1>1, <1>2, RightAnswer
<1> QED BY <1>1, <1>3 DEF Registering

\* The three ways in which an answer is right.
LEMMA RightDuplicate ==
  ASSUME NEW c, NEW d, NEW B, NEW A, NEW n, NEW u, u = c.urls[n], First(c, A, n) # {}, u.key # None
  PROVE  Right(c, d, B, A, n, [status |-> "duplicate", key |-> u.key, root |-> Meant(c, d, B, u.key)])
  BY DEF Right

LEMMA RightRefusal ==
  ASSUME NEW c, NEW d, NEW B, NEW A, NEW n, NEW u, u = c.urls[n], First(c, A, n) = {},
         u.key = None \/ Meant(c, d, B, u.key) = None
  PROVE  Right(c, d, B, A, n, Refusal)
  BY DEF Right

LEMMA RightOutcome ==
  ASSUME NEW c, NEW d, NEW B, NEW A, NEW n, NEW u, u = c.urls[n], First(c, A, n) = {},
         u.key # None, Meant(c, d, B, u.key) # None, NEW b \in Row, Bound(c, d, B, A, n - 1, u.key, b)
  PROVE  Right(c, d, B, A, n, Outcome(u, b, Meant(c, d, B, u.key)))
  BY DEF Right

LEMMA ReviewTyped ==
  ASSUME IInv, NEW p \in Procs, cmd[p].kind = "review"
  PROVE  /\ line[p] \in Nat \ {0} /\ results[p] \in Seq(Result) /\ Len(results[p]) = line[p] - 1
         /\ \A i \in 1 .. line[p] - 1 : results[p][i] \in Result
         /\ Refusal \in Result
<1>1. results[p] \in Seq(Result) /\ Len(results[p]) = line[p] - 1 /\ line[p] \in Nat \ {0}
  BY DEF IInv, Typed, Reported, Batch
<1>2. \A i \in 1 .. Len(results[p]) : results[p][i] \in Result
  BY <1>1, ElementOfSeq
<1> QED BY <1>1, <1>2 DEF Refusal, Result

\* A preview passes over malformed inputs, repeated ones and those without a root.
LEMMA PreviewPasses ==
  ASSUME IInv, NEW p \in Procs, Previewing(p), Previews(p), Duplicate(p) \/ Malformed(p) \/ NoRoot(p)
  PROVE  Previewing(p)' /\ Previews(p)'
<1> DEFINE c == cmd[p]
<1> DEFINE u == Input(p)
<1> DEFINE n == line[p]
<1> DEFINE A == results[p]
<1> DEFINE r == Meant(c, default, rows, u.key)
<1>1. /\ c.kind = "review" /\ n <= Len(c.urls) /\ UNCHANGED <<rows, default, cmd, promised>>
      /\ pc[p] = "line"
  BY DEF Previewing, Previews, Duplicate, Malformed, NoRoot, HasInput, Fails, index, local
<1>2. /\ u = c.urls[n] /\ Key(p) = u.key /\ First(c, A, n) = Original(p)
      /\ Target(p, c.root, Key(p)) = r
  BY AtInput
<1>3. \A i \in 1 .. n - 1 : Answered(c, default, rows, A, i)
  BY DEF Previews
<1>4. /\ \A i \in 1 .. n - 1 : A[i] \in Result
      /\ Refusal \in Result
  BY <1>1, ReviewTyped
<1> HIDE DEF c, u, n, A, r
<1>5. \A j \in First(c, A, n) :
        /\ j \in 1 .. n - 1 /\ u.key # None
        /\ A[j].key = u.key /\ A[j].root = Meant(c, default, rows, u.key)
  <2>1. Originals(c, default, rows, A, n)
    BY <1>3, OriginalIs
  <2> QED BY <1>2, <2>1 DEF Originals
<1>6. CASE Duplicate(p)
  <2>1. PICK j \in Original(p) : Answer(p, "duplicate", A[j].key, A[j].root)
    BY <1>6 DEF Duplicate, A
  <2>2. j \in 1 .. n - 1 /\ u.key # None /\ A[j].key = u.key /\ A[j].root = r
    BY <1>2, <1>5, <2>1 DEF r
  <2> DEFINE a == [status |-> "duplicate", key |-> u.key, root |-> r]
  <2>3. Right(c, default, rows, A, n, a)
    BY <1>2, <2>1, <2>2, RightDuplicate DEF r
  <2>4. a \in Result /\ Answer(p, a.status, a.key, a.root)
    <3>1. A[j] \in Result
      BY <1>4, <2>2
    <3> QED BY <2>1, <2>2, <3>1 DEF Result
  <2> HIDE DEF a
  <2> QED BY <1>1, <2>3, <2>4, PreviewGoesOn DEF c, n, A
<1>7. CASE Malformed(p) \/ NoRoot(p)
  <2>1. Answer(p, "error", None, None)
    BY <1>7 DEF Malformed, NoRoot, Fails
  <2>2. First(c, A, n) = {} /\ (u.key = None \/ r = None)
    <3>1. CASE Malformed(p)
      <4>1. u.key = None
        BY <1>2, <3>1 DEF Malformed
      <4> QED BY <1>5, <4>1
    <3>2. CASE NoRoot(p)
      BY <1>1, <1>2, <3>2 DEF NoRoot, c
    <3> QED BY <1>7, <3>1, <3>2
  <2>3. Right(c, default, rows, A, n, Refusal)
    BY <1>2, <2>2, RightRefusal DEF r
  <2>4. Answer(p, Refusal.status, Refusal.key, Refusal.root)
    BY <2>1 DEF Refusal
  <2> QED BY <1>1, <1>4, <2>3, <2>4, PreviewGoesOn DEF c, n, A
<1> QED BY <1>6, <1>7

\* It answers an input from the row that the input would find.
LEMMA PreviewLooks ==
  ASSUME IInv, NEW p \in Procs, Previewing(p), Previews(p), Conflict(p) \/ Preview(p)
  PROVE  Previewing(p)' /\ Previews(p)'
<1> DEFINE c == cmd[p]
<1> DEFINE u == Input(p)
<1> DEFINE n == line[p]
<1> DEFINE A == results[p]
<1> DEFINE b == Binding(p)
<1> DEFINE r == target[p]
<1> DEFINE a == Outcome(u, b, r)
<1>1. /\ pc[p] = "look" /\ UNCHANGED <<rows, default, cmd, promised>>
  BY DEF Conflict, Preview, Fails, index, local
<1>2. /\ Key(p) \in Keys /\ n <= Len(c.urls) /\ r \in Roots
  BY <1>1 DEF IInv, At, Outside
<1>3. u = c.urls[n] /\ Key(p) = u.key
  BY AtInput
<1>4. /\ r = Meant(c, default, rows, Key(p)) /\ First(c, A, n) = {}
  BY <1>1 DEF Previews
<1>5. b \in Row /\ Bound(c, default, rows, A, n - 1, Key(p), b)
  BY <1>2, BindingIs
<1>6. u.key # None /\ r # None
  BY <1>2, <1>3, RegistrationAssumption
<1>7. Refusal \in Result
  BY DEF Refusal, Result
<1> HIDE DEF c, n, A, b, r, u
<1>8. Right(c, default, rows, A, n, a)
  BY <1>3, <1>4, <1>5, <1>6, RightOutcome
<1>9. a \in Result /\ Answer(p, a.status, a.key, a.root)
  <2>1. CASE Bindable(b, u.source, r)
    <3>1. a = [status |-> IF b = NoRow THEN "new" ELSE "existing", key |-> u.key, root |-> r]
      BY <2>1 DEF Outcome
    <3>2. a \in Result
      BY <1>2, <1>3, <3>1 DEF Result
    <3>3. Answer(p, IF b = NoRow THEN "new" ELSE "existing", Key(p), r)
      BY <2>1 DEF Conflict, Preview, b, u, r
    <3> QED BY <1>3, <3>1, <3>2, <3>3
  <2>2. CASE ~Bindable(b, u.source, r)
    <3>1. a = Refusal
      BY <2>2 DEF Outcome
    <3>2. Answer(p, "error", None, None)
      BY <2>2 DEF Conflict, Preview, Fails, b, u, r
    <3> QED BY <1>7, <3>1, <3>2 DEF Refusal
  <2> QED BY <2>1, <2>2
<1> HIDE DEF a
<1> QED BY <1>1, <1>2, <1>8, <1>9, PreviewGoesOn DEF c, n, A

LEMMA PreviewFindsTarget ==
  ASSUME IInv, NEW p \in Procs, Previewing(p), Previews(p), FindTarget(p)
  PROVE  Previewing(p)' /\ Previews(p)'
<1>1. /\ Original(p) = {} /\ Goto(p, "look")
      /\ target' = [target EXCEPT ![p] = Target(p, cmd[p].root, Key(p))]
      /\ UNCHANGED <<rows, default, cmd, promised, line, results>>
  BY DEF FindTarget, Goto, index
<1>2. pc'[p] = "look" /\ target'[p] = Target(p, cmd[p].root, Key(p))
  BY <1>1 DEF Goto, IInv, Typed
<1>3. /\ First(cmd[p], results[p], line[p]) = Original(p)
      /\ Target(p, cmd[p].root, Key(p)) = Meant(cmd[p], default, rows, Key(p))
  BY AtInput
<1>4. Key(p)' = Key(p)
  BY <1>1 DEF Key, Input
<1> QED BY <1>1, <1>2, <1>3, <1>4 DEF Previewing, Previews

---------------------------------------------------------------------------
(* The registration of what was previewed *)

LEMMA PromisedIs ==
  ASSUME NEW a \in Result
  PROVE  /\ Promised(a) = [status |-> IF a.status = "new" THEN "registered" ELSE a.status,
                           key |-> a.key, root |-> a.root]
         /\ Promised(a) \in Result
         /\ Promised(a).status \in {"error", "duplicate"} <=> a.status \in {"error", "duplicate"}
<1>1. Promised(a) = [status |-> IF a.status = "new" THEN "registered" ELSE a.status,
                     key |-> a.key, root |-> a.root]
  BY DEF Promised, Result
<1>2. /\ a.status \in {"new", "registered", "existing", "duplicate", "accepted", "fetched", "issue",
                       "error"}
      /\ a.key \in Keys \cup {None} /\ a.root \in Roots \cup {None}
  BY DEF Result
<1>3. Promised(a).status = IF a.status = "new" THEN "registered" ELSE a.status
  BY <1>1
<1>4. Promised(a) \in Result
  BY <1>1, <1>2 DEF Result
<1>5. Promised(a).status \in {"error", "duplicate"} <=> a.status \in {"error", "duplicate"}
  BY <1>2, <1>3
<1> QED BY <1>1, <1>4, <1>5

\* What holds while a preview is being fulfilled.
LEMMA FulfilTyped ==
  ASSUME IInv, NEW p \in Procs, cmd[p].kind = "review", NEW B, Fulfils(p, B)
  PROVE  /\ line[p] \in Nat \ {0} /\ line[p] - 1 \in Nat /\ line[p] - 1 + 1 = line[p]
         /\ Len(cmd[p].urls) \in Nat /\ line[p] - 1 <= Len(cmd[p].urls)
         /\ \A i \in 1 .. Len(cmd[p].urls) : promised[p][i] \in Result
         /\ First(cmd[p], promised[p], line[p]) = Original(p)
<1>1. line[p] \in Nat \ {0} /\ Len(cmd[p].urls) \in Nat /\ line[p] - 1 <= Len(cmd[p].urls)
  BY LenProperties DEF IInv, Typed, Orders, Reported, Batch
<1>2. promised[p] \in Seq(Result) /\ Len(promised[p]) = Len(cmd[p].urls)
  BY DEF IInv, Typed, Fulfils
<1>3. \A i \in 1 .. Len(cmd[p].urls) : promised[p][i] \in Result
  BY <1>2, ElementOfSeq
<1>4. ASSUME NEW j \in 1 .. line[p] - 1
      PROVE  promised[p][j].status \in {"error", "duplicate"} <=>
               results[p][j].status \in {"error", "duplicate"}
  <2>1. promised[p][j] \in Result
    BY <1>1, <1>3
  <2>2. results[p][j] = Promised(promised[p][j])
    BY DEF Fulfils
  <2> QED BY <2>1, <2>2, PromisedIs
<1>5. First(cmd[p], promised[p], line[p]) = Original(p)
  BY <1>4 DEF First, Original, Input
<1> QED BY <1>1, <1>3, <1>5

\* The root that the registration chooses is the one the preview named.
LEMMA MeantTarget ==
  ASSUME IInv, NEW p \in Procs, NEW B, Fulfils(p, B), Key(p) \in Keys
  PROVE  Target(p, cmd[p].root, Key(p)) = Meant(cmd[p], default, B, Key(p))
<1> DEFINE c == cmd[p]
<1> DEFINE k == Key(p)
<1>1. Bound(c, default, B, promised[p], line[p] - 1, k, rows[k])
  BY DEF Fulfils
<1>2. CASE c.root # None \/ B[k] # NoRow \/ rows[k] = NoRow
  BY <1>1, <1>2 DEF Target, Meant, Bound
<1>3. CASE c.root = None /\ B[k] = NoRow /\ rows[k] # NoRow
  <2>1. PICK j \in Fits(promised[p], line[p] - 1, k) : TRUE
    BY <1>1, <1>3 DEF Bound
  <2>2. rows[k].root = Meant(c, default, B, k)
    <3> DEFINE r == Meant(c, default, B, k)
    <3> HIDE DEF c, k
    <3>1. rows[k] = [root |-> r, source |-> c.urls[j].source]
      BY <1>1, <1>3, <2>1 DEF Bound
    <3> HIDE DEF r
    <3>2. rows[k].root = r
      BY <3>1
    <3> QED BY <3>2 DEF r
  <2> QED BY <1>3, <2>2 DEF Target
<1> QED BY <1>2, <1>3

\* An answer that was promised keeps the promise.
LEMMA RegisterGoesOn ==
  ASSUME IInv, NEW p \in Procs, cmd[p].kind = "review", ~Previewing(p), NEW B, Fulfils(p, B),
         line[p] <= Len(cmd[p].urls), NEW a \in Result, Answer(p, a.status, a.key, a.root),
         a = Promised(promised[p][line[p]]), UNCHANGED <<default, cmd, promised>>,
         \A k \in Keys : Bound(cmd[p], default, B, promised[p], line[p], k, rows'[k])
  PROVE  ~Previewing(p)' /\ Fulfils(p, B)'
<1>1. /\ pc'[p] = "line" /\ line'[p] - 1 = line[p]
      /\ \A j \in 1 .. line[p] - 1 : results'[p][j] = results[p][j]
      /\ results'[p][line[p]] = a
      /\ \A i \in 1 .. line[p] : i \in 1 .. line[p] - 1 \/ i = line[p]
  BY Answering
<1>2. \A i \in 1 .. line[p] : results'[p][i] = Promised(promised[p][i])
  BY <1>1 DEF Fulfils
<1> QED BY <1>1, <1>2 DEF Previewing, Fulfils

\* An answer that registers nothing.
LEMMA RegisterSkips ==
  ASSUME IInv, NEW p \in Procs, cmd[p].kind = "review", ~Previewing(p), NEW B, Fulfils(p, B),
         line[p] <= Len(cmd[p].urls), NEW a \in Result, Answer(p, a.status, a.key, a.root),
         a = promised[p][line[p]], a.status \in {"error", "duplicate"},
         UNCHANGED <<rows, default, cmd, promised>>
  PROVE  ~Previewing(p)' /\ Fulfils(p, B)'
<1> DEFINE n == line[p]
<1> DEFINE m == line[p] - 1
<1> DEFINE P == promised[p]
<1>1. m \in Nat /\ m + 1 = n
  BY FulfilTyped
<1>2. \A k \in Keys : Bound(cmd[p], default, B, P, m, k, rows[k])
  BY DEF Fulfils
<1>3. a = Promised(P[n])
  <2>1. a.status # "new"
    OBVIOUS
  <2>2. a = [status |-> a.status, key |-> a.key, root |-> a.root]
    BY DEF Result
  <2> QED BY <2>1, <2>2, PromisedIs
<1> HIDE DEF m
<1>4. ASSUME NEW k \in Keys PROVE Bound(cmd[p], default, B, P, n, k, rows'[k])
  <2>1. P[m + 1].status \notin {"new", "existing"}
    BY <1>1
  <2>2. Bound(cmd[p], default, B, P, m + 1, k, rows[k])
    BY <1>1, <1>2, <2>1, BoundStays
  <2> QED BY <1>1, <2>2
<1> QED BY <1>3, <1>4, RegisterGoesOn

LEMMA RegisterPasses ==
  ASSUME IInv, NEW p \in Procs, cmd[p].kind = "review", ~Previewing(p), NEW B, Fulfils(p, B),
         Duplicate(p) \/ Malformed(p) \/ NoRoot(p)
  PROVE  ~Previewing(p)' /\ Fulfils(p, B)'
<1> DEFINE c == cmd[p]
<1> DEFINE u == Input(p)
<1> DEFINE n == line[p]
<1> DEFINE P == promised[p]
<1> DEFINE r == Meant(c, default, B, u.key)
<1>1. /\ n <= Len(c.urls) /\ UNCHANGED <<rows, default, cmd, promised>> /\ pc[p] = "line"
  BY DEF Duplicate, Malformed, NoRoot, HasInput, Fails, index, local, IInv, At, Batch
<1>2. u = c.urls[n] /\ Key(p) = u.key
  BY AtInput
<1>3. /\ n \in 1 .. Len(c.urls) /\ \A i \in 1 .. n - 1 : i \in 1 .. Len(c.urls)
      /\ First(c, P, n) = Original(p)
      /\ \A i \in 1 .. Len(c.urls) : P[i] \in Result
  BY <1>1, FulfilTyped
<1>4. \A i \in 1 .. Len(c.urls) : Answered(c, default, B, P, i)
  BY DEF Fulfils
<1>5. Originals(c, default, B, P, n) /\ Right(c, default, B, P, n, P[n])
  <2> HIDE DEF c, n, P
  <2>1. \A i \in 1 .. n - 1 : Answered(c, default, B, P, i)
    BY <1>3, <1>4
  <2> QED BY <1>3, <1>4, <2>1, OriginalIs DEF Answered
<1>6. \A j \in Original(p) :
        results[p][j] = Promised(P[j]) /\ P[j] \in Result /\ u.key # None /\ P[j].key = u.key /\ P[j].root = r
  <2> SUFFICES ASSUME NEW j \in Original(p)
               PROVE  results[p][j] = Promised(P[j]) /\ P[j] \in Result /\ u.key # None /\ P[j].key = u.key
                      /\ P[j].root = r
    OBVIOUS
  <2>1. j \in 1 .. n - 1 /\ u.key # None /\ P[j].key = u.key /\ P[j].root = r
    BY <1>2, <1>3, <1>5 DEF Originals
  <2> QED BY <1>3, <2>1 DEF Fulfils
<1>7. P[n] \in Result
  BY <1>3
<1>8. CASE Duplicate(p)
  <2>1. PICK j \in Original(p) : Answer(p, "duplicate", results[p][j].key, results[p][j].root)
    BY <1>8 DEF Duplicate
  <2>2. results[p][j].key = u.key /\ results[p][j].root = r
    <3>1. results[p][j] = Promised(P[j]) /\ P[j] \in Result /\ P[j].key = u.key /\ P[j].root = r
      BY <1>6
    <3> HIDE DEF P, u, r
    <3> QED BY <3>1, PromisedIs
  <2>3. P[n] = [status |-> "duplicate", key |-> u.key, root |-> r]
    BY <1>2, <1>3, <1>5, <2>1 DEF Right
  <2>4. /\ P[n].status = "duplicate" /\ P[n].key = u.key /\ P[n].root = r
        /\ Answer(p, P[n].status, P[n].key, P[n].root)
    BY <2>1, <2>2, <2>3
  <2> QED BY <1>1, <1>7, <2>4, RegisterSkips
<1>9. CASE Malformed(p) \/ NoRoot(p)
  <2>1. Answer(p, "error", None, None)
    BY <1>9 DEF Malformed, NoRoot, Fails
  <2>2. First(c, P, n) = {} /\ (u.key = None \/ r = None)
    <3>1. CASE Malformed(p)
      <4>1. u.key = None
        BY <1>2, <3>1 DEF Malformed
      <4> QED BY <1>3, <1>6, <4>1
    <3>2. CASE NoRoot(p)
      <4>1. /\ Original(p) = {} /\ Key(p) # None /\ Target(p, c.root, Key(p)) = None
            /\ c.kind \notin {"audit", "worker"}
        BY <1>1, <3>2 DEF NoRoot
      <4>2. Key(p) \in Keys
        BY <1>1, <4>1, InputIs
      <4>3. r = None
        BY <1>2, <4>1, <4>2, MeantTarget
      <4> QED BY <1>3, <4>1, <4>3
    <3> QED BY <1>9, <3>1, <3>2
  <2>3. P[n] = Refusal
    BY <1>2, <1>5, <2>2 DEF Right
  <2>4. P[n].status = "error" /\ Answer(p, P[n].status, P[n].key, P[n].root)
    BY <2>1, <2>3 DEF Refusal
  <2> QED BY <1>1, <1>7, <2>4, RegisterSkips
<1> QED BY <1>8, <1>9

LEMMA RegisterFindsTarget ==
  ASSUME IInv, NEW p \in Procs, cmd[p].kind = "review", ~Previewing(p), NEW B, Fulfils(p, B), FindTarget(p)
  PROVE  ~Previewing(p)' /\ Fulfils(p, B)'
<1>1. /\ Original(p) = {} /\ Goto(p, "look") /\ Key(p) # None /\ line[p] <= Len(cmd[p].urls)
      /\ target' = [target EXCEPT ![p] = Target(p, cmd[p].root, Key(p))]
      /\ UNCHANGED <<rows, default, cmd, promised, line, results, known>>
  BY DEF FindTarget, Goto, HasInput, index
<1>2. pc'[p] = "look" /\ target'[p] = Target(p, cmd[p].root, Key(p))
  BY <1>1 DEF Goto, IInv, Typed
<1>3. Key(p) \in Keys
  BY <1>1, InputIs
<1>4. /\ First(cmd[p], promised[p], line[p]) = Original(p)
      /\ Target(p, cmd[p].root, Key(p)) = Meant(cmd[p], default, B, Key(p))
  BY <1>3, FulfilTyped, MeantTarget
<1>5. Key(p)' = Key(p)
  BY <1>1 DEF Key, Input
<1> QED BY <1>1, <1>2, <1>4, <1>5 DEF Previewing, Fulfils

\* Where an input is looked up, what was promised follows from the row that is there.
LEMMA PromisedOutcome ==
  ASSUME IInv, NEW p \in Procs, cmd[p].kind = "review", ~Previewing(p), NEW B \in [Keys -> Row],
         Fulfils(p, B), pc[p] \in {"look", "register"}
  PROVE  /\ Key(p) \in Keys /\ target[p] \in Roots /\ line[p] <= Len(cmd[p].urls)
         /\ line[p] \in 1 .. Len(cmd[p].urls)
         /\ promised[p][line[p]] \in Result
         /\ promised[p][line[p]] = Outcome(Input(p), rows[Key(p)], target[p])
<1> DEFINE c == cmd[p]
<1> DEFINE u == Input(p)
<1> DEFINE n == line[p]
<1> DEFINE P == promised[p]
<1> DEFINE k == Key(p)
<1> DEFINE r == target[p]
<1>1. k \in Keys /\ r \in Roots /\ n <= Len(c.urls)
  BY DEF IInv, At, Outside
<1>2. n \in 1 .. Len(c.urls) /\ P[n] \in Result
  BY <1>1, FulfilTyped
<1>3. u = c.urls[n] /\ k = u.key
  BY AtInput
<1>4. /\ r = Meant(c, default, B, k) /\ First(c, P, n) = {}
      /\ Right(c, default, B, P, n, P[n])
      /\ Bound(c, default, B, P, n - 1, k, rows[k])
  BY <1>1, <1>2 DEF Fulfils, Answered
<1>5. r # None
  BY <1>1, RegistrationAssumption
<1> HIDE DEF c, u, n, P, k, r
<1>6. PICK b \in Row : Bound(c, default, B, P, n - 1, k, b) /\ P[n] = Outcome(u, b, r)
  BY <1>1, <1>3, <1>4, <1>5, RegistrationAssumption DEF Right
<1>7. b = rows[k]
  BY <1>4, <1>6, BoundOnce
<1> QED BY <1>1, <1>2, <1>6, <1>7 DEF c, u, n, P, k, r

LEMMA RegisterLooks ==
  ASSUME IInv, NEW p \in Procs, cmd[p].kind = "review", ~Previewing(p), NEW B \in [Keys -> Row],
         Fulfils(p, B), Conflict(p) \/ Look(p) \/ RegisterConflict(p)
  PROVE  ~Previewing(p)' /\ Fulfils(p, B)'
<1>1. CASE Conflict(p)
  <2>1. /\ pc[p] = "look" /\ Answer(p, "error", None, None) /\ UNCHANGED <<rows, default, cmd, promised>>
        /\ ~Bindable(rows[Key(p)], Input(p).source, target[p])
    BY <1>1 DEF Conflict, Fails, Binding, index, local
  <2>2. /\ promised[p][line[p]] \in Result /\ line[p] <= Len(cmd[p].urls)
        /\ promised[p][line[p]] = Refusal
    BY <2>1, PromisedOutcome DEF Outcome
  <2> DEFINE a == promised[p][line[p]]
  <2>3. a.status = "error" /\ Answer(p, a.status, a.key, a.root)
    BY <2>1, <2>2 DEF Refusal
  <2> QED BY <2>1, <2>2, <2>3, RegisterSkips
<1>2. CASE Look(p)
  <2>1. /\ pc[p] = "look" /\ Goto(p, "register") /\ Bindable(rows[Key(p)], Input(p).source, target[p])
        /\ known' = [known EXCEPT ![p][Key(p)] = rows[Key(p)]]
        /\ UNCHANGED <<rows, default, cmd, target, promised, line, results>>
    BY <1>2 DEF Look, Goto, index
  <2>2. Key(p) \in Keys
    BY <2>1 DEF IInv, At, Outside
  <2>3. pc'[p] = "register" /\ known'[p][Key(p)] = rows[Key(p)]
    BY <2>1, <2>2 DEF Goto, IInv, Typed
  <2>4. Key(p)' = Key(p) /\ Input(p)' = Input(p)
    BY <2>1 DEF Key, Input
  <2> QED BY <2>1, <2>3, <2>4 DEF Previewing, Fulfils
<1>3. CASE RegisterConflict(p)
  BY <1>3 DEF RegisterConflict, Fulfils
<1> QED BY <1>1, <1>2, <1>3

LEMMA RegisterFulfils ==
  ASSUME IInv, NEW p \in Procs, cmd[p].kind = "review", ~Previewing(p), NEW B \in [Keys -> Row],
         Fulfils(p, B), Register(p)
  PROVE  ~Previewing(p)' /\ Fulfils(p, B)'
<1> DEFINE c == cmd[p]
<1> DEFINE m == line[p] - 1
<1> DEFINE P == promised[p]
<1> DEFINE k == Key(p)
<1> DEFINE r == target[p]
<1> DEFINE s == Input(p).source
<1> DEFINE e == IF rows[k] = NoRow THEN [root |-> r, source |-> s] ELSE rows[k]
<1> DEFINE a == [status |-> IF rows[k] = NoRow THEN "registered" ELSE "existing", key |-> k, root |-> r]
<1>1. /\ pc[p] = "register" /\ Added(k, s, r, FALSE) /\ UNCHANGED <<default, cmd, promised>>
      /\ Answer(p, IF known[p][k] = NoRow THEN "registered" ELSE "existing", k, r)
  BY DEF Register, local
<1>2. /\ k \in Keys /\ r \in Roots /\ line[p] <= Len(c.urls)
      /\ P[line[p]] = Outcome(Input(p), rows[k], r)
  BY <1>1, PromisedOutcome
<1>3. /\ known[p][k] = rows[k] /\ Bindable(rows[k], s, r) /\ r = Meant(c, default, B, k)
      /\ \A j \in Keys : Bound(c, default, B, P, m, j, rows[j])
  BY <1>1 DEF Fulfils
<1>4. m \in Nat /\ m + 1 = line[p]
  BY FulfilTyped
<1>5. s = c.urls[m + 1].source /\ Key(p) = Input(p).key
  BY <1>4 DEF Input, Key
<1>6. P[line[p]] = [status |-> IF rows[k] = NoRow THEN "new" ELSE "existing", key |-> k, root |-> r]
  BY <1>2, <1>3, <1>5 DEF Outcome
<1>7. rows \in [Keys -> Row]
  BY DEF IInv, Typed
<1> HIDE DEF c, m, P, k, r, s
<1>8. \A j \in Keys : rows'[j] = IF j = k THEN e ELSE rows[j]
  BY <1>1, <1>2, <1>7 DEF Added
<1>9. ASSUME NEW j \in Keys PROVE Bound(c, default, B, P, m + 1, j, rows'[j])
  <2>1. CASE j = k
    <3>1. P[m + 1].key = k /\ P[m + 1].status \in {"new", "existing"}
      BY <1>4, <1>6
    <3>2. rows[k] \in Row /\ Bound(c, default, B, P, m, k, rows[k]) /\ Meant(c, default, B, k) \in Roots
      BY <1>2, <1>3, <1>7
    <3>3. Bound(c, default, B, P, m + 1, k,
                IF rows[k] = NoRow
                THEN [root |-> Meant(c, default, B, k), source |-> c.urls[m + 1].source] ELSE rows[k])
      BY <1>3, <1>4, <1>5, <3>1, <3>2, BoundNext
    <3>4. Bound(c, default, B, P, m + 1, k, e)
      BY <1>3, <1>5, <3>3
    <3> QED BY <1>8, <2>1, <3>4
  <2>2. CASE j # k
    <3>1. P[m + 1].key # j
      BY <1>4, <1>6, <2>2
    <3>2. Bound(c, default, B, P, m, j, rows[j])
      BY <1>3
    <3>3. Bound(c, default, B, P, m + 1, j, rows[j])
      BY <1>4, <3>1, <3>2, BoundStays
    <3> QED BY <1>8, <2>2, <3>3
  <2> QED BY <2>1, <2>2
<1>10. a \in Result /\ Answer(p, a.status, a.key, a.root)
  <2>1. a \in Result
    BY <1>2 DEF Result
  <2>2. Answer(p, a.status, a.key, a.root)
    BY <1>1, <1>3
  <2> QED BY <2>1, <2>2
<1>11. a = Promised(P[line[p]])
  <2>1. P[line[p]] \in Result
    BY <1>1, PromisedOutcome DEF P
  <2> QED BY <1>6, <2>1, PromisedIs
<1>12. \A j \in Keys : Bound(c, default, B, P, line[p], j, rows'[j])
  BY <1>4, <1>9
<1> HIDE DEF a, e
<1> QED BY <1>1, <1>2, <1>10, <1>11, <1>12, RegisterGoesOn DEF c, P

---------------------------------------------------------------------------
(* Steps between the two, and of others *)

\* What Honest claims of an undisturbed review.
Candid(p) == IF Previewing(p) THEN Previews(p) ELSE \E B \in [Keys -> Row] : Fulfils(p, B)

LEMMA BoundFirst ==
  ASSUME NEW c, NEW d, NEW B, NEW A, NEW k
  PROVE  Bound(c, d, B, A, 0, k, B[k])
<1>1. Fits(A, 0, k) = {}
  BY DEF Fits
<1> QED BY <1>1 DEF Bound

\* A preview that begins, or has been submitted without any input.
LEMMA PreviewBegins ==
  ASSUME IInv, NEW p \in Procs, pc'[p] = "line", line'[p] = 1, UNCHANGED rows
  PROVE  Previews(p)'
<1>1. line'[p] - 1 = 0 /\ 1 .. line'[p] - 1 = {}
  OBVIOUS
<1>2. rows \in [Keys -> Row]
  BY DEF IInv, Typed
<1>3. ASSUME NEW k \in Keys
      PROVE  \E b \in Row : Bound(cmd'[p], default', rows', results'[p], line'[p] - 1, k, b)
  <2>1. rows'[k] \in Row
    BY <1>2
  <2>2. Bound(cmd'[p], default', rows', results'[p], 0, k, rows'[k])
    BY BoundFirst
  <2> QED BY <1>1, <2>1, <2>2
<1> QED BY <1>1, <1>3 DEF Previews

LEMMA BeginsCandidly ==
  ASSUME IInv, NEW p \in Procs, cmd[p].kind = "review", Begin(p)
  PROVE  Candid(p)'
<1>1. pc'[p] = "line" /\ line'[p] = 1 /\ UNCHANGED <<rows, cmd>> /\ promised'[p] = <<>>
  BY DEF Begin, Goto, index, IInv, Typed, At
<1> QED BY <1>1, PreviewBegins DEF Candid, Previewing

\* What a preview said of the rows that it read is what the registration fulfils.
LEMMA SubmitsCandidly ==
  ASSUME IInv, NEW p \in Procs, Previewing(p), Previews(p), Submit(p)
  PROVE  Candid(p)'
<1>1. /\ UNCHANGED <<rows, default, cmd, pc>> /\ pc[p] = "line" /\ line[p] > Len(cmd[p].urls)
      /\ promised'[p] = results[p] /\ line'[p] = 1 /\ cmd[p].kind = "review"
  BY DEF Submit, index, IInv, Typed, Previewing
<1>2. /\ line[p] \in Nat \ {0} /\ results[p] \in Seq(Result) /\ Len(results[p]) = line[p] - 1
      /\ line[p] <= Len(cmd[p].urls) + 1 /\ Len(cmd[p].urls) \in Nat
  BY <1>1, LenProperties DEF IInv, Typed, Orders, Reported, Batch
<1>3. line[p] - 1 = Len(cmd[p].urls)
  BY <1>1, <1>2
<1>4. CASE Previewing(p)'
  BY <1>1, <1>4, PreviewBegins DEF Candid
<1>5. CASE ~Previewing(p)'
  <2>1. rows \in [Keys -> Row]
    BY DEF IInv, Typed
  <2>2. Fulfils(p, rows)'
    <3>1. line'[p] - 1 = 0 /\ 1 .. line'[p] - 1 = {}
      BY <1>1
    <3>2. \A k \in Keys : Bound(cmd'[p], default', rows', promised'[p], line'[p] - 1, k, rows'[k])
      BY <3>1, BoundFirst
    <3>3. /\ Len(promised'[p]) = Len(cmd'[p].urls)
          /\ \A i \in 1 .. Len(cmd'[p].urls) : Answered(cmd'[p], default', rows', promised'[p], i)
      BY <1>1, <1>2, <1>3 DEF Previews
    <3>4. pc'[p] = "line"
      BY <1>1
    <3> QED BY <3>1, <3>2, <3>3, <3>4 DEF Fulfils
  <2>3. rows' \in [Keys -> Row]
    BY <1>1, <2>1
  <2> QED BY <1>5, <2>2, <2>3 DEF Candid
<1> QED BY <1>4, <1>5

\* The last step changes nothing but where the command is.
LEMMA DoneCandidly ==
  ASSUME IInv, NEW p \in Procs, cmd[p].kind = "review", ~Previewing(p), NEW B, Fulfils(p, B), Done(p)
  PROVE  ~Previewing(p)' /\ Fulfils(p, B)'
<1>1. pc'[p] = "done" /\ UNCHANGED <<rows, default, cmd, promised, line, results>>
  BY DEF Done, Goto, index, local, IInv, Typed
<1> QED BY <1>1 DEF Previewing, Fulfils

LEMMA StepsCandidly ==
  ASSUME IInv, NEW p \in Procs, cmd[p].kind = "review", pc[p] # "start", Candid(p), Registers(p)
  PROVE  Candid(p)'
<1>1. CASE Previewing(p)
  <2>1. Previews(p)
    BY <1>1 DEF Candid
  <2>2. CASE Duplicate(p) \/ Malformed(p) \/ NoRoot(p) \/ Conflict(p) \/ Preview(p) \/ FindTarget(p)
    BY <1>1, <2>1, <2>2, PreviewPasses, PreviewLooks, PreviewFindsTarget DEF Candid
  <2>3. CASE Submit(p)
    BY <1>1, <2>1, <2>3, SubmitsCandidly
  <2>4. CASE Begin(p) \/ Look(p) \/ Register(p) \/ RegisterConflict(p) \/ Done(p)
    BY <1>1, <2>1, <2>4 DEF Begin, Look, Register, RegisterConflict, Done, Previews
  <2> QED BY <2>2, <2>3, <2>4 DEF Registers
<1>2. CASE ~Previewing(p)
  <2>1. PICK B \in [Keys -> Row] : Fulfils(p, B)
    BY <1>2 DEF Candid
  <2>2. ASSUME ~Previewing(p)' /\ Fulfils(p, B)' PROVE Candid(p)'
    BY <2>2 DEF Candid
  <2>3. CASE Duplicate(p) \/ Malformed(p) \/ NoRoot(p)
    BY <1>2, <2>1, <2>2, <2>3, RegisterPasses
  <2>4. CASE Conflict(p) \/ Look(p) \/ RegisterConflict(p)
    BY <1>2, <2>1, <2>2, <2>4, RegisterLooks
  <2>5. CASE FindTarget(p) \/ Done(p)
    BY <1>2, <2>1, <2>2, <2>5, RegisterFindsTarget, DoneCandidly
  <2>6. CASE Register(p)
    BY <1>2, <2>1, <2>2, <2>6, RegisterFulfils
  <2>7. CASE Begin(p) \/ Preview(p) \/ Submit(p)
    BY <1>2, <2>7 DEF Begin, Preview, Submit
  <2> QED BY <2>3, <2>4, <2>5, <2>6, <2>7 DEF Registers
<1> QED BY <1>1, <1>2

\* A command keeps its kind.
LEMMA KindStays ==
  ASSUME IInv, NEW p \in Procs, Registers(p) \/ Queues(p) \/ Fetches(p) \/ Audits(p) \/ Faulty(p)
  PROVE  cmd'[p].kind = cmd[p].kind
<1>1. cmd \in [Procs -> Orders] /\ cmd[p] \in Orders
  BY DEF IInv, Typed
<1>2. ASSUME NEW x, cmd' = [cmd EXCEPT ![p].urls = x] PROVE cmd'[p].kind = cmd[p].kind
  <2>1. cmd'[p] = [cmd[p] EXCEPT !.urls = x]
    BY <1>1, <1>2
  <2> QED BY <1>1, <2>1 DEF Orders
<1>3. ASSUME NEW s, Ends(p, s) PROVE cmd'[p].kind = cmd[p].kind
  BY <1>2, <1>3 DEF Ends
<1>4. CASE Registers(p) \/ Queues(p)
  BY <1>4 DEF Registers, Begin, Duplicate, Malformed, NoRoot, FindTarget, Conflict, Preview, Look,
              Register, RegisterConflict, Submit, Done, Fails, Queues, QueueAgain, QueueFetch,
              QueueUnknown, local
<1>5. CASE Fetches(p)
  <2>1. CASE OpenFails(p) \/ AdoptionRefused(p) \/ BindFails(p) \/ Fetched(p) \/ FetchFails(p)
    BY <1>3, <2>1 DEF OpenFails, AdoptionRefused, BindFails, Fetched, FetchFails
  <2>2. CASE \E k \in Keys : WorkerClaim(p, k)
    BY <1>2, <2>2 DEF WorkerClaim
  <2>3. CASE FetchAgain(p) \/ Find(p) \/ FetchTarget(p) \/ RegisterFetch(p) \/ RegisterFetchConflict(p)
             \/ Immediate(p) \/ Busy(p) \/ Ask(p) \/ Decline(p) \/ Confirm(p) \/ Open(p) \/ Bind(p)
             \/ Publish(p)
    BY <2>3 DEF FetchAgain, Find, FetchTarget, RegisterFetch, RegisterFetchConflict, Immediate, Busy,
                Ask, Decline, Confirm, Open, Bind, Publish, Fails, local
  <2> QED BY <1>5, <2>1, <2>2, <2>3 DEF Fetches
<1>6. CASE Audits(p)
  BY <1>6 DEF Audits, Audit, AuditNothing, AuditIssue, AuditOpen, AuditAdd, AuditConflict, AuditKnown,
              Issue, local
<1>7. CASE Faulty(p)
  BY <1>7 DEF Faulty, Caught, Uncaught, Lapse, local
<1> QED BY <1>4, <1>5, <1>6, <1>7

\* While nothing fails, a review takes the steps of register_batch only.
LEMMA ReviewSteps ==
  ASSUME IInv, NEW p \in Procs, cmd[p].kind = "review", faults' = Faults,
         Registers(p) \/ Queues(p) \/ Fetches(p) \/ Audits(p) \/ Faulty(p)
  PROVE  Registers(p)
<1>1. pc[p] \in {"start", "line", "look", "register", "done"}
  BY DEF IInv, At, Batch
<1>2. ~Queues(p)
  BY DEF Queues, QueueAgain, QueueFetch, QueueUnknown, Is
<1>3. ~Fetches(p)
  BY <1>1 DEF Fetches, FetchAgain, Find, FetchTarget, RegisterFetch, RegisterFetchConflict, Immediate,
              Busy, OpenFails, Ask, AdoptionRefused, Decline, Confirm, Open, Bind, BindFails, Publish,
              Fetched, FetchFails, WorkerClaim, Is
<1>4. ~Audits(p)
  BY <1>1 DEF Audits, Audit, AuditNothing, AuditIssue, AuditOpen, AuditAdd, AuditConflict, AuditKnown, Is
<1>5. ~Faulty(p)
  <2>1. faults \in 0 .. Faults /\ Faults \in Nat
    BY RegistrationAssumption DEF IInv, Typed
  <2>2. faults - 1 # Faults
    BY <2>1
  <2> QED BY <2>2 DEF Faulty, Caught, Uncaught, Lapse
<1> QED BY <1>2, <1>3, <1>4, <1>5

\* A step of somebody else that a review does not notice.
Unnoticed(p) == quiet'[p] /\ faults' = Faults => quiet[p] /\ faults = Faults /\ UNCHANGED <<rows, default>>

LEMMA OthersUnnoticed ==
  ASSUME IInv, NEW p \in Procs, NEW q \in Procs \ {p},
         Registers(q) \/ Queues(q) \/ Fetches(q) \/ Audits(q) \/ Faulty(q)
  PROVE  Unnoticed(p)
<1>1. quiet \in [Procs -> BOOLEAN] /\ faults \in 0 .. Faults /\ Faults \in Nat
  BY RegistrationAssumption DEF IInv, Typed
<1>2. ASSUME Changed(q) PROVE Unnoticed(p)
  BY <1>1, <1>2 DEF Changed, Unnoticed
<1>3. ASSUME faults' = faults - 1 PROVE Unnoticed(p)
  <2>1. faults - 1 # Faults
    BY <1>1
  <2> QED BY <1>3, <2>1 DEF Unnoticed
<1>4. ASSUME UNCHANGED <<rows, default, faults>>, quiet' = quiet \/ quiet' = [quiet EXCEPT ![q] = TRUE]
      PROVE  Unnoticed(p)
  BY <1>1, <1>4 DEF Unnoticed
<1>5. CASE Registers(q)
  <2>1. CASE Register(q)
    BY <1>2, <2>1 DEF Register
  <2>2. CASE ~Register(q)
    <3>1. UNCHANGED <<rows, default, faults>> /\ (quiet' = quiet \/ quiet' = [quiet EXCEPT ![q] = TRUE])
      BY <1>5, <2>2 DEF Registers, Begin, Duplicate, Malformed, NoRoot, FindTarget, Conflict, Preview,
                        Look, RegisterConflict, Submit, Done, Fails, index
    <3> QED BY <1>4, <3>1
  <2> QED BY <2>1, <2>2
<1>6. CASE Queues(q)
  <2>1. CASE QueueFetch(q)
    BY <1>2, <2>1 DEF QueueFetch
  <2>2. CASE QueueAgain(q) \/ QueueUnknown(q)
    BY <1>4, <2>2 DEF QueueAgain, QueueUnknown, Fails, index
  <2> QED BY <1>6, <2>1, <2>2 DEF Queues
<1>7. CASE Fetches(q)
  <2>1. CASE RegisterFetch(q) \/ Immediate(q) \/ OpenFails(q) \/ Ask(q) \/ AdoptionRefused(q) \/ Open(q)
             \/ Bind(q) \/ BindFails(q) \/ Publish(q) \/ Fetched(q) \/ FetchFails(q)
             \/ \E k \in Keys : WorkerClaim(q, k)
    BY <1>2, <2>1 DEF RegisterFetch, Immediate, OpenFails, Ask, AdoptionRefused, Open, Bind, BindFails,
                      Publish, Fetched, FetchFails, WorkerClaim, Ends
  <2>2. CASE FetchAgain(q) \/ Find(q) \/ FetchTarget(q) \/ RegisterFetchConflict(q) \/ Busy(q)
             \/ Decline(q) \/ Confirm(q)
    BY <1>4, <2>2 DEF FetchAgain, Find, FetchTarget, RegisterFetchConflict, Busy, Decline, Confirm, Fails,
                      index
  <2> QED BY <1>7, <2>1, <2>2 DEF Fetches
<1>8. CASE Audits(q)
  <2>1. CASE AuditOpen(q) \/ AuditAdd(q) \/ AuditConflict(q) \/ AuditKnown(q)
    BY <1>2, <2>1 DEF AuditOpen, AuditAdd, AuditConflict, AuditKnown
  <2>2. CASE Audit(q) \/ AuditNothing(q) \/ AuditIssue(q)
    BY <1>4, <2>2 DEF Audit, AuditNothing, AuditIssue, Issue, index
  <2> QED BY <1>8, <2>1, <2>2 DEF Audits
<1>9. CASE Faulty(q)
  BY <1>3, <1>9 DEF Faulty, Caught, Uncaught, Lapse
<1> QED BY <1>5, <1>6, <1>7, <1>8, <1>9

LEMMA HonestStays ==
  ASSUME IInv, NEW p \in Procs, Honest(p), Unnoticed(p),
         cmd'[p] = cmd[p], pc'[p] = pc[p], line'[p] = line[p], known'[p] = known[p],
         target'[p] = target[p], results'[p] = results[p], promised'[p] = promised[p]
  PROVE  Honest(p)'
<1> SUFFICES ASSUME Undisturbed(p)' PROVE Candid(p)'
  BY DEF Honest, Candid
<1>1. UNCHANGED <<rows, default>> /\ Undisturbed(p)
  BY DEF Undisturbed, Unnoticed
<1>2. Candid(p)
  BY <1>1 DEF Honest, Candid
<1>3. Key(p)' = Key(p) /\ Input(p)' = Input(p) /\ (Previewing(p)' <=> Previewing(p))
  BY DEF Key, Input, Previewing
<1>4. CASE Previewing(p)
  <2>1. Previews(p)'
    BY <1>1, <1>2, <1>3, <1>4 DEF Candid, Previews
  <2> QED BY <1>3, <1>4, <2>1 DEF Candid
<1>5. CASE ~Previewing(p)
  <2>1. PICK B \in [Keys -> Row] : Fulfils(p, B)
    BY <1>2, <1>5 DEF Candid
  <2>2. Fulfils(p, B)'
    BY <1>1, <1>3, <2>1 DEF Fulfils
  <2> QED BY <1>3, <1>5, <2>1, <2>2 DEF Candid
<1> QED BY <1>4, <1>5

LEMMA HonestKeeps ==
  ASSUME IInv, NEW p \in Procs, Honest(p), [Next]_vars
  PROVE  Honest(p)'
<1>1. ASSUME NEW q \in Procs, Registers(q) \/ Queues(q) \/ Fetches(q) \/ Audits(q) \/ Faulty(q)
      PROVE  Honest(p)'
  <2>1. CASE q # p
    <3>1. Own(q)
      BY <1>1, ProcessKeeps DEF Change
    <3>2. Unnoticed(p)
      BY <1>1, <2>1, OthersUnnoticed
    <3> QED BY <2>1, <3>1, <3>2, HonestStays DEF Own
  <2>2. CASE q = p
    <3> SUFFICES ASSUME Undisturbed(p)' PROVE Candid(p)'
      BY DEF Honest, Candid
    <3>1. cmd[p].kind = "review" /\ faults' = Faults /\ quiet'[p]
      BY <1>1, <2>2, KindStays DEF Undisturbed
    <3>2. Registers(p)
      BY <1>1, <2>2, <3>1, ReviewSteps
    <3>3. CASE pc[p] = "start"
      <4>1. Begin(p)
        BY <3>2, <3>3 DEF Registers, Duplicate, Malformed, NoRoot, FindTarget, Conflict, Preview, Look,
                          Register, RegisterConflict, Submit, Done, HasInput
      <4> QED BY <3>1, <4>1, BeginsCandidly
    <3>4. CASE pc[p] # "start"
      <4>1. quiet[p] /\ faults = Faults
        BY <3>1, <3>2, <3>4 DEF Registers, Begin, Duplicate, Malformed, NoRoot, FindTarget, Conflict,
              Preview, Look, Register, RegisterConflict, Submit, Done, Fails, Changed, IInv, Typed
      <4>2. Candid(p)
        BY <3>1, <3>4, <4>1 DEF Honest, Undisturbed, Candid
      <4> QED BY <3>1, <3>2, <3>4, <4>2, StepsCandidly
    <3> QED BY <3>3, <3>4
  <2> QED BY <2>1, <2>2
<1>2. CASE Configure
  BY <1>2 DEF Configure, Honest, Undisturbed
<1>3. CASE UNCHANGED vars
  BY <1>3, HonestStays DEF vars, index, local, Unnoticed
<1> QED BY <1>1, <1>2, <1>3 DEF Next

\* Unless something else changed between the two, registering a batch answers
\* every line as its preview did, whatever the lines have in common.
THEOREM PreviewsAreHonest == Spec => []PreviewIsHonest
<1> DEFINE Both == IInv /\ \A p \in Procs : Honest(p)
<1>1. Init => Both
  <2>1. Init => \A p \in Procs : Honest(p)
    BY DEF Init, Honest, Undisturbed
  <2> QED BY <2>1, InitIInv
<1>2. Both /\ [Next]_vars => Both'
  BY NextKeeps, HonestKeeps
<1>3. Both => PreviewIsHonest
  <2> SUFFICES ASSUME Both, NEW p \in Procs, cmd[p].kind = "review", pc[p] = "done", quiet[p],
                      faults = Faults
               PROVE  results[p] = [i \in DOMAIN promised[p] |-> Promised(promised[p][i])]
    BY DEF PreviewIsHonest
  <2>1. IInv /\ Candid(p)
    BY DEF Honest, Undisturbed, Candid
  <2>2. ~Previewing(p)
    BY <2>1 DEF Candid, Previews
  <2>3. PICK B \in [Keys -> Row] : Fulfils(p, B)
    BY <2>1, <2>2 DEF Candid
  <2>4. line[p] - 1 = Len(cmd[p].urls) /\ Len(results[p]) = line[p] - 1
    <3>1. line[p] = Len(cmd[p].urls) + 1 /\ Len(results[p]) = line[p] - 1 /\ Len(cmd[p].urls) \in Nat
      BY <2>1, LenProperties DEF IInv, At, Reported, Batch, Typed, Orders
    <3> QED BY <3>1
  <2>5. /\ promised[p] \in Seq(Result) /\ results[p] \in Seq(Result)
        /\ Len(promised[p]) = Len(results[p])
        /\ \A i \in 1 .. Len(results[p]) : results[p][i] = Promised(promised[p][i])
    BY <2>1, <2>3, <2>4 DEF IInv, Typed, Fulfils
  <2>6. /\ DOMAIN promised[p] = 1 .. Len(results[p])
        /\ results[p] = [i \in 1 .. Len(results[p]) |-> results[p][i]]
    BY <2>5, LenProperties
  <2> QED BY <2>5, <2>6
<1> HIDE DEF Both
<1> QED BY <1>1, <1>2, <1>3, PTL DEF Spec

=============================================================================
