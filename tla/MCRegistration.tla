--------------------------- MODULE MCRegistration ---------------------------
(* Instances of Registration: one key with two source paths and two spellings. *)
EXTENDS Registration, TLC
CONSTANTS p1, p2, p3, r1, r2, k, lower, upper
One == [key |-> k, source |-> lower, name |-> "https"]
Other == [key |-> k, source |-> lower, name |-> "ssh"]
Cased == [key |-> k, source |-> upper, name |-> "https"]
Wrong == [key |-> None, source |-> lower, name |-> "wrong"]
MCUrls == {One, Other, Cased, Wrong}
Command(kind, batches, given, fetches, adopts) ==
  {[kind |-> kind, urls |-> u, root |-> r, fetch |-> f, adopt |-> d] :
     u \in batches, r \in given, f \in fetches, d \in adopts}
SomeBatches == {<<Cased, Wrong>>, <<One, Other>>}
MCPlaces == {<<[key |-> k, root |-> r1], [key |-> k, root |-> r2]>>}
Nothing == [state |-> "absent", source |-> None]
MCSupplies == {Nothing, [state |-> "supplied", source |-> lower], [state |-> "ready", source |-> upper]}
Worker == Command("worker", {<<>>}, {None}, {FALSE}, {FALSE})
AllCommands ==
  p1 :> Command("fetch", {<<One>>, <<Cased, Cased>>}, {None}, {FALSE}, BOOLEAN)
         \cup Command("review", SomeBatches, {r1}, {TRUE}, {FALSE}) @@
  p2 :> Command("add", {<<One, One>>, <<Cased>>}, {r2}, {TRUE}, {FALSE})
         \cup Command("queue", SomeBatches, {None}, {TRUE}, {FALSE})
         \cup Command("audit", MCPlaces, {None}, {FALSE}, BOOLEAN) @@
  p3 :> Worker
BatchFetch ==
  p1 :> Command("fetch", {<<One, Other>>, <<One, Wrong>>}, {None}, {FALSE}, {FALSE}) @@
  p2 :> Worker
=============================================================================
