---------------------------- MODULE CommandProofs ----------------------------
(***************************************************************************)
(* Two parts of a command.  The settings file: what a command configured   *)
(* stays configured, a file is never broken, and readers need no lock, for *)
(* every number of processes and every spelling of directories.  And the   *)
(* choice of a transport (Net, at the end).                                *)
(***************************************************************************)
EXTENDS Settings, FiniteSetTheorems, WellFoundedInduction, TLAPS

---------------------------------------------------------------------------
(* The list of a file *)

Mentions(names) ==
  {i \in DOMAIN names :
     \A k \in DOMAIN names : Resolve[names[k]] = Resolve[names[i]] => i <= k}
Before(names, i) == {k \in Mentions(names) : k < i}
Nth(names, n) == CHOOSE i \in Mentions(names) : Cardinality(Before(names, i)) = n - 1

\* Of a non-empty set of naturals one is the least.
LEMMA LeastNatural ==
  ASSUME NEW S \in SUBSET Nat, S # {}
  PROVE  \E m \in S : \A n \in S : m <= n
<1> DEFINE T == {0 .. n : n \in S}
<1> DEFINE R == StrictSubsetOrdering(Nat)
<1>1. IsWellFoundedOn(R, FiniteSubsetsOf(Nat))
  BY FS_StrictSubsetOrderingWellFounded
<1>2. T \subseteq FiniteSubsetsOf(Nat) /\ T # {}
  <2>1. ASSUME NEW t \in T PROVE t \in FiniteSubsetsOf(Nat)
    <3>1. PICK n \in S : t = 0 .. n
      OBVIOUS
    <3>2. t \subseteq Nat /\ IsFiniteSet(t)
      BY <3>1, FS_Interval
    <3> QED BY <3>2 DEF FiniteSubsetsOf
  <2> QED BY <2>1
<1>3. PICK x \in T : \A y \in T : <<y, x>> \notin R
  <2> HIDE DEF T, R
  <2> QED BY <1>1, <1>2, WFMin
<1>4. PICK m \in S : x = 0 .. m
  BY <1>3
<1>5. ASSUME NEW n \in S, n < m PROVE FALSE
  <2>1. 0 .. n \subseteq 0 .. m /\ m \in 0 .. m /\ m \notin 0 .. n
    BY <1>5
  <2>2. <<0 .. n, x>> \in R
    BY <1>4, <2>1 DEF StrictSubsetOrdering
  <2> QED BY <1>3, <2>2
<1> QED BY <1>5

\* The n-th mention is the only one with n - 1 mentions before it, for every n there can be.
LEMMA NthMention ==
  ASSUME NEW names \in Seq(Names)
  PROVE  LET M == Mentions(names)
         IN  /\ Cardinality(M) \in Nat
             /\ \A n \in 1 .. Cardinality(M) :
                  /\ Nth(names, n) \in M
                  /\ Cardinality(Before(names, Nth(names, n))) = n - 1
             /\ \A i \in M : /\ Cardinality(Before(names, i)) + 1 \in 1 .. Cardinality(M)
                             /\ Nth(names, Cardinality(Before(names, i)) + 1) = i
<1> DEFINE M == Mentions(names)
<1> DEFINE rank == [i \in M |-> Cardinality(Before(names, i)) + 1]
<1>1. IsFiniteSet(M) /\ M \subseteq Nat /\ Cardinality(M) \in Nat
  <2>1. DOMAIN names = 1 .. Len(names) /\ Len(names) \in Nat
    OBVIOUS
  <2>2. M \in SUBSET (1 .. Len(names))
    BY <2>1 DEF Mentions
  <2> HIDE DEF M
  <2>3. IsFiniteSet(1 .. Len(names)) /\ 1 .. Len(names) \subseteq Nat
    BY <2>1, FS_Interval
  <2>4. IsFiniteSet(M)
    BY <2>2, <2>3, FS_Subset
  <2> QED BY <2>2, <2>3, <2>4, FS_CardinalityType
<1>2. ASSUME NEW i \in M
      PROVE  /\ IsFiniteSet(Before(names, i)) /\ Before(names, i) \in SUBSET M
             /\ Cardinality(Before(names, i)) \in Nat
             /\ Cardinality(Before(names, i)) < Cardinality(M)
  <2>1. Before(names, i) \in SUBSET M /\ i \notin Before(names, i)
    BY <1>1 DEF Before
  <2> HIDE DEF M
  <2>2. IsFiniteSet(Before(names, i)) /\ Cardinality(Before(names, i)) \in Nat
        /\ Cardinality(Before(names, i)) <= Cardinality(M)
    BY <1>1, <2>1, FS_Subset, FS_CardinalityType
  <2>3. Cardinality(Before(names, i)) # Cardinality(M)
    BY <1>1, <1>2, <2>1, FS_Subset
  <2> QED BY <1>1, <2>1, <2>2, <2>3
<1>3. ASSUME NEW i \in M, NEW j \in M, i < j
      PROVE  Cardinality(Before(names, i)) < Cardinality(Before(names, j))
  <2>1. Before(names, i) \in SUBSET Before(names, j) /\ i \in Before(names, j)
        /\ i \notin Before(names, i)
    BY <1>1, <1>3 DEF Before
  <2> HIDE DEF M
  <2>2. Cardinality(Before(names, i)) <= Cardinality(Before(names, j))
        /\ Cardinality(Before(names, i)) # Cardinality(Before(names, j))
    BY <1>2, <2>1, FS_Subset
  <2> QED BY <1>2, <2>2
<1>4. \A i, j \in M : Cardinality(Before(names, i)) = Cardinality(Before(names, j)) => i = j
  <2> SUFFICES ASSUME NEW i \in M, NEW j \in M, i # j
               PROVE  Cardinality(Before(names, i)) # Cardinality(Before(names, j))
    OBVIOUS
  <2>1. i < j \/ j < i
    BY <1>1
  <2> HIDE DEF M
  <2> QED BY <1>2, <1>3, <2>1
<1>5. rank \in Injection(M, 1 .. Cardinality(M))
  <2>1. \A i \in M : rank[i] = Cardinality(Before(names, i)) + 1
    OBVIOUS
  <2>2. rank \in [M -> 1 .. Cardinality(M)]
    <3> HIDE DEF M
    <3> QED BY <1>1, <1>2
  <2> HIDE DEF M, rank
  <2> QED BY <1>2, <1>4, <2>1, <2>2 DEF Injection, IsInjective
<1>6. rank \in Surjection(M, 1 .. Cardinality(M))
  <2>1. IsFiniteSet(1 .. Cardinality(M)) /\ Cardinality(1 .. Cardinality(M)) = Cardinality(M)
    BY <1>1, FS_Interval
  <2> HIDE DEF M, rank
  <2> QED BY <1>5, <2>1, FS_Injection
<1>7. ASSUME NEW n \in 1 .. Cardinality(M)
      PROVE  \E i \in M : Cardinality(Before(names, i)) = n - 1
  <2>1. PICK i \in M : rank[i] = n
    <3> HIDE DEF M, rank
    <3> QED BY <1>6, <1>7 DEF Surjection
  <2>2. Cardinality(Before(names, i)) + 1 = n
    BY <2>1
  <2> HIDE DEF M
  <2> QED BY <1>2, <2>2
<1> HIDE DEF M
<1>8. ASSUME NEW n \in 1 .. Cardinality(M)
      PROVE  Nth(names, n) \in M /\ Cardinality(Before(names, Nth(names, n))) = n - 1
  BY <1>7, <1>8 DEF Nth, M
<1>9. ASSUME NEW i \in M
      PROVE  /\ Cardinality(Before(names, i)) + 1 \in 1 .. Cardinality(M)
             /\ Nth(names, Cardinality(Before(names, i)) + 1) = i
  <2> DEFINE n == Cardinality(Before(names, i)) + 1
  <2>1. n \in 1 .. Cardinality(M) /\ n - 1 = Cardinality(Before(names, i))
    BY <1>1, <1>2, <1>9
  <2> HIDE DEF n
  <2>2. /\ Nth(names, n) \in M
        /\ Cardinality(Before(names, Nth(names, n))) = Cardinality(Before(names, i))
    BY <1>8, <2>1
  <2> QED BY <1>4, <1>9, <2>1, <2>2 DEF n
<1> QED BY <1>1, <1>8, <1>9 DEF M

\* What is parsed: the directories that the spellings name, each once.
LEMMA ParsedDirs ==
  ASSUME NEW names \in Seq(Names)
  PROVE  LET dirs == ParseArchiveDirs(names)
         IN  /\ dirs \in Seq(Names)
             /\ ToSet(dirs) = {Resolve[names[i]] : i \in DOMAIN names}
             /\ \A n \in DOMAIN dirs : Resolve[dirs[n]] = dirs[n]
             /\ \A m, n \in DOMAIN dirs : dirs[m] = dirs[n] => m = n
<1> DEFINE M == Mentions(names)
<1> DEFINE dirs == ParseArchiveDirs(names)
<1>1. dirs = [n \in 1 .. Cardinality(M) |-> Resolve[names[Nth(names, n)]]]
  BY DEF ParseArchiveDirs, Mentions, Before, Nth
<1>2. \A i \in DOMAIN names : names[i] \in Names /\ Resolve[names[i]] \in Names
                              /\ Resolve[Resolve[names[i]]] = Resolve[names[i]]
  BY SettingsAssumption
<1>3. DOMAIN names \in SUBSET Nat /\ M \subseteq DOMAIN names
  BY DEF Mentions
<1>4. ASSUME NEW i \in DOMAIN names
      PROVE  \E j \in M : Resolve[names[j]] = Resolve[names[i]]
  <2> DEFINE S == {k \in DOMAIN names : Resolve[names[k]] = Resolve[names[i]]}
  <2>1. S \in SUBSET Nat /\ S # {}
    BY <1>3, <1>4
  <2>2. PICK j \in S : \A k \in S : j <= k
    <3> HIDE DEF S
    <3> QED BY <2>1, LeastNatural
  <2> QED BY <2>2 DEF Mentions
<1>5. \A i, j \in M : Resolve[names[i]] = Resolve[names[j]] => i = j
  <2> SUFFICES ASSUME NEW i \in M, NEW j \in M, Resolve[names[i]] = Resolve[names[j]]
               PROVE  i = j
    OBVIOUS
  <2>1. i <= j /\ j <= i /\ i \in Nat /\ j \in Nat
    BY <1>3 DEF Mentions
  <2> QED BY <2>1
<1> HIDE DEF M, dirs
<1>6. /\ Cardinality(M) \in Nat
      /\ \A n \in 1 .. Cardinality(M) :
           /\ Nth(names, n) \in M
           /\ Cardinality(Before(names, Nth(names, n))) = n - 1
      /\ \A i \in M : /\ Cardinality(Before(names, i)) + 1 \in 1 .. Cardinality(M)
                      /\ Nth(names, Cardinality(Before(names, i)) + 1) = i
  BY NthMention DEF M
<1>7. /\ DOMAIN dirs = 1 .. Cardinality(M)
      /\ \A n \in DOMAIN dirs : dirs[n] = Resolve[names[Nth(names, n)]]
  BY <1>1
<1>8. dirs \in Seq(Names)
  <2>1. dirs \in [1 .. Cardinality(M) -> Names]
    BY <1>1, <1>2, <1>3, <1>6
  <2> QED BY <1>6, <2>1
<1>9. \A n \in DOMAIN dirs : Resolve[dirs[n]] = dirs[n]
  BY <1>2, <1>3, <1>6, <1>7
<1>10. ASSUME NEW m \in DOMAIN dirs, NEW n \in DOMAIN dirs, dirs[m] = dirs[n] PROVE m = n
  <2>1. Nth(names, m) = Nth(names, n)
    BY <1>5, <1>6, <1>7, <1>10
  <2>2. m - 1 = n - 1 /\ m \in Nat /\ n \in Nat
    BY <1>6, <1>7, <2>1
  <2> QED BY <2>2
<1>11. ToSet(dirs) = {Resolve[names[i]] : i \in DOMAIN names}
  <2>1. ASSUME NEW n \in DOMAIN dirs
        PROVE  dirs[n] \in {Resolve[names[i]] : i \in DOMAIN names}
    BY <1>3, <1>6, <1>7
  <2>2. ASSUME NEW i \in DOMAIN names
        PROVE  \E n \in DOMAIN dirs : dirs[n] = Resolve[names[i]]
    <3>1. PICK j \in M : Resolve[names[j]] = Resolve[names[i]]
      BY <1>4
    <3> DEFINE n == Cardinality(Before(names, j)) + 1
    <3>2. n \in DOMAIN dirs /\ Nth(names, n) = j
      BY <1>6, <1>7
    <3> HIDE DEF n
    <3> QED BY <1>7, <3>1, <3>2
  <2> QED BY <2>1, <2>2 DEF ToSet
<1> QED BY <1>8, <1>9, <1>10, <1>11 DEF dirs

\* A list that is parsed and written again is read as it was.
LEMMA ParsedAgain ==
  ASSUME NEW names \in Seq(Names),
         \A n \in DOMAIN names : Resolve[names[n]] = names[n],
         \A m, n \in DOMAIN names : names[m] = names[n] => m = n
  PROVE  ParseArchiveDirs(names) = names
<1>1. DOMAIN names = 1 .. Len(names) /\ Len(names) \in Nat
  OBVIOUS
<1>2. Mentions(names) = 1 .. Len(names)
  BY <1>1 DEF Mentions
<1>3. Cardinality(1 .. Len(names)) = Len(names)
  BY <1>1, FS_Interval
<1>4. ASSUME NEW n \in 1 .. Len(names) PROVE Nth(names, n) = n
  <2>1. Before(names, n) = 1 .. (n - 1)
    BY <1>1, <1>2 DEF Before
  <2>2. Cardinality(1 .. (n - 1)) = n - 1
    BY <1>4, FS_Interval
  <2>3. n \in Mentions(names) /\ Cardinality(Before(names, n)) + 1 = n
    BY <1>2, <2>1, <2>2
  <2> QED BY <2>3, NthMention
<1>5. ParseArchiveDirs(names) = [n \in 1 .. Len(names) |-> Resolve[names[Nth(names, n)]]]
  BY <1>2, <1>3 DEF ParseArchiveDirs, Mentions, Before, Nth
<1>6. ParseArchiveDirs(names) = [n \in 1 .. Len(names) |-> names[n]]
  BY <1>1, <1>4, <1>5
<1> QED BY <1>1, <1>6

---------------------------------------------------------------------------
(* The inductive invariant *)

\* A file under the name config.toml is always synchronised.
IsFile(f) == \/ f = Absent \/ f = Refused
             \/ f = Listed(f.names, TRUE) /\ f.names \in Seq(Names)

Places == {"idle", "locking", "loading", "changing", "writing", "syncing", "replacing", "saved",
           "opening", "reading"}
Inside == {"loading", "changing", "writing", "syncing", "replacing", "saved"}

\* What is on the disk, and what the name refers to until it is written back.
OnDisk == /\ IsFile(file) /\ IsFile(durable)
          /\ Readable(file) <=> Readable(durable)
          /\ IsPrefix(Dirs(durable), Dirs(file))

\* What a process in the transaction relies on: the file is the one it loaded.
Writes(p) ==
  /\ lock = p <=> pc[p] \in Inside
  /\ pc[p] \in Inside \cup {"locking"} => arg[p] \in Names /\ Resolve[arg[p]] = arg[p]
  /\ pc[p] \in {"changing", "writing", "syncing", "replacing"} =>
       Readable(file) /\ held[p] = Dirs(file)
  /\ pc[p] \in {"writing", "syncing", "replacing"} => ~Contains(held[p], arg[p])
  /\ pc[p] = "syncing" => temp[p] = Listed(Append(held[p], arg[p]), FALSE)
  /\ pc[p] = "replacing" => temp[p] = Listed(Append(held[p], arg[p]), TRUE)
  /\ pc[p] = "saved" => arg[p] \in ToSet(Dirs(file))

\* What a process reads without the lock.
Reads(p) ==
  /\ pc[p] = "opening" => due[p] \subseteq ToSet(Dirs(file))
  /\ pc[p] = "reading" => due[p] \subseteq ToSet(Dirs(held[p]))

\* Every variable has its shape.
Shapes ==
  /\ pc \in [Procs -> Places] /\ lock \in Procs \cup {None}
  /\ DOMAIN temp = Procs /\ temp = [p \in Procs |-> temp[p]]
  /\ DOMAIN arg = Procs /\ arg = [p \in Procs |-> arg[p]]
  /\ DOMAIN held = Procs /\ held = [p \in Procs |-> held[p]]
  /\ DOMAIN due = Procs /\ due = [p \in Procs |-> due[p]]
  /\ outages \in Nat

IInv ==
  /\ Shapes /\ OnDisk /\ acked \subseteq ToSet(Dirs(file))
  /\ \A p \in Procs : Writes(p) /\ Reads(p)

\* What a file lists: directories, each once.
LEMMA DirsOfFile ==
  ASSUME NEW f, IsFile(f)
  PROVE  /\ Dirs(f) \in Seq(Names)
         /\ \A n \in DOMAIN Dirs(f) : Resolve[Dirs(f)[n]] = Dirs(f)[n]
         /\ \A m, n \in DOMAIN Dirs(f) : Dirs(f)[m] = Dirs(f)[n] => m = n
<1>1. CASE f.kind = "listed"
  <2>1. f.names \in Seq(Names) /\ Dirs(f) = ParseArchiveDirs(f.names)
    BY <1>1 DEF IsFile, Absent, Refused, Listed, Dirs
  <2> QED BY <2>1, ParsedDirs
<1>2. CASE f.kind # "listed"
  BY <1>2 DEF Dirs
<1> QED BY <1>1, <1>2

LEMMA PrefixFacts ==
  ASSUME NEW s \in Seq(Names), NEW t \in Seq(Names), IsPrefix(s, t)
  PROVE  /\ ToSet(s) \subseteq ToSet(t)
         /\ \A u \in Seq(Names) : IsPrefix(t, u) => IsPrefix(s, u)
<1>1. Len(s) <= Len(t) /\ \A i \in 1 .. Len(s) : s[i] = t[i]
  BY DEF IsPrefix
<1>2. ToSet(s) \subseteq ToSet(t)
  BY <1>1 DEF ToSet
<1>3. ASSUME NEW u \in Seq(Names), IsPrefix(t, u) PROVE IsPrefix(s, u)
  <2>1. Len(t) <= Len(u) /\ \A i \in 1 .. Len(t) : t[i] = u[i]
    BY <1>3 DEF IsPrefix
  <2> QED BY <1>1, <2>1 DEF IsPrefix
<1> QED BY <1>2, <1>3

LEMMA PrefixSelf ==
  ASSUME NEW s \in Seq(Names) PROVE IsPrefix(s, s)
BY DEF IsPrefix

\* The list with one more root is read as it was written.
LEMMA DirsAppended ==
  ASSUME NEW f, IsFile(f), NEW a \in Names, Resolve[a] = a, ~Contains(Dirs(f), a)
  PROVE  LET g == Listed(Append(Dirs(f), a), TRUE)
         IN  /\ IsFile(g) /\ Readable(g)
             /\ Dirs(g) = Append(Dirs(f), a)
             /\ IsPrefix(Dirs(f), Dirs(g)) /\ a \in ToSet(Dirs(g))
<1> DEFINE s == Dirs(f)
<1> DEFINE t == Append(s, a)
<1>1. /\ s \in Seq(Names)
      /\ \A n \in DOMAIN s : Resolve[s[n]] = s[n] /\ s[n] # a
      /\ \A m, n \in DOMAIN s : s[m] = s[n] => m = n
  BY DirsOfFile DEF Contains
<1> HIDE DEF s
<1>2. /\ t \in Seq(Names) /\ Len(t) = Len(s) + 1
      /\ \A i \in 1 .. Len(s) : t[i] = s[i]
      /\ t[Len(t)] = a /\ Len(t) \in DOMAIN t
  BY <1>1
<1> HIDE DEF t
<1>3. \A n \in DOMAIN t : n \in DOMAIN s \/ n = Len(t)
  BY <1>1, <1>2
<1>4. ParseArchiveDirs(t) = t
  <2>1. \A n \in DOMAIN t : Resolve[t[n]] = t[n]
    BY <1>1, <1>2, <1>3
  <2>2. \A m, n \in DOMAIN t : t[m] = t[n] => m = n
    BY <1>1, <1>2, <1>3
  <2> QED BY <1>2, <2>1, <2>2, ParsedAgain
<1>5. Dirs(Listed(t, TRUE)) = t
  BY <1>4 DEF Dirs, Listed
<1>6. IsPrefix(s, t) /\ a \in ToSet(t)
  BY <1>1, <1>2 DEF IsPrefix, ToSet
<1>7. IsFile(Listed(t, TRUE)) /\ Readable(Listed(t, TRUE))
  BY <1>2 DEF IsFile, Readable, Listed
<1> QED BY <1>5, <1>6, <1>7 DEF s, t

LEMMA InitHolds == Init => IInv
<1> SUFFICES ASSUME Init PROVE IInv
  OBVIOUS
<1>1. IsFile(file)
  <2>1. CASE file \in {Absent, Refused}
    BY <2>1 DEF IsFile
  <2>2. CASE file \notin {Absent, Refused}
    <3>1. PICK k \in 0 .. 2 : \E s \in [1 .. k -> Names] : file = Listed(s, TRUE)
      BY <2>2 DEF Init, InitialFiles
    <3>2. PICK s \in [1 .. k -> Names] : file = Listed(s, TRUE)
      BY <3>1
    <3>3. s \in Seq(Names)
      BY <3>1
    <3> QED BY <3>2, <3>3 DEF IsFile, Listed
  <2> QED BY <2>1, <2>2
<1>2. OnDisk
  BY <1>1, DirsOfFile, PrefixSelf DEF Init, OnDisk
<1> QED BY <1>2, SettingsAssumption DEF Init, IInv, Shapes, Places, Inside, Writes, Reads

---------------------------------------------------------------------------
(* The steps *)

\* Only a rename and a power failure change the file.
Quiet == UNCHANGED <<file, durable, outages>>

LEMMA CommandStep ==
  ASSUME IInv, NEW p \in Procs, NEW n \in Names, NormalizeArchiveDir(p, n) \/ Exists(p)
  PROVE  IInv' /\ Quiet
<1>1. CASE NormalizeArchiveDir(p, n)
  <2>1. Resolve[n] \in Names /\ Resolve[Resolve[n]] = Resolve[n]
    BY SettingsAssumption
  <2> QED BY <1>1, <2>1
    DEF NormalizeArchiveDir, Goto, IInv, Shapes, OnDisk, Places, Inside, Writes, Reads, Quiet
<1>2. CASE Exists(p)
  BY <1>2 DEF Exists, Goto, IInv, Shapes, OnDisk, Places, Inside, Writes, Reads, Quiet
<1> QED BY <1>1, <1>2

\* What fsync does to a file.
LEMMA Synchronised ==
  ASSUME NEW n PROVE [Listed(n, FALSE) EXCEPT !.synced = TRUE] = Listed(n, TRUE)
<1> DEFINE T == [kind : {"listed"}, names : {n}, synced : BOOLEAN]
<1> DEFINE r == Listed(n, FALSE)
<1> DEFINE e == [r EXCEPT !.synced = TRUE]
<1> DEFINE g == Listed(n, TRUE)
<1>1. r \in T
  BY DEF Listed
<1>2. e \in T /\ e.synced = TRUE
  BY <1>1
<1>3. g \in T /\ g.synced = TRUE
  BY DEF Listed
<1>4. \A a, b \in T : a.synced = b.synced => a = b
  OBVIOUS
<1> HIDE DEF e, g
<1>5. e = g
  BY <1>2, <1>3, <1>4
<1> QED BY <1>5 DEF e, g, r

LEMMA QuietStep ==
  ASSUME IInv, NEW p \in Procs,
         \/ Lock(p) \/ Load(p) \/ AlreadyConfigured(p) \/ CreateTemporary(p) \/ Write(p)
         \/ Fsync(p) \/ Saved(p) \/ Fails(p) \/ Open(p) \/ Read(p) \/ Crash(p)
  PROVE  IInv' /\ Quiet
<1> USE DEF Goto, IInv, Shapes, OnDisk, Places, Inside, Writes, Reads, Quiet
<1>1. CASE Lock(p)
  BY <1>1, SettingsAssumption DEF Lock
<1>2. CASE Load(p)
  BY <1>2 DEF Load
<1>3. ASSUME Report(p), arg[p] \in ToSet(Dirs(file)), pc[p] \in Inside,
             pc' = [pc EXCEPT ![p] = "idle"],
             UNCHANGED <<file, durable, temp, arg, held, calls, due, outages>>
      PROVE  IInv' /\ Quiet
  <2>1. lock = p /\ (\A q \in Procs : q # p => pc[q] \notin Inside /\ pc'[q] = pc[q])
        /\ pc'[p] = "idle" /\ lock' = None /\ None \notin Procs
    BY <1>3, SettingsAssumption DEF Report
  <2>2. Shapes' /\ OnDisk' /\ Quiet
    BY <1>3 DEF Report
  <2>3. acked' \subseteq ToSet(Dirs(file'))
    BY <1>3 DEF Report
  <2>4. ASSUME NEW q \in Procs PROVE Writes(q)' /\ Reads(q)'
    BY <1>3, <2>1 DEF Report
  <2> QED BY <2>2, <2>3, <2>4
<1>4. CASE AlreadyConfigured(p)
  <2>1. arg[p] \in ToSet(Dirs(file))
    <3>1. Contains(Dirs(file), arg[p]) /\ Dirs(file) \in Seq(Names)
      BY <1>4, DirsOfFile DEF AlreadyConfigured
    <3> QED BY <3>1 DEF Contains, ToSet
  <2>2. /\ Report(p) /\ pc[p] \in Inside /\ pc' = [pc EXCEPT ![p] = "idle"]
        /\ UNCHANGED <<file, durable, temp, arg, held, calls, due, outages>>
    BY <1>4 DEF AlreadyConfigured
  <2> QED BY <1>3, <2>1, <2>2
<1>5. CASE Saved(p)
  BY <1>3, <1>5 DEF Saved
<1>6. CASE CreateTemporary(p)
  BY <1>6 DEF CreateTemporary
<1>7. CASE Write(p)
  BY <1>7 DEF Write
<1>8. CASE Fsync(p)
  <2>1. temp'[p] = Listed(Append(held[p], arg[p]), TRUE)
    <3> DEFINE list == Append(held[p], arg[p])
    <3>1. temp[p] = Listed(list, FALSE) /\ temp'[p] = [temp[p] EXCEPT !.synced = TRUE]
      BY <1>8 DEF Fsync
    <3> HIDE DEF list
    <3>2. [Listed(list, FALSE) EXCEPT !.synced = TRUE] = Listed(list, TRUE)
      BY Synchronised
    <3>3. temp'[p] = Listed(list, TRUE)
      BY <3>1, <3>2
    <3> QED BY <3>3 DEF list
  <2>2. \A q \in Procs : q # p => temp'[q] = temp[q] /\ pc'[q] = pc[q]
    BY <1>8 DEF Fsync
  <2>3. Shapes' /\ OnDisk' /\ Quiet /\ acked' \subseteq ToSet(Dirs(file'))
    BY <1>8 DEF Fsync
  <2>4. pc[p] = "syncing" /\ pc'[p] = "replacing"
    BY <1>8 DEF Fsync
  <2>5. ASSUME NEW q \in Procs PROVE Writes(q)' /\ Reads(q)'
    BY <1>8, <2>1, <2>2, <2>4 DEF Fsync
  <2> QED BY <2>3, <2>5
<1>9. CASE Fails(p)
  BY <1>9, SettingsAssumption DEF Fails
<1>10. CASE Open(p)
  BY <1>10 DEF Open
<1>11. CASE Read(p)
  BY <1>11 DEF Read
<1>12. CASE Crash(p)
  BY <1>12, SettingsAssumption DEF Crash, Idle
<1> QED BY <1>1, <1>2, <1>4, <1>5, <1>6, <1>7, <1>8, <1>9, <1>10, <1>11, <1>12

\* The rename replaces a list that could be read by one that is longer by a root.
LEMMA ReplaceStep ==
  ASSUME IInv, NEW p \in Procs, Replace(p)
  PROVE  /\ IInv' /\ Readable(file) /\ Readable(file')
         /\ IsPrefix(Dirs(file), Dirs(file'))
<1>1. /\ arg[p] \in Names /\ Resolve[arg[p]] = arg[p] /\ held[p] = Dirs(file)
      /\ ~Contains(Dirs(file), arg[p]) /\ Readable(file) /\ IsFile(file)
      /\ file' = Listed(Append(Dirs(file), arg[p]), TRUE) /\ lock = p
  BY DEF Replace, Goto, IInv, Writes, Inside, OnDisk
<1>2. /\ IsFile(file') /\ Readable(file')
      /\ IsPrefix(Dirs(file), Dirs(file')) /\ arg[p] \in ToSet(Dirs(file'))
  BY <1>1, DirsAppended
<1>3. /\ Dirs(file) \in Seq(Names) /\ Dirs(file') \in Seq(Names) /\ Dirs(durable) \in Seq(Names)
  BY <1>1, <1>2, DirsOfFile DEF IInv, OnDisk
<1>4. ToSet(Dirs(file)) \subseteq ToSet(Dirs(file'))
  BY <1>2, <1>3, PrefixFacts
<1>5. OnDisk'
  <2>1. IsPrefix(Dirs(durable), Dirs(file'))
    BY <1>2, <1>3, PrefixFacts DEF IInv, OnDisk
  <2> QED BY <1>1, <1>2, <2>1 DEF Replace, IInv, OnDisk
<1>6. Shapes' /\ acked' \subseteq ToSet(Dirs(file'))
  BY <1>4 DEF Replace, Goto, IInv, Shapes, Places
<1>7. ASSUME NEW q \in Procs PROVE Writes(q)' /\ Reads(q)'
  <2>1. q # p => pc[q] \notin Inside /\ pc'[q] = pc[q]
    BY <1>1 DEF Replace, Goto, IInv, Shapes, Writes
  <2>2. q = p => pc'[q] = "saved"
    BY DEF Replace, Goto, IInv, Shapes
  <2> QED BY <1>1, <1>2, <1>4, <2>1, <2>2 DEF Replace, IInv, Shapes, Writes, Reads, Inside
<1> QED BY <1>1, <1>2, <1>5, <1>6, <1>7 DEF IInv

LEMMA WritebackStep ==
  ASSUME IInv, Writeback
  PROVE  IInv' /\ file' = file
<1>1. IsPrefix(Dirs(file), Dirs(file))
  BY DirsOfFile, PrefixSelf DEF IInv, OnDisk
<1> QED BY <1>1 DEF Writeback, IInv, Shapes, OnDisk, Writes, Reads

\* After a power failure there is the list that was on the disk, or the one that was not yet.
LEMMA PowerFailureStep ==
  ASSUME IInv, PowerFailure
  PROVE  IInv' /\ outages' > outages /\ file' \in {file, durable}
<1>1. PICK f \in Remains(durable) \cup Remains(file) : file' = f /\ durable' = f
  BY DEF PowerFailure
<1>2. f \in {file, durable} /\ IsFile(f)
  BY DEF IInv, OnDisk, IsFile, Remains, Absent, Refused, Listed
<1>3. IsPrefix(Dirs(f), Dirs(f))
  BY <1>2, DirsOfFile, PrefixSelf
<1>4. OnDisk'
  BY <1>1, <1>2, <1>3 DEF OnDisk
<1>5. Shapes' /\ outages' > outages
  BY DEF PowerFailure, Idle, IInv, Shapes, Places
<1>6. ASSUME NEW q \in Procs PROVE Writes(q)' /\ Reads(q)'
  BY SettingsAssumption DEF PowerFailure, Idle, IInv, Shapes, Writes, Reads, Inside
<1> QED BY <1>1, <1>2, <1>4, <1>5, <1>6 DEF PowerFailure, IInv

\* One step here per action.
LEMMA StepHolds ==
  ASSUME IInv, [Next]_vars
  PROVE  /\ IInv'
         /\ \/ IsPrefix(Dirs(file), Dirs(file')) /\ (Readable(file) <=> Readable(file'))
            \/ outages' > outages /\ file' = durable
<1>1. Quiet \/ file' = file =>
        IsPrefix(Dirs(file), Dirs(file')) /\ (Readable(file) <=> Readable(file'))
  BY DirsOfFile, PrefixSelf DEF IInv, OnDisk, Quiet
<1>2. ASSUME NEW p \in Procs, NEW n \in Names, NormalizeArchiveDir(p, n)
      PROVE  IInv' /\ Quiet
  BY <1>2, CommandStep
<1>3. ASSUME NEW p \in Procs, Exists(p)
      PROVE  IInv' /\ Quiet
  BY <1>3 DEF Exists, Goto, IInv, Shapes, OnDisk, Places, Inside, Writes, Reads, Quiet
<1>4. ASSUME NEW p \in Procs, Step(p) \/ Crash(p), ~Replace(p)
      PROVE  IInv' /\ Quiet
  BY <1>4, QuietStep DEF Step
<1>5. ASSUME NEW p \in Procs, Replace(p)
      PROVE  IInv' /\ IsPrefix(Dirs(file), Dirs(file')) /\ Readable(file) /\ Readable(file')
  BY <1>5, ReplaceStep
<1>6. CASE Writeback
  BY <1>1, <1>6, WritebackStep
<1>7. CASE PowerFailure
  BY <1>1, <1>7, PowerFailureStep
<1>8. CASE UNCHANGED vars
  BY <1>1, <1>8 DEF vars, IInv, Shapes, OnDisk, Writes, Reads
<1> QED BY <1>1, <1>2, <1>3, <1>4, <1>5, <1>6, <1>7, <1>8 DEF Next

\* The invariant holds in every state.
THEOREM SettingsInvariant == Spec => []IInv
<1>1. Init => IInv
  BY InitHolds
<1>2. IInv /\ [Next]_vars => IInv'
  BY StepHolds
<1> QED BY <1>1, <1>2, PTL DEF Spec

\* No command that reported success is undone by another one, or by its death: two commands that
\* add different roots both take effect.
THEOREM NoLostUpdateAlways == Spec => []NoLostUpdate
<1>1. IInv => NoLostUpdate
  BY DEF IInv, NoLostUpdate
<1> QED BY <1>1, SettingsInvariant, PTL

\* A file that the parser refuses stays as it is, and no command or power failure makes one.
THEOREM RefusedStaysAlways == Spec => RefusedStays
<1>1. IInv /\ [Next]_vars => (Readable(file) <=> Readable(file'))
  <2> SUFFICES ASSUME IInv, [Next]_vars PROVE Readable(file) <=> Readable(file')
    OBVIOUS
  <2> QED BY StepHolds DEF IInv, OnDisk
<1> QED BY <1>1, SettingsInvariant, PTL DEF Spec, RefusedStays

\* The list grows at its end only; a power failure takes it back to what the disk held before.
THEOREM OnlyGrowsAlways == Spec => OnlyGrows
<1>1. IInv /\ [Next]_vars =>
        \/ IsPrefix(Dirs(file), Dirs(file'))
        \/ /\ outages' > outages /\ Dirs(file') = Dirs(durable)
           /\ IsPrefix(Dirs(file'), Dirs(file))
  <2> SUFFICES ASSUME IInv, [Next]_vars
               PROVE  \/ IsPrefix(Dirs(file), Dirs(file'))
                      \/ /\ outages' > outages /\ Dirs(file') = Dirs(durable)
                         /\ IsPrefix(Dirs(file'), Dirs(file))
    OBVIOUS
  <2> QED BY StepHolds DEF IInv, OnDisk
<1> QED BY <1>1, SettingsInvariant, PTL DEF Spec, OnlyGrows

\* A reader without the lock gets every root that was configured when it began.
THEOREM ReadsAreCurrentAlways == Spec => []ReadsAreCurrent
<1>1. IInv => ReadsAreCurrent
  BY DEF IInv, ReadsAreCurrent, Reads
<1> QED BY <1>1, SettingsInvariant, PTL

---------------------------------------------------------------------------
(* The choice of a transport.  A mirror's refs and HEAD come over one transport, a clone starts
   empty, a complete mirror is kept, and transport errors have their cause: for any number of
   changes of the transports and of operations stopped.

   The failures of an operation are those of the first candidates, in order; what the mirror
   holds follows from the step of the operation. *)

CONSTANTS Diagnostics, Summary, Limit, MaxChanges, MaxStops
VARIABLES url, up, mirror, op, outcome, changes, stops

Net == INSTANCE Transport

Failures == Seq([over: Net!Transports, said: Diagnostics])
May == Net!Range(Net!Candidates(url))

RemoteTypes ==
  /\ url \in Net!Urls /\ up \subseteq Net!Transports
  /\ mirror \in [state: {"none", "partial", "whole"}, refs: Net!Origins, head: Net!Origins,
                 marker: BOOLEAN]
  /\ op \in [kind: {"none", "fetch", "check"}, step: {"idle"} \cup Net!Trying \cup Net!Following,
             failures: Failures, via: Net!Origins]
  /\ outcome.kind \in {"none", "fetch", "check"}
  /\ outcome.how \in {"none", "done", "transport", "stopped", "structural"}

\* The candidates that were asked before this one, in their order.
Asking ==
  op.step \in Net!Trying =>
    /\ Len(op.failures) < Len(Net!Candidates(url))
    /\ \A i \in 1 .. Len(op.failures) : op.failures[i].over = Net!Candidates(url)[i]

\* What the mirror is at every step.
Stages ==
  /\ op.step \in Net!Following => op.via \in May
  /\ mirror.state = "none" => mirror = Net!NoMirror
  /\ mirror.marker => mirror.state = "whole"
  /\ op.step \in {"clone", "cloning", "head"} => ~mirror.marker
  /\ op.step = "clone" => mirror.state = "none"
  /\ op.step \in {"discover", "fetching"} => mirror.marker
  /\ op.step \in {"head", "verify"} => mirror.state = "whole"
  /\ op.step \in {"head", "verify"} => mirror.refs = op.via

Whole == mirror.marker /\ mirror.refs = mirror.head /\ mirror.refs \in May

\* The inductive invariant.
RemoteInv ==
  /\ RemoteTypes /\ Asking /\ Stages
  /\ op.step # "idle" => op.kind \in {"fetch", "check"}
  /\ op.kind = "fetch" /\ op.step = "probe" => Whole
  /\ Net!OneSource

\* There are one or two candidates, each a transport.
LEMMA CandidateFacts ==
  ASSUME url \in Net!Urls
  PROVE  /\ Net!Candidates(url) \in Seq(Net!Transports)
         /\ Len(Net!Candidates(url)) \in {1, 2}
         /\ \A i \in 1 .. Len(Net!Candidates(url)) :
              Net!Candidates(url)[i] \in Net!Transports /\ Net!Candidates(url)[i] \in May
         /\ May \subseteq Net!Transports
  <1>1. CASE url = "credentials"
    <2>1. Net!Candidates(url) = <<"https">>
      BY <1>1 DEF Net!Candidates
    <2> QED BY <2>1 DEF May, Net!Range, Net!Transports
  <1>2. CASE url # "credentials"
    <2>1. Net!Candidates(url) = <<"ssh", "https">>
      BY <1>2 DEF Net!Candidates
    <2> QED BY <2>1 DEF May, Net!Range, Net!Transports
  <1> QED BY <1>1, <1>2

\* The transport that a first request asks is a candidate.
LEMMA AskedFacts ==
  ASSUME RemoteInv, op.step \in Net!Trying
  PROVE  /\ Net!Asked(op) = Net!Candidates(url)[Len(op.failures) + 1]
         /\ Net!Asked(op) \in May /\ Net!Asked(op) \in Net!Transports
         /\ Len(op.failures) \in Nat
  <1>1. op.failures \in Failures /\ Len(op.failures) < Len(Net!Candidates(url)) /\ url \in Net!Urls
    BY DEF RemoteInv, RemoteTypes, Asking
  <1>2. Len(op.failures) \in Nat /\ Len(op.failures) + 1 \in 1 .. Len(Net!Candidates(url))
    BY <1>1, CandidateFacts DEF Failures
  <1>3. Net!Asked(op) = Net!Candidates(url)[Len(op.failures) + 1]
    BY DEF Net!Asked, Net!Trying, Net!Following
  <1> QED BY <1>1, <1>2, <1>3, CandidateFacts

\* One more failure: the candidates so far, in order.
LEMMA OneMore ==
  ASSUME RemoteInv, op.step \in Net!Trying, NEW said \in Diagnostics,
         NEW failures, failures = Append(op.failures, [over |-> Net!Asked(op), said |-> said])
  PROVE  /\ failures \in Failures
         /\ Len(failures) \in 1 .. Len(Net!Candidates(url))
         /\ \A i \in 1 .. Len(failures) : failures[i].over = Net!Candidates(url)[i]
  <1>1. /\ op.failures \in Failures
        /\ Len(op.failures) < Len(Net!Candidates(url)) /\ url \in Net!Urls
        /\ \A i \in 1 .. Len(op.failures) : op.failures[i].over = Net!Candidates(url)[i]
    BY DEF RemoteInv, RemoteTypes, Asking
  <1>2. [over |-> Net!Asked(op), said |-> said] \in [over: Net!Transports, said: Diagnostics]
    BY AskedFacts
  <1>3. /\ failures \in Failures /\ Len(failures) = Len(op.failures) + 1
        /\ \A i \in 1 .. Len(op.failures) : failures[i] = op.failures[i]
        /\ failures[Len(failures)].over = Net!Asked(op)
    BY <1>1, <1>2 DEF Failures
  <1>4. Len(op.failures) \in Nat /\ Len(Net!Candidates(url)) \in Nat
    BY <1>1, CandidateFacts DEF Failures
  <1>5. Len(failures) \in 1 .. Len(Net!Candidates(url))
    BY <1>1, <1>3, <1>4
  <1>6. ASSUME NEW i \in 1 .. Len(failures) PROVE failures[i].over = Net!Candidates(url)[i]
    <2>1. CASE i \in 1 .. Len(op.failures)
      BY <2>1, <1>1, <1>3
    <2>2. CASE i = Len(failures)
      BY <2>2, <1>3, AskedFacts
    <2> QED BY <2>1, <2>2, <1>3, <1>4
  <1> QED BY <1>3, <1>5, <1>6

\* When every candidate failed, the failures are those of all of them.
LEMMA AllAsked ==
  ASSUME NEW failures \in Failures, NEW candidates \in Seq(Net!Transports),
         Len(failures) = Len(candidates),
         \A i \in 1 .. Len(failures) : failures[i].over = candidates[i]
  PROVE  [i \in DOMAIN failures |-> failures[i].over] = candidates
  <1>1. DOMAIN failures = 1 .. Len(candidates) /\ DOMAIN candidates = 1 .. Len(candidates)
    BY DEF Failures
  <1>2. candidates = [i \in DOMAIN candidates |-> candidates[i]]
    OBVIOUS
  <1> QED BY <1>1, <1>2

\* The empty list of failures, and the idle operation.
LEMMA IdleFacts ==
  /\ Net!Idle \in [kind: {"none", "fetch", "check"},
                   step: {"idle"} \cup Net!Trying \cup Net!Following,
               failures: Failures, via: Net!Origins]
  /\ Net!Idle.step = "idle" /\ Net!Idle.kind = "none" /\ Net!Idle.failures = <<>> /\ Len(<<>>) = 0
  BY DEF Net!Idle, Failures, Net!Origins

LEMMA NoMirrorTypes ==
  Net!NoMirror \in [state: {"none", "partial", "whole"}, refs: Net!Origins, head: Net!Origins,
                marker: BOOLEAN]
  <1>1. None \in Net!Origins
    BY DEF Net!Origins
  <1> QED BY <1>1 DEF Net!NoMirror

LEMMA RemoteInit == Net!Init => RemoteInv
  <1> SUFFICES ASSUME Net!Init PROVE RemoteInv
    OBVIOUS
  <1>1. url \in Net!Urls /\ May \subseteq Net!Transports
    BY CandidateFacts DEF Net!Init
  <1>2. mirror = Net!NoMirror \/ \E t \in May : mirror = [state |-> "whole", refs |-> t, head |-> t,
                                                      marker |-> TRUE]
    BY DEF Net!Init, May
  <1>3. RemoteTypes
    <2>1. mirror \in [state: {"none", "partial", "whole"}, refs: Net!Origins, head: Net!Origins,
                      marker: BOOLEAN]
      <3>1. ASSUME NEW t \in May
            PROVE  [state |-> "whole", refs |-> t, head |-> t, marker |-> TRUE]
                     \in [state: {"none", "partial", "whole"}, refs: Net!Origins, head: Net!Origins,
                          marker: BOOLEAN]
        BY <1>1 DEF Net!Origins
      <3> QED BY <1>2, <3>1, NoMirrorTypes
    <2>2. /\ op = Net!Idle /\ up \subseteq Net!Transports
          /\ outcome.kind = "none" /\ outcome.how = "none"
      BY DEF Net!Init
    <2> QED BY <1>1, <2>1, <2>2, IdleFacts DEF RemoteTypes
  <1>4. Asking /\ Stages /\ Net!OneSource /\ op.kind # "fetch" /\ op.step = "idle"
    BY <1>2, IdleFacts DEF Net!Init, Asking, Stages, Net!OneSource, Net!Trying, Net!Following,
                           Net!NoMirror
  <1> QED BY <1>3, <1>4 DEF RemoteInv

----------------------------------------------------------------------------
(* How an operation ends *)

\* An operation that ends leaves a mirror that fits where it was.
LEMMA EndKeeps ==
  ASSUME RemoteInv, NEW how \in {"done", "transport", "stopped"}, NEW failures,
         Net!Ends(how, failures),
         how = "done" => \/ op.kind = "check"
                         \/ op.kind = "fetch" /\ op.step = "probe" /\ UNCHANGED mirror,
         op.kind \in {"fetch", "check"}, UNCHANGED <<url>>, up' \subseteq Net!Transports,
         UNCHANGED mirror \/ mirror' = Net!NoMirror
  PROVE  RemoteInv'
  <1> USE DEF Net!Ends
  <1>1. /\ op' = Net!Idle /\ outcome'.kind = op.kind /\ outcome'.how = how
    OBVIOUS
  <1>2. RemoteTypes'
    <2>1. mirror' \in [state: {"none", "partial", "whole"}, refs: Net!Origins, head: Net!Origins,
                       marker: BOOLEAN]
      BY NoMirrorTypes DEF RemoteInv, RemoteTypes
    <2>2. url' \in Net!Urls /\ up' \subseteq Net!Transports
      BY DEF RemoteInv, RemoteTypes
    <2>3. outcome'.kind \in {"none", "fetch", "check"}
          /\ outcome'.how \in {"none", "done", "transport", "stopped", "structural"}
      BY <1>1
    <2>4. op' \in [kind: {"none", "fetch", "check"},
                   step: {"idle"} \cup Net!Trying \cup Net!Following,
                   failures: Failures, via: Net!Origins]
      BY <1>1, IdleFacts
    <2> QED BY <2>1, <2>2, <2>3, <2>4 DEF RemoteTypes
  <1>3. Asking' /\ Stages'
    BY <1>1, IdleFacts DEF RemoteInv, Asking, Stages, Net!Trying, Net!Following, Net!NoMirror
  <1>4. May' = May
    BY DEF May
  <1>5. Net!OneSource'
    BY <1>1, <1>4 DEF RemoteInv, Net!OneSource, Whole, May
  <1> QED BY <1>1, <1>2, <1>3, <1>5, IdleFacts DEF RemoteInv

\* A failure that no other transport makes up for.
LEMMA RaiseKeeps ==
  ASSUME RemoteInv, NEW failures, Net!Raise(failures), op.kind \in {"fetch", "check"},
         UNCHANGED <<url, up>>, op.step = "probe" => UNCHANGED mirror,
         UNCHANGED mirror \/ mirror' = Net!NoMirror
  PROVE  RemoteInv'
  <1>1. up' \subseteq Net!Transports
    BY DEF RemoteInv, RemoteTypes
  <1>2. CASE op.step = "probe" /\ op.kind = "fetch"
    BY <1>1, <1>2, EndKeeps DEF Net!Raise
  <1>3. CASE ~(op.step = "probe" /\ op.kind = "fetch")
    BY <1>1, <1>3, EndKeeps DEF Net!Raise
  <1> QED BY <1>2, <1>3

\* A step inside an operation, from one place to the next.
LEMMA MoveKeeps ==
  ASSUME RemoteInv, NEW step \in Net!Trying \cup Net!Following, NEW via \in May \cup {op.via},
         op' = [op EXCEPT !.step = step, !.via = via],
         op.step # "idle", step \in Net!Trying => op.step \in Net!Trying,
         UNCHANGED <<url, up, outcome>>,
         mirror' \in [state: {"none", "partial", "whole"}, refs: Net!Origins, head: Net!Origins,
                      marker: BOOLEAN],
         Stages', op.kind = "fetch" /\ step = "probe" => Whole', Net!OneSource'
  PROVE  RemoteInv'
  <1>1. May \subseteq Net!Transports
    BY CandidateFacts DEF RemoteInv, RemoteTypes
  <1>2. RemoteTypes'
    BY <1>1 DEF RemoteInv, RemoteTypes, Net!Origins
  <1>3. Asking'
    BY DEF RemoteInv, RemoteTypes, Asking
  <1>4. op'.kind = op.kind /\ op'.step = step
    BY DEF RemoteInv, RemoteTypes
  <1> QED BY <1>2, <1>3, <1>4 DEF RemoteInv

LEMMA GotoKeeps ==
  ASSUME RemoteInv, NEW step \in Net!Trying \cup Net!Following, Net!Goto(step),
         op.step # "idle", step \in Net!Trying => op.step \in Net!Trying,
         UNCHANGED <<url, up, outcome>>,
         mirror' \in [state: {"none", "partial", "whole"}, refs: Net!Origins, head: Net!Origins,
                      marker: BOOLEAN],
         Stages', op.kind = "fetch" /\ step = "probe" => Whole', Net!OneSource'
  PROVE  RemoteInv'
  <1>1. op' = [op EXCEPT !.step = step, !.via = op.via]
    BY DEF Net!Goto, RemoteInv, RemoteTypes
  <1> QED BY <1>1, MoveKeeps

\* Before the first attempt nothing has failed.
LEMMA NothingFailedThen ==
  ASSUME url' \in Net!Urls, op'.failures = <<>>
  PROVE  Asking'
  <1>1. Len(op'.failures) = 0 /\ 1 .. Len(op'.failures) = {}
    OBVIOUS
  <1>2. Len(Net!Candidates(url')) \in {1, 2}
    BY DEF Net!Candidates
  <1>3. Len(op'.failures) < Len(Net!Candidates(url'))
    BY <1>1, <1>2
  <1>4. \A i \in 1 .. Len(op'.failures) : op'.failures[i].over = Net!Candidates(url')[i]
    BY <1>1
  <1> QED BY <1>3, <1>4 DEF Asking

----------------------------------------------------------------------------
(* The steps *)

\* What a step finds.
LEMMA Finds ==
  ASSUME RemoteInv
  PROVE  /\ May \subseteq Net!Transports /\ May \subseteq Net!Origins
         /\ mirror \in [state: {"none", "partial", "whole"}, refs: Net!Origins, head: Net!Origins,
                        marker: BOOLEAN]
         /\ Stages /\ Net!OneSource
         /\ op.step \in Net!Trying => Net!Asked(op) \in May
         /\ op.step # "idle" => op.kind \in {"fetch", "check"}
  BY CandidateFacts, AskedFacts DEF RemoteInv, RemoteTypes, Net!Origins

LEMMA BeginsKeep ==
  ASSUME RemoteInv, Net!BeginFetch \/ Net!BeginCheck
  PROVE  RemoteInv'
  <1>1. op.step = "idle" /\ UNCHANGED <<url, up, mirror>>
    BY DEF Net!BeginFetch, Net!BeginCheck
  <1>2. CASE op' = op /\ outcome' = [kind |-> "fetch", how |-> "structural",
                                    failures |-> <<>>, error |-> <<>>]
    <2>1. outcome'.kind = "fetch" /\ outcome'.how = "structural"
      BY <1>2
    <2> QED BY <1>1, <1>2, <2>1 DEF RemoteInv, RemoteTypes, Asking, Stages, Net!OneSource, Whole,
                                    May, Net!Idle
  <1>3. CASE op' = [Net!Idle EXCEPT !.kind = "check", !.step = "probe"] /\ outcome' = outcome
    <2>1. RemoteTypes'
      BY <1>1, <1>3, IdleFacts DEF RemoteInv, RemoteTypes, Net!Trying
    <2>2. op'.step = "probe" /\ op'.kind = "check" /\ op'.failures = <<>>
      BY <1>3, IdleFacts DEF Net!Idle
    <2>3. Asking'
      <3>1. url' \in Net!Urls
        BY <1>1 DEF RemoteInv, RemoteTypes
      <3> QED BY <2>2, <3>1, NothingFailedThen
    <2> QED BY <1>1, <1>3, <2>1, <2>2, <2>3 DEF RemoteInv, Stages, Net!OneSource, May, Net!Following
  <1>4. CASE op' = [Net!Idle EXCEPT !.kind = "fetch",
                                !.step = IF mirror.marker THEN "discover" ELSE "clone"]
             /\ outcome' = outcome
             /\ ~(mirror.state # "none" /\ ~mirror.marker)
    <2>1. RemoteTypes'
      BY <1>1, <1>4, IdleFacts DEF RemoteInv, RemoteTypes, Net!Trying
    <2>2. /\ op'.step = IF mirror.marker THEN "discover" ELSE "clone"
          /\ op'.kind = "fetch" /\ op'.failures = <<>>
      BY <1>4, IdleFacts DEF Net!Idle
    <2>3. Asking'
      <3>1. url' \in Net!Urls
        BY <1>1 DEF RemoteInv, RemoteTypes
      <3> QED BY <2>2, <3>1, NothingFailedThen
    <2>4. Stages'
      BY <1>1, <1>4, <2>2 DEF RemoteInv, Stages, Net!NoMirror, Net!Following
    <2> QED BY <1>1, <1>4, <2>1, <2>2, <2>3, <2>4 DEF RemoteInv, Net!OneSource, May, Net!Following
  <1> QED BY <1>2, <1>3, <1>4 DEF Net!BeginFetch, Net!BeginCheck

LEMMA CloneStartsKeeps ==
  ASSUME RemoteInv, Net!CloneStarts
  PROVE  RemoteInv'
  <1> USE DEF Net!CloneStarts
  <1>1. mirror' \in [state: {"none", "partial", "whole"}, refs: Net!Origins, head: Net!Origins,
                     marker: BOOLEAN]
    BY Finds
  <1>2. Stages' /\ Net!OneSource'
    BY Finds DEF RemoteInv, RemoteTypes, Stages, Net!OneSource, Net!Following, May, Net!Goto
  <1> QED BY <1>1, <1>2, GotoKeeps DEF Net!Trying

LEMMA ClonedKeeps ==
  ASSUME RemoteInv, Net!Cloned
  PROVE  RemoteInv'
  <1> USE DEF Net!Cloned, Net!Answered
  <1>1. mirror' \in [state: {"none", "partial", "whole"}, refs: Net!Origins, head: Net!Origins,
                     marker: BOOLEAN] /\ Net!Asked(op) \in May
    BY Finds DEF Net!Trying
  <1>2. Stages' /\ Net!OneSource'
    BY <1>1, Finds DEF RemoteInv, RemoteTypes, Stages, Net!OneSource, Net!Following, Net!Trying, May
  <1> QED BY <1>1, <1>2, MoveKeeps DEF Net!Trying, Net!Following

LEMMA DiscoveredKeeps ==
  ASSUME RemoteInv, Net!Discovered
  PROVE  RemoteInv'
  <1> USE DEF Net!Discovered, Net!Answered
  <1>1. Net!Asked(op) \in May
    BY Finds DEF Net!Trying
  <1>2. Stages' /\ Net!OneSource'
    BY <1>1, Finds DEF RemoteInv, RemoteTypes, Stages, Net!OneSource, Net!Following, May
  <1> QED BY <1>1, <1>2, Finds, MoveKeeps DEF Net!Trying, Net!Following

LEMMA ProbedKeeps ==
  ASSUME RemoteInv, Net!Probed
  PROVE  RemoteInv'
  BY Finds, EndKeeps DEF Net!Probed, RemoteInv, RemoteTypes

LEMMA AttemptFailsKeeps ==
  ASSUME RemoteInv, NEW said \in Diagnostics, Net!AttemptFails(said)
  PROVE  RemoteInv'
  <1> DEFINE failures == Append(op.failures, [over |-> Net!Asked(op), said |-> said])
  <1>1. /\ op.step \in {"cloning", "discover", "probe"} /\ op.step \in Net!Trying
        /\ UNCHANGED <<url, up>>
    BY DEF Net!AttemptFails, Net!Trying
  <1>2. IF op.step = "cloning" THEN mirror' = Net!NoMirror ELSE mirror' = mirror
    BY Finds DEF Net!AttemptFails, Net!Cleared, Stages
  <1>3. /\ failures \in Failures /\ Len(failures) \in 1 .. Len(Net!Candidates(url))
        /\ \A i \in 1 .. Len(failures) : failures[i].over = Net!Candidates(url)[i]
    BY <1>1, OneMore
  <1> HIDE DEF failures
  <1>4. CASE Net!Raise(failures)
    BY <1>1, <1>2, <1>4, Finds, RaiseKeeps
  <1>5. CASE /\ Len(failures) < Len(Net!Candidates(url)) /\ outcome' = outcome
             /\ op' = [op EXCEPT !.failures = failures,
                                 !.step = IF @ = "cloning" THEN "clone" ELSE @]
    <2>1. RemoteTypes'
      BY <1>1, <1>2, <1>3, <1>5, NoMirrorTypes DEF RemoteInv, RemoteTypes, Net!Trying
    <2>2. /\ op'.failures = failures /\ op'.kind = op.kind
          /\ op'.step = IF op.step = "cloning" THEN "clone" ELSE op.step
      BY <1>5 DEF RemoteInv, RemoteTypes
    <2>3. Asking'
      BY <1>1, <1>3, <1>5, <2>2 DEF Asking
    <2>4. Stages' /\ Net!OneSource' /\ (op'.kind = "fetch" /\ op'.step = "probe" => Whole')
      BY <1>1, <1>2, <1>5, <2>2 DEF RemoteInv, Stages, Net!OneSource, Whole, May, Net!NoMirror,
                                    Net!Following
    <2>5. op'.step # "idle" => op'.kind \in {"fetch", "check"}
      BY <1>1, <2>2, Finds
    <2> QED BY <2>1, <2>3, <2>4, <2>5 DEF RemoteInv
  <1> QED BY <1>4, <1>5 DEF Net!AttemptFails, failures

LEMMA FetchedKeeps ==
  ASSUME RemoteInv, Net!Fetched
  PROVE  RemoteInv'
  <1> USE DEF Net!Fetched
  <1>1. mirror' \in [state: {"none", "partial", "whole"}, refs: Net!Origins, head: Net!Origins,
                     marker: BOOLEAN]
    BY Finds DEF Stages, Net!Following
  <1>2. Stages' /\ Net!OneSource'
    BY Finds DEF RemoteInv, RemoteTypes, Stages, Net!OneSource, Net!Following, May, Net!Goto
  <1> QED BY <1>1, <1>2, GotoKeeps DEF Net!Trying, Net!Following

LEMMA HeadReadKeeps ==
  ASSUME RemoteInv, Net!HeadRead
  PROVE  RemoteInv'
  <1> USE DEF Net!HeadRead
  <1>1. mirror' \in [state: {"none", "partial", "whole"}, refs: Net!Origins, head: Net!Origins,
                     marker: BOOLEAN]
    BY Finds DEF Stages, Net!Following
  <1>2. Stages' /\ Net!OneSource'
    BY Finds DEF RemoteInv, RemoteTypes, Stages, Net!OneSource, Net!Following, May, Net!Goto
  <1> QED BY <1>1, <1>2, GotoKeeps DEF Net!Trying, Net!Following

LEMMA VerifiedKeeps ==
  ASSUME RemoteInv, Net!Verified
  PROVE  RemoteInv'
  <1>1. /\ op.step = "verify" /\ op.via \in May /\ mirror.refs = op.via /\ mirror.state = "whole"
        /\ mirror' = [mirror EXCEPT !.head = op.via, !.marker = TRUE]
        /\ op' = [op EXCEPT !.step = "probe", !.failures = <<>>]
        /\ UNCHANGED <<url, up, outcome>>
    BY Finds DEF Net!Verified, Stages, Net!Following
  <1>2. RemoteTypes'
    BY <1>1, IdleFacts, Finds DEF RemoteInv, RemoteTypes, Net!Trying
  <1>3. Whole' /\ mirror'.state = "whole"
    BY <1>1, Finds DEF Whole, May
  <1>4. op'.step = "probe" /\ op'.failures = <<>> /\ op'.kind = op.kind
    BY <1>1 DEF RemoteInv, RemoteTypes
  <1>5. Asking'
    <2>1. url' \in Net!Urls
      BY <1>1 DEF RemoteInv, RemoteTypes
    <2> QED BY <1>4, <2>1, NothingFailedThen
  <1>6. Stages' /\ Net!OneSource'
    BY <1>3, <1>4 DEF Stages, Net!OneSource, Whole, May, Net!Following
  <1> QED BY <1>1, <1>2, <1>3, <1>4, <1>5, <1>6, Finds DEF RemoteInv

LEMMA ClearedFacts ==
  ASSUME RemoteInv, Net!Cleared
  PROVE  mirror' = mirror \/ mirror' = Net!NoMirror
  BY DEF Net!Cleared

LEMMA FollowUpFailsKeeps ==
  ASSUME RemoteInv, NEW said \in Diagnostics, Net!FollowUpFails(said)
  PROVE  RemoteInv'
  <1>1. op.step # "idle" /\ op.step # "probe"
    BY DEF Net!FollowUpFails, Net!Following
  <1> QED BY <1>1, Finds, ClearedFacts, RaiseKeeps DEF Net!FollowUpFails

LEMMA StopKeeps ==
  ASSUME RemoteInv, Net!Stop
  PROVE  RemoteInv'
  <1>1. op.kind \in {"fetch", "check"} /\ UNCHANGED <<url, up>> /\ up' \subseteq Net!Transports
    BY Finds DEF Net!Stop, RemoteInv, RemoteTypes
  <1>2. mirror' = mirror \/ mirror' = Net!NoMirror
    BY ClearedFacts DEF Net!Stop
  <1>3. op.step = "probe" => mirror' = mirror
    BY DEF Net!Stop
  <1>4. CASE Net!Ends("stopped", <<>>)
    BY <1>1, <1>2, <1>4, EndKeeps
  <1>5. CASE op.kind = "fetch" /\ op.step = "probe" /\ Net!Ends("done", <<>>)
    BY <1>1, <1>2, <1>3, <1>5, EndKeeps
  <1> QED BY <1>4, <1>5 DEF Net!Stop

LEMMA CleanKeeps ==
  ASSUME RemoteInv, Net!Clean
  PROVE  RemoteInv'
  <1>1. /\ op.step = "idle" /\ ~mirror.marker /\ mirror' = Net!NoMirror
        /\ UNCHANGED <<url, up, op, outcome>>
    BY DEF Net!Clean
  <1>2. RemoteTypes' /\ Asking' /\ Stages'
    BY <1>1, NoMirrorTypes DEF RemoteInv, RemoteTypes, Asking, Stages, Net!NoMirror, Net!Trying,
                               Net!Following
  <1>3. Net!OneSource'
    BY <1>1 DEF RemoteInv, Net!OneSource, Net!Following
  <1>4. op.kind = "fetch" /\ op.step = "probe" => FALSE
    BY <1>1
  <1> QED BY <1>1, <1>2, <1>3, <1>4 DEF RemoteInv

LEMMA ChangeKeeps ==
  ASSUME RemoteInv, Net!Change
  PROVE  RemoteInv'
  <1>1. up' \subseteq Net!Transports /\ UNCHANGED <<url, mirror, op, outcome>>
    BY DEF Net!Change, RemoteInv, RemoteTypes
  <1> QED BY <1>1 DEF RemoteInv, RemoteTypes, Asking, Stages, Whole, Net!OneSource, May

----------------------------------------------------------------------------
(* The invariant and what follows *)

LEMMA NextKeeps ==
  ASSUME RemoteInv, [Net!Next]_(Net!vars)
  PROVE  RemoteInv'
  <1>1. CASE Net!Step
    BY <1>1, CloneStartsKeeps, ClonedKeeps, DiscoveredKeeps, ProbedKeeps, FetchedKeeps,
       HeadReadKeeps, VerifiedKeeps, AttemptFailsKeeps, FollowUpFailsKeeps DEF Net!Step
  <1>2. CASE UNCHANGED Net!vars
    BY <1>2 DEF Net!vars, RemoteInv, RemoteTypes, Asking, Stages, Whole, Net!OneSource, May
  <1> QED BY <1>1, <1>2, BeginsKeep, StopKeeps, CleanKeeps, ChangeKeeps DEF Net!Next

\* The invariant holds in every reachable state.
THEOREM TransportInvariant == Net!Spec => []RemoteInv
  BY RemoteInit, NextKeeps, PTL DEF Net!Spec

\* The variables keep their types, and the transport that answered is remembered.
THEOREM TransportTypes == Net!Spec => []Net!TypeOK
  <1>1. RemoteInv => Net!TypeOK
    BY DEF RemoteInv, RemoteTypes, Asking, Stages, Net!TypeOK, May
  <1> QED BY <1>1, TransportInvariant, PTL

\* What passes as fetched came over one transport (_fetch_complete, _clone_remote).
THEOREM OneSourceAlways == Net!Spec => []Net!OneSource
  <1>1. RemoteInv => Net!OneSource
    BY DEF RemoteInv
  <1> QED BY <1>1, TransportInvariant, PTL

\* Every attempt at a clone starts without the remains of another (_clone_remote).
THEOREM StartsEmptyAlways == Net!Spec => Net!StartsEmpty
  <1>1. RemoteInv => (op.step = "clone" /\ op'.step = "cloning" => mirror = Net!NoMirror)
    BY DEF RemoteInv, Stages
  <1> QED BY <1>1, TransportInvariant, PTL DEF Net!StartsEmpty

\* No operation takes a complete mirror away (_clear_incomplete_mirror).
THEOREM MirrorKeptAlways == Net!Spec => Net!MirrorKept
  <1>1. RemoteInv /\ [Net!Next]_(Net!vars) =>
          (mirror.marker => mirror'.marker /\ mirror'.state = "whole")
    <2> SUFFICES ASSUME RemoteInv, [Net!Next]_(Net!vars), mirror.marker
                 PROVE  mirror'.marker /\ mirror'.state = "whole"
      OBVIOUS
    <2>1. mirror.state = "whole" /\ op.step \notin {"clone", "cloning", "head"}
      BY DEF RemoteInv, Stages
    <2>2. CASE UNCHANGED mirror
      BY <2>1, <2>2
    <2>3. CASE Net!Fetched \/ Net!Verified
      BY <2>1, <2>3, Finds DEF Net!Fetched, Net!Verified
    <2>4. CASE Net!Step /\ ~(Net!Fetched \/ Net!Verified)
      BY <2>1, <2>2, <2>4
      DEF Net!Step, Net!CloneStarts, Net!Cloned, Net!Discovered, Net!Probed, Net!HeadRead,
          Net!AttemptFails, Net!FollowUpFails, Net!Cleared
    <2> QED BY <2>1, <2>2, <2>3, <2>4
            DEF Net!Next, Net!BeginFetch, Net!BeginCheck, Net!Stop, Net!Cleared, Net!Clean,
                Net!Change, Net!vars
  <1> QED BY <1>1, TransportInvariant, PTL DEF Net!MirrorKept, Net!Spec

\* Errors that end an operation have their cause, and a stop ends it (with_transport_fallback).
THEOREM FailsForCauseAlways == Net!Spec => Net!FailsForCause
  <1> DEFINE Caused ==
        /\ outcome' # outcome /\ outcome'.how = "transport" =>
             \/ [i \in DOMAIN outcome'.failures |-> outcome'.failures[i].over] = Net!Candidates(url)
             \/ op.step \in Net!Following /\ op.via \notin up
        /\ stops' # stops => op' = Net!Idle
  <1>1. RemoteInv /\ [Net!Next]_(Net!vars) => Caused
    <2> SUFFICES ASSUME RemoteInv, Net!Next \/ UNCHANGED Net!vars PROVE Caused
      OBVIOUS
    <2>1. CASE Net!Stop
      BY <2>1 DEF Net!Stop, Net!Ends
    <2>2. ASSUME NEW said \in Diagnostics, Net!AttemptFails(said) PROVE Caused
      <3> DEFINE failures == Append(op.failures, [over |-> Net!Asked(op), said |-> said])
      <3>1. op.step \in Net!Trying /\ UNCHANGED <<url, stops>>
        BY <2>2 DEF Net!AttemptFails, Net!Trying
      <3>2. /\ failures \in Failures /\ Len(failures) \in 1 .. Len(Net!Candidates(url))
            /\ \A i \in 1 .. Len(failures) : failures[i].over = Net!Candidates(url)[i]
        BY <3>1, OneMore
      <3>3. Net!Candidates(url) \in Seq(Net!Transports)
        BY CandidateFacts DEF RemoteInv, RemoteTypes
      <3> HIDE DEF failures
      <3>4. CASE outcome' = outcome
        BY <3>1, <3>4
      <3>5. CASE ~(Len(failures) < Len(Net!Candidates(url))) /\ Net!Raise(failures)
        <4>1. Len(failures) = Len(Net!Candidates(url))
          BY <3>2, <3>3, <3>5
        <4>2. outcome'.how = "transport" => outcome'.failures = failures
          BY <3>5 DEF Net!Raise, Net!Ends
        <4>3. [i \in DOMAIN failures |-> failures[i].over] = Net!Candidates(url)
          BY <3>2, <3>3, <4>1, AllAsked
        <4> QED BY <3>1, <4>2, <4>3
      <3> QED BY <2>2, <3>4, <3>5 DEF Net!AttemptFails, failures
    <2>3. ASSUME NEW said \in Diagnostics, Net!FollowUpFails(said) PROVE Caused
      BY <2>3 DEF Net!FollowUpFails
    <2>4. CASE \/ Net!CloneStarts \/ Net!Cloned \/ Net!Discovered \/ Net!Probed
               \/ Net!Fetched \/ Net!HeadRead \/ Net!Verified
      BY <2>4 DEF Net!CloneStarts, Net!Cloned, Net!Discovered, Net!Probed, Net!Fetched,
                  Net!HeadRead, Net!Verified, Net!Ends
    <2>5. CASE Net!BeginFetch \/ Net!BeginCheck \/ Net!Clean \/ Net!Change \/ UNCHANGED Net!vars
      BY <2>5 DEF Net!BeginFetch, Net!BeginCheck, Net!Clean, Net!Change, Net!vars
    <2> QED BY <2>1, <2>2, <2>3, <2>4, <2>5 DEF Net!Next, Net!Step
  <1> QED BY <1>1, TransportInvariant, PTL DEF Net!FailsForCause, Net!Spec
=============================================================================
