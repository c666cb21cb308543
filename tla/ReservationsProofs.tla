------------------------- MODULE ReservationsProofs -------------------------
(***************************************************************************)
(* The walks of module Reservations implement the exclusion of module      *)
(* Containers, for every tree of directories.                              *)
(*                                                                         *)
(* What matters is that whoever is below a directory has reserved it, so   *)
(* that nobody above can have it exclusively (Flocks), and where a walk    *)
(* may still find out that it has entered a container (Clear).             *)
(***************************************************************************)
EXTENDS Reservations, FiniteSetTheorems, SequenceTheorems, TLAPS

---------------------------------------------------------------------------
(* Numbers and sequences *)

LEMMA LeastNatural ==
  ASSUME NEW S \in SUBSET Nat, S # {}
  PROVE  \E m \in S : \A n \in S : m <= n
<1> DEFINE T == {0 .. n : n \in S}
<1> DEFINE R == StrictSubsetOrdering(Nat)
<1>1. IsWellFoundedOn(R, FiniteSubsetsOf(Nat))
  BY FS_StrictSubsetOrderingWellFounded
<1>2. T \subseteq FiniteSubsetsOf(Nat) /\ T # {}
  <2>1. ASSUME NEW t \in T PROVE t \in FiniteSubsetsOf(Nat)
    <3>1. PICK n \in S : t = 0 .. n
      OBVIOUS
    <3>2. t \subseteq Nat /\ IsFiniteSet(t)
      BY <3>1, FS_Interval
    <3> QED BY <3>2 DEF FiniteSubsetsOf
  <2> QED BY <2>1
<1>3. PICK x \in T : \A y \in T : <<y, x>> \notin R
  <2> HIDE DEF T, R
  <2> QED BY <1>1, <1>2, WFMin
<1>4. PICK m \in S : x = 0 .. m
  OBVIOUS
<1>5. ASSUME NEW n \in S, n < m PROVE FALSE
  <2>1. 0 .. n \subseteq 0 .. m /\ 0 .. n # 0 .. m
    <3>1. m \in 0 .. m /\ m \notin 0 .. n
      BY <1>5
    <3> QED BY <1>5, <3>1
  <2>2. <<0 .. n, x>> \in R
    BY <1>4, <2>1 DEF StrictSubsetOrdering
  <2> QED BY <1>3, <2>2
<1> QED BY <1>5

\* What the names of paths are.
Name == (UNION {ToSet(d) : d \in Paths}) \cup {Mirror}

LEMMA PathsAreSequences ==
  ASSUME NEW d \in Paths
  PROVE  d \in Seq(Name) /\ Len(d) \in Nat \ {0}
<1>1. d \in Seq(ToSet(d)) /\ d # <<>>
  BY ReservationsAssumption
<1>2. ToSet(d) \subseteq Name
  BY DEF Name
<1>3. d \in Seq(Name)
  BY <1>1, <1>2, SeqMonotonic
<1> QED BY <1>1, <1>3, EmptySeq

LEMMA Cut ==
  ASSUME NEW s \in Seq(Name), NEW n \in 0 .. Len(s)
  PROVE  /\ SubSeq(s, 1, n) \in Seq(Name) /\ Len(SubSeq(s, 1, n)) = n
         /\ \A i \in 1 .. n : SubSeq(s, 1, n)[i] = s[i]
<1>1. \A i \in 1 .. n : s[i] \in Name
  BY ElementOfSeq
<1> QED BY <1>1, SubSeqProperties, LenProperties

\* One sequence begins another if they agree as far as it goes.
LEMMA PrefixPointwise ==
  ASSUME NEW s \in Seq(Name), NEW t \in Seq(Name)
  PROVE  /\ IsPrefix(s, t) <=> Len(s) <= Len(t) /\ \A i \in 1 .. Len(s) : s[i] = t[i]
         /\ IsStrictPrefix(s, t) <=> IsPrefix(s, t) /\ Len(s) < Len(t)
<1>1. SubSeq(s, 1, Len(s)) = s
  BY SubSeqFull
<1>2. ASSUME Len(s) <= Len(t)
      PROVE  SubSeq(t, 1, Len(s)) = s <=> \A i \in 1 .. Len(s) : s[i] = t[i]
  <2>1. Len(s) \in 0 .. Len(t)
    BY <1>2, LenProperties
  <2>2. /\ SubSeq(t, 1, Len(s)) \in Seq(Name) /\ Len(SubSeq(t, 1, Len(s))) = Len(s)
        /\ \A i \in 1 .. Len(s) : SubSeq(t, 1, Len(s))[i] = t[i]
    BY <2>1, Cut
  <2> QED BY <2>2, SeqEqual
<1>3. IsPrefix(s, t) <=> Len(s) <= Len(t) /\ \A i \in 1 .. Len(s) : s[i] = t[i]
  BY <1>1, <1>2 DEF IsPrefix
<1>4. IsPrefix(s, t) /\ Len(s) = Len(t) => s = t
  BY <1>3, SeqEqual
<1> QED BY <1>3, <1>4, LenProperties DEF IsStrictPrefix

\* Prefixes are transitive, and two of the same sequence are in one line.
LEMMA PrefixChain ==
  ASSUME NEW s \in Seq(Name), NEW t \in Seq(Name), NEW u \in Seq(Name)
  PROVE  /\ IsPrefix(s, t) /\ IsPrefix(t, u) => IsPrefix(s, u)
         /\ IsPrefix(s, u) /\ IsPrefix(t, u) /\ Len(s) <= Len(t) => IsPrefix(s, t)
         /\ IsPrefix(s, s)
         /\ IsPrefix(s, t) => Len(s) <= Len(t)
         /\ IsPrefix(s, t) /\ Len(s) = Len(t) => s = t
<1>1. Len(s) \in Nat /\ Len(t) \in Nat /\ Len(u) \in Nat
  BY LenProperties
<1>2. /\ IsPrefix(s, t) <=> Len(s) <= Len(t) /\ \A i \in 1 .. Len(s) : s[i] = t[i]
      /\ IsPrefix(t, u) <=> Len(t) <= Len(u) /\ \A i \in 1 .. Len(t) : t[i] = u[i]
      /\ IsPrefix(s, u) <=> Len(s) <= Len(u) /\ \A i \in 1 .. Len(s) : s[i] = u[i]
  BY PrefixPointwise
<1>3. IsPrefix(s, s)
  BY <1>1, PrefixPointwise
<1>4. IsPrefix(s, t) /\ Len(s) = Len(t) => s = t
  BY <1>2, SeqEqual
<1>5. ASSUME IsPrefix(s, t), IsPrefix(t, u) PROVE IsPrefix(s, u)
  <2>1. Len(s) <= Len(u)
    BY <1>1, <1>2, <1>5
  <2>2. \A i \in 1 .. Len(s) : i \in 1 .. Len(t)
    BY <1>1, <1>2, <1>5
  <2> QED BY <1>2, <1>5, <2>1, <2>2
<1>6. ASSUME IsPrefix(s, u), IsPrefix(t, u), Len(s) <= Len(t) PROVE IsPrefix(s, t)
  <2>1. \A i \in 1 .. Len(s) : i \in 1 .. Len(t)
    BY <1>1, <1>6
  <2> QED BY <1>2, <1>6, <2>1
<1> QED BY <1>2, <1>3, <1>4, <1>5, <1>6

\* The prefix of a given length.
LEMMA PrefixIsCut ==
  ASSUME NEW t \in Seq(Name), NEW n \in 0 .. Len(t)
  PROVE  /\ IsPrefix(SubSeq(t, 1, n), t)
         /\ \A s \in Seq(Name) : IsPrefix(s, t) /\ Len(s) = n => s = SubSeq(t, 1, n)
         /\ \A m \in 0 .. n : SubSeq(SubSeq(t, 1, n), 1, m) = SubSeq(t, 1, m)
<1> DEFINE c == SubSeq(t, 1, n)
<1>a. Len(t) \in Nat /\ n \in Nat /\ n <= Len(t)
  BY LenProperties
<1>b. c \in Seq(Name) /\ Len(c) = n /\ \A i \in 1 .. n : c[i] = t[i]
  BY Cut
<1>1. IsPrefix(SubSeq(t, 1, n), t)
  <2> HIDE DEF c
  <2>1. IsPrefix(c, t)
    BY <1>a, <1>b, PrefixPointwise
  <2> QED BY <2>1 DEF c
<1>2. ASSUME NEW s \in Seq(Name), IsPrefix(s, t), Len(s) = n PROVE s = SubSeq(t, 1, n)
  <2> HIDE DEF c
  <2>1. \A i \in 1 .. n : s[i] = t[i]
    BY <1>2, PrefixPointwise
  <2>2. s = c
    BY <1>2, <1>b, <2>1, SeqEqual
  <2> QED BY <2>2 DEF c
<1>3. ASSUME NEW m \in 0 .. n PROVE SubSeq(SubSeq(t, 1, n), 1, m) = SubSeq(t, 1, m)
  <2>1. /\ SubSeq(t, 1, n) \in Seq(Name) /\ Len(SubSeq(t, 1, n)) = n
        /\ \A i \in 1 .. n : SubSeq(t, 1, n)[i] = t[i]
    BY Cut
  <2>2. /\ SubSeq(t, 1, m) \in Seq(Name) /\ Len(SubSeq(t, 1, m)) = m
        /\ \A i \in 1 .. m : SubSeq(t, 1, m)[i] = t[i]
    BY LenProperties, Cut
  <2>3. /\ SubSeq(SubSeq(t, 1, n), 1, m) \in Seq(Name)
        /\ Len(SubSeq(SubSeq(t, 1, n), 1, m)) = m
        /\ \A i \in 1 .. m : SubSeq(SubSeq(t, 1, n), 1, m)[i] = SubSeq(t, 1, n)[i]
    BY <2>1, Cut
  <2> QED BY <2>1, <2>2, <2>3, SeqEqual
<1> QED BY <1>1, <1>2, <1>3

\* A set of directories with everything above them.
Closed(ds) == \A d \in ds : \A n \in 1 .. Len(d) : SubSeq(d, 1, n) \in ds

\* Whoever has the parent of each has everything above it.
LEMMA ClosedByParents ==
  ASSUME NEW ds, ds \subseteq Seq(Name), \A d \in ds : Len(d) > 1 => Front(d) \in ds
  PROVE  Closed(ds)
<1> SUFFICES ASSUME NEW d \in ds, NEW n \in 1 .. Len(d), SubSeq(d, 1, n) \notin ds
             PROVE  FALSE
  BY DEF Closed
<1>1. d \in Seq(Name) /\ Len(d) \in Nat
  BY LenProperties
<1> DEFINE S == {k \in Nat : k < Len(d) /\ SubSeq(d, 1, Len(d) - k) \notin ds}
<1>2. Len(d) - n \in S
  <2>1. Len(d) - n \in Nat /\ Len(d) - (Len(d) - n) = n
    BY <1>1
  <2> QED BY <2>1, <1>1
<1>3. PICK m \in S : \A k \in S : m <= k
  <2>1. S \in SUBSET Nat /\ S # {}
    BY <1>2
  <2> HIDE DEF S
  <2> QED BY <2>1, LeastNatural
<1>4. m # 0
  <2>1. SubSeq(d, 1, Len(d)) = d
    BY <1>1, SubSeqFull
  <2>2. Len(d) - 0 = Len(d)
    BY <1>1
  <2> QED BY <2>1, <2>2
<1> DEFINE l == Len(d) - m
<1> DEFINE e == SubSeq(d, 1, l + 1)
<1>5. l \in Nat \ {0} /\ l + 1 \in 0 .. Len(d) /\ SubSeq(d, 1, l) \notin ds
  BY <1>1, <1>4
<1>6. e \in ds
  <2>1. m - 1 \in Nat /\ m - 1 < Len(d) /\ Len(d) - (m - 1) = l + 1
    BY <1>1, <1>4
  <2>2. m - 1 \notin S
    BY <1>3, <2>1
  <2> QED BY <2>1, <2>2
<1> HIDE DEF l
<1>7. Len(e) = l + 1
  BY <1>1, <1>5, Cut
<1>8. Front(e) = SubSeq(d, 1, l)
  <2>1. l \in 0 .. l + 1 /\ l + 1 - 1 = l
    BY <1>5
  <2> HIDE DEF e
  <2>2. Front(e) = SubSeq(e, 1, l)
    BY <1>7, <2>1 DEF Front
  <2> QED BY <1>1, <1>5, <2>1, <2>2, PrefixIsCut DEF e
<1>9. Front(e) \in ds
  <2> HIDE DEF e
  <2> QED BY <1>5, <1>6, <1>7
<1> QED BY <1>5, <1>8, <1>9

---------------------------------------------------------------------------
(* Directories *)

LEMMA PathsAreClosed == Closed(Paths)
<1>1. Paths \subseteq Seq(Name)
  BY PathsAreSequences
<1> QED BY <1>1, ReservationsAssumption, ClosedByParents

\* The order of the directories, free of what they are made of.
LEMMA PathOrder ==
  /\ \A d \in Paths : Len(d) \in Nat \ {0} /\ IsPrefix(d, d)
  /\ \A d, e, f \in Paths : IsPrefix(d, e) /\ IsPrefix(e, f) => IsPrefix(d, f)
  /\ \A d, e, f \in Paths :
       IsPrefix(d, f) /\ IsPrefix(e, f) /\ Len(d) <= Len(e) => IsPrefix(d, e)
  /\ \A d, e \in Paths : IsPrefix(d, e) => Len(d) <= Len(e)
  /\ \A d, e \in Paths : IsPrefix(d, e) /\ Len(d) = Len(e) => d = e
  /\ \A d, e \in Paths : IsStrictPrefix(d, e) <=> IsPrefix(d, e) /\ Len(d) < Len(e)
<1>1. Paths \subseteq Seq(Name)
  BY PathsAreSequences
<1>2. \A d \in Paths : Len(d) \in Nat \ {0} /\ IsPrefix(d, d)
  BY <1>1, PathsAreSequences, PrefixChain
<1>3. \A d, e, f \in Paths :
        /\ IsPrefix(d, e) /\ IsPrefix(e, f) => IsPrefix(d, f)
        /\ IsPrefix(d, f) /\ IsPrefix(e, f) /\ Len(d) <= Len(e) => IsPrefix(d, e)
  BY <1>1, PrefixChain
<1>4. \A d, e \in Paths : /\ IsPrefix(d, e) => Len(d) <= Len(e)
                          /\ IsPrefix(d, e) /\ Len(d) = Len(e) => d = e
  BY <1>1, PrefixChain
<1>5. \A d, e \in Paths : IsStrictPrefix(d, e) <=> IsPrefix(d, e) /\ Len(d) < Len(e)
  BY <1>1, PrefixPointwise
<1> QED BY <1>2, <1>3, <1>4, <1>5

\* What lies above a directory is found by its length.
LEMMA PathCut ==
  ASSUME NEW d \in Paths, NEW n \in 1 .. Len(d)
  PROVE  /\ SubSeq(d, 1, n) \in Paths /\ Len(SubSeq(d, 1, n)) = n
         /\ IsPrefix(SubSeq(d, 1, n), d)
         /\ \A e \in Paths : IsPrefix(e, d) /\ Len(e) = n => e = SubSeq(d, 1, n)
         /\ \A m \in 1 .. n : SubSeq(SubSeq(d, 1, n), 1, m) = SubSeq(d, 1, m)
         /\ n = Len(d) => SubSeq(d, 1, n) = d
<1>1. d \in Seq(Name) /\ Len(d) \in Nat /\ Paths \subseteq Seq(Name)
  BY PathsAreSequences
<1>2. n \in 0 .. Len(d) /\ \A m \in 1 .. n : m \in 0 .. n
  BY <1>1
<1>3. SubSeq(d, 1, n) \in Paths
  BY PathsAreClosed DEF Closed
<1>4. Len(SubSeq(d, 1, n)) = n
  BY <1>1, <1>2, Cut
<1>5. /\ IsPrefix(SubSeq(d, 1, n), d)
      /\ \A e \in Paths : IsPrefix(e, d) /\ Len(e) = n => e = SubSeq(d, 1, n)
      /\ \A m \in 1 .. n : SubSeq(SubSeq(d, 1, n), 1, m) = SubSeq(d, 1, m)
  BY <1>1, <1>2, PrefixIsCut
<1>6. SubSeq(d, 1, Len(d)) = d
  BY <1>1, SubSeqFull
<1> QED BY <1>3, <1>4, <1>5, <1>6

LEMMA WholePath == \A d \in Paths : SubSeq(d, 1, Len(d)) = d
  BY PathsAreSequences, SubSeqFull

LEMMA MirrorBelow ==
  ASSUME NEW d \in Paths, MirrorOf(d) \in Paths
  PROVE  Len(MirrorOf(d)) = Len(d) + 1 /\ IsPrefix(d, MirrorOf(d))
<1> DEFINE m == MirrorOf(d)
<1>1. d \in Seq(Name) /\ m \in Seq(Name) /\ Len(d) \in Nat /\ Mirror \in Name
  <2> HIDE DEF m
  <2>1. d \in Seq(Name) /\ m \in Seq(Name) /\ Len(d) \in Nat
    BY PathsAreSequences DEF m
  <2>2. Mirror \in Name
    BY DEF Name
  <2> QED BY <2>1, <2>2
<1>2. Len(m) = Len(d) + 1 /\ \A i \in 1 .. Len(d) : m[i] = d[i]
  <2>1. /\ Len(Append(d, Mirror)) = Len(d) + 1
        /\ \A i \in 1 .. Len(d) : Append(d, Mirror)[i] = d[i]
    BY <1>1, AppendProperties
  <2> QED BY <2>1 DEF MirrorOf
<1> HIDE DEF m
<1>3. IsPrefix(d, m)
  BY <1>1, <1>2, PrefixPointwise
<1> QED BY <1>2, <1>3 DEF m

---------------------------------------------------------------------------
(* The inductive invariant *)

Steps == {"idle", "root", "enter", "reserve", "claim", "verify", "publish", "link", "work",
          "scan", "orphan"}
Walking == {"enter", "reserve"}
Inner == {"claim", "verify", "publish", "link", "work", "orphan"}

Typed ==
  /\ dirs \subseteq Paths /\ owned \subseteq dirs /\ mirrors \subseteq dirs
  /\ root \in Procs \cup {None}
  /\ pc \in [Procs -> Steps] /\ kind \in [Procs -> Kinds]
  /\ target \in [Procs -> Paths \cup {<<>>}]
  /\ depth \in [Procs -> Nat] /\ calls \in [Procs -> Nat]

\* The root is locked in the walk of an operation and while a lock file is published.
Rooted ==
  \A p \in Procs : root = p <=> \/ pc[p] \in {"enter", "reserve", "claim"} /\ kind[p] # "scan"
                                \/ pc[p] = "link"

\* How far a process has come, and that what it has reserved is there.
Walk(p) ==
  /\ depth[p] <= Len(target[p])
  /\ pc[p] \in {"idle", "root"} => depth[p] = 0
  /\ pc[p] = "idle" => target[p] = <<>>
  /\ pc[p] # "idle" => target[p] \in Paths
  /\ pc[p] \in Walking => depth[p] < Len(target[p])
  /\ pc[p] \in Inner \cup {"scan"} => depth[p] = Len(target[p])
  /\ pc[p] = "scan" => kind[p] = "scan"
  /\ kind[p] = "scan" => pc[p] \in Walking \cup {"scan"}
  /\ pc[p] # "idle" /\ kind[p] # "scan" => Len(target[p]) >= ContainerDepth
  /\ \A n \in 1 .. depth[p] : SubSeq(target[p], 1, n) \in dirs
  /\ pc[p] = "reserve" => Entering(p) \in dirs

\* An exclusive reservation excludes every other.
Flocks ==
  \A p, q \in Procs : p # q /\ pc[p] \in Inner /\ pc[q] # "idle" =>
    ~(IsPrefix(target[p], target[q]) /\ Len(target[p]) <= depth[q])

\* A walk is inside a container only where it is about to look.
Clear ==
  \A p \in Procs : \A c \in owned :
    pc[p] # "idle" /\ IsStrictPrefix(c, target[p]) /\ Len(c) <= depth[p] =>
      Len(c) = depth[p] /\ pc[p] = "enter"

\* No container below a directory that is about to become one.
Verified ==
  \A p \in Procs : pc[p] \in {"publish", "link"} => \A c \in owned : ~IsPrefix(target[p], c)

Deep == \A c \in owned : Len(c) >= ContainerDepth

IInv ==
  /\ Typed /\ Rooted /\ (\A p \in Procs : Walk(p)) /\ Closed(dirs) /\ Deep
  /\ Flocks /\ Clear /\ Verified /\ TerminalContainers

---------------------------------------------------------------------------
(* The invariant holds *)

LEMMA InitIInv == Init => IInv
<1> SUFFICES ASSUME Init PROVE IInv
  OBVIOUS
<1>1. dirs \subseteq Paths /\ owned \subseteq dirs /\ mirrors \subseteq dirs /\ Closed(dirs)
  <2>1. dirs \subseteq Paths /\ owned \subseteq dirs /\ mirrors \subseteq dirs
    BY DEF Init
  <2>2. dirs \subseteq Seq(Name)
    BY <2>1, PathsAreSequences
  <2>3. \A d \in dirs : Len(d) > 1 => Front(d) \in dirs
    BY DEF Init
  <2> QED BY <2>1, <2>2, <2>3, ClosedByParents
<1>2. Typed
  BY <1>1 DEF Init, Typed, Steps, Kinds
<1>3. Rooted
  BY ReservationsAssumption DEF Init, Rooted
<1>4. \A p \in Procs : Walk(p)
  <2>1. Len(<<>>) = 0
    OBVIOUS
  <2> QED BY <2>1 DEF Init, Walk, Walking, Inner
<1>5. Deep /\ Flocks /\ Clear /\ Verified
  BY DEF Init, Deep, Flocks, Clear, Verified, Inner
<1>6. TerminalContainers
  <2> SUFFICES ASSUME NEW d \in owned, NEW e \in owned, IsPrefix(d, e), d # e PROVE FALSE
    BY DEF TerminalContainers, Related
  <2>1. IsStrictPrefix(d, e)
    BY DEF IsStrictPrefix
  <2> QED BY <1>1, <2>1 DEF Init
<1> QED BY <1>1, <1>2, <1>3, <1>4, <1>5, <1>6 DEF IInv

\* What every process that is under way has before it.
LEMMA UnderWay ==
  ASSUME IInv, NEW p \in Procs, pc[p] # "idle"
  PROVE  /\ target[p] \in Paths /\ Len(target[p]) \in Nat \ {0}
         /\ depth[p] \in 0 .. Len(target[p]) /\ pc[p] \in Steps
         /\ kind[p] = "scan" => pc[p] \in Walking \cup {"scan"}
<1>1. depth[p] \in Nat /\ pc[p] \in Steps
  BY DEF IInv, Typed
<1>2. target[p] \in Paths /\ depth[p] <= Len(target[p])
  BY DEF IInv, Walk
<1> QED BY <1>1, <1>2, PathOrder DEF IInv, Walk

LEMMA BeginKeeps ==
  ASSUME IInv, NEW p \in Procs, NEW k \in Kinds, NEW d \in Paths, Begin(p, k, d)
  PROVE  IInv'
<1>1. UNCHANGED <<dirs, owned, mirrors, root>> /\ pc[p] = "idle" /\ pc'[p] \in {"enter", "root"}
  BY DEF Begin, Goto, IInv, Typed
<1>2. Typed'
  BY DEF IInv, Typed, Begin, Goto, Steps
<1>3. Rooted'
  BY <1>1, ReservationsAssumption DEF IInv, Typed, Rooted, Begin, Goto
<1>4. \A q \in Procs \ {p} :
        /\ pc'[q] = pc[q] /\ kind'[q] = kind[q] /\ target'[q] = target[q] /\ depth'[q] = depth[q]
  BY DEF IInv, Typed, Begin, Goto
<1>5. /\ kind'[p] = k /\ target'[p] = d /\ depth'[p] = 0
      /\ k = "scan" <=> pc'[p] = "enter"
      /\ k # "scan" => Len(d) >= ContainerDepth
  BY DEF IInv, Typed, Begin, Goto
<1>6. Len(d) \in Nat \ {0}
  BY PathOrder
<1>7. \A q \in Procs : Walk(q)'
  <2>1. Walk(p)'
    BY <1>1, <1>5, <1>6 DEF Walk, Walking, Inner
  <2>2. ASSUME NEW q \in Procs \ {p} PROVE Walk(q)'
    BY <1>1, <1>4 DEF IInv, Walk, Entering
  <2> QED BY <2>1, <2>2
<1>8. Flocks'
  <2> SUFFICES ASSUME NEW a \in Procs, NEW b \in Procs, a # b, pc'[a] \in Inner, pc'[b] # "idle",
                      IsPrefix(target'[a], target'[b]), Len(target'[a]) <= depth'[b]
               PROVE  FALSE
    BY DEF Flocks
  <2>1. a # p
    BY <1>1 DEF Inner
  <2>2. pc[a] \in Inner /\ pc[a] # "idle" /\ target'[a] = target[a]
    BY <1>4, <2>1 DEF Inner
  <2>3. Len(target[a]) \in Nat \ {0}
    BY <2>2, UnderWay
  <2>4. b # p
    BY <1>5, <2>2, <2>3
  <2> QED BY <1>4, <2>2, <2>4 DEF IInv, Flocks
<1>9. Clear'
  <2> SUFFICES ASSUME NEW a \in Procs, NEW c \in owned, pc'[a] # "idle",
                      IsStrictPrefix(c, target'[a]), Len(c) <= depth'[a]
               PROVE  Len(c) = depth'[a] /\ pc'[a] = "enter"
    BY <1>1 DEF Clear
  <2>1. Len(c) \in Nat \ {0}
    BY PathOrder DEF IInv, Typed
  <2>2. a # p
    BY <1>5, <2>1
  <2> QED BY <1>4, <2>2 DEF IInv, Clear
<1>10. Verified'
  BY <1>1, <1>4 DEF IInv, Verified
<1>11. Closed(dirs)' /\ Deep' /\ TerminalContainers'
  BY <1>1 DEF IInv, Deep, TerminalContainers
<1> QED BY <1>2, <1>3, <1>7, <1>8, <1>9, <1>10, <1>11 DEF IInv

LEMMA ReleaseKeeps ==
  ASSUME IInv, NEW p \in Procs, Release(p), UNCHANGED <<dirs, owned, mirrors>>
  PROVE  IInv'
<1>1. \A q \in Procs \ {p} :
        /\ pc'[q] = pc[q] /\ kind'[q] = kind[q] /\ target'[q] = target[q] /\ depth'[q] = depth[q]
  BY DEF IInv, Typed, Release
<1>2. pc'[p] = "idle" /\ kind'[p] = "open" /\ target'[p] = <<>> /\ depth'[p] = 0
  BY DEF IInv, Typed, Release
<1>3. Typed'
  BY DEF IInv, Typed, Release, Steps, Kinds
<1>4. Rooted'
  <2>1. \A q \in Procs : root' = q <=> root = q /\ q # p
    BY ReservationsAssumption DEF Release
  <2> QED BY <1>1, <1>2, <2>1 DEF IInv, Rooted
<1>5. \A q \in Procs : Walk(q)'
  <2>1. Walk(p)'
    <3>1. Len(<<>>) = 0
      OBVIOUS
    <3> QED BY <1>2, <3>1 DEF Walk, Walking, Inner
  <2>2. ASSUME NEW q \in Procs \ {p} PROVE Walk(q)'
    BY <1>1 DEF IInv, Walk, Entering
  <2> QED BY <2>1, <2>2
<1>6. \A q \in Procs : pc'[q] # "idle" => q # p
  BY <1>2
<1>7. Flocks'
  <2> SUFFICES ASSUME NEW a \in Procs, NEW b \in Procs, a # b, pc'[a] \in Inner, pc'[b] # "idle",
                      IsPrefix(target'[a], target'[b]), Len(target'[a]) <= depth'[b]
               PROVE  FALSE
    BY DEF Flocks
  <2>1. a # p /\ b # p
    BY <1>6 DEF Inner
  <2> QED BY <1>1, <2>1 DEF IInv, Flocks
<1>8. Clear'
  BY <1>1, <1>6 DEF IInv, Clear
<1>9. Verified'
  BY <1>1, <1>2 DEF IInv, Verified
<1>10. Closed(dirs)' /\ Deep' /\ TerminalContainers'
  BY DEF IInv, Deep, TerminalContainers
<1> QED BY <1>3, <1>4, <1>5, <1>7, <1>8, <1>9, <1>10 DEF IInv

LEMMA EnterChildKeeps ==
  ASSUME IInv, NEW p \in Procs, EnterChild(p)
  PROVE  IInv'
<1> USE DEF EnterChild, Goto
<1>1. target[p] \in Paths /\ depth[p] \in Nat /\ depth[p] + 1 \in 1 .. Len(target[p])
  BY UnderWay DEF IInv, Walk, Walking
<1>2. /\ Entering(p) \in Paths /\ Len(Entering(p)) = depth[p] + 1
      /\ \A m \in 1 .. depth[p] + 1 : SubSeq(Entering(p), 1, m) = SubSeq(target[p], 1, m)
  BY <1>1, PathCut DEF Entering
<1>3. UNCHANGED <<owned, mirrors, root, kind, target, depth, calls>> /\ dirs' = dirs \cup {Entering(p)}
  OBVIOUS
<1>4. pc'[p] = "reserve" /\ \A q \in Procs \ {p} : pc'[q] = pc[q]
  BY DEF IInv, Typed
<1>5. Typed'
  BY <1>2 DEF IInv, Typed, Steps
<1>6. Rooted'
  BY <1>4 DEF IInv, Rooted
<1>7. \A q \in Procs : Walk(q)'
  <2>1. Walk(p)'
    BY <1>1, <1>4 DEF IInv, Walk, Walking, Inner, Entering
  <2>2. ASSUME NEW q \in Procs \ {p} PROVE Walk(q)'
    BY <1>3, <1>4 DEF IInv, Walk, Entering
  <2> QED BY <2>1, <2>2
<1>8. Closed(dirs)'
  <2>1. ASSUME NEW m \in 1 .. Len(Entering(p)) PROVE SubSeq(Entering(p), 1, m) \in dirs'
    <3>1. m \in 1 .. depth[p] + 1 /\ SubSeq(Entering(p), 1, m) = SubSeq(target[p], 1, m)
      BY <1>2, <2>1
    <3>2. CASE m = depth[p] + 1
      BY <1>3, <3>1, <3>2 DEF Entering
    <3>3. CASE m # depth[p] + 1
      <4>1. m \in 1 .. depth[p]
        BY <1>1, <3>1, <3>3
      <4> QED BY <1>3, <3>1, <4>1 DEF IInv, Walk
    <3> QED BY <3>2, <3>3
  <2> QED BY <1>3, <2>1 DEF IInv, Closed
<1>9. Flocks'
  <2> SUFFICES ASSUME NEW a \in Procs, NEW b \in Procs, a # b, pc'[a] \in Inner, pc'[b] # "idle"
               PROVE  ~(IsPrefix(target[a], target[b]) /\ Len(target[a]) <= depth[b])
    BY <1>3 DEF Flocks
  <2>1. pc[a] \in Inner /\ pc[b] # "idle"
    BY <1>4 DEF Inner
  <2> QED BY <2>1 DEF IInv, Flocks
<1>10. Clear'
  <2> SUFFICES ASSUME NEW a \in Procs, NEW c \in owned, pc'[a] # "idle",
                      IsStrictPrefix(c, target[a]), Len(c) <= depth[a]
               PROVE  Len(c) = depth[a] /\ pc'[a] = "enter"
    BY <1>3 DEF Clear
  <2>1. pc[a] # "idle"
    BY <1>4
  <2>2. Len(c) = depth[a] /\ pc[a] = "enter"
    BY <2>1 DEF IInv, Clear
  <2>3. a # p
    <3> SUFFICES ASSUME a = p PROVE FALSE
      OBVIOUS
    <3>1. c \in Paths /\ Len(c) \in Nat \ {0} /\ IsPrefix(c, target[p]) /\ Len(c) >= ContainerDepth
      BY <1>1, PathOrder DEF IInv, Typed, Deep
    <3>2. depth[p] \in 1 .. Len(target[p])
      BY <1>1, <2>2, <3>1
    <3>3. c = Reached(p)
      BY <1>1, <2>2, <3>1, <3>2, PathCut DEF Reached
    <3> QED BY <2>2, <3>1, <3>3 DEF Conflict, Boundary
  <2> QED BY <1>4, <2>2, <2>3
<1>11. Verified' /\ Deep' /\ TerminalContainers'
  BY <1>3, <1>4 DEF IInv, Verified, Deep, TerminalContainers
<1> QED BY <1>5, <1>6, <1>7, <1>8, <1>9, <1>10, <1>11 DEF IInv

LEMMA ReserveKeeps ==
  ASSUME IInv, NEW p \in Procs, Reserve(p)
  PROVE  IInv'
<1> DEFINE n == depth[p] + 1
<1>1. target[p] \in Paths /\ depth[p] \in Nat /\ n \in 1 .. Len(target[p]) /\ pc[p] = "reserve"
  BY UnderWay DEF Reserve, IInv, Walk, Walking
<1>2. /\ Entering(p) \in dirs /\ Entering(p) \in Paths /\ Len(Entering(p)) = n
      /\ IsPrefix(Entering(p), target[p])
      /\ \A e \in Paths : IsPrefix(e, target[p]) /\ Len(e) = n => e = Entering(p)
      /\ n = Len(target[p]) => Entering(p) = target[p]
  BY <1>1, PathCut DEF Entering, IInv, Walk
<1>3. UNCHANGED <<dirs, owned, mirrors, root, kind, target, calls>>
  BY DEF Reserve
<1>4. /\ \A q \in Procs \ {p} : pc'[q] = pc[q] /\ depth'[q] = depth[q]
      /\ depth'[p] = n
      /\ pc'[p] = IF ~Final(p) THEN "enter" ELSE IF kind[p] = "scan" THEN "scan" ELSE "claim"
  BY DEF Reserve, IInv, Typed
<1>5. Final(p) <=> n = Len(target[p])
  BY DEF Final
<1>6. \A d \in Paths : d # <<>>
  BY ReservationsAssumption
<1>7. Typed'
  BY <1>1 DEF IInv, Typed, Reserve, Steps
<1>8. Rooted'
  BY <1>1, <1>3, <1>4 DEF IInv, Rooted
<1>9. \A q \in Procs : Walk(q)'
  <2>1. Walk(p)'
    <3>1. \A i \in 1 .. n : SubSeq(target[p], 1, i) \in dirs
      <4>1. ASSUME NEW i \in 1 .. n PROVE i \in 1 .. depth[p] \/ i = n
        BY <1>1
      <4>2. SubSeq(target[p], 1, n) \in dirs
        BY <1>2 DEF Entering
      <4> QED BY <4>1, <4>2 DEF IInv, Walk
    <3>2. Walk(p)
      BY DEF IInv
    <3> HIDE DEF n
    <3> QED BY <1>1, <1>3, <1>4, <1>5, <3>1, <3>2 DEF Walk, Walking, Inner
  <2>2. ASSUME NEW q \in Procs \ {p} PROVE Walk(q)'
    BY <1>3, <1>4 DEF IInv, Walk, Entering
  <2> QED BY <2>1, <2>2
<1>10. Flocks'
  <2> SUFFICES ASSUME NEW a \in Procs, NEW b \in Procs, a # b, pc'[a] \in Inner, pc'[b] # "idle",
                      IsPrefix(target[a], target[b]), Len(target[a]) <= depth'[b]
               PROVE  FALSE
    BY <1>3 DEF Flocks
  <2>1. pc[b] # "idle" /\ target[b] \in Paths
    BY <1>1, <1>4, UnderWay
  <2>2. CASE a = p
    <3>1. Final(p) /\ kind[p] # "scan" /\ b # p
      BY <1>4, <2>2 DEF Inner
    <3>2. target[p] = Entering(p) /\ ~Reserves(b, Entering(p))
      BY <1>2, <1>5, <3>1 DEF Reserve, Available
    <3> QED BY <1>2, <1>4, <1>6, <2>1, <2>2, <3>1, <3>2 DEF Reserves
  <2>3. CASE a # p
    <3>1. pc[a] \in Inner /\ pc[a] # "idle"
      BY <1>4, <2>3 DEF Inner
    <3>2. /\ target[a] \in Paths /\ Len(target[a]) \in Nat /\ depth[a] = Len(target[a])
          /\ kind[a] # "scan"
      <4>1. Walk(a)
        BY DEF IInv
      <4> QED BY <3>1, <4>1, UnderWay DEF Walk, Walking, Inner
    <3>3. b = p /\ Len(target[a]) = n
      <4>1. CASE b # p
        BY <1>4, <2>1, <3>1, <4>1 DEF IInv, Flocks
      <4>2. CASE b = p
        <5>1. ~(Len(target[a]) <= depth[p])
          BY <2>1, <3>1, <4>2 DEF IInv, Flocks
        <5> QED BY <1>1, <1>4, <3>2, <4>2, <5>1
      <4> QED BY <4>1, <4>2
    <3>4. target[a] = Entering(p)
      BY <1>2, <3>2, <3>3
    <3>5. IsPrefix(target[a], target[a]) /\ target[a] # <<>>
      BY <1>6, <3>2, PathOrder
    <3>6. ReservesExclusively(a, Entering(p))
      BY <3>1, <3>2, <3>4, <3>5 DEF ReservesExclusively, Reserves
    <3> QED BY <2>3, <3>6 DEF Reserve, Available
  <2> QED BY <2>2, <2>3
<1>11. Clear'
  <2> SUFFICES ASSUME NEW a \in Procs, NEW c \in owned, pc'[a] # "idle",
                      IsStrictPrefix(c, target[a]), Len(c) <= depth'[a]
               PROVE  Len(c) = depth'[a] /\ pc'[a] = "enter"
    BY <1>3 DEF Clear
  <2>1. CASE a # p
    BY <1>4, <2>1 DEF IInv, Clear
  <2>2. CASE a = p
    <3>1. c \in Paths /\ Len(c) \in Nat /\ Len(c) < Len(target[p])
      BY <1>1, <2>2, PathOrder DEF IInv, Typed
    <3>2. ~(Len(c) <= depth[p])
      BY <1>1, <2>2 DEF IInv, Clear
    <3>3. Len(c) = n
      BY <1>1, <1>4, <2>2, <3>1, <3>2
    <3> QED BY <1>4, <1>5, <2>2, <3>1, <3>3
  <2> QED BY <2>1, <2>2
<1>12. Verified'
  BY <1>3, <1>4 DEF IInv, Verified
<1>13. Closed(dirs)' /\ Deep' /\ TerminalContainers'
  BY <1>3 DEF IInv, Deep, TerminalContainers
<1> QED BY <1>7, <1>8, <1>9, <1>10, <1>11, <1>12, <1>13 DEF IInv

\* Steps that touch nothing but the lock of the root: the wait for it, and those within a directory.
LEMMA OnwardKeeps ==
  ASSUME IInv, NEW p \in Procs, NEW to \in Steps, Goto(p, pc[p], to),
         UNCHANGED <<dirs, owned, mirrors, kind, target, depth, calls>>,
         root' \in Procs \cup {None},
         (pc[p] = "root" /\ to = "enter") \/ (pc[p] \in Inner /\ to \in Inner),
         Rooted', Verified'
  PROVE  IInv'
<1>1. pc'[p] = to /\ \A q \in Procs \ {p} : pc'[q] = pc[q]
  BY DEF IInv, Typed, Goto
<1>2. Typed'
  BY DEF IInv, Typed, Goto
<1>3. pc[p] # "idle" /\ target[p] \in Paths /\ Len(target[p]) \in Nat \ {0}
  <2>1. pc[p] # "idle"
    BY DEF Inner
  <2> QED BY <2>1, UnderWay
<1>4. \A q \in Procs : Walk(q)'
  <2>1. Walk(p)'
    <3>1. Walk(p)
      BY DEF IInv
    <3>2. CASE pc[p] = "root" /\ to = "enter"
      BY <1>1, <1>3, <3>1, <3>2 DEF Walk, Walking, Inner
    <3>3. CASE pc[p] \in Inner /\ to \in Inner
      BY <1>1, <1>3, <3>1, <3>3 DEF Walk, Walking, Inner
    <3> QED BY <3>2, <3>3
  <2>2. ASSUME NEW q \in Procs \ {p} PROVE Walk(q)'
    BY <1>1 DEF IInv, Walk, Entering
  <2> QED BY <2>1, <2>2
<1>5. Flocks'
  <2> SUFFICES ASSUME NEW a \in Procs, NEW b \in Procs, a # b, pc'[a] \in Inner, pc'[b] # "idle"
               PROVE  ~(IsPrefix(target[a], target[b]) /\ Len(target[a]) <= depth[b])
    BY DEF Flocks
  <2>1. pc[a] \in Inner /\ pc[b] # "idle"
    BY <1>1, <1>3 DEF Inner
  <2> QED BY <2>1 DEF IInv, Flocks
<1>6. Clear'
  <2> SUFFICES ASSUME NEW a \in Procs, NEW c \in owned, pc'[a] # "idle",
                      IsStrictPrefix(c, target[a]), Len(c) <= depth[a]
               PROVE  Len(c) = depth[a] /\ pc'[a] = "enter"
    BY DEF Clear
  <2>1. Len(c) = depth[a] /\ pc[a] = "enter"
    BY <1>1, <1>3 DEF IInv, Clear
  <2>2. a # p
    BY <2>1 DEF Inner
  <2> QED BY <1>1, <2>1, <2>2
<1>7. Closed(dirs)' /\ Deep' /\ TerminalContainers'
  BY DEF IInv, Deep, TerminalContainers
<1> QED BY <1>2, <1>4, <1>5, <1>6, <1>7 DEF IInv

\* Whoever lets go of the root had it.
LEMMA RootLetGo ==
  ASSUME IInv, NEW p \in Procs, NEW to \in {"work", "verify"}, Goto(p, pc[p], to), root' = None,
         pc[p] \in {"claim", "link"}, UNCHANGED kind
  PROVE  Rooted'
<1>1. pc'[p] = to /\ \A q \in Procs \ {p} : pc'[q] = pc[q]
  BY DEF IInv, Typed, Goto
<1>2. root = p
  BY DEF IInv, Rooted, Walk, Walking
<1> QED BY <1>1, <1>2, ReservationsAssumption DEF IInv, Rooted

\* A lock file is published in a directory with no container below it.
LEMMA PublishKeeps ==
  ASSUME IInv, NEW p \in Procs, Goto(p, pc[p], "work"), pc[p] \in {"claim", "link"},
         kind[p] # "scan", \A c \in owned : ~IsPrefix(target[p], c),
         owned' = owned \cup {target[p]}, root' = None,
         UNCHANGED <<dirs, mirrors, kind, target, depth, calls>>
  PROVE  IInv'
<1>1. pc'[p] = "work" /\ \A q \in Procs \ {p} : pc'[q] = pc[q]
  BY DEF IInv, Typed, Goto
<1>2. /\ target[p] \in Paths /\ Len(target[p]) \in Nat \ {0} /\ depth[p] = Len(target[p])
      /\ Len(target[p]) >= ContainerDepth
  BY UnderWay DEF IInv, Walk, Inner
<1>3. target[p] \in dirs
  <2>1. Len(target[p]) \in 1 .. Len(target[p])
    BY <1>2
  <2>2. SubSeq(target[p], 1, Len(target[p])) \in dirs
    BY <1>2, <2>1 DEF IInv, Walk
  <2>3. SubSeq(target[p], 1, Len(target[p])) = target[p]
    BY <1>2, WholePath
  <2> QED BY <2>2, <2>3
<1>4. Typed'
  BY <1>3 DEF IInv, Typed, Goto, Steps
<1>5. Rooted'
  BY RootLetGo
<1>6. \A q \in Procs : Walk(q)'
  <2>1. Walk(p)'
    BY <1>1, <1>2 DEF IInv, Walk, Walking, Inner
  <2>2. ASSUME NEW q \in Procs \ {p} PROVE Walk(q)'
    BY <1>1 DEF IInv, Walk, Entering
  <2> QED BY <2>1, <2>2
<1>7. Flocks'
  <2> SUFFICES ASSUME NEW a \in Procs, NEW b \in Procs, a # b, pc'[a] \in Inner, pc'[b] # "idle"
               PROVE  ~(IsPrefix(target[a], target[b]) /\ Len(target[a]) <= depth[b])
    BY DEF Flocks
  <2>1. pc[a] \in Inner /\ pc[b] # "idle"
    BY <1>1 DEF Inner
  <2> QED BY <2>1 DEF IInv, Flocks
<1>8. Clear'
  <2> SUFFICES ASSUME NEW a \in Procs, NEW c \in owned \cup {target[p]}, pc'[a] # "idle",
                      IsStrictPrefix(c, target[a]), Len(c) <= depth[a]
               PROVE  Len(c) = depth[a] /\ pc'[a] = "enter"
    BY DEF Clear
  <2>1. pc[a] # "idle" /\ target[a] \in Paths
    BY <1>1, UnderWay
  <2>2. CASE c \in owned
    <3>1. Len(c) = depth[a] /\ pc[a] = "enter"
      BY <2>1, <2>2 DEF IInv, Clear
    <3> QED BY <1>1, <3>1
  <2>3. CASE c = target[p]
    <3>1. IsPrefix(target[p], target[a]) /\ Len(target[p]) < Len(target[a])
      BY <1>2, <2>1, <2>3, PathOrder
    <3>2. a # p
      BY <1>2, <3>1
    <3> QED BY <2>1, <2>3, <3>1, <3>2 DEF IInv, Flocks, Inner
  <2> QED BY <2>2, <2>3
<1>9. Verified'
  <2> SUFFICES ASSUME NEW a \in Procs, pc'[a] \in {"publish", "link"},
                      NEW c \in owned \cup {target[p]}, IsPrefix(target[a], c)
               PROVE  FALSE
    BY DEF Verified
  <2>1. a # p /\ pc[a] \in {"publish", "link"}
    BY <1>1
  <2>2. c = target[p]
    BY <2>1 DEF IInv, Verified
  <2>3. Len(target[a]) <= depth[p]
    <3>1. target[a] \in Paths
      BY <2>1, UnderWay
    <3> QED BY <1>2, <2>2, <3>1, PathOrder
  <2> QED BY <2>1, <2>2, <2>3 DEF IInv, Flocks, Inner
<1>10. Deep'
  BY <1>2 DEF IInv, Deep
<1>11. TerminalContainers'
  <2>1. \A c \in owned : ~IsPrefix(c, target[p])
    <3> SUFFICES ASSUME NEW c \in owned, IsPrefix(c, target[p]) PROVE FALSE
      OBVIOUS
    <3>1. c \in Paths
      BY DEF IInv, Typed
    <3>2. Len(c) <= Len(target[p]) /\ c # target[p]
      BY <1>2, <3>1, PathOrder
    <3>3. IsStrictPrefix(c, target[p])
      BY DEF IsStrictPrefix

    <3> QED BY <1>2, <3>2, <3>3 DEF IInv, Clear
  <2> QED BY <2>1 DEF IInv, TerminalContainers, Related
<1>12. Closed(dirs)'
  BY DEF IInv
<1> QED BY <1>4, <1>5, <1>6, <1>7, <1>8, <1>9, <1>10, <1>11, <1>12 DEF IInv

LEMMA ClaimEmptyKeeps ==
  ASSUME IInv, NEW p \in Procs, ClaimEmpty(p)
  PROVE  IInv'
<1>1. pc[p] = "claim" /\ target[p] \in Paths /\ Len(target[p]) \in Nat \ {0}
  BY UnderWay DEF ClaimEmpty, Goto
<1>2. \A c \in owned : ~IsPrefix(target[p], c)
  <2> SUFFICES ASSUME NEW c \in owned, IsPrefix(target[p], c) PROVE FALSE
    OBVIOUS
  <2> DEFINE n == Len(target[p]) + 1
  <2>1. c # target[p] /\ Children(target[p]) = {}
    BY DEF ClaimEmpty, Nonempty
  <2>2. c \in Paths /\ c \in dirs
    BY DEF IInv, Typed
  <2>3. Len(c) \in Nat /\ n \in 1 .. Len(c)
    BY <1>1, <2>1, <2>2, PathOrder
  <2>4. SubSeq(c, 1, n) \in dirs
    BY <2>2, <2>3 DEF IInv, Closed
  <2>5. SubSeq(c, 1, n) \in Paths /\ Len(SubSeq(c, 1, n)) = n /\ IsPrefix(SubSeq(c, 1, n), c)
    BY <2>2, <2>3, PathCut
  <2>6. IsPrefix(target[p], SubSeq(c, 1, n))
    <3> DEFINE e == SubSeq(c, 1, n)
    <3>1. e \in Paths /\ IsPrefix(e, c) /\ Len(target[p]) <= Len(e)
      BY <1>1, <2>5
    <3> HIDE DEF e
    <3>2. IsPrefix(target[p], e)
      BY <1>1, <2>2, <3>1, PathOrder
    <3> QED BY <3>2 DEF e
  <2> QED BY <2>1, <2>4, <2>5, <2>6 DEF Children
<1> QED BY <1>1, <1>2, PublishKeeps DEF ClaimEmpty, Goto, Creates

LEMMA PublishLockKeeps ==
  ASSUME IInv, NEW p \in Procs, PublishLock(p)
  PROVE  IInv'
<1>1. pc[p] = "link" /\ kind[p] # "scan" /\ \A c \in owned : ~IsPrefix(target[p], c)
  BY DEF PublishLock, Goto, IInv, Walk, Walking, Verified
<1> QED BY <1>1, PublishKeeps DEF PublishLock, Goto

LEMMA WorkKeeps ==
  ASSUME IInv, NEW p \in Procs, Work(p)
  PROVE  IInv'
<1> DEFINE m == MirrorOf(target[p])
<1>1. pc[p] = "work" /\ target[p] \in owned /\ m \in Paths
  BY DEF Work
<1>2. /\ target[p] \in Paths /\ Len(target[p]) \in Nat /\ depth[p] = Len(target[p])
      /\ Len(m) = Len(target[p]) + 1 /\ IsPrefix(target[p], m)
  BY <1>1, UnderWay, MirrorBelow DEF IInv, Walk, Inner
<1>3. UNCHANGED <<owned, root, pc, kind, target, depth, calls>>
  BY DEF Work
<1>4. /\ dirs' \subseteq Paths /\ owned \subseteq dirs' /\ mirrors' \subseteq dirs' /\ Closed(dirs')
      /\ \A q \in Procs : Walk(q)'
  <2>1. CASE dirs' = dirs \cup {m} /\ UNCHANGED mirrors
    <3>1. Closed(dirs')
      <4> SUFFICES ASSUME NEW d \in dirs \cup {m}, NEW n \in 1 .. Len(d)
                   PROVE  SubSeq(d, 1, n) \in dirs \cup {m}
        BY <2>1 DEF Closed
      <4>1. CASE d \in dirs
        BY <4>1 DEF IInv, Closed
      <4>2. CASE d = m
        <5>1. CASE n = Len(m)
          BY <1>1, <4>2, <5>1, PathCut
        <5>2. CASE n # Len(m)
          <6>1. n \in 1 .. Len(target[p]) /\ n \in 1 .. Len(m) /\ Len(target[p]) \in 1 .. Len(m)
            BY <1>2, <4>2, <5>2
          <6>2. target[p] = SubSeq(m, 1, Len(target[p]))
            BY <1>1, <1>2, <6>1, PathCut
          <6>3. SubSeq(target[p], 1, n) = SubSeq(m, 1, n)
            BY <1>1, <6>1, <6>2, PathCut
          <6>4. SubSeq(target[p], 1, n) \in dirs
            BY <1>1, <6>1 DEF IInv, Typed, Closed
          <6> QED BY <4>2, <6>3, <6>4
        <5> QED BY <5>1, <5>2
      <4> QED BY <4>1, <4>2
    <3>2. \A q \in Procs : Walk(q)'
      BY <1>3, <2>1 DEF IInv, Walk, Entering
    <3> QED BY <1>1, <2>1, <3>1, <3>2 DEF IInv, Typed
  <2>2. CASE /\ dirs' = {d \in dirs : ~IsPrefix(m, d)}
             /\ mirrors' = {d \in mirrors : ~IsPrefix(m, d)}
    <3>1. dirs \subseteq Paths
      BY DEF IInv, Typed
    <3>2. Closed(dirs')
      <4> SUFFICES ASSUME NEW d \in dirs, ~IsPrefix(m, d), NEW n \in 1 .. Len(d)
                   PROVE  SubSeq(d, 1, n) \in dirs /\ ~IsPrefix(m, SubSeq(d, 1, n))
        BY <2>2 DEF Closed
      <4>1. SubSeq(d, 1, n) \in dirs
        BY DEF IInv, Closed
      <4>2. SubSeq(d, 1, n) \in Paths /\ IsPrefix(SubSeq(d, 1, n), d)
        BY <3>1, PathCut
      <4> QED BY <1>1, <3>1, <4>1, <4>2, PathOrder
    <3>3. owned \subseteq dirs'
      <4> SUFFICES ASSUME NEW c \in owned, IsPrefix(m, c) PROVE FALSE
        BY <2>2 DEF IInv, Typed
      <4>1. c \in Paths
        BY DEF IInv, Typed
      <4>2. IsPrefix(target[p], c) /\ Len(m) <= Len(c)
        BY <1>1, <1>2, <4>1, PathOrder
      <4>3. c = target[p]
        BY <1>1, <4>2 DEF IInv, TerminalContainers, Related
      <4> QED BY <1>2, <4>2, <4>3
    <3>4. ASSUME NEW q \in Procs PROVE Walk(q)'
      <4>1. ASSUME NEW n \in 1 .. Len(target[q]), SubSeq(target[q], 1, n) \in dirs,
                   n <= depth[q] \/ (pc[q] = "reserve" /\ n = depth[q] + 1)
            PROVE  SubSeq(target[q], 1, n) \in dirs'
        <5> SUFFICES ASSUME IsPrefix(m, SubSeq(target[q], 1, n)) PROVE FALSE
          BY <2>2, <4>1
        <5>1. pc[q] # "idle"
          <6>1. CASE pc[q] = "idle"
            <7>1. target[q] = <<>>
              BY <6>1 DEF IInv, Walk
            <7>2. Len(<<>>) = 0
              OBVIOUS
            <7> QED BY <7>1, <7>2
          <6> QED BY <6>1
        <5>2. /\ target[q] \in Paths /\ depth[q] \in 0 .. Len(target[q])
              /\ Len(target[q]) \in Nat
          BY <5>1, UnderWay
        <5> DEFINE e == SubSeq(target[q], 1, n)
        <5>3. e \in Paths /\ Len(e) = n /\ IsPrefix(e, target[q])
          BY <5>2, PathCut
        <5> HIDE DEF e
        <5>4. IsPrefix(m, e)
          BY DEF e
        <5>5. IsPrefix(target[p], target[q]) /\ Len(m) <= n
          BY <1>1, <1>2, <5>2, <5>3, <5>4, PathOrder
        <5>6. q # p /\ Len(target[p]) <= depth[q]
          BY <1>1, <1>2, <4>1, <5>2, <5>5
        <5> QED BY <1>1, <5>1, <5>5, <5>6 DEF IInv, Flocks, Inner
      <4>2. depth[q] \in Nat /\ Len(target[q]) \in Nat /\ depth[q] <= Len(target[q])
        <5>1. CASE pc[q] = "idle"
          <6>1. target[q] = <<>> /\ depth[q] = 0
            BY <5>1 DEF IInv, Walk
          <6>2. Len(<<>>) = 0
            OBVIOUS
          <6> QED BY <6>1, <6>2
        <5>2. CASE pc[q] # "idle"
          BY <5>2, UnderWay
        <5> QED BY <5>1, <5>2
      <4>3. ASSUME NEW n \in 1 .. depth[q] PROVE SubSeq(target[q], 1, n) \in dirs'
        <5>1. n \in 1 .. Len(target[q]) /\ n <= depth[q]
          BY <4>2
        <5>2. SubSeq(target[q], 1, n) \in dirs
          BY DEF IInv, Walk
        <5> QED BY <4>1, <5>1, <5>2
      <4>4. pc[q] = "reserve" => SubSeq(target[q], 1, depth[q] + 1) \in dirs'
        BY <4>1, <4>2 DEF IInv, Walk, Walking, Entering
      <4> HIDE DEF m
      <4> QED BY <1>3, <4>3, <4>4 DEF IInv, Walk, Entering
    <3>5. mirrors' \subseteq dirs'
      BY <2>2 DEF IInv, Typed
    <3>6. dirs' \subseteq Paths
      BY <2>2, <3>1
    <3> QED BY <3>2, <3>3, <3>4, <3>5, <3>6
  <2> QED BY <2>1, <2>2 DEF Work
<1>5. Typed'
  BY <1>3, <1>4 DEF IInv, Typed
<1>6. Rooted' /\ Flocks' /\ Clear' /\ Verified' /\ Deep' /\ TerminalContainers'
  BY <1>3 DEF IInv, Rooted, Flocks, Clear, Verified, Deep, TerminalContainers
<1> QED BY <1>4, <1>5, <1>6 DEF IInv

LEMMA VerifyKeeps ==
  ASSUME IInv, NEW p \in Procs, Verify(p)
  PROVE  IInv'
<1>1. pc[p] = "verify" /\ pc'[p] = "publish" /\ \A q \in Procs \ {p} : pc'[q] = pc[q]
  BY DEF Verify, Goto, IInv, Typed
<1>2. Rooted'
  BY <1>1 DEF Verify, IInv, Rooted
<1>3. Verified'
  BY <1>1 DEF Verify, IInv, Verified
<1>4. root' \in Procs \cup {None} /\ "publish" \in Steps /\ Goto(p, pc[p], "publish")
  BY <1>1 DEF Verify, Goto, IInv, Typed, Steps
<1> QED BY <1>1, <1>2, <1>3, <1>4, OnwardKeeps DEF Verify, Inner

LEMMA LockRootKeeps ==
  ASSUME IInv, NEW p \in Procs, LockRoot(p) \/ LockRootAgain(p)
  PROVE  IInv'
<1> DEFINE to == IF pc[p] = "root" THEN "enter" ELSE "link"
<1>1. /\ pc[p] \in {"root", "publish"} /\ Goto(p, pc[p], to) /\ to \in Steps
      /\ (pc[p] = "root" /\ to = "enter") \/ (pc[p] \in Inner /\ to \in Inner)
      /\ root = None /\ root' = p /\ UNCHANGED <<dirs, owned, mirrors, kind, target, depth, calls>>
  BY DEF LockRoot, LockRootAgain, Goto, Steps, Inner
<1>2. pc'[p] = to /\ \A q \in Procs \ {p} : pc'[q] = pc[q]
  BY <1>1 DEF Goto, IInv, Typed
<1>3. Rooted'
  <2>1. pc[p] = "root" => kind[p] # "scan"
    BY DEF IInv, Walk, Walking
  <2>2. pc[p] # "root" => to = "link"
    OBVIOUS
  <2> QED BY <1>1, <1>2, <2>1, <2>2, ReservationsAssumption DEF IInv, Rooted
<1>4. Verified'
  <2>1. ASSUME NEW q \in Procs, pc'[q] \in {"publish", "link"} PROVE pc[q] \in {"publish", "link"}
    BY <1>1, <1>2, <2>1
  <2> QED BY <1>1, <2>1 DEF IInv, Verified
<1> HIDE DEF to
<1> QED BY <1>1, <1>3, <1>4, OnwardKeeps

\* The lock of the root is given back with nothing published.
LEMMA ClaimKeeps ==
  ASSUME IInv, NEW p \in Procs, ClaimOwned(p) \/ ClaimDeferred(p) \/ ClaimNothing(p)
  PROVE  IInv'
<1> DEFINE to == pc'[p]
<1>1. /\ pc[p] = "claim" /\ Goto(p, pc[p], to) /\ to \in {"work", "verify"} /\ root' = None
      /\ UNCHANGED <<dirs, owned, mirrors, kind, target, depth, calls>>
  BY DEF ClaimOwned, ClaimDeferred, ClaimNothing, Goto, IInv, Typed
<1>2. \A q \in Procs \ {p} : pc'[q] = pc[q]
  BY <1>1 DEF Goto, IInv, Typed
<1>3. to \in Steps /\ to \in Inner /\ pc[p] \in Inner /\ root' \in Procs \cup {None}
  BY <1>1 DEF Steps, Inner
<1> HIDE DEF to
<1>4. Rooted'
  BY <1>1, RootLetGo
<1>5. Verified'
  BY <1>1, <1>2 DEF IInv, Verified, to
<1> QED BY <1>1, <1>3, <1>4, <1>5, OnwardKeeps

LEMMA CrashOrphanKeeps ==
  ASSUME IInv, NEW p \in Procs, CrashOrphan(p)
  PROVE  IInv'
<1>1. /\ pc[p] \in {"verify", "work"} /\ Goto(p, pc[p], "orphan")
      /\ UNCHANGED <<dirs, owned, mirrors, root, kind, target, depth, calls>>
  BY DEF CrashOrphan, Goto
<1>2. pc'[p] = "orphan" /\ \A q \in Procs \ {p} : pc'[q] = pc[q]
  BY <1>1 DEF Goto, IInv, Typed
<1>3. Rooted' /\ Verified'
  BY <1>1, <1>2 DEF IInv, Rooted, Verified
<1>4. "orphan" \in Steps /\ "orphan" \in Inner /\ pc[p] \in Inner /\ root' \in Procs \cup {None}
  BY <1>1 DEF Steps, Inner, IInv, Typed
<1> QED BY <1>1, <1>3, <1>4, OnwardKeeps

\* Whatever a process does ends in a release, goes one step on, or changes the directories.
LEMMA NextKeeps == IInv /\ [Next]_vars => IInv'
<1> SUFFICES ASSUME IInv, [Next]_vars PROVE IInv'
  OBVIOUS
<1>1. CASE UNCHANGED vars
  BY <1>1 DEF vars, IInv, Typed, Rooted, Walk, Entering, Closed, Deep, Flocks, Clear, Verified,
              TerminalContainers
<1>2. ASSUME NEW p \in Procs, NEW k \in Kinds, NEW d \in Paths, Begin(p, k, d) PROVE IInv'
  BY <1>2, BeginKeeps
<1>3. ASSUME NEW p \in Procs, Step(p) PROVE IInv'
  <2>1. CASE LockRoot(p) \/ LockRootAgain(p)
    BY <2>1, LockRootKeeps
  <2>2. CASE EnterChild(p)
    BY <2>2, EnterChildKeeps
  <2>3. CASE EnterFails(p) \/ Busy(p)
    BY <2>3, ReleaseKeeps DEF EnterFails, Busy
  <2>4. CASE Reserve(p)
    BY <2>4, ReserveKeeps
  <2>5. CASE ClaimOwned(p) \/ ClaimDeferred(p) \/ ClaimNothing(p)
    BY <2>5, ClaimKeeps
  <2>6. CASE ClaimEmpty(p)
    BY <2>6, ClaimEmptyKeeps
  <2>7. CASE PublishLock(p)
    BY <2>7, PublishLockKeeps
  <2> QED BY <1>3, <2>1, <2>2, <2>3, <2>4, <2>5, <2>6, <2>7 DEF Step
<1>4. ASSUME NEW p \in Procs,
             \/ VerifyFails(p) \/ Done(p) \/ GuardFails(p) \/ Crash(p) \/ OrphanEnds(p)
      PROVE  IInv'
  BY <1>4, ReleaseKeeps DEF VerifyFails, Done, GuardFails, Crash, OrphanEnds
<1>5. ASSUME NEW p \in Procs, Verify(p) \/ Work(p) \/ CrashOrphan(p) PROVE IInv'
  BY <1>5, VerifyKeeps, WorkKeeps, CrashOrphanKeeps
<1> QED BY <1>1, <1>2, <1>3, <1>4, <1>5 DEF Next

LEMMA Invariant == Spec => []IInv
  BY InitIInv, NextKeeps, PTL DEF Spec

---------------------------------------------------------------------------
(* Theorems *)

\* The variables have their types, and the root is locked exactly in the walk of an operation and
\* while a lock file is published.
THEOREM TypeCorrect == Spec => []TypeOK
<1>1. IInv => TypeOK
  <2> SUFFICES ASSUME IInv PROVE TypeOK
    OBVIOUS
  <2>1. ASSUME NEW p \in Procs PROVE depth[p] \in 0 .. Len(target[p])
    <3>1. CASE pc[p] = "idle"
      <4>1. target[p] = <<>> /\ depth[p] = 0
        BY <3>1 DEF IInv, Walk
      <4>2. Len(<<>>) = 0
        OBVIOUS
      <4> QED BY <4>1, <4>2
    <3>2. CASE pc[p] # "idle"
      BY <3>2, UnderWay
    <3> QED BY <3>1, <3>2
  <2> QED BY <2>1 DEF IInv, Typed, Rooted, TypeOK
<1> QED BY <1>1, Invariant, PTL

\* No container is above or below another one, however operations and adoptions interleave.
THEOREM ContainersAreTerminal == Spec => []TerminalContainers
<1>1. IInv => TerminalContainers
  BY DEF IInv
<1> QED BY <1>1, Invariant, PTL

\* Nobody works in, above or below a directory somebody else works in, orphans included.
THEOREM WorkIsAlone == Spec => []WorksAlone
<1>1. IInv => WorksAlone
  <2> SUFFICES ASSUME IInv, NEW p \in Procs, NEW q \in Procs, p # q, pc[p] \in Inner,
                      pc[q] \in Inner, IsPrefix(target[p], target[q])
               PROVE  FALSE
    BY DEF WorksAlone, Related, Inner
  <2>1. /\ pc[p] # "idle" /\ pc[q] # "idle" /\ depth[q] = Len(target[q])
        /\ target[p] \in Paths /\ target[q] \in Paths
    BY UnderWay DEF IInv, Walk, Inner
  <2> QED BY <2>1, PathOrder DEF IInv, Flocks
<1> QED BY <1>1, Invariant, PTL

\* Whoever has arrived in a directory, a scan included, is not below a container.
THEOREM BoundariesStop == Spec => []StopsAtBoundaries
<1>1. IInv => StopsAtBoundaries
  <2> SUFFICES ASSUME IInv, NEW p \in Procs, pc[p] \in Inner \cup {"scan"}, NEW c \in owned,
                      IsStrictPrefix(c, target[p])
               PROVE  FALSE
    BY DEF StopsAtBoundaries, Inner
  <2>1. pc[p] # "idle" /\ pc[p] # "enter" /\ depth[p] = Len(target[p])
    BY DEF IInv, Walk, Inner
  <2>2. Len(c) \in Nat /\ Len(target[p]) \in Nat /\ Len(c) < Len(target[p])
    BY <2>1, UnderWay, PathOrder DEF IInv, Typed
  <2> QED BY <2>1, <2>2 DEF IInv, Clear
<1> QED BY <1>1, Invariant, PTL

\* An operation is refused as busy only for somebody in the same line of directories.
THEOREM BusyHasCause == Spec => BusyForCause
<1>1. ASSUME IInv, NEW p \in Procs, Busy(p)
      PROVE  \E q \in Procs \ {p} : Holding(q) /\ Related(target[p], target[q])
  <2>1. /\ target[p] \in Paths /\ depth[p] \in Nat /\ depth[p] + 1 \in 1 .. Len(target[p])
        /\ pc[p] = "reserve"
    BY <1>1, UnderWay DEF Busy, IInv, Walk, Walking
  <2>2. /\ Entering(p) \in Paths /\ Len(Entering(p)) = depth[p] + 1
        /\ IsPrefix(Entering(p), target[p])
        /\ Final(p) => Entering(p) = target[p]
    BY <2>1, PathCut DEF Entering, Final
  <2>3. PICK q \in Procs \ {p} : /\ Reserves(q, Entering(p))
                                 /\ Entering(p) = target[q] \/ Final(p)
    BY <1>1 DEF Busy, Available, ReservesExclusively
  <2>4. Holding(q)
    <3>1. pc[q] # "idle" /\ depth[q] # 0
      BY <2>1, <2>2, <2>3 DEF Reserves
    <3> QED BY <1>1, <3>1 DEF Holding, IInv, Walk
  <2>5. Related(target[p], target[q])
    BY <2>2, <2>3 DEF Reserves, Related
  <2> QED BY <2>4, <2>5
<1>2. IInv => [\A p \in Procs :
                 Busy(p) => \E q \in Procs \ {p} : Holding(q) /\ Related(target[p], target[q])]_vars
  BY <1>1
<1> QED BY <1>2, Invariant, PTL DEF BusyForCause

---------------------------------------------------------------------------
(* Refinement *)

\* Where a process is inside.
Site == [p \in Procs |-> IF pc[p] \in Inner THEN target[p] ELSE None]

LEMMA InsideIsSite == (IInv => Inside = Site) /\ (IInv' => Inside' = Site')
<1>1. IInv => Inside = Site
  BY DEF IInv, Walk, Walking, Inside, Site, Inner
<1>2. IInv' => Inside' = Site'
  BY DEF IInv, Walk, Walking, Inside, Site, Inner
<1> QED BY <1>1, <1>2


\* Both specifications order the directories alike.
LEMMA SameOrder ==
  /\ \A d, e : Abstract!Related(d, e) <=> Related(d, e)
  /\ \A d, e : Abstract!Below(d, e) <=> IsStrictPrefix(e, d)
<1>1. \A d, e : Abstract!IsPrefix(d, e) <=> IsPrefix(d, e)
  BY DEF Abstract!IsPrefix, IsPrefix
<1>2. \A d, e : Abstract!IsStrictPrefix(d, e) <=> IsStrictPrefix(d, e)
  BY <1>1 DEF Abstract!IsStrictPrefix, IsStrictPrefix
<1> QED BY <1>1, <1>2 DEF Abstract!Related, Related, Abstract!Below

LEMMA SiteMoves ==
  ASSUME IInv, NEW p \in Procs,
         \A q \in Procs \ {p} : pc'[q] = pc[q] /\ target'[q] = target[q]
  PROVE  /\ Site' = [Site EXCEPT ![p] = IF pc'[p] \in Inner THEN target'[p] ELSE None]
         /\ pc[p] \notin Inner /\ pc'[p] \notin Inner => Site' = Site
         /\ pc[p] \in Inner /\ pc'[p] \in Inner /\ target'[p] = target[p] => Site' = Site
  BY DEF Site

LEMMA ReleaseRefines ==
  ASSUME IInv, IInv', NEW p \in Procs, Release(p), UNCHANGED owned
  PROVE  [Abstract!Next]_(Abstract!vars)
<1>1. /\ \A q \in Procs \ {p} : pc'[q] = pc[q] /\ target'[q] = target[q]
      /\ pc'[p] \notin Inner
  BY DEF IInv, Typed, Release, Inner
<1>2. CASE pc[p] \in Inner
  <2>1. Site[p] = target[p] /\ target[p] # None
    BY <1>2, UnderWay, ReservationsAssumption DEF Site, Inner
  <2>2. Site' = [Site EXCEPT ![p] = None]
    BY <1>1, SiteMoves
  <2>3. Abstract!Leave(p)
    BY <2>1, <2>2, InsideIsSite DEF Abstract!Leave
  <2> QED BY <2>3 DEF Abstract!Next
<1>3. CASE pc[p] \notin Inner
  BY <1>1, <1>3, SiteMoves, InsideIsSite DEF Abstract!vars
<1> QED BY <1>2, <1>3

LEMMA OwnRefines ==
  ASSUME IInv, IInv', NEW p \in Procs, pc[p] \in Inner, Goto(p, pc[p], "work"),
         owned' = owned \cup {target[p]}, UNCHANGED target
  PROVE  [Abstract!Next]_(Abstract!vars)
<1>1. \A q \in Procs \ {p} : pc'[q] = pc[q] /\ target'[q] = target[q]
  BY DEF IInv, Typed, Goto
<1>2. pc'[p] \in Inner
  BY DEF IInv, Typed, Goto, Inner
<1>3. Site' = Site
  BY <1>1, <1>2, SiteMoves
<1>4. Site[p] = target[p] /\ target[p] # None
  BY UnderWay, ReservationsAssumption DEF Site, Inner
<1>5. \A c \in owned : Abstract!Related(c, target[p]) => c = target[p]
  <2>1. target[p] \in owned' /\ \A c \in owned : c \in owned'
    OBVIOUS
  <2> QED BY <2>1, SameOrder DEF IInv, TerminalContainers
<1>6. Abstract!Own(p)
  BY <1>3, <1>4, <1>5, InsideIsSite DEF Abstract!Own
<1> QED BY <1>6 DEF Abstract!Next

LEMMA ReserveRefines ==
  ASSUME IInv, IInv', NEW p \in Procs, Reserve(p)
  PROVE  [Abstract!Next]_(Abstract!vars)
<1>1. /\ \A q \in Procs \ {p} : pc'[q] = pc[q] /\ target'[q] = target[q]
      /\ pc[p] \notin Inner /\ target'[p] = target[p] /\ owned' = owned
      /\ pc'[p] \in {"enter", "scan", "claim"}
  BY DEF IInv, Typed, Reserve, Inner
<1>2. CASE pc'[p] = "claim"
  <2>1. Site' = [Site EXCEPT ![p] = target[p]] /\ Site[p] = None
    BY <1>1, <1>2, SiteMoves DEF Inner, Site
  <2>2. target[p] \in Paths /\ depth'[p] = Len(target[p])
    BY <1>1, <1>2 DEF IInv, Walk, Inner
  <2>3. ASSUME NEW q \in Procs, Site[q] # None PROVE ~Abstract!Related(target[p], Site[q])
    <3>1. q # p /\ pc[q] \in Inner /\ Site[q] = target[q]
      BY <2>1, <2>3 DEF Site
    <3>2. pc'[q] \in Inner /\ target'[q] = target[q]
      BY <1>1, <3>1
    <3>3. target[q] \in Paths /\ depth'[q] = Len(target[q])
      BY <3>2 DEF IInv, Walk, Inner
    <3>4. ~IsPrefix(target[p], target[q])
      <4>1. ~(IsPrefix(target'[p], target'[q]) /\ Len(target'[p]) <= depth'[q])
        BY <1>2, <3>1, <3>2 DEF IInv, Flocks, Inner
      <4> QED BY <1>1, <2>2, <3>2, <3>3, <4>1, PathOrder
    <3>5. ~IsPrefix(target[q], target[p])
      <4>1. ~(IsPrefix(target'[q], target'[p]) /\ Len(target'[q]) <= depth'[p])
        BY <1>2, <3>1, <3>2 DEF IInv, Flocks, Inner
      <4> QED BY <1>1, <2>2, <3>2, <3>3, <4>1, PathOrder
    <3> QED BY <3>1, <3>4, <3>5, SameOrder DEF Related
  <2>4. ASSUME NEW c \in owned PROVE ~Abstract!Below(target[p], c)
    <3> SUFFICES ASSUME IsStrictPrefix(c, target[p]) PROVE FALSE
      BY SameOrder
    <3>1. c \in Paths /\ Len(c) <= depth'[p]
      <4>1. c \in Paths
        BY DEF IInv, Typed
      <4> QED BY <2>2, <4>1, PathOrder
    <3> QED BY <1>1, <1>2, <3>1 DEF IInv, Clear
  <2>5. Abstract!Enter(p, target[p])
    BY <1>1, <2>1, <2>3, <2>4, InsideIsSite DEF Abstract!Enter
  <2> QED BY <2>2, <2>5 DEF Abstract!Next
<1>3. CASE pc'[p] # "claim"
  <2>1. pc'[p] \notin Inner
    BY <1>1, <1>3 DEF Inner
  <2> QED BY <1>1, <2>1, SiteMoves, InsideIsSite DEF Abstract!vars
<1> QED BY <1>2, <1>3

\* Steps that the abstract specification does not see.
LEMMA SilentRefines ==
  ASSUME IInv, IInv', NEW p \in Procs,
         \/ \E k \in Kinds, d \in Paths : Begin(p, k, d)
         \/ LockRoot(p) \/ EnterChild(p) \/ ClaimOwned(p) \/ ClaimDeferred(p) \/ ClaimNothing(p)
         \/ LockRootAgain(p) \/ Verify(p) \/ Work(p) \/ CrashOrphan(p)
  PROVE  [Abstract!Next]_(Abstract!vars)
<1> SUFFICES Site' = Site /\ owned' = owned
  BY InsideIsSite DEF Abstract!vars
<1>1. CASE \E k \in Kinds, d \in Paths : Begin(p, k, d)
  <2>1. /\ \A q \in Procs \ {p} : pc'[q] = pc[q] /\ target'[q] = target[q]
        /\ pc[p] \notin Inner /\ pc'[p] \notin Inner /\ owned' = owned
    BY <1>1 DEF IInv, Typed, Begin, Goto, Inner
  <2> QED BY <2>1, SiteMoves
<1>2. CASE LockRoot(p) \/ EnterChild(p)
  <2>1. /\ \A q \in Procs \ {p} : pc'[q] = pc[q] /\ target'[q] = target[q]
        /\ pc[p] \notin Inner /\ pc'[p] \notin Inner /\ owned' = owned
    BY <1>2 DEF IInv, Typed, LockRoot, EnterChild, Goto, Inner
  <2> QED BY <2>1, SiteMoves
<1>3. CASE \/ ClaimOwned(p) \/ ClaimDeferred(p) \/ ClaimNothing(p) \/ LockRootAgain(p)
           \/ Verify(p) \/ CrashOrphan(p)
  <2>1. /\ \A q \in Procs : q # p => pc'[q] = pc[q]
        /\ target' = target /\ pc[p] \in Inner /\ pc'[p] \in Inner /\ owned' = owned
    BY <1>3 DEF IInv, Typed, ClaimOwned, ClaimDeferred, ClaimNothing, LockRootAgain, Verify,
                CrashOrphan, Goto, Inner
  <2> QED BY <2>1, SiteMoves
<1>4. CASE Work(p)
  BY <1>4 DEF Work, Site
<1> QED BY <1>1, <1>2, <1>3, <1>4

LEMMA NextRefines == IInv /\ IInv' /\ [Next]_vars => [Abstract!Next]_(Abstract!vars)
<1> SUFFICES ASSUME IInv, IInv', [Next]_vars PROVE [Abstract!Next]_(Abstract!vars)
  OBVIOUS
<1>1. CASE UNCHANGED vars
  BY <1>1 DEF vars, Inside, Abstract!vars
<1>2. ASSUME NEW p \in Procs,
             \/ EnterFails(p) \/ Busy(p) \/ VerifyFails(p) \/ Done(p) \/ GuardFails(p) \/ Crash(p)
             \/ OrphanEnds(p)
      PROVE  [Abstract!Next]_(Abstract!vars)
  BY <1>2, ReleaseRefines DEF EnterFails, Busy, VerifyFails, Done, GuardFails, Crash, OrphanEnds
<1>3. ASSUME NEW p \in Procs, ClaimEmpty(p) \/ PublishLock(p)
      PROVE  [Abstract!Next]_(Abstract!vars)
  BY <1>3, OwnRefines DEF ClaimEmpty, PublishLock, Goto, Inner
<1>4. ASSUME NEW p \in Procs, Reserve(p) PROVE [Abstract!Next]_(Abstract!vars)
  BY <1>4, ReserveRefines
<1> QED BY <1>1, <1>2, <1>3, <1>4, SilentRefines DEF Next, Step

\* The walks, with crashes, orphans, adoptions and scans, implement the exclusion of containers: an
\* operation enters a directory only when nobody is inside it, above it or below it and no container
\* is above it, and a directory becomes a container only in a line of its own.
THEOREM ImplementsContainersAlways == Spec => ImplementsContainers
<1>1. Init => Abstract!Init
  <2> SUFFICES ASSUME Init PROVE Abstract!Init
    OBVIOUS
  <2>1. Inside = [p \in Procs |-> None]
    BY DEF Init, Inside
  <2>2. IInv
    BY InitIInv
  <2>3. owned \subseteq Paths /\ \A d, e \in owned : Abstract!Related(d, e) => d = e
    BY <2>2, SameOrder DEF IInv, Typed, TerminalContainers
  <2> QED BY <2>1, <2>3 DEF Abstract!Init
<1>2. IInv /\ IInv' /\ [Next]_vars => [Abstract!Next]_(Abstract!vars)
  BY NextRefines
<1> QED BY <1>1, <1>2, Invariant, PTL DEF Spec, ImplementsContainers, Abstract!Spec

=============================================================================
