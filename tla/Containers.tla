----------------------------- MODULE Containers -----------------------------
(***************************************************************************)
(* What the reservations promise (docs/guarantees.md:164): repository      *)
(* directories are terminal containers.  At most one operation is inside a *)
(* directory, none is inside another one's ancestors or descendants or     *)
(* below a container, and a directory becomes a container only when no     *)
(* container is above or below it.                                         *)
(***************************************************************************)
EXTENDS Sequences, SequencesExt

CONSTANTS Procs, Paths, None

VARIABLES inside,  \* inside[p]: the directory p works in, or None
          owned    \* the containers

vars == <<inside, owned>>

Below(d, e) == IsStrictPrefix(e, d)
Related(d, e) == IsPrefix(d, e) \/ IsPrefix(e, d)

Init ==
  /\ inside = [p \in Procs |-> None]
  /\ owned \subseteq Paths
  /\ \A d, e \in owned : Related(d, e) => d = e

Enter(p, d) ==
  /\ inside[p] = None
  /\ \A q \in Procs : inside[q] # None => ~Related(d, inside[q])
  /\ \A c \in owned : ~Below(d, c)
  /\ inside' = [inside EXCEPT ![p] = d]
  /\ UNCHANGED owned

Own(p) ==
  /\ inside[p] # None
  /\ \A c \in owned : Related(c, inside[p]) => c = inside[p]
  /\ owned' = owned \cup {inside[p]}
  /\ UNCHANGED inside

Leave(p) ==
  /\ inside[p] # None
  /\ inside' = [inside EXCEPT ![p] = None]
  /\ UNCHANGED owned

\* Several processes may leave at once, when one that died releases what it held.
Next == \E p \in Procs : Own(p) \/ Leave(p) \/ \E d \in Paths : Enter(p, d)

Spec == Init /\ [][Next]_vars
=============================================================================
