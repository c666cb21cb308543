------------------------------ MODULE MCArchive ------------------------------
(***************************************************************************)
(* Bounds for TLC: processes and bundle names are interchangeable.         *)
(***************************************************************************)
EXTENDS Archive, TLC

JobOperations == {"fetch", "adopt", "convert", "check"}
RepairOperations == {"fetch", "audit"}
AllOperations == JobOperations \cup {"clean", "audit"}

Symmetry == Permutations(Procs) \cup Permutations(Generations)

\* What a process will still read of what it remembers.
Remembered(p) ==
  <<job[p].op,
    IF pc[p] \in {"cloning", "fetching", "updated", "rename"} \cup Orphans THEN job[p].got ELSE 0,
    IF pc[p] = "select" THEN job[p].gen ELSE None>>

\* What decides where the directory goes: of the inventory and of what a process
\* remembers of it, nothing but the format is ever read to change the disk.
DirectoryView ==
  <<disk, inv.format, remote, claim, lock, pc,
    [p \in Procs |-> <<Remembered(p), job[p].format>>]>>

\* What decides where the inventory goes as well: the row a process will publish from.
InventoryView ==
  <<disk, inv, remote, claim, lock, pc,
    [p \in Procs |-> <<Remembered(p), IF pc[p] \in {"finish", "quit", "leave"} \cup Orphans
                                       THEN "unknown" ELSE job[p].state, job[p].format>>]>>

=============================================================================
