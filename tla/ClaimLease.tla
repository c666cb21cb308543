----------------------------- MODULE ClaimLease -----------------------------
(****************************************************************************)
(* What the job queue promises about who may work on a repository, without  *)
(* jobs, schedules or clocks: at most one claim at a time, known by a token *)
(* that is never issued twice.  A claim ends by its holder's word, or it    *)
(* lapses; a lapsed claim never comes back to life, and the next claim of   *)
(* any repository first clears every lapsed one.                            *)
(****************************************************************************)
EXTENDS Integers

CONSTANTS Repos, Tokens

VARIABLES
  holder,   \* the token of each repository's claim, 0 when it is free
  lapsed,   \* the repositories whose claim ran out of time
  issued    \* how many tokens were issued

leaseVars == <<holder, lapsed, issued>>

Init == holder = [r \in Repos |-> 0] /\ lapsed = {} /\ issued = 0

Cleared == [r \in Repos |-> IF r \in lapsed THEN 0 ELSE holder[r]]

Lapse ==
  /\ \E S \in SUBSET {r \in Repos : holder[r] # 0} : lapsed' = lapsed \cup S
  /\ UNCHANGED <<holder, issued>>

Recover ==
  /\ holder' = Cleared
  /\ lapsed' = {}
  /\ UNCHANGED issued

Acquire(r) ==
  /\ Cleared[r] = 0
  /\ issued + 1 \in Tokens
  /\ issued' = issued + 1
  /\ holder' = [Cleared EXCEPT ![r] = issued + 1]
  /\ lapsed' = {}

Release(r) ==
  /\ r \notin lapsed
  /\ holder' = [holder EXCEPT ![r] = 0]
  /\ UNCHANGED <<lapsed, issued>>

Next ==
  \/ Lapse
  \/ Recover
  \/ \E r \in Repos : Acquire(r) \/ Release(r)

Spec == Init /\ [][Next]_leaseVars

=============================================================================
