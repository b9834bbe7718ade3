----------------------------- MODULE PlaybookRun -----------------------------
(***************************************************************************)
(* What a playbook run promises: it starts once, at the first step; it     *)
(* executes the step it is at and moves where that step's rules lead; it   *)
(* ends once, by a step or by expiry, with one PLAYBOOK_COMPLETED signal,  *)
(* and nothing happens to it afterwards.  One commit may move several      *)
(* runs, each by at most one step.                                         *)
(***************************************************************************)
EXTENDS Naturals, Sequences

CONSTANTS
  Runs,     \* run identifiers
  Steps,    \* step numbers of the playbook
  First,    \* its first step
  Follow    \* Follow[s]: the step numbers the rules of step s may lead to

VARIABLES
  phase,      \* "absent", "running" or "ended"
  at,         \* the step a running run is at
  trail,      \* the steps it executed
  announced   \* its PLAYBOOK_COMPLETED signals

absVars == <<phase, at, trail, announced>>

AbsInit ==
  /\ phase = [r \in Runs |-> "absent"]
  /\ at = [r \in Runs |-> 0]
  /\ trail = [r \in Runs |-> <<>>]
  /\ announced = [r \in Runs |-> 0]

Rests(r) ==
  /\ phase'[r] = phase[r] /\ at'[r] = at[r]
  /\ trail'[r] = trail[r] /\ announced'[r] = announced[r]

Starts(r) ==
  /\ phase[r] = "absent" /\ phase'[r] = "running" /\ at'[r] = First
  /\ trail'[r] = trail[r] /\ announced'[r] = announced[r]

\* The step executed leads on, to a step there is, or ends the run.
Executes(r) ==
  /\ phase[r] = "running"
  /\ trail'[r] = Append(trail[r], at[r])
  /\ \/ phase'[r] = "running" /\ at'[r] \in Follow[at[r]] \cap Steps
        /\ announced'[r] = announced[r]
     \/ phase'[r] = "ended" /\ at'[r] = 0 /\ announced'[r] = announced[r] + 1

Expires(r) ==
  /\ phase[r] = "running" /\ phase'[r] = "ended" /\ at'[r] = 0
  /\ trail'[r] = trail[r] /\ announced'[r] = announced[r] + 1

AbsNext == \A r \in Runs : Rests(r) \/ Starts(r) \/ Executes(r) \/ Expires(r)

AbsSpec == AbsInit /\ [][AbsNext]_absVars
-----------------------------------------------------------------------------
(* What follows.                                                           *)

\* The trail of a run is a walk through the rules: it begins at the first
\* step, every step was named by the rules of the one before it, and so is
\* the step the run is at.  A run is announced when it has ended, and once.
TrailIsWalk ==
  \A r \in Runs :
    LET steps == trail[r]
        n == Len(steps)
    IN /\ phase[r] = "absent" => n = 0
       /\ n > 0 => steps[1] = First
       /\ \A k \in 1 .. n - 1 : steps[k + 1] \in Follow[steps[k]]
       /\ phase[r] = "running" => IF n = 0 THEN at[r] = First ELSE at[r] \in Follow[steps[n]]
       /\ announced[r] = IF phase[r] = "ended" THEN 1 ELSE 0
=============================================================================
