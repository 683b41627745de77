------------------------- MODULE ResourceBudgetStore -------------------------
(***************************************************************************)
(* The table resource_reservations and the transactions that               *)
(* resource-budget-store.ts runs on it, for the executions of agents.      *)
(*                                                                         *)
(* A table is the sequence of its rows in the order they were created; an  *)
(* index is a reservation id.  Every transaction is an operator from a     *)
(* table to a table, with the condition under which the code does not      *)
(* throw as an operator of its own.                                        *)
(*                                                                         *)
(* A run id and a process id both name an operating system process here    *)
(* (0 is NULL).  Left out: timestamps, the texts of reasons, and the kinds *)
(* verification and workspace_shell with the limit on the former.          *)
(***************************************************************************)
EXTENDS Naturals, Sequences, FiniteSets

CONSTANTS
  Agents,        \* members that may be started
  Workspaces,    \* numbers, in the order of the workspaces' ids
  WorkspaceOf,   \* the workspace of an agent
  MaxRows        \* bound: reservations ever made

ASSUME BudgetAssumption ==
  /\ Workspaces \subseteq Nat \ {0}
  /\ WorkspaceOf \in [Agents -> Workspaces]
  /\ MaxRows \in Nat

RowStates == {"reserved", "spawn_pending", "running", "recovery_blocked", "released"}

(* The execution key of an agent's row is agent:<id>, or legacy:<run> for  *)
(* an adopted process whose agent already had a row.                       *)
Reservation ==
  [instance: Nat, agent: Agents, key: {"agent", "legacy"}, state: RowStates,
   run: Nat, pid: Nat,
   confirmed: BOOLEAN]    \* released with the reason exit_confirmed

NewReservation(inst, a) ==
  [instance |-> inst, agent |-> a, key |-> "agent", state |-> "reserved",
   run |-> 0, pid |-> 0, confirmed |-> FALSE]

-----------------------------------------------------------------------------
(* readSnapshot: every row that is not released occupies a slot. *)
Active(t) == {i \in DOMAIN t : t[i].state # "released"}

(* Mutant: rows under recovery do not count. *)
OccupyingCertain(t) ==
  {i \in DOMAIN t : t[i].state \notin {"released", "recovery_blocked"}}

Occupying(t) == Active(t)

OccupyingIn(t, w) == {i \in Occupying(t) : WorkspaceOf[t[i].agent] = w}

Full(t, limits, w) ==
  \/ Cardinality(Occupying(t)) >= limits.total
  \/ Cardinality(OccupyingIn(t, w)) >= limits.workspace

First(S) == CHOOSE i \in S : \A j \in S : i <= j

ActiveByKey(t, a) == {i \in Active(t) : t[i].agent = a /\ t[i].key = "agent"}
ActiveByAgent(t, a) == {i \in Active(t) : t[i].agent = a}

(* Mutant: only the execution key is looked up. *)
ExistingByKey(t, a) ==
  IF ActiveByKey(t, a) # {} THEN First(ActiveByKey(t, a)) ELSE 0

(* The row that reserve returns instead of inserting one; 0 is none. *)
Existing(t, a) ==
  IF ActiveByKey(t, a) # {} THEN First(ActiveByKey(t, a))
  ELSE IF ActiveByAgent(t, a) # {} THEN First(ActiveByAgent(t, a))
  ELSE 0

Own(t, inst, i) == t[i].instance = inst

(* reserveInTransaction does not throw.  The last conjunct is the bound on *)
(* the table, a table that is full admits nobody.                          *)
MayReserve(t, limits, inst, a) ==
  LET i == Existing(t, a) IN
  IF i # 0
    THEN Own(t, inst, i) /\ t[i].state # "recovery_blocked"
    ELSE ~Full(t, limits, WorkspaceOf[a]) /\ Len(t) < MaxRows

ReserveId(t, a) == IF Existing(t, a) # 0 THEN Existing(t, a) ELSE Len(t) + 1

Reserve(t, inst, a) ==
  IF Existing(t, a) # 0 THEN t ELSE Append(t, NewReservation(inst, a))

-----------------------------------------------------------------------------
(* requireReserved *)
IsReserved(t, inst, i) == Own(t, inst, i) /\ t[i].state = "reserved"

BeginSpawn(t, i) == [t EXCEPT ![i].state = "spawn_pending"]

MayMarkStarted(t, inst, i, p) ==
  /\ Own(t, inst, i)
  /\ \/ t[i].state \in {"spawn_pending", "running"}
     \/ t[i].state = "released" /\ t[i].confirmed
  /\ t[i].run \in {0, p} /\ t[i].pid \in {0, p}

(* Mutant: the exit that came first is forgotten. *)
MarkStartedAlways(t, i, p) ==
  [t EXCEPT ![i].state = "running", ![i].run = p, ![i].pid = p]

(* The exit may have been confirmed before the start was registered. *)
MarkStarted(t, i, p) ==
  [t EXCEPT ![i].state = IF @ = "released" THEN "released" ELSE "running",
            ![i].run = p, ![i].pid = p]

(* Mutant: a state that the CHECK constraint does not know. *)
MarkRecoveryStopping(t, i) ==
  [t EXCEPT ![i].state = IF @ = "released" THEN "released" ELSE "stopping"]

MarkRecoveryBlocked(t, i) ==
  [t EXCEPT ![i].state = IF @ = "released" THEN "released" ELSE "recovery_blocked"]

(* Mutant: a row whose process may exist is released as well. *)
ReleaseUnspawnedAny(t, i) == [t EXCEPT ![i].state = "released"]

(* release with spawn_not_started: throws, and changes nothing, unless the *)
(* row is reserved or released.                                            *)
ReleaseUnspawned(t, i) ==
  [t EXCEPT ![i].state = IF @ = "reserved" THEN "released" ELSE @]

MatchesProcess(t, i, p) == t[i].run \in {0, p} /\ t[i].pid \in {0, p}

(* release with exit_confirmed, for the evidence of process p. *)
ReleaseExited(t, i) ==
  [t EXCEPT ![i].confirmed = @ \/ t[i].state # "released",
            ![i].state = "released"]

(* finishPreparation: the slot is kept for the terminal that follows. *)
MayFinishPreparation(t, inst, i, p) ==
  /\ Own(t, inst, i)
  /\ t[i].state \in {"spawn_pending", "running"}
  /\ MatchesProcess(t, i, p)

FinishPreparation(t, i) ==
  [t EXCEPT ![i].state = "reserved", ![i].run = 0, ![i].pid = 0]

-----------------------------------------------------------------------------
(* recover looks at the rows of other instances and at the blocked ones.   *)
(* absent are the rows whose pid the probe found absent.                   *)
Uncertain(t, inst) ==
  {i \in Active(t) : ~Own(t, inst, i) \/ t[i].state = "recovery_blocked"}

(* Mutant: without a process id there is nothing to wait for. *)
SafeWithoutPid(t, inst, i, absent) ==
  (~Own(t, inst, i) /\ t[i].state = "reserved") \/ i \in absent \/ t[i].pid = 0

Safe(t, inst, i, absent) ==
  (~Own(t, inst, i) /\ t[i].state = "reserved") \/ i \in absent

Recover(t, inst, absent) ==
  [i \in DOMAIN t |->
     IF i \notin Uncertain(t, inst) THEN t[i]
     ELSE IF Safe(t, inst, i, absent)
       THEN [t[i] EXCEPT !.state = "released", !.confirmed = FALSE]
       ELSE [t[i] EXCEPT !.state = "recovery_blocked"]]

(* adoptLegacyExecution for each of the processes that were started before *)
(* there were reservations; 0 is an instance that never ran.  The first    *)
(* one of an agent gets the agent's key.                                   *)
AdoptLegacy(runs) ==
  [p \in DOMAIN runs |->
     [instance |-> 0, agent |-> runs[p].agent,
      key |-> IF \E q \in DOMAIN runs : q < p /\ runs[q].agent = runs[p].agent
                THEN "legacy" ELSE "agent",
      state |-> "recovery_blocked", run |-> p,
      pid |-> IF runs[p].pid THEN p ELSE 0, confirmed |-> FALSE]]

=============================================================================
