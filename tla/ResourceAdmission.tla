-------------------------- MODULE ResourceAdmission --------------------------
(***************************************************************************)
(* Who may start a process, and when: the reservations                     *)
(* (ResourceBudgetStore), the launches of agent-runtime.ts,                *)
(* agent-run-starter.ts and agent-manager.ts with their capability         *)
(* (managed-execution.ts), and the durable queue of starts that found no   *)
(* slot (resource-start-queue.ts).                                         *)
(*                                                                         *)
(* The server is single-threaded: an action is the code between two        *)
(* awaits.  The drain of the queue is synchronous from one awaited start   *)
(* to the next, so while drain.phase is "run" only the drain moves; its    *)
(* visits to the queue's heads are separate actions because each is a      *)
(* transaction of its own and the server may die between them.             *)
(*                                                                         *)
(* Processes live in the operating system and survive the server or not.   *)
(***************************************************************************)
EXTENDS ResourceBudgetStore

CONSTANTS
  LegacyRuns,      \* processes older than the table: a sequence of [agent, pid]
  UsesHelper,      \* agents whose native session is prepared by a process
  Limits,          \* the limits a person may set
  MaxProcs,        \* bound: processes ever started, the legacy ones included
  MaxEntries,      \* bound: starts ever queued
  MaxRestarts,     \* bound: deaths of the server
  MaxLimitChanges  \* bound: changes of the limits

ASSUME AdmissionAssumption ==
  /\ LegacyRuns \in Seq([agent: Agents, pid: BOOLEAN])
  /\ Len(LegacyRuns) <= MaxRows /\ Len(LegacyRuns) <= MaxProcs
  /\ UsesHelper \subseteq Agents
  /\ Limits \subseteq [total: Nat \ {0}, workspace: Nat \ {0}]
  /\ MaxProcs \in Nat /\ MaxEntries \in Nat
  /\ MaxRestarts \in Nat /\ MaxLimitChanges \in Nat

VARIABLES
  rows,       \* resource_reservations
  limits,     \* resource_limits
  changes,    \* how often the limits changed
  queue,      \* resource_start_queue, in sequence order
  cursor,     \* resource_queue_cursor, 0 for NULL
  paused,     \* resource_agent_pauses: agents a person stopped
  instance,   \* runtimeInstanceId of the running server
  proc,       \* processes of the operating system, by process id
  launch,     \* startPromises, pendingExecutions and the live run of an agent
  drain,      \* local variables of drain()
  woken,      \* scheduled or wakeAgain: another drain will follow
  peak        \* history: the highest limits so far

durable == <<rows, limits, queue, cursor, paused>>
vars == <<rows, limits, changes, queue, cursor, paused, instance, proc, launch,
          drain, woken, peak>>

-----------------------------------------------------------------------------
Entries == DOMAIN queue
QueueEntry ==
  [agent: Agents, status: {"queued", "starting", "started", "failed", "cancelled"},
   row: 0..MaxRows]

(* exit: "no", then "cleaning" once the server saw the exit, then "done";  *)
(* watched: the server that started it still runs; stopping: was killed;   *)
(* entry: the queued start it belongs to, 0 for none.                      *)
Process ==
  [agent: Agents, row: 0..MaxRows, kind: {"pty", "helper", "legacy"},
   alive: BOOLEAN, watched: BOOLEAN, stopping: BOOLEAN,
   exit: {"no", "cleaning", "done"}, entry: Nat]

Pids == DOMAIN proc
Live(p) == proc[p].alive

(* preparing: before any spawn; helping: a preparation process runs;       *)
(* connecting: the terminal was spawned; failing: it was killed and its    *)
(* exit is awaited; running: the live run is registered.                   *)
Launch ==
  [phase: {"none", "preparing", "helping", "connecting", "failing", "running"},
   row: 0..MaxRows, proc: 0..MaxProcs, entry: Nat, aborted: BOOLEAN]

NoLaunch ==
  [phase |-> "none", row |-> 0, proc |-> 0, entry |-> 0, aborted |-> FALSE]

Running(a) == launch[a].phase = "running"
Pending(a) == launch[a].phase \notin {"none", "running"}

IsQueued(e) == e \in Entries /\ queue[e].status = "queued"
IsOpen(e) == queue[e].status \in {"queued", "starting"}
Workspace(e) == WorkspaceOf[queue[e].agent]

(* Nothing else runs while the drain does. *)
Idle == drain.phase # "run"

-----------------------------------------------------------------------------
(* The queue's heads: first queued entry of each workspace, in the order   *)
(* of the workspaces that begins after the cursor.                         *)
Heads == {e \in Entries : IsQueued(e) /\
            \A f \in Entries : IsQueued(f) /\ Workspace(f) = Workspace(e) => e <= f}

NoDrain == [phase |-> "idle", todo |-> {}, from |-> 0, blocked |-> {},
            progressed |-> FALSE, entry |-> 0]

(* Mutant: the order does not wrap around. *)
RoundUnwrapped(d) ==
  [d EXCEPT !.todo = {e \in Heads : Workspace(e) > cursor}, !.from = cursor,
            !.progressed = FALSE]

(* drain reads the heads and the cursor once for each round over them. *)
Round(d) == [d EXCEPT !.todo = Heads, !.from = cursor, !.progressed = FALSE]

(* The workspaces after the cursor come first, then those before it. *)
Before(from, v, w) ==
  IF v > from THEN w > v \/ w <= from ELSE v < w /\ w <= from

(* finish: a cancelled entry keeps its status. *)
Finish(q, e, status) ==
  [q EXCEPT ![e].status = IF @ = "cancelled" THEN @ ELSE status]

AwaitedBy(a) ==
  IF drain.phase = "await" /\ queue[drain.entry].agent = a THEN drain.entry ELSE 0

(* The start that the drain awaits for agent a, if any, ends with status. *)
Settle(a, status) ==
  IF AwaitedBy(a) = 0
    THEN UNCHANGED <<queue, drain>>
    ELSE /\ queue' = Finish(queue, AwaitedBy(a), status)
         /\ drain' = [drain EXCEPT !.phase = "run"]

(* The launch of agent a is rejected, the table being t: the drain that    *)
(* awaited it releases its reservation unless something was spawned.       *)
LaunchEnds(a, t) ==
  /\ launch' = [launch EXCEPT ![a] = NoLaunch]
  /\ rows' = IF AwaitedBy(a) = 0 THEN t
             ELSE ReleaseUnspawned(t, queue[AwaitedBy(a)].row)
  /\ Settle(a, "failed")

NewProcess(a, i, kind, e) ==
  [agent |-> a, row |-> i, kind |-> kind, alive |-> TRUE, watched |-> TRUE,
   stopping |-> FALSE, exit |-> "no", entry |-> e]

NewLaunch(i, e) == [NoLaunch EXCEPT !.phase = "preparing", !.row = i, !.entry = e]

-----------------------------------------------------------------------------
(* The start of agent a, from the request to the first await. *)

(* enqueue: an entry for the same execution key is returned if there is one. *)
Enqueue(q, a) ==
  IF \E e \in DOMAIN q : q[e].agent = a /\ q[e].status \in {"queued", "starting"}
    THEN q
    ELSE Append(q, [agent |-> a, status |-> "queued", row |-> 0])

(* startAgent of agent-runtime.ts goes on only with a row that is reserved. *)
StartsFresh(a) ==
  /\ MayReserve(rows, limits, instance, a)
  /\ LET i == ReserveId(rows, a) IN Reserve(rows, instance, a)[i].state = "reserved"

StartAgent(a) ==
  /\ Idle /\ ~Running(a) /\ ~Pending(a)
  /\ StartsFresh(a)
  /\ rows' = Reserve(rows, instance, a)
  /\ launch' = [launch EXCEPT ![a] = NewLaunch(ReserveId(rows, a), 0)]
  /\ paused' = paused \ {a}
  /\ UNCHANGED <<limits, changes, queue, cursor, instance, proc, drain, woken,
                 peak>>

(* No slot: a dispatch, a scenario and a recovery queue the start, a       *)
(* person's request only fails.                                            *)
StartRefused(a, enqueued) ==
  /\ Idle /\ ~Running(a) /\ ~Pending(a)
  /\ ~StartsFresh(a)
  /\ paused' = paused \ {a}
  /\ IF enqueued
       THEN /\ Len(queue) < MaxEntries
            /\ queue' = Enqueue(queue, a)
            /\ woken' = TRUE
       ELSE UNCHANGED <<queue, woken>>
  /\ UNCHANGED <<rows, limits, changes, cursor, instance, proc, launch, drain,
                 peak>>

(* The request joins the run or the launch that exists. *)
StartJoined(a) ==
  /\ Idle /\ (Running(a) \/ Pending(a)) /\ a \in paused
  /\ paused' = paused \ {a}
  /\ UNCHANGED <<rows, limits, changes, queue, cursor, instance, proc, launch,
                 drain, woken, peak>>

-----------------------------------------------------------------------------
(* A launch, from its preparation to the live run. *)

(* check(row) of the queue, which recheckRemoteAction calls for a launch   *)
(* that the queue began.                                                   *)
EntryActive(e) == e # 0 => queue[e].status \notin {"cancelled", "failed"}

(* Mutant: what was awaited is not checked again. *)
MaySpawnUnchecked(a) == launch[a].phase = "preparing" /\ Len(proc) < MaxProcs

(* recheckRemoteAction, assertReserved and beginSpawn, in one step. *)
MaySpawn(a) ==
  /\ launch[a].phase = "preparing" /\ Len(proc) < MaxProcs
  /\ EntryActive(launch[a].entry)
  /\ ~launch[a].aborted
  /\ IsReserved(rows, instance, launch[a].row)

Spawn(a) ==
  /\ Idle /\ MaySpawn(a)
  /\ rows' = BeginSpawn(rows, launch[a].row)
  /\ proc' = Append(proc, NewProcess(a, launch[a].row, "pty", launch[a].entry))
  /\ launch' = [launch EXCEPT ![a].phase = "connecting", ![a].proc = Len(proc) + 1]
  /\ UNCHANGED <<limits, changes, queue, cursor, paused, instance, drain, woken,
                 peak>>

(* spawn throws: spawnFailed is the evidence that there is no process. *)
SpawnThrows(a) ==
  /\ Idle /\ MaySpawn(a)
  /\ LET i == launch[a].row IN LaunchEnds(a, ReleaseExited(BeginSpawn(rows, i), i))
  /\ woken' = TRUE
  /\ UNCHANGED <<limits, changes, cursor, paused, instance, proc, peak>>

(* Policy, session, prompt or any of the checks before the spawn throws. *)
PreparationFails(a) ==
  /\ Idle /\ launch[a].phase = "preparing"
  /\ LaunchEnds(a, ReleaseUnspawned(rows, launch[a].row))
  /\ woken' = TRUE
  /\ UNCHANGED <<limits, changes, cursor, paused, instance, proc, peak>>

(* waitForPtyPid returns, the start is registered and the live run added.  *)
(* If the exit was seen meanwhile the run is complete at once, and the     *)
(* handler of the queue may find it in error.                              *)
Connected(a) ==
  LET p == launch[a].proc
      i == launch[a].row
      exited == proc[p].exit # "no"
  IN /\ Idle /\ launch[a].phase = "connecting"
     /\ MayMarkStarted(rows, instance, i, p)
     /\ rows' = MarkStarted(rows, i, p)
     /\ launch' = [launch EXCEPT ![a] =
          IF exited THEN NoLaunch ELSE [@ EXCEPT !.phase = "running"]]
     /\ \E status \in {"started", "failed"} :
          /\ ~exited => status = "started"
          /\ Settle(a, status)
     /\ UNCHANGED <<limits, changes, cursor, paused, instance, proc, woken,
                    peak>>

(* No pid in time, markStarted throws, or the run record cannot be written *)
(* (registered): the process is killed and its exit awaited.               *)
ConnectFails(a, registered) ==
  LET p == launch[a].proc
      i == launch[a].row
  IN /\ Idle /\ launch[a].phase = "connecting"
     /\ registered => MayMarkStarted(rows, instance, i, p)
     /\ rows' = IF registered THEN MarkStarted(rows, i, p) ELSE rows
     /\ launch' = [launch EXCEPT ![a].phase = "failing"]
     /\ proc' = [proc EXCEPT ![p].stopping = TRUE]
     /\ UNCHANGED <<limits, changes, queue, cursor, paused, instance, drain,
                    woken, peak>>

(* The kill itself throws: the row waits for a reconciliation or the exit. *)
KillFails(a) ==
  /\ Idle /\ launch[a].phase = "connecting" /\ Live(launch[a].proc)
  /\ LaunchEnds(a, MarkRecoveryBlocked(rows, launch[a].row))
  /\ UNCHANGED <<limits, changes, cursor, paused, instance, proc, woken, peak>>

LaunchFailed(a) ==
  /\ Idle /\ launch[a].phase = "failing" /\ proc[launch[a].proc].exit = "done"
  /\ LaunchEnds(a, rows)
  /\ UNCHANGED <<limits, changes, cursor, paused, instance, proc, woken, peak>>

-----------------------------------------------------------------------------
(* The process that prepares a native session inside the slot. *)

HelperSpawn(a) ==
  /\ Idle /\ a \in UsesHelper /\ MaySpawn(a)
  /\ rows' = BeginSpawn(rows, launch[a].row)
  /\ proc' = Append(proc, NewProcess(a, launch[a].row, "helper", launch[a].entry))
  /\ launch' = [launch EXCEPT ![a].phase = "helping", ![a].proc = Len(proc) + 1]
  /\ UNCHANGED <<limits, changes, queue, cursor, paused, instance, drain, woken,
                 peak>>

HelperStarted(a) ==
  LET p == launch[a].proc IN
  /\ Idle /\ launch[a].phase = "helping" /\ rows[launch[a].row].state = "spawn_pending"
  /\ MayMarkStarted(rows, instance, launch[a].row, p)
  /\ rows' = MarkStarted(rows, launch[a].row, p)
  /\ UNCHANGED <<limits, changes, queue, cursor, paused, instance, proc, launch,
                 drain, woken, peak>>

(* It gave its answer, failed, timed out or was aborted; it is killed. *)
HelperStopped(a) ==
  /\ Idle /\ launch[a].phase = "helping" /\ ~proc[launch[a].proc].stopping
  /\ proc' = [proc EXCEPT ![launch[a].proc].stopping = TRUE]
  /\ UNCHANGED <<rows, limits, changes, queue, cursor, paused, instance, launch,
                 drain, woken, peak>>

(* Its close event: the slot goes back to the launch, which goes on if the *)
(* preparation succeeded.                                                  *)
HelperClosed(a, succeeded) ==
  LET p == launch[a].proc
      i == launch[a].row
  IN /\ Idle /\ launch[a].phase = "helping" /\ ~Live(p)
     /\ rows[i].state = "running"
     /\ MayFinishPreparation(rows, instance, i, p)
     /\ succeeded => ~launch[a].aborted
     /\ proc' = [proc EXCEPT ![p].exit = "done"]
     /\ IF succeeded
          THEN /\ rows' = FinishPreparation(rows, i)
               /\ launch' = [launch EXCEPT ![a].phase = "preparing", ![a].proc = 0]
               /\ UNCHANGED <<queue, drain, woken>>
          ELSE /\ LaunchEnds(a, ReleaseUnspawned(FinishPreparation(rows, i), i))
               /\ woken' = TRUE
     /\ UNCHANGED <<limits, changes, cursor, paused, instance, peak>>

(* Its end cannot be confirmed. *)
HelperUnconfirmed(a) ==
  /\ Idle /\ launch[a].phase = "helping" /\ ~Live(launch[a].proc)
  /\ proc' = [proc EXCEPT ![launch[a].proc].exit = "done"]
  /\ LaunchEnds(a, MarkRecoveryBlocked(rows, launch[a].row))
  /\ UNCHANGED <<limits, changes, cursor, paused, instance, woken, peak>>

-----------------------------------------------------------------------------
(* Exits. *)

ProcessDies(p) ==
  /\ Live(p)
  /\ proc' = [proc EXCEPT ![p].alive = FALSE]
  /\ UNCHANGED <<rows, limits, changes, queue, cursor, paused, instance, launch,
                 drain, woken, peak>>

(* onExit of the terminal: the run is complete, its cleanup begins. *)
NativeExit(p) ==
  LET a == proc[p].agent IN
  /\ Idle /\ proc[p].kind = "pty" /\ proc[p].watched /\ ~Live(p)
  /\ proc[p].exit = "no"
  /\ proc' = [proc EXCEPT ![p].exit = "cleaning"]
  /\ launch' = IF Running(a) /\ launch[a].proc = p
                 THEN [launch EXCEPT ![a] = NoLaunch] ELSE launch
  /\ UNCHANGED <<rows, limits, changes, queue, cursor, paused, instance, drain,
                 woken, peak>>

Cleaning(p) == proc[p].kind = "pty" /\ proc[p].watched /\ proc[p].exit = "cleaning"

(* confirmExit after the cleanup. *)
ConfirmExit(p) ==
  LET i == proc[p].row IN
  /\ Idle /\ Cleaning(p)
  /\ Own(rows, instance, i) /\ MatchesProcess(rows, i, p)
  /\ proc' = [proc EXCEPT ![p].exit = "done"]
  /\ rows' = ReleaseExited(rows, i)
  /\ woken' = TRUE
  /\ UNCHANGED <<limits, changes, queue, cursor, paused, instance, launch, drain,
                 peak>>

(* The cleanup or the release throws. *)
CleanupFails(p) ==
  /\ Idle /\ Cleaning(p)
  /\ proc' = [proc EXCEPT ![p].exit = "done"]
  /\ rows' = MarkRecoveryBlocked(rows, proc[p].row)
  /\ UNCHANGED <<limits, changes, queue, cursor, paused, instance, launch, drain,
                 woken, peak>>

-----------------------------------------------------------------------------
(* The drain of the queue. *)

DrainStarts ==
  /\ drain.phase = "idle" /\ woken
  /\ drain' = Round([NoDrain EXCEPT !.phase = "run"])
  /\ woken' = FALSE
  /\ UNCHANGED <<rows, limits, changes, queue, cursor, paused, instance, proc,
                 launch, peak>>

DrainPassEnds ==
  /\ drain.phase = "run" /\ drain.todo = {}
  /\ drain' = IF drain.progressed THEN Round(drain) ELSE NoDrain
  /\ UNCHANGED <<rows, limits, changes, queue, cursor, paused, instance, proc,
                 launch, woken, peak>>

Visiting(e) ==
  /\ drain.phase = "run" /\ e \in drain.todo
  /\ \A f \in drain.todo \ {e} : Before(drain.from, Workspace(e), Workspace(f))

Admissible(e) == MayReserve(rows, limits, instance, queue[e].agent)

(* The head waited in this drain already, or no slot is free for it. *)
VisitWaits(e) ==
  /\ Visiting(e)
  /\ \/ e \in drain.blocked
     \/ EntryActive(e) /\ ~Admissible(e)
  /\ drain' = [drain EXCEPT !.todo = @ \ {e}]
  /\ UNCHANGED <<rows, limits, changes, queue, cursor, paused, instance, proc,
                 launch, woken, peak>>

(* It was cancelled while an earlier head was started. *)
VisitStale(e) ==
  /\ Visiting(e) /\ e \notin drain.blocked /\ ~EntryActive(e)
  /\ drain' = [drain EXCEPT !.todo = @ \ {e}, !.progressed = TRUE]
  /\ UNCHANGED <<rows, limits, changes, queue, cursor, paused, instance, proc,
                 launch, woken, peak>>

(* The head is claimed, its reservation made, the cursor moved and its     *)
(* handler runs up to its first await.                                     *)
VisitClaims(e) ==
  LET a  == queue[e].agent
      i  == ReserveId(rows, a)
      t  == Reserve(rows, instance, a)
      q  == [queue EXCEPT ![e].status = "starting", ![e].row = i]
      d  == [drain EXCEPT !.todo = @ \ {e}, !.progressed = TRUE, !.entry = e]
  IN /\ Visiting(e) /\ e \notin drain.blocked /\ EntryActive(e) /\ Admissible(e)
     /\ cursor' = Workspace(e)
     /\ \/ /\ a \in paused       \* a person stopped the agent
           /\ rows' = ReleaseUnspawned(t, i) /\ woken' = TRUE
           /\ queue' = Finish(q, e, "failed") /\ drain' = d
           /\ UNCHANGED launch
        \/ /\ a \notin paused /\ Running(a)
           /\ rows' = t
           /\ queue' = Finish(q, e, "started") /\ drain' = d
           /\ UNCHANGED <<launch, woken>>
        \/ /\ a \notin paused /\ Pending(a)
           /\ rows' = t /\ queue' = q /\ drain' = [d EXCEPT !.phase = "await"]
           /\ UNCHANGED <<launch, woken>>
        \/ /\ a \notin paused /\ ~Running(a) /\ ~Pending(a) /\ t[i].state # "reserved"
           /\ rows' = t         \* its last process is still being cleaned up
           /\ queue' = Finish(q, e, "queued")
           /\ drain' = [d EXCEPT !.blocked = @ \cup {e}]
           /\ UNCHANGED <<launch, woken>>
        \/ /\ a \notin paused /\ ~Running(a) /\ ~Pending(a) /\ t[i].state = "reserved"
           /\ rows' = t /\ queue' = q /\ drain' = [d EXCEPT !.phase = "await"]
           /\ launch' = [launch EXCEPT ![a] = NewLaunch(i, e)]
           /\ UNCHANGED woken
     /\ UNCHANGED <<limits, changes, paused, instance, proc, peak>>

(* The interval of two seconds. *)
WaitTimer ==
  /\ Idle /\ ~woken
  /\ woken' = TRUE
  /\ UNCHANGED <<rows, limits, changes, queue, cursor, paused, instance, proc,
                 launch, drain, peak>>

-----------------------------------------------------------------------------
(* What a person does. *)

(* Mutant: the signal is set but nothing listens to it. *)
AbortUnheard(a, t) ==
  IF ~Pending(a) THEN rows' = t /\ UNCHANGED <<launch, proc>>
  ELSE /\ launch' = [launch EXCEPT ![a].aborted = TRUE]
       /\ rows' = IF launch[a].phase = "preparing"
                    THEN ReleaseUnspawned(t, launch[a].row) ELSE t
       /\ UNCHANGED proc

(* cancelPendingStart, the table being t: the abort signal stops what was  *)
(* spawned, cancelBeforeSpawn releases what was not.                       *)
Abort(a, t) ==
  IF ~Pending(a) THEN rows' = t /\ UNCHANGED <<launch, proc>>
  ELSE /\ launch' = [launch EXCEPT ![a].aborted = TRUE]
       /\ IF launch[a].phase = "preparing"
            THEN rows' = ReleaseUnspawned(t, launch[a].row) /\ UNCHANGED proc
            ELSE rows' = t /\ proc' = [proc EXCEPT ![launch[a].proc].stopping = TRUE]

OpenEntries(a) == {e \in Entries : queue[e].agent = a /\ IsOpen(e)}

(* The queue's cancel for each open entry of agent a. *)
CancelEntries(a) ==
  /\ queue' = [e \in Entries |-> IF e \in OpenEntries(a)
                 THEN [queue[e] EXCEPT !.status = "cancelled"] ELSE queue[e]]
  /\ Abort(a, [i \in DOMAIN rows |->
               IF \E e \in OpenEntries(a) : queue[e].row = i
                 THEN ReleaseUnspawned(rows, i)[i] ELSE rows[i]])

(* cancel: by a person, who pauses the agent, or because its dispatch was  *)
(* cancelled.  An agent has at most one open entry.                        *)
Cancel(e, pauseAgent) ==
  /\ Idle /\ e \in Entries /\ IsOpen(e)
  /\ CancelEntries(queue[e].agent)
  /\ paused' = IF pauseAgent THEN paused \cup {queue[e].agent} ELSE paused
  /\ woken' = TRUE
  /\ UNCHANGED <<limits, changes, cursor, instance, drain, peak>>

(* The route that cancels a reservation: cancelPendingAgentStart. *)
CancelReservation(a) ==
  /\ Idle /\ \E i \in ActiveByAgent(rows, a) : IsReserved(rows, instance, i)
  /\ CancelEntries(a)
  /\ paused' = paused \cup {a}
  /\ woken' = TRUE
  /\ UNCHANGED <<limits, changes, cursor, instance, drain, peak>>

(* stopTerminalRun for the run of an agent. *)
StopRun(a) ==
  /\ Idle /\ Running(a) /\ ~proc[launch[a].proc].stopping
  /\ queue' = [e \in Entries |-> IF e \in OpenEntries(a)
                 THEN [queue[e] EXCEPT !.status = "cancelled"] ELSE queue[e]]
  /\ proc' = [proc EXCEPT ![launch[a].proc].stopping = TRUE]
  /\ paused' = paused \cup {a}
  /\ woken' = (woken \/ OpenEntries(a) # {})
  /\ UNCHANGED <<rows, limits, changes, cursor, instance, launch, drain, peak>>

Highest(m, n) == IF m < n THEN n ELSE m

UpdateLimits(new) ==
  /\ Idle /\ changes < MaxLimitChanges /\ new # limits
  /\ limits' = new
  /\ changes' = changes + 1
  /\ peak' = [total |-> Highest(peak.total, new.total),
              workspace |-> Highest(peak.workspace, new.workspace)]
  /\ woken' = TRUE
  /\ UNCHANGED <<rows, queue, cursor, paused, instance, proc, launch, drain>>

(* What the probe may find absent: rows whose process is known and gone.   *)
(* A dead process may still look alive, its id having been reused.         *)
Absent(t, inst, processes) ==
  {i \in Uncertain(t, inst) : t[i].pid # 0 /\ ~processes[t[i].pid].alive}

Reconcile ==
  /\ Idle
  /\ \E absent \in SUBSET Absent(rows, instance, proc) :
       rows' = Recover(rows, instance, absent)
  /\ woken' = TRUE
  /\ UNCHANGED <<limits, changes, queue, cursor, paused, instance, proc, launch,
                 drain, peak>>

-----------------------------------------------------------------------------
(* The server dies at any point and is started again.  Its processes       *)
(* survive or not.                                                         *)

(* Mutant: a claim that was interrupted is left as it is. *)
RequeueNothing(q) == q

(* createResourceStartQueue *)
Requeue(q) ==
  [e \in DOMAIN q |-> IF q[e].status = "starting"
                       THEN [q[e] EXCEPT !.status = "queued"] ELSE q[e]]

Restart ==
  /\ instance <= MaxRestarts
  /\ instance' = instance + 1
  /\ \E survivors \in SUBSET {p \in Pids : Live(p)} :
       proc' = [p \in Pids |->
         [proc[p] EXCEPT !.alive = p \in survivors, !.watched = FALSE]]
  /\ \E absent \in SUBSET Absent(rows, instance + 1, proc') :
       rows' = Recover(rows, instance + 1, absent)
  /\ queue' = Requeue(queue)
  /\ launch' = [a \in Agents |-> NoLaunch]
  /\ drain' = NoDrain
  /\ woken' = TRUE
  /\ UNCHANGED <<limits, changes, cursor, paused, peak>>

(* The first server that knows reservations has just recovered. *)
Init ==
  /\ limits \in Limits
  /\ changes = 0
  /\ queue = <<>>
  /\ cursor = 0
  /\ paused = {}
  /\ instance = 1
  /\ \E survivors \in SUBSET DOMAIN LegacyRuns :
       proc = [p \in DOMAIN LegacyRuns |->
         [agent |-> LegacyRuns[p].agent, row |-> p, kind |-> "legacy",
          alive |-> p \in survivors, watched |-> FALSE, stopping |-> FALSE,
          exit |-> "no", entry |-> 0]]
  /\ \E absent \in SUBSET Absent(AdoptLegacy(LegacyRuns), 1, proc) :
       rows = Recover(AdoptLegacy(LegacyRuns), 1, absent)
  /\ launch = [a \in Agents |-> NoLaunch]
  /\ drain = NoDrain
  /\ woken = FALSE
  /\ peak = limits

LaunchNext(a) ==
  \/ Spawn(a) \/ SpawnThrows(a) \/ PreparationFails(a) \/ HelperSpawn(a)
  \/ HelperStarted(a) \/ HelperStopped(a) \/ HelperUnconfirmed(a)
  \/ \E succeeded \in BOOLEAN : HelperClosed(a, succeeded)
  \/ Connected(a) \/ KillFails(a) \/ LaunchFailed(a)
  \/ \E registered \in BOOLEAN : ConnectFails(a, registered)

ExitNext(p) == NativeExit(p) \/ ConfirmExit(p) \/ CleanupFails(p)

DrainNext ==
  \/ DrainStarts \/ DrainPassEnds \/ WaitTimer
  \/ \E e \in Entries : VisitWaits(e) \/ VisitStale(e) \/ VisitClaims(e)

RequestNext ==
  \/ \E a \in Agents :
       \/ StartAgent(a) \/ StartJoined(a) \/ CancelReservation(a) \/ StopRun(a)
       \/ \E enqueued \in BOOLEAN : StartRefused(a, enqueued)
  \/ \E e \in Entries, pauseAgent \in BOOLEAN : Cancel(e, pauseAgent)
  \/ \E new \in Limits : UpdateLimits(new)
  \/ Reconcile

Next ==
  \/ \E a \in Agents : LaunchNext(a)
  \/ \E p \in Pids : ProcessDies(p) \/ ExitNext(p)
  \/ DrainNext \/ RequestNext \/ Restart

Spec == Init /\ [][Next]_vars

(* A launch, or the exit of a process, has a callback that is ready.       *)
LaunchReady(a) ==
  /\ Idle
  /\ \/ launch[a].phase \in {"preparing", "connecting"}
     \/ launch[a].phase = "failing" /\ proc[launch[a].proc].exit = "done"
     \/ launch[a].phase = "helping" /\ (~proc[launch[a].proc].stopping \/ ~Live(launch[a].proc))

ExitReady(p) ==
  /\ Idle /\ p \in Pids
  /\ proc[p].kind = "pty" /\ proc[p].watched
  /\ \/ Cleaning(p)
     \/ proc[p].exit = "no" /\ ~Live(p)

(* The event loop runs what is ready: every awaited preparation, helper    *)
(* and cleanup ends, the drain and its timer go on, and a process that was *)
(* killed (SIGKILL follows SIGTERM) dies.  People and agents owe nothing.  *)
(* Fairness is strong where a callback that is ready is put off while the  *)
(* drain has the thread: the event loop comes back to it.  It is written   *)
(* out, because ENABLED of these actions is slow to evaluate.              *)
Fairness ==
  /\ WF_vars(DrainNext)
  /\ \A a \in Agents : ([]<>LaunchReady(a)) => ([]<><<LaunchNext(a)>>_vars)
  /\ \A p \in 1..MaxProcs :
       /\ ([]<>ExitReady(p)) => ([]<><<p \in Pids /\ ExitNext(p)>>_vars)
       /\ WF_vars(p \in Pids /\ proc[p].stopping /\ proc[p].watched /\ ProcessDies(p))

FairSpec == Spec /\ Fairness

-----------------------------------------------------------------------------
(* Properties. *)

TypeOK ==
  /\ rows \in Seq(Reservation) /\ Len(rows) <= MaxRows
  /\ limits \in Limits
  /\ changes \in 0..MaxLimitChanges
  /\ queue \in Seq(QueueEntry) /\ Len(queue) <= MaxEntries
  /\ cursor \in Workspaces \cup {0}
  /\ paused \subseteq Agents
  /\ instance \in 1..(MaxRestarts + 1)
  /\ proc \in Seq(Process) /\ Len(proc) <= MaxProcs
  /\ launch \in [Agents -> Launch]
  /\ drain \in [phase: {"idle", "run", "await"}, todo: SUBSET (1..MaxEntries),
                from: Workspaces \cup {0}, blocked: SUBSET (1..MaxEntries), progressed: BOOLEAN,
                entry: 0..MaxEntries]
  /\ woken \in BOOLEAN
  /\ peak \in [total: Nat, workspace: Nat]

Managed == {p \in Pids : Live(p) /\ proc[p].kind # "legacy"}

(* No agent has two living processes, whatever died, was cancelled or came *)
(* back between their starts: while one may live its agent's row is not    *)
(* released, and reserve refuses or shares that row.                       *)
(* (resource-budget-store.ts:207-229, resource_execution_active)           *)
OneProcessPerAgent ==
  \A p \in Managed : \A q \in Pids :
    Live(q) /\ proc[q].agent = proc[p].agent => p = q

(* Every living process is counted: its row is one of those that occupy a  *)
(* slot, and is past "reserved", the state that recovery and cancellation  *)
(* release without asking whether a process exists.                        *)
(* (resource-budget-store.ts:309-313, 350-356, finishPreparation)          *)
LivingProcessHoldsSlot ==
  \A p \in Pids : Live(p) => rows[proc[p].row].state \notin {"reserved", "released"}

(* Over all instances, the processes alive never exceed the highest limits *)
(* that were ever set, in total and in each workspace.  Lowering a limit   *)
(* stops nobody.  (reserveInTransaction, 230-237)                          *)
LivingWithinLimits ==
  /\ Cardinality(Managed) <= peak.total
  /\ \A w \in Workspaces :
       Cardinality({p \in Managed : WorkspaceOf[proc[p].agent] = w}) <= peak.workspace

(* A released slot is never taken back: an exit that is confirmed before   *)
(* its start is registered stays confirmed.  (markStarted, 267-282)        *)
ReleasedIsFinal ==
  [][\A i \in DOMAIN rows : rows[i].state = "released" => rows'[i].state = "released"]_vars

(* A start that was cancelled while it was prepared spawns nothing more,   *)
(* neither its helper nor its terminal.                                    *)
(* (recheckRemoteAction in agent-run-starter.ts:247, assertReserved)       *)
CancelledStartsSpawnNothing ==
  [][\A p \in DOMAIN proc' \ DOMAIN proc :
      proc'[p].entry # 0 => queue[proc'[p].entry].status # "cancelled"]_vars

(* A claim never sticks, crashes included: the start ends, or the entry is *)
(* queued again by the next server.  (drain, and the update at line 96)    *)
ClaimsEnd == ~<>[](\E e \in Entries : queue[e].status = "starting")

(* A start at the head of its workspace for which there is room is claimed *)
(* in the end: no wake-up is lost for good.  (wake and waitTimer, 216-241) *)
HeadsAreServed == ~<>[](\E e \in Heads : Admissible(e))

(* A cancelled start leaves no process behind, also when it was spawned    *)
(* before the cancellation, unless the server that would stop it died.     *)
(* (cancel, resource-start-queue.ts:243-272, and stopOnAbort in            *)
(* agent-manager.ts)                                                       *)
OutlivesCancellation(p) ==
  /\ p \in Pids /\ Live(p) /\ proc[p].watched
  /\ proc[p].entry # 0 /\ queue[proc[p].entry].status = "cancelled"

CancelledStartsDie ==
  \A p \in 1..MaxProcs : ~<>[]OutlivesCancellation(p)

=============================================================================
