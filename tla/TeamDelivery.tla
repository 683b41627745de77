---------------------------- MODULE TeamDelivery ----------------------------
(***************************************************************************)
(* Delivery of dispatches, reports, messages and cancellation notices to   *)
(* the terminals of CLI agents: team-delivery-runtime.ts with the parts of *)
(* team-operations.ts, dispatch-ledger-store.ts, report-outbox-store.ts,   *)
(* codex-report-delivery.ts and codex-initial-dispatch.ts that change the  *)
(* state it works on.                                                      *)
(*                                                                         *)
(* The server is one JavaScript thread, so an action is the code between   *)
(* two awaits, and a crash may come between any two actions.  A terminal   *)
(* write first commits its intent to SQLite and then hands the bytes to    *)
(* the PTY: one action, with a second one for a crash between the two.     *)
(*                                                                         *)
(* Persistent state: deliveries, ledger, outbox, manualStop.               *)
(* In memory: active, starting, sending, run, closing.                     *)
(* Environment: journal (what the recipient's own session file records).   *)
(* History: copies, and the counters that bound a behaviour.               *)
(***************************************************************************)
EXTENDS MessageDeliveryStore, FiniteSets

CONSTANTS
  Orchestrator,
  Adapter,           \* Adapter[a]: the input adapter of agent a's CLI
  Assignee,          \* Assignee[d]: toAgentId of dispatch d
  Protocol,          \* Protocol[d]: messageProtocolVersion of dispatch d
  OrchestratorSends, \* the dispatches whose fromAgentId is set
  RemoteSends,       \* the dispatches sent with a remote device's grant
  StartsRunning,     \* the agents that run when a behaviour begins
  Stopping,          \* bound: the agents whose runs may end before a restart
  MaxRuns,           \* bound: starts of one agent
  MaxSubmits,        \* Enter presses per paste; MAX_SUBMITS = 3 in the code
  MaxResends,        \* bound: explicit resends
  MaxRevisions,      \* bound: reports of one dispatch
  MaxRestarts        \* bound: restarts of the server

Workers == Agents \ {Orchestrator}

ASSUME DeliveryAssumption ==
  /\ Orchestrator \in Agents
  /\ Adapter \in [Agents -> {"codex", "claude", "native"}]
  /\ Assignee \in [Dispatches -> Workers]
  /\ Protocol \in [Dispatches -> {0, 1}]
  /\ OrchestratorSends \subseteq Dispatches
  /\ RemoteSends \subseteq Dispatches
  /\ StartsRunning \subseteq Agents /\ Stopping \subseteq Agents
  /\ {MaxRuns, MaxSubmits, MaxResends, MaxRevisions, MaxRestarts} \subseteq Nat

VARIABLES
  deliveries,  \* the table message_deliveries
  ledger,      \* dispatches joined with dispatch_delivery_failures
  outbox,      \* report_outbox, at most one entry per dispatch
  manualStop,  \* the agents a person stopped (resource_agent_pauses)
  run,         \* live run of each agent, 0 when it has none
  starts,      \* runs started so far; the ids of runs
  active,      \* the map "active": attempts in progress, by row
  starting,    \* Codex launches that carry an initial dispatch
  sending,     \* dispatchTask calls awaiting the start of the worker
  closing,     \* close() was called
  journal,     \* rows whose marker the recipient journaled since the last copy
  copies,      \* history: copies of a row put into a terminal since a resend
  resends, restarts

persistent == <<deliveries, ledger, outbox, manualStop>>
memory == <<run, starts, active, starting, sending, closing>>
history == <<copies, resends, restarts>>
vars == <<persistent, memory, journal, history>>

-----------------------------------------------------------------------------
(* Types *)

LedgerStatus == {"none", "queued", "submitted", "reported", "cancelled"}
LedgerRecord ==
  [status: LedgerStatus,
   failed: BOOLEAN,          \* a row of dispatch_delivery_failures exists
   revision: Nat,            \* report_revision
   row: 0..MaxRows]          \* its delivery row: message_deliveries.id = dispatch id

OutboxRecord ==
  [receipt: 0..MaxRows,      \* receipt_id: the report's delivery row, 0 if no entry
   delivered: BOOLEAN,       \* delivered_at is set
   revision: Nat]            \* the report revision whose payload the entry holds

Attempt ==
  [phase: {"none", "claimed", "pasted"}, attempt: Nat, run: Nat,
   aborted: BOOLEAN, submits: Nat]
NoAttempt == [phase |-> "none", attempt |-> 0, run |-> 0, aborted |-> FALSE, submits |-> 0]

NotStarting == [phase |-> "none", row |-> 0, attempt |-> 0]
Starting ==
  {NotStarting} \cup [phase: {"prepared", "claimed", "spawned"}, row: RowIds, attempt: Nat]

TypeOK ==
  /\ deliveries \in [RowIds -> DeliveryRecord]
  /\ ledger \in [Dispatches -> LedgerRecord]
  /\ outbox \in [Dispatches -> OutboxRecord]
  /\ manualStop \subseteq Agents
  /\ run \in [Agents -> Nat] /\ starts \in [Agents -> Nat]
  /\ active \in [RowIds -> Attempt]
  /\ starting \in [Workers -> Starting]
  /\ sending \subseteq Dispatches
  /\ closing \in BOOLEAN
  /\ journal \subseteq RowIds
  /\ copies \in [RowIds -> Nat]
  /\ resends \in Nat /\ restarts \in Nat

-----------------------------------------------------------------------------
(* Reading the state *)

(* toRecord: a delivery failure hides the stored status. *)
Status(d) == IF ledger[d].failed THEN "failed" ELSE ledger[d].status

(* The conditions the code writes on the stored and on the read status. *)
IsOpen(d) == ledger[d].status \in {"queued", "submitted"}
IsClosed(d) == Status(d) \in {"reported", "cancelled"}
Undelivered(d) == Status(d) \in {"queued", "failed"}

(* The row that the next INSERT creates. *)
Fresh(n) ==
  /\ deliveries[n].state = "absent"
  /\ \A m \in 1..(n - 1) : deliveries[m].state # "absent"

Live(a) == run[a] # 0

(* The agent's process exists, so its token is valid and it may call in. *)
Running(w) == Live(w) \/ starting[w].phase = "spawned"

Owned(i) == OwnsAttempt(deliveries, i, active[i].attempt)

(* listPending(...).find(entry.receiptId = i) *)
HasEntry(i) ==
  \E d \in Dispatches : outbox[d].receipt = i /\ ~outbox[d].delivered

(* The check that withAdditionalActionCheck runs before every input.       *)
MayInput(i) ==
  /\ ~closing /\ ~active[i].aborted
  /\ deliveries[i].kind \in {"dispatch", "message"} => ~IsClosed(deliveries[i].dispatch)

Abort(i) ==
  IF active[i].phase = "none" THEN active ELSE [active EXCEPT ![i].aborted = TRUE]

-----------------------------------------------------------------------------
(* Writes that several operations share *)

MarkSubmitted(d) == [ledger EXCEPT ![d].status = "submitted", ![d].failed = FALSE]
MarkDeliveryFailed(d) == [ledger EXCEPT ![d].failed = TRUE]

LedgerAccepted(i) ==
  LET d == deliveries[i].dispatch
  IN IF deliveries[i].kind = "dispatch" /\ Undelivered(d) THEN MarkSubmitted(d) ELSE ledger

(* Mutants: only the attempt itself settles the entry; the entry is found  *)
(* by its dispatch instead of its receipt.                                 *)
OutboxAcceptedByAttempt(i) ==
  IF deliveries[i].kind = "report" /\ active[i].phase # "none"
    THEN [d \in Dispatches |-> IF outbox[d].receipt = i
                                 THEN [outbox[d] EXCEPT !.delivered = TRUE]
                                 ELSE outbox[d]]
    ELSE outbox

OutboxAcceptedByDispatch(i) ==
  IF deliveries[i].kind = "report"
    THEN [outbox EXCEPT ![deliveries[i].dispatch].delivered = TRUE]
    ELSE outbox

OutboxAccepted(i) ==
  IF deliveries[i].kind = "report"
    THEN [d \in Dispatches |-> IF outbox[d].receipt = i
                                 THEN [outbox[d] EXCEPT !.delivered = TRUE]
                                 ELSE outbox[d]]
    ELSE outbox

(* persistAccepted *)
PersistAccepted(i) == ledger' = LedgerAccepted(i) /\ outbox' = OutboxAccepted(i)

(* Mutants: a failure is stored on a closed dispatch; none is stored. *)
LedgerAfterAnyFailure(i) ==
  IF deliveries[i].kind = "dispatch"
    THEN MarkDeliveryFailed(deliveries[i].dispatch) ELSE ledger

LedgerAfterSilentFailure(i) == ledger

(* The catch and finally of an attempt. *)
LedgerAfterFailure(i) ==
  LET d == deliveries[i].dispatch
  IN IF deliveries[i].kind = "dispatch" /\ IsOpen(d) THEN MarkDeliveryFailed(d) ELSE ledger

(* Mutant: an attempt that lost its row returns without the cleanup. *)
FailOwnedAttempt(t, i, terminal) ==
  /\ deliveries' = Failed(t, i, active[i].attempt, terminal)
  /\ ledger' = LedgerAfterFailure(i)
  /\ active' = IF Owned(i) THEN [active EXCEPT ![i] = NoAttempt] ELSE active

FailAttempt(t, i, terminal) ==
  /\ deliveries' = Failed(t, i, active[i].attempt, terminal)
  /\ ledger' = LedgerAfterFailure(i)
  /\ active' = [active EXCEPT ![i] = NoAttempt]

-----------------------------------------------------------------------------
Init ==
  /\ deliveries = [i \in RowIds |-> NoDelivery]
  /\ ledger = [d \in Dispatches |->
                 [status |-> "none", failed |-> FALSE, revision |-> 0, row |-> 0]]
  /\ outbox = [d \in Dispatches |->
                 [receipt |-> 0, delivered |-> FALSE, revision |-> 0]]
  /\ manualStop = {}
  /\ run = [a \in Agents |-> IF a \in StartsRunning THEN 1 ELSE 0]
  /\ starts = run
  /\ active = [i \in RowIds |-> NoAttempt]
  /\ starting = [w \in Workers |-> NotStarting]
  /\ sending = {}
  /\ closing = FALSE
  /\ journal = {}
  /\ copies = [i \in RowIds |-> 0]
  /\ resends = 0 /\ restarts = 0

-----------------------------------------------------------------------------
(* The scheduler and the attempts it starts *)

(* deliver, called by tick, by a replay after a start and by drainReports. *)
Deliver(i) ==
  LET r == deliveries[i].recipient
  IN /\ ~closing
     /\ active[i].phase = "none"
     /\ CanClaim(deliveries, i)
     /\ Live(r) /\ r \notin manualStop
     /\ deliveries' = Claim(deliveries, i)
     /\ active' = [active EXCEPT ![i] = [NoAttempt EXCEPT !.phase = "claimed",
                                           !.attempt = deliveries[i].attempt + 1,
                                           !.run = run[r]]]
     /\ UNCHANGED <<ledger, outbox, manualStop, run, starts, starting, sending, closing,
                    journal, history>>

(* The recipient's composer is empty and the attempt commits its intent to *)
(* write.  A terminal without receipts is checked before that; a Codex     *)
(* attempt saves its checkpoint first and meets the deadline, the abort    *)
(* signal, foreign input and the check of MayInput only inside writeInput. *)
CanWrite(i) ==
  /\ active[i].phase = "claimed"
  /\ Owned(i)
  /\ run[deliveries[i].recipient] = active[i].run
  /\ deliveries[i].kind = "report" => HasEntry(i)
  /\ \/ Adapter[deliveries[i].recipient] = "codex"
     \/ Adapter[deliveries[i].recipient] = "claude" /\ MayInput(i)

WriteIntent(i) ==
  IF Adapter[deliveries[i].recipient] = "codex"
    THEN SaveCheckpoint(deliveries, i) ELSE BeforeWrite(deliveries, i)

(* Entries of a journal before the offset in a checkpoint are not read.    *)
JournalAfterIntent(i) ==
  IF Adapter[deliveries[i].recipient] = "codex" THEN journal \ {i} ELSE journal

WriteInput(i) ==
  /\ CanWrite(i) /\ MayInput(i)
  /\ deliveries' = WriteIntent(i)
  /\ active' = [active EXCEPT ![i].phase = "pasted"]
  /\ copies' = [copies EXCEPT ![i] = @ + 1]
  /\ journal' = JournalAfterIntent(i)
  /\ UNCHANGED <<ledger, outbox, manualStop, run, starts, starting, sending, closing,
                 resends, restarts>>

WriteRejected(i) ==
  /\ CanWrite(i)
  /\ Adapter[deliveries[i].recipient] = "codex"
  /\ FailAttempt(WriteIntent(i), i, "retry")
  /\ journal' = JournalAfterIntent(i)
  /\ UNCHANGED <<outbox, manualStop, run, starts, starting, sending, closing, history>>

(* The paste is visible and Enter is pressed, each time after a new        *)
(* checkpoint; Codex may ignore it.                                        *)
PressEnter(i) ==
  /\ active[i].phase = "pasted"
  /\ Adapter[deliveries[i].recipient] = "codex"
  /\ active[i].submits < MaxSubmits
  /\ Owned(i) /\ MayInput(i)
  /\ run[deliveries[i].recipient] = active[i].run
  /\ deliveries[i].kind = "report" => HasEntry(i)
  /\ deliveries' = SaveCheckpoint(deliveries, i)
  /\ active' = [active EXCEPT ![i].submits = @ + 1]
  /\ UNCHANGED <<ledger, outbox, manualStop, run, starts, starting, sending, closing,
                 journal, history>>

(* submitted and persistAccepted, one transaction: after a native receipt  *)
(* for Codex, after the final Enter for a terminal without receipts.       *)
CompleteNative(i) ==
  /\ active[i].phase = "pasted"
  /\ Adapter[deliveries[i].recipient] = "codex"
  /\ i \in journal /\ Owned(i)
  /\ deliveries' = Submitted(deliveries, i, TRUE)
  /\ PersistAccepted(i)
  /\ active' = [active EXCEPT ![i] = NoAttempt]
  /\ UNCHANGED <<manualStop, run, starts, starting, sending, closing, journal, history>>

CompletePty(i) ==
  /\ active[i].phase = "pasted"
  /\ Adapter[deliveries[i].recipient] = "claude"
  /\ Owned(i) /\ MayInput(i)
  /\ run[deliveries[i].recipient] = active[i].run
  /\ deliveries' = Submitted(deliveries, i, FALSE)
  /\ PersistAccepted(i)
  /\ active' = [active EXCEPT ![i] = NoAttempt]
  /\ UNCHANGED <<manualStop, run, starts, starting, sending, closing, journal, history>>

(* Any other end: the deadline, the abort signal, foreign input, a dialog, *)
(* the end of the run, a superseded attempt or a removed report.           *)
AttemptFails(i) ==
  /\ active[i].phase \in {"claimed", "pasted"}
  /\ FailAttempt(deliveries, i, "retry")
  /\ UNCHANGED <<outbox, manualStop, run, starts, starting, sending, closing, journal,
                 history>>

(* A native session has no contract for input: NativeSessionError. *)
AttemptNeedsReview(i) ==
  /\ active[i].phase = "claimed"
  /\ Adapter[deliveries[i].recipient] = "native"
  /\ FailAttempt(deliveries, i, "manual")
  /\ UNCHANGED <<outbox, manualStop, run, starts, starting, sending, closing, journal,
                 history>>

(* The grant of a remote dispatch was revoked, or the dispatch of a        *)
(* message closed before a terminal without receipts was written to.       *)
AttemptDropped(i) ==
  LET d == deliveries[i].dispatch
  IN /\ active[i].phase = "claimed"
     /\ \/ deliveries[i].kind = "dispatch" /\ d \in RemoteSends
        \/ /\ deliveries[i].kind = "message" /\ IsClosed(d)
           /\ Adapter[deliveries[i].recipient] = "claude"
     /\ FailAttempt(deliveries, i, "drop")
     /\ UNCHANGED <<outbox, manualStop, run, starts, starting, sending, closing, journal,
                    history>>

(* Mutant: only the journal of a running recipient is read. *)
RecheckOfRunning(i) ==
  /\ ~closing
  /\ deliveries[i].state = "unknown" /\ deliveries[i].checkpoint
  /\ i \in journal /\ Live(deliveries[i].recipient)
  /\ deliveries' = Confirm(deliveries, i)
  /\ PersistAccepted(i)
  /\ UNCHANGED <<manualStop, memory, journal, history>>

(* recheck: an uncertain row whose marker the recipient journaled. *)
Recheck(i) ==
  /\ ~closing
  /\ deliveries[i].state = "unknown" /\ deliveries[i].checkpoint
  /\ i \in journal
  /\ deliveries' = Confirm(deliveries, i)
  /\ PersistAccepted(i)
  /\ UNCHANGED <<manualStop, memory, journal, history>>

(* Environment: the recipient's session file records the message.          *)
Journal(i) ==
  /\ copies[i] > 0 /\ i \notin journal
  /\ deliveries[i].state \notin Settled   \* a later one is never read
  /\ Adapter[deliveries[i].recipient] = "codex"
  /\ journal' = journal \cup {i}
  /\ UNCHANGED <<persistent, memory, history>>

-----------------------------------------------------------------------------
(* Dispatching *)

(* dispatchTask.  With a sender, a worker that is not running is started   *)
(* first, unless a person stopped it; the call waits in "sending".         *)
CreateDispatch(d) ==
  LET w == Assignee[d]
  IN /\ ~closing
     /\ ledger[d].status = "none"
     /\ \E n \in RowIds :
          /\ Fresh(n)
          /\ deliveries' = Insert(deliveries, n, "dispatch", d, w)
          /\ ledger' = [ledger EXCEPT ![d] = [status |-> "queued", failed |-> FALSE,
                                              revision |-> 0, row |-> n]]
     /\ sending' = IF d \in OrchestratorSends /\ ~Live(w) /\ w \notin manualStop
                     THEN sending \cup {d} ELSE sending
     /\ UNCHANGED <<outbox, manualStop, run, starts, active, starting, closing, journal,
                    history>>

(* ensureWorkerRun returns, with a run or with the start queued ...        *)
StartAwaited(d) ==
  /\ d \in sending
  /\ sending' = sending \ {d}
  /\ UNCHANGED <<persistent, run, starts, active, starting, closing, journal, history>>

(* ... or throws: the catch marks the dispatch failed, whatever became of  *)
(* it during the await.                                                    *)
StartFailed(d) ==
  /\ d \in sending /\ ~Live(Assignee[d])
  /\ sending' = sending \ {d}
  /\ ledger' = MarkDeliveryFailed(d)
  /\ UNCHANGED <<deliveries, outbox, manualStop, run, starts, active, starting, closing,
                 journal, history>>

-----------------------------------------------------------------------------
(* What the worker says *)

(* acknowledge: progress "accepted". *)
Acknowledge(d) ==
  LET i == ledger[d].row
  IN /\ ledger[d].status # "none" /\ ~IsClosed(d)
     /\ Running(Assignee[d])
     /\ deliveries' = Confirm(deliveries, i)
     /\ PersistAccepted(i)
     /\ active' = Abort(i)
     /\ UNCHANGED <<manualStop, run, starts, starting, sending, closing, journal, history>>

(* markReportedByWorker and the confirmation of the dispatch's own row.    *)
MarkReported(d) ==
  [ledger EXCEPT ![d].status = "reported", ![d].failed = FALSE, ![d].revision = @ + 1]

ReportedRows(t, d) == Confirm(ClosePending(t, d), ledger[d].row)

CanReport(d) ==
  /\ IsOpen(d) /\ Running(Assignee[d])
  /\ ledger[d].revision < MaxRevisions

(* Mutant: a delivered entry is not replaced. *)
ReplacesUndelivered(d) ==
  Protocol[d] = 1 /\ ledger[d].revision > 0 /\ outbox[d].receipt # 0 /\ ~outbox[d].delivered

(* reportTask with enqueue: a later report of a protocol 1 dispatch        *)
(* replaces the previous one under a new receipt ...                       *)
Replaces(d) == Protocol[d] = 1 /\ ledger[d].revision > 0 /\ outbox[d].receipt # 0

ReportQueued(d) ==
  LET previous == outbox[d].receipt
      kept == IF Replaces(d) THEN Supersede(deliveries, previous) ELSE deliveries
  IN /\ CanReport(d)
     /\ Replaces(d) \/ previous = 0
     /\ \E n \in RowIds :
          /\ Fresh(n)
          /\ deliveries' = ReportedRows(Insert(kept, n, "report", d, Orchestrator), d)
          /\ outbox' = [outbox EXCEPT ![d] = [receipt |-> n, delivered |-> FALSE,
                                              revision |-> ledger[d].revision + 1]]
     /\ ledger' = MarkReported(d)
     /\ active' = Abort(ledger[d].row)
     /\ UNCHANGED <<manualStop, run, starts, starting, sending, closing, journal, history>>

(* ... and INSERT OR IGNORE keeps the entry a protocol 0 dispatch has.     *)
ReportIgnored(d) ==
  /\ CanReport(d)
  /\ ~Replaces(d) /\ outbox[d].receipt # 0
  /\ deliveries' = ReportedRows(deliveries, d)
  /\ ledger' = MarkReported(d)
  /\ active' = Abort(ledger[d].row)
  /\ UNCHANGED <<outbox, manualStop, run, starts, starting, sending, closing, journal,
                 history>>

(* statusTask, progress "cancelled". *)
ConfirmCancellation(d) ==
  /\ ledger[d].status = "cancelled"
  /\ Running(Assignee[d])
  /\ deliveries' = [i \in RowIds |->
                      IF deliveries[i].kind = "cancel" /\ deliveries[i].dispatch = d
                        THEN Confirm(deliveries, i)[i]
                        ELSE deliveries[i]]
  /\ UNCHANGED <<ledger, outbox, manualStop, memory, journal, history>>

-----------------------------------------------------------------------------
(* What the orchestrator and the person say *)

(* dispatchMessages.send, by the worker or by the orchestrator. *)
PostMessage(d, recipient) ==
  /\ Protocol[d] = 1 /\ IsOpen(d)
  /\ recipient \in {Assignee[d], Orchestrator}
  /\ Running(Assignee[d]) \/ recipient # Orchestrator
  /\ \E n \in RowIds : Fresh(n) /\ deliveries' = Insert(deliveries, n, "message", d, recipient)
  /\ UNCHANGED <<ledger, outbox, manualStop, memory, journal, history>>

(* sendDispatchFeedback: a reported dispatch is reopened.  Under protocol 1*)
(* the feedback is a message; under protocol 0 it is written directly to   *)
(* the terminal, outside the delivery lane.                                *)
Reopened(d) ==
  IF Status(d) = "reported" THEN [ledger EXCEPT ![d].status = "submitted"] ELSE ledger

Feedback(d) ==
  /\ ledger[d].status # "none" /\ Status(d) # "cancelled"
  /\ Live(Assignee[d])
  /\ \/ /\ Protocol[d] = 1
        /\ Reopened(d)[d].status \in {"queued", "submitted"}
        /\ \E n \in RowIds :
             /\ Fresh(n)
             /\ deliveries' = Insert(deliveries, n, "message", d, Assignee[d])
        /\ ledger' = Reopened(d)
     \/ /\ Protocol[d] = 0
        /\ \E written \in BOOLEAN :
             ledger' = IF written THEN Reopened(d)
                       ELSE [Reopened(d) EXCEPT ![d].failed = TRUE]
        /\ UNCHANGED deliveries
  /\ UNCHANGED <<outbox, manualStop, memory, journal, history>>

(* cancelTask *)
Cancel(d) ==
  LET i == ledger[d].row
  IN /\ IsOpen(d)
     /\ ledger' = [ledger EXCEPT ![d].status = "cancelled", ![d].failed = FALSE]
     /\ \E n \in RowIds :
          /\ Fresh(n)
          /\ deliveries' = RequestCancellation(ClosePending(deliveries, d), i, n, d,
                                               Assignee[d])
     /\ active' = Abort(i)
     /\ UNCHANGED <<outbox, manualStop, run, starts, starting, sending, closing, journal,
                    history>>

(* resolve: a person handles a delivery, or asks for one more copy of it.  *)
HandledByUser(i) ==
  /\ CanResolve(deliveries, i)
  /\ deliveries' = Handled(deliveries, i)
  /\ PersistAccepted(i)
  /\ UNCHANGED <<manualStop, memory, journal, history>>

ResendByUser(i) ==
  /\ resends < MaxResends
  /\ CanResolve(deliveries, i)
  /\ deliveries[i].kind \in {"dispatch", "message"} => ~IsClosed(deliveries[i].dispatch)
  /\ deliveries' = Resend(deliveries, i)
  /\ copies' = [copies EXCEPT ![i] = 0]
  /\ journal' = journal \ {i}
  /\ resends' = resends + 1
  /\ UNCHANGED <<ledger, outbox, manualStop, memory, restarts>>

-----------------------------------------------------------------------------
(* Runs of the agents *)

StartRun(a) ==
  /\ ~closing /\ ~Live(a) /\ starts[a] < MaxRuns
  /\ a \in Workers => starting[a].phase = "none"
  /\ starts' = [starts EXCEPT ![a] = @ + 1]
  /\ run' = [run EXCEPT ![a] = starts[a] + 1]
  /\ manualStop' = manualStop \ {a}
  /\ UNCHANGED <<deliveries, ledger, outbox, active, starting, sending, closing, journal,
                 history>>

ExitRun(a) ==
  /\ Live(a) /\ a \in Stopping
  /\ run' = [run EXCEPT ![a] = 0]
  /\ UNCHANGED <<persistent, starts, active, starting, sending, closing, journal, history>>

(* stopTerminalRun: the choice is stored at once, the run ends later. *)
ManualStop(a) ==
  /\ Live(a) /\ a \in Stopping /\ a \notin manualStop
  /\ manualStop' = manualStop \cup {a}
  /\ UNCHANGED <<deliveries, ledger, outbox, memory, journal, history>>

(* prepareInitialDispatch: a Codex worker without a captured session is    *)
(* started with its first unsettled row on the command line, if that row   *)
(* is an untouched pending dispatch that is not closed.                    *)
FirstUnsettled(w, i) ==
  /\ deliveries[i].recipient = w /\ deliveries[i].state \notin Settled
  /\ \A j \in 1..(i - 1) : deliveries[j].recipient = w => deliveries[j].state \in Settled

PrepareInitial(w) ==
  /\ ~closing /\ ~Live(w) /\ starting[w].phase = "none" /\ starts[w] < MaxRuns
  /\ Adapter[w] = "codex"
  /\ \E i \in RowIds :
       /\ FirstUnsettled(w, i)
       /\ deliveries[i].kind = "dispatch" /\ deliveries[i].state = "pending"
       /\ ~deliveries[i].write_started /\ ~deliveries[i].checkpoint
       /\ Undelivered(deliveries[i].dispatch)
       /\ starting' = [starting EXCEPT ![w] =
                         [phase |-> "prepared", row |-> i, attempt |-> 0]]
  /\ starts' = [starts EXCEPT ![w] = @ + 1]
  /\ manualStop' = manualStop \ {w}
  /\ UNCHANGED <<deliveries, ledger, outbox, run, active, sending, closing, journal, history>>

(* launch: claim, checkpoint and write intent are one transaction ...      *)
ClaimInitial(w) ==
  LET i == starting[w].row
      claimed == Claim(deliveries, i)
  IN /\ starting[w].phase = "prepared"
     /\ ~closing /\ Undelivered(deliveries[i].dispatch)
     /\ CanClaim(deliveries, i)
     /\ deliveries' = SaveCheckpoint(claimed, i)
     /\ starting' = [starting EXCEPT ![w].phase = "claimed",
                                     ![w].attempt = claimed[i].attempt]
     /\ journal' = journal \ {i}
     /\ UNCHANGED <<ledger, outbox, manualStop, run, starts, active, sending, closing,
                    history>>

(* ... then the process is spawned with the message in its arguments.      *)
SpawnInitial(w) ==
  /\ starting[w].phase = "claimed"
  /\ starting' = [starting EXCEPT ![w].phase = "spawned"]
  /\ copies' = [copies EXCEPT ![starting[w].row] = @ + 1]
  /\ UNCHANGED <<persistent, run, starts, active, sending, closing, journal, resends,
                 restarts>>

(* launched *)
Launched(w) ==
  LET i == starting[w].row
  IN /\ starting[w].phase = "spawned"
     /\ \/ OwnsAttempt(deliveries, i, starting[w].attempt)
        \/ /\ deliveries[i].state \in Settled
           /\ deliveries[i].attempt = starting[w].attempt
     /\ deliveries' = AwaitingReceipt(deliveries, i)
     /\ starting' = [starting EXCEPT ![w] = NotStarting]
     /\ run' = [run EXCEPT ![w] = starts[w]]
     /\ UNCHANGED <<ledger, outbox, manualStop, starts, active, sending, closing, journal,
                    history>>

(* failed: a no-op before the claim. *)
LaunchFails(w) ==
  LET i == starting[w].row
      d == deliveries[i].dispatch
  IN /\ starting[w].phase # "none"
     /\ IF starting[w].phase = "prepared"
          THEN UNCHANGED <<deliveries, ledger>>
          ELSE /\ deliveries' = Failed(deliveries, i, starting[w].attempt, "retry")
               /\ ledger' = IF Undelivered(d) THEN MarkDeliveryFailed(d) ELSE ledger
     /\ starting' = [starting EXCEPT ![w] = NotStarting]
     /\ UNCHANGED <<outbox, manualStop, run, starts, active, sending, closing, journal,
                    history>>

-----------------------------------------------------------------------------
(* The server process *)

(* close *)
Close ==
  /\ ~closing /\ restarts < MaxRestarts
  /\ closing' = TRUE
  /\ active' = [i \in RowIds |-> Abort(i)[i]]
  /\ UNCHANGED <<persistent, run, starts, starting, sending, journal, history>>

(* The process ends with table t and is started again: its agents die with *)
(* it and recover() is the first thing to run.                             *)
Restarted(t) ==
  /\ restarts < MaxRestarts
  /\ deliveries' = Recover(t)
  /\ run' = [a \in Agents |-> 0]
  /\ active' = [i \in RowIds |-> NoAttempt]
  /\ starting' = [w \in Workers |-> NotStarting]
  /\ sending' = {}
  /\ closing' = FALSE
  /\ restarts' = restarts + 1
  /\ UNCHANGED <<ledger, outbox, manualStop, starts, copies, resends>>

(* At any point, or after close.                                           *)
Restart == Restarted(deliveries) /\ UNCHANGED journal

(* Between the commit of a write intent and the write.                     *)
CrashBeforeWrite(i) ==
  /\ CanWrite(i)
  /\ Restarted(WriteIntent(i))
  /\ journal' = JournalAfterIntent(i)

-----------------------------------------------------------------------------
Attempting(i) ==
  \/ Deliver(i) \/ WriteInput(i) \/ WriteRejected(i) \/ CrashBeforeWrite(i)
  \/ PressEnter(i)
  \/ CompleteNative(i) \/ CompletePty(i)
  \/ AttemptFails(i) \/ AttemptNeedsReview(i) \/ AttemptDropped(i)
  \/ Recheck(i) \/ Journal(i) \/ HandledByUser(i) \/ ResendByUser(i)

Dispatching(d) ==
  \/ CreateDispatch(d) \/ StartAwaited(d) \/ StartFailed(d)
  \/ Acknowledge(d) \/ ReportQueued(d) \/ ReportIgnored(d) \/ ConfirmCancellation(d)
  \/ (\E a \in Agents : PostMessage(d, a)) \/ Feedback(d) \/ Cancel(d)

RunOf(a) == StartRun(a) \/ ExitRun(a) \/ ManualStop(a)

Launching(w) ==
  \/ PrepareInitial(w) \/ ClaimInitial(w) \/ SpawnInitial(w) \/ Launched(w) \/ LaunchFails(w)

Next ==
  \/ \E i \in RowIds : Attempting(i)
  \/ \E d \in Dispatches : Dispatching(d)
  \/ \E a \in Agents : RunOf(a)
  \/ \E w \in Workers : Launching(w)
  \/ Close
  \/ Restart

Spec == Init /\ [][Next]_vars

(* The scheduler ticks every second and an attempt has a deadline.  Nobody *)
(* else has to do anything: no agent, no person and no start is fair.      *)
EndsAttempt(i) ==
  \/ CompleteNative(i) \/ CompletePty(i)
  \/ AttemptFails(i) \/ AttemptNeedsReview(i) \/ AttemptDropped(i)

Fairness ==
  \A i \in RowIds :
    WF_vars(Deliver(i)) /\ WF_vars(EndsAttempt(i)) /\ WF_vars(Recheck(i))

FairSpec == Spec /\ Fairness

-----------------------------------------------------------------------------
(* Properties *)

(* A row that holds a recipient's composer holds it alone, every earlier   *)
(* row of the recipient is settled, and so every later one has yet to be   *)
(* claimed: what unblockedRecipient and idx_message_delivery_inflight are  *)
(* for, across claims by the scheduler, by launches, and after recovery.   *)
ComposerHeldInOrder ==
  \A i, j \in RowIds :
    (/\ i # j /\ deliveries[i].recipient = deliveries[j].recipient
     /\ deliveries[i].state \in Fencing)
      => /\ deliveries[j].state \notin Fencing
         /\ j < i => deliveries[j].state \in Settled

(* Until a person asks for another copy, a message is put into a terminal  *)
(* at most once, whatever fails, retries, races or crashes.                *)
AtMostOneCopy == \A i \in RowIds : copies[i] <= 1

(* No message reaches a recipient before an earlier one of the same        *)
(* recipient is settled.                                                   *)
DeliveredInOrder ==
  \A i, j \in RowIds :
    (/\ i < j /\ deliveries[i].recipient = deliveries[j].recipient
     /\ copies[j] > 0)
      => deliveries[i].state \in Settled

(* A row in 'attempting' has an attempt or a launch in this process that   *)
(* will release it; otherwise its recipient would be blocked until the     *)
(* next restart.                                                           *)
AttemptingRowsAreOwned ==
  \A i \in RowIds :
    deliveries[i].state = "attempting" =>
      \/ active[i].phase # "none" /\ active[i].attempt = deliveries[i].attempt
      \/ \E w \in Workers : /\ starting[w].phase \in {"claimed", "spawned"}
                            /\ starting[w].row = i
                            /\ starting[w].attempt = deliveries[i].attempt

(* A row that may be claimed again carries no trace of an earlier write:   *)
(* an uncertain write is never returned to the queue.                      *)
RetriesAreUnwritten ==
  \A i \in RowIds :
    deliveries[i].state \in {"pending", "manual"} =>
      ~deliveries[i].write_started /\ ~deliveries[i].checkpoint /\ copies[i] = 0

(* A queued dispatch that shows no failure still has a row that will       *)
(* deliver it, so it cannot be forgotten.                                  *)
QueuedDispatchesAreCarried ==
  \A d \in Dispatches :
    Status(d) = "queued" => deliveries[ledger[d].row].state \notin Settled

(* A report that is not marked delivered still has a row that delivers it, *)
(* also when a new revision replaced it while it was being written.        *)
UndeliveredReportsAreCarried ==
  \A d \in Dispatches :
    outbox[d].receipt # 0 /\ ~outbox[d].delivered =>
      deliveries[outbox[d].receipt].state \notin Settled \cup {"absent"}

(* What a reported dispatch has in the outbox is its latest report.        *)
LatestReportIsForwarded ==
  \A d \in Dispatches :
    Status(d) = "reported" => outbox[d].revision = ledger[d].revision

(* A report is marked delivered only on account of its own receipt: the    *)
(* late receipt of a superseded revision must not stand for the new one.   *)
DeliveredReportsWereReceived ==
  \A d \in Dispatches :
    outbox[d].delivered =>
      deliveries[outbox[d].receipt].state \in Settled \cup {"unknown"}

(* A cancelled dispatch stays cancelled, whatever its delivery still       *)
(* reports: "This dispatch was cancelled; dispatch a new task instead"     *)
(* (team-operations.ts:543).                                               *)
CancelledIsFinal ==
  [][\A d \in Dispatches :
       ledger[d].status = "cancelled" => ledger'[d].status = "cancelled"]_vars

(* A settled delivery is never touched again: no late answer of an attempt,*)
(* a launch, a recheck or a person revives it.                             *)
SettledIsFinal ==
  [][\A i \in RowIds :
       deliveries[i].state \in Settled =>
         deliveries'[i].state = deliveries[i].state]_vars

(* Delivery keeps the promise of ComposerLane: the rows are the messages,  *)
(* a row that blocks its recipient holds the composer, and what was put    *)
(* into a terminal is shown.                                               *)
Place(state) ==
  IF state = "absent" THEN "unsent"
  ELSE IF state = "pending" THEN "waiting"
  ELSE IF state \in Fencing THEN "holding"
  ELSE "settled"

Lane == INSTANCE ComposerLane WITH
  Messages <- RowIds,
  Recipients <- Agents,
  Nobody <- None,
  to <- [i \in RowIds |-> deliveries[i].recipient],
  place <- [i \in RowIds |-> Place(deliveries[i].state)],
  shown <- {i \in RowIds : copies[i] > 0}

KeepsTheLane == Lane!Spec

(* Every attempt ends, whatever becomes of its row, its recipient or its   *)
(* dispatch meanwhile; until then deliver() ignores the row.               *)
AttemptsEnd ==
  \A i \in RowIds : active[i].phase # "none" ~> active[i].phase = "none"

(* As long as a recipient runs, a message to it leaves the queue, or the   *)
(* lane stops at a row whose receipt is awaited or that a person has to    *)
(* review: retries are bounded, later messages do not overtake, and no     *)
(* two rows wait for each other.                                           *)
Steady(a) == Live(a) /\ a \notin manualStop /\ ~closing
StopsAtReview(a) ==
  \E i \in RowIds : deliveries[i].recipient = a /\ deliveries[i].state \in {"unknown", "manual"}

MessagesLeaveTheQueue ==
  \A i \in RowIds, a \in Agents :
    (deliveries[i].state = "pending" /\ deliveries[i].recipient = a /\ Steady(a))
      ~> (deliveries[i].state \in Settled \/ StopsAtReview(a) \/ ~Steady(a))

(* A journaled receipt is found, also after a restart, after the recipient *)
(* ended, or when the attempt that wrote the message failed.               *)
JournaledReceiptsAreFound ==
  \A i \in RowIds :
    (/\ deliveries[i].state = "unknown" /\ deliveries[i].checkpoint
     /\ i \in journal /\ ~closing)
      ~> (deliveries[i].state # "unknown" \/ closing)

=============================================================================
