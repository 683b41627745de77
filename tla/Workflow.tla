------------------------------- MODULE Workflow -------------------------------
(***************************************************************************)
(* One run of a JSON workflow: its steps, the dispatches made for them,    *)
(* and the scheduler that reports, reruns, evidence, stops and crashes     *)
(* reach while it awaits (workflow-runtime.ts, workflow-attempts.ts,       *)
(* workflow-reports.ts, workflow-stop-recovery.ts,                         *)
(* workflow-delivery-recovery.ts, workflow-run-store.ts).                  *)
(*                                                                         *)
(* db is what SQLite holds and survives a crash; flight is the one call of *)
(* dispatchReady that inFlightRuns admits, cut at its awaits.  Operators   *)
(* on a database d return the database after the code they stand for.      *)
(*                                                                         *)
(* Texts, artifacts and error messages are left out, and so is the order   *)
(* of several cancellations of one handler.                                *)
(***************************************************************************)
EXTENDS Naturals, Sequences, SequencesExt, FiniteSets

CONSTANTS
  Order,        \* the steps in the order of the definition
  Needs,        \* the steps each step waits for
  Quality,      \* steps released by evidence instead of by their report
  Outcomes,     \* outcomes a worker may declare, "none" for no declaration
  Uncertain,    \* dispatches whose delivery may need a person's decision
  MaxAttempts,  \* bound: attempts of a step
  MaxCommits,   \* bound: code versions of a dispatch
  Rerunnable,   \* bound: steps that a person reruns
  Reopenable,   \* bound: dispatches that are given back, once each
  MaxRestarts   \* bound: deaths of the server

Steps == ToSet(Order)

ASSUME WorkflowAssumption ==
  /\ Order \in Seq(Steps) /\ IsInjective(Order)
  /\ Needs \in [Steps -> SUBSET Steps]
  /\ \E depth \in [Steps -> 1..Len(Order)] :
       \A s \in Steps : \A n \in Needs[s] : depth[n] < depth[s]
  /\ Quality \subseteq Steps /\ Rerunnable \subseteq Steps
  /\ Outcomes \subseteq {"success", "failed", "none"}
  /\ Uncertain \subseteq Nat /\ Reopenable \subseteq Nat
  /\ MaxAttempts \in Nat \ {0} /\ MaxCommits \in Nat /\ MaxRestarts \in Nat

VARIABLES
  db,        \* workflow_runs, dispatches and their health and evidence
  flight,    \* the locals of dispatchReady
  woken,     \* pendingRuns, or a microtask that will schedule the run
  restarts   \* how often the server died

vars == <<db, flight, woken, restarts>>

-----------------------------------------------------------------------------
RunStatus == {"running", "interrupted", "completed", "failed", "stopped"}
StepStatus == {"queued", "running", "awaiting_review", "blocked", "completed",
               "failed", "stopped"}

(* resultVersion: which report of which dispatch, over which code.         *)
Result == [dispatch: Nat, revision: Nat, commit: Nat]
NoResult == [dispatch |-> 0, revision |-> 0, commit |-> 0]

Step == [status: StepStatus, attempt: 1..MaxAttempts, dispatch: Nat,
         rerunPending: BOOLEAN, needsRerun: BOOLEAN, result: Result,
         used: [Steps -> Result]]  \* dependencyVersions

(* uncertain: its delivery, or that of its cancellation, waits for a       *)
(* decision; confirmed: the worker stopped; commit and checked: the code   *)
(* version, and whether review and verification hold for it and this report. *)
Dispatch == [step: Steps, attempt: 1..MaxAttempts,
             status: {"queued", "submitted", "reported", "cancelled"},
             outcome: {"success", "failed", "none"}, accepted: BOOLEAN,
             revision: 0..2, confirmed: BOOLEAN,
             uncertain: BOOLEAN, commit: 0..MaxCommits, checked: BOOLEAN]

Unused == [s \in Steps |-> NoResult]

NewStep == [status |-> "queued", attempt |-> 1, dispatch |-> 0,
            rerunPending |-> FALSE, needsRerun |-> FALSE, result |-> NoResult,
            used |-> Unused]

NewDispatch(s, attempt) ==
  [step |-> s, attempt |-> attempt, status |-> "queued", outcome |-> "none",
   accepted |-> FALSE, revision |-> 0, confirmed |-> FALSE,
   uncertain |-> FALSE, commit |-> 0, checked |-> FALSE]

Idle == [phase |-> "idle", todo |-> {}, attempt |-> 0, revision |-> 0,
         seen |-> [commit |-> 0, checked |-> FALSE]]

Dispatches == DOMAIN db.dispatch
IsOpen(d, i) == d.dispatch[i].status \in {"queued", "submitted"}
IsReported(d, i) == d.dispatch[i].status = "reported"
HasDispatch(d, s) == d.step[s].dispatch # 0
CurrentOf(d, s) == d.dispatch[d.step[s].dispatch]
OnHold(d, s) == d.step[s].rerunPending \/ d.step[s].needsRerun

Active(d) == d.status \in {"running", "interrupted"}
AllCompleted(d) == \A s \in Steps : d.step[s].status = "completed"

(* The steps of S replaced by what F makes of them. *)
Replace(d, S, F(_)) ==
  [d EXCEPT !.step = [s \in Steps |-> IF s \in S THEN F(s) ELSE d.step[s]]]

Cancel(d, ids) ==
  [d EXCEPT !.dispatch =
    [i \in DOMAIN d.dispatch |->
      IF i \in ids /\ IsOpen(d, i)
        THEN [d.dispatch[i] EXCEPT !.status = "cancelled"]
        ELSE d.dispatch[i]]]

(* The dispatches bound to the steps of S. *)
Bound(d, S) == {d.step[s].dispatch : s \in S} \ {0}

-----------------------------------------------------------------------------
(* workflow-delivery-recovery.ts *)

(* inspect: what keeps step s from going on without a person. *)
Issue(d, s) ==
  /\ HasDispatch(d, s)
  /\ d.step[s].status \notin {"completed", "failed", "stopped"}
  /\ LET c == CurrentOf(d, s)
     IN \/ c.status \in {"queued", "submitted"} /\ c.uncertain
        \/ c.status = "cancelled" /\ ~d.step[s].rerunPending
        \/ c.status = "cancelled" /\ ~c.confirmed /\ c.uncertain

Reconciled(d) ==
  IF ~Active(d) THEN d
  ELSE [d EXCEPT !.status =
         IF \E s \in Steps : Issue(d, s) THEN "interrupted" ELSE "running"]

-----------------------------------------------------------------------------
(* workflow-reports.ts *)

Advances(c) == c.outcome = "success" \/ c.accepted

ReportStatus(s, c) ==
  IF s \in Quality THEN "awaiting_review"
  ELSE IF Advances(c) THEN "completed"
  ELSE IF c.outcome = "none" THEN "awaiting_review" ELSE "blocked"

AwaitsReport(d, s) ==
  /\ HasDispatch(d, s) /\ IsReported(d, d.step[s].dispatch)
  /\ ~OnHold(d, s)
  /\ d.step[s].status \in {"queued", "running", "blocked", "awaiting_review"}

WithReport(d, s) ==
  LET c == CurrentOf(d, s)
  IN [d.step[s] EXCEPT
       !.status = ReportStatus(s, c),
       !.result = IF s \notin Quality /\ Advances(c)
                    THEN [dispatch |-> d.step[s].dispatch,
                          revision |-> c.revision, commit |-> 0]
                    ELSE NoResult]

Finish(d) ==
  IF Active(d) /\ AllCompleted(d) THEN [d EXCEPT !.status = "completed"] ELSE d

(* apply, to those steps of S whose dispatch has a report they wait for. *)
Apply(d, S) ==
  IF ~Active(d) THEN d
  ELSE Finish(Replace(d, {s \in S : AwaitsReport(d, s)},
                LAMBDA s : WithReport(d, s)))

(* refresh: quality steps are left to their evidence. *)
Refreshed(d) == Apply(d, Steps \ Quality)

-----------------------------------------------------------------------------
(* workflow-attempts.ts *)

(* affectedSteps: the least set with S and every step that needs one of it. *)
Downstream(S) ==
  {t \in Steps : \A reach \in SUBSET Steps :
     S \subseteq reach /\ (\A u \in Steps : Needs[u] \cap reach # {} => u \in reach)
       => t \in reach}

Pending(d) == {s \in Steps : d.step[s].rerunPending}

(* requestRerun, inside its transaction. *)
RerunRequested(d, s) ==
  [Replace(d, Downstream({s}),
     LAMBDA t : [d.step[t] EXCEPT !.rerunPending = TRUE, !.status = "blocked",
                                  !.result = NoResult])
   EXCEPT !.status = "running"]

MayRerun(d, s) ==
  /\ s \in Rerunnable
  /\ Pending(d) = {}
  /\ \A t \in Downstream({s}) : d.step[t].attempt < MaxAttempts

(* Mutant: a cancellation that was only requested counts as the end. *)
EndedOnceCancelled(c) == c.status \in {"reported", "cancelled"}

(* Mutant: only a confirmed cancellation counts as the end.                *)
EndedOnceConfirmed(c) == c.confirmed

(* The earlier execution is over: it reported, or its end is confirmed. *)
Ended(c) == c.status = "reported" \/ c.confirmed

NextAttempt(step) ==
  [NewStep EXCEPT !.attempt = step.attempt + 1]

(* settleRerun *)
Settled(d) ==
  LET c == Cancel(d, Bound(d, Pending(d)))
      waiting == \E i \in Bound(d, Pending(d)) : ~Ended(c.dispatch[i])
  IN IF waiting \/ d.status # "running" THEN c
     ELSE Replace(c, Pending(c), LAMBDA s : NextAttempt(c.step[s]))

-----------------------------------------------------------------------------
(* workflow-stop-recovery.ts *)

PendingStops(d) ==
  {i \in Bound(d, {s \in Steps : d.step[s].status = "stopped"}) :
     d.status = "stopped" /\ IsOpen(d, i)}

StopReconciled(d) == Cancel(d, PendingStops(d))

(* Mutant: steps are given the status of their dispatches.                 *)
StoppedCancelled(d) ==
  [Replace(d, {s \in Steps : d.step[s].status \notin {"completed", "failed"}},
     LAMBDA s : [d.step[s] EXCEPT !.status = "cancelled"])
   EXCEPT !.status = "stopped"]

Stopped(d) ==
  [Replace(d, {s \in Steps : d.step[s].status \notin {"completed", "failed"}},
     LAMBDA s : [d.step[s] EXCEPT !.status = "stopped"])
   EXCEPT !.status = "stopped"]

-----------------------------------------------------------------------------
(* workflow-runtime.ts *)

(* Mutant: the open steps are marked before their dispatches are looked up. *)
FailedUncancelled(d) ==
  LET ends == {s \in Steps : d.step[s].status \in
                 {"queued", "running", "blocked", "awaiting_review"}}
  IN IF ~Active(d) THEN d
     ELSE [Replace(d, ends, LAMBDA s : [d.step[s] EXCEPT !.status = "failed"])
           EXCEPT !.status = "failed"]

(* failRun *)
Failed(d) ==
  LET open == {s \in Steps : d.step[s].status \in {"queued", "running"}}
      ends == {s \in Steps : d.step[s].status \in
                 {"queued", "running", "blocked", "awaiting_review"}}
      c == Cancel(d, Bound(d, open))
  IN IF ~Active(d) THEN d
     ELSE [Replace(c, ends, LAMBDA s : [c.step[s] EXCEPT !.status = "failed"])
           EXCEPT !.status = "failed"]

(* Mutant: a step that has a dispatch already is ready while it is queued. *)
StepIsReadyTwice(d, s) ==
  /\ d.step[s].status = "queued"
  /\ ~OnHold(d, s)
  /\ \A n \in Needs[s] : d.step[n].status = "completed"

StepIsReady(d, s) ==
  /\ d.step[s].status = "queued"
  /\ ~OnHold(d, s)
  /\ ~HasDispatch(d, s)
  /\ \A n \in Needs[s] : d.step[n].status = "completed"

(* refreshQuality, after the evidence of step s was read: f holds what was *)
(* captured before the read and what the read saw.                         *)
StillCurrent(d, s, f) ==
  /\ d.status \in {"running", "interrupted", "completed"}
  /\ d.step[s].attempt = f.attempt
  /\ HasDispatch(d, s) /\ ~OnHold(d, s)
  /\ IsReported(d, d.step[s].dispatch)
  /\ CurrentOf(d, s).revision = f.revision

EvidenceStatus(f) == IF f.seen.checked THEN "completed" ELSE "awaiting_review"

EvidenceResult(d, s, f) ==
  IF f.seen.checked
    THEN [dispatch |-> d.step[s].dispatch, revision |-> f.revision,
          commit |-> f.seen.commit]
    ELSE NoResult

(* Mutant: evidence that was renewed between two reads passes unnoticed.   *)
StaleOnceReopened(d, s, f) ==
  IF d.step[s].status = "completed" /\ EvidenceStatus(f) # "completed"
    THEN {t \in Downstream({s}) \ {s} : HasDispatch(d, t)}
    ELSE {}

(* The steps that consumed a result of s which no longer stands. *)
Stale(d, s, f) ==
  IF /\ d.step[s].status = "completed"
     /\ d.step[s].result # EvidenceResult(d, s, f)
    THEN {t \in Downstream({s}) \ {s} : HasDispatch(d, t)}
    ELSE {}

(* What refreshQuality stores, one transaction after the other: the step,  *)
(* the run, each cancellation and the steps that consumed the old result.  *)
Judged(d, s, f) ==
  [d EXCEPT !.step[s].status = EvidenceStatus(f),
            !.step[s].result = EvidenceResult(d, s, f)]

Resumed(d, s) ==
  IF d.status = "completed" /\ d.step[s].status # "completed"
    THEN [d EXCEPT !.status = "running"] ELSE d

HeldBack(d, S) ==
  Replace(d, S, LAMBDA t : [d.step[t] EXCEPT !.status = "blocked",
                              !.needsRerun = TRUE, !.result = NoResult])

(* The cancellations of ids are over.                                      *)
PartlyJudged(d, s, f, ids) == Cancel(Resumed(Judged(d, s, f), s), ids)

WithEvidence(d, s, f) ==
  LET stale == Stale(d, s, f)
  IN IF ~StillCurrent(d, s, f) THEN d
     ELSE HeldBack(PartlyJudged(d, s, f, Bound(d, stale)), stale)

-----------------------------------------------------------------------------
(* dispatchReady.  Phases: reading, awaits the evidence of First(todo);    *)
(* ready, has the thread and looks at the ready steps; creating, awaits    *)
(* the baseline of First(todo) inside dispatchTask; starting, awaits the   *)
(* start of its worker, the dispatch being stored.                         *)
Flight == [phase: {"idle", "reading", "ready", "creating", "starting"},
           todo: SUBSET Steps, attempt: 0..MaxAttempts, revision: Nat,
           seen: [commit: 0..MaxCommits, checked: BOOLEAN]]

At(phase) == flight.phase = phase

(* No other handler runs while the scheduler has the thread. *)
Free == ~At("ready")

(* Lists of steps are in the order of the definition. *)
First(S) == Order[Min({i \in DOMAIN Order : Order[i] \in S})]
Rest(S) == S \ {First(S)}

ReadySteps(d) == {s \in Steps : StepIsReady(d, s)}

(* Mutant: evidence is read once, after the report.                        *)
EvidenceStepsOnce(d) ==
  {s \in Quality : HasDispatch(d, s) /\ ~OnHold(d, s) /\ d.step[s].status = "running"}

EvidenceSteps(d) == {s \in Quality : HasDispatch(d, s) /\ ~OnHold(d, s)}

ToReady(d) ==
  IF d.status # "running" THEN [db |-> d, flight |-> Idle]
  ELSE [db |-> d,
        flight |-> [Idle EXCEPT !.phase = "ready", !.todo = ReadySteps(d)]]

(* refreshQuality goes on to its next candidate that has a report. *)
ReadNext(d, todo) ==
  LET found == {s \in todo : IsReported(d, d.step[s].dispatch)}
      s == First(found)
      c == CurrentOf(d, s)
  IN IF found = {} THEN ToReady(Reconciled(d))
     ELSE [db |-> d,
           flight |-> [phase |-> "reading",
                       todo |-> {t \in todo : First({s, t}) = s},
                       attempt |-> d.step[s].attempt,
                       revision |-> c.revision,
                       seen |-> [commit |-> c.commit, checked |-> c.checked]]]

(* dispatchReady up to its first await. *)
StartFlight(d) ==
  IF d.status = "stopped" THEN [db |-> StopReconciled(d), flight |-> Idle]
  ELSE IF d.status = "failed" THEN [db |-> d, flight |-> Idle]
  ELSE LET e == Settled(Reconciled(Refreshed(d)))
       IN ReadNext(e, EvidenceSteps(e))

Go(x) == db' = x.db /\ flight' = x.flight

(* A direct call: nothing happens while another one is in flight. *)
DispatchReady(d) ==
  /\ IF At("idle") THEN Go(StartFlight(d)) ELSE db' = d /\ UNCHANGED flight
  /\ UNCHANGED woken

(* schedule: the call in flight is followed by another one. *)
Schedule(d) ==
  IF At("idle")
    THEN Go(StartFlight(d)) /\ UNCHANGED woken
    ELSE db' = d /\ woken' = TRUE /\ UNCHANGED flight

Return(d) == db' = d /\ flight' = Idle

(* Mutant: a step whose dispatch cannot be made is left as it is.          *)
CaughtKeeping(d, s) == Reconciled(d)

(* The catch around dispatchTask. *)
Caught(d, s) ==
  LET r == Reconciled(d)
  IN IF r.status # "interrupted" /\ ~HasDispatch(d, s) THEN Failed(r) ELSE r

Head1 == First(flight.todo)
Now == Reconciled(db)

(* Mutant: the timer does not look for stops that are left to do.          *)
TimerSeesActive(d) == Active(d)

(* The rows that the timer schedules.                                      *)
TimerSees(d) == Active(d) \/ PendingStops(d) # {}

(* The interval of resume: runs that are active and stops left to do. *)
Timer ==
  /\ At("idle")
  /\ TimerSees(db)
  /\ Go(StartFlight(db))
  /\ UNCHANGED <<woken, restarts>>

Rescheduled ==
  /\ At("idle") /\ woken
  /\ woken' = FALSE
  /\ Go(StartFlight(db))
  /\ UNCHANGED restarts

EvidenceRead ==
  /\ At("reading")
  /\ Go(ReadNext(WithEvidence(db, Head1, flight), Rest(flight.todo)))
  /\ UNCHANGED <<woken, restarts>>

(* refreshQuality is cut off after it stored the step: what was below it   *)
(* is not held back, and the guard that would do it compares with what is  *)
(* stored now.                                                             *)
Stales == Stale(db, Head1, flight)

EvidenceDies ==
  /\ At("reading") /\ StillCurrent(db, Head1, flight)
  /\ restarts < MaxRestarts
  /\ \/ db' = Judged(db, Head1, flight)
     \/ \E ids \in SUBSET Bound(db, Stales) : db' = PartlyJudged(db, Head1, flight, ids)
  /\ restarts' = restarts + 1
  /\ woken' = FALSE
  /\ flight' = Idle

(* A cancellation throws: schedule logs that, and recordDispatchReport     *)
(* fails the run, after the call that is due has gone up to its first      *)
(* await.                                                                  *)
EvidenceThrows ==
  /\ At("reading") /\ StillCurrent(db, Head1, flight)
  /\ \E i \in Bound(db, Stales) : IsOpen(db, i)
  /\ \E ids \in SUBSET Bound(db, Stales) :
       LET part == PartlyJudged(db, Head1, flight, ids)
           next == IF woken THEN StartFlight(part) ELSE [db |-> part, flight |-> Idle]
       IN \/ Return(part) /\ UNCHANGED woken
          \/ /\ db' = Failed(next.db)
             /\ flight' = IF next.flight.phase = "reading" THEN next.flight ELSE Idle
             /\ woken' = FALSE
  /\ UNCHANGED restarts

(* Not running any more, or a worktree operation has begun. *)
ReadyLeaves ==
  /\ At("ready") /\ flight.todo # {}
  /\ Now.status = "running" => StepIsReady(Now, Head1)
  /\ Return(Now)
  /\ UNCHANGED <<woken, restarts>>

ReadySkips ==
  /\ At("ready") /\ flight.todo # {}
  /\ Now.status = "running" /\ ~StepIsReady(Now, Head1)
  /\ db' = Now
  /\ flight' = [flight EXCEPT !.todo = Rest(@)]
  /\ UNCHANGED <<woken, restarts>>

MayBeginDispatch ==
  /\ At("ready") /\ flight.todo # {}
  /\ Now.status = "running" /\ StepIsReady(Now, Head1)

BeginDispatch ==
  /\ MayBeginDispatch
  /\ db' = Now
  /\ flight' = [flight EXCEPT !.phase = "creating",
                              !.attempt = Now.step[Head1].attempt]
  /\ UNCHANGED <<woken, restarts>>

ReadyEnds ==
  /\ At("ready") /\ flight.todo = {}
  /\ LET has(status) == \E s \in Steps : db.step[s].status = status
     IN Return(IF db.status # "running" THEN db
               ELSE IF AllCompleted(db) THEN [db EXCEPT !.status = "completed"]
               ELSE IF has("failed") /\ ~has("running") THEN Failed(db)
               ELSE db)
  /\ UNCHANGED <<woken, restarts>>

(* Mutant: it is not looked up again. *)
MayCreateUnchecked(d, s) == TRUE

(* onCreated: what was true before the await is looked up again. *)
MayCreate(d, s) ==
  /\ d.status = "running"
  /\ d.step[s].attempt = flight.attempt
  /\ StepIsReady(d, s)
  /\ \A n \in Needs[s] : d.step[n].result # NoResult

Created(d, s) ==
  [d EXCEPT !.dispatch = Append(@, NewDispatch(s, d.step[s].attempt)),
            !.step[s].dispatch = Len(d.dispatch) + 1,
            !.step[s].status = "queued",
            !.step[s].used = [n \in Steps |->
              IF n \in Needs[s] THEN d.step[n].result ELSE NoResult]]

Create ==
  /\ At("creating")
  /\ IF MayCreate(Now, Head1)
       THEN /\ db' = Created(Now, Head1)
            /\ flight' = [flight EXCEPT !.phase = "starting"]
       ELSE Return(Caught(db, Head1))
  /\ UNCHANGED <<woken, restarts>>

(* The transaction fails, or something before it. *)
CreateFails ==
  /\ At("creating")
  /\ Return(Caught(db, Head1))
  /\ UNCHANGED <<woken, restarts>>

(* dispatchTask returns what is stored, or what it created when that is    *)
(* no longer open.                                                         *)
Started ==
  /\ At("starting")
  /\ LET i == db.step[Head1].dispatch
         next == [db EXCEPT !.step[Head1].status =
           IF @ # "queued" \/ db.dispatch[i].status # "submitted" THEN @
           ELSE "running"]
     IN IF ~Active(db) THEN Return(Cancel(db, {i}))
        ELSE /\ db' = Reconciled(next)
             /\ flight' = [Idle EXCEPT !.phase = "ready", !.todo = Rest(flight.todo)]
  /\ UNCHANGED <<woken, restarts>>

(* The worker could not be started; the dispatch stays with its step. *)
StartThrows ==
  /\ At("starting")
  /\ Return(Caught(db, Head1))
  /\ UNCHANGED <<woken, restarts>>

-----------------------------------------------------------------------------
(* What reaches the run from outside.  A handler runs to its end, so it    *)
(* finds the scheduler at one of its awaits.                               *)

(* The worker's terminal accepted the task: recordDispatchSubmitted.       *)
Submit(i) ==
  /\ Free
  /\ i \in Dispatches /\ db.dispatch[i].status = "queued"
  /\ LET sent == [db EXCEPT !.dispatch[i].status = "submitted",
                            !.dispatch[i].uncertain = FALSE]
         bound == {s \in Steps : db.step[s].dispatch = i}
     IN db' = IF ~Active(db) \/ bound = {} THEN sent
              ELSE Reconciled(Replace(sent, bound, LAMBDA s :
                     [db.step[s] EXCEPT !.status =
                       IF @ = "queued" THEN "running" ELSE @]))
  /\ UNCHANGED <<flight, woken, restarts>>

(* recordDispatchReport *)
Recorded(d, i) ==
  LET bound == {s \in Steps : d.step[s].dispatch = i /\ AwaitsReport(d, s)}
      r == Reconciled(Apply(d, bound))
  IN IF ~Active(d) \/ bound = {} THEN db' = d /\ UNCHANGED <<flight, woken>>
     ELSE IF bound \subseteq Quality THEN Schedule(r)
     ELSE IF r.status = "running" /\ \A s \in bound : r.step[s].status = "completed"
       THEN DispatchReady(r)
     ELSE db' = r /\ UNCHANGED <<flight, woken>>

(* reportTask: the ledger first, and then the workflow unless that throws  *)
(* or the server dies in between.                                          *)
Report(i, outcome, told) ==
  /\ Free
  /\ i \in Dispatches /\ IsOpen(db, i)
  /\ LET c == db.dispatch[i]
         d == [db EXCEPT !.dispatch[i] =
                 [c EXCEPT !.status = "reported", !.outcome = outcome,
                           !.revision = c.revision + 1, !.checked = FALSE]]
     IN IF told THEN Recorded(d, i)
        ELSE db' = d /\ UNCHANGED <<flight, woken>>
  /\ UNCHANGED restarts

(* acceptDispatchReport *)
Accept(i) ==
  /\ Free
  /\ i \in Dispatches /\ IsReported(db, i)
  /\ db.dispatch[i].outcome # "failed" /\ ~db.dispatch[i].accepted
  /\ Recorded([db EXCEPT !.dispatch[i].accepted = TRUE], i)
  /\ UNCHANGED restarts

(* sendDispatchFeedback: a rerun of the step, or the same dispatch again   *)
(* when no live run is bound to it.                                        *)
FeedbackReruns(i) ==
  /\ Free
  /\ i \in Dispatches /\ IsReported(db, i)
  /\ db.status \in {"running", "interrupted", "completed"}
  /\ \E s \in Steps : /\ db.step[s].dispatch = i /\ MayRerun(db, s)
                      /\ Schedule(RerunRequested(db, s))
  /\ UNCHANGED restarts

FeedbackReopens(i) ==
  /\ Free
  /\ i \in Dispatches /\ IsReported(db, i)
  /\ i \in Reopenable /\ db.dispatch[i].revision = 1
  /\ \/ db.status \in {"failed", "stopped"}
     \/ \A s \in Steps : db.step[s].dispatch # i
  /\ db' = [db EXCEPT !.dispatch[i] =
              [@ EXCEPT !.status = "submitted", !.outcome = "none",
                        !.accepted = FALSE, !.checked = FALSE]]
  /\ UNCHANGED <<flight, woken, restarts>>

(* rerun, asked for a step *)
Rerun(s) ==
  /\ Free
  /\ MayRerun(db, s)
  /\ Schedule(RerunRequested(StopReconciled(db), s))
  /\ UNCHANGED restarts

(* stop: the intent is stored before the work is cancelled, and a          *)
(* cancellation that throws leaves the later ones to the timer.            *)
Stop ==
  /\ Free
  /\ db.status \notin {"completed", "failed"}
  /\ LET d == IF db.status = "stopped" THEN db ELSE Stopped(db)
     IN \E ids \in SUBSET PendingStops(d) : db' = Cancel(d, ids)
  /\ UNCHANGED <<flight, woken, restarts>>

(* A change of one dispatch that nobody tells the workflow about.          *)
Alone(i, guard, dispatch) ==
  /\ Free
  /\ i \in Dispatches /\ guard
  /\ db' = [db EXCEPT !.dispatch[i] = dispatch]
  /\ UNCHANGED <<flight, woken, restarts>>

CancelTask(i) ==
  Alone(i, IsOpen(db, i), [db.dispatch[i] EXCEPT !.status = "cancelled"])

(* The worker acknowledges the cancellation, or a person vouches for it.   *)
ConfirmCancellation(i) ==
  Alone(i, db.dispatch[i].status = "cancelled" /\ ~db.dispatch[i].confirmed,
    [db.dispatch[i] EXCEPT !.confirmed = TRUE, !.uncertain = FALSE])

(* The delivery, or that of the cancellation, ends in doubt; and a person  *)
(* decides about it.                                                       *)
Doubt(i) ==
  Alone(i, /\ i \in Uncertain
           /\ ~db.dispatch[i].uncertain /\ ~db.dispatch[i].confirmed
           /\ db.dispatch[i].status \in {"queued", "cancelled"},
    [db.dispatch[i] EXCEPT !.uncertain = TRUE])

Decide(i) ==
  Alone(i, db.dispatch[i].uncertain, [db.dispatch[i] EXCEPT !.uncertain = FALSE])

(* The code that a report described changes.                               *)
Commit(i) ==
  Alone(i, /\ IsReported(db, i) /\ db.dispatch[i].step \in Quality
           /\ db.dispatch[i].commit < MaxCommits,
    [db.dispatch[i] EXCEPT !.commit = @ + 1, !.checked = FALSE])

(* Review and verification pass: evidenceChanged.                          *)
Check(i) ==
  /\ Free
  /\ i \in Dispatches /\ IsReported(db, i) /\ ~db.dispatch[i].checked
  /\ db.dispatch[i].step \in Quality /\ db.dispatch[i].outcome = "success"
  /\ LET d == [db EXCEPT !.dispatch[i].checked = TRUE]
     IN IF /\ d.status \in {"running", "interrupted", "completed"}
           /\ \E s \in Steps : d.step[s].dispatch = i
          THEN Schedule(d)
          ELSE db' = d /\ UNCHANGED <<flight, woken>>
  /\ UNCHANGED restarts

(* The server dies and a new one resumes the run by its timer.             *)
Restart ==
  /\ restarts < MaxRestarts
  /\ restarts' = restarts + 1
  /\ woken' = FALSE
  /\ flight' = Idle
  /\ UNCHANGED db

-----------------------------------------------------------------------------
NewRun == [status |-> "running", step |-> [s \in Steps |-> NewStep],
           dispatch |-> <<>>]

(* start: the run is stored and its first steps are looked for.            *)
Init ==
  /\ db = StartFlight(NewRun).db
  /\ flight = StartFlight(NewRun).flight
  /\ woken = FALSE
  /\ restarts = 0

Scheduler ==
  \/ Timer \/ Rescheduled \/ EvidenceRead
  \/ ReadyLeaves \/ ReadySkips \/ BeginDispatch \/ ReadyEnds
  \/ Create \/ CreateFails \/ Started \/ StartThrows

Worker(i) ==
  \/ Submit(i) \/ ConfirmCancellation(i) \/ Doubt(i) \/ Commit(i)
  \/ \E outcome \in Outcomes, told \in BOOLEAN : Report(i, outcome, told)

Person(i) ==
  \/ Accept(i) \/ FeedbackReruns(i) \/ FeedbackReopens(i)
  \/ CancelTask(i) \/ Decide(i) \/ Check(i)

Next ==
  \/ Scheduler
  \/ \E i \in Dispatches : Worker(i) \/ Person(i)
  \/ \E s \in Steps : Rerun(s)
  \/ EvidenceThrows
  \/ Stop
  \/ EvidenceDies
  \/ Restart

Spec == Init /\ [][Next]_vars

(* The timer ticks and what it started comes to an end, and a worktree     *)
(* operation that holds a dispatch back is over at times; nobody has to    *)
(* answer.  This is WF_vars(Scheduler) /\ SF_vars(BeginDispatch) with      *)
(* ENABLED written out.                                                    *)
SchedulerMayStep ==
  \/ ~At("idle") \/ woken
  \/ TimerSees(db) /\ StartFlight(db) # [db |-> db, flight |-> Idle]

FairSpec ==
  /\ Spec
  /\ []<>~SchedulerMayStep \/ []<><<Scheduler>>_vars
  /\ <>[]~MayBeginDispatch \/ []<><<BeginDispatch>>_vars

-----------------------------------------------------------------------------
(* The type of the run, its dispatches and the flight.                     *)
TypeOK ==
  /\ db \in [status: RunStatus, step: [Steps -> Step], dispatch: Seq(Dispatch)]
  /\ flight \in Flight
  /\ woken \in BOOLEAN
  /\ restarts \in 0..MaxRestarts

(* An attempt of a step is dispatched once, whatever reruns, stops, crashes *)
(* and failed starts do between choosing the step and creating its dispatch *)
(* (onCreated, and the attempt counter of settleRerun).                    *)
EachAttemptIsDispatchedOnce ==
  \A i, j \in Dispatches :
    /\ db.dispatch[i].step = db.dispatch[j].step
    /\ db.dispatch[i].attempt = db.dispatch[j].attempt
    => i = j

(* A later attempt of a step exists only when the earlier one has reported *)
(* or its end is confirmed: a rerun waits for the confirmation, and a      *)
(* cancellation that was only requested is no end (settleRerun).           *)
AttemptsDoNotOverlap ==
  \A i, j \in Dispatches :
    i < j /\ db.dispatch[i].step = db.dispatch[j].step
    => db.dispatch[i].revision > 0 \/ db.dispatch[i].confirmed

(* A step that goes on, or is done, was given the results that its         *)
(* dependencies have now: a dependency whose report, code or attempt       *)
(* changed holds back everything below it (requestRerun, refreshQuality);  *)
(* and a result is never that of an attempt that waits for its rerun,      *)
(* though evidence and reports of it still arrive.  Only a refreshQuality  *)
(* cut off between storing the step and holding back those below it leaves *)
(* these, and no others, on the result they had.                           *)
UsesCurrentResults(d, s) ==
  /\ d.step[s].result # NoResult =>
       ~OnHold(d, s) /\ d.step[s].result.dispatch = d.step[s].dispatch
  /\ HasDispatch(d, s) /\ ~OnHold(d, s) =>
       \A n \in Needs[s] : /\ d.step[n].result # NoResult
                           /\ d.step[s].used[n] = d.step[n].result

LeftBehind(s) == (EvidenceDies \/ EvidenceThrows) /\ s \in Stales

StepsKeepToCurrentResults ==
  [][\A s \in Steps : UsesCurrentResults(db, s) =>
       UsesCurrentResults(db', s) \/ LeftBehind(s)]_vars

(* A failed run leaves no worker at a task of it, unless a person gave the *)
(* task back by feedback or asked for a rerun of its step: failRun cancels *)
(* before it stores the failure, and dispatchReady looks again after the   *)
(* await in which the run may have ended.                                  *)
Reclaimed(i) ==
  \/ db.dispatch[i].revision > 0
  \/ \E s \in Pending(db) : db.step[s].dispatch = i

FailedRunsLeaveNoOpenWork ==
  db.status = "failed" /\ At("idle") =>
    \A i \in Dispatches : IsOpen(db, i) => Reclaimed(i)

(* New work is given out only while the run is running and no delivery or  *)
(* cancellation of it waits for a person's decision, whatever was the case *)
(* when the step was chosen (README.md:217, onCreated).                    *)
NewWorkAwaitsDecisions ==
  [][Len(db'.dispatch) > Len(db.dispatch) =>
       Active(db) /\ ~\E s \in Steps : Issue(db, s)]_vars

(* A report that reached the ledger but not the run, because the handler   *)
(* threw or the server died in between, moves its step on all the same,    *)
(* and so does evidence that arrives while a call is in flight: the timer  *)
(* reads both again (reports.refresh, refreshQuality).                     *)
Unapplied(s) ==
  /\ Active(db) /\ ~OnHold(db, s)
  /\ HasDispatch(db, s) /\ IsReported(db, db.step[s].dispatch)
  /\ \/ db.step[s].status \in {"queued", "running"}
     \/ db.step[s].status = "awaiting_review" /\ s \in Quality /\ CurrentOf(db, s).checked
ReportsAreApplied == \A s \in Steps : ~<>[]Unapplied(s)

(* A requested rerun starts once every execution it replaces has ended.    *)
Settleable ==
  /\ Pending(db) # {} /\ Active(db)
  /\ \A i \in Bound(db, Pending(db)) : IsReported(db, i) \/ db.dispatch[i].confirmed
  /\ \A s \in Steps : ~Issue(db, s)
RerunsSettle == ~<>[]Settleable

(* A step whose dependencies are complete is dispatched, though worktree   *)
(* operations hold it back at times, unless its run ends or is interrupted. *)
Waits(s) == db.status = "running" /\ StepIsReady(db, s)
              /\ \A t \in Steps : ~Issue(db, t)
ReadyStepsAreDispatched == \A s \in Steps : ~<>[]Waits(s)

(* Work of a stopped run is cancelled in the end: a stop that crashed or   *)
(* failed half way is taken up by the timer (workflow-stop-recovery.ts).   *)
StoppedWorkIsCancelled == ~<>[](PendingStops(db) # {})

(* A rerun that is pending waits for executions to be cancelled, as the    *)
(* refusal of a second one says, and will be taken up: it does not belong  *)
(* to a failed run, which the scheduler leaves alone and requestRerun      *)
(* refuses from then on.                                                   *)
PendingRerunsWait == Pending(db) # {} => db.status # "failed"

=============================================================================
